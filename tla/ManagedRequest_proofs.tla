--------------------- MODULE ManagedRequest_proofs ---------------------
(***************************************************************************)
(* Proofs about the requests of the managed API, for any paths, people,    *)
(* rights, batches and number of requests and crashes, and about the edit  *)
(* lock that their updates and deletes consult, for any users.             *)
(* The two modules share no name, so that one module can extend both;      *)
(* neither proof uses anything of the other.                               *)
(***************************************************************************)
EXTENDS ManagedRequest, EntryLock, TLAPS

(***************************************************************************)
(* Types and places.  The invariant of every other proof: where a request  *)
(* of a kind may stand, what it holds there, and that tasks belong to      *)
(* requests that were sent.                                                *)
(***************************************************************************)
\* The requests that load an entry, and those that look for codes
Loads == {"update", "r_replace", "assign", "update_acl", "delete", "move"}
Asks == {"create", "import", "register", "update", "r_replace"}
Working(r) == pc[r] \notin {"idle", "done"}

\* Where a request stands goes with what it is for, and what it holds with both.
Fits ==
  \A r \in Requests :
    /\ pc[r] = "idle" => at[r] = 1 /\ on[r] = 1 /\ copy[r] = None
    /\ pc[r] = "check" => Kind(r) \in {"create", "import", "upload"} /\ on[r] = at[r]
    /\ pc[r] = "load" => Kind(r) \in Loads
    /\ pc[r] = "body" => Kind(r) \in {"update", "r_replace"}
    /\ pc[r] = "search" => Kind(r) \in Asks
    /\ pc[r] \in {"load", "body", "search", "write"} => Rec(r).path # None
    /\ pc[r] = "write" /\ Kind(r) = "assign" => Rec(r).to # None
    /\ Working(r) => (copy[r] # None <=> Kind(r) \in Loads /\ pc[r] # "load")

\* What the assumptions say of a batch and of its records
LEMMA BatchFacts ==
  ASSUME NEW b \in Batches
  PROVE  /\ b # None /\ b.type \in Types
         /\ Len(b.records) \in Nat \ {0}
         /\ b.type \in {"upload", "register"} => Len(b.records) = 1
         /\ \A i \in 1..Len(b.records) :
              /\ b.records[i] \in Records
              /\ b.records[i].path = None => b.type = "import"
              /\ b.type = "register" => b.records[i].named
              /\ b.records[i].code # None => b.records[i].payload
              /\ b.type = "move" => b.records[i].dest \in Paths \ {b.records[i].path}
<1> b.type \in Types /\ b.records \in Seq(Records) /\ b.records # <<>> /\ b # None
  BY RecordAssumption, NameAssumption
<1> QED BY RecordAssumption

\* A request that has been sent is about a record of its batch, and the record has the
\* types and the limits that the assumptions give it.
LEMMA RecFacts ==
  ASSUME TypeOK, NEW r \in Requests, pc[r] # "idle"
  PROVE  /\ batch[r] \in Batches /\ who[r] \in People /\ Kind(r) \in Types
         /\ Len(batch[r].records) \in Nat \ {0}
         /\ at[r] \in 1..Len(batch[r].records) /\ on[r] \in 1..at[r]
         /\ on[r] \in 1..Len(batch[r].records)
         /\ Rec(r).path \in Paths \cup {None}
         /\ Rec(r).code \in Codes \cup {None}
         /\ Rec(r).to \in People \cup {None}
         /\ Rec(r).payload \in BOOLEAN /\ Rec(r).named \in BOOLEAN
         /\ Rec(r).path = None => Kind(r) = "import"
         /\ Kind(r) = "register" => Rec(r).named
         /\ Rec(r).code # None => Rec(r).payload
         /\ Kind(r) = "move" => Rec(r).dest \in Paths \ {Rec(r).path}
         /\ Kind(r) \in {"upload", "register"} => Len(batch[r].records) = 1
<1>1. /\ batch[r] \in Batches /\ who[r] \in People
      /\ at[r] \in 1..Len(batch[r].records) /\ on[r] \in 1..at[r]
  BY DEF TypeOK
<1>2. Len(batch[r].records) \in Nat /\ on[r] \in 1..Len(batch[r].records)
  BY <1>1, BatchFacts
<1>3. Rec(r) \in Records
  BY <1>1, <1>2, BatchFacts DEF Rec
<1>4. Rec(r).path \in Paths \cup {None} /\ Rec(r).code \in Codes \cup {None} /\ Rec(r).to \in People \cup {None}
      /\ Rec(r).payload \in BOOLEAN /\ Rec(r).named \in BOOLEAN
  BY <1>3 DEF Records
<1> QED BY <1>1, <1>2, <1>4, BatchFacts DEF Kind, Rec

\* Tasks belong to requests that were sent.
Sent == \A t \in tasks : pc[t.of] # "idle"

\* TypeOK in two parts, the requests and the rest
AskType ==
  /\ who \in [Requests -> People \cup {None}]
  /\ batch \in [Requests -> Batches \cup {None}]
  /\ pc \in [Requests -> Points]
  /\ \A r \in Requests : pc[r] # "idle" => /\ batch[r] # None /\ who[r] # None
                                           /\ at[r] \in 1..Len(batch[r].records)
                                           /\ on[r] \in 1..at[r]
  /\ at \in [Requests -> Nat] /\ on \in [Requests -> Nat]
  /\ copy \in [Requests -> Entries \cup {None}]
  /\ listed \in [Requests -> SUBSET Nat] /\ failed \in [Requests -> SUBSET Nat]
  /\ answer \in [Requests -> {None, "success", "failed", "error"}]

WorldType ==
  /\ files \in [Paths -> Entries \cup {None}]
  /\ docs \in [Paths -> Docs \cup {None}]
  /\ locked \subseteq Paths
  /\ tasks \subseteq Tasks
  /\ crashes \in 0..MaxCrashes
  /\ done \in [Requests -> SUBSET Nat]
  /\ owed \in [Paths -> People \cup {None}]
  /\ met \subseteq Requests /\ late \subseteq Requests
  /\ unsure \subseteq Paths /\ overtaken \subseteq Paths

\* TypeOK falls into the part of the requests and the rest.
LEMMA TypeParts == AskType' /\ WorldType' => TypeOK'
BY DEF TypeOK, AskType, WorldType

\* Where the turn of a record begins
LEMMA OpeningPoint ==
  ASSUME NEW type \in Types
  PROVE  /\ Opening(type) \in {"check", "search", "load"}
         /\ Opening(type) = "check" <=> type \in {"create", "import", "upload"}
         /\ Opening(type) = "search" <=> type = "register"
         /\ Opening(type) = "load" <=> type \in Loads
BY DEF Types, Opening, Loads

\* The first turn is over when a later one begins.
LEMMA Above ==
  ASSUME NEW n \in Nat, NEW m \in Nat, 1 <= n, n < m
  PROVE  m # 1
OBVIOUS

\* The next record has its turn, or the request is answered: every request stands where
\* its kind may stand.
LEMMA TurnParts ==
  ASSUME TypeOK, Fits, NEW r \in Requests, Working(r),
         NEW good \in SUBSET Nat, NEW bad \in SUBSET Nat, Turn(r, good, bad)
  PROVE  AskType' /\ Fits'
<1> DEFINE b == batch[r]
<1>1. b \in Batches /\ at[r] \in 1..Len(b.records) /\ on[r] \in 1..at[r] /\ Len(b.records) \in Nat
      /\ Kind(r) \in Types /\ (Kind(r) \in {"upload", "register"} => Len(b.records) = 1)
  BY RecFacts DEF Working
<1>2. copy' = [copy EXCEPT ![r] = None] /\ who' = who /\ batch' = batch
      /\ listed' = [listed EXCEPT ![r] = @ \cup good] /\ failed' = [failed EXCEPT ![r] = @ \cup bad]
  BY DEF Turn
<1>3. CASE at[r] < Len(b.records)
  <2>1. /\ at' = [at EXCEPT ![r] = @ + 1] /\ on' = [on EXCEPT ![r] = at[r] + 1]
        /\ pc' = [pc EXCEPT ![r] = Opening(Kind(r))] /\ answer' = answer
    BY <1>3 DEF Turn, Goto
  <2>2. Opening(Kind(r)) \in {"check", "load"} /\ Kind(r) # "register"
    <3>1. Kind(r) \notin {"upload", "register"}
      <4>1. at[r] \in Nat /\ 1 <= at[r] /\ at[r] < Len(b.records) /\ Len(b.records) \in Nat
        BY <1>1, <1>3
      <4>2. Len(b.records) # 1
        BY <4>1, Above
      <4> QED BY <1>1, <4>2
    <3> QED BY <1>1, <3>1, OpeningPoint
  <2>3. AskType'
    <3>1. /\ pc' \in [Requests -> Points] /\ copy' \in [Requests -> Entries \cup {None}]
          /\ at' \in [Requests -> Nat] /\ on' \in [Requests -> Nat]
      BY <1>2, <2>1, <2>2 DEF TypeOK, Points
    <3>2. /\ listed' \in [Requests -> SUBSET Nat] /\ failed' \in [Requests -> SUBSET Nat]
      BY <1>2 DEF TypeOK
    <3>3. ASSUME NEW o \in Requests, pc'[o] # "idle"
          PROVE  batch'[o] # None /\ who'[o] # None /\ at'[o] \in 1..Len(batch'[o].records) /\ on'[o] \in 1..at'[o]
      <4>1. CASE o = r
        BY <1>1, <1>2, <1>3, <2>1, <4>1 DEF TypeOK, Working
      <4>2. CASE o # r
        BY <1>2, <2>1, <3>3, <4>2 DEF TypeOK
      <4> QED BY <4>1, <4>2
    <3> QED BY <1>2, <2>1, <3>1, <3>2, <3>3 DEF TypeOK, AskType
  <2>4. Rec(r)' = b.records[at[r] + 1] /\ Kind(r)' = Kind(r)
    BY <1>2, <2>1 DEF Rec, Kind, TypeOK
  <2>5. Kind(r) # "import" => Rec(r)'.path # None
    BY <1>1, <1>3, <2>4, BatchFacts DEF Kind
  <2>6. \A o \in Requests \ {r} : Rec(o)' = Rec(o) /\ Kind(o)' = Kind(o) /\ pc'[o] = pc[o] /\ copy'[o] = copy[o]
                                  /\ at'[o] = at[o] /\ on'[o] = on[o]
    BY <1>2, <2>1 DEF Rec, Kind, TypeOK
  <2>7. pc'[r] = Opening(Kind(r)) /\ copy'[r] = None /\ on'[r] = at'[r]
    BY <1>2, <2>1 DEF TypeOK
  <2> QED BY <1>1, <2>2, <2>3, <2>4, <2>5, <2>6, <2>7, OpeningPoint DEF Fits, Working, Loads
<1>4. CASE ~(at[r] < Len(b.records))
  <2>1. at' = at /\ on' = on /\ pc' = [pc EXCEPT ![r] = "done"]
    BY <1>4 DEF Turn, Goto
  <2>2. \E v \in {"success", "failed"} : answer' = [answer EXCEPT ![r] = v]
    BY <1>4 DEF Turn
  <2>3. AskType'
    <3>1. /\ pc' \in [Requests -> Points] /\ copy' \in [Requests -> Entries \cup {None}]
      BY <1>2, <2>1 DEF TypeOK, Points
    <3>2. /\ listed' \in [Requests -> SUBSET Nat] /\ failed' \in [Requests -> SUBSET Nat]
          /\ answer' \in [Requests -> {None, "success", "failed", "error"}]
      BY <1>2, <2>2 DEF TypeOK
    <3>3. ASSUME NEW o \in Requests, pc'[o] # "idle"
          PROVE  pc[o] # "idle"
      BY <2>1, <3>3 DEF TypeOK, Working
    <3> QED BY <1>2, <2>1, <3>1, <3>2, <3>3 DEF TypeOK, AskType
  <2>4. Fits'
    BY <1>2, <2>1 DEF Fits, TypeOK, Working, Rec, Kind
  <2> QED BY <2>3, <2>4
<1> QED BY <1>3, <1>4

\* So it does after an error that the loop does not catch,
LEMMA EscapeParts ==
  ASSUME TypeOK, Fits, NEW r \in Requests, Working(r), Escape(r)
  PROVE  AskType' /\ Fits'
<1>1. CASE Kind(r) = "import"
  <2>1. Turn(r, {}, {on[r]}) /\ on[r] \in Nat
    BY <1>1 DEF Escape, RowFails, TypeOK
  <2> QED BY <2>1, TurnParts
<1>2. CASE Kind(r) # "import"
  <2>1. /\ pc' = [pc EXCEPT ![r] = "done"] /\ answer' = [answer EXCEPT ![r] = "error"]
        /\ who' = who /\ batch' = batch /\ at' = at /\ on' = on /\ copy' = copy
        /\ listed' = listed /\ failed' = failed
    BY <1>2 DEF Escape, Goto, askVars
  <2>2. AskType'
    BY <2>1 DEF TypeOK, AskType, Points, Working
  <2>3. Fits'
    BY <2>1 DEF Fits, TypeOK, Working, Rec, Kind
  <2> QED BY <2>2, <2>3
<1> QED BY <1>1, <1>2

\* and after a record that failed.
LEMMA FailParts ==
  ASSUME TypeOK, Fits, NEW r \in Requests, Working(r), Fail(r) \/ Refuse(r)
  PROVE  AskType' /\ Fits'
<1>1. on[r] \in Nat
  BY DEF TypeOK
<1>2. Turn(r, {}, {on[r]}) \/ Escape(r)
  BY DEF Fail, Refuse
<1> QED BY <1>1, <1>2, TurnParts, EscapeParts

\* LoadEntry refuses the record or keeps a copy of the entry, whatever the request is for.
LEMMA LoadCases ==
  ASSUME NEW r, Kind(r) \in Loads, LoadEntry(r)
  PROVE  \/ Refuse(r)
         \/ /\ Exists(Rec(r).path) /\ (Kind(r) = "assign" => Rec(r).to # None)
            /\ copy' = [copy EXCEPT ![r] = files[Rec(r).path]]
            /\ pc' = [pc EXCEPT ![r] = IF Kind(r) \in {"update", "r_replace"} THEN "body" ELSE "write"]
            /\ UNCHANGED <<askVars, replyVars>>
<1>1. CASE Kind(r) = "update" BY <1>1 DEF LoadEntry, Goto, CanUpdate
<1>2. CASE Kind(r) = "r_replace" BY <1>2 DEF LoadEntry, Goto, CanUpdate
<1>3. CASE Kind(r) = "assign" BY <1>3 DEF LoadEntry, Goto, CanAssign
<1>4. CASE Kind(r) = "update_acl" BY <1>4 DEF LoadEntry, Goto, CanSetAcl
<1>5. CASE Kind(r) = "delete" BY <1>5 DEF LoadEntry, Goto, CanDelete
<1>6. CASE Kind(r) = "move" BY <1>6 DEF LoadEntry, Goto, CanMove
<1> QED BY <1>1, <1>2, <1>3, <1>4, <1>5, <1>6 DEF Loads

\* What is written, by the kind of the request
LEMMA ChangedIs ==
  ASSUME NEW r
  PROVE  /\ Kind(r) \in {"update", "r_replace"} => Changed(r) = Updated(r)
         /\ Kind(r) = "assign" => Changed(r) = Assigned(r)
         /\ Kind(r) = "update_acl" => Changed(r) = WithAcl(r)
<1>1. CASE Kind(r) \in {"update", "r_replace"} BY <1>1 DEF Changed
<1>2. CASE Kind(r) = "assign" BY <1>2 DEF Changed
<1>3. CASE Kind(r) = "update_acl" BY <1>3 DEF Changed
<1> QED BY <1>1, <1>2, <1>3

\* The code that an update leaves in the payload file, case by case
LEMMA NewCodeIs ==
  ASSUME NEW r, Rec(r).payload \in BOOLEAN
  PROVE  /\ ~Rec(r).payload => NewCode(r) = files[Rec(r).path].code
         /\ Rec(r).payload /\ Rec(r).code = None /\ Kind(r) = "update" => NewCode(r) = copy[r].code
         /\ Rec(r).payload /\ ~(Rec(r).code = None /\ Kind(r) = "update") => NewCode(r) = Rec(r).code
<1>1. CASE ~Rec(r).payload BY <1>1 DEF NewCode
<1>2. CASE Rec(r).payload /\ Rec(r).code = None /\ Kind(r) = "update" BY <1>2 DEF NewCode
<1>3. CASE Rec(r).payload /\ ~(Rec(r).code = None /\ Kind(r) = "update") BY <1>3 DEF NewCode
<1> QED BY <1>1, <1>2, <1>3

\* The record of another request stays what it was.
LEMMA OthersKeep ==
  ASSUME NEW r, NEW o \in Requests \ {r}, TypeOK, batch' = batch,
         NEW x, on' = on \/ on' = [on EXCEPT ![r] = x]
  PROVE  Rec(o)' = Rec(o) /\ Kind(o)' = Kind(o)
BY DEF Rec, Kind, TypeOK

\* A request goes on with its record.
LEMMA AdvanceParts ==
  ASSUME TypeOK, Fits, NEW r \in Requests, Working(r), NEW p \in {"body", "search", "write"},
         NEW x \in Entries \cup {None},
         pc' = [pc EXCEPT ![r] = p], copy' = [copy EXCEPT ![r] = x],
         who' = who, batch' = batch, at' = at, on' = on, listed' = listed, failed' = failed, answer' = answer,
         x # None <=> Kind(r) \in Loads,
         p = "body" => Kind(r) \in {"update", "r_replace"},
         p = "search" => Kind(r) \in Asks,
         Rec(r).path # None,
         p = "write" /\ Kind(r) = "assign" => Rec(r).to # None
  PROVE  AskType' /\ Fits'
<1>1. AskType'
  BY DEF TypeOK, AskType, Points, Working
<1>2. Rec(r)' = Rec(r) /\ Kind(r)' = Kind(r) /\ pc'[r] = p /\ copy'[r] = x
  BY DEF Rec, Kind, TypeOK
<1>3. \A o \in Requests \ {r} : Rec(o)' = Rec(o) /\ Kind(o)' = Kind(o) /\ pc'[o] = pc[o] /\ copy'[o] = copy[o]
  BY DEF Rec, Kind, TypeOK
<1> QED BY <1>1, <1>2, <1>3 DEF Fits, Working, Loads

\* An announcement is a task.
LEMMA AnnounceType ==
  ASSUME TypeOK, NEW r \in Requests, pc[r] # "idle", NEW act \in {"put", "del", "move"},
         NEW p \in Paths, NEW q \in Paths \cup {None}, Announce(r, act, p, q)
  PROVE  tasks' \subseteq Tasks
BY DEF Announce, TypeOK, Tasks

\* What is written to a new path is an entry,
LEMMA NewEntry ==
  ASSUME NEW c \in Codes \cup {None}, NEW u \in People
  PROVE  [code |-> c, owner |-> u] \in Entries
BY DEF Entries

\* and so is what an update writes.
LEMMA ChangedEntry ==
  ASSUME TypeOK, Fits, NEW r \in Requests, pc[r] = "write",
         Kind(r) \in {"update", "r_replace", "assign", "update_acl"}, Exists(Rec(r).path)
  PROVE  Rec(r).path \in Paths /\ Changed(r) \in Entries
<1>1. /\ copy[r] \in Entries /\ Rec(r).path \in Paths
      /\ (Kind(r) = "assign" => Rec(r).to \in People)
  BY RecFacts DEF TypeOK, Fits, Working, Loads
<1>2. files[Rec(r).path] \in Entries
  BY <1>1 DEF TypeOK, Exists
<1>3. NewCode(r) \in Codes \cup {None}
  BY <1>1, <1>2, RecFacts, NewCodeIs DEF Entries
<1>4. Updated(r) \in Entries /\ WithAcl(r) \in Entries
  BY <1>1, <1>2, <1>3 DEF Updated, WithAcl, Entries
<1>5. CASE Kind(r) = "assign"
  <2>1. Assigned(r) \in Entries
    BY <1>1, <1>2, <1>5 DEF Assigned, Entries
  <2> QED BY <2>1, <1>1, <1>5, ChangedIs
<1> QED BY <1>1, <1>4, <1>5, ChangedIs

\* Mark stays among the elements it is given.
LEMMA MarkType ==
  ASSUME NEW S, NEW set \in SUBSET S, NEW p \in S, NEW in
  PROVE  Mark(set, p, in) \in SUBSET S
BY DEF Mark

\* Nothing happens to the requests.
LEMMA KeepAsk ==
  ASSUME TypeOK, Fits, UNCHANGED <<askVars, pc, copy, replyVars>>
  PROVE  AskType' /\ Fits'
<1>1. AskType'
  BY DEF TypeOK, AskType, askVars, replyVars
<1>2. Fits'
  BY DEF Fits, Working, Rec, Kind, askVars
<1> QED BY <1>1, <1>2

\* Nor to the rest when a record has no effect.
LEMMA NoEffectWorld ==
  ASSUME TypeOK, NEW r \in Requests, NoEffect(r), UNCHANGED <<docs, locked, crashes>>
  PROVE  WorldType'
BY DEF NoEffect, Fresh, TypeOK, WorldType

\* Types and places, action by action: a request is sent.
LEMMA BaseBegin ==
  ASSUME TypeOK, Fits, NEW r \in Requests, Begin(r)
  PROVE  AskType' /\ Fits' /\ WorldType'
<1>1. PICK u \in People, b \in Batches :
        /\ who' = [who EXCEPT ![r] = u] /\ batch' = [batch EXCEPT ![r] = b]
        /\ pc' = [pc EXCEPT ![r] = Opening(b.type)]
  BY DEF Begin, Goto
<1>2. /\ pc[r] = "idle" /\ at[r] = 1 /\ on[r] = 1 /\ copy[r] = None
      /\ at' = at /\ on' = on /\ copy' = copy /\ listed' = listed /\ failed' = failed /\ answer' = answer
      /\ UNCHANGED <<files, docs, locked, tasks, crashes, historyVars>>
  BY DEF Begin, Fits, replyVars
<1>3. /\ b # None /\ u # None /\ b.type \in Types /\ Len(b.records) \in Nat \ {0}
      /\ b.records[1] \in Records /\ (b.records[1].path = None => b.type = "import")
  BY BatchFacts, NameAssumption
<1>4. Opening(b.type) \in {"check", "search", "load"}
  BY <1>3, OpeningPoint
<1>5. AskType'
  <2>1. pc' \in [Requests -> Points]
    BY <1>1, <1>4 DEF TypeOK, Points
  <2>2. ASSUME NEW o \in Requests, pc'[o] # "idle"
        PROVE  batch'[o] # None /\ who'[o] # None /\ at'[o] \in 1..Len(batch'[o].records) /\ on'[o] \in 1..at'[o]
    <3>1. CASE o = r
      BY <1>1, <1>2, <1>3, <3>1 DEF TypeOK
    <3>2. CASE o # r
      BY <1>1, <1>2, <2>2, <3>2 DEF TypeOK
    <3> QED BY <3>1, <3>2
  <2> QED BY <1>1, <1>2, <2>1, <2>2 DEF TypeOK, AskType
<1>6. Rec(r)' = b.records[1] /\ Kind(r)' = b.type /\ pc'[r] = Opening(b.type)
  BY <1>1, <1>2 DEF Rec, Kind, TypeOK
<1>7. \A o \in Requests \ {r} : Rec(o)' = Rec(o) /\ Kind(o)' = Kind(o) /\ pc'[o] = pc[o]
  BY <1>1, <1>2 DEF Rec, Kind, TypeOK
<1>8. Fits'
  BY <1>2, <1>3, <1>4, <1>6, <1>7, OpeningPoint DEF Fits, Working, Loads, Asks
<1>9. WorldType'
  BY <1>2 DEF TypeOK, WorldType, historyVars
<1> QED BY <1>5, <1>8, <1>9

\* The access check and is_entry_exist of create and import
LEMMA BaseCheckNew ==
  ASSUME TypeOK, Fits, NEW r \in Requests, CheckNew(r)
  PROVE  AskType' /\ Fits' /\ WorldType'
<1>0. /\ Working(r) /\ Kind(r) \in {"create", "import"} /\ on[r] = at[r] /\ on[r] \in Nat
      /\ copy[r] = None
  BY DEF CheckNew, Working, Fits, TypeOK, Loads
<1>1. Substitute(r) \in 1..at[r] /\ (Substitute(r) = on[r] \/ Kind(r) = "create")
  BY <1>0, RecFacts DEF Substitute, Working
<1>2. WorldType'
  BY DEF CheckNew, Fresh, TypeOK, WorldType
<1>3. CASE ~(~NoRecord(r) /\ Allowed(r, "create") /\ ~Exists(batch[r].records[Substitute(r)].path))
  <2>1. Turn(r, {}, {}) \/ Fail(r) \/ Turn(r, {}, {Substitute(r)})
    BY <1>3 DEF CheckNew
  <2>2. {Substitute(r)} \in SUBSET Nat
    BY <1>1
  <2> QED BY <1>0, <1>2, <2>1, <2>2, TurnParts, FailParts
<1>4. CASE ~NoRecord(r) /\ Allowed(r, "create") /\ ~Exists(batch[r].records[Substitute(r)].path)
  <2> DEFINE i == Substitute(r)
  <2>1. /\ on' = [on EXCEPT ![r] = i] /\ pc' = [pc EXCEPT ![r] = "search"]
        /\ who' = who /\ batch' = batch /\ at' = at /\ copy' = copy
        /\ listed' = listed /\ failed' = failed /\ answer' = answer
    BY <1>4 DEF CheckNew, Goto, replyVars
  <2>2. AskType'
    <3>1. pc' \in [Requests -> Points] /\ on' \in [Requests -> Nat]
      BY <1>1, <2>1 DEF TypeOK, Points
    <3>2. ASSUME NEW o \in Requests, pc'[o] # "idle"
          PROVE  pc[o] # "idle" /\ on'[o] \in 1..at'[o]
      <4>1. CASE o = r
        BY <1>0, <1>1, <2>1, <4>1 DEF TypeOK, Working
      <4>2. CASE o # r
        BY <2>1, <3>2, <4>2 DEF TypeOK
      <4> QED BY <4>1, <4>2
    <3> QED BY <2>1, <3>1, <3>2 DEF TypeOK, AskType
  <2>3. Rec(r)' = batch[r].records[i] /\ Kind(r)' = Kind(r) /\ pc'[r] = "search" /\ copy'[r] = copy[r]
    BY <2>1 DEF Rec, Kind, TypeOK
  <2>4. \A o \in Requests \ {r} : Rec(o)' = Rec(o) /\ Kind(o)' = Kind(o) /\ pc'[o] = pc[o] /\ on'[o] = on[o]
    BY <2>1 DEF Rec, Kind, TypeOK
  <2>5. batch[r].records[i].path # None
    <3>1. CASE i = on[r]
      BY <1>4, <3>1 DEF NoRecord, Rec
    <3>2. CASE i # on[r]
      <4>1. Kind(r) = "create" /\ i \in 1..Len(batch[r].records) /\ batch[r] \in Batches
        BY <1>0, <1>1, <3>2, RecFacts DEF Working
      <4> QED BY <4>1, BatchFacts DEF Kind
    <3> QED BY <3>1, <3>2
  <2>6. Fits'
    BY <1>0, <2>1, <2>3, <2>4, <2>5 DEF Fits, Working, Loads, Asks
  <2> QED BY <1>2, <2>2, <2>6
<1> QED BY <1>3, <1>4

\* The access check of an upload
LEMMA BaseUpload ==
  ASSUME TypeOK, Fits, NEW r \in Requests, Upload(r)
  PROVE  AskType' /\ Fits' /\ WorldType'
<1>1. /\ Working(r) /\ Kind(r) = "upload" /\ copy[r] = None /\ Rec(r).path # None
  BY RecFacts DEF Upload, Working, Fits, Loads
<1>2. WorldType'
  BY DEF Upload, TypeOK, WorldType, historyVars
<1>3. CASE Allowed(r, "create")
  <2>1. /\ pc' = [pc EXCEPT ![r] = "write"] /\ copy' = [copy EXCEPT ![r] = None]
        /\ who' = who /\ batch' = batch /\ at' = at /\ on' = on
        /\ listed' = listed /\ failed' = failed /\ answer' = answer
    BY <1>1, <1>3 DEF Upload, Goto, replyVars, askVars, TypeOK
  <2> QED BY <1>1, <1>2, <2>1, AdvanceParts DEF Loads
<1>4. CASE ~Allowed(r, "create")
  BY <1>1, <1>2, <1>4, EscapeParts DEF Upload
<1> QED BY <1>3, <1>4

\* validate_uniqueness
LEMMA BaseSearch ==
  ASSUME TypeOK, Fits, NEW r \in Requests, Search(r)
  PROVE  AskType' /\ Fits' /\ WorldType'
<1>1. /\ Working(r) /\ Kind(r) \in Asks /\ Rec(r).path # None
      /\ (copy[r] # None <=> Kind(r) \in Loads) /\ copy[r] \in Entries \cup {None}
  BY DEF Search, Working, Fits, TypeOK
<1>2. WorldType'
  BY DEF Search, TypeOK, WorldType, Fresh, Mark
<1>3. CASE Searched(r) /\ Found(r)
  BY <1>1, <1>2, <1>3, FailParts DEF Search
<1>4. CASE ~(Searched(r) /\ Found(r))
  <2>1. /\ pc' = [pc EXCEPT ![r] = "write"] /\ copy' = [copy EXCEPT ![r] = copy[r]]
        /\ who' = who /\ batch' = batch /\ at' = at /\ on' = on
        /\ listed' = listed /\ failed' = failed /\ answer' = answer
    BY <1>4 DEF Search, Goto, replyVars, askVars, TypeOK
  <2> QED BY <1>1, <1>2, <2>1, AdvanceParts DEF Asks
<1> QED BY <1>3, <1>4

\* The entry is loaded,
LEMMA BaseLoadEntry ==
  ASSUME TypeOK, Fits, NEW r \in Requests, LoadEntry(r)
  PROVE  AskType' /\ Fits' /\ WorldType'
<1>1. Working(r) /\ Kind(r) \in Loads /\ Rec(r).path # None
  BY DEF LoadEntry, Working, Fits
<1>2. WorldType'
  BY DEF LoadEntry, TypeOK, WorldType, Fresh
<1>3. CASE Refuse(r)
  BY <1>1, <1>2, <1>3, FailParts
<1>4. CASE /\ Exists(Rec(r).path) /\ (Kind(r) = "assign" => Rec(r).to # None)
           /\ copy' = [copy EXCEPT ![r] = files[Rec(r).path]]
           /\ pc' = [pc EXCEPT ![r] = IF Kind(r) \in {"update", "r_replace"} THEN "body" ELSE "write"]
           /\ UNCHANGED <<askVars, replyVars>>
  <2>1. /\ who' = who /\ batch' = batch /\ at' = at /\ on' = on
        /\ listed' = listed /\ failed' = failed /\ answer' = answer
    BY <1>4 DEF replyVars, askVars
  <2>2. files[Rec(r).path] \in Entries \cup {None} /\ files[Rec(r).path] # None
    BY <1>1, <1>4, RecFacts DEF TypeOK, Exists, Working
  <2>3. CASE Kind(r) \in {"update", "r_replace"}
    <3>1. pc' = [pc EXCEPT ![r] = "body"]
      BY <1>4, <2>3
    <3> QED BY <1>1, <1>2, <1>4, <2>1, <2>2, <2>3, <3>1, AdvanceParts
  <2>4. CASE Kind(r) \notin {"update", "r_replace"}
    <3>1. pc' = [pc EXCEPT ![r] = "write"]
      BY <1>4, <2>4
    <3> QED BY <1>1, <1>2, <1>4, <2>1, <2>2, <3>1, AdvanceParts
  <2> QED BY <2>3, <2>4
<1> QED BY <1>1, <1>3, <1>4, LoadCases

\* and its payload.
LEMMA BaseLoadBody ==
  ASSUME TypeOK, Fits, NEW r \in Requests, LoadBody(r)
  PROVE  AskType' /\ Fits' /\ WorldType'
<1>1. /\ Working(r) /\ Kind(r) \in {"update", "r_replace"} /\ Rec(r).path # None
      /\ copy[r] \in Entries
  BY DEF LoadBody, Working, Fits, Loads, TypeOK
<1>2. WorldType'
  BY DEF LoadBody, TypeOK, WorldType, Fresh
<1>3. CASE ~Exists(Rec(r).path) /\ Kind(r) = "update"
  BY <1>1, <1>2, <1>3, FailParts DEF LoadBody
<1>4. CASE ~(~Exists(Rec(r).path) /\ Kind(r) = "update")
  <2> DEFINE c == IF Exists(Rec(r).path) THEN files[Rec(r).path].code ELSE None
             x == [copy[r] EXCEPT !.code = c]
  <2>1. c \in Codes \cup {None}
    BY <1>1, RecFacts DEF TypeOK, Exists, Working, Entries
  <2>2. x \in Entries
    BY <1>1, <2>1 DEF Entries
  <2>3. /\ pc' = [pc EXCEPT ![r] = "search"] /\ copy' = [copy EXCEPT ![r] = x]
        /\ who' = who /\ batch' = batch /\ at' = at /\ on' = on
        /\ listed' = listed /\ failed' = failed /\ answer' = answer
    BY <1>4 DEF LoadBody, Goto, replyVars, askVars, TypeOK
  <2>4. x # None /\ Kind(r) \in Loads /\ Kind(r) \in Asks
    BY <1>1, <2>2, NameAssumption DEF Loads, Asks
  <2>5. AskType' /\ Fits'
    <3> HIDE DEF x
    <3> QED BY <1>1, <2>2, <2>3, <2>4, AdvanceParts
  <2> QED BY <1>2, <2>5
<1> QED BY <1>3, <1>4

\* A new entry is written,
LEMMA BasePutNew ==
  ASSUME TypeOK, Fits, NEW r \in Requests, pc[r] = "write", PutNew(r),
         UNCHANGED <<docs, locked, crashes>>
  PROVE  AskType' /\ Fits' /\ WorldType'
<1>1. Working(r) /\ Rec(r).path \in Paths /\ on[r] \in Nat
  BY RecFacts DEF Working, Fits, TypeOK
<1>2. AskType' /\ Fits'
  BY <1>1, TurnParts DEF PutNew
<1>3. [code |-> Rec(r).code, owner |-> who[r]] \in Entries /\ who[r] \in People
  BY <1>1, RecFacts, NewEntry DEF Working
<1>4. tasks' \subseteq Tasks
  BY <1>1, AnnounceType DEF PutNew, Working
<1>5. unsure' \subseteq Paths
  BY <1>1, MarkType DEF PutNew, TypeOK
<1>6. met' \subseteq Requests /\ late' \subseteq Requests /\ done' \in [Requests -> SUBSET Nat]
  BY <1>1 DEF PutNew, Writes, Missed, Outdated, TypeOK
<1>7. /\ files' \in [Paths -> Entries \cup {None}] /\ owed' \in [Paths -> People \cup {None}]
      /\ overtaken' \subseteq Paths
  BY <1>1, <1>3 DEF PutNew, TypeOK
<1> QED BY <1>2, <1>4, <1>5, <1>6, <1>7 DEF WorldType, TypeOK

\* by create, import, upload or registration, if it fits.
LEMMA BaseWriteNew ==
  ASSUME TypeOK, Fits, NEW r \in Requests, WriteNew(r) \/ Register(r)
  PROVE  AskType' /\ Fits' /\ WorldType'
<1>1. Working(r) /\ pc[r] = "write" /\ UNCHANGED <<docs, locked, crashes>>
  BY DEF WriteNew, Register, Working
<1>2. CASE PutNew(r)
  BY <1>1, <1>2, BasePutNew
<1>3. CASE Escape(r) /\ NoEffect(r)
  BY <1>1, <1>3, EscapeParts, NoEffectWorld
<1> QED BY <1>2, <1>3 DEF WriteNew, Register

\* An entry is changed,
LEMMA BaseWriteOld ==
  ASSUME TypeOK, Fits, NEW r \in Requests, WriteOld(r)
  PROVE  AskType' /\ Fits' /\ WorldType'
<1> DEFINE p == Rec(r).path
<1>1. /\ Working(r) /\ p \in Paths /\ on[r] \in Nat /\ pc[r] = "write"
      /\ UNCHANGED <<docs, locked, crashes>>
      /\ Kind(r) \in {"update", "r_replace", "assign", "update_acl"}
  BY RecFacts DEF WriteOld, Working, Fits, TypeOK
<1>2. CASE Escape(r) /\ NoEffect(r)
  BY <1>1, <1>2, EscapeParts, NoEffectWorld
<1>3. CASE Fail(r) /\ NoEffect(r)
  BY <1>1, <1>3, FailParts, NoEffectWorld
<1>4. CASE /\ Exists(p) /\ files' = [files EXCEPT ![p] = Changed(r)]
           /\ Turn(r, {on[r]}, {}) /\ Announce(r, "put", p, None)
           /\ Writes(r, {p}, Kind(r) = "assign")
           /\ owed' = [owed EXCEPT ![p] = IF Kind(r) = "assign" THEN Rec(r).to ELSE @]
           /\ overtaken' = Mark(overtaken, p, Kind(r) # "assign" /\ (p \in overtaken \/ r \in late))
           /\ unsure' = Mark(unsure, p, Doubted(r))
  <2>1. AskType' /\ Fits'
    BY <1>1, <1>4, TurnParts
  <2>2. Changed(r) \in Entries
    BY <1>1, <1>4, ChangedEntry
  <2>3. tasks' \subseteq Tasks
    BY <1>1, <1>4, AnnounceType DEF Working
  <2>4. unsure' \subseteq Paths /\ overtaken' \subseteq Paths
    BY <1>1, <1>4, MarkType DEF TypeOK
  <2>5. met' \subseteq Requests /\ late' \subseteq Requests /\ done' \in [Requests -> SUBSET Nat]
    BY <1>1, <1>4 DEF Writes, Missed, Outdated, TypeOK
  <2>6. files' \in [Paths -> Entries \cup {None}] /\ owed' \in [Paths -> People \cup {None}]
    BY <1>1, <1>4, <2>2, RecFacts DEF TypeOK, Working
  <2> QED BY <1>1, <2>1, <2>3, <2>4, <2>5, <2>6 DEF WorldType, TypeOK
<1> QED BY <1>2, <1>3, <1>4 DEF WriteOld

\* deleted,
LEMMA BaseRemove ==
  ASSUME TypeOK, Fits, NEW r \in Requests, Remove(r)
  PROVE  AskType' /\ Fits' /\ WorldType'
<1> DEFINE p == Rec(r).path
<1>1. /\ Working(r) /\ p \in Paths /\ on[r] \in Nat /\ pc[r] = "write"
      /\ UNCHANGED <<docs, locked, crashes>> /\ Announce(r, "del", p, None)
  BY RecFacts DEF Remove, Working, Fits, TypeOK
<1>2. tasks' \subseteq Tasks
  BY <1>1, AnnounceType DEF Working
<1>3. CASE Turn(r, {on[r]}, {on[r]}) /\ Spoils(r, {p}) /\ UNCHANGED <<files, done, owed, overtaken>>
  <2>1. AskType' /\ Fits'
    BY <1>1, <1>3, TurnParts
  <2> QED BY <1>1, <1>2, <1>3, <2>1 DEF WorldType, TypeOK, Spoils, Missed
<1>4. CASE /\ files' = [files EXCEPT ![p] = None]
           /\ Turn(r, {on[r]}, {}) /\ Writes(r, {p}, TRUE)
           /\ owed' = [owed EXCEPT ![p] = None]
           /\ unsure' = unsure \ {p} /\ overtaken' = overtaken \ {p}
  <2>1. AskType' /\ Fits'
    BY <1>1, <1>4, TurnParts
  <2>2. met' \subseteq Requests /\ late' \subseteq Requests /\ done' \in [Requests -> SUBSET Nat]
    BY <1>1, <1>4 DEF Writes, Missed, Outdated, TypeOK
  <2>3. files' \in [Paths -> Entries \cup {None}] /\ owed' \in [Paths -> People \cup {None}]
    BY <1>1, <1>4 DEF TypeOK
  <2> QED BY <1>1, <1>2, <1>4, <2>1, <2>2, <2>3 DEF WorldType, TypeOK
<1> QED BY <1>3, <1>4 DEF Remove

\* or moved.
LEMMA BaseMove ==
  ASSUME TypeOK, Fits, NEW r \in Requests, Move(r)
  PROVE  AskType' /\ Fits' /\ WorldType'
<1> DEFINE p == Rec(r).path
           q == Rec(r).dest
<1>1. /\ Working(r) /\ p \in Paths /\ q \in Paths /\ on[r] \in Nat /\ pc[r] = "write" /\ Kind(r) = "move"
      /\ UNCHANGED <<docs, locked, crashes>>
  BY RecFacts DEF Move, Working, Fits, TypeOK
<1>2. CASE Escape(r) /\ NoEffect(r)
  BY <1>1, <1>2, EscapeParts, NoEffectWorld
<1>3. CASE /\ Turn(r, {on[r]}, {on[r]}) /\ Announce(r, "move", p, q) /\ Spoils(r, {p, q})
           /\ UNCHANGED <<files, done, owed, overtaken>>
  <2>1. AskType' /\ Fits'
    BY <1>1, <1>3, TurnParts
  <2>2. tasks' \subseteq Tasks
    BY <1>1, <1>3, AnnounceType DEF Working
  <2> QED BY <1>1, <1>3, <2>1, <2>2 DEF WorldType, TypeOK, Spoils, Missed
<1>4. CASE /\ Exists(p)
           /\ files' = [files EXCEPT ![p] = None, ![q] = [code |-> files[p].code, owner |-> copy[r].owner]]
           /\ Turn(r, {on[r]}, {}) /\ Announce(r, "move", p, q)
           /\ Writes(r, {p, q}, TRUE)
           /\ owed' = [owed EXCEPT ![p] = None, ![q] = owed[p]]
           /\ unsure' = (unsure \ {p}) \cup {q}
           /\ overtaken' = Mark(overtaken \ {p}, q, p \in overtaken \/ r \in late)
  <2>1. AskType' /\ Fits'
    BY <1>1, <1>4, TurnParts
  <2>2. tasks' \subseteq Tasks
    BY <1>1, <1>4, AnnounceType DEF Working
  <2>3. files[p] \in Entries /\ copy[r] \in Entries
    <3>1. copy[r] # None
      BY <1>1 DEF Fits, Working, Loads
    <3> QED BY <1>1, <1>4, <3>1 DEF TypeOK, Exists
  <2>4. [code |-> files[p].code, owner |-> copy[r].owner] \in Entries
    BY <2>3 DEF Entries
  <2>5. met' \subseteq Requests /\ late' \subseteq Requests /\ done' \in [Requests -> SUBSET Nat]
    BY <1>1, <1>4 DEF Writes, Missed, Outdated, TypeOK
  <2>6. files' \in [Paths -> Entries \cup {None}] /\ owed' \in [Paths -> People \cup {None}]
    BY <1>1, <1>4, <2>4 DEF TypeOK
  <2>7. overtaken' \subseteq Paths /\ unsure' \subseteq Paths
    BY <1>1, <1>4, MarkType DEF TypeOK
  <2> QED BY <1>1, <2>1, <2>2, <2>5, <2>6, <2>7 DEF WorldType, TypeOK
<1> QED BY <1>2, <1>3, <1>4 DEF Move

\* A task takes a step.
LEMMA BaseTask ==
  ASSUME TypeOK, Fits, NEW t \in tasks, TaskStep(t)
  PROVE  AskType' /\ Fits' /\ WorldType'
<1>1. TaskOnly
  BY DEF TaskStep, HookLoad, HookPut, HookDelete, MoveLoad, MoveGet, MoveDrop, MovePut
<1>2. AskType' /\ Fits'
  BY <1>1, KeepAsk DEF TaskOnly
<1>3. t \in Tasks /\ t.path \in Paths /\ t.dest \in Paths \cup {None} /\ t.doc \in Docs \cup {None}
  BY DEF TypeOK, Tasks
<1>4. ASSUME NEW step \in {"start", "get", "drop", "put"}, NEW doc \in Docs \cup {None}, Becomes(t, step, doc)
      PROVE  tasks' \subseteq Tasks
  <2>1. [t EXCEPT !.step = step, !.doc = doc] \in Tasks
    BY <1>3 DEF Tasks
  <2> QED BY <1>4, <2>1 DEF Becomes, TypeOK
<1>5. ASSUME Ends(t) PROVE tasks' \subseteq Tasks
  BY <1>5 DEF Ends, TypeOK
<1>6. tasks' \subseteq Tasks
  <2>1. CASE HookLoad(t)
    <3>1. CASE Ends(t) BY <3>1, <1>5
    <3>2. CASE files[t.path] # None /\ Becomes(t, "put", [code |-> files[t.path].code, at |-> t.path])
      <4>1. [code |-> files[t.path].code, at |-> t.path] \in Docs
        BY <1>3, <3>2 DEF TypeOK, Entries, Docs
      <4> QED BY <3>2, <4>1, <1>4
    <3> QED BY <2>1, <3>1, <3>2 DEF HookLoad
  <2>2. CASE HookPut(t) \/ HookDelete(t) \/ MovePut(t)
    BY <2>2, <1>5 DEF HookPut, HookDelete, MovePut
  <2>3. CASE MoveLoad(t)
    BY <2>3, <1>4, <1>5 DEF MoveLoad
  <2>4. CASE MoveGet(t)
    <3>1. docs[t.path] \in Docs \cup {None}
      BY <1>3 DEF TypeOK
    <3> QED BY <2>4, <3>1, <1>4 DEF MoveGet
  <2>5. CASE MoveDrop(t)
    BY <2>5, <1>3, <1>4 DEF MoveDrop
  <2> QED BY <2>1, <2>2, <2>3, <2>4, <2>5 DEF TaskStep
<1>7. docs' = docs \/ (\E p, x : x \in Docs \cup {None} /\ docs' = [docs EXCEPT ![p] = x])
  BY <1>3 DEF TaskStep, HookLoad, HookPut, HookDelete, MoveLoad, MoveGet, MoveDrop, MovePut
<1>8. docs' \in [Paths -> Docs \cup {None}]
  BY <1>7 DEF TypeOK
<1> QED BY <1>1, <1>2, <1>6, <1>8 DEF TaskOnly, WorldType, TypeOK, historyVars

\* A worker dies.
LEMMA BaseCrash ==
  ASSUME TypeOK, Fits, Sent, NEW r \in Requests, Crash(r)
  PROVE  AskType' /\ Fits' /\ WorldType'
<1>1. /\ pc' = [pc EXCEPT ![r] = "done"] /\ copy' = [copy EXCEPT ![r] = None]
      /\ who' = who /\ batch' = batch /\ at' = at /\ on' = on
      /\ listed' = listed /\ failed' = failed /\ answer' = answer
  BY DEF Crash, Goto, askVars, replyVars
<1>2. pc[r] # "idle"
  BY DEF Crash, TypeOK, Sent
<1>3. AskType'
  BY <1>1, <1>2 DEF TypeOK, AskType, Points
<1>4. Fits'
  <2>1. \A o \in Requests \ {r} : Rec(o)' = Rec(o) /\ Kind(o)' = Kind(o) /\ pc'[o] = pc[o] /\ copy'[o] = copy[o]
    BY <1>1 DEF Rec, Kind, TypeOK
  <2>2. pc'[r] = "done"
    BY <1>1 DEF TypeOK
  <2> QED BY <1>1, <2>1, <2>2 DEF Fits, Working
<1>5. WorldType'
  <2>1. crashes' \in 0..MaxCrashes
    BY BoundAssumption DEF Crash, TypeOK
  <2>2. tasks' \subseteq Tasks /\ unsure' \subseteq Paths
    BY DEF Crash, TypeOK
  <2> QED BY <2>1, <2>2 DEF Crash, WorldType, TypeOK, Fresh
<1> QED BY <1>3, <1>4, <1>5

\* What a step of a request does to its place and to the tasks
MovedOn(r) == \E x \in Points \ {"idle"} : pc' = [pc EXCEPT ![r] = x]
Adds(r) == \A t \in tasks' : t \in tasks \/ t.of = r

\* A turn that ends moves the request on.
LEMMA TurnMoves ==
  ASSUME TypeOK, NEW r \in Requests, Working(r), NEW good, NEW bad, Turn(r, good, bad) \/ Escape(r)
  PROVE  MovedOn(r)
<1>1. Opening(Kind(r)) \in Points \ {"idle"} /\ "done" \in Points \ {"idle"}
  BY RecFacts, OpeningPoint DEF Working, Points
<1>2. ASSUME NEW g, NEW h, Turn(r, g, h) PROVE Goto(r, Opening(Kind(r))) \/ Goto(r, "done")
  BY <1>2 DEF Turn
<1>3. Goto(r, Opening(Kind(r))) \/ Goto(r, "done")
  <2>1. CASE Turn(r, good, bad) BY <2>1, <1>2
  <2>2. CASE Escape(r) BY <2>2, <1>2 DEF Escape, RowFails
  <2> QED BY <2>1, <2>2
<1> QED BY <1>1, <1>3 DEF Goto, MovedOn

\* A step of a request moves it on, and the tasks it adds are its own.
LEMMA StepMoves ==
  ASSUME TypeOK, Fits, NEW r \in Requests, RequestStep(r)
  PROVE  MovedOn(r) /\ Adds(r)
<1>1. ASSUME NEW p \in {"body", "search", "write"}, Goto(r, p) PROVE MovedOn(r)
  BY <1>1 DEF Goto, Points, MovedOn
<1>2. ASSUME Working(r), NEW good, NEW bad, Turn(r, good, bad) PROVE MovedOn(r)
  BY <1>2, TurnMoves
<1>3. ASSUME Working(r), Fail(r) \/ Refuse(r) \/ Escape(r) PROVE MovedOn(r)
  <2>1. Turn(r, {}, {on[r]}) \/ Escape(r)
    BY <1>3 DEF Fail, Refuse
  <2> QED BY <1>3, <2>1, TurnMoves
<1>4. tasks' = tasks => Adds(r)
  BY DEF Adds
<1>5. ASSUME NEW act, NEW p, NEW q, Announce(r, act, p, q) PROVE Adds(r)
  BY <1>5 DEF Announce, Adds
<1>6. NoEffect(r) => Adds(r)
  BY <1>4 DEF NoEffect
<1>11. CASE Begin(r)
  <2>1. PICK b \in Batches : Goto(r, Opening(b.type))
    BY <1>11 DEF Begin
  <2>2. Opening(b.type) \in Points \ {"idle"}
    BY BatchFacts, OpeningPoint DEF Points
  <2>3. MovedOn(r)
    BY <2>1, <2>2 DEF Goto, MovedOn
  <2> QED BY <1>4, <1>11, <2>3 DEF Begin
<1>12. CASE CheckNew(r)
  <2>1. Working(r) /\ tasks' = tasks
    BY <1>12 DEF CheckNew, Working
  <2>2. \/ Turn(r, {}, {}) \/ Fail(r) \/ Goto(r, "search")
        \/ Turn(r, {}, {Substitute(r)})
    BY <1>12 DEF CheckNew
  <2> QED BY <1>1, <1>2, <1>3, <1>4, <2>1, <2>2
<1>13. CASE Upload(r) \/ Search(r) \/ LoadBody(r)
  <2>1. Working(r) /\ tasks' = tasks
    BY <1>13 DEF Upload, Search, LoadBody, Working
  <2>2. Goto(r, "search") \/ Goto(r, "write") \/ Fail(r) \/ Escape(r) \/ Refuse(r)
    BY <1>13 DEF Upload, Search, LoadBody
  <2> QED BY <1>1, <1>3, <1>4, <2>1, <2>2
<1>14. CASE LoadEntry(r)
  <2>1. Kind(r) \in Loads /\ Working(r) /\ tasks' = tasks
    BY <1>14 DEF LoadEntry, Fits, Working
  <2>2. Refuse(r) \/ Goto(r, "body") \/ Goto(r, "write")
    BY <1>14, <2>1, LoadCases DEF Goto
  <2> QED BY <1>1, <1>3, <1>4, <2>1, <2>2
<1>15. CASE WriteNew(r) \/ Register(r)
  <2>1. Working(r)
    BY <1>15 DEF WriteNew, Register, Working
  <2>2. (Escape(r) /\ NoEffect(r)) \/ PutNew(r)
    BY <1>15 DEF WriteNew, Register
  <2>3. PutNew(r) => Turn(r, {on[r]}, {}) /\ Announce(r, "put", Rec(r).path, None)
    BY DEF PutNew
  <2> QED BY <1>2, <1>3, <1>5, <1>6, <2>1, <2>2, <2>3
<1>16. CASE WriteOld(r)
  <2>1. Working(r)
    BY <1>16 DEF WriteOld, Working
  <2>2. \/ (Escape(r) \/ Fail(r)) /\ NoEffect(r)
        \/ Turn(r, {on[r]}, {}) /\ Announce(r, "put", Rec(r).path, None)
    BY <1>16 DEF WriteOld
  <2> QED BY <1>2, <1>3, <1>5, <1>6, <2>1, <2>2
<1>17. CASE Remove(r)
  <2>1. Working(r) /\ Announce(r, "del", Rec(r).path, None)
    BY <1>17 DEF Remove, Working
  <2>2. Turn(r, {on[r]}, {on[r]}) \/ Turn(r, {on[r]}, {})
    BY <1>17 DEF Remove
  <2> QED BY <1>2, <1>5, <2>1, <2>2
<1>18. CASE Move(r)
  <2>1. Working(r)
    BY <1>18 DEF Move, Working
  <2>2. \/ Escape(r) /\ NoEffect(r)
        \/ /\ Turn(r, {on[r]}, {on[r]}) \/ Turn(r, {on[r]}, {})
           /\ Announce(r, "move", Rec(r).path, Rec(r).dest)
    BY <1>18 DEF Move
  <2> QED BY <1>2, <1>3, <1>5, <1>6, <2>1, <2>2
<1> QED BY <1>11, <1>12, <1>13, <1>14, <1>15, <1>16, <1>17, <1>18 DEF RequestStep

\* No step returns a request to idle or announces anything for one that was not sent.
LEMMA SentStep ==
  ASSUME TypeOK, Fits, Sent, [Next]_vars
  PROVE  Sent'
<1>1. ASSUME NEW r \in Requests, RequestStep(r) PROVE Sent'
  <2>1. PICK x \in Points \ {"idle"} : pc' = [pc EXCEPT ![r] = x]
    BY <1>1, StepMoves DEF MovedOn
  <2>2. \A t \in tasks' : t \in tasks \/ t.of = r
    BY <1>1, StepMoves DEF Adds
  <2> QED BY <2>1, <2>2 DEF Sent, TypeOK
<1>2. ASSUME NEW r \in Requests, Crash(r) PROVE Sent'
  BY <1>2 DEF Crash, Goto, Sent, TypeOK
<1>3. ASSUME NEW t \in tasks, TaskStep(t) PROVE Sent'
  <2>1. pc' = pc
    BY <1>3 DEF TaskStep, HookLoad, HookPut, HookDelete, MoveLoad, MoveGet, MoveDrop, MovePut,
       TaskOnly
  <2>2. Ends(t) \/ \E step, doc : Becomes(t, step, doc)
    BY <1>3 DEF TaskStep, HookLoad, HookPut, HookDelete, MoveLoad, MoveGet, MoveDrop, MovePut
  <2>3. ASSUME NEW u \in tasks' PROVE \E v \in tasks : u.of = v.of
    <3>1. t \in Tasks
      BY DEF TypeOK
    <3>2. ASSUME NEW step, NEW doc, Becomes(t, step, doc) PROVE \E v \in tasks : u.of = v.of
      <4>1. [t EXCEPT !.step = step, !.doc = doc].of = t.of
        BY <3>1 DEF Tasks
      <4> QED BY <2>3, <3>2, <4>1 DEF Becomes
    <3> QED BY <2>2, <2>3, <3>2 DEF Ends
  <2> QED BY <2>1, <2>3 DEF Sent
<1>4. CASE UNCHANGED vars
  BY <1>4 DEF vars, Sent
<1> QED BY <1>1, <1>2, <1>3, <1>4 DEF Next

\* The invariant of every other proof
Base == TypeOK /\ Fits /\ Sent

\* The three parts together are inductive.
LEMMA BaseStep ==
  ASSUME Base, [Next]_vars
  PROVE  Base'
<1> USE DEF Base
<1>1. ASSUME NEW r \in Requests, RequestStep(r) PROVE TypeOK' /\ Fits'
  BY <1>1, TypeParts, BaseBegin, BaseCheckNew, BaseUpload, BaseLoadEntry, BaseLoadBody,
     BaseSearch, BaseWriteNew,
     BaseWriteOld, BaseRemove, BaseMove DEF RequestStep
<1>2. ASSUME NEW r \in Requests, Crash(r) PROVE TypeOK' /\ Fits'
  BY <1>2, TypeParts, BaseCrash
<1>3. ASSUME NEW t \in tasks, TaskStep(t) PROVE TypeOK' /\ Fits'
  BY <1>3, TypeParts, BaseTask
<1>4. ASSUME UNCHANGED vars PROVE TypeOK' /\ Fits'
  <2>1. AskType' /\ Fits'
    BY <1>4, KeepAsk DEF vars
  <2>2. WorldType'
    BY <1>4 DEF vars, historyVars, TypeOK, WorldType
  <2> QED BY <2>1, <2>2, TypeParts
<1>5. TypeOK' /\ Fits'
  BY <1>1, <1>2, <1>3, <1>4 DEF Next
<1> QED BY <1>5, SentStep

\* The initial states have them.
LEMMA BaseInit == Init => Base
<1> SUFFICES ASSUME Init PROVE Base
  OBVIOUS
<1>1. files \in [Paths -> Entries \cup {None}]
  BY DEF Init, Entries
<1>2. docs \in [Paths -> Docs \cup {None}]
  BY DEF Init, Docs
<1>3. owed \in [Paths -> People \cup {None}]
  BY DEF Init
<1>4. TypeOK
  BY <1>1, <1>2, <1>3, BoundAssumption DEF Init, TypeOK, Points
<1>5. Fits /\ Sent
  BY DEF Init, Fits, Sent, Working
<1> QED BY <1>4, <1>5 DEF Base

\* A request stands only where its kind may stand, holds a copy of an entry exactly from
\* its load to its write, and every task was announced by a request that was sent.
THEOREM BaseAlways == Spec => []Base
<1>1. Base /\ [Next]_vars => Base'
  BY BaseStep
<1> QED BY BaseInit, <1>1, PTL DEF Spec

\* Every variable keeps its type, through batches, imports, refusals, crashes and hooks; in
\* particular the record worked on is one of the batch, and never after the one whose
\* turn it is.
THEOREM TypeCorrect == Spec => []TypeOK
<1>1. Base => TypeOK
  BY DEF Base
<1> QED BY <1>1, BaseAlways, PTL

(***************************************************************************)
(* The shapes of a step.  Eleven actions of a request are brought down to  *)
(* looking and five kinds of writing, which the invariants below are       *)
(* proved over.                                                            *)
(***************************************************************************)
\* A step of r leaves the other requests where they are; a turn that ends opens the next.
Others(r) ==
  \A o \in Requests \ {r} :
    pc'[o] = pc[o] /\ copy'[o] = copy[o] /\ Rec(o)' = Rec(o) /\ Kind(o)' = Kind(o)
Turned(r) == pc'[r] \in {"check", "load", "done"} /\ (pc'[r] # "done" => copy'[r] = None)

\* A step that assigns the place, the record and the copy of r leaves the others theirs.
LEMMA AskersKeep ==
  ASSUME TypeOK, NEW r \in Requests, batch' = batch,
         on' = on \/ \E i : on' = [on EXCEPT ![r] = i],
         pc' = pc \/ \E p : pc' = [pc EXCEPT ![r] = p],
         copy' = copy \/ \E e : copy' = [copy EXCEPT ![r] = e]
  PROVE  Others(r)
BY DEF Others, Rec, Kind, TypeOK

\* After its turn a record leaves no copy behind,
LEMMA TurnShape ==
  ASSUME TypeOK, NEW r \in Requests, Working(r), NEW good, NEW bad, Turn(r, good, bad)
  PROVE  Others(r) /\ Turned(r)
<1> DEFINE b == batch[r]
<1>1. Kind(r) \in Types /\ Len(b.records) \in Nat /\ at[r] \in Nat /\ 1 <= at[r]
      /\ (Kind(r) = "register" => Len(b.records) = 1)
  BY RecFacts DEF Working
<1>2. copy' = [copy EXCEPT ![r] = None] /\ batch' = batch
  BY DEF Turn
<1>3. CASE at[r] < Len(b.records)
  <2>1. on' = [on EXCEPT ![r] = at[r] + 1] /\ pc' = [pc EXCEPT ![r] = Opening(Kind(r))]
    BY <1>3 DEF Turn, Goto
  <2>2. Len(b.records) # 1
    BY <1>1, <1>3, Above
  <2>3. Opening(Kind(r)) \in {"check", "load"}
    BY <1>1, <2>2, OpeningPoint
  <2> QED BY <1>2, <2>1, <2>3, AskersKeep DEF Turned, TypeOK
<1>4. CASE ~(at[r] < Len(b.records))
  <2>1. on' = on /\ pc' = [pc EXCEPT ![r] = "done"]
    BY <1>4 DEF Turn, Goto
  <2> QED BY <1>2, <2>1, AskersKeep DEF Turned, TypeOK
<1> QED BY <1>3, <1>4

\* and no copy that counts after a failure.
LEMMA EscapeShape ==
  ASSUME TypeOK, NEW r \in Requests, Working(r), Escape(r) \/ Fail(r) \/ Refuse(r)
  PROVE  Others(r) /\ Turned(r)
<1>1. CASE Turn(r, {}, {on[r]})
  BY <1>1, TurnShape
<1>2. CASE /\ pc' = [pc EXCEPT ![r] = "done"] /\ batch' = batch /\ on' = on /\ copy' = copy
  BY <1>2, AskersKeep DEF Turned, TypeOK
<1> QED BY <1>1, <1>2 DEF Escape, Fail, Refuse, RowFails, Goto, askVars

\* What a request does that does not write.
Looks(r) ==
  /\ Others(r) /\ UNCHANGED <<files, docs, tasks, owed, unsure, overtaken>>
  /\ met' \ {r} = met \ {r} /\ late' \ {r} = late \ {r}
  /\ \/ Turned(r)
     \/ pc[r] = "idle" /\ copy'[r] = None /\ pc'[r] \in {"check", "load", "search"}
                       /\ (pc'[r] = "search" => Kind(r)' = "register")
     \/ pc[r] = "check" /\ pc'[r] = "search" /\ copy'[r] = None /\ Kind(r)' \in {"create", "import"}
     \/ pc[r] = "check" /\ pc'[r] = "write" /\ copy'[r] = None /\ Kind(r)' = "upload"
     \/ /\ pc[r] = "load" /\ Exists(Rec(r).path) /\ Rec(r)' = Rec(r) /\ Kind(r)' = Kind(r)
        /\ copy'[r] = files[Rec(r).path]
        /\ pc'[r] = "body" \/ (pc'[r] = "write" /\ Kind(r) \notin {"update", "r_replace"})
     \/ /\ pc[r] = "body" /\ pc'[r] = "search" /\ Rec(r)' = Rec(r) /\ Kind(r)' = Kind(r)
        /\ copy'[r].owner = copy[r].owner
        /\ Exists(Rec(r).path) => copy'[r].code = files[Rec(r).path].code
        /\ Kind(r) = "update" => Exists(Rec(r).path)
        /\ met' = met /\ late' = late
     \/ /\ pc[r] = "search" /\ pc'[r] = "write" /\ Rec(r)' = Rec(r) /\ Kind(r)' = Kind(r)
        /\ copy'[r] = copy[r] /\ late' = late
        /\ ~(Searched(r) /\ Found(r))
        /\ met' = Mark(met, r, IF Searched(r) THEN Pending # {} ELSE r \in met)

\* Begin, the checks, the loads and the search are such steps.
LEMMA LooksFacts ==
  ASSUME Base, NEW r \in Requests,
         Begin(r) \/ CheckNew(r) \/ Upload(r) \/ LoadEntry(r) \/ LoadBody(r) \/ Search(r)
  PROVE  Looks(r)
<1> USE DEF Base
<1>1. CASE Begin(r)
  <2>1. PICK b \in Batches :
          batch' = [batch EXCEPT ![r] = b] /\ pc' = [pc EXCEPT ![r] = Opening(b.type)]
    BY <1>1 DEF Begin, Goto
  <2>2. pc[r] = "idle" /\ on' = on /\ copy' = copy /\ copy[r] = None
        /\ UNCHANGED <<files, docs, tasks, historyVars>>
    BY <1>1 DEF Begin, Fits
  <2>3. Others(r)
    BY <2>1, <2>2 DEF Others, Rec, Kind, TypeOK
  <2>4. pc'[r] = Opening(b.type) /\ Kind(r)' = b.type /\ b.type \in Types
    BY <2>1, BatchFacts DEF Kind, TypeOK
  <2> QED BY <2>2, <2>3, <2>4, OpeningPoint DEF Looks, historyVars
<1>2. CASE CheckNew(r)
  <2>1. /\ Working(r) /\ Kind(r) \in {"create", "import"} /\ copy[r] = None /\ pc[r] = "check"
        /\ UNCHANGED <<files, docs, tasks, owed, unsure, overtaken>>
        /\ met' \ {r} = met \ {r} /\ late' \ {r} = late \ {r}
    BY <1>2 DEF CheckNew, Working, Fits, Loads, Fresh
  <2>2. CASE Fail(r) \/ \E good, bad : Turn(r, good, bad)
    BY <2>1, <2>2, TurnShape, EscapeShape DEF Looks
  <2>3. CASE \E i : /\ on' = [on EXCEPT ![r] = i] /\ Goto(r, "search")
                    /\ UNCHANGED <<who, batch, at, copy, replyVars, met, late>>
    <3>1. Others(r)
      BY <2>3, AskersKeep DEF Goto
    <3>2. pc'[r] = "search" /\ copy'[r] = copy[r] /\ Kind(r)' = Kind(r)
      BY <2>3 DEF Goto, TypeOK, Kind
    <3> QED BY <2>1, <3>1, <3>2 DEF Looks
  <2> QED BY <1>2, <2>2, <2>3 DEF CheckNew
<1>3. CASE Upload(r)
  <2>1. Working(r) /\ Kind(r) = "upload" /\ copy[r] = None /\ pc[r] = "check"
        /\ UNCHANGED <<files, docs, tasks, historyVars>>
    BY <1>3 DEF Upload, Working, Fits, Loads
  <2>2. CASE Escape(r)
    BY <2>1, <2>2, EscapeShape DEF Looks, historyVars
  <2>3. CASE Goto(r, "write") /\ UNCHANGED <<askVars, copy, replyVars>>
    <3>1. Others(r)
      BY <2>3, AskersKeep DEF Goto, askVars
    <3>2. pc'[r] = "write" /\ copy'[r] = copy[r] /\ Kind(r)' = Kind(r)
      BY <2>3 DEF Goto, TypeOK, Kind, askVars
    <3> QED BY <2>1, <3>1, <3>2 DEF Looks, historyVars
  <2> QED BY <1>3, <2>2, <2>3 DEF Upload
<1>4. CASE LoadEntry(r)
  <2>1. Working(r) /\ Kind(r) \in Loads /\ pc[r] = "load"
        /\ UNCHANGED <<files, docs, tasks, owed, unsure, overtaken>>
        /\ met' \ {r} = met \ {r} /\ late' \ {r} = late \ {r}
    BY <1>4 DEF LoadEntry, Working, Fits, Fresh
  <2>2. CASE Refuse(r)
    BY <2>1, <2>2, EscapeShape DEF Looks
  <2>3. CASE /\ Exists(Rec(r).path)
             /\ copy' = [copy EXCEPT ![r] = files[Rec(r).path]]
             /\ pc' = [pc EXCEPT ![r] = IF Kind(r) \in {"update", "r_replace"} THEN "body" ELSE "write"]
             /\ UNCHANGED <<askVars, replyVars>>
    <3>1. Others(r)
      BY <2>3, AskersKeep DEF askVars
    <3>2. Rec(r)' = Rec(r) /\ Kind(r)' = Kind(r) /\ copy'[r] = files[Rec(r).path]
          /\ pc'[r] = IF Kind(r) \in {"update", "r_replace"} THEN "body" ELSE "write"
      BY <2>3 DEF TypeOK, Kind, Rec, askVars
    <3> QED BY <2>1, <2>3, <3>1, <3>2 DEF Looks
  <2> QED BY <1>4, <2>1, <2>2, <2>3, LoadCases
<1>5. CASE LoadBody(r)
  <2>1. Working(r) /\ Kind(r) \in {"update", "r_replace"} /\ pc[r] = "body" /\ copy[r] \in Entries
        /\ UNCHANGED <<files, docs, tasks, owed, unsure, overtaken>>
        /\ met' \ {r} = met \ {r} /\ late' \ {r} = late \ {r}
    BY <1>5 DEF LoadBody, Working, Fits, Fresh, TypeOK, Loads
  <2>2. CASE Fail(r)
    BY <2>1, <2>2, EscapeShape DEF Looks
  <2>3. CASE /\ ~(~Exists(Rec(r).path) /\ Kind(r) = "update")
             /\ copy' = [copy EXCEPT ![r].code = IF Exists(Rec(r).path) THEN files[Rec(r).path].code ELSE None]
             /\ Goto(r, "search") /\ UNCHANGED <<askVars, replyVars, met, late>>
    <3>1. Others(r)
      BY <2>3, AskersKeep DEF askVars, Goto
    <3>2. Rec(r)' = Rec(r) /\ Kind(r)' = Kind(r) /\ pc'[r] = "search"
          /\ copy'[r] = [copy[r] EXCEPT !.code = IF Exists(Rec(r).path) THEN files[Rec(r).path].code ELSE None]
      BY <2>3 DEF TypeOK, Kind, Rec, askVars, Goto
    <3>3. copy'[r].owner = copy[r].owner
          /\ (Exists(Rec(r).path) => copy'[r].code = files[Rec(r).path].code)
      BY <2>1, <3>2 DEF Entries
    <3> QED BY <2>1, <2>3, <3>1, <3>2, <3>3 DEF Looks
  <2> QED BY <1>5, <2>2, <2>3 DEF LoadBody
<1>6. CASE Search(r)
  <2>1. Working(r) /\ pc[r] = "search"
        /\ UNCHANGED <<files, docs, tasks, owed, unsure, overtaken>>
        /\ met' \ {r} = met \ {r} /\ late' \ {r} = late \ {r}
    BY <1>6 DEF Search, Working, Fresh, Mark
  <2>2. CASE Refuse(r)
    BY <2>1, <2>2, EscapeShape DEF Looks
  <2>3. CASE /\ ~(Searched(r) /\ Found(r))
             /\ Goto(r, "write") /\ UNCHANGED <<askVars, copy, replyVars, late>>
             /\ met' = Mark(met, r, IF Searched(r) THEN Pending # {} ELSE r \in met)
    <3>1. Others(r)
      BY <2>3, AskersKeep DEF askVars, Goto
    <3>2. Rec(r)' = Rec(r) /\ Kind(r)' = Kind(r) /\ pc'[r] = "write" /\ copy'[r] = copy[r]
      BY <2>3 DEF TypeOK, Kind, Rec, askVars, Goto
    <3> QED BY <2>1, <2>3, <3>1, <3>2 DEF Looks
  <2> QED BY <1>6, <2>2, <2>3 DEF Search
<1> QED BY <1>1, <1>2, <1>3, <1>4, <1>5, <1>6

\* What a request writes, and what it spoils by announcing what it was refused.
NewIn(r) == Kind(r) \in {"create", "import", "upload", "register"} /\ PutNew(r)
OldIn(r) ==
  LET p == Rec(r).path IN
  /\ Kind(r) \in {"update", "r_replace", "assign", "update_acl"} /\ Exists(p)
  /\ files' = [files EXCEPT ![p] = Changed(r)]
  /\ Announce(r, "put", p, None) /\ Writes(r, {p}, Kind(r) = "assign")
  /\ owed' = [owed EXCEPT ![p] = IF Kind(r) = "assign" THEN Rec(r).to ELSE @]
  /\ overtaken' = Mark(overtaken, p, Kind(r) # "assign" /\ (p \in overtaken \/ r \in late))
  /\ unsure' = Mark(unsure, p, Doubted(r))
Gone(r) ==
  LET p == Rec(r).path IN
  /\ Kind(r) = "delete"
  /\ files' = [files EXCEPT ![p] = None]
  /\ Announce(r, "del", p, None) /\ Writes(r, {p}, TRUE)
  /\ owed' = [owed EXCEPT ![p] = None]
  /\ unsure' = unsure \ {p} /\ overtaken' = overtaken \ {p}
Carried(r) ==
  LET p == Rec(r).path  q == Rec(r).dest IN
  /\ Kind(r) = "move" /\ ~Exists(q) /\ Exists(p)
  /\ files' = [files EXCEPT ![p] = None, ![q] = [code |-> files[p].code, owner |-> copy[r].owner]]
  /\ Announce(r, "move", p, q) /\ Writes(r, {p, q}, TRUE)
  /\ owed' = [owed EXCEPT ![p] = None, ![q] = owed[p]]
  /\ unsure' = (unsure \ {p}) \cup {q}
  /\ overtaken' = Mark(overtaken \ {p}, q, p \in overtaken \/ r \in late)
Spoilt(r) ==
  /\ UNCHANGED <<files, done, owed, overtaken>>
  /\ \/ Announce(r, "del", Rec(r).path, None) /\ Spoils(r, {Rec(r).path})
     \/ /\ Rec(r).dest \in Paths /\ Announce(r, "move", Rec(r).path, Rec(r).dest)
        /\ Spoils(r, {Rec(r).path, Rec(r).dest})

\* A step of a request looks, or it is one of five kinds of writing.
LEMMA RequestShapes ==
  ASSUME Base, NEW r \in Requests, RequestStep(r)
  PROVE  \/ Looks(r)
         \/ /\ pc[r] = "write" /\ Rec(r).path \in Paths /\ Others(r) /\ Turned(r) /\ docs' = docs
            /\ NewIn(r) \/ OldIn(r) \/ Gone(r) \/ Carried(r) \/ Spoilt(r)
<1> USE DEF Base
<1>1. ASSUME Working(r), Escape(r) \/ Fail(r), NoEffect(r), docs' = docs PROVE Looks(r)
  BY <1>1, EscapeShape DEF NoEffect, Fresh, Looks
<1>2. pc[r] = "write" => Working(r) /\ Rec(r).path \in Paths
  BY RecFacts DEF Working, Fits
<1>3. CASE WriteNew(r)
  <2>1. CASE PutNew(r)
    BY <1>2, <1>3, <2>1, TurnShape DEF WriteNew, PutNew, NewIn
  <2> QED BY <1>1, <1>2, <1>3, <2>1 DEF WriteNew
<1>4. CASE Register(r)
  <2>1. CASE PutNew(r)
    BY <1>2, <1>4, <2>1, TurnShape DEF Register, PutNew, NewIn
  <2> QED BY <1>1, <1>2, <1>4, <2>1 DEF Register
<1>5. CASE WriteOld(r)
  <2>1. Working(r) /\ pc[r] = "write" /\ Rec(r).path \in Paths /\ docs' = docs
    BY <1>2, <1>5 DEF WriteOld
  <2>2. CASE (Escape(r) \/ Fail(r)) /\ NoEffect(r)
    BY <1>1, <2>1, <2>2
  <2>3. CASE OldIn(r) /\ Turn(r, {on[r]}, {})
    BY <2>1, <2>3, TurnShape
  <2> QED BY <1>5, <2>2, <2>3 DEF WriteOld, OldIn
<1>6. CASE Remove(r)
  <2>1. Working(r) /\ pc[r] = "write" /\ Rec(r).path \in Paths /\ docs' = docs
    BY <1>2, <1>6 DEF Remove
  <2>2. CASE Turn(r, {on[r]}, {on[r]}) /\ Spoilt(r)
    BY <2>1, <2>2, TurnShape
  <2>3. CASE Gone(r) /\ Turn(r, {on[r]}, {})
    BY <2>1, <2>3, TurnShape
  <2> QED BY <1>6, <2>2, <2>3 DEF Remove, Gone, Spoilt
<1>7. CASE Move(r)
  <2>1. /\ Working(r) /\ pc[r] = "write" /\ Rec(r).path \in Paths /\ docs' = docs
        /\ Rec(r).dest \in Paths
    BY <1>2, <1>7, RecFacts DEF Move, Working
  <2>2. CASE Turn(r, {on[r]}, {on[r]}) /\ Spoilt(r)
    BY <2>1, <2>2, TurnShape
  <2>3. CASE Carried(r) /\ Turn(r, {on[r]}, {})
    BY <2>1, <2>3, TurnShape
  <2>4. CASE Escape(r) /\ NoEffect(r)
    BY <1>1, <2>1, <2>4
  <2> QED BY <1>7, <2>1, <2>2, <2>3, <2>4 DEF Move, Carried, Spoilt
<1> QED BY <1>3, <1>4, <1>5, <1>6, <1>7, LooksFacts DEF RequestStep

(***************************************************************************)
(* Owners                                                                  *)
(***************************************************************************)
\* A copy that is not late has the owner the entry is owed to.
Owned ==
  \A r \in Requests : Working(r) /\ copy[r] # None /\ r \notin late =>
    copy[r].owner = owed[Rec(r).path] \/ Rec(r).path \in overtaken
OwnerInv == OwnerStays /\ Owned

\* What Mark does
LEMMA MarkIs ==
  ASSUME NEW set, NEW p, NEW in \in BOOLEAN
  PROVE  \A x : x \in Mark(set, p, in) <=> (x = p /\ in) \/ (x # p /\ x \in set)
BY DEF Mark

\* Looking at an entry, and keeping a copy of it, preserves the invariant of the owners.
LEMMA OwnerLooks ==
  ASSUME Base, OwnerInv, NEW r \in Requests, Looks(r)
  PROVE  OwnerInv'
<1>1. OwnerStays'
  BY DEF OwnerInv, OwnerStays, Looks
<1>2. ASSUME NEW o \in Requests \ {r}, Working(o)', copy'[o] # None, o \notin late'
      PROVE  copy'[o].owner = owed'[Rec(o)'.path] \/ Rec(o)'.path \in overtaken'
  BY <1>2 DEF OwnerInv, Owned, Looks, Others, Working
<1>3. ASSUME Working(r)', copy'[r] # None, r \notin late'
      PROVE  copy'[r].owner = owed'[Rec(r)'.path] \/ Rec(r)'.path \in overtaken'
  <2>1. CASE pc[r] = "load" /\ Rec(r)' = Rec(r) /\ Exists(Rec(r).path) /\ copy'[r] = files[Rec(r).path]
    <3>1. Rec(r).path \in Paths
      BY <2>1, RecFacts DEF Base, Fits
    <3> QED BY <2>1, <3>1 DEF OwnerInv, OwnerStays, Exists, Looks
  <2>2. CASE pc[r] \in {"body", "search"} /\ Rec(r)' = Rec(r) /\ copy'[r].owner = copy[r].owner /\ late' = late /\ copy[r] # None
    BY <1>3, <2>2 DEF OwnerInv, Owned, Looks, Working
  <2>3. pc[r] = "body" => copy[r] # None
    BY DEF Base, Fits, Working, Loads
  <2> QED BY <1>3, <2>1, <2>2, <2>3 DEF Looks, Turned, Working
<1> QED BY <1>1, <1>2, <1>3 DEF OwnerInv, Owned

\* Writing preserves it: whoever holds a copy of an entry that changes hands is late, and
\* an entry written from a late copy is overtaken.
LEMMA OwnerWrites ==
  ASSUME Base, OwnerInv, NEW r \in Requests, pc[r] = "write", Rec(r).path \in Paths, Others(r), Turned(r),
         NewIn(r) \/ OldIn(r) \/ Gone(r) \/ Carried(r) \/ Spoilt(r)
  PROVE  OwnerInv'
<1> DEFINE p == Rec(r).path
           q == Rec(r).dest
<1>0. \A e \in Paths : files[e] # None => files[e] \in Entries
  BY DEF Base, TypeOK
<1>1. ASSUME NEW ps, NEW owners \in BOOLEAN, Writes(r, ps, owners), NEW o \in Requests \ {r}, o \notin late'
      PROVE  o \notin late /\ (owners /\ copy[o] # None => Rec(o).path \notin ps)
  BY <1>1 DEF Writes, Outdated
<1>2. ASSUME \A o \in Requests \ {r} : Working(o) /\ copy[o] # None /\ o \notin late' =>
               copy[o].owner = owed'[Rec(o).path] \/ Rec(o).path \in overtaken'
      PROVE  Owned'
  BY <1>2 DEF Owned, Others, Turned, Working
<1>10. ASSUME NEW ps, Writes(r, ps, TRUE),
               \A e \in Paths \ ps : owed'[e] = owed[e] /\ (e \in overtaken' <=> e \in overtaken)
       PROVE  Owned'
  <2>1. ASSUME NEW o \in Requests \ {r}, Working(o), copy[o] # None, o \notin late'
        PROVE  copy[o].owner = owed'[Rec(o).path] \/ Rec(o).path \in overtaken'
    <3>1. o \notin late /\ Rec(o).path \notin ps
      BY <1>1, <1>10, <2>1
    <3>2. Rec(o).path \in Paths
      <4>1. Kind(o) \in Loads /\ pc[o] # "idle"
        BY <2>1 DEF Base, Fits, Working
      <4> QED BY <4>1, RecFacts DEF Base, Loads
    <3> QED BY <1>10, <2>1, <3>1, <3>2 DEF OwnerInv, Owned
  <2> QED BY <1>2, <2>1
<1>3. copy[r] # None /\ r \notin late => copy[r].owner = owed[p] \/ p \in overtaken
  BY DEF OwnerInv, Owned, Working
<1>4. CASE NewIn(r)
  <2>1. /\ files' = [files EXCEPT ![p] = [code |-> Rec(r).code, owner |-> who[r]]]
        /\ owed' = [owed EXCEPT ![p] = who[r]] /\ overtaken' = overtaken \ {p} /\ Writes(r, {p}, TRUE)
    BY <1>4 DEF NewIn, PutNew
  <2>2. OwnerStays'
    BY <2>1 DEF OwnerInv, OwnerStays, Base, TypeOK
  <2>3. Owned'
    BY <1>10, <2>1 DEF Base, TypeOK
  <2> QED BY <2>2, <2>3 DEF OwnerInv
<1>5. CASE OldIn(r) /\ Kind(r) = "assign"
  <2>1. /\ files' = [files EXCEPT ![p] = Assigned(r)] /\ files[p] # None
        /\ owed' = [owed EXCEPT ![p] = Rec(r).to] /\ overtaken' = overtaken \ {p} /\ Writes(r, {p}, TRUE)
    BY <1>5, ChangedIs DEF OldIn, Mark, Exists
  <2>2. Assigned(r).owner = Rec(r).to
    BY <1>0, <2>1 DEF Assigned, Entries
  <2>3. OwnerStays'
    BY <2>1, <2>2 DEF OwnerInv, OwnerStays, Base, TypeOK
  <2>4. Owned'
    BY <1>10, <2>1 DEF Base, TypeOK
  <2> QED BY <2>3, <2>4 DEF OwnerInv
<1>6. CASE OldIn(r) /\ Kind(r) # "assign"
  <2>1. /\ files' = [files EXCEPT ![p] = Changed(r)] /\ files[p] # None
        /\ Kind(r) \in {"update", "r_replace", "update_acl"}
        /\ Writes(r, {p}, FALSE)
        /\ overtaken' = Mark(overtaken, p, p \in overtaken \/ r \in late)
    BY <1>6 DEF OldIn, Exists
  <2>2. owed' = owed
    BY <1>6 DEF OldIn, Base, TypeOK
  <2>3. Changed(r).owner = copy[r].owner /\ copy[r] # None
    <3>1. copy[r] # None
      BY <2>1 DEF Base, Fits, Working, Loads
    <3>2. Updated(r).owner = copy[r].owner /\ WithAcl(r).owner = copy[r].owner
      BY <1>0, <2>1 DEF Updated, WithAcl, Entries
    <3> QED BY <2>1, <3>1, <3>2, ChangedIs
  <2>4. overtaken \subseteq overtaken' /\ (r \in late => p \in overtaken')
    BY <2>1 DEF Mark
  <2>5. OwnerStays'
    BY <1>3, <2>1, <2>2, <2>3, <2>4 DEF OwnerInv, OwnerStays, Base, TypeOK
  <2>6. Owned'
    BY <1>1, <1>2, <2>1, <2>2, <2>4 DEF OwnerInv, Owned
  <2> QED BY <2>5, <2>6 DEF OwnerInv
<1>7. CASE Gone(r)
  <2>1. /\ files' = [files EXCEPT ![p] = None]
        /\ owed' = [owed EXCEPT ![p] = None] /\ overtaken' = overtaken \ {p} /\ Writes(r, {p}, TRUE)
    BY <1>7 DEF Gone
  <2>2. OwnerStays'
    BY <2>1 DEF OwnerInv, OwnerStays, Base, TypeOK
  <2>3. Owned'
    BY <1>10, <2>1 DEF Base, TypeOK
  <2> QED BY <2>2, <2>3 DEF OwnerInv
<1>8. CASE Carried(r)
  <2>1. /\ files' = [files EXCEPT ![p] = None, ![q] = [code |-> files[p].code, owner |-> copy[r].owner]]
        /\ owed' = [owed EXCEPT ![p] = None, ![q] = owed[p]] /\ Writes(r, {p, q}, TRUE)
        /\ overtaken' = Mark(overtaken \ {p}, q, p \in overtaken \/ r \in late)
        /\ Kind(r) = "move" /\ copy[r] # None
    BY <1>8 DEF Carried, Base, Fits, Working, Loads
  <2>2. q \in Paths /\ p # q
    BY <2>1, RecFacts DEF Base
  <2>3. /\ \A e \in Paths \ {p, q} : files'[e] = files[e] /\ owed'[e] = owed[e] /\ (e \in overtaken' <=> e \in overtaken)
        /\ files'[p] = None /\ files'[q].owner = copy[r].owner /\ owed'[q] = owed[p]
        /\ (q \in overtaken' <=> p \in overtaken \/ r \in late)
    <3>1. /\ \A e \in Paths \ {p, q} : files'[e] = files[e] /\ owed'[e] = owed[e]
          /\ files'[p] = None /\ files'[q] = [code |-> files[p].code, owner |-> copy[r].owner]
          /\ owed'[q] = owed[p]
      BY <2>1, <2>2 DEF Base, TypeOK
    <3>2. \A e : e \in overtaken' <=> (e = q /\ (p \in overtaken \/ r \in late)) \/ (e # q /\ e \in overtaken \ {p})
      BY <2>1 DEF Mark
    <3> QED BY <2>2, <3>1, <3>2
  <2>4. OwnerStays'
    BY <1>3, <2>1, <2>2, <2>3 DEF OwnerInv, OwnerStays
  <2>5. Owned'
    BY <1>10, <2>1, <2>3
  <2> QED BY <2>4, <2>5 DEF OwnerInv
<1>9. CASE Spoilt(r)
  <2>1. UNCHANGED <<files, owed, overtaken>> /\ late' = late \ {r}
    BY <1>9 DEF Spoilt, Spoils
  <2>2. OwnerStays'
    BY <2>1 DEF OwnerInv, OwnerStays
  <2>3. Owned'
    BY <1>2, <2>1 DEF OwnerInv, Owned
  <2> QED BY <2>2, <2>3 DEF OwnerInv
<1> QED BY <1>4, <1>5, <1>6, <1>7, <1>8, <1>9

\* A crash takes a request and its tasks, and leaves their paths unsure.
LEMMA CrashShape ==
  ASSUME Base, NEW r \in Requests, Crash(r)
  PROVE  /\ Others(r) /\ pc'[r] = "done" /\ tasks' \subseteq tasks
         /\ UNCHANGED <<files, docs, owed, overtaken>> /\ met' = met \ {r} /\ late' = late \ {r}
         /\ unsure \subseteq unsure'
         /\ \A t \in tasks \ tasks' : t.path \in unsure' /\ (t.dest \in Paths => t.dest \in unsure')
<1>1. Others(r) /\ pc'[r] = "done"
  BY AskersKeep DEF Crash, Goto, askVars, Base, TypeOK
<1>2. ASSUME NEW t \in tasks \ tasks' PROVE t.path \in unsure' /\ (t.dest \in Paths => t.dest \in unsure')
  <2>1. t.of = r /\ t.path \in Paths
    BY <1>2 DEF Crash, Base, TypeOK, Tasks
  <2> QED BY <2>1, <1>2 DEF Crash
<1> QED BY <1>1, <1>2 DEF Crash, Fresh

\* The owner of an entry, and of every copy that is not late, is the one it is owed to, or
\* the path has been overtaken.
THEOREM OwnerAlways == Spec => []OwnerInv
<1>1. Init => OwnerInv
  BY DEF Init, OwnerInv, OwnerStays, Owned, Working
<1>2. ASSUME Base, OwnerInv, [Next]_vars PROVE OwnerInv'
  <2>1. ASSUME NEW r \in Requests, RequestStep(r) PROVE OwnerInv'
    BY <1>2, <2>1, RequestShapes, OwnerLooks, OwnerWrites
  <2>2. ASSUME NEW r \in Requests, Crash(r) PROVE OwnerInv'
    BY <1>2, <2>2, CrashShape DEF OwnerInv, OwnerStays, Owned, Others, Working
  <2>3. ASSUME NEW t \in tasks, TaskStep(t) PROVE OwnerInv'
    <3>1. TaskOnly
      BY <2>3 DEF TaskStep, HookLoad, HookPut, HookDelete, MoveLoad, MoveGet, MoveDrop, MovePut
    <3> QED BY <1>2, <3>1 DEF TaskOnly, askVars, historyVars, OwnerInv, OwnerStays, Owned,
               Working, Rec
  <2>4. ASSUME UNCHANGED vars PROVE OwnerInv'
    BY <1>2, <2>4 DEF vars, askVars, historyVars, OwnerInv, OwnerStays, Owned, Working, Rec
  <2> QED BY <1>2, <2>1, <2>2, <2>3, <2>4 DEF Next
<1> QED BY <1>1, <1>2, BaseAlways, PTL DEF Spec

(***************************************************************************)
(* Codes.  CodesUnique needs that the documents of the codes anybody is    *)
(* sure of tell those codes or are about to (DocsTell), that a search that *)
(* missed nothing has seen them all (Looked), and that the payload an      *)
(* update merges into is the one in the file (Merged).                     *)
(***************************************************************************)
\* The paths of the folder with a code that somebody has vouched for, and what their
\* documents should say
Sure(p) == p \in Unique \ unsure /\ files[p] # None /\ files[p].code # None
Tells(doc, p) == doc = [code |-> files[p].code, at |-> p]
\* Nothing but the announcement of what was written is pending for such a path, and the
\* document tells its code unless one is pending.
DocsTell ==
  \A p \in Paths : Sure(p) =>
    /\ \A t \in tasks : p \in {t.path, t.dest} =>
         t.act = "put" /\ t.path = p /\ (t.step = "put" => Tells(t.doc, p))
    /\ Tells(docs[p], p) \/ \E t \in tasks : t.path = p
\* Who has looked for a code and missed nothing since: nobody has it.
Looked ==
  \A r \in Requests : pc[r] = "write" /\ Kind(r) \in Asks /\ Searched(r) /\ r \notin met =>
    /\ Pending = {}
    /\ \A p \in Paths : Sure(p) /\ p # Rec(r).path => files[p].code # Rec(r).code
\* Who has loaded a payload to merge into and missed nothing since has the one in the file.
Merged ==
  \A r \in Requests :
    /\ pc[r] \in {"search", "write"} /\ Kind(r) = "update" /\ r \notin met
    /\ Rec(r).payload /\ Rec(r).code = None /\ Rec(r).path \in Unique
    => Exists(Rec(r).path) /\ copy[r].code = files[Rec(r).path].code
CodeInv == CodesUnique /\ DocsTell /\ Looked /\ Merged

\* CodesUnique in terms of the codes anybody is sure of,
LEMMA CodesDiffer ==
  CodesUnique <=> \A p, q \in Paths : p # q /\ Sure(p) /\ Sure(q) => files[p].code # files[q].code
BY NameAssumption DEF CodesUnique, Sure

\* also after a step.
LEMMA CodesDifferNext ==
  CodesUnique' <=> (\A p, q \in Paths : p # q /\ Sure(p)' /\ Sure(q)' => files'[p].code # files'[q].code)
BY NameAssumption DEF CodesUnique, Sure

\* An index that nothing is pending for tells the codes of the folder.
LEMMA SearchFinds ==
  ASSUME Base, DocsTell, NEW r \in Requests, Pending = {}, ~Found(r),
         NEW p \in Paths, Sure(p), p # Rec(r).path
  PROVE  files[p].code # Rec(r).code
<1>1. p \in Unique
  BY DEF Sure
<1>2. ASSUME NEW t \in tasks PROVE t.path # p
  BY <1>1, <1>2 DEF Pending
<1>3. docs[p] = [code |-> files[p].code, at |-> p]
  BY <1>2 DEF DocsTell, Tells
<1>4. files[p] \in Entries /\ docs[p] \in Docs
  <2>1. files[p] \in Entries
    BY DEF Base, TypeOK, Sure
  <2> QED BY <1>3, <2>1 DEF Entries, Docs
<1>5. docs[p] # None
  BY <1>4, NameAssumption
<1>6. docs[p].code = files[p].code /\ docs[p].at = p
  BY <1>3
<1> QED BY <1>1, <1>5, <1>6 DEF Found

\* Looking preserves the invariant of the codes: a search that finds nothing in an index
\* that nothing is pending for has seen all of them.
LEMMA CodesLooks ==
  ASSUME Base, CodeInv, NEW r \in Requests, Looks(r)
  PROVE  CodeInv'
<1>0. UNCHANGED <<files, docs, tasks, unsure>> /\ Others(r) /\ Pending' = Pending
  BY DEF Looks, Pending
<1>1. CodesUnique'
  BY <1>0 DEF CodeInv, CodesUnique
<1>2. \A p : Sure(p)' <=> Sure(p)
  BY <1>0 DEF Sure
<1>3. DocsTell'
  BY <1>0, <1>2 DEF CodeInv, DocsTell, Tells
<1>4. ASSUME NEW o \in Requests \ {r} PROVE o \in met' <=> o \in met
  <2>1. CASE met' \ {r} = met \ {r}
    BY <2>1
  <2> QED BY <2>1 DEF Looks
<1>5. ASSUME NEW o \in Requests, pc'[o] = "write", Kind(o)' \in Asks, Searched(o)', o \notin met'
      PROVE  /\ Pending' = {}
             /\ \A p \in Paths : Sure(p)' /\ p # Rec(o)'.path => files'[p].code # Rec(o)'.code
  <2>1. CASE o # r
    <3>1. Searched(o)
      BY <1>0, <1>5, <2>1 DEF Searched, Others
    <3> QED BY <1>0, <1>2, <1>4, <1>5, <2>1, <3>1 DEF CodeInv, Looked, Others
  <2>2. CASE o = r
    <3>1. pc[r] = "search" /\ Rec(r)' = Rec(r) /\ ~(Searched(r) /\ Found(r))
          /\ met' = Mark(met, r, IF Searched(r) THEN Pending # {} ELSE r \in met)
      <4>1. pc[r] = "load" => Kind(r) \in Loads
        BY DEF Base, Fits
      <4> QED BY <1>5, <2>2, <4>1 DEF Looks, Turned, Asks, Loads
    <3>2. Searched(r)
      BY <1>5, <2>2, <3>1 DEF Searched
    <3>3. Pending = {}
      BY <1>5, <2>2, <3>1, <3>2 DEF Mark
    <3> QED BY <1>0, <1>2, <2>2, <3>1, <3>2, <3>3, SearchFinds DEF CodeInv
  <2> QED BY <2>1, <2>2
<1>6. ASSUME NEW o \in Requests, pc'[o] \in {"search", "write"}, Kind(o)' = "update", o \notin met',
             Rec(o)'.payload, Rec(o)'.code = None, Rec(o)'.path \in Unique
      PROVE  files'[Rec(o)'.path] # None /\ copy'[o].code = files'[Rec(o)'.path].code
  <2>1. CASE o # r
    BY <1>0, <1>4, <1>6, <2>1 DEF CodeInv, Merged, Others, Exists
  <2>2. CASE o = r /\ pc[r] = "search"
    <3>1. Rec(r)' = Rec(r) /\ Kind(r)' = Kind(r) /\ copy'[r] = copy[r]
          /\ met' = Mark(met, r, IF Searched(r) THEN Pending # {} ELSE r \in met)
      BY <1>6, <2>2 DEF Looks, Turned
    <3>2. ~Searched(r)
      BY <1>6, <2>2, <3>1 DEF Searched
    <3>3. r \notin met
      BY <1>6, <2>2, <3>1, <3>2 DEF Mark
    <3> QED BY <1>0, <1>6, <2>2, <3>1, <3>3 DEF CodeInv, Merged, Exists
  <2>3. CASE o = r /\ pc[r] # "search"
    <3>1. Rec(r)' = Rec(r) /\ Exists(Rec(r).path) /\ copy'[r].code = files[Rec(r).path].code
      BY <1>6, <2>3 DEF Looks, Turned
    <3> QED BY <1>0, <2>3, <3>1 DEF Exists
  <2> QED BY <2>1, <2>2, <2>3
<1>7. Looked'
  BY <1>5 DEF Looked
<1>8. Merged'
  BY <1>6 DEF Merged, Exists
<1> QED BY <1>1, <1>3, <1>7, <1>8 DEF CodeInv

\* What the writes of a request leave alone, and what they vouch for.
LEMMA CodesWrite ==
  ASSUME Base, CodeInv, NEW r \in Requests, pc[r] = "write", Others(r), Turned(r), docs' = docs,
         NEW ps \in SUBSET Paths,
         \A o \in Requests \ {r} : o \notin met' => o \notin met /\ o \notin Missed(r, ps),
         \A e \in Paths \ ps : files'[e] = files[e] /\ (e \in unsure => e \in unsure'),
         tasks \subseteq tasks',
         \A t \in tasks' \ tasks : {t.path, t.dest} \subseteq ps \cup {None},
         \A d, e \in ps : Sure(d)' /\ Sure(e)' => d = e,
         \A e \in ps : Sure(e)' =>
            /\ \E t \in tasks' : t.path = e
            /\ \A t \in tasks' \ tasks : t.act = "put" /\ t.path = e /\ t.step = "start"
            /\ \/ Sure(e) /\ files'[e].code = files[e].code
               \/ /\ Pending = {}
                  /\ \A d \in Paths : Sure(d) /\ d # e => files[d].code # files'[e].code
  PROVE  CodeInv'
<1>1. ASSUME NEW e \in Paths \ ps, Sure(e)' PROVE Sure(e)
  BY <1>1 DEF Sure
<1>2. CodesUnique'
  <2> SUFFICES ASSUME NEW d \in Paths, NEW e \in Paths, d # e, Sure(d)', Sure(e)'
               PROVE  files'[d].code # files'[e].code
    BY CodesDifferNext
  <2>1. CASE d \notin ps /\ e \notin ps
    BY <1>1, <2>1, CodesDiffer DEF CodeInv
  <2>2. CASE d \notin ps /\ e \in ps
    BY <1>1, <2>2, CodesDiffer DEF CodeInv
  <2>3. CASE d \in ps /\ e \notin ps
    BY <1>1, <2>3, CodesDiffer DEF CodeInv
  <2>4. CASE d \in ps /\ e \in ps
    BY <2>4
  <2> QED BY <2>1, <2>2, <2>3, <2>4
<1>3. ASSUME NEW e \in Paths, Sure(e)'
      PROVE  /\ \A t \in tasks' : e \in {t.path, t.dest} =>
                  t.act = "put" /\ t.path = e /\ (t.step = "put" => t.doc = [code |-> files'[e].code, at |-> e])
             /\ docs'[e] = [code |-> files'[e].code, at |-> e] \/ \E t \in tasks' : t.path = e
  <2>1. CASE e \notin ps
    <3>1. Sure(e) /\ files'[e] = files[e] /\ e # None
      BY <1>1, <1>3, <2>1, NameAssumption
    <3>2. ASSUME NEW t \in tasks', e \in {t.path, t.dest} PROVE t \in tasks
      BY <2>1, <3>1, <3>2
    <3> QED BY <3>1, <3>2 DEF CodeInv, DocsTell, Tells
  <2>2. CASE e \in ps
    <3>1. ASSUME NEW t \in tasks, e \in {t.path, t.dest}
          PROVE  t.act = "put" /\ t.path = e /\ (t.step = "put" => t.doc = [code |-> files'[e].code, at |-> e])
      <4>1. Pending # {}
        BY <1>3, <3>1 DEF Sure, Pending
      <4>2. Sure(e) /\ files'[e].code = files[e].code
        BY <1>3, <2>2, <4>1
      <4> QED BY <3>1, <4>2 DEF CodeInv, DocsTell, Tells
    <3> QED BY <1>3, <2>2, <3>1
  <2> QED BY <2>1, <2>2
<1>4. ASSUME NEW o \in Requests \ {r}, pc[o] = "write", Kind(o) \in Asks, Searched(o), o \notin met'
      PROVE  /\ Pending' = {}
             /\ \A p \in Paths : Sure(p)' /\ p # Rec(o).path => files'[p].code # Rec(o).code
  <2>1. o \notin met /\ ps \cap Unique = {}
    BY <1>4 DEF Missed
  <2>2. Pending = {} /\ \A p \in Paths : Sure(p) /\ p # Rec(o).path => files[p].code # Rec(o).code
    BY <1>4, <2>1 DEF CodeInv, Looked
  <2>3. Pending' = {}
    <3>1. ASSUME NEW t \in tasks', {t.path, t.dest} \cap Unique # {} PROVE FALSE
      <4>1. CASE t \in tasks BY <2>2, <3>1, <4>1 DEF Pending
      <4>2. CASE t \notin tasks BY <2>1, <3>1, <4>2, NameAssumption
      <4> QED BY <4>1, <4>2
    <3> QED BY <3>1 DEF Pending
  <2>4. ASSUME NEW p \in Paths, Sure(p)' PROVE Sure(p) /\ files'[p] = files[p]
    BY <1>1, <2>1, <2>4 DEF Sure
  <2> QED BY <2>2, <2>3, <2>4
<1>5. Looked'
  <2>1. ASSUME NEW o \in Requests \ {r} PROVE Searched(o)' <=> Searched(o)
    BY DEF Searched, Others
  <2> QED BY <1>4, <2>1 DEF Looked, Others, Turned
<1>6. ASSUME NEW o \in Requests \ {r}, pc[o] \in {"search", "write"}, Kind(o) = "update", o \notin met',
             Rec(o).payload, Rec(o).code = None, Rec(o).path \in Unique
      PROVE  files'[Rec(o).path] # None /\ copy[o].code = files'[Rec(o).path].code
  <2>1. copy[o] # None
    BY <1>6 DEF Base, Fits, Working, Loads
  <2>2. o \notin met /\ ps \cap Unique = {}
    BY <1>6, <2>1 DEF Missed
  <2>3. files'[Rec(o).path] = files[Rec(o).path]
    BY <1>6, <2>2, NameAssumption
  <2> QED BY <1>6, <2>2, <2>3 DEF CodeInv, Merged, Exists
<1>7. Merged'
  BY <1>6 DEF Merged, Others, Turned, Exists
<1>8. DocsTell'
  BY <1>3 DEF DocsTell, Tells
<1> QED BY <1>2, <1>5, <1>7, <1>8 DEF CodeInv

\* Who misses a write is in met from then on.
LEMMA MissedKept ==
  ASSUME NEW r, NEW ps,
         (\E owners : Writes(r, ps, owners)) \/ Spoils(r, ps)
  PROVE  \A o \in Requests \ {r} : o \notin met' => o \notin met /\ o \notin Missed(r, ps)
BY DEF Writes, Spoils

\* What an announcement adds
LEMMA AnnounceAdds ==
  ASSUME NEW r, NEW act, NEW p, NEW q, Announce(r, act, p, q)
  PROVE  /\ tasks \subseteq tasks'
         /\ \A t \in tasks' \ tasks : t.act = act /\ t.path = p /\ t.dest = q /\ t.step = "start"
         /\ \E t \in tasks' : t.path = p
<1> DEFINE n == [of |-> r, turn |-> at[r], act |-> act, path |-> p, dest |-> q,
                 step |-> "start", doc |-> None]
<1>1. tasks' = tasks \cup {n}
  BY DEF Announce
<1>2. n.act = act /\ n.path = p /\ n.dest = q /\ n.step = "start"
  OBVIOUS
<1> HIDE DEF n
<1> QED BY <1>1, <1>2

\* A new entry has the code that was looked for, or is unsure.
LEMMA CodesNew ==
  ASSUME Base, CodeInv, NEW r \in Requests, pc[r] = "write", Others(r), Turned(r), docs' = docs,
         NEW p \in Paths, Rec(r).path = p, NewIn(r)
  PROVE  CodeInv'
<1>1. /\ files' = [files EXCEPT ![p] = [code |-> Rec(r).code, owner |-> who[r]]]
      /\ Announce(r, "put", p, None) /\ Writes(r, {p}, TRUE)
      /\ unsure' = Mark(unsure, p, r \in met \/ Kind(r) = "upload" \/ ~Rec(r).named)
  BY DEF NewIn, PutNew
<1>2. \A e \in Paths \ {p} : files'[e] = files[e] /\ (e \in unsure => e \in unsure')
  BY <1>1 DEF Mark, Base, TypeOK
<1>3. ASSUME Sure(p)'
      PROVE  Pending = {} /\ \A d \in Paths : Sure(d) /\ d # p => files[d].code # files'[p].code
  <2>1. files'[p].code = Rec(r).code
    BY <1>1 DEF Base, TypeOK
  <2>2. p \in Unique /\ Rec(r).code # None /\ r \notin met /\ Kind(r) # "upload" /\ Rec(r).named
    BY <1>1, <1>3, <2>1 DEF Sure, Mark
  <2>3. Rec(r).payload
    BY <2>2, RecFacts DEF Base
  <2>4. Searched(r) /\ Kind(r) \in Asks
    BY <2>2, <2>3 DEF Searched, NewIn, Asks
  <2> QED BY <2>1, <2>2, <2>4 DEF CodeInv, Looked
<1>4. \A o \in Requests \ {r} : o \notin met' => o \notin met /\ o \notin Missed(r, {p})
  BY <1>1, MissedKept
<1>5. /\ tasks \subseteq tasks'
      /\ \A t \in tasks' \ tasks : t.act = "put" /\ t.path = p /\ t.dest = None /\ t.step = "start"
      /\ \E t \in tasks' : t.path = p
  BY <1>1, AnnounceAdds
<1>6. \A t \in tasks' \ tasks : {t.path, t.dest} \subseteq {p} \cup {None}
  BY <1>5
<1> QED BY <1>2, <1>3, <1>4, <1>5, <1>6, CodesWrite

\* An update keeps the code that was there or writes one that was looked for, or the path
\* is unsure.
LEMMA CodesOld ==
  ASSUME Base, CodeInv, NEW r \in Requests, pc[r] = "write", Others(r), Turned(r), docs' = docs,
         NEW p \in Paths, Rec(r).path = p, OldIn(r)
  PROVE  CodeInv'
<1>1. /\ files' = [files EXCEPT ![p] = Changed(r)] /\ files[p] # None /\ files[p] \in Entries
      /\ Announce(r, "put", p, None) /\ Writes(r, {p}, Kind(r) = "assign")
      /\ unsure' = Mark(unsure, p, Doubted(r))
      /\ Kind(r) \in {"update", "r_replace", "assign", "update_acl"}
  BY DEF OldIn, Exists, Base, TypeOK
<1>2. \A e \in Paths \ {p} : files'[e] = files[e] /\ (e \in unsure => e \in unsure')
  BY <1>1 DEF Mark, Base, TypeOK
<1>3. ASSUME Sure(p)'
      PROVE  \/ Sure(p) /\ files'[p].code = files[p].code
             \/ Pending = {} /\ \A d \in Paths : Sure(d) /\ d # p => files[d].code # files'[p].code
  <2>1. files'[p] = Changed(r) /\ p \in Unique /\ ~Doubted(r) /\ files'[p].code # None
    BY <1>1, <1>3 DEF Sure, Mark, Base, TypeOK
  <2>2. CASE Kind(r) \in {"assign", "update_acl"}
    <3>1. Changed(r).code = files[p].code
      BY <1>1, <2>2, ChangedIs DEF Assigned, WithAcl, Entries
    <3>2. p \notin unsure
      BY <2>1, <2>2 DEF Doubted
    <3> QED BY <1>1, <2>1, <3>1, <3>2 DEF Sure
  <2>3. CASE Kind(r) \in {"update", "r_replace"}
    <3>0. /\ files'[p].code = NewCode(r)
          /\ Rec(r).payload \in BOOLEAN
      BY <2>1, <2>3, ChangedIs, RecFacts DEF Updated, Base
    <3>1. CASE ~Rec(r).payload
      <4>1. p \notin unsure
        BY <2>1, <3>1 DEF Doubted
      <4> QED BY <1>1, <2>1, <3>0, <3>1, <4>1, NewCodeIs DEF Sure
    <3>2. CASE Rec(r).payload /\ Searched(r)
      <4>1. r \notin met
        BY <2>1, <2>3, <3>2 DEF Doubted
      <4>2. NewCode(r) = Rec(r).code
        <5>1. Rec(r).code # None
          BY <3>2 DEF Searched
        <5> QED BY <3>2, <5>1 DEF NewCode
      <4> QED BY <2>3, <3>0, <3>2, <4>1, <4>2 DEF CodeInv, Looked, Asks
    <3>3. CASE Rec(r).payload /\ ~Searched(r)
      <4>1. p \notin unsure /\ r \notin met /\ Rec(r).code = None
        BY <2>1, <2>3, <3>3 DEF Doubted
      <4>2. Kind(r) = "update" /\ NewCode(r) = copy[r].code
        <5>1. Rec(r).payload /\ NewCode(r) # None
          BY <2>1, <3>0, <3>3
        <5>2. Kind(r) = "update"
          BY <2>3, <4>1, <5>1 DEF NewCode
        <5> QED BY <4>1, <5>1, <5>2 DEF NewCode
      <4>3. copy[r].code = files[p].code
        BY <2>1, <3>3, <4>1, <4>2 DEF CodeInv, Merged
      <4> QED BY <1>1, <2>1, <3>0, <4>1, <4>2, <4>3 DEF Sure
    <3> QED BY <3>0, <3>1, <3>2, <3>3
  <2> QED BY <1>1, <2>2, <2>3
<1>4. \A o \in Requests \ {r} : o \notin met' => o \notin met /\ o \notin Missed(r, {p})
  BY <1>1, MissedKept
<1>5. /\ tasks \subseteq tasks'
      /\ \A t \in tasks' \ tasks : t.act = "put" /\ t.path = p /\ t.dest = None /\ t.step = "start"
      /\ \E t \in tasks' : t.path = p
  BY <1>1, AnnounceAdds
<1>6. \A t \in tasks' \ tasks : {t.path, t.dest} \subseteq {p} \cup {None}
  BY <1>5
<1> QED BY <1>2, <1>3, <1>4, <1>5, <1>6, CodesWrite

\* What is gone, carried over or spoilt is in no entry anybody is sure of.
LEMMA CodesDoubt ==
  ASSUME Base, CodeInv, NEW r \in Requests, pc[r] = "write", Others(r), Turned(r), docs' = docs,
         NEW ps \in SUBSET Paths, NEW act, NEW p, NEW q, {p, q} \subseteq ps \cup {None},
         Announce(r, act, p, q),
         (\E owners : Writes(r, ps, owners)) \/ Spoils(r, ps),
         \A e \in Paths \ ps : files'[e] = files[e] /\ (e \in unsure => e \in unsure'),
         \A e \in ps : files'[e] = None \/ e \in unsure'
  PROVE  CodeInv'
<1>1. \A e \in ps : ~Sure(e)'
  BY DEF Sure
<1>2. \A o \in Requests \ {r} : o \notin met' => o \notin met /\ o \notin Missed(r, ps)
  BY MissedKept
<1>3. tasks \subseteq tasks' /\ \A t \in tasks' \ tasks : t.path = p /\ t.dest = q
  BY AnnounceAdds
<1>4. \A t \in tasks' \ tasks : {t.path, t.dest} \subseteq ps \cup {None}
  BY <1>3
<1> QED BY <1>1, <1>2, <1>3, <1>4, CodesWrite

\* A deletion, a move, and the refusal of either
LEMMA CodesGone ==
  ASSUME Base, CodeInv, NEW r \in Requests, pc[r] = "write", Others(r), Turned(r), docs' = docs,
         NEW p \in Paths, Rec(r).path = p, NEW q, Rec(r).dest = q,
         Gone(r) \/ Carried(r) \/ Spoilt(r)
  PROVE  CodeInv'
<1>1. CASE Gone(r)
  <2>1. /\ files' = [files EXCEPT ![p] = None] /\ unsure' = unsure \ {p}
        /\ Announce(r, "del", p, None) /\ Writes(r, {p}, TRUE)
    BY <1>1 DEF Gone
  <2>2. /\ \A e \in Paths \ {p} : files'[e] = files[e] /\ (e \in unsure => e \in unsure')
        /\ \A e \in {p} : files'[e] = None
    BY <2>1 DEF Base, TypeOK
  <2>3. {p} \in SUBSET Paths /\ {p, None} \subseteq {p} \cup {None}
    OBVIOUS
  <2>4. (\E owners : Writes(r, {p}, owners)) \/ Spoils(r, {p})
    BY <2>1 DEF Writes
  <2>5. \A e \in {p} : files'[e] = None \/ e \in unsure'
    BY <2>2
  <2> QED BY <2>1, <2>2, <2>3, <2>4, <2>5, CodesDoubt
<1>2. CASE Carried(r)
  <2>1. /\ files' = [files EXCEPT ![p] = None, ![q] = [code |-> files[p].code, owner |-> copy[r].owner]]
        /\ unsure' = (unsure \ {p}) \cup {q}
        /\ Announce(r, "move", p, q) /\ Writes(r, {p, q}, TRUE) /\ Kind(r) = "move"
    BY <1>2 DEF Carried
  <2>2. q \in Paths /\ p # q
    BY <2>1, RecFacts DEF Base
  <2>3. /\ \A e \in Paths \ {p, q} : files'[e] = files[e] /\ (e \in unsure => e \in unsure')
        /\ \A e \in {p, q} : files'[e] = None \/ e \in unsure'
    BY <2>1, <2>2 DEF Base, TypeOK
  <2>4. {p, q} \in SUBSET Paths /\ {p, q} \subseteq {p, q} \cup {None}
    BY <2>2
  <2>5. (\E owners : Writes(r, {p, q}, owners)) \/ Spoils(r, {p, q})
    BY <2>1 DEF Writes
  <2>6. q \in Paths /\ docs' = docs /\ Announce(r, "move", p, q)
    BY <2>1, <2>2
  <2> QED BY <2>3, <2>4, <2>5, <2>6, CodesDoubt
<1>3. CASE Spoilt(r)
  <2>1. CASE Announce(r, "del", p, None) /\ Spoils(r, {p})
    <3>1. /\ \A e \in Paths \ {p} : files'[e] = files[e] /\ (e \in unsure => e \in unsure')
          /\ \A e \in {p} : files'[e] = None \/ e \in unsure'
      BY <1>3, <2>1 DEF Spoilt, Spoils
    <3>2. {p} \in SUBSET Paths /\ {p, None} \subseteq {p} \cup {None}
      OBVIOUS
    <3> QED BY <2>1, <3>1, <3>2, CodesDoubt
  <2>2. CASE q \in Paths /\ Announce(r, "move", p, q) /\ Spoils(r, {p, q})
    <3>1. /\ \A e \in Paths \ {p, q} : files'[e] = files[e] /\ (e \in unsure => e \in unsure')
          /\ \A e \in {p, q} : files'[e] = None \/ e \in unsure'
      BY <1>3, <2>2 DEF Spoilt, Spoils
    <3>2. {p, q} \in SUBSET Paths /\ {p, q} \subseteq {p, q} \cup {None}
      BY <2>2
    <3> QED BY <2>2, <3>1, <3>2, CodesDoubt
  <2> QED BY <1>3, <2>1, <2>2 DEF Spoilt
<1> QED BY <1>1, <1>2, <1>3

\* Whatever a crash leaves undone in the index is unsure.
LEMMA CodesCrash ==
  ASSUME Base, CodeInv, NEW r \in Requests, Crash(r)
  PROVE  CodeInv'
<1>1. /\ Others(r) /\ pc'[r] = "done" /\ tasks' \subseteq tasks
      /\ files' = files /\ docs' = docs /\ met' = met \ {r} /\ unsure \subseteq unsure'
      /\ \A t \in tasks \ tasks' : t.path \in unsure' /\ (t.dest \in Paths => t.dest \in unsure')
  BY CrashShape
<1>2. ASSUME NEW p \in Paths, Sure(p)' PROVE Sure(p) /\ p \notin unsure'
  BY <1>1, <1>2 DEF Sure
<1>3. CodesUnique'
  BY <1>1, <1>2, CodesDiffer, CodesDifferNext DEF CodeInv
<1>4. ASSUME NEW p \in Paths, Sure(p)', NEW t \in tasks, t.path = p PROVE t \in tasks'
  BY <1>1, <1>2, <1>4
<1>5. DocsTell'
  BY <1>1, <1>2, <1>4 DEF CodeInv, DocsTell, Tells
<1>6. Pending' \subseteq Pending
  BY <1>1 DEF Pending
<1>7. \A o \in Requests \ {r} : Searched(o)' <=> Searched(o)
  BY <1>1 DEF Searched, Others
<1>8. Looked'
  BY <1>1, <1>2, <1>6, <1>7 DEF CodeInv, Looked, Others
<1>9. Merged'
  BY <1>1 DEF CodeInv, Merged, Others, Exists
<1> QED BY <1>3, <1>5, <1>8, <1>9 DEF CodeInv

\* A task becomes another one of its path and destination, or ends, and then what it
\* had to put is in the index, if there was anything to put.
Passes(t, n) ==
  /\ tasks' = (tasks \ {t}) \cup {n}
  /\ n.act = t.act /\ n.path = t.path /\ n.dest = t.dest
  /\ t.act = "put" => Tells(n.doc, t.path) /\ docs' = docs
Lasts(t) ==
  /\ tasks' = tasks \ {t}
  /\ t.act = "put" => \/ files[t.path] = None
                      \/ t.step = "put" /\ docs'[t.path] = t.doc

\* Every step of a hook does one of the two, and touches its own documents only.
LEMMA TaskShape ==
  ASSUME Base, NEW t \in tasks, TaskStep(t)
  PROVE  /\ Lasts(t) \/ \E n : Passes(t, n)
         /\ \A p \in Paths \ {t.path, t.dest} : docs'[p] = docs[p]
<1>1. t \in Tasks
  BY DEF Base, TypeOK
<1>2. ASSUME NEW step, NEW doc, Becomes(t, step, doc), t.act = "put" => Tells(doc, t.path) /\ docs' = docs
      PROVE  \E n : Passes(t, n)
  <2> DEFINE n == [t EXCEPT !.step = step, !.doc = doc]
  <2>1. n.act = t.act /\ n.path = t.path /\ n.dest = t.dest /\ n.doc = doc
    BY <1>1 DEF Tasks
  <2>2. tasks' = (tasks \ {t}) \cup {n}
    BY <1>2 DEF Becomes
  <2> HIDE DEF n
  <2>3. Passes(t, n)
    BY <1>2, <2>1, <2>2 DEF Passes
  <2> QED BY <2>3
<1>3. t.path \in Paths /\ docs \in [Paths -> Docs \cup {None}]
  BY <1>1 DEF Tasks, Base, TypeOK
<1>4. CASE HookLoad(t)
  <2>1. CASE files[t.path] = None
    BY <1>4, <2>1 DEF HookLoad, Ends, Lasts
  <2>2. CASE files[t.path] # None
    <3>1. /\ Becomes(t, "put", [code |-> files[t.path].code, at |-> t.path])
          /\ docs' = docs
      BY <1>4, <2>2 DEF HookLoad
    <3> QED BY <1>2, <3>1 DEF Tells
  <2> QED BY <2>1, <2>2
<1>5. CASE HookPut(t)
  BY <1>3, <1>5 DEF HookPut, Ends, Lasts
<1>6. CASE HookDelete(t)
  BY <1>3, <1>6 DEF HookDelete, Ends, Lasts
<1>7. CASE MoveLoad(t)
  <2>1. t.act # "put" /\ docs' = docs /\ (Ends(t) \/ Becomes(t, "get", None))
    BY <1>7 DEF MoveLoad
  <2> QED BY <1>2, <2>1 DEF Ends, Lasts
<1>8. CASE MoveGet(t)
  <2>1. t.act # "put" /\ docs' = docs /\ Becomes(t, "drop", docs[t.path])
    BY <1>8 DEF MoveGet
  <2> QED BY <1>2, <2>1
<1>9. CASE MoveDrop(t)
  <2>1. t.act # "put" /\ docs' = [docs EXCEPT ![t.path] = None] /\ Becomes(t, "put", t.doc)
    BY <1>9 DEF MoveDrop
  <2>2. \A p \in Paths \ {t.path, t.dest} : docs'[p] = docs[p]
    BY <1>3, <2>1
  <2> QED BY <1>2, <2>1, <2>2
<1>10. CASE MovePut(t)
  BY <1>3, <1>10 DEF MovePut, Ends, Lasts
<1> QED BY <1>4, <1>5, <1>6, <1>7, <1>8, <1>9, <1>10 DEF TaskStep

\* So the index is brought up to date, or somebody is still about to.
LEMMA CodesTask ==
  ASSUME Base, CodeInv, NEW t \in tasks, TaskStep(t)
  PROVE  CodeInv'
<1>1. UNCHANGED <<files, batch, on, pc, copy, met, unsure>>
  BY DEF TaskStep, HookLoad, HookPut, HookDelete, MoveLoad, MoveGet, MoveDrop, MovePut,
     TaskOnly, askVars, historyVars
<1>2. \A p : Sure(p)' <=> Sure(p)
  BY <1>1 DEF Sure
<1>3. \A o : Rec(o)' = Rec(o) /\ Kind(o)' = Kind(o)
  BY <1>1 DEF Rec, Kind
<1>4. CodesUnique' /\ Merged'
  BY <1>1, <1>3 DEF CodeInv, CodesUnique, Merged, Exists
<1>5. ASSUME NEW u \in tasks' PROVE \E v \in tasks : v.path = u.path /\ v.dest = u.dest
  <2>1. CASE Lasts(t)
    BY <1>5, <2>1 DEF Lasts
  <2>2. CASE \E n : Passes(t, n)
    BY <1>5, <2>2 DEF Passes
  <2> QED BY <2>1, <2>2, TaskShape
<1>6. Looked'
  <2>1. \A o : Searched(o)' <=> Searched(o)
    BY <1>3 DEF Searched
  <2>2. ASSUME Pending = {} PROVE Pending' = {}
    BY <1>5, <2>2 DEF Pending
  <2> QED BY <1>1, <1>2, <1>3, <2>1, <2>2 DEF CodeInv, Looked
<1>7. ASSUME NEW p \in Paths, Sure(p)
      PROVE  /\ \A u \in tasks' : p \in {u.path, u.dest} =>
                  u.act = "put" /\ u.path = p /\ (u.step = "put" => Tells(u.doc, p))
             /\ Tells(docs'[p], p) \/ \E u \in tasks' : u.path = p
  <2>1. /\ \A u \in tasks : p \in {u.path, u.dest} =>
               u.act = "put" /\ u.path = p /\ (u.step = "put" => Tells(u.doc, p))
        /\ Tells(docs[p], p) \/ \E u \in tasks : u.path = p
    BY <1>7 DEF CodeInv, DocsTell
  <2>2. files[p] # None
    BY <1>7 DEF Sure
  <2>3. p \notin {t.path, t.dest} => docs'[p] = docs[p]
    BY TaskShape
  <2>4. CASE Lasts(t)
    <3>1. CASE p \in {t.path, t.dest}
      <4>1. t.act = "put" /\ t.path = p /\ (t.step = "put" => Tells(t.doc, p))
        BY <2>1, <3>1
      <4>2. Tells(docs'[p], p)
        BY <2>2, <2>4, <4>1 DEF Lasts
      <4> QED BY <2>1, <2>4, <4>2 DEF Lasts
    <3>2. CASE p \notin {t.path, t.dest}
      BY <2>1, <2>3, <2>4, <3>2 DEF Lasts
    <3> QED BY <3>1, <3>2
  <2>5. ASSUME NEW n, Passes(t, n)
        PROVE  /\ \A u \in tasks' : p \in {u.path, u.dest} =>
                    u.act = "put" /\ u.path = p /\ (u.step = "put" => Tells(u.doc, p))
               /\ Tells(docs'[p], p) \/ \E u \in tasks' : u.path = p
    <3>1. CASE p \in {t.path, t.dest}
      <4>1. t.act = "put" /\ t.path = p
        BY <2>1, <3>1
      <4>2. n.act = "put" /\ n.path = p /\ Tells(n.doc, p) /\ n \in tasks'
        BY <2>5, <4>1 DEF Passes
      <4> QED BY <2>1, <2>5, <4>2 DEF Passes
    <3>2. CASE p \notin {t.path, t.dest}
      <4>1. n.path = t.path /\ n.dest = t.dest /\ tasks' = (tasks \ {t}) \cup {n}
        BY <2>5 DEF Passes
      <4> QED BY <2>1, <2>3, <3>2, <4>1
    <3> QED BY <3>1, <3>2
  <2> QED BY <2>4, <2>5, TaskShape
<1>8. \A doc, p : Tells(doc, p)' <=> Tells(doc, p)
  BY <1>1 DEF Tells
<1>9. DocsTell'
  BY <1>1, <1>2, <1>7 DEF DocsTell, Tells
<1> QED BY <1>4, <1>6, <1>9 DEF CodeInv

\* Codes are unique among the paths anybody is sure of, their documents tell the code or a
\* task is about to put it there, and whoever has looked at the codes, or at a payload to
\* merge into, and missed nothing, may rely on what was seen.
THEOREM CodesAlways == Spec => []CodeInv
<1>1. Init => CodeInv
  <2> SUFFICES ASSUME Init PROVE CodeInv
    OBVIOUS
  <2>1. CodesUnique
    BY DEF Init, CodesUnique
  <2>2. ASSUME NEW p \in Paths, Sure(p) PROVE Tells(docs[p], p)
    BY <2>2 DEF Init, Sure, Tells
  <2>3. DocsTell
    BY <2>2 DEF DocsTell, Init
  <2>4. Looked /\ Merged
    BY DEF Init, Looked, Merged
  <2> QED BY <2>1, <2>3, <2>4 DEF CodeInv
<1>2. ASSUME Base, CodeInv, [Next]_vars PROVE CodeInv'
  <2>1. ASSUME NEW r \in Requests, RequestStep(r) PROVE CodeInv'
    BY <1>2, <2>1, RequestShapes, CodesLooks, CodesNew, CodesOld, CodesGone
  <2>2. ASSUME NEW r \in Requests, Crash(r) PROVE CodeInv'
    BY <1>2, <2>2, CodesCrash
  <2>3. ASSUME NEW t \in tasks, TaskStep(t) PROVE CodeInv'
    BY <1>2, <2>3, CodesTask
  <2>4. ASSUME UNCHANGED vars PROVE CodeInv'
    BY <1>2, <2>4 DEF vars, askVars, historyVars, CodeInv, CodesUnique, DocsTell, Looked,
       Merged, Pending, Searched, Sure,
       Tells, Rec, Kind, Exists
  <2> QED BY <1>2, <2>1, <2>2, <2>3, <2>4 DEF Next
<1> QED BY <1>1, <1>2, BaseAlways, PTL DEF Spec

\* validate_uniqueness keeps the codes of the folder apart, but for those that nobody has
\* vouched for.
THEOREM CodesUniqueAlways == Spec => []CodesUnique
BY CodesAlways, PTL DEF CodeInv

(***************************************************************************)
(* Answers.  Account is what AnswerTrue says, after n records instead of   *)
(* all.                                                                    *)
(***************************************************************************)
\* What a request has named and done when the first n records have had their turn.
Rows(r) == {i \in 1..Len(batch[r].records) : batch[r].records[i].path # None}
Later(r) == {i \in Rows(r) \ {1} : Kind(r) = "create" /\ batch[r].records[i].ticket}
Account(n, good, bad, did, rows, later) ==
  /\ good \ bad \subseteq did /\ did \subseteq good
  /\ did \cap bad \subseteq IF later = {} THEN {} ELSE {1}
  /\ good \cup bad \cup did \subseteq 1..n
  /\ (rows \cap 1..n) \ (good \cup bad) \subseteq later
\* The record worked on is the one whose turn it is, or the first in place of a ticket.
Turns(r) == on[r] = at[r] \/ (on[r] = 1 /\ at[r] \in Later(r))
\* What a request has accounted for where it stands, and when it is answered
Told(r) ==
  /\ pc[r] = "idle" => /\ listed[r] = {} /\ failed[r] = {} /\ done[r] = {} /\ answer[r] = None
                       /\ at[r] = 1 /\ on[r] = 1
  /\ Working(r) => /\ answer[r] = None /\ Turns(r)
                   /\ Account(at[r] - 1, listed[r], failed[r], done[r], Rows(r), Later(r))
  /\ answer[r] = "error" => done[r] \subseteq 1..(at[r] - 1)
  /\ answer[r] \in {"success", "failed"} =>
       /\ Account(Len(batch[r].records), listed[r], failed[r], done[r], Rows(r), Later(r))
       /\ answer[r] = "success" /\ Kind(r) # "import" => failed[r] = {}
AnswerInv == \A r \in Requests : Told(r)

\* A request that has been answered has accounted for all its records.
LEMMA AnswerInvTells ==
  ASSUME Base, AnswerInv
  PROVE  AnswerTrue
<1> SUFFICES ASSUME NEW r \in Requests, answer[r] # None
             PROVE  IF answer[r] = "error" THEN done[r] \subseteq 1..(at[r] - 1)
                    ELSE /\ listed[r] \ failed[r] \subseteq done[r] /\ done[r] \subseteq listed[r]
                         /\ done[r] \cap failed[r] \subseteq IF Later(r) = {} THEN {} ELSE {1}
                         /\ Rows(r) \ (listed[r] \cup failed[r]) \subseteq Later(r)
                         /\ answer[r] = "success" /\ Kind(r) # "import" => failed[r] = {}
  BY DEF AnswerTrue, Rows, Later
<1>1. answer[r] \in {"success", "failed", "error"} /\ Told(r)
  BY DEF Base, TypeOK, AnswerInv
<1>2. Rows(r) \subseteq 1..Len(batch[r].records)
  BY DEF Rows
<1>3. CASE answer[r] = "error"
  BY <1>1, <1>3 DEF Told
<1>4. CASE answer[r] # "error"
  <2>1. /\ Account(Len(batch[r].records), listed[r], failed[r], done[r], Rows(r), Later(r))
        /\ answer[r] = "success" /\ Kind(r) # "import" => failed[r] = {}
    BY <1>1, <1>4 DEF Told
  <2> QED BY <1>2, <1>4, <2>1 DEF Account
<1> QED BY <1>3, <1>4

\* The turn of record n, in which record i is named, or none when there is none.
LEMMA AccountGrows ==
  ASSUME NEW n \in Nat \ {0}, NEW good, NEW bad, NEW did, NEW rows, NEW later,
         Account(n - 1, good, bad, did, rows, later),
         NEW i \in Nat, i = n \/ (i = 1 /\ n \in later),
         NEW g \in SUBSET {i}, NEW b \in SUBSET {i}, g \cup b = {} => n \notin rows
  PROVE  Account(n, good \cup g, bad \cup b, did \cup (g \ b), rows, later)
<1>1. n \notin 1..(n - 1) /\ 1..n = 1..(n - 1) \cup {n} /\ i \in 1..n
  OBVIOUS
<1>2. n \notin good \cup bad \cup did
  BY <1>1 DEF Account
<1>3. (good \cup g) \ (bad \cup b) \subseteq did \cup (g \ b) /\ did \cup (g \ b) \subseteq good \cup g
  BY DEF Account
<1>4. (did \cup (g \ b)) \cap (bad \cup b) \subseteq IF later = {} THEN {} ELSE {1}
  <2> SUFFICES ASSUME NEW x \in (did \cup (g \ b)) \cap (bad \cup b) PROVE later # {} /\ x = 1
    OBVIOUS
  <2>1. CASE x \in did /\ x \in bad
    BY <2>1 DEF Account
  <2>2. CASE ~(x \in did /\ x \in bad)
    <3>1. x = i /\ x \in did \cup bad
      BY <2>2
    <3> QED BY <1>2, <3>1
  <2> QED BY <2>1, <2>2
<1>5. (good \cup g) \cup (bad \cup b) \cup (did \cup (g \ b)) \subseteq 1..n
  BY <1>1 DEF Account
<1>6. (rows \cap 1..n) \ ((good \cup g) \cup (bad \cup b)) \subseteq later
  <2> SUFFICES ASSUME NEW x \in rows \cap 1..n, x \notin (good \cup g) \cup (bad \cup b) PROVE x \in later
    OBVIOUS
  <2>1. CASE x = n
    BY <2>1
  <2>2. CASE x # n
    BY <1>1, <2>2 DEF Account
  <2> QED BY <2>1, <2>2
<1> QED BY <1>3, <1>4, <1>5, <1>6 DEF Account

\* The ways in which a request goes on, as far as its answer is concerned.
Served(r) ==
  \E i \in Nat : \E g, b \in SUBSET {i} :
    /\ Turn(r, g, b) /\ done' = [done EXCEPT ![r] = @ \cup (g \ b)]
    /\ i = at[r] \/ (i = 1 /\ at[r] \in Later(r))
    /\ g \cup b = {} => at[r] \notin Rows(r)
Broken(r) ==
  /\ pc' = [pc EXCEPT ![r] = "done"] /\ answer' = [answer EXCEPT ![r] = "error"]
  /\ UNCHANGED <<batch, at, on, listed, failed, done>>
GoesOn(r) ==
  /\ \E p : pc' = [pc EXCEPT ![r] = p] /\ p \notin {"idle", "done"}
  /\ \E i : on' = [on EXCEPT ![r] = i] /\ (i = at[r] \/ (i = 1 /\ at[r] \in Later(r)))
  /\ UNCHANGED <<batch, at, listed, failed, done, answer>>

\* Nothing changes for a request that no step is about.
LEMMA SameTold ==
  ASSUME NEW o, /\ batch'[o] = batch[o] /\ at'[o] = at[o] /\ on'[o] = on[o] /\ pc'[o] = pc[o]
                /\ listed'[o] = listed[o] /\ failed'[o] = failed[o] /\ done'[o] = done[o]
                /\ answer'[o] = answer[o],
         Told(o)
  PROVE  Told(o)'
<1>1. Kind(o)' = Kind(o) /\ Rows(o)' = Rows(o)
  BY DEF Kind, Rows
<1>2. Later(o)' = Later(o)
  BY <1>1 DEF Later
<1>3. Turns(o)' <=> Turns(o)
  BY <1>2 DEF Turns
<1>4. Working(o)' <=> Working(o)
  BY DEF Working
<1>5. /\ Account(at[o] - 1, listed[o], failed[o], done[o], Rows(o), Later(o))'
           <=> Account(at[o] - 1, listed[o], failed[o], done[o], Rows(o), Later(o))
      /\ Account(Len(batch[o].records), listed[o], failed[o], done[o], Rows(o), Later(o))'
           <=> Account(Len(batch[o].records), listed[o], failed[o], done[o], Rows(o), Later(o))
  BY <1>1, <1>2 DEF Account
<1> QED BY <1>1, <1>3, <1>4, <1>5 DEF Told

\* A turn that ends adds its record to the account.
LEMMA ServedTells ==
  ASSUME Base, AnswerInv, NEW r \in Requests, Working(r), Served(r)
  PROVE  AnswerInv'
<1> USE DEF Base
<1>1. PICK i \in Nat : \E g, b \in SUBSET {i} :
        /\ Turn(r, g, b) /\ done' = [done EXCEPT ![r] = @ \cup (g \ b)]
        /\ i = at[r] \/ (i = 1 /\ at[r] \in Later(r))
        /\ g \cup b = {} => at[r] \notin Rows(r)
  BY DEF Served
<1>2. PICK g \in SUBSET {i}, b \in SUBSET {i} :
        /\ Turn(r, g, b) /\ done' = [done EXCEPT ![r] = @ \cup (g \ b)]
        /\ i = at[r] \/ (i = 1 /\ at[r] \in Later(r))
        /\ g \cup b = {} => at[r] \notin Rows(r)
  BY <1>1
<1>3. /\ at[r] \in Nat \ {0} /\ Len(batch[r].records) \in Nat /\ at[r] <= Len(batch[r].records)
      /\ answer[r] = None
      /\ Account(at[r] - 1, listed[r], failed[r], done[r], Rows(r), Later(r))
  BY RecFacts DEF Working, AnswerInv, Told
<1>4. Account(at[r], listed[r] \cup g, failed[r] \cup b, done[r] \cup (g \ b), Rows(r), Later(r))
  BY <1>2, <1>3, AccountGrows
<1>5. /\ batch' = batch /\ listed'[r] = listed[r] \cup g /\ failed'[r] = failed[r] \cup b
      /\ done'[r] = done[r] \cup (g \ b)
      /\ Rows(r)' = Rows(r) /\ Later(r)' = Later(r) /\ Kind(r)' = Kind(r)
  <2>1. batch' = batch /\ listed'[r] = listed[r] \cup g /\ failed'[r] = failed[r] \cup b
        /\ done'[r] = done[r] \cup (g \ b)
    BY <1>2 DEF Turn, TypeOK
  <2>2. Rows(r)' = Rows(r) /\ Kind(r)' = Kind(r)
    BY <2>1 DEF Rows, Kind
  <2> QED BY <2>1, <2>2 DEF Later
<1>6. CASE at[r] < Len(batch[r].records)
  <2>1. at' = [at EXCEPT ![r] = @ + 1] /\ on' = [on EXCEPT ![r] = at[r] + 1] /\ answer' = answer
        /\ pc' = [pc EXCEPT ![r] = Opening(Kind(r))]
    BY <1>2, <1>6 DEF Turn, Goto
  <2>2. at'[r] = at[r] + 1 /\ on'[r] = at'[r] /\ at'[r] - 1 = at[r] /\ answer'[r] = None
    BY <1>3, <2>1 DEF TypeOK
  <2>3. pc'[r] \notin {"idle", "done"}
    BY <2>1, RecFacts, OpeningPoint DEF Working, TypeOK
  <2>4. Told(r)'
    <3>1. Account(at[r] - 1, listed[r], failed[r], done[r], Rows(r), Later(r))'
      BY <1>4, <1>5, <2>2
    <3> QED BY <2>2, <2>3, <3>1, NameAssumption DEF Told, Turns, Working
  <2>5. ASSUME NEW o \in Requests \ {r} PROVE Told(o)'
    <3>1. Told(o)
      BY DEF AnswerInv
    <3> QED BY <1>2, <2>1, <3>1, SameTold DEF Turn, TypeOK
  <2> QED BY <2>4, <2>5 DEF AnswerInv
<1>7. CASE ~(at[r] < Len(batch[r].records))
  <2>1. /\ at' = at /\ on' = on /\ pc' = [pc EXCEPT ![r] = "done"]
        /\ answer' = [answer EXCEPT ![r] = IF failed'[r] = {} \/ Kind(r) = "import"
                                              THEN "success" ELSE "failed"]
    BY <1>2, <1>7 DEF Turn, Goto
  <2>2. /\ pc'[r] = "done" /\ answer'[r] \in {"success", "failed"}
        /\ answer'[r] = "success" /\ Kind(r) # "import" => failed'[r] = {}
    BY <2>1 DEF TypeOK
  <2>3. at[r] = Len(batch[r].records)
    BY <1>3, <1>7
  <2>4. Told(r)'
    <3>1. Account(Len(batch[r].records), listed[r], failed[r], done[r], Rows(r), Later(r))'
      BY <1>4, <1>5, <2>3
    <3> QED BY <1>5, <2>2, <3>1 DEF Told, Working
  <2>5. ASSUME NEW o \in Requests \ {r} PROVE Told(o)'
    <3>1. Told(o)
      BY DEF AnswerInv
    <3> QED BY <1>2, <2>1, <3>1, SameTold DEF Turn, TypeOK
  <2> QED BY <2>4, <2>5 DEF AnswerInv
<1> QED BY <1>6, <1>7

\* An error leaves the account of the records before it.
LEMMA BrokenTells ==
  ASSUME Base, AnswerInv, NEW r \in Requests, Working(r), Broken(r)
  PROVE  AnswerInv'
<1> USE DEF Base
<1>1. Account(at[r] - 1, listed[r], failed[r], done[r], Rows(r), Later(r))
  BY DEF AnswerInv, Told
<1>2. pc'[r] = "done" /\ answer'[r] = "error" /\ at' = at /\ done' = done
  BY DEF Broken, TypeOK
<1>3. Told(r)'
  BY <1>1, <1>2 DEF Told, Working, Account
<1>4. ASSUME NEW o \in Requests \ {r} PROVE Told(o)'
  <2>1. Told(o)
    BY DEF AnswerInv
  <2> QED BY <2>1, SameTold DEF Broken, TypeOK
<1> QED BY <1>3, <1>4 DEF AnswerInv

\* A record that is still worked on is in no account yet.
LEMMA GoesOnTells ==
  ASSUME Base, AnswerInv, NEW r \in Requests, Working(r), GoesOn(r)
  PROVE  AnswerInv'
<1> USE DEF Base
<1>1. /\ Account(at[r] - 1, listed[r], failed[r], done[r], Rows(r), Later(r))
      /\ answer[r] = None
  BY DEF AnswerInv, Told
<1>2. UNCHANGED <<batch, at, listed, failed, done, answer>>
  BY DEF GoesOn
<1>3. Rows(r)' = Rows(r) /\ Later(r)' = Later(r)
  BY <1>2 DEF Rows, Later, Kind
<1>4. pc'[r] \notin {"idle", "done"} /\ (on'[r] = at[r] \/ (on'[r] = 1 /\ at[r] \in Later(r)))
  BY DEF GoesOn, TypeOK
<1>5. Told(r)'
  <2>1. Account(at[r] - 1, listed[r], failed[r], done[r], Rows(r), Later(r))'
    BY <1>1, <1>2, <1>3
  <2>2. Turns(r)'
    BY <1>2, <1>3, <1>4 DEF Turns
  <2> QED BY <1>1, <1>2, <1>4, <2>1, <2>2, NameAssumption DEF Told, Working
<1>6. ASSUME NEW o \in Requests \ {r} PROVE Told(o)'
  <2>1. Told(o)
    BY DEF AnswerInv
  <2> QED BY <2>1, SameTold DEF GoesOn, TypeOK
<1> QED BY <1>5, <1>6 DEF AnswerInv

\* What becomes of a record whose turn it is, or of the first in its stead.
LEMMA ServedBy ==
  ASSUME NEW r, NEW i \in Nat, i = at[r] \/ (i = 1 /\ at[r] \in Later(r)),
         NEW g \in SUBSET {i}, NEW b \in SUBSET {i}, g \cup b = {} => at[r] \notin Rows(r),
         Turn(r, g, b), done' = [done EXCEPT ![r] = @ \cup (g \ b)]
  PROVE  Served(r)
BY DEF Served

\* A record fails, or the request with it.
LEMMA FailsTells ==
  ASSUME Base, AnswerInv, NEW r \in Requests, Working(r), done' = done,
         Escape(r) \/ Fail(r) \/ Refuse(r)
  PROVE  AnswerInv'
<1>1. on[r] \in Nat /\ on[r] \in {on[r]} /\ Turns(r)
  BY DEF Base, TypeOK, AnswerInv, Told
<1>2. CASE Turn(r, {}, {on[r]})
  <2>1. done' = [done EXCEPT ![r] = @ \cup ({} \ {on[r]})]
    BY DEF Base, TypeOK
  <2>2. Served(r)
    BY <1>1, <1>2, <2>1 DEF Served, Turns
  <2> QED BY <2>2, ServedTells
<1>3. CASE Broken(r)
  BY <1>3, BrokenTells
<1> QED BY <1>2, <1>3 DEF Escape, Fail, Refuse, RowFails, Broken, Goto, askVars

\* A record has its effect and is named for it.
LEMMA EffectTells ==
  ASSUME Base, AnswerInv, NEW r \in Requests, Working(r), Turn(r, {on[r]}, {}),
         done' = [done EXCEPT ![r] = @ \cup {on[r]}]
  PROVE  AnswerInv'
<1>1. on[r] \in Nat /\ Turns(r)
  BY DEF Base, TypeOK, AnswerInv, Told
<1>2. done' = [done EXCEPT ![r] = @ \cup ({on[r]} \ {})]
  OBVIOUS
<1>3. on[r] = at[r] \/ (on[r] = 1 /\ at[r] \in Later(r))
  BY <1>1 DEF Turns
<1>4. {on[r]} \in SUBSET {on[r]} /\ {} \in SUBSET {on[r]} /\ {on[r]} # {}
  OBVIOUS
<1>5. Served(r)
  BY <1>1, <1>2, <1>3, <1>4, ServedBy
<1> QED BY <1>5, ServedTells

\* A refused delete or move is listed and named as failed.
LEMMA RefusedTells ==
  ASSUME Base, AnswerInv, NEW r \in Requests, Working(r), Turn(r, {on[r]}, {on[r]}), done' = done
  PROVE  AnswerInv'
<1>1. on[r] \in Nat /\ Turns(r)
  BY DEF Base, TypeOK, AnswerInv, Told
<1>2. done' = [done EXCEPT ![r] = @ \cup ({on[r]} \ {on[r]})]
  BY DEF Base, TypeOK
<1>3. on[r] = at[r] \/ (on[r] = 1 /\ at[r] \in Later(r))
  BY <1>1 DEF Turns
<1>4. {on[r]} \in SUBSET {on[r]} /\ {} \in SUBSET {on[r]} /\ {on[r]} # {}
  OBVIOUS
<1>5. Served(r)
  BY <1>1, <1>2, <1>3, <1>4, ServedBy
<1> QED BY <1>5, ServedTells

\* A request goes on to the next point.
LEMMA LooksTells ==
  ASSUME Base, AnswerInv, NEW r \in Requests, Working(r), done' = done,
         NEW p \in Points \ {"idle", "done"}, pc' = [pc EXCEPT ![r] = p],
         UNCHANGED <<askVars, replyVars>>
  PROVE  AnswerInv'
<1>1. Turns(r)
  BY DEF AnswerInv, Told
<1>2. on' = [on EXCEPT ![r] = on[r]]
  BY DEF Base, TypeOK, askVars
<1>3. GoesOn(r)
  BY <1>1, <1>2 DEF GoesOn, Turns, askVars, replyVars
<1> QED BY <1>3, GoesOnTells

\* A request that is sent has nothing to account for.
LEMMA BeginTells ==
  ASSUME Base, AnswerInv, NEW r \in Requests, Begin(r)
  PROVE  AnswerInv'
<1>1. PICK b \in Batches :
        batch' = [batch EXCEPT ![r] = b] /\ pc' = [pc EXCEPT ![r] = Opening(b.type)]
  BY DEF Begin, Goto
<1>2. pc[r] = "idle" /\ UNCHANGED <<at, on, listed, failed, answer, done>>
  BY DEF Begin, replyVars, historyVars
<1>3. pc'[r] \notin {"idle", "done"}
  BY <1>1, BatchFacts, OpeningPoint DEF Base, TypeOK
<1>4. /\ listed[r] = {} /\ failed[r] = {} /\ done[r] = {} /\ answer[r] = None
      /\ at[r] = 1 /\ on[r] = 1
  BY <1>2 DEF AnswerInv, Told
<1>5. Told(r)'
  <2>1. Account(at[r] - 1, listed[r], failed[r], done[r], Rows(r), Later(r))'
    BY <1>2, <1>4 DEF Account
  <2> QED BY <1>2, <1>3, <1>4, <2>1, NameAssumption DEF Told, Turns, Working
<1>6. ASSUME NEW o \in Requests \ {r} PROVE Told(o)'
  <2>1. Told(o)
    BY DEF AnswerInv
  <2> QED BY <1>1, <1>2, <2>1, SameTold DEF Base, TypeOK
<1> QED BY <1>5, <1>6 DEF AnswerInv

\* A ticket is replaced by the first record, which is then named in its stead.
LEMMA CheckTells ==
  ASSUME Base, AnswerInv, NEW r \in Requests, CheckNew(r)
  PROVE  AnswerInv'
<1> DEFINE i == Substitute(r)
<1>1. pc[r] = "check" /\ Working(r) /\ done' = done /\ on[r] = at[r] /\ at[r] \in Nat
      /\ at[r] \in 1..Len(batch[r].records) /\ Rec(r) = batch[r].records[at[r]]
  BY RecFacts DEF CheckNew, Working, Base, Fits, TypeOK, Rec
<1>2. i \in Nat /\ (i = at[r] \/ (i = 1 /\ at[r] \in Later(r)))
  <2>1. CASE Rec(r).path = None
    <3>1. Kind(r) # "create"
      BY <1>1, <2>1, RecFacts DEF Base
    <3> QED BY <1>1, <3>1 DEF Substitute
  <2>2. CASE Rec(r).path # None
    BY <1>1, <2>2 DEF Substitute, Later, Rows
  <2> QED BY <2>1, <2>2
<1>3. CASE NoRecord(r) /\ Turn(r, {}, {})
  <2>1. at[r] \notin Rows(r)
    BY <1>1, <1>3 DEF NoRecord, Rows
  <2>2. done' = [done EXCEPT ![r] = @ \cup ({} \ {})]
    BY <1>1 DEF Base, TypeOK
  <2>3. Served(r)
    BY <1>1, <1>3, <2>1, <2>2 DEF Served
  <2> QED BY <1>1, <2>3, ServedTells
<1>4. CASE Fail(r)
  BY <1>1, <1>4, FailsTells
<1>5. CASE Turn(r, {}, {i})
  <2>1. done' = [done EXCEPT ![r] = @ \cup ({} \ {i})]
    BY <1>1 DEF Base, TypeOK
  <2> HIDE DEF i
  <2>2. Served(r)
    BY <1>2, <1>5, <2>1, ServedBy
  <2> QED BY <1>1, <2>2, ServedTells
<1>6. CASE /\ on' = [on EXCEPT ![r] = i] /\ Goto(r, "search")
           /\ UNCHANGED <<who, batch, at, copy, replyVars, met, late>>
  <2> HIDE DEF i
  <2>1. \E p : pc' = [pc EXCEPT ![r] = p] /\ p \notin {"idle", "done"}
    <3>1. pc' = [pc EXCEPT ![r] = "search"]
      BY <1>6 DEF Goto
    <3>2. "search" \notin {"idle", "done"}
      OBVIOUS
    <3> QED BY <3>1, <3>2
  <2>2. on' = [on EXCEPT ![r] = i]
    BY <1>6
  <2>3. UNCHANGED <<batch, at, listed, failed, done, answer>>
    BY <1>1, <1>6 DEF replyVars
  <2>4. GoesOn(r)
    BY <1>2, <2>1, <2>2, <2>3 DEF GoesOn
  <2> QED BY <1>1, <2>4, GoesOnTells
<1> QED BY <1>3, <1>4, <1>5, <1>6 DEF CheckNew

\* Every step of a request keeps its account.
LEMMA RequestTells ==
  ASSUME Base, AnswerInv, NEW r \in Requests, RequestStep(r)
  PROVE  AnswerInv'
<1>1. CASE Begin(r)
  BY <1>1, BeginTells
<1>2. CASE CheckNew(r)
  BY <1>2, CheckTells
<1>3. CASE Upload(r)
  <2>1. Working(r) /\ done' = done
    BY <1>3 DEF Upload, Working, historyVars
  <2> QED BY <1>3, <2>1, FailsTells, LooksTells DEF Upload, Goto, Points
<1>4. CASE LoadEntry(r)
  <2>1. Working(r) /\ done' = done /\ Kind(r) \in Loads
    BY <1>4 DEF LoadEntry, Working, Base, Fits
  <2>2. CASE Refuse(r)
    BY <2>1, <2>2, FailsTells
  <2>3. CASE \E p \in {"body", "write"} : pc' = [pc EXCEPT ![r] = p] /\ UNCHANGED <<askVars, replyVars>>
    BY <2>1, <2>3, LooksTells DEF Points
  <2> QED BY <1>4, <2>1, <2>2, <2>3, LoadCases
<1>5. CASE LoadBody(r)
  <2>1. Working(r) /\ done' = done
    BY <1>5 DEF LoadBody, Working
  <2> QED BY <1>5, <2>1, FailsTells, LooksTells DEF LoadBody, Goto, Points
<1>6. CASE Search(r)
  <2>1. Working(r) /\ done' = done
    BY <1>6 DEF Search, Working
  <2> QED BY <1>6, <2>1, FailsTells, LooksTells DEF Search, Goto, Points
<1>7. CASE WriteNew(r) \/ Register(r) \/ WriteOld(r)
  <2>1. Working(r)
    BY <1>7 DEF WriteNew, Register, WriteOld, Working
  <2>2. CASE (Escape(r) \/ Fail(r)) /\ NoEffect(r)
    BY <2>1, <2>2, FailsTells DEF NoEffect
  <2>3. CASE Turn(r, {on[r]}, {}) /\ \E ps, owners : Writes(r, ps, owners)
    BY <2>1, <2>3, EffectTells DEF Writes
  <2> QED BY <1>7, <2>2, <2>3 DEF WriteNew, Register, WriteOld, PutNew
<1>8. CASE Remove(r) \/ Move(r)
  <2>1. Working(r)
    BY <1>8 DEF Remove, Move, Working
  <2>2. CASE Escape(r) /\ NoEffect(r)
    BY <2>1, <2>2, FailsTells DEF NoEffect
  <2>3. CASE Turn(r, {on[r]}, {}) /\ \E ps, owners : Writes(r, ps, owners)
    BY <2>1, <2>3, EffectTells DEF Writes
  <2>4. CASE Turn(r, {on[r]}, {on[r]}) /\ done' = done
    BY <2>1, <2>4, RefusedTells
  <2> QED BY <1>8, <2>2, <2>3, <2>4 DEF Remove, Move
<1> QED BY <1>1, <1>2, <1>3, <1>4, <1>5, <1>6, <1>7, <1>8 DEF RequestStep

\* A request that dies is never answered.
LEMMA CrashTells ==
  ASSUME Base, AnswerInv, NEW r \in Requests, Crash(r)
  PROVE  AnswerInv'
<1>1. pc' = [pc EXCEPT ![r] = "done"] /\ UNCHANGED <<batch, at, on, listed, failed, answer, done>>
  BY DEF Crash, Goto, askVars, replyVars
<1>2. pc[r] # "idle"
  <2>1. ASSUME NEW t \in tasks, t.of = r PROVE pc[r] # "idle"
    BY <2>1 DEF Base, Sent
  <2> QED BY <2>1 DEF Crash
<1>3. Told(r)'
  <2>1. Told(r) /\ pc'[r] = "done"
    BY <1>1 DEF AnswerInv, Base, TypeOK
  <2>2. Kind(r)' = Kind(r) /\ Rows(r)' = Rows(r) /\ Later(r)' = Later(r)
    BY <1>1 DEF Kind, Rows, Later
  <2>3. Account(Len(batch[r].records), listed[r], failed[r], done[r], Rows(r), Later(r))'
           <=> Account(Len(batch[r].records), listed[r], failed[r], done[r], Rows(r), Later(r))
    BY <1>1, <2>2
  <2> QED BY <1>1, <2>1, <2>2, <2>3 DEF Told, Working
<1>4. ASSUME NEW o \in Requests \ {r} PROVE Told(o)'
  <2>1. Told(o)
    BY DEF AnswerInv
  <2> QED BY <1>1, <2>1, SameTold DEF Base, TypeOK
<1> QED BY <1>3, <1>4 DEF AnswerInv

\* At every turn a request has accounted for the records before it, tickets after the first
\* excepted.
THEOREM AnswerAlways == Spec => []AnswerInv
<1>1. Init => AnswerInv
  BY NameAssumption DEF Init, AnswerInv, Told, Working
<1>2. ASSUME Base, AnswerInv, [Next]_vars PROVE AnswerInv'
  <2>1. ASSUME NEW r \in Requests, RequestStep(r) PROVE AnswerInv'
    BY <1>2, <2>1, RequestTells
  <2>2. ASSUME NEW r \in Requests, Crash(r) PROVE AnswerInv'
    BY <1>2, <2>2, CrashTells
  <2>3. ASSUME UNCHANGED <<batch, at, on, pc, listed, failed, done, answer>> PROVE AnswerInv'
    BY <1>2, <2>3, SameTold DEF AnswerInv
  <2>4. ASSUME NEW t \in tasks, TaskStep(t) PROVE AnswerInv'
    BY <2>3, <2>4 DEF TaskStep, HookLoad, HookPut, HookDelete, MoveLoad, MoveGet, MoveDrop,
       MovePut,
       TaskOnly, askVars, replyVars, historyVars
  <2>5. ASSUME UNCHANGED vars PROVE AnswerInv'
    BY <2>3, <2>5 DEF vars, askVars, replyVars, historyVars
  <2> QED BY <1>2, <2>1, <2>2, <2>4, <2>5 DEF Next
<1> QED BY <1>1, <1>2, BaseAlways, PTL DEF Spec

\* The answer of /managed/request tells what became of the records: those it names as
\* successful only had their effect, those it names as failed had none, and all are named,
\* as far as tickets and errors let it.
THEOREM AnswerTrueAlways == Spec => []AnswerTrue
BY AnswerAlways, BaseAlways, AnswerInvTells, PTL

\* Only an assignment, or a request that had loaded the entry before one, changes its owner.
THEOREM OwnerStaysAlways == Spec => []OwnerStays
BY OwnerAlways, PTL DEF OwnerInv

(***************************************************************************)
(* The edit lock                                                           *)
(***************************************************************************)
USE DEF Unlocked, Held, At, Proceed, Mine, Free, entryVars, requestVars, pastVars

\* Every point a handler goes to is one of Stops, which need not be expanded again
LEMMA StopFacts ==
  /\ "idle" \in Stops
  /\ "claim_load" \in Stops
  /\ "claim_save" \in Stops
  /\ "claim_record" \in Stops
  /\ "lock_get" \in Stops
  /\ "lock_set" \in Stops
  /\ "lock_confirm" \in Stops
  /\ "lock_ttl" \in Stops
  /\ "lock_record" \in Stops
  /\ "cancel_get" \in Stops
  /\ "cancel_del" \in Stops
  /\ "cancel_record" \in Stops
  /\ "load" \in Stops
  /\ "save" \in Stops
  /\ "save_check" \in Stops
  /\ "save_get" \in Stops
  /\ "save_del" \in Stops
  /\ "save_unlock" \in Stops
  /\ "save_write" \in Stops
  /\ "save_record" \in Stops
  /\ "erase" \in Stops
  /\ "erase_check" \in Stops
  /\ "erase_del" \in Stops
  /\ "erase_file" \in Stops
  /\ "erase_dir" \in Stops
  /\ "erase_rmdir" \in Stops
  /\ "claim_write" \in Stops
  /\ "ok" \in Stops
  /\ "locked" \in Stops
  /\ "missing" \in Stops
  /\ "error" \in Stops
  /\ "crashed" \in Stops
BY DEF Stops, Finished

\* What a request writes is a meta file
LEMMA EditedMeta ==
  ASSUME LockTypeOK, NEW r \in Calls
  PROVE  /\ Blank \in Meta
         /\ Edited(r) \in Meta
BY DEF LockTypeOK, Meta, Blank, Edited

\* The write of an update or a claim keeps the types
LEMMA WriteTyped ==
  ASSUME LockTypeOK, NEW r \in Calls, NEW to \in Stops \ {"idle"}, place[r] # "idle",
         OpenAndWrite(r, to)
  PROVE  LockTypeOK'
<1> USE StopFacts DEF LockTypeOK
<1>1. CASE dir = "absent"
  BY <1>1 DEF OpenAndWrite
<1>2. CASE dir # "absent"
  <2>1. /\ meta' \in Meta /\ file' = TRUE /\ dir' = dir
        /\ place' = [place EXCEPT ![r] = to]
        /\ UNCHANGED <<lock, seen, deaths, requestVars, pastVars>>
    BY <1>2, EditedMeta DEF OpenAndWrite, WriteMeta, Proceed
  <2> QED BY <1>2, <2>1 DEF requestVars, pastVars
<1> QED BY <1>1, <1>2

\* The actions, as the proofs take them apart
LEMMA LockNextCases ==
  ASSUME LockNext
  PROVE  \/ \E r \in Calls : Start(r)
         \/ \E r \in Calls : Load(r)
         \/ \E r \in Calls : LockStep(r)
         \/ \E r \in Calls : CancelStep(r)
         \/ \E r \in Calls : UpdateStep(r)
         \/ \E r \in Calls : DeleteStep(r)
         \/ \E r \in Calls : Die(r)
         \/ Expire
BY DEF LockNext, Step

\* Every variable keeps its type, a request at work has a sender, a TTL belongs
\* to a document and a meta file lies in its directory: no handler of the lock,
\* of update or of delete leaves the types the model declares.
THEOREM LockTypeCorrect == LockSpec => []LockTypeOK
<1>1. LockInit => LockTypeOK
  BY UsersAssumption, DeathAssumption, StopFacts
  DEF LockInit, LockTypeOK, Ops, Blank, Meta, Dirs, Replies
<1>2. ASSUME LockTypeOK, [LockNext]_lockVars PROVE LockTypeOK'
  <2> USE UsersAssumption, DeathAssumption, StopFacts, <1>2
      DEF LockTypeOK, Dirs, Replies, Replied
  <2>1. ASSUME NEW r \in Calls, Start(r) PROVE LockTypeOK'
    BY <2>1 DEF Start, Ops
  <2>2. ASSUME NEW r \in Calls, Load(r) PROVE LockTypeOK'
    BY <2>2 DEF Load, NotThere
  <2>3. ASSUME NEW r \in Calls, LockStep(r) PROVE LockTypeOK'
    <3>1. CASE ClaimLoad(r)   BY <3>1 DEF ClaimLoad, NotThere
    <3>2. CASE ClaimSave(r)   BY <3>2 DEF ClaimSave, FindFile
    <3>9. CASE ClaimWrite(r)  BY <3>9, WriteTyped DEF ClaimWrite
    <3>3. CASE ClaimRecord(r) BY <3>3 DEF ClaimRecord, StoreEntryDiff
    <3>4. CASE LockGet(r)     BY <3>4 DEF LockGet
    <3>5. CASE LockSet(r)
      <4>1. CASE Held  BY <3>5, <4>1 DEF LockSet
      <4>2. CASE ~Held
        <5>1. lock' = [owner |-> sender[r], ttl |-> FALSE] /\ sender[r] \in Users
          BY <3>5, <4>2 DEF LockSet
        <5> QED BY <3>5, <4>2, <5>1 DEF LockSet
      <4> QED BY <4>1, <4>2
    <3>6. CASE LockConfirm(r) BY <3>6 DEF LockConfirm
    <3>7. CASE LockTtl(r)     BY <3>7 DEF LockTtl
    <3>8. CASE LockRecord(r)  BY <3>8 DEF LockRecord, StoreEntryDiff
    <3> QED BY <2>3, <3>1, <3>2, <3>3, <3>4, <3>5, <3>6, <3>7, <3>8, <3>9 DEF LockStep
  <2>4. ASSUME NEW r \in Calls, CancelStep(r) PROVE LockTypeOK'
    <3>1. CASE CancelGet(r)    BY <3>1 DEF CancelGet
    <3>2. CASE CancelDel(r)    BY <3>2 DEF CancelDel, DropLock
    <3>3. CASE CancelRecord(r) BY <3>3 DEF CancelRecord, StoreEntryDiff
    <3> QED BY <2>4, <3>1, <3>2, <3>3 DEF CancelStep
  <2>5. ASSUME NEW r \in Calls, UpdateStep(r) PROVE LockTypeOK'
    <3>1. CASE Save(r)       BY <3>1 DEF Save, FindFile
    <3>2. CASE SaveCheck(r)  BY <3>2 DEF SaveCheck, CheckLock
    <3>3. CASE SaveGet(r)    BY <3>3 DEF SaveGet
    <3>4. CASE SaveDel(r)    BY <3>4 DEF SaveDel, DropLock
    <3>5. CASE SaveUnlock(r) BY <3>5 DEF SaveUnlock, StoreEntryDiff
    <3>6. CASE SaveWrite(r)  BY <3>6, WriteTyped DEF SaveWrite
    <3>7. CASE SaveRecord(r) BY <3>7 DEF SaveRecord, StoreEntryDiff
    <3> QED BY <2>5, <3>1, <3>2, <3>3, <3>4, <3>5, <3>6, <3>7 DEF UpdateStep
  <2>6. ASSUME NEW r \in Calls, DeleteStep(r) PROVE LockTypeOK'
    <3>1. CASE Erase(r)      BY <3>1 DEF Erase, FindFile
    <3>2. CASE EraseCheck(r) BY <3>2 DEF EraseCheck, CheckLock
    <3>3. CASE EraseDel(r)   BY <3>3 DEF EraseDel, DropLock
    <3>4. CASE EraseFile(r)
      <4>1. file' = FALSE /\ meta' \in Meta /\ removed' \in Nat
        BY <3>4, EditedMeta DEF EraseFile, RemoveFile
      <4> QED BY <3>4, <4>1 DEF EraseFile
    <3>5. CASE EraseDir(r)
      <4>1. CASE dir = "absent"
        BY <3>5, <4>1 DEF EraseDir
      <4>2. CASE dir # "absent"
        <5>1. file' = FALSE /\ meta' \in Meta /\ removed' \in Nat /\ dir' = "empty"
          BY <3>5, <4>2, EditedMeta DEF EraseDir, RemoveFile
        <5>2. /\ place' = [place EXCEPT ![r] = "erase_rmdir"] /\ place[r] # "idle"
              /\ UNCHANGED <<lock, seen, deaths, requestVars, granted, made, checked, reply,
                             found>>
          BY <3>5, <4>2 DEF EraseDir
        <5>3. place' \in [Calls -> Stops] /\ \A q \in Calls : place'[q] # "idle" => place[q] # "idle"
          BY <5>2
        <5> QED BY <1>2, <5>1, <5>2, <5>3
      <4> QED BY <4>1, <4>2
    <3>6. CASE EraseRmdir(r) BY <3>6 DEF EraseRmdir
    <3> QED BY <2>6, <3>1, <3>2, <3>3, <3>4, <3>5, <3>6 DEF DeleteStep
  <2>7. ASSUME NEW r \in Calls, Die(r) PROVE LockTypeOK'
    BY <2>7 DEF Die
  <2>8. ASSUME Expire PROVE LockTypeOK'
    BY <2>8 DEF Expire, DropLock
  <2>9. CASE UNCHANGED lockVars
    BY <2>9 DEF lockVars
  <2> QED BY <1>2, <2>1, <2>2, <2>3, <2>4, <2>5, <2>6, <2>7, <2>8, <2>9, LockNextCases
<1> QED BY <1>1, <1>2, PTL DEF LockSpec

(***************************************************************************)
(* The lock's inductive invariant.  GrantExclusive, NoTtlOnlyWhileTaken    *)
(* and ForeignLockIsNewer support each other only together with facts      *)
(* about the handlers: a request inside save_lock_doc is a lock request,   *)
(* one inside the lock branch of update asked for it, one before its look  *)
(* at the lock has been told nothing, one between the existence check and  *)
(* the write has the meta file unless it was removed since, and no look at *)
(* the lock is newer than the newest lock document.                        *)
(***************************************************************************)
Taking == {"claim_load", "claim_save", "claim_write", "claim_record",
           "lock_get", "lock_set", "lock_confirm", "lock_ttl"}

Asking == {"save_check", "save_get", "save_del", "save_unlock"}

Writing == {"save_check", "save_get", "save_del", "save_unlock", "save_write", "claim_write"}

Silent == {"load", "claim_load", "claim_save", "claim_write", "claim_record", "lock_get",
           "lock_set", "lock_confirm", "cancel_get", "save", "save_check", "erase",
           "erase_check"}

OpFits ==
  \A r \in Calls :
    /\ place[r] \in Taking => op[r] \in {"lock", "lock_ticket"}
    /\ place[r] = "load" => op[r] \in {"lock_ticket", "update", "delete"}
    /\ place[r] \in Asking => guarded[r]

ReplyFits ==
  \A r \in Calls :
    /\ place[r] = "idle" => sender[r] = NoUser /\ reply[r] = "none"
    /\ place[r] \in Silent => reply[r] = "none"

FoundFits ==
  \A r \in Calls : place[r] \in Writing /\ ~file => found[r] < removed

LockInv == /\ LockTypeOK /\ OpFits /\ ReplyFits /\ FoundFits
           /\ \A r \in Calls : found[r] <= removed /\ checked[r] <= made
           /\ GrantExclusive /\ NoTtlOnlyWhileTaken /\ ForeignLockIsNewer

\* A server that has just come up has no lock and no request.
LEMMA LockInvInit == LockInit => LockInv
BY UsersAssumption, DeathAssumption, StopFacts
DEF LockInit, LockTypeOK, Ops, Dirs, Replies, Blank, Meta, LockInv, OpFits, ReplyFits, FoundFits,
    Taking, Asking, Silent, Writing, GrantExclusive, NoTtlOnlyWhileTaken, ForeignLockIsNewer,
    Relies, PastCheck

\* What the requests of the entry did and found stays in step with the entry.
LEMMA FoundStep ==
  ASSUME LockInv, LockTypeOK', [LockNext]_lockVars
  PROVE  FoundFits' /\ \A r \in Calls : found'[r] <= removed'
<1> USE DEF LockInv, FoundFits, Writing, LockTypeOK, Silent
<1>1. ASSUME NEW r \in Calls, Start(r) \/ Load(r) \/ Die(r)
      PROVE  FoundFits' /\ \A q \in Calls : found'[q] <= removed'
  BY <1>1 DEF Start, Load, Die, NotThere
<1>2. ASSUME NEW r \in Calls, LockStep(r)
      PROVE  FoundFits' /\ \A q \in Calls : found'[q] <= removed'
  <2>1. CASE ClaimLoad(r) \/ ClaimRecord(r) \/ LockGet(r) \/ LockSet(r) \/ LockTtl(r)
             \/ LockRecord(r)
    BY <2>1 DEF ClaimLoad, NotThere, ClaimRecord, LockGet, LockSet, LockTtl, LockRecord,
                StoreEntryDiff
  <2>2. CASE ClaimSave(r)   BY <2>2 DEF ClaimSave, FindFile
  <2>3. CASE ClaimWrite(r)  BY <2>3 DEF ClaimWrite, OpenAndWrite, WriteMeta
  <2>4. CASE LockConfirm(r) BY <2>4 DEF LockConfirm
  <2> QED BY <1>2, <2>1, <2>2, <2>3, <2>4 DEF LockStep
<1>3. ASSUME NEW r \in Calls, CancelStep(r)
      PROVE  FoundFits' /\ \A q \in Calls : found'[q] <= removed'
  BY <1>3 DEF CancelStep, CancelGet, CancelDel, CancelRecord, StoreEntryDiff
<1>4. ASSUME NEW r \in Calls, UpdateStep(r)
      PROVE  FoundFits' /\ \A q \in Calls : found'[q] <= removed'
  <2>1. CASE Save(r)      BY <2>1 DEF Save, FindFile
  <2>2. CASE SaveCheck(r) BY <2>2 DEF SaveCheck, CheckLock
  <2>3. CASE SaveGet(r) \/ SaveDel(r) \/ SaveUnlock(r) \/ SaveRecord(r)
    BY <2>3 DEF SaveGet, SaveDel, SaveUnlock, SaveRecord, StoreEntryDiff
  <2>4. CASE SaveWrite(r) BY <2>4 DEF SaveWrite, OpenAndWrite, WriteMeta
  <2> QED BY <1>4, <2>1, <2>2, <2>3, <2>4 DEF UpdateStep
<1>5. ASSUME NEW r \in Calls, DeleteStep(r)
      PROVE  FoundFits' /\ \A q \in Calls : found'[q] <= removed'
  <2>1. CASE Erase(r)      BY <2>1 DEF Erase, FindFile
  <2>2. CASE EraseCheck(r) BY <2>2 DEF EraseCheck, CheckLock
  <2>3. CASE EraseDel(r)   BY <2>3 DEF EraseDel
  <2>4. CASE EraseFile(r)  BY <2>4 DEF EraseFile, RemoveFile
  <2>5. CASE EraseDir(r)   BY <2>5 DEF EraseDir, RemoveFile
  <2>6. CASE EraseRmdir(r) BY <2>6 DEF EraseRmdir
  <2> QED BY <1>5, <2>1, <2>2, <2>3, <2>4, <2>5, <2>6 DEF DeleteStep
<1>6. CASE Expire BY <1>6 DEF Expire
<1>7. CASE UNCHANGED lockVars BY <1>7 DEF lockVars
<1> QED BY <1>1, <1>2, <1>3, <1>4, <1>5, <1>6, <1>7, LockNextCases

\* Every handler step keeps the conjuncts together.
LEMMA LockInvStep ==
  ASSUME LockInv, LockTypeOK', [LockNext]_lockVars
  PROVE  LockInv'
<1> DEFINE Rest == /\ OpFits /\ ReplyFits /\ \A r \in Calls : checked[r] <= made
                   /\ GrantExclusive /\ NoTtlOnlyWhileTaken /\ ForeignLockIsNewer
<1> SUFFICES Rest'
  BY FoundStep DEF LockInv
<1> USE UsersAssumption
    DEF LockInv, OpFits, ReplyFits, Taking, Asking, Silent, GrantExclusive,
        NoTtlOnlyWhileTaken, ForeignLockIsNewer, Relies, PastCheck, LockTypeOK, Replied
<1>1. ASSUME NEW r \in Calls, Start(r) PROVE Rest'
  BY <1>1 DEF Start
<1>2. ASSUME NEW r \in Calls, Load(r) PROVE Rest'
  BY <1>2 DEF Load, NotThere
<1>3. ASSUME NEW r \in Calls, LockStep(r) PROVE Rest'
  <2>1. CASE ClaimLoad(r) BY <2>1 DEF ClaimLoad, NotThere
  <2>2. CASE ClaimSave(r) BY <2>2 DEF ClaimSave, FindFile
  <2>9. CASE ClaimWrite(r) BY <2>9 DEF ClaimWrite, OpenAndWrite, WriteMeta
  <2>3. CASE ClaimRecord(r) BY <2>3 DEF ClaimRecord, StoreEntryDiff
  <2>4. CASE LockGet(r) BY <2>4 DEF LockGet
  <2>5. CASE LockSet(r) BY <2>5 DEF LockSet
  <2>6. CASE LockConfirm(r) BY <2>6 DEF LockConfirm
  <2>7. CASE LockTtl(r) BY <2>7 DEF LockTtl
  <2>8. CASE LockRecord(r) BY <2>8 DEF LockRecord, StoreEntryDiff
  <2> QED BY <1>3, <2>1, <2>2, <2>3, <2>4, <2>5, <2>6, <2>7, <2>8, <2>9 DEF LockStep
<1>4. ASSUME NEW r \in Calls, CancelStep(r) PROVE Rest'
  <2>1. CASE CancelGet(r) BY <2>1 DEF CancelGet
  <2>2. CASE CancelDel(r) BY <2>2 DEF CancelDel, DropLock
  <2>3. CASE CancelRecord(r) BY <2>3 DEF CancelRecord, StoreEntryDiff
  <2> QED BY <1>4, <2>1, <2>2, <2>3 DEF CancelStep
<1>5. ASSUME NEW r \in Calls, UpdateStep(r) PROVE Rest'
  <2>1. CASE Save(r) BY <2>1 DEF Save, FindFile
  <2>2. CASE SaveCheck(r) BY <2>2 DEF SaveCheck, CheckLock
  <2>3. CASE SaveGet(r) BY <2>3 DEF SaveGet
  <2>4. CASE SaveDel(r) BY <2>4 DEF SaveDel, DropLock
  <2>5. CASE SaveUnlock(r) BY <2>5 DEF SaveUnlock, StoreEntryDiff
  <2>6. CASE SaveWrite(r) BY <2>6 DEF SaveWrite, OpenAndWrite, WriteMeta
  <2>7. CASE SaveRecord(r) BY <2>7 DEF SaveRecord, StoreEntryDiff
  <2> QED BY <1>5, <2>1, <2>2, <2>3, <2>4, <2>5, <2>6, <2>7 DEF UpdateStep
<1>6. ASSUME NEW r \in Calls, DeleteStep(r) PROVE Rest'
  <2>1. CASE Erase(r) BY <2>1 DEF Erase, FindFile
  <2>2. CASE EraseCheck(r) BY <2>2 DEF EraseCheck, CheckLock
  <2>3. CASE EraseDel(r) BY <2>3 DEF EraseDel, DropLock
  <2>4. CASE EraseFile(r) BY <2>4 DEF EraseFile, RemoveFile
  <2>5. CASE EraseDir(r) BY <2>5 DEF EraseDir, RemoveFile
  <2>6. CASE EraseRmdir(r) BY <2>6 DEF EraseRmdir
  <2> QED BY <1>6, <2>1, <2>2, <2>3, <2>4, <2>5, <2>6 DEF DeleteStep
<1>7. ASSUME NEW r \in Calls, Die(r) PROVE Rest'
  BY <1>7 DEF Die
<1>8. ASSUME Expire PROVE Rest'
  BY <1>8 DEF Expire, DropLock
<1>9. CASE UNCHANGED lockVars
  BY <1>9 DEF lockVars
<1> QED BY <1>1, <1>2, <1>3, <1>4, <1>5, <1>6, <1>7, <1>8, <1>9, LockNextCases

\* Whatever interleaving, who is told "lock", the TTL and what has been looked at agree
\* with the lock document.
THEOREM LockInvariant == LockSpec => []LockInv
<1>1. LockInv /\ LockTypeOK' /\ [LockNext]_lockVars => LockInv'
  BY LockInvStep
<1> QED BY LockInvInit, LockTypeCorrect, <1>1, PTL DEF LockSpec

\* save_lock_doc tells "lock" to at most one user per lock document, its owner.
THEOREM GrantIsExclusive == LockSpec => []GrantExclusive
<1>1. LockInv => GrantExclusive
  BY DEF LockInv
<1> QED BY <1>1, LockInvariant, PTL

\* Only a lock request that died between SET and EXPIRE leaves a lock document
\* without TTL behind.
THEOREM TtlIsSet == LockSpec => []NoTtlOnlyWhileTaken
<1>1. LockInv => NoTtlOnlyWhileTaken
  BY DEF LockInv
<1> QED BY <1>1, LockInvariant, PTL

\* cancel, update and delete act under a foreign lock only if it was taken after
\* they had looked.
THEOREM ForeignLockOvertook == LockSpec => []ForeignLockIsNewer
<1>1. LockInv => ForeignLockIsNewer
  BY DEF LockInv
<1> QED BY <1>1, LockInvariant, PTL

(***************************************************************************)
(* The lock of the code implements the atomic lock of LockService.  The    *)
(* first read is where a request learns of an extension, JSON.SET is where *)
(* the lock is taken, the confirming read and the reads of cancel, update  *)
(* and delete are where the others learn what holds, a deletion or the TTL *)
(* ends it, and every other step leaves it alone.                          *)
(***************************************************************************)
Quiet == UNCHANGED <<lock, sender, reply>>

\* What the service sees of a step
LEMMA ServiceCases ==
  ASSUME LockInv, LockNext
  PROVE  \/ Quiet
         \/ DropLock /\ UNCHANGED <<sender, reply>>
         \/ \E r \in Calls : \/ Start(r) \/ LockGet(r) \/ LockSet(r) \/ LockConfirm(r)
                             \/ LockTtl(r) \/ CancelGet(r) \/ SaveCheck(r) \/ EraseCheck(r)
<1> USE DEF Quiet
<1>1. ASSUME NEW r \in Calls, Load(r) \/ Die(r) PROVE Quiet
  BY <1>1 DEF Load, Die
<1>2. ASSUME NEW r \in Calls, LockStep(r)
      PROVE  Quiet \/ LockGet(r) \/ LockSet(r) \/ LockConfirm(r) \/ LockTtl(r)
  BY <1>2 DEF LockStep, ClaimLoad, ClaimSave, ClaimWrite, OpenAndWrite, ClaimRecord, LockRecord,
              StoreEntryDiff
<1>3. ASSUME NEW r \in Calls, CancelStep(r)
      PROVE  Quiet \/ CancelGet(r) \/ (DropLock /\ UNCHANGED <<sender, reply>>)
  BY <1>3 DEF CancelStep, CancelDel, CancelRecord, StoreEntryDiff
<1>4. ASSUME NEW r \in Calls, UpdateStep(r)
      PROVE  Quiet \/ SaveCheck(r) \/ (DropLock /\ UNCHANGED <<sender, reply>>)
  BY <1>4 DEF UpdateStep, Save, SaveGet, SaveDel, SaveUnlock, SaveWrite, OpenAndWrite,
              SaveRecord, StoreEntryDiff
<1>5. ASSUME NEW r \in Calls, DeleteStep(r)
      PROVE  Quiet \/ EraseCheck(r) \/ (DropLock /\ UNCHANGED <<sender, reply>>)
  BY <1>5 DEF DeleteStep, Erase, EraseDel, EraseFile, EraseDir, EraseRmdir
<1>6. ASSUME Expire PROVE DropLock /\ UNCHANGED <<sender, reply>>
  BY <1>6 DEF Expire
<1> QED BY <1>1, <1>2, <1>3, <1>4, <1>5, <1>6, LockNextCases

\* Each of them is a step of the service, or none.
LEMMA ServiceStep ==
  ASSUME LockInv, [LockNext]_lockVars
  PROVE  [Service!Next]_(Service!serviceVars)
<1> USE UsersAssumption DEF Service!serviceVars, Service!Next, Service!Pending, Replied
<1>1. CASE UNCHANGED lockVars
  BY <1>1 DEF lockVars
<1>2. CASE Quiet
  BY <1>2 DEF Quiet
<1>3. CASE DropLock /\ UNCHANGED <<sender, reply>>
  BY <1>3 DEF DropLock, Service!End
<1>4. ASSUME NEW r \in Calls,
             \/ Start(r) \/ LockGet(r) \/ LockSet(r) \/ LockConfirm(r)
             \/ LockTtl(r) \/ CancelGet(r) \/ SaveCheck(r) \/ EraseCheck(r)
      PROVE  [Service!Next]_(Service!serviceVars)
  <2> USE DEF LockInv, LockTypeOK, ReplyFits, Silent
  <2>1. CASE Start(r)
    <3>1. Service!Send(r)
      BY <2>1 DEF Start, Service!Send
    <3> QED BY <3>1
  <2>2. CASE LockTtl(r)
    BY <2>2 DEF LockTtl
  <2>3. CASE LockGet(r)
    <3>1. CASE Held
      <4>1. Service!Reply(r)
        BY <2>3, <3>1 DEF LockGet, Service!Reply, Service!Fits
      <4> QED BY <4>1
    <3>2. CASE ~Held
      BY <2>3, <3>2 DEF LockGet
    <3> QED BY <3>1, <3>2
  <2>4. CASE LockSet(r)
    <3>1. CASE Held
      BY <2>4, <3>1 DEF LockSet
    <3>2. CASE ~Held
      <4>1. Service!Take(r)
        BY <2>4, <3>2 DEF LockSet, Service!Take
      <4> QED BY <4>1
    <3> QED BY <3>1, <3>2
  <2>5. CASE LockConfirm(r)
    <3>1. Service!Reply(r)
      BY <2>5 DEF LockConfirm, Service!Reply, Service!Fits
    <3> QED BY <3>1
  <2>6. CASE CancelGet(r)
    <3>1. Service!Reply(r)
      BY <2>6 DEF CancelGet, Service!Reply, Service!Fits
    <3> QED BY <3>1
  <2>7. CASE SaveCheck(r) \/ EraseCheck(r)
    <3>1. Service!Reply(r)
      BY <2>7 DEF SaveCheck, EraseCheck, CheckLock, Service!Reply, Service!Fits
    <3> QED BY <3>1
  <2> QED BY <1>4, <2>1, <2>2, <2>3, <2>4, <2>5, <2>6, <2>7
<1> QED BY <1>1, <1>2, <1>3, <1>4, ServiceCases

\* However GET, SET NX, GET and EXPIRE of several requests interleave with
\* cancels, releases and the TTL, every request is told what one atomic lock
\* would have told it, extensions of a foreign lock included.
THEOREM LockServiceImplemented == LockSpec => LockServiceSpec
<1>1. LockInit => Service!Init
  BY DEF LockInit, Service!Init
<1>2. LockInv /\ [LockNext]_lockVars => [Service!Next]_(Service!serviceVars)
  BY ServiceStep
<1> QED BY <1>1, <1>2, LockInvariant, PTL DEF LockSpec, LockServiceSpec, Service!Spec

(***************************************************************************)
(* A deleted entry is revived only by a request that was under way.        *)
(***************************************************************************)
LEMMA RevivingStep ==
  ASSUME LockInv, LockNext, ~file, file'
  PROVE  \E r \in Calls : place'[r] # place[r] /\ found[r] < removed
<1> USE DEF LockInv, LockTypeOK
<1>1. ASSUME NEW r \in Calls, Start(r) \/ Load(r) \/ Die(r) PROVE FALSE
  BY <1>1 DEF Start, Load, Die
<1>2. ASSUME NEW r \in Calls, LockStep(r) PROVE ClaimWrite(r)
  BY <1>2 DEF LockStep, ClaimLoad, ClaimSave, ClaimRecord, LockGet, LockSet, LockConfirm,
              LockTtl, LockRecord, StoreEntryDiff
<1>3. ASSUME NEW r \in Calls, CancelStep(r) PROVE FALSE
  BY <1>3 DEF CancelStep, CancelGet, CancelDel, CancelRecord, StoreEntryDiff
<1>4. ASSUME NEW r \in Calls, UpdateStep(r) PROVE SaveWrite(r)
  BY <1>4 DEF UpdateStep, Save, SaveCheck, CheckLock, SaveGet, SaveDel, SaveUnlock, SaveRecord,
              StoreEntryDiff
<1>5. ASSUME NEW r \in Calls, SaveWrite(r) \/ ClaimWrite(r)
      PROVE  place'[r] # place[r] /\ found[r] < removed
  BY <1>5 DEF SaveWrite, ClaimWrite, OpenAndWrite, FoundFits, Writing
<1>6. ASSUME NEW r \in Calls, DeleteStep(r) PROVE FALSE
  BY <1>6 DEF DeleteStep, Erase, EraseCheck, CheckLock, EraseDel, EraseFile, EraseDir, EraseRmdir,
              RemoveFile
<1>7. ASSUME Expire PROVE FALSE
  BY <1>7 DEF Expire
<1> QED BY <1>1, <1>2, <1>3, <1>4, <1>5, <1>6, <1>7, LockNextCases

\* Only a request that found the meta file before it was removed writes it again.
THEOREM RevivalOverlaps == LockSpec => RevivedByOverlap
<1>1. LockInv /\ [LockNext]_lockVars =>
        [~file /\ file' =>
           \E r \in Calls : place'[r] # place[r] /\ found[r] < removed]_lockVars
  BY RevivingStep
<1> QED BY <1>1, LockInvariant, PTL DEF LockSpec, RevivedByOverlap
=============================================================================
