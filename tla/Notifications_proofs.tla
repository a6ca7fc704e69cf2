----------------------- MODULE Notifications_proofs -----------------------
(***************************************************************************)
(* Proofs about the two ways in which users learn of things.  First        *)
(* scheduled notifications: who is told of a request, and how often, for   *)
(* any number of requests, receivers, runs, edits, faults and deletions.   *)
(* Then the WebSocket server, which is a program of its own with a state   *)
(* of its own: which connections are registered, and which have had a      *)
(* message that was broadcast, for any number of users, connections,       *)
(* channels and broadcasts.                                                *)
(***************************************************************************)
EXTENDS Campaign, Realtime, FiniteSetTheorems, WellFoundedInduction, TLAPS

Busy == {"prepare", "save", "send", "load", "read", "write", "index"}

\* A run at a request has it in hand, and one that stores it has receivers left.
Fits(c) ==
  /\ pc[c] \in Busy => note[c] \in Notes
  /\ pc[c] \notin Busy => note[c] = None
  /\ pc[c] \in {"idle", "done"} => todo[c] = {}
  /\ pc[c] = "save" => left[c] # {}
  /\ left[c] # {} => pc[c] \in {"save", "send"}
  /\ note[c] \notin todo[c]
AtWork == \A c \in Runs : Fits(c)

\* An edit at work has a request, and has read the status of one that was there.
EditsAtWork ==
  \A e \in Edits : IF epc[e] = "idle" THEN read[e] = "gone" ELSE subject[e] \in Notes /\ read[e] # "gone"

\* The run that is past a receiver told that receiver, until it comes to send.
ToldSoFar ==
  \A c \in Runs : pc[c] \in Busy \ {"prepare", "send"} =>
    \A u \in asked[note[c]].for \ left[c] : Told(note[c], u)

\* What an edit has read as finished, everybody was told of.
ReadWhenTold == \A e \in Edits : read[e] = "finished" => AllTold(subject[e])

TypeInv == TypeOK /\ AtWork /\ EditsAtWork
MarkInv == TypeInv /\ MarkedWhenTold /\ ToldSoFar /\ ReadWhenTold

\* Without a document there is no file either, nor is there for a deletion to come.
GoneForGood ==
  /\ \A n \in Notes : doc[n] = "gone" => status[n] = "gone"
  /\ \A n \in dropping : status[n] = "gone"
  /\ \A c \in Runs : pc[c] = "write" /\ held[c] = "gone" => status[note[c]] = "gone"

\* A request that was searched for at its time is told, lost, or some run's.
Followed ==
  /\ \A n \in Notes : phase[n] = "over" => n \in searched
  /\ \A n \in searched : AllTold(n) \/ n \in passed \/ status[n] = "gone" \/ \E c \in Runs : n \in InHand(c)

FollowInv == MarkInv /\ GoneForGood /\ Followed

\* Two runs have a request at the same time, or a run has one that somebody
\* was told of before, only when it counts as repeated.
Apart == \A n \in Notes \ repeated : \A c, d \in Runs : n \in InHand(c) /\ n \in InHand(d) => c = d
Untold(n, u) == inbox[n][u] = 0
Waiting == \A n \in Notes \ repeated : \A c \in Runs : n \in todo[c] => \A u \in People : Untold(n, u)
Telling ==
  \A c \in Runs : note[c] \in Notes \ repeated =>
    \A u \in People : pc[c] = "prepare" \/ u \in left[c] => Untold(note[c], u)
Owned ==
  \A n \in Notes \ repeated : doc[n] = "open" =>
    (\A u \in People : Untold(n, u)) \/ \E c \in Runs : note[c] = n

OnceInv == TypeInv /\ Apart /\ Waiting /\ Telling /\ Owned /\ ToldOnce

-----------------------------------------------------------------------------
\* Every step is one of these.
LEMMA NextCases ==
  ASSUME Next
  PROVE  \/ \E c \in Runs : RunStep(c)
         \/ \E c \in Runs : Crash(c)
         \/ \E e \in Edits : EditStep(e)
         \/ \E n \in Notes : Remove(n) \/ Unindex(n) \/ Tick(n)
BY DEF Next

\* A step of a run leaves the other runs, the administrator and the clock alone.
LEMMA RunAlone ==
  ASSUME TypeOK, NEW c \in Runs, RunStep(c) \/ Crash(c)
  PROVE  /\ \A o \in Runs \ {c} : /\ pc'[o] = pc[o] /\ todo'[o] = todo[o] /\ note'[o] = note[o]
                                  /\ left'[o] = left[o] /\ held'[o] = held[o]
         /\ UNCHANGED <<asked, phase, editVars, removals>>
<1> USE DEF TypeOK, Goto, BreaksOff
<1>1. CASE Search(c)  BY <1>1 DEF Search
<1>2. CASE Take(c)
  <2>1. CASE todo[c] = {} /\ Stop(c)  BY <1>2, <2>1 DEF Take, Stop
  <2>2. CASE ~(todo[c] = {} /\ Stop(c))  BY <1>2, <2>2 DEF Take
  <2> QED BY <2>1, <2>2
<1>3. CASE Prepare(c)
  <2>1. CASE asked[note[c]].refused  BY <1>3, <2>1 DEF Prepare, Dies, Stop
  <2>2. CASE ~asked[note[c]].refused  BY <1>3, <2>2 DEF Prepare
  <2> QED BY <2>1, <2>2
<1>4. CASE Save(c)  BY <1>4 DEF Save
<1>5. CASE Send(c)  BY <1>5 DEF Send
<1>6. CASE Fails(c)  BY <1>6 DEF Fails
<1>7. CASE Load(c)
  <2>1. CASE status[note[c]] = "gone"  BY <1>7, <2>1 DEF Load, Dies, Stop
  <2>2. CASE status[note[c]] # "gone"  BY <1>7, <2>2 DEF Load
  <2> QED BY <2>1, <2>2
<1>8. CASE Read(c)  BY <1>8 DEF Read
<1>9. CASE Write(c)  BY <1>9 DEF Write
<1>10. CASE Index(c)  BY <1>10 DEF Index
<1>11. CASE Crash(c)  BY <1>11 DEF Crash, Dies, Stop
<1> QED BY <1>1, <1>2, <1>3, <1>4, <1>5, <1>6, <1>7, <1>8, <1>9, <1>10, <1>11 DEF RunStep

\* What a request asks for stays what it was.
LEMMA AskedTypes ==
  ASSUME TypeOK, NEW n \in Notes
  PROVE  asked[n].for \subseteq People
BY RequestAssumption DEF TypeOK

\* No step changes it.
LEMMA AskedStays ==
  ASSUME Next
  PROVE  asked' = asked
<1>1. ASSUME NEW c \in Runs, RunStep(c) \/ Crash(c)  PROVE asked' = asked
  BY <1>1 DEF RunStep, Crash, Search, Take, Prepare, Save, Send, Fails, BreaksOff, Load, Read, Write, Index
<1>2. ASSUME NEW e \in Edits, EditStep(e)  PROVE asked' = asked
  BY <1>2 DEF EditStep, EditLoad, EditWrite, EditHookLoad, EditHookPut, EditOnly
<1>3. ASSUME NEW n \in Notes, Remove(n) \/ Unindex(n) \/ Tick(n)  PROVE asked' = asked
  BY <1>3 DEF Remove, Unindex, Tick
<1> QED BY NextCases, <1>1, <1>2, <1>3

\* A notification is stored for one of those that are left.
LEMMA Stored ==
  ASSUME TypeOK, AtWork, NEW c \in Runs, Save(c)
  PROVE  \E u \in left[c] :
           /\ u \in People /\ note[c] \in Notes /\ left'[c] = left[c] \ {u}
           /\ left' = [left EXCEPT ![c] = left[c] \ {u}]
           /\ inbox' \in [Notes -> [People -> Nat]]
           /\ \A n \in Notes, v \in People :
                inbox'[n][v] = IF n = note[c] /\ v = u THEN inbox[n][v] + 1 ELSE inbox[n][v]
<1>1. PICK u \in left[c] : /\ inbox' = [inbox EXCEPT ![note[c]][u] = @ + 1]
                            /\ left' = [left EXCEPT ![c] = @ \ {u}]
  BY DEF Save
<1>2. note[c] \in Notes  BY DEF AtWork, Fits, Busy, Save
<1>3. u \in People /\ left'[c] = left[c] \ {u}  BY <1>1 DEF TypeOK
<1>4. inbox \in [Notes -> [People -> Nat]]  BY DEF TypeOK
<1>5. inbox' = [inbox EXCEPT ![note[c]] = [inbox[note[c]] EXCEPT ![u] = inbox[note[c]][u] + 1]]
  BY <1>1
<1>6. inbox[note[c]] \in [People -> Nat]  BY <1>2, <1>4
<1>7. inbox' \in [Notes -> [People -> Nat]]  BY <1>2, <1>3, <1>4, <1>5, <1>6
<1>8. ASSUME NEW n \in Notes, NEW v \in People
      PROVE  inbox'[n][v] = IF n = note[c] /\ v = u THEN inbox[n][v] + 1 ELSE inbox[n][v]
  <2>1. CASE n = note[c]  BY <1>4, <1>5, <1>6, <2>1
  <2>2. CASE n # note[c]  BY <1>4, <1>5, <2>2
  <2> QED BY <2>1, <2>2
<1> QED BY <1>1, <1>2, <1>3, <1>7, <1>8

\* Where a run goes from the receivers
PastPrepare(c) ==
  LET l == IF note[c] \in PushOnly THEN {} ELSE asked[note[c]].for
  IN  IF note[c] \in PushOnly /\ asked[note[c]].named /\ asked[note[c]].for # {} THEN "send" ELSE Onward(l)
PastSave(c) == IF asked[note[c]].named THEN "send" ELSE Onward(left'[c])

\* The points of a run
LEMMA Receivers ==
  ASSUME NEW c \in Runs
  PROVE  /\ PastPrepare(c) \in {"load", "send", "save"} /\ PastSave(c) \in {"load", "send", "save"}
         /\ PastPrepare(c) = "save" => asked[note[c]].for # {} /\ note[c] \notin PushOnly
         /\ PastPrepare(c) = "load" =>
              /\ note[c] \notin PushOnly => asked[note[c]].for = {}
              /\ asked[note[c]].named => asked[note[c]].for = {}
         /\ PastSave(c) # "send" => ~asked[note[c]].named
         /\ PastSave(c) = "save" => left'[c] # {}
         /\ PastSave(c) = "load" => left'[c] = {}
BY DEF PastPrepare, PastSave, Onward

\* A request that does not end the run leaves it with its receivers, at one of these points.
LEMMA Prepared ==
  ASSUME TypeOK, NEW c \in Runs, Prepare(c), ~asked[note[c]].refused
  PROVE  /\ pc' = [pc EXCEPT ![c] = PastPrepare(c)]
         /\ left' = [left EXCEPT ![c] = IF note[c] \in PushOnly THEN {} ELSE asked[note[c]].for]
         /\ pc'[c] = PastPrepare(c) /\ UNCHANGED <<todo, note, held, inbox>>
         /\ left'[c] = IF note[c] \in PushOnly THEN {} ELSE asked[note[c]].for
BY DEF Prepare, PastPrepare, Goto, TypeOK

\* With a notification stored the run goes where the platforms send it.
LEMMA Saved ==
  ASSUME TypeOK, NEW c \in Runs, Save(c)
  PROVE  /\ pc' = [pc EXCEPT ![c] = PastSave(c)] /\ pc'[c] = PastSave(c)
         /\ UNCHANGED <<todo, note, held, asked>> /\ pc[c] = "save"
BY DEF Save, PastSave, Goto, TypeOK

\* Where the runs are, as far as types go
Places ==
  /\ pc \in [Runs -> {"idle", "next", "prepare", "save", "send", "load", "read", "write", "index", "done"}]
  /\ todo \in [Runs -> SUBSET Notes] /\ note \in [Runs -> Notes \cup {None}]
  /\ left \in [Runs -> SUBSET People] /\ held \in [Runs -> Statuses]

\* A step of a run keeps the types.
LEMMA TypeInvRun ==
  ASSUME TypeInv, NEW c \in Runs, RunStep(c) \/ Crash(c)
  PROVE  TypeOK'
<1>0. TypeOK /\ AtWork /\ BoundAssumption  BY BoundAssumption DEF TypeInv
<1>1. /\ UNCHANGED <<asked, phase, epc, subject, read, dropping, removals>>
  BY <1>0, RunAlone DEF editVars
<1>2. Places'
  <2>0. /\ {} \in SUBSET People /\ {} \in SUBSET Notes /\ Due \in SUBSET Notes /\ None \in Notes \cup {None}
        /\ "gone" \in Statuses /\ status \in [Notes -> Statuses]
    BY <1>0 DEF Due, Statuses, TypeOK
  <2>00. ASSUME Stop(c), held' = held \/ held' = [held EXCEPT ![c] = "gone"]  PROVE Places'
    BY <1>0, <2>0, <2>00 DEF Places, TypeOK, Stop, Goto
  <2>1. CASE Search(c)  BY <1>0, <2>0, <2>1 DEF Places, TypeOK, Search, Goto
  <2>2. CASE Take(c)
    <3>1. CASE todo[c] = {} /\ Stop(c)  BY <2>00, <2>2, <3>1 DEF Take
    <3>2. ASSUME NEW n \in todo[c], todo' = [todo EXCEPT ![c] = @ \ {n}], note' = [note EXCEPT ![c] = n],
                 Goto(c, "prepare"), left' = left
          PROVE  Places'
      <4>1. n \in Notes \cup {None} /\ todo[c] \ {n} \in SUBSET Notes  BY <1>0, <3>2 DEF Places, TypeOK
      <4>2. held' = held  BY <2>2 DEF Take
      <4> QED BY <1>0, <3>2, <4>1, <4>2 DEF Places, TypeOK, Goto
    <3> QED BY <2>2, <3>1, <3>2 DEF Take
  <2>3. CASE Prepare(c)
    <3>1. CASE asked[note[c]].refused  BY <2>00, <2>3, <3>1 DEF Prepare, Dies
    <3>2. CASE ~asked[note[c]].refused
      <4>1. note[c] \in Notes  BY <1>0, <2>3 DEF AtWork, Fits, Busy, Prepare
      <4>2. PastPrepare(c) \in {"load", "send", "save"}  BY Receivers
      <4>3. (IF note[c] \in PushOnly THEN {} ELSE asked[note[c]].for) \in SUBSET People
        BY <1>0, <4>1, AskedTypes
      <4>4. /\ pc' = [pc EXCEPT ![c] = PastPrepare(c)] /\ UNCHANGED <<todo, note, held>>
            /\ left' = [left EXCEPT ![c] = IF note[c] \in PushOnly THEN {} ELSE asked[note[c]].for]
        BY <1>0, <2>3, <3>2, Prepared
      <4> QED BY <1>0, <4>2, <4>3, <4>4 DEF Places, TypeOK
    <3> QED BY <3>1, <3>2
  <2>4. CASE Save(c)
    <3>1. PICK u \in left[c] : left' = [left EXCEPT ![c] = left[c] \ {u}]  BY <1>0, <2>4, Stored
    <3>2. left[c] \ {u} \in SUBSET People  BY <1>0 DEF TypeOK
    <3>3. PastSave(c) \in {"load", "send", "save"}  BY Receivers
    <3>4. pc' = [pc EXCEPT ![c] = PastSave(c)] /\ UNCHANGED <<todo, note, held>>  BY <1>0, <2>4, Saved
    <3> QED BY <1>0, <3>1, <3>2, <3>3, <3>4 DEF Places, TypeOK
  <2>5. CASE BreaksOff(c)  BY <1>0, <2>0, <2>5 DEF Places, TypeOK, BreaksOff, Goto
  <2>7. CASE Load(c)
    <3>1. CASE status[note[c]] = "gone"  BY <2>00, <2>7, <3>1 DEF Load, Dies
    <3>2. CASE status[note[c]] # "gone"
      <4>1. pc' = [pc EXCEPT ![c] = "read"] /\ UNCHANGED <<todo, note, left, held>>
        BY <2>7, <3>2 DEF Load, Goto
      <4> QED BY <1>0, <4>1 DEF Places, TypeOK
    <3> QED BY <3>1, <3>2
  <2>8. CASE Read(c)
    <3>1. status[note[c]] \in Statuses  BY <1>0, <2>0, <2>8 DEF AtWork, Fits, Busy, Read
    <3> QED BY <1>0, <2>8, <3>1 DEF Places, TypeOK, Read, Goto
  <2>9. CASE Write(c)
    <3>1. /\ pc' = [pc EXCEPT ![c] = "next"] \/ pc' = [pc EXCEPT ![c] = "index"]
          /\ note' = note \/ note' = [note EXCEPT ![c] = None]
          /\ held' = [held EXCEPT ![c] = "gone"] /\ UNCHANGED <<todo, left>>
      BY <2>9 DEF Write, Goto
    <3> QED BY <1>0, <2>0, <3>1 DEF Places, TypeOK
  <2>10. CASE Index(c)  BY <1>0, <2>0, <2>10 DEF Places, TypeOK, Index, Goto
  <2>11. CASE Crash(c)  BY <2>00, <2>11 DEF Crash, Dies
  <2> QED BY <2>1, <2>2, <2>3, <2>4, <2>5, <2>7, <2>8, <2>9, <2>10, <2>11 DEF RunStep, Send, Fails
<1>3. inbox' \in [Notes -> [People -> Nat]]
  <2>1. CASE Save(c)  BY <1>0, <2>1, Stored
  <2>2. CASE ~Save(c)
    BY <1>0, <2>2 DEF RunStep, Crash, Search, Take, Prepare, Send, Fails, BreaksOff, Load, Read, Write, Index, TypeOK
  <2> QED BY <2>1, <2>2
<1>4. status' \in [Notes -> Statuses] /\ doc' \in [Notes -> Statuses]
  <2>0. "finished" \in Statuses /\ status \in [Notes -> Statuses] /\ doc \in [Notes -> Statuses]
    BY <1>0 DEF TypeOK, Statuses
  <2>1. /\ status' = status \/ status' = [status EXCEPT ![note[c]] = "finished"]
        /\ doc' = doc \/ doc' = [doc EXCEPT ![note[c]] = "finished"]
    BY DEF RunStep, Crash, Search, Take, Prepare, Fails, Load, Read, Save, Send, BreaksOff, Write, Index
  <2>2. status' \in [Notes -> Statuses]  BY <2>0, <2>1
  <2>3. doc' \in [Notes -> Statuses]  BY <2>0, <2>1
  <2> QED BY <2>2, <2>3
<1>5. faults' \in 0..MaxFaults
  <2>1. faults' = faults \/ (faults < MaxFaults /\ faults' = faults + 1)
    BY DEF RunStep, Crash, Search, Take, Prepare, Fails, Load, Read, Save, Send, BreaksOff, Write, Index
  <2> QED BY <1>0, <2>1 DEF TypeOK, BoundAssumption
<1>6. searched' \subseteq Notes
  <2>1. searched' = searched \/ searched' = searched \cup {n \in Notes : phase[n] = "due"}
    BY DEF RunStep, Crash, Search, Take, Prepare, Fails, Load, Read, Save, Send, BreaksOff, Write, Index
  <2> QED BY <1>0, <2>1 DEF TypeOK
<1>7. repeated' \subseteq Notes /\ passed' \subseteq Notes
  <2>1. /\ pc[c] \in Busy => note[c] \in Notes
        /\ note[c] \in Notes \cup {None} /\ todo[c] \subseteq Notes /\ Due \subseteq Notes
        /\ repeated \subseteq Notes /\ passed \subseteq Notes
    BY <1>0 DEF AtWork, Fits, TypeOK, Due
  <2>2. CASE Search(c)  BY <2>1, <2>2 DEF Search
  <2>3. CASE Dies(c)  BY <2>1, <2>3 DEF Dies, InHand
  <2>4. CASE Send(c) \/ Fails(c)  BY <2>1, <2>4 DEF Send, Fails, BreaksOff, Busy
  <2>5. CASE Write(c)
    <3>1. passed' = passed /\ (repeated' = repeated \/ repeated' = repeated \cup {note[c]})
      BY <2>5 DEF Write
    <3>2. note[c] \in Notes  BY <2>1, <2>5 DEF Write, Busy
    <3> QED BY <2>1, <3>1, <3>2
  <2>6. CASE ~Search(c) /\ ~Dies(c) /\ ~Send(c) /\ ~Fails(c) /\ ~Write(c)
    BY <2>1, <2>6 DEF RunStep, Crash, Take, Prepare, Load, Read, Save, Index
  <2> QED BY <2>2, <2>3, <2>4, <2>5, <2>6
<1> QED BY <1>0, <1>1, <1>2, <1>3, <1>4, <1>5, <1>6, <1>7 DEF TypeOK, Places

\* A step of a run keeps its place in order.
LEMMA AtWorkRun ==
  ASSUME TypeInv, NEW c \in Runs, RunStep(c) \/ Crash(c)
  PROVE  AtWork'
<1>0. TypeOK /\ AtWork /\ Fits(c) /\ None \notin Notes  BY NameAssumption DEF TypeInv, AtWork
<1>1. ASSUME NEW o \in Runs \ {c}  PROVE Fits(o)'
  BY <1>0, RunAlone DEF AtWork, Fits
<1>2. Fits(c)'
  <2>0. ASSUME Stop(c)  PROVE Fits(c)'
    BY <1>0, <2>0 DEF Stop, Goto, Fits, Busy, TypeOK
  <2>1. CASE Search(c)
    <3>1. Due \subseteq Notes  BY DEF Due
    <3> QED BY <1>0, <2>1, <3>1 DEF Search, Goto, Fits, Busy, TypeOK
  <2>2. CASE Take(c)
    <3>1. CASE todo[c] = {} /\ Stop(c)  BY <2>0, <3>1
    <3>2. ASSUME NEW n \in todo[c], todo' = [todo EXCEPT ![c] = @ \ {n}], note' = [note EXCEPT ![c] = n],
                 Goto(c, "prepare"), left' = left
          PROVE  Fits(c)'
      BY <1>0, <2>2, <3>2 DEF Take, Goto, Fits, Busy, TypeOK
    <3> QED BY <2>2, <3>1, <3>2 DEF Take
  <2>3. CASE Prepare(c)
    <3>1. CASE asked[note[c]].refused  BY <2>0, <2>3, <3>1 DEF Prepare, Dies
    <3>2. CASE ~asked[note[c]].refused
      <4>1. /\ pc'[c] = PastPrepare(c) /\ UNCHANGED <<todo, note>> /\ pc[c] = "prepare"
            /\ left'[c] = IF note[c] \in PushOnly THEN {} ELSE asked[note[c]].for
        BY <1>0, <2>3, <3>2, Prepared DEF Prepare
      <4>2. /\ pc'[c] \in {"load", "send", "save"} /\ (pc'[c] = "save" => left'[c] # {})
            /\ pc'[c] = "load" => left'[c] = {}
        BY <4>1, Receivers
      <4> QED BY <1>0, <4>1, <4>2 DEF Fits, Busy
    <3> QED BY <3>1, <3>2
  <2>4. CASE Save(c)
    <3>1. pc'[c] = PastSave(c) /\ UNCHANGED <<todo, note>> /\ pc[c] = "save"  BY <1>0, <2>4, Saved
    <3>2. /\ pc'[c] \in {"load", "send", "save"} /\ (pc'[c] = "save" => left'[c] # {})
          /\ pc'[c] = "load" => left'[c] = {}
      BY <3>1, Receivers
    <3> QED BY <1>0, <3>1, <3>2 DEF Fits, Busy
  <2>5. CASE BreaksOff(c)  BY <1>0, <2>5 DEF BreaksOff, Goto, Fits, Busy, TypeOK
  <2>7. CASE Load(c)
    <3>1. CASE status[note[c]] = "gone"  BY <2>0, <2>7, <3>1 DEF Load, Dies
    <3>2. CASE status[note[c]] # "gone"  BY <1>0, <2>7, <3>2 DEF Load, Goto, Fits, Busy, TypeOK
    <3> QED BY <3>1, <3>2
  <2>8. CASE Read(c)  BY <1>0, <2>8 DEF Read, Goto, Fits, Busy, TypeOK
  <2>9. CASE Write(c)
    <3>1. CASE "gone" \in {held[c], status[note[c]]}
      BY <1>0, <2>9, <3>1 DEF Write, Goto, Fits, Busy, TypeOK
    <3>2. CASE ~("gone" \in {held[c], status[note[c]]})
      BY <1>0, <2>9, <3>2 DEF Write, Goto, Fits, Busy, TypeOK
    <3> QED BY <3>1, <3>2
  <2>10. CASE Index(c)  BY <1>0, <2>10 DEF Index, Goto, Fits, Busy, TypeOK
  <2>11. CASE Crash(c)  BY <2>0, <2>11 DEF Crash, Dies
  <2> QED BY <2>1, <2>2, <2>3, <2>4, <2>5, <2>7, <2>8, <2>9, <2>10, <2>11 DEF RunStep, Send, Fails
<1> QED BY <1>1, <1>2 DEF AtWork

\* The administrator's steps and the clock's leave the runs alone, and what they have told.
LEMMA RunsAlone ==
  ASSUME \/ \E e \in Edits : EditStep(e)
         \/ \E n \in Notes : Remove(n) \/ Unindex(n) \/ Tick(n)
         \/ UNCHANGED vars
  PROVE  UNCHANGED <<runVars, inbox, asked, faults, searched, passed>>
<1>1. ASSUME NEW e \in Edits, EditStep(e)
      PROVE  UNCHANGED <<runVars, inbox, asked, faults, searched, passed>>
  <2>1. CASE EditLoad(e)  BY <2>1 DEF EditLoad, EditOnly
  <2>2. CASE EditWrite(e)  BY <2>2 DEF EditWrite, EditOnly
  <2>3. CASE EditHookLoad(e)  BY <2>3 DEF EditHookLoad, EditOnly
  <2>4. CASE EditHookPut(e)  BY <2>4 DEF EditHookPut, EditOnly
  <2> QED BY <1>1, <2>1, <2>2, <2>3, <2>4 DEF EditStep
<1>2. ASSUME NEW n \in Notes, Remove(n) \/ Unindex(n) \/ Tick(n)
      PROVE  UNCHANGED <<runVars, inbox, asked, faults, searched, passed>>
  BY <1>2 DEF Remove, Unindex, Tick
<1>3. UNCHANGED vars => UNCHANGED <<runVars, inbox, asked, faults, searched, passed>>
  BY DEF vars
<1> QED BY <1>1, <1>2, <1>3

\* What an edit does to its own place, the file and the document
LEMMA EditEffect ==
  ASSUME TypeInv, NEW e \in Edits, EditStep(e)
  PROVE  /\ \A f \in Edits \ {e} : epc'[f] = epc[f] /\ subject'[f] = subject[f] /\ read'[f] = read[f]
         /\ subject'[e] \in Notes /\ read'[e] \in Statuses \ {"gone"} /\ epc'[e] # "idle"
         /\ ((read'[e] = read[e] /\ subject'[e] = subject[e]) \/ read'[e] = status[subject'[e]])
         /\ \/ status' = status
            \/ /\ status[subject[e]] # "gone" /\ epc[e] # "idle"
               /\ status' = [status EXCEPT ![subject[e]] = read[e]]
               /\ Reopens(subject[e], status[subject[e]], read[e])
         /\ doc' = doc \/ (/\ epc[e] # "idle" /\ doc' = [doc EXCEPT ![subject[e]] = read[e]]
                           /\ Reopens(subject[e], doc[subject[e]], read[e]))
         /\ repeated \subseteq repeated' /\ repeated' \subseteq repeated \cup Notes
         /\ UNCHANGED <<phase, dropping, removals>>
         /\ epc' \in [Edits -> {"idle", "write", "hook", "put", "done"}]
         /\ subject' \in [Edits -> Notes \cup {None}] /\ read' \in [Edits -> Statuses]
<1>0. TypeOK /\ EditsAtWork  BY DEF TypeInv
<1>1. CASE EditLoad(e)
  <2>1. PICK n \in Notes : /\ status[n] # "gone"
                           /\ subject' = [subject EXCEPT ![e] = n]
                           /\ read' = [read EXCEPT ![e] = status[n]]
    BY <1>1 DEF EditLoad
  <2> QED BY <1>0, <1>1, <2>1 DEF EditLoad, EditGoto, EditOnly, TypeOK, Statuses
<1>2. CASE EditWrite(e)
  <2>1. subject[e] \in Notes /\ read[e] \in Statuses \ {"gone"}  BY <1>0, <1>2 DEF EditWrite, EditsAtWork, TypeOK
  <2>2. /\ subject' = subject /\ read' = read /\ doc' = doc /\ UNCHANGED <<phase, dropping, removals>>
        /\ epc[e] = "write" /\ (epc' = [epc EXCEPT ![e] = "done"] \/ epc' = [epc EXCEPT ![e] = "hook"])
    BY <1>2 DEF EditWrite, EditGoto, EditOnly
  <2>3. \/ status' = status
        \/ /\ status[subject[e]] # "gone" /\ status' = [status EXCEPT ![subject[e]] = read[e]]
           /\ Reopens(subject[e], status[subject[e]], read[e])
    BY <1>2 DEF EditWrite
  <2>4. repeated' = repeated \/ repeated' = repeated \cup {subject[e]}  BY <1>2 DEF EditWrite, Reopens
  <2> QED BY <1>0, <2>1, <2>2, <2>3, <2>4 DEF TypeOK
<1>3. CASE EditHookLoad(e)
  <2>1. subject[e] \in Notes /\ read[e] \in Statuses \ {"gone"}
    BY <1>0, <1>3 DEF EditHookLoad, EditsAtWork, TypeOK
  <2>2. /\ subject' = subject /\ UNCHANGED <<phase, dropping, removals, status, doc, repeated>>
        /\ epc[e] = "hook" /\ (epc' = [epc EXCEPT ![e] = "done"] \/ epc' = [epc EXCEPT ![e] = "put"])
        /\ \/ read' = read
           \/ status[subject[e]] # "gone" /\ read' = [read EXCEPT ![e] = status[subject[e]]]
    BY <1>3 DEF EditHookLoad, EditGoto, EditOnly
  <2>3. status[subject[e]] \in Statuses  BY <1>0, <2>1 DEF TypeOK
  <2>4. \A f \in Edits \ {e} : epc'[f] = epc[f] /\ subject'[f] = subject[f] /\ read'[f] = read[f]
    BY <1>0, <2>2 DEF TypeOK
  <2>5. /\ epc'[e] # "idle" /\ subject'[e] = subject[e]
        /\ read'[e] = read[e] \/ (status[subject[e]] # "gone" /\ read'[e] = status[subject[e]])
    BY <1>0, <2>2 DEF TypeOK
  <2>6. /\ epc' \in [Edits -> {"idle", "write", "hook", "put", "done"}]
        /\ subject' \in [Edits -> Notes \cup {None}] /\ read' \in [Edits -> Statuses]
    BY <1>0, <2>2, <2>3 DEF TypeOK
  <2>7. status' = status /\ doc' = doc /\ repeated' = repeated /\ UNCHANGED <<phase, dropping, removals>>
    BY <2>2
  <2> QED BY <2>1, <2>3, <2>4, <2>5, <2>6, <2>7
<1>4. CASE EditHookPut(e)
  <2>1. subject[e] \in Notes /\ read[e] \in Statuses \ {"gone"}
    BY <1>0, <1>4 DEF EditHookPut, EditsAtWork, TypeOK
  <2>2. /\ subject' = subject /\ read' = read /\ status' = status /\ UNCHANGED <<phase, dropping, removals>>
        /\ epc[e] = "put" /\ epc' = [epc EXCEPT ![e] = "done"]
    BY <1>4 DEF EditHookPut, EditGoto, EditOnly
  <2>3. doc' = [doc EXCEPT ![subject[e]] = read[e]] /\ Reopens(subject[e], doc[subject[e]], read[e])
    BY <1>4 DEF EditHookPut
  <2>4. repeated' = repeated \/ repeated' = repeated \cup {subject[e]}  BY <1>4 DEF EditHookPut, Reopens
  <2> QED BY <1>0, <2>1, <2>2, <2>3, <2>4 DEF TypeOK
<1> QED BY <1>1, <1>2, <1>3, <1>4 DEF EditStep

\* A deletion, its document's, and the clock
LEMMA OtherEffect ==
  ASSUME TypeOK, NEW n \in Notes, Remove(n) \/ Unindex(n) \/ Tick(n)
  PROVE  /\ UNCHANGED <<epc, subject, read, repeated>>
         /\ \/ status' = [status EXCEPT ![n] = "gone"] /\ dropping' = dropping \cup {n}
               /\ doc' = doc /\ phase' = phase
               /\ removals < MaxRemovals /\ removals' = removals + 1
            \/ doc' = [doc EXCEPT ![n] = "gone"] /\ n \in dropping /\ dropping' = dropping \ {n}
               /\ status' = status /\ phase' = phase /\ removals' = removals
            \/ phase' = [phase EXCEPT ![n] = "due"] /\ phase[n] = "ahead"
               /\ status' = status /\ doc' = doc /\ dropping' = dropping /\ removals' = removals
            \/ phase' = [phase EXCEPT ![n] = "over"] /\ n \in searched
               /\ status' = status /\ doc' = doc /\ dropping' = dropping /\ removals' = removals
<1>1. CASE Remove(n)  BY <1>1 DEF Remove
<1>2. CASE Unindex(n)  BY <1>2 DEF Unindex
<1>3. CASE Tick(n)
  <2>1. UNCHANGED <<epc, subject, read, repeated, status, doc, dropping, removals>>  BY <1>3 DEF Tick, editVars
  <2>2. CASE phase[n] = "ahead"  BY <1>3, <2>1, <2>2 DEF Tick
  <2>3. CASE phase[n] # "ahead"  BY <1>3, <2>1, <2>3 DEF Tick
  <2> QED BY <2>2, <2>3
<1> QED BY <1>1, <1>2, <1>3

\* Types and places survive every step.
LEMMA TypeInvStep ==
  ASSUME TypeInv, [Next]_vars
  PROVE  TypeInv'
<1>0. TypeOK /\ AtWork /\ EditsAtWork  BY DEF TypeInv
<1>1. ASSUME NEW c \in Runs, RunStep(c) \/ Crash(c)
      PROVE  TypeInv'
  <2>1. UNCHANGED <<epc, subject, read>>  BY <1>0, <1>1, RunAlone DEF editVars
  <2>2. EditsAtWork'  BY <1>0, <2>1 DEF EditsAtWork
  <2> QED BY <1>1, <2>2, TypeInvRun, AtWorkRun DEF TypeInv
<1>2. ASSUME \/ \E e \in Edits : EditStep(e)
             \/ \E n \in Notes : Remove(n) \/ Unindex(n) \/ Tick(n)
             \/ UNCHANGED vars
      PROVE  AtWork'
  <2>1. UNCHANGED runVars  BY <1>2, RunsAlone
  <2> QED BY <1>0, <2>1 DEF runVars, AtWork, Fits
<1>3. ASSUME NEW e \in Edits, EditStep(e)
      PROVE  TypeInv'
  <2>1. UNCHANGED <<runVars, inbox, asked, faults, searched, passed>>  BY <1>3, RunsAlone
  <2>2. status' \in [Notes -> Statuses] /\ doc' \in [Notes -> Statuses]
    <3>1. epc[e] # "idle" => subject[e] \in Notes /\ read[e] \in Statuses  BY <1>0 DEF EditsAtWork, TypeOK
    <3>2. /\ status' = status \/ (epc[e] # "idle" /\ status' = [status EXCEPT ![subject[e]] = read[e]])
          /\ doc' = doc \/ (epc[e] # "idle" /\ doc' = [doc EXCEPT ![subject[e]] = read[e]])
      BY <1>3, EditEffect
    <3> QED BY <1>0, <3>1, <3>2 DEF TypeOK
  <2>3. /\ UNCHANGED <<phase, dropping, removals>>
        /\ epc' \in [Edits -> {"idle", "write", "hook", "put", "done"}]
        /\ subject' \in [Edits -> Notes \cup {None}] /\ read' \in [Edits -> Statuses]
        /\ repeated' \subseteq repeated \cup Notes
    BY <1>3, EditEffect
  <2>4. TypeOK'  BY <1>0, <2>1, <2>2, <2>3 DEF TypeOK, runVars
  <2>5. EditsAtWork'
    <3>1. /\ \A f \in Edits \ {e} : epc'[f] = epc[f] /\ subject'[f] = subject[f] /\ read'[f] = read[f]
          /\ subject'[e] \in Notes /\ read'[e] \in Statuses \ {"gone"} /\ epc'[e] # "idle"
      BY <1>3, EditEffect
    <3> QED BY <1>0, <3>1 DEF EditsAtWork
  <2> QED BY <1>2, <1>3, <2>4, <2>5 DEF TypeInv
<1>4. ASSUME NEW n \in Notes, Remove(n) \/ Unindex(n) \/ Tick(n)
      PROVE  TypeInv'
  <2>1. UNCHANGED <<runVars, inbox, asked, faults, searched, passed>>  BY <1>4, RunsAlone
  <2>2. UNCHANGED <<epc, subject, read, repeated>>  BY <1>0, <1>4, OtherEffect
  <2>3. /\ status' \in [Notes -> Statuses] /\ doc' \in [Notes -> Statuses]
        /\ phase' \in [Notes -> {"ahead", "due", "over"}]
        /\ dropping' \subseteq Notes
    <3>1. status' = status \/ status' = [status EXCEPT ![n] = "gone"]  BY <1>0, <1>4, OtherEffect
    <3>2. doc' = doc \/ doc' = [doc EXCEPT ![n] = "gone"]  BY <1>0, <1>4, OtherEffect
    <3>3. phase' = phase \/ phase' = [phase EXCEPT ![n] = "due"] \/ phase' = [phase EXCEPT ![n] = "over"]
      BY <1>0, <1>4, OtherEffect
    <3>4. dropping' = dropping \/ dropping' = dropping \cup {n} \/ dropping' = dropping \ {n}
      BY <1>0, <1>4, OtherEffect
    <3>5. status' \in [Notes -> Statuses]  BY <1>0, <3>1 DEF TypeOK, Statuses
    <3>6. doc' \in [Notes -> Statuses]  BY <1>0, <3>2 DEF TypeOK, Statuses
    <3>7. phase' \in [Notes -> {"ahead", "due", "over"}]  BY <1>0, <3>3 DEF TypeOK
    <3> QED BY <1>0, <3>4, <3>5, <3>6, <3>7 DEF TypeOK
  <2>4. removals' \in 0..MaxRemovals
    <3>1. removals' = removals \/ (removals < MaxRemovals /\ removals' = removals + 1)
      BY <1>0, <1>4, OtherEffect
    <3> QED BY <1>0, <3>1, BoundAssumption DEF TypeOK
  <2>5. TypeOK'  BY <1>0, <2>1, <2>2, <2>3, <2>4 DEF TypeOK, runVars
  <2>6. EditsAtWork'  BY <1>0, <2>2 DEF EditsAtWork
  <2> QED BY <1>2, <1>4, <2>5, <2>6 DEF TypeInv
<1>5. CASE UNCHANGED vars
  <2>1. TypeOK' /\ EditsAtWork'  BY <1>0, <1>5 DEF vars, runVars, editVars, TypeOK, EditsAtWork
  <2> QED BY <1>2, <1>5, <2>1 DEF TypeInv
<1> QED BY NextCases, <1>1, <1>3, <1>4, <1>5

\* It holds at first.
LEMMA InitTypeInv == Init => TypeInv
<1> SUFFICES ASSUME Init  PROVE TypeInv
  OBVIOUS
<1>1. TypeOK  BY BoundAssumption DEF Init, TypeOK, Statuses
<1>2. AtWork  BY NameAssumption DEF Init, AtWork, Fits, Busy
<1>3. EditsAtWork  BY DEF Init, EditsAtWork
<1> QED BY <1>1, <1>2, <1>3 DEF TypeInv

\* Type correctness: the values are what the code stores, at every point of every run.
THEOREM TypeCorrect == Spec => []TypeOK
<1>1. TypeInv => TypeOK  BY DEF TypeInv
<1> QED BY <1>1, InitTypeInv, TypeInvStep, PTL DEF Spec

-----------------------------------------------------------------------------
\* Nobody's count goes down.
LEMMA CountsGrow ==
  ASSUME TypeInv, [Next]_vars, NEW n \in Notes, NEW u \in People
  PROVE  /\ inbox[n][u] \in Nat
         /\ inbox'[n][u] \in {inbox[n][u], inbox[n][u] + 1}
<1>0. TypeOK /\ AtWork /\ inbox[n][u] \in Nat  BY DEF TypeInv, TypeOK
<1>1. ASSUME NEW c \in Runs, Save(c)
      PROVE  inbox'[n][u] \in {inbox[n][u], inbox[n][u] + 1}
  BY <1>0, <1>1, Stored
<1>3. ASSUME NEW c \in Runs, RunStep(c) \/ Crash(c), ~Save(c)
      PROVE  inbox' = inbox
  BY <1>3 DEF RunStep, Crash, Search, Take, Prepare, Send, Fails, BreaksOff, Load, Read, Write, Index
<1>4. ASSUME \/ \E e \in Edits : EditStep(e)
             \/ \E m \in Notes : Remove(m) \/ Unindex(m) \/ Tick(m)
             \/ UNCHANGED vars
      PROVE  inbox' = inbox
  BY <1>4, RunsAlone
<1>5. (\E c \in Runs : Save(c)) \/ inbox' = inbox
  BY NextCases, <1>3, <1>4
<1> QED BY <1>0, <1>1, <1>5

\* Who was told stays so.
LEMMA ToldStays ==
  ASSUME TypeInv, [Next]_vars, NEW n \in Notes
  PROVE  /\ \A u \in People : Told(n, u) => Told(n, u)'
         /\ AllTold(n) => AllTold(n)'
<1>1. asked' = asked  BY AskedStays DEF vars
<1>2. ASSUME NEW u \in People, Told(n, u)  PROVE Told(n, u)'
  BY <1>1, <1>2, CountsGrow DEF Told
<1>3. asked[n].for \subseteq People  BY AskedTypes DEF TypeInv
<1> QED BY <1>1, <1>2, <1>3 DEF AllTold

\* What a run tells of itself follows it from step to step.
Sofar(c) ==
  pc[c] \in Busy \ {"prepare", "send"} => \A u \in asked[note[c]].for \ left[c] : Told(note[c], u)

\* It holds at first.
LEMMA InitMarkInv == Init => MarkInv
<1> SUFFICES ASSUME Init  PROVE MarkInv
  OBVIOUS
<1>1. MarkedWhenTold  BY DEF Init, MarkedWhenTold
<1>2. ToldSoFar  BY DEF Init, ToldSoFar, Busy
<1>3. ReadWhenTold  BY DEF Init, ReadWhenTold
<1> QED BY <1>1, <1>2, <1>3, InitTypeInv DEF MarkInv

\* A run that has no receivers left told everybody.
LEMMA NobodyLeft ==
  ASSUME MarkInv, NEW c \in Runs, pc[c] \in {"load", "read", "write", "index"}
  PROVE  note[c] \in Notes /\ AllTold(note[c])
<1>1. note[c] \in Notes /\ left[c] = {}  BY DEF MarkInv, TypeInv, AtWork, Fits, Busy
<1> QED BY <1>1 DEF MarkInv, ToldSoFar, Busy, AllTold

\* The run that takes the step
LEMMA SofarRun ==
  ASSUME MarkInv, NEW c \in Runs, RunStep(c) \/ Crash(c)
  PROVE  Sofar(c)'
<1>0. TypeOK /\ AtWork /\ Fits(c) /\ Sofar(c) /\ TypeInv /\ [Next]_vars
  BY DEF MarkInv, TypeInv, AtWork, ToldSoFar, Sofar, Next
<1>1. CASE pc'[c] \notin Busy \ {"prepare", "send"}  BY <1>1 DEF Sofar, Busy
<1>10. asked' = asked /\ (pc[c] \in Busy => note[c] \in Notes /\ asked[note[c]].for \subseteq People)
  BY <1>0, AskedStays, AskedTypes DEF Next, Fits
<1>2. CASE Prepare(c) /\ ~Dies(c)
  <2>1. /\ note' = note /\ pc'[c] = PastPrepare(c)
        /\ left'[c] = IF note[c] \in PushOnly THEN {} ELSE asked[note[c]].for
    BY <1>0, <1>2, Prepared DEF Prepare
  <2>2. CASE pc'[c] = "load"
    <3>1. ASSUME NEW u \in asked[note[c]].for  PROVE Told(note[c], u)'
      <4>1. note[c] \in PushOnly /\ ~asked[note[c]].named  BY <2>1, <2>2, <3>1, Receivers
      <4> QED BY <1>10, <2>1, <4>1 DEF Told
    <3> QED BY <1>10, <2>1, <3>1 DEF Sofar, Told
  <2>3. CASE pc'[c] = "save"
    <3>1. left'[c] = asked[note[c]].for  BY <2>1, <2>3, Receivers
    <3> QED BY <1>10, <2>1, <3>1 DEF Sofar
  <2>4. CASE pc'[c] = "send"  BY <2>4 DEF Sofar
  <2> QED BY <2>1, <2>2, <2>3, <2>4, Receivers
<1>3. CASE Save(c)
  <2>1. pc[c] = "save" /\ pc'[c] = PastSave(c) /\ note' = note  BY <1>0, <1>3, Saved
  <2>2. PICK w \in left[c] :
          /\ w \in People /\ note[c] \in Notes /\ left'[c] = left[c] \ {w}
          /\ inbox'[note[c]][w] = inbox[note[c]][w] + 1
    BY <1>0, <1>3, Stored
  <2>3. inbox[note[c]][w] \in Nat  BY <1>0, <2>2 DEF TypeOK
  <2>4. \A u \in asked[note[c]].for \ left[c] : Told(note[c], u)'
    BY <1>0, <1>10, <2>1, <2>2, ToldStays DEF Sofar, Busy
  <2>5. CASE pc'[c] # "send"
    <3>1. ~asked[note[c]].named  BY <2>1, <2>5, Receivers
    <3>2. Told(note[c], w)'  BY <1>10, <2>1, <2>2, <2>3, <3>1 DEF Told
    <3>3. \A u \in asked[note[c]].for \ left'[c] : Told(note[c], u)'  BY <2>2, <2>4, <3>2
    <3> QED BY <1>10, <2>1, <3>3 DEF Sofar, Told
  <2>6. CASE pc'[c] = "send"  BY <2>6 DEF Sofar
  <2> QED BY <2>5, <2>6
<1>5. CASE pc[c] \in {"load", "read", "write"} /\ pc'[c] \in {"read", "write", "index"} /\ note' = note
           /\ left' = left
  <2>1. note[c] \in Notes /\ \A u \in asked[note[c]].for \ left[c] : Told(note[c], u)'
    BY <1>0, <1>5, <1>10, ToldStays DEF Sofar, Fits, Busy
  <2> QED BY <1>5, <1>10, <2>1 DEF Sofar, Told
<1>6. CASE Stop(c)  BY <1>0, <1>1, <1>6 DEF Stop, Goto, Busy, TypeOK
<1>7. CASE Search(c) \/ Take(c) \/ BreaksOff(c) \/ Index(c)
  <2>1. pc'[c] \in {"next", "done", "prepare"}
    BY <1>0, <1>7 DEF Search, Take, BreaksOff, Index, Goto, TypeOK, Stop
  <2> QED BY <1>1, <2>1 DEF Busy
<1>8. CASE Load(c) \/ Read(c)
  <2>1. CASE Stop(c)  BY <1>6, <2>1
  <2>2. CASE ~Stop(c)
    <3>1. /\ pc[c] \in {"load", "read"} /\ pc'[c] \in {"read", "write"} /\ note' = note /\ left' = left
      BY <1>0, <1>8, <2>2 DEF Load, Read, Goto, TypeOK, Dies
    <3> QED BY <1>5, <3>1
  <2> QED BY <2>1, <2>2
<1>9. CASE Write(c)
  <2>1. CASE "gone" \in {held[c], status[note[c]]}
    <3>1. pc'[c] = "next"  BY <1>0, <1>9, <2>1 DEF Write, Goto, TypeOK
    <3> QED BY <1>1, <3>1 DEF Busy
  <2>2. CASE ~("gone" \in {held[c], status[note[c]]})
    <3>1. pc[c] = "write" /\ pc'[c] = "index" /\ note' = note /\ left' = left
      BY <1>0, <1>9, <2>2 DEF Write, Goto, TypeOK
    <3> QED BY <1>5, <3>1
  <2> QED BY <2>1, <2>2
<1> QED BY <1>2, <1>3, <1>6, <1>7, <1>8, <1>9 DEF RunStep, Crash, Prepare, Dies, Send, Fails

\* Every step keeps what is marked, told and read in agreement.
LEMMA MarkInvStep ==
  ASSUME MarkInv, [Next]_vars
  PROVE  MarkInv'
<1>0. TypeInv /\ TypeOK /\ TypeInv'  BY TypeInvStep DEF MarkInv, TypeInv
<1>1. ASSUME NEW n \in Notes, AllTold(n)  PROVE AllTold(n)'
  BY <1>0, <1>1, ToldStays
<1>2. ASSUME NEW n \in Notes, "finished" \in {status[n], doc[n]}  PROVE AllTold(n)
  BY <1>2 DEF MarkInv, MarkedWhenTold
<1>30. asked' = asked  BY AskedStays DEF vars
<1>3. ASSUME NEW o \in Runs, Sofar(o), pc'[o] = pc[o], note'[o] = note[o], left'[o] = left[o]
      PROVE  Sofar(o)'
  <2>1. pc[o] \in Busy => note[o] \in Notes /\ asked[note[o]].for \subseteq People
    BY <1>0, AskedTypes DEF TypeInv, AtWork, Fits
  <2>2. pc[o] \in Busy \ {"prepare", "send"} => \A u \in asked[note[o]].for \ left[o] : Told(note[o], u)'
    BY <1>0, <1>3, <2>1, ToldStays DEF Sofar
  <2> QED BY <1>3, <1>30, <2>2 DEF Sofar, Told
<1>4. \A o \in Runs : Sofar(o)  BY DEF MarkInv, ToldSoFar, Sofar
<1>5. ASSUME NEW c \in Runs, RunStep(c) \/ Crash(c)
      PROVE  MarkedWhenTold' /\ ToldSoFar' /\ ReadWhenTold'
  <2>1. MarkedWhenTold'
    <3> SUFFICES ASSUME NEW n \in Notes, "finished" \in {status'[n], doc'[n]}  PROVE AllTold(n)'
      BY DEF MarkedWhenTold
    <3>1. \/ status' = status /\ doc' = doc
          \/ pc[c] = "write" /\ status' = [status EXCEPT ![note[c]] = "finished"] /\ doc' = doc
          \/ pc[c] = "index" /\ doc' = [doc EXCEPT ![note[c]] = "finished"] /\ status' = status
      BY <1>5 DEF RunStep, Crash, Search, Take, Prepare, Save, Send, Fails, BreaksOff, Load, Read, Write, Index
    <3>2. CASE pc[c] \in {"write", "index"} /\ n = note[c]  BY <1>1, <3>2, NobodyLeft
    <3>3. CASE ~(pc[c] \in {"write", "index"} /\ n = note[c])  BY <1>0, <1>1, <1>2, <3>1, <3>3 DEF TypeOK
    <3> QED BY <3>2, <3>3
  <2>2. ToldSoFar'
    <3>1. \A o \in Runs \ {c} : pc'[o] = pc[o] /\ note'[o] = note[o] /\ left'[o] = left[o]
      BY <1>0, <1>5, RunAlone
    <3>2. \A o \in Runs : Sofar(o)'  BY <1>3, <1>4, <1>5, <3>1, SofarRun
    <3> QED BY <3>2 DEF ToldSoFar, Sofar
  <2>3. ReadWhenTold'
    <3>1. read' = read /\ subject' = subject  BY <1>0, <1>5, RunAlone DEF editVars
    <3>2. \A e \in Edits : read[e] = "finished" => subject[e] \in Notes  BY <1>0 DEF TypeInv, EditsAtWork
    <3>3. ASSUME NEW e \in Edits, read[e] = "finished", NEW n \in Notes, n = subject[e]  PROVE AllTold(n)'
      BY <1>1, <3>3 DEF MarkInv, ReadWhenTold
    <3> QED BY <1>30, <3>1, <3>2, <3>3 DEF ReadWhenTold, AllTold, Told
  <2> QED BY <2>1, <2>2, <2>3
<1>6. ASSUME \/ \E e \in Edits : EditStep(e)
             \/ \E n \in Notes : Remove(n) \/ Unindex(n) \/ Tick(n)
             \/ UNCHANGED vars
      PROVE  ToldSoFar'
  <2>1. UNCHANGED runVars  BY <1>6, RunsAlone
  <2>2. \A o \in Runs : Sofar(o)'  BY <1>3, <1>4, <2>1 DEF runVars
  <2> QED BY <2>2 DEF ToldSoFar, Sofar
<1>7. ASSUME NEW e \in Edits, EditStep(e)
      PROVE  MarkedWhenTold' /\ ReadWhenTold'
  <2>0. epc[e] # "idle" => subject[e] \in Notes  BY <1>0 DEF TypeInv, EditsAtWork
  <2>1. read[e] = "finished" => subject[e] \in Notes /\ AllTold(subject[e])
    BY <1>0 DEF MarkInv, ReadWhenTold, TypeInv, EditsAtWork
  <2>2. MarkedWhenTold'
    <3> SUFFICES ASSUME NEW n \in Notes, "finished" \in {status'[n], doc'[n]}  PROVE AllTold(n)'
      BY DEF MarkedWhenTold
    <3>1. /\ status' = status \/ (epc[e] # "idle" /\ status' = [status EXCEPT ![subject[e]] = read[e]])
          /\ doc' = doc \/ (epc[e] # "idle" /\ doc' = [doc EXCEPT ![subject[e]] = read[e]])
      BY <1>0, <1>7, EditEffect
    <3>2. "finished" \in {status[n], doc[n]} \/ (n = subject[e] /\ read[e] = "finished")
      BY <1>0, <2>0, <3>1 DEF TypeOK
    <3> QED BY <1>1, <1>2, <2>1, <3>2
  <2>3. ReadWhenTold'
    <3>0. \A f \in Edits : read'[f] = "finished" => subject'[f] \in Notes  BY <1>0 DEF TypeInv, EditsAtWork
    <3> SUFFICES ASSUME NEW f \in Edits, read'[f] = "finished", NEW n \in Notes, n = subject'[f]
                 PROVE  AllTold(n)'
      BY <1>30, <3>0 DEF ReadWhenTold, AllTold, Told
    <3>1. /\ \A g \in Edits \ {e} : epc'[g] = epc[g] /\ subject'[g] = subject[g] /\ read'[g] = read[g]
          /\ ((read'[e] = read[e] /\ subject'[e] = subject[e]) \/ read'[e] = status[subject'[e]])
      BY <1>0, <1>7, EditEffect
    <3>2. CASE f # e
      <4>1. AllTold(n)  BY <3>1, <3>2 DEF MarkInv, ReadWhenTold
      <4> QED BY <1>1, <4>1
    <3>3. CASE f = e /\ read'[e] = status[subject'[e]]
      <4>1. status[n] = "finished"  BY <3>3
      <4> QED BY <1>1, <1>2, <4>1
    <3>4. CASE f = e /\ read'[e] = read[e] /\ subject'[e] = subject[e]
      <4>1. AllTold(n)  BY <2>1, <3>4
      <4> QED BY <1>1, <4>1
    <3> QED BY <3>1, <3>2, <3>3, <3>4
  <2> QED BY <2>2, <2>3
<1>8. ASSUME NEW n \in Notes, Remove(n) \/ Unindex(n) \/ Tick(n)
      PROVE  MarkedWhenTold' /\ ReadWhenTold'
  <2>1. /\ status' = status \/ status' = [status EXCEPT ![n] = "gone"]
        /\ doc' = doc \/ doc' = [doc EXCEPT ![n] = "gone"]
        /\ read' = read /\ subject' = subject
        /\ inbox' = inbox
    BY <1>0, <1>8, OtherEffect, RunsAlone
  <2>2. MarkedWhenTold'  BY <1>0, <1>30, <2>1 DEF MarkInv, MarkedWhenTold, AllTold, Told, TypeOK
  <2>3. ReadWhenTold'  BY <1>30, <2>1 DEF MarkInv, ReadWhenTold, AllTold, Told
  <2> QED BY <2>2, <2>3
<1>9. CASE UNCHANGED vars
  <2>1. UNCHANGED <<status, doc, inbox, read, subject>>  BY <1>9 DEF vars, editVars
  <2>2. MarkedWhenTold'  BY <1>30, <2>1 DEF MarkInv, MarkedWhenTold, AllTold, Told
  <2>3. ReadWhenTold'  BY <1>30, <2>1 DEF MarkInv, ReadWhenTold, AllTold, Told
  <2>4. ToldSoFar'  BY <1>6, <1>9
  <2> QED BY <1>0, <2>2, <2>3, <2>4 DEF MarkInv
<1> QED BY NextCases, <1>0, <1>5, <1>6, <1>7, <1>8, <1>9, TypeInvStep DEF MarkInv

\* What is marked as finished, in its file or in the index, has been stored for every receiver,
\* and names no platform if there is one.
THEOREM MarkedWhenToldAlways == Spec => []MarkedWhenTold
<1>1. MarkInv => MarkedWhenTold  BY DEF MarkInv
<1> QED BY <1>1, InitMarkInv, MarkInvStep, PTL DEF Spec

-----------------------------------------------------------------------------
\* It holds at first.
LEMMA InitFollowInv == Init => FollowInv
<1> SUFFICES ASSUME Init  PROVE FollowInv
  OBVIOUS
<1>1. GoneForGood  BY DEF Init, GoneForGood
<1>2. Followed  BY DEF Init, Followed
<1> QED BY <1>1, <1>2, InitMarkInv DEF FollowInv

\* A deleted file does not come back.
LEMMA GoneStays ==
  ASSUME TypeInv, [Next]_vars, NEW n \in Notes, status[n] = "gone"
  PROVE  status'[n] = "gone"
<1>0. TypeOK  BY DEF TypeInv
<1>1. ASSUME NEW c \in Runs, RunStep(c) \/ Crash(c)  PROVE status'[n] = "gone"
  <2>1. CASE Write(c)  BY <1>0, <2>1 DEF Write, TypeOK
  <2>2. CASE ~Write(c)
    BY <1>1, <2>2 DEF RunStep, Crash, Search, Take, Prepare, Save, Send, Fails, BreaksOff, Load, Read, Index
  <2> QED BY <2>1, <2>2
<1>2. ASSUME NEW e \in Edits, EditStep(e)  PROVE status'[n] = "gone"
  <2>1. \/ status' = status
        \/ status[subject[e]] # "gone" /\ status' = [status EXCEPT ![subject[e]] = read[e]]
    BY <1>2, EditEffect
  <2> QED BY <1>0, <2>1 DEF TypeOK
<1>3. ASSUME NEW m \in Notes, Remove(m) \/ Unindex(m) \/ Tick(m)  PROVE status'[n] = "gone"
  <2>1. status' = status \/ status' = [status EXCEPT ![m] = "gone"]  BY <1>0, <1>3, OtherEffect
  <2> QED BY <1>0, <2>1 DEF TypeOK
<1>4. CASE UNCHANGED vars  BY <1>4 DEF vars
<1> QED BY NextCases, <1>1, <1>2, <1>3, <1>4

\* Every step keeps a deleted request deleted.
LEMMA GoneForGoodStep ==
  ASSUME TypeInv, GoneForGood, [Next]_vars
  PROVE  GoneForGood'
<1>0. TypeOK /\ AtWork  BY DEF TypeInv
<1>1. \A n \in Notes : status[n] = "gone" => status'[n] = "gone"  BY GoneStays
<1>2. ASSUME NEW c \in Runs, RunStep(c) \/ Crash(c)
      PROVE  GoneForGood'
  <2>1. \A n \in Notes : doc'[n] = "gone" => doc[n] = "gone"
    <3>1. CASE Index(c)  BY <1>0, <3>1 DEF Index, TypeOK
    <3>2. CASE ~Index(c)
      BY <1>2, <3>2 DEF RunStep, Crash, Search, Take, Prepare, Save, Send, Fails, BreaksOff, Load, Read, Write
    <3> QED BY <3>1, <3>2
  <2>2. dropping' = dropping  BY <1>0, <1>2, RunAlone DEF editVars
  <2>3. ASSUME NEW o \in Runs \ {c}, pc'[o] = "write", held'[o] = "gone"
        PROVE  status'[note'[o]] = "gone"
    <3>1. pc[o] = "write" /\ held[o] = "gone" /\ note'[o] = note[o]  BY <1>0, <1>2, <2>3, RunAlone
    <3>2. note[o] \in Notes /\ status[note[o]] = "gone"
      BY <1>0, <3>1 DEF GoneForGood, AtWork, Fits, Busy
    <3> QED BY <1>1, <3>1, <3>2
  <2>4. ASSUME pc'[c] = "write", held'[c] = "gone"
        PROVE  status'[note'[c]] = "gone"
    <3>1. CASE Read(c)
      <4>1. note[c] \in Notes /\ held'[c] = status[note[c]] /\ note' = note /\ status' = status
        BY <1>0, <3>1 DEF Read, AtWork, Fits, Busy, TypeOK
      <4> QED BY <2>4, <4>1
    <3>2. CASE ~Read(c)
      <4>1. pc'[c] # "write"
        <5>1. CASE Stop(c)  BY <1>0, <5>1 DEF Stop, Goto, TypeOK
        <5>2. CASE Search(c) \/ Take(c)
          BY <1>0, <5>1, <5>2 DEF Search, Take, Goto, TypeOK
        <5>3. CASE BreaksOff(c) \/ Index(c)
          BY <1>0, <5>3 DEF BreaksOff, Index, Goto, TypeOK
        <5>4. CASE Save(c) \/ Prepare(c)
          <6>1. CASE Stop(c)  BY <5>1, <6>1
          <6>2. CASE ~Stop(c)
            <7>1. pc'[c] = PastSave(c) \/ pc'[c] = PastPrepare(c)
              BY <1>0, <5>4, <6>2, Saved, Prepared DEF Prepare, Dies
            <7> QED BY <7>1, Receivers
          <6> QED BY <6>1, <6>2
        <5>5. CASE Load(c)  BY <1>0, <5>1, <5>5 DEF Load, Dies, Goto, TypeOK
        <5>6. CASE Write(c)
          <6>1. Goto(c, "next") \/ Goto(c, "index")  BY <5>6 DEF Write
          <6> QED BY <1>0, <6>1 DEF Goto, TypeOK
        <5>7. CASE Crash(c)  BY <5>1, <5>7 DEF Crash, Dies
        <5> QED BY <1>2, <3>2, <5>2, <5>3, <5>4, <5>5, <5>6, <5>7 DEF RunStep, Send, Fails
      <4> QED BY <2>4, <4>1
    <3> QED BY <3>1, <3>2
  <2> QED BY <1>1, <2>1, <2>2, <2>3, <2>4, <1>0 DEF GoneForGood, TypeOK
<1>3. ASSUME NEW e \in Edits, EditStep(e)
      PROVE  GoneForGood'
  <2>1. UNCHANGED runVars /\ dropping' = dropping  BY <1>3, RunsAlone, EditEffect
  <2>2. epc[e] # "idle" => read[e] # "gone"  BY DEF TypeInv, EditsAtWork
  <2>3. doc' = doc \/ (epc[e] # "idle" /\ doc' = [doc EXCEPT ![subject[e]] = read[e]])
    BY <1>3, EditEffect
  <2>4. \A n \in Notes : doc'[n] = "gone" => doc[n] = "gone"  BY <1>0, <2>2, <2>3 DEF TypeOK
  <2>5. \A c \in Runs : pc[c] = "write" => note[c] \in Notes  BY <1>0 DEF AtWork, Fits, Busy
  <2> QED BY <1>0, <1>1, <2>1, <2>4, <2>5 DEF GoneForGood, runVars, TypeOK
<1>4. ASSUME NEW n \in Notes, Remove(n) \/ Unindex(n) \/ Tick(n)
      PROVE  GoneForGood'
  <2>1. UNCHANGED runVars  BY <1>4, RunsAlone
  <2>2. \/ doc' = doc
        \/ n \in dropping /\ doc' = [doc EXCEPT ![n] = "gone"]
    BY <1>0, <1>4, OtherEffect
  <2>3. \/ dropping' \subseteq dropping
        \/ status' = [status EXCEPT ![n] = "gone"] /\ dropping' = dropping \cup {n}
    BY <1>0, <1>4, OtherEffect
  <2>4. \A m \in Notes : doc'[m] = "gone" => status[m] = "gone"  BY <1>0, <2>2 DEF TypeOK, GoneForGood
  <2>5. \A m \in dropping' : status'[m] = "gone"
    BY <1>0, <1>1, <2>3 DEF TypeOK, GoneForGood
  <2>6. \A c \in Runs : pc[c] = "write" => note[c] \in Notes  BY <1>0 DEF AtWork, Fits, Busy
  <2> QED BY <1>1, <2>1, <2>4, <2>5, <2>6 DEF GoneForGood, runVars
<1>5. CASE UNCHANGED vars  BY <1>5 DEF vars, runVars, editVars, GoneForGood
<1> QED BY NextCases, <1>2, <1>3, <1>4, <1>5

\* A run lets go of a request only when everybody was told, when it counts as passed, or
\* when it was deleted.
LEMMA LetGo ==
  ASSUME MarkInv, GoneForGood, NEW c \in Runs, RunStep(c) \/ Crash(c)
  PROVE  /\ \A n \in InHand(c) : n \in InHand(c)' \/ AllTold(n) \/ n \in passed' \/ status[n] = "gone"
         /\ passed \subseteq passed'
         /\ searched' = searched \/ (/\ searched' = searched \cup {n \in Notes : phase[n] = "due"}
                                     /\ InHand(c)' = Due /\ InHand(c) = {})
<1>0. TypeOK /\ AtWork /\ Fits(c) /\ None \notin Notes  BY NameAssumption DEF MarkInv, TypeInv, AtWork
<1>1. CASE Dies(c) /\ searched' = searched  BY <1>1 DEF Dies
<1>2. CASE Search(c)
  <2>1. InHand(c) = {}  BY <1>0, <1>2 DEF Search, InHand, Fits, Busy
  <2>2. Due \subseteq Notes /\ note[c] = None /\ note' = note  BY <1>0, <1>2 DEF Search, Due, Fits, Busy
  <2>3. InHand(c)' = Due  BY <1>0, <1>2, <2>2 DEF Search, InHand, TypeOK
  <2> QED BY <1>2, <2>1, <2>3 DEF Search
<1>3. CASE Take(c)
  <2>1. passed' = passed /\ searched' = searched /\ pc[c] = "next"  BY <1>3 DEF Take
  <2>2. CASE todo[c] = {} /\ Stop(c)  BY <1>0, <2>1, <2>2 DEF InHand, Fits, Busy
  <2>3. ASSUME NEW n \in todo[c], todo' = [todo EXCEPT ![c] = @ \ {n}], note' = [note EXCEPT ![c] = n]
        PROVE  InHand(c) \subseteq InHand(c)'
    BY <1>0, <2>1, <2>3 DEF InHand, Fits, Busy, TypeOK
  <2> QED BY <1>3, <2>1, <2>2, <2>3 DEF Take
<1>4. CASE BreaksOff(c)
  <2>1. passed' = passed \cup {note[c]} /\ searched' = searched /\ todo' = todo  BY <1>4 DEF BreaksOff
  <2> QED BY <2>1 DEF InHand
<1>5. CASE Write(c)
  <2>1. passed' = passed /\ searched' = searched /\ todo' = todo /\ pc[c] = "write"  BY <1>5 DEF Write
  <2>2. note[c] \in Notes  BY <1>0, <2>1 DEF Fits, Busy
  <2>3. CASE "gone" \in {held[c], status[note[c]]}
    <3>1. status[note[c]] = "gone"  BY <2>1, <2>3 DEF GoneForGood
    <3> QED BY <2>1, <3>1 DEF InHand
  <2>4. CASE ~("gone" \in {held[c], status[note[c]]})
    <3>1. note' = note  BY <1>5, <2>4 DEF Write
    <3> QED BY <2>1, <3>1 DEF InHand
  <2> QED BY <2>3, <2>4
<1>6. CASE Index(c)
  <2>1. passed' = passed /\ searched' = searched /\ todo' = todo /\ pc[c] = "index"  BY <1>6 DEF Index
  <2>2. AllTold(note[c])  BY <2>1, NobodyLeft
  <2> QED BY <2>1, <2>2 DEF InHand
<1>7. ASSUME todo' = todo, note' = note, passed' = passed, searched' = searched
      PROVE  InHand(c)' = InHand(c) /\ passed' = passed /\ searched' = searched
  BY <1>7 DEF InHand
<1>8. CASE Save(c) \/ Read(c)  BY <1>7, <1>8 DEF Save, Read
<1>9. CASE Prepare(c) \/ Load(c) \/ Crash(c)
  <2>1. searched' = searched  BY <1>9 DEF Prepare, Load, Crash
  <2>2. CASE Dies(c)  BY <1>1, <2>1, <2>2
  <2>3. CASE ~Dies(c)  BY <1>7, <1>9, <2>1, <2>3 DEF Prepare, Load, Crash
  <2> QED BY <2>2, <2>3
<1> QED BY <1>2, <1>3, <1>4, <1>5, <1>6, <1>8, <1>9 DEF RunStep, Send, Fails

\* Every step keeps track of what was searched for.
LEMMA FollowedStep ==
  ASSUME FollowInv, [Next]_vars
  PROVE  Followed'
<1>0. /\ MarkInv /\ TypeInv /\ TypeOK /\ GoneForGood /\ Followed
  BY DEF FollowInv, MarkInv, TypeInv
<1> DEFINE Cared(n) == AllTold(n) \/ n \in passed \/ status[n] = "gone" \/ \E c \in Runs : n \in InHand(c)
<1>1. \A n \in Notes : (AllTold(n) => AllTold(n)') /\ (status[n] = "gone" => status'[n] = "gone")
  BY <1>0, ToldStays, GoneStays
<1>2. ASSUME NEW c \in Runs, RunStep(c) \/ Crash(c)
      PROVE  Followed'
  <2>1. phase' = phase  BY <1>0, <1>2, RunAlone
  <2>2. \A o \in Runs \ {c} : InHand(o)' = InHand(o)  BY <1>0, <1>2, RunAlone DEF InHand
  <2>3. /\ \A n \in InHand(c) : n \in InHand(c)' \/ AllTold(n) \/ n \in passed' \/ status[n] = "gone"
        /\ passed \subseteq passed'
        /\ searched' = searched \/ (/\ searched' = searched \cup {n \in Notes : phase[n] = "due"}
                                    /\ InHand(c)' = Due /\ InHand(c) = {})
    BY <1>0, <1>2, LetGo
  <2>4. ASSUME NEW n \in Notes, Cared(n)  PROVE Cared(n)'
    <3>1. CASE n \in InHand(c)  BY <1>1, <2>3, <3>1
    <3>2. CASE n \notin InHand(c)  BY <1>1, <2>2, <2>3, <2>4, <3>2
    <3> QED BY <3>1, <3>2
  <2>5. \A n \in searched' : Cared(n)'
    <3>1. searched \subseteq Notes /\ \A n \in searched : Cared(n)  BY <1>0 DEF Followed, TypeOK
    <3>2. ASSUME NEW n \in Notes, phase[n] = "due", InHand(c)' = Due  PROVE Cared(n)'
      <4>1. CASE doc[n] = "open"
        <5>1. n \in InHand(c)'  BY <3>2, <4>1 DEF Due
        <5> QED BY <5>1
      <4>2. CASE doc[n] = "gone"
        <5>1. status[n] = "gone"  BY <1>0, <4>2 DEF GoneForGood
        <5> QED BY <2>4, <5>1
      <4>3. CASE doc[n] = "finished"
        <5>1. AllTold(n)  BY <1>0, <4>3 DEF MarkInv, MarkedWhenTold
        <5> QED BY <2>4, <5>1
      <4> QED BY <1>0, <4>1, <4>2, <4>3 DEF TypeOK, Statuses
    <3> HIDE DEF Cared
    <3> QED BY <2>3, <2>4, <3>1, <3>2
  <2>6. searched \subseteq searched'  BY <2>3
  <2> QED BY <1>0, <2>1, <2>5, <2>6 DEF Followed
<1>3. ASSUME \/ \E e \in Edits : EditStep(e)
             \/ \E n \in Notes : Remove(n) \/ Unindex(n) \/ Tick(n)
             \/ UNCHANGED vars
      PROVE  Followed'
  <2>1. searched' = searched /\ passed' = passed /\ UNCHANGED runVars  BY <1>3, RunsAlone
  <2>2. \A n \in Notes : phase'[n] = "over" => phase[n] = "over" \/ n \in searched
    <3>1. ASSUME NEW e \in Edits, EditStep(e)  PROVE phase' = phase  BY <1>0, <3>1, EditEffect
    <3>2. ASSUME NEW n \in Notes, Remove(n) \/ Unindex(n) \/ Tick(n)
          PROVE  \/ phase' = phase \/ phase' = [phase EXCEPT ![n] = "due"]
                 \/ phase' = [phase EXCEPT ![n] = "over"] /\ n \in searched
      BY <1>0, <3>2, OtherEffect
    <3>3. UNCHANGED vars => phase' = phase  BY DEF vars
    <3> QED BY <1>0, <1>3, <3>1, <3>2, <3>3 DEF TypeOK
  <2>3. \A c \in Runs : InHand(c)' = InHand(c)  BY <2>1 DEF runVars, InHand
  <2>4. ASSUME NEW n \in searched  PROVE Cared(n)'
    <3>1. n \in Notes /\ Cared(n)  BY <1>0 DEF Followed, TypeOK
    <3> QED BY <1>1, <2>1, <2>3, <3>1
  <2> QED BY <1>0, <2>1, <2>2, <2>4 DEF Followed
<1> QED BY NextCases, <1>2, <1>3

\* When its time is over and no run is at it, everybody has what a request asks for,
\* unless a run that had found it broke off: at this request or at an earlier one.
THEOREM NotForgottenAlways == Spec => []NotForgotten
<1>1. FollowInv => NotForgotten
  <2> SUFFICES ASSUME FollowInv, NEW n \in Notes, phase[n] = "over", \A c \in Runs : n \notin InHand(c)
               PROVE  AllTold(n) \/ n \in passed \/ status[n] = "gone"
    BY DEF NotForgotten
  <2> QED BY DEF FollowInv, Followed
<1>2. FollowInv /\ [Next]_vars => FollowInv'
  <2> SUFFICES ASSUME FollowInv, [Next]_vars  PROVE FollowInv'
    OBVIOUS
  <2>1. MarkInv /\ TypeInv /\ GoneForGood  BY DEF FollowInv, MarkInv
  <2> QED BY <2>1, FollowedStep, GoneForGoodStep, MarkInvStep DEF FollowInv
<1> QED BY <1>1, <1>2, InitFollowInv, PTL DEF Spec

-----------------------------------------------------------------------------
\* It holds at first.
LEMMA InitOnceInv == Init => OnceInv
<1> SUFFICES ASSUME Init  PROVE OnceInv
  OBVIOUS
<1>1. \A n \in Notes, u \in People : Untold(n, u)  BY DEF Init, Untold
<1>2. \A c \in Runs : InHand(c) = {} /\ todo[c] = {} /\ note[c] = None  BY DEF Init, InHand
<1>3. Apart  BY <1>2 DEF Apart
<1>4. Waiting  BY <1>1 DEF Waiting
<1>5. Telling  BY <1>2, NameAssumption DEF Telling
<1>6. Owned  BY <1>1 DEF Owned
<1>7. ToldOnce  BY <1>1 DEF ToldOnce, Untold
<1> QED BY <1>3, <1>4, <1>5, <1>6, <1>7, InitTypeInv DEF OnceInv

\* What counts as repeated does so for ever; a run's step changes a receiver's count only when
\* the run saves.
LEMMA RunCounts ==
  ASSUME NEW c \in Runs, RunStep(c) \/ Crash(c)
  PROVE  /\ repeated \subseteq repeated'
         /\ inbox' = inbox \/ Save(c)
<1>1. CASE Search(c) \/ Take(c) \/ BreaksOff(c)  BY <1>1 DEF Search, Take, BreaksOff
<1>2. CASE Prepare(c) \/ Load(c) \/ Crash(c)
  <2>1. inbox' = inbox  BY <1>2 DEF Prepare, Load, Crash
  <2>2. CASE Dies(c)  BY <2>1, <2>2 DEF Dies
  <2>3. CASE ~Dies(c)  BY <1>2, <2>1, <2>3 DEF Prepare, Load, Crash
  <2> QED BY <2>2, <2>3
<1>3. CASE Save(c)  BY <1>3 DEF Save
<1>4. CASE Read(c) \/ Index(c)  BY <1>4 DEF Read, Index
<1>5. CASE Write(c)
  <2>1. repeated' = repeated \/ repeated' = repeated \cup {note[c]}  BY <1>5 DEF Write
  <2> QED BY <1>5, <2>1 DEF Write
<1> QED BY <1>1, <1>2, <1>3, <1>4, <1>5 DEF RunStep, Send, Fails

\* A run takes requests in hand by a search only, and one that another run
\* has already counts as repeated from then on.
LEMMA TakesInHand ==
  ASSUME TypeInv, NEW c \in Runs, RunStep(c) \/ Crash(c)
  PROVE  \/ InHand(c)' \subseteq InHand(c) /\ todo'[c] \subseteq todo[c]
         \/ /\ Search(c) /\ InHand(c) = {} /\ todo'[c] = Due /\ InHand(c)' = Due
            /\ \A o \in Runs \ {c} : Due \cap InHand(o) \subseteq repeated'
<1>0. TypeOK /\ AtWork /\ Fits(c) /\ None \notin Notes  BY NameAssumption DEF TypeInv, AtWork
<1>1. CASE Search(c)
  <2>1. InHand(c) = {} /\ note[c] = None /\ note' = note  BY <1>0, <1>1 DEF Search, InHand, Fits, Busy
  <2>2. Due \subseteq Notes /\ todo'[c] = Due  BY <1>0, <1>1 DEF Search, Due, TypeOK
  <2>3. InHand(c)' = Due  BY <2>1, <2>2 DEF InHand
  <2>4. ASSUME NEW o \in Runs \ {c}  PROVE Due \cap InHand(o) \subseteq repeated'
    <3>1. CASE Working(o)  BY <1>1, <3>1 DEF Search
    <3>2. CASE ~Working(o)
      <4>1. InHand(o) = {}  BY <1>0, <3>2 DEF Working, AtWork, Fits, Busy, InHand
      <4> QED BY <4>1
    <3> QED BY <3>1, <3>2
  <2> QED BY <1>1, <2>1, <2>2, <2>3, <2>4
<1>2. CASE Stop(c)
  <2>1. todo'[c] = {} /\ note'[c] = None  BY <1>0, <1>2 DEF Stop, TypeOK
  <2> QED BY <2>1 DEF InHand
<1>3. CASE Take(c) /\ ~Stop(c)
  <2>1. PICK n \in todo[c] : todo' = [todo EXCEPT ![c] = @ \ {n}] /\ note' = [note EXCEPT ![c] = n]
    BY <1>3 DEF Take
  <2>2. todo'[c] = todo[c] \ {n} /\ note'[c] = n  BY <1>0, <2>1 DEF TypeOK
  <2> QED BY <2>2 DEF InHand
<1>4. CASE todo' = todo /\ (note' = note \/ note' = [note EXCEPT ![c] = None])
  <2>1. todo'[c] = todo[c] /\ note'[c] \in {note[c], None}  BY <1>0, <1>4 DEF TypeOK
  <2> QED BY <2>1 DEF InHand
<1>5. Prepare(c) \/ Load(c) \/ Crash(c) => Stop(c) \/ (todo' = todo /\ note' = note)
  BY DEF Prepare, Load, Crash, Dies
<1>6. Save(c) \/ Read(c) => todo' = todo /\ note' = note
  BY DEF Save, Read
<1>7. BreaksOff(c) \/ Write(c) \/ Index(c) => todo' = todo /\ (note' = note \/ note' = [note EXCEPT ![c] = None])
  BY DEF BreaksOff, Write, Index
<1> QED BY <1>1, <1>2, <1>3, <1>4, <1>5, <1>6, <1>7 DEF RunStep, Send, Fails

\* The run that takes the step: what it knows of its receivers
LEMMA TellingRun ==
  ASSUME OnceInv, NEW c \in Runs, RunStep(c) \/ Crash(c),
         NEW n \in Notes \ repeated', note'[c] = n, NEW u \in People
  PROVE  pc'[c] = "prepare" \/ u \in left'[c] => inbox'[n][u] = 0
<1>0. /\ TypeInv /\ TypeOK /\ AtWork /\ AtWork' /\ Fits(c) /\ Fits(c)' /\ None \notin Notes /\ n \notin repeated
  BY NameAssumption, AtWorkRun, RunCounts DEF OnceInv, TypeInv, AtWork
<1>1. pc'[c] \in Busy  BY <1>0 DEF Fits
<1>2. pc'[c] \in {"save", "send"} \/ left'[c] = {}  BY <1>0 DEF Fits
<1>3. CASE Take(c)
  <2>1. pc[c] = "next" /\ inbox' = inbox /\ ~Stop(c)
    <3>1. ~Stop(c)  BY <1>0, <1>1 DEF Stop, Goto, TypeOK, Busy
    <3> QED BY <1>3, <3>1 DEF Take
  <2>2. PICK m \in todo[c] : note' = [note EXCEPT ![c] = m] /\ Goto(c, "prepare")  BY <1>3, <2>1 DEF Take
  <2>3. n \in todo[c] /\ pc'[c] = "prepare"  BY <1>0, <2>2 DEF TypeOK, Goto
  <2>4. Untold(n, u)  BY <1>0, <2>3 DEF OnceInv, Waiting
  <2> QED BY <1>2, <2>1, <2>3, <2>4 DEF Untold
<1>4. CASE Prepare(c)
  <2>1. note' = note /\ pc[c] = "prepare" /\ inbox' = inbox
    <3>1. ~Dies(c)  BY <1>0, <1>1 DEF Dies, Stop, Goto, TypeOK, Busy
    <3> QED BY <1>0, <1>4, <3>1 DEF Prepare, Goto, TypeOK
  <2>2. Untold(n, u)  BY <1>0, <2>1 DEF OnceInv, Telling
  <2> QED BY <2>1, <2>2 DEF Untold
<1>5. CASE Save(c)
  <2>1. note' = note /\ pc[c] = "save" /\ pc'[c] = PastSave(c) /\ note[c] = n  BY <1>0, <1>5, Saved
  <2>2. PICK w \in left[c] :
          /\ left'[c] = left[c] \ {w}
          /\ inbox'[n][u] = IF n = note[c] /\ u = w THEN inbox[n][u] + 1 ELSE inbox[n][u]
    BY <1>0, <1>5, Stored
  <2>3. pc'[c] # "prepare"  BY <2>1, Receivers
  <2>4. u \in left'[c] => Untold(n, u) /\ u # w  BY <1>0, <2>1, <2>2 DEF OnceInv, Telling
  <2> QED BY <2>2, <2>3, <2>4 DEF Untold
<1>7. ASSUME pc'[c] \in {"read", "write", "index"}
      PROVE  left'[c] = {} /\ pc'[c] # "prepare"
  BY <1>2, <1>7
<1>8. CASE Load(c) \/ Read(c) \/ Write(c)
  <2>1. ~Stop(c)  BY <1>0, <1>1 DEF Stop, Goto, TypeOK, Busy
  <2>2. pc'[c] \in {"read", "write", "index"}
    <3>1. Goto(c, "read") \/ Goto(c, "write") \/ Goto(c, "index") \/ Goto(c, "next")
      BY <1>8, <2>1 DEF Load, Read, Write, Dies
    <3> QED BY <1>0, <1>1, <3>1 DEF Goto, TypeOK, Busy
  <2> QED BY <1>7, <2>2
<1>9. CASE Search(c) \/ BreaksOff(c) \/ Index(c) \/ Crash(c)
  <2>1. pc'[c] \in {"next", "done"}
    BY <1>0, <1>9 DEF Search, BreaksOff, Index, Crash, Dies, Stop, Goto, TypeOK
  <2> QED BY <1>1, <2>1 DEF Busy
<1> QED BY <1>3, <1>4, <1>5, <1>8, <1>9 DEF RunStep, Send, Fails

\* A request that a run has lost without marking it counts as repeated.
LEMMA LostAtWork ==
  ASSUME TypeInv, NEW c \in Runs, RunStep(c) \/ Crash(c), note[c] \in Notes
  PROVE  note'[c] = note[c] \/ note[c] \in repeated' \/ doc'[note[c]] = "finished"
<1>0. TypeOK /\ Fits(c) /\ None \notin Notes  BY NameAssumption DEF TypeInv, AtWork
<1>1. pc[c] \in Busy  BY <1>0 DEF Fits
<1>2. CASE Dies(c)  BY <1>0, <1>2 DEF Dies
<1>3. CASE BreaksOff(c)  BY <1>3 DEF BreaksOff
<1>4. CASE Write(c)
  <2>1. note' = note \/ repeated' = repeated \cup {note[c]}  BY <1>4 DEF Write
  <2> QED BY <2>1
<1>5. CASE Index(c)
  <2>1. doc' = [doc EXCEPT ![note[c]] = "finished"]  BY <1>5 DEF Index
  <2> QED BY <1>0, <2>1 DEF TypeOK
<1>6. CASE Search(c) \/ Take(c)  BY <1>1, <1>6 DEF Search, Take, Busy
<1>7. CASE Prepare(c) \/ Load(c) \/ Crash(c)  BY <1>2, <1>7 DEF Prepare, Load, Crash
<1>8. CASE Save(c) \/ Read(c)  BY <1>8 DEF Save, Read
<1> QED BY <1>3, <1>4, <1>5, <1>6, <1>7, <1>8 DEF RunStep, Send, Fails

\* A step of a run tells nobody twice.
LEMMA OnceRun ==
  ASSUME OnceInv, NEW c \in Runs, RunStep(c) \/ Crash(c)
  PROVE  Apart' /\ Waiting' /\ Telling' /\ Owned' /\ ToldOnce'
<1>0. /\ TypeInv /\ TypeOK /\ AtWork /\ AtWork' /\ None \notin Notes
      /\ repeated \subseteq repeated'
  BY NameAssumption, AtWorkRun, RunCounts DEF OnceInv, TypeInv, AtWork
<1>1. ASSUME NEW o \in Runs \ {c}
      PROVE  /\ InHand(o)' = InHand(o) /\ pc'[o] = pc[o] /\ todo'[o] = todo[o] /\ note'[o] = note[o]
             /\ left'[o] = left[o]
  BY <1>0, RunAlone DEF InHand
<1>2. \/ InHand(c)' \subseteq InHand(c) /\ todo'[c] \subseteq todo[c]
      \/ /\ Search(c) /\ InHand(c) = {} /\ todo'[c] = Due /\ InHand(c)' = Due
         /\ \A o \in Runs \ {c} : Due \cap InHand(o) \subseteq repeated'
  BY <1>0, TakesInHand
<1>3. ASSUME NEW n \in Notes \ repeated', NEW u \in People, inbox'[n][u] # inbox[n][u]
      PROVE  note[c] = n /\ note'[c] = n /\ inbox'[n][u] <= 1
  <2>1. Save(c) /\ n \notin repeated  BY <1>0, <1>3, RunCounts
  <2>2. PICK w \in left[c] :
          inbox'[n][u] = IF n = note[c] /\ u = w THEN inbox[n][u] + 1 ELSE inbox[n][u]
    BY <1>0, <2>1, Stored
  <2>3. n = note[c] /\ u = w /\ inbox'[n][u] = inbox[n][u] + 1  BY <1>3, <2>2
  <2>4. Untold(n, u)  BY <2>1, <2>3 DEF OnceInv, Telling
  <2> QED BY <1>0, <2>1, <2>3, <2>4, Saved DEF Untold
<1>4. Apart'
  <2> SUFFICES ASSUME NEW n \in Notes \ repeated', NEW d \in Runs, NEW o \in Runs,
                      n \in InHand(d)', n \in InHand(o)', d # o
               PROVE  FALSE
    BY DEF Apart
  <2>1. n \notin repeated  BY <1>0
  <2>2. CASE InHand(c)' \subseteq InHand(c)
    <3>1. n \in InHand(d) /\ n \in InHand(o)  BY <1>1, <2>2
    <3> QED BY <2>1, <3>1 DEF OnceInv, Apart
  <2>3. CASE InHand(c)' = Due /\ \A p \in Runs \ {c} : Due \cap InHand(p) \subseteq repeated'
    <3>1. CASE d # c /\ o # c
      <4>1. n \in InHand(d) /\ n \in InHand(o)  BY <1>1, <3>1
      <4> QED BY <2>1, <4>1 DEF OnceInv, Apart
    <3>2. CASE d = c
      <4>1. n \in Due /\ n \in InHand(o)  BY <1>1, <2>3, <3>2
      <4> QED BY <2>3, <3>2, <4>1
    <3>3. CASE o = c
      <4>1. n \in Due /\ n \in InHand(d)  BY <1>1, <2>3, <3>3
      <4> QED BY <2>3, <3>3, <4>1
    <3> QED BY <3>1, <3>2, <3>3
  <2> QED BY <1>2, <2>2, <2>3
<1>5. Waiting'
  <2> SUFFICES ASSUME NEW n \in Notes \ repeated', NEW d \in Runs, n \in todo'[d], NEW u \in People
               PROVE  Untold(n, u)'
    BY DEF Waiting
  <2>1. n \notin repeated  BY <1>0
  <2>2. CASE n \in todo[d]
    <3>1. Untold(n, u)  BY <2>1, <2>2 DEF OnceInv, Waiting
    <3>2. note[c] # n
      <4> SUFFICES ASSUME note[c] = n  PROVE FALSE
        OBVIOUS
      <4>1. n \in InHand(c) /\ n \in InHand(d)  BY <1>0, <2>2 DEF InHand
      <4>2. d = c  BY <2>1, <4>1 DEF OnceInv, Apart
      <4> QED BY <1>0, <2>2, <4>2 DEF AtWork, Fits
    <3> QED BY <1>3, <3>1, <3>2 DEF Untold
  <2>3. CASE n \notin todo[d]
    <3>1. d = c  BY <1>1, <2>3
    <3>2. Search(c) /\ InHand(c) = {} /\ n \in Due /\ \A o \in Runs \ {c} : Due \cap InHand(o) \subseteq repeated'
      BY <1>2, <2>3, <3>1
    <3>3. doc[n] = "open" /\ inbox' = inbox  BY <3>2 DEF Search, Due
    <3>4. ASSUME NEW o \in Runs, note[o] = n  PROVE FALSE
      <4>1. n \in InHand(o)  BY <1>0, <3>4 DEF InHand
      <4> QED BY <3>2, <4>1
    <3>5. Untold(n, u)  BY <2>1, <3>3, <3>4 DEF OnceInv, Owned
    <3> QED BY <3>3, <3>5 DEF Untold
  <2> QED BY <2>2, <2>3
<1>6. Telling'
  <2> SUFFICES ASSUME NEW d \in Runs, NEW n \in Notes \ repeated', note'[d] = n, NEW u \in People
               PROVE  pc'[d] = "prepare" \/ u \in left'[d] => inbox'[n][u] = 0
    BY DEF Telling, Untold
  <2>1. CASE d = c  BY <2>1, TellingRun
  <2>2. CASE d # c
    <3>1. note[d] = n /\ n \notin repeated  BY <1>0, <1>1, <2>2
    <3>2. note[c] # n
      <4> SUFFICES ASSUME note[c] = n  PROVE FALSE
        OBVIOUS
      <4>1. n \in InHand(c) /\ n \in InHand(d)  BY <1>0, <3>1 DEF InHand
      <4> QED BY <2>2, <3>1, <4>1 DEF OnceInv, Apart
    <3>3. inbox'[n][u] = inbox[n][u]  BY <1>3, <3>2
    <3>4. pc[d] = "prepare" \/ u \in left[d] => Untold(n, u)  BY <3>1 DEF OnceInv, Telling
    <3> QED BY <1>1, <2>2, <3>3, <3>4 DEF Untold
  <2> QED BY <2>1, <2>2
<1>7. Owned'
  <2> SUFFICES ASSUME NEW n \in Notes \ repeated', doc'[n] = "open", NEW u \in People, ~Untold(n, u)'
               PROVE  \E o \in Runs : note'[o] = n
    BY DEF Owned, Untold
  <2>1. doc[n] = "open" /\ n \notin repeated
    <3>1. doc' = doc \/ (Index(c) /\ doc' = [doc EXCEPT ![note[c]] = "finished"])
      BY DEF RunStep, Crash, Search, Take, Prepare, Save, Send, Fails, BreaksOff, Load, Read, Write, Index
    <3> QED BY <1>0, <3>1 DEF TypeOK
  <2>2. CASE Untold(n, u)  BY <1>3, <2>2 DEF Untold
  <2>3. CASE ~Untold(n, u)
    <3>1. PICK o \in Runs : note[o] = n  BY <2>1, <2>3 DEF OnceInv, Owned
    <3>2. CASE o # c  BY <1>1, <3>1, <3>2
    <3>3. CASE o = c  BY <1>0, <3>1, <3>3, LostAtWork
    <3> QED BY <3>2, <3>3
  <2> QED BY <2>2, <2>3
<1>8. ToldOnce'  BY <1>0, <1>3 DEF OnceInv, ToldOnce
<1> QED BY <1>4, <1>5, <1>6, <1>7, <1>8

\* No step tells anybody twice.
LEMMA OnceInvStep ==
  ASSUME OnceInv, [Next]_vars
  PROVE  OnceInv'
<1>0. TypeInv /\ TypeOK /\ TypeInv'  BY TypeInvStep DEF OnceInv, TypeInv
<1>1. ASSUME UNCHANGED <<runVars, inbox>>, repeated \subseteq repeated',
             \A n \in Notes \ repeated' : doc'[n] = "open" => doc[n] = "open"
      PROVE  OnceInv'
  <2>1. \A o \in Runs : InHand(o)' = InHand(o)
    BY <1>1 DEF runVars, InHand
  <2>2. Apart'  BY <1>1, <2>1 DEF OnceInv, Apart
  <2>3. Waiting'  BY <1>1 DEF OnceInv, Waiting, Untold, runVars
  <2>4. Telling'  BY <1>1, <2>1 DEF OnceInv, Telling, Untold, runVars
  <2>5. Owned'  BY <1>1 DEF OnceInv, Owned, Untold, runVars
  <2>6. ToldOnce'  BY <1>1 DEF OnceInv, ToldOnce
  <2> QED BY <1>0, <2>2, <2>3, <2>4, <2>5, <2>6 DEF OnceInv
<1>2. ASSUME NEW c \in Runs, RunStep(c) \/ Crash(c)  PROVE OnceInv'
  BY <1>0, <1>2, OnceRun DEF OnceInv
<1>3. ASSUME NEW e \in Edits, EditStep(e)  PROVE OnceInv'
  <2>1. UNCHANGED <<runVars, inbox>>  BY <1>3, RunsAlone
  <2>2. /\ repeated \subseteq repeated'
        /\ doc' = doc \/ (/\ doc' = [doc EXCEPT ![subject[e]] = read[e]]
                          /\ Reopens(subject[e], doc[subject[e]], read[e]))
    BY <1>0, <1>3, EditEffect
  <2>3. \A n \in Notes \ repeated' : doc'[n] = "open" => doc[n] = "open"
    BY <1>0, <2>2 DEF Reopens, TypeOK
  <2> QED BY <1>1, <2>1, <2>2, <2>3
<1>4. ASSUME NEW n \in Notes, Remove(n) \/ Unindex(n) \/ Tick(n)  PROVE OnceInv'
  <2>1. UNCHANGED <<runVars, inbox>>  BY <1>4, RunsAlone
  <2>2. repeated' = repeated /\ (doc' = doc \/ doc' = [doc EXCEPT ![n] = "gone"])
    BY <1>0, <1>4, OtherEffect
  <2>3. \A m \in Notes \ repeated' : doc'[m] = "open" => doc[m] = "open"  BY <1>0, <2>2 DEF TypeOK
  <2> QED BY <1>1, <2>1, <2>2, <2>3
<1>5. CASE UNCHANGED vars  BY <1>1, <1>5 DEF vars
<1> QED BY NextCases, <1>2, <1>3, <1>4, <1>5

\* Nobody has two notifications of a request, unless a run broke off while it stored, sent
\* or marked it, two runs had it at once, it was deleted at the time, or an edit
\* that had loaded it before it was finished opened it again.
THEOREM ToldOnceAlways == Spec => []ToldOnce
<1>1. OnceInv => ToldOnce  BY DEF OnceInv
<1> QED BY <1>1, InitOnceInv, OnceInvStep, PTL DEF Spec

(***************************************************************************)
(* The WebSocket server                                                    *)
(***************************************************************************)
Stages == {"new", "accept", "hello", "loop", "end"}

\* A connection whose task runs
Live(s) == place[s] \in {"accept", "hello", "loop"}

SocketTypes ==
  /\ active \in [Users -> Sockets \cup {Absent}]
  /\ owner \in [Sockets -> Users \cup {Absent}]
  /\ place \in [Sockets -> Stages]
  /\ \A s \in Sockets : place[s] # "new" => owner[s] \in Users

\* Two connections of a user at the same time are both known to be.
Shadowing ==
  \A s, x \in Sockets : s # x /\ Live(s) /\ Live(x) /\ owner[s] = owner[x] => s \in shadowed

\* From its registration on a connection that was always alone is the registered one.
Home == \A s \in Sockets : place[s] \in {"hello", "loop"} /\ s \notin shadowed => active[owner[s]] = s

SocketInv == SocketTypes /\ Shadowing /\ Home

\* At first there are no connections.
LEMMA InitSocketInv == ServerInit => SocketInv
BY DEF ServerInit, SocketInv, SocketTypes, Shadowing, Home, Live, Stages

\* A new connection: those of the same user are shadowed from now on, as it is.
LEMMA ConnectSocketInv ==
  ASSUME SocketInv, NEW s \in Sockets, NEW u \in Users, Connect(s, u)
  PROVE  SocketInv'
<1> DEFINE same == {x \in Sockets : owner[x] = u /\ place[x] \notin {"new", "end"}}
<1>1. /\ place[s] = "new" /\ owner' = [owner EXCEPT ![s] = u] /\ place' = [place EXCEPT ![s] = "accept"]
      /\ shadowed' = shadowed \cup same \cup (IF same = {} THEN {} ELSE {s})
      /\ active' = active
  BY DEF Connect
<1>2. SocketTypes'  BY <1>1 DEF SocketInv, SocketTypes, Stages
<1>3. /\ \A x \in Sockets \ {s} : owner'[x] = owner[x] /\ place'[x] = place[x]
      /\ owner'[s] = u /\ place'[s] = "accept"
  BY <1>1 DEF SocketInv, SocketTypes
<1>4. Shadowing'
  <2> SUFFICES ASSUME NEW y \in Sockets, NEW x \in Sockets, y # x, Live(y)', Live(x)', owner'[y] = owner'[x]
               PROVE  y \in shadowed'
    BY DEF Shadowing
  <2>1. CASE y # s /\ x # s  BY <1>1, <1>3, <2>1 DEF SocketInv, Shadowing, Live
  <2>2. CASE y = s
    <3>1. x \in same  BY <1>3, <2>2 DEF Live
    <3> QED BY <1>1, <2>2, <3>1
  <2>3. CASE x = s
    <3>1. y \in same  BY <1>3, <2>3 DEF Live
    <3> QED BY <1>1, <3>1
  <2> QED BY <2>1, <2>2, <2>3
<1>5. Home'  BY <1>1, <1>3 DEF SocketInv, Home
<1> QED BY <1>2, <1>4, <1>5 DEF SocketInv

\* A registration: the others of the same user lose theirs, and they are shadowed.
LEMMA RegisterSocketInv ==
  ASSUME SocketInv, NEW s \in Sockets, Register(s)
  PROVE  SocketInv'
<1>1. /\ place[s] = "accept" /\ active' = [active EXCEPT ![owner[s]] = s]
      /\ place' = [place EXCEPT ![s] = "hello"] /\ UNCHANGED <<owner, shadowed>>
  BY DEF Register
<1>2. owner[s] \in Users  BY <1>1 DEF SocketInv, SocketTypes
<1>3. SocketTypes'  BY <1>1, <1>2 DEF SocketInv, SocketTypes, Stages
<1>4. place'[s] = "hello" /\ \A x \in Sockets \ {s} : place'[x] = place[x]  BY <1>1 DEF SocketInv, SocketTypes
<1>5. Shadowing'  BY <1>1, <1>4 DEF SocketInv, Shadowing, Live
<1>6. Home'
  <2> SUFFICES ASSUME NEW x \in Sockets, place'[x] \in {"hello", "loop"}, x \notin shadowed
               PROVE  active'[owner[x]] = x
    BY <1>1 DEF Home
  <2>1. CASE x = s  BY <1>1, <1>2, <2>1 DEF SocketInv, SocketTypes
  <2>2. CASE x # s
    <3>1. place[x] \in {"hello", "loop"} /\ owner[x] \in Users  BY <1>4, <2>2 DEF SocketInv, SocketTypes
    <3>2. owner[x] # owner[s]  BY <1>1, <2>2, <3>1 DEF SocketInv, Shadowing, Live
    <3>3. active[owner[x]] = x  BY <3>1 DEF SocketInv, Home
    <3> QED BY <1>1, <3>1, <3>2, <3>3 DEF SocketInv, SocketTypes
  <2> QED BY <2>1, <2>2
<1> QED BY <1>3, <1>5, <1>6 DEF SocketInv

\* An end takes a registration away that may be another's: of one that is shadowed.
LEMMA DisconnectSocketInv ==
  ASSUME SocketInv, NEW s \in Sockets, Disconnect(s)
  PROVE  SocketInv'
<1>1. /\ place[s] = "loop" /\ active' = [active EXCEPT ![owner[s]] = Absent]
      /\ place' = [place EXCEPT ![s] = "end"] /\ UNCHANGED <<owner, shadowed>>
  BY DEF Disconnect
<1>2. owner[s] \in Users  BY <1>1 DEF SocketInv, SocketTypes
<1>3. SocketTypes'  BY <1>1, <1>2 DEF SocketInv, SocketTypes, Stages
<1>4. place'[s] = "end" /\ \A x \in Sockets \ {s} : place'[x] = place[x]  BY <1>1 DEF SocketInv, SocketTypes
<1>5. Shadowing'  BY <1>1, <1>4 DEF SocketInv, Shadowing, Live
<1>6. Home'
  <2> SUFFICES ASSUME NEW x \in Sockets, place'[x] \in {"hello", "loop"}, x \notin shadowed
               PROVE  active'[owner[x]] = x
    BY <1>1 DEF Home
  <2>1. x # s /\ place[x] \in {"hello", "loop"}  BY <1>4
  <2>2. owner[x] \in Users /\ owner[x] # owner[s]
    BY <1>1, <2>1 DEF SocketInv, SocketTypes, Shadowing, Live
  <2>3. active[owner[x]] = x  BY <2>1 DEF SocketInv, Home
  <2> QED BY <1>1, <2>2, <2>3 DEF SocketInv, SocketTypes
<1> QED BY <1>3, <1>5, <1>6 DEF SocketInv

\* A task that goes on from its confirmation, or ends, keeps the registrations as they are.
LEMMA TaskSocketInv ==
  ASSUME SocketInv, NEW s \in Sockets, NEW l \in Stages, place' = [place EXCEPT ![s] = l],
         \/ place[s] \in {"hello", "loop"} /\ l = "loop"
         \/ place[s] # "new" /\ l = "end",
         UNCHANGED <<active, owner, shadowed>>
  PROVE  SocketInv'
<1>1. place'[s] = l /\ \A x \in Sockets \ {s} : place'[x] = place[x]  BY DEF SocketInv, SocketTypes
<1>2. SocketTypes'  BY <1>1 DEF SocketInv, SocketTypes, Stages
<1>3. Shadowing'  BY <1>1 DEF SocketInv, Shadowing, Live
<1>4. Home'  BY <1>1 DEF SocketInv, Home
<1> QED BY <1>2, <1>3, <1>4 DEF SocketInv

\* Steps that leave the connections alone
LEMMA SameSocketInv ==
  ASSUME SocketInv, UNCHANGED <<active, owner, place, shadowed>>
  PROVE  SocketInv'
BY DEF SocketInv, SocketTypes, Shadowing, Home, Live

\* A message ends a task or changes nothing of the connections.
LEMMA AskSocketInv ==
  ASSUME SocketInv, NEW s \in Sockets, NEW known, Ask(s, known)
  PROVE  SocketInv'
<1>1. CASE known
  BY <1>1, SameSocketInv DEF Ask
<1>2. CASE ~known
  <2>1. /\ place' = [place EXCEPT ![s] = "end"] /\ place[s] = "loop"
        /\ UNCHANGED <<active, owner, shadowed>>
    BY <1>2 DEF Ask
  <2> QED BY <2>1, TaskSocketInv DEF Stages
<1> QED BY <1>1, <1>2

\* Every step keeps it.
LEMMA StepSocketInv == SocketInv /\ [ServerNext]_serverVars => SocketInv'
<1> SUFFICES ASSUME SocketInv, [ServerNext]_serverVars PROVE SocketInv'  OBVIOUS
<1>1. CASE UNCHANGED serverVars  BY <1>1, SameSocketInv DEF serverVars, socketVars
<1>2. ASSUME NEW s \in Sockets, NEW u \in Users, Connect(s, u) PROVE SocketInv'  BY <1>2, ConnectSocketInv
<1>3. ASSUME NEW s \in Sockets, Register(s) PROVE SocketInv'  BY <1>3, RegisterSocketInv
<1>4. ASSUME NEW s \in Sockets, Hello(s) PROVE SocketInv'
  <2>1. PICK l \in {"loop", "end"} : place' = [place EXCEPT ![s] = l]  BY <1>4 DEF Hello
  <2>2. place[s] = "hello" /\ UNCHANGED <<active, owner, shadowed>>  BY <1>4 DEF Hello
  <2> QED BY <2>1, <2>2, TaskSocketInv DEF Stages
<1>5. ASSUME NEW s \in Sockets, Drop(s) PROVE SocketInv'  BY <1>5, SameSocketInv DEF Drop
<1>6. ASSUME NEW s \in Sockets, Disconnect(s) PROVE SocketInv'  BY <1>6, DisconnectSocketInv
<1>7. ASSUME NEW s \in Sockets, (\E c \in Wanted : Subscribe(s, c)) \/ Unsubscribe(s) \/ BadMessage(s)
      PROVE  SocketInv'
  <2>1. Ask(s, Registered(s)) \/ Ask(s, FALSE)  BY <1>7 DEF Subscribe, Unsubscribe, BadMessage
  <2>2. Registered(s) \in BOOLEAN  BY DEF Registered
  <2> QED BY <2>1, <2>2, AskSocketInv
<1>8. ASSUME NEW b \in Posts,
             \/ \E e \in Events : Post(b, e)
             \/ SendNext(b)
             \/ \E c \in rest[b] : \E before \in SUBSET (rest[b] \ {c}) : SendFirst(b, c, before)
             \/ Finish(b)
      PROVE  SocketInv'
  BY <1>8, SameSocketInv DEF Post, SendNext, SendFirst, Finish, socketVars
<1> QED BY <1>1, <1>2, <1>3, <1>4, <1>5, <1>6, <1>7, <1>8 DEF ServerNext

\* A connection whose messages are read is the registered one of its user, unless the user
\* had another at the same time.
THEOREM ReachableAlways == ServerSpec => []Reachable
<1>1. SocketInv => Reachable  BY DEF SocketInv, Home, Reachable, Registered
<1> QED BY <1>1, InitSocketInv, StepSocketInv, PTL DEF ServerSpec

(***************************************************************************)
(* Broadcasts.  A user has one place in one list at most.  To that of a    *)
(* subscriber who was there throughout the walk has yet to come (Expected) *)
(* or it has been there.  A list moves when somebody leaves it, and it is  *)
(* the next one in it who is missed if that was before him.                *)
(***************************************************************************)
\* A set of numbers that is not empty has a smallest.
LEMMA Smallest ==
  ASSUME NEW P \in SUBSET Nat, P # {}
  PROVE  \E i \in P : \A j \in P : i <= j
<1> DEFINE R == OpToRel(<, Nat)
<1>1. IsWellFoundedOn(R, Nat)
  BY NatLessThanWellFounded
<1>2. \A x, y \in Nat : x < y => <<x, y>> \in R
  BY DEF OpToRel
<1> HIDE DEF R
<1>3. PICK i \in P : \A j \in P : ~(<<j, i>> \in R)
  BY <1>1, WFMin
<1>4. ASSUME NEW j \in P PROVE i <= j
  <2>1. i \in Nat /\ j \in Nat
    OBVIOUS
  <2>2. ~(j < i)
    BY <1>2, <1>3, <2>1
  <2> QED BY <2>1, <2>2
<1> QED BY <1>4

\* What is left of a list without the first place of somebody in it
LEMMA RemoveFacts ==
  ASSUME NEW S, NEW list \in Seq(S), NEW e, NEW k \in 1..Len(list), list[k] = e,
         \A j \in 1..(k - 1) : list[j] # e
  PROVE  /\ Seqs!RemoveFirst(list, e) \in Seq(S) /\ Len(Seqs!RemoveFirst(list, e)) = Len(list) - 1
         /\ \A j \in 1..(Len(list) - 1) :
              Seqs!RemoveFirst(list, e)[j] = IF j < k THEN list[j] ELSE list[j + 1]
<1> DEFINE I == {i \in 1..Len(list) : list[i] = e}
<1>1. Seqs!SelectInSeq(list, LAMBDA v : v = e) = Seqs!Min(I)
  BY DEF Seqs!SelectInSeq
<1>2. Seqs!Min(I) = k
  BY DEF Seqs!Min
<1>3. Seqs!RemoveFirst(list, e) = SubSeq(list, 1, k - 1) \o SubSeq(list, k + 1, Len(list))
  BY <1>1, <1>2 DEF Seqs!RemoveFirst, Seqs!RemoveAt
<1> DEFINE front == SubSeq(list, 1, k - 1)
           tail == SubSeq(list, k + 1, Len(list))
<1>4. /\ front \in Seq(S) /\ Len(front) = k - 1
      /\ \A j \in 1..(k - 1) : front[j] = list[j]
  OBVIOUS
<1>5. /\ tail \in Seq(S) /\ Len(tail) = Len(list) - k
      /\ \A j \in 1..(Len(list) - k) : tail[j] = list[k + j]
  OBVIOUS
<1> HIDE DEF front, tail
<1>6. /\ front \o tail \in Seq(S) /\ Len(front \o tail) = Len(list) - 1
  BY <1>4, <1>5
<1>7. ASSUME NEW j \in 1..(Len(list) - 1)
      PROVE  (front \o tail)[j] = IF j < k THEN list[j] ELSE list[j + 1]
  <2>1. CASE j < k
    BY <1>4, <1>5, <2>1
  <2>2. CASE ~(j < k)
    <3>1. j - (k - 1) \in 1..(Len(list) - k) /\ k + (j - (k - 1)) = j + 1
      BY <2>2
    <3>2. j > Len(front) /\ j <= Len(front) + Len(tail)
      BY <1>4, <1>5, <2>2
    <3>3. (front \o tail)[j] = tail[j - Len(front)]
      BY <1>4, <1>5, <3>2
    <3>4. tail[j - (k - 1)] = list[k + (j - (k - 1))]
      BY <1>5, <3>1
    <3> QED BY <1>4, <2>2, <3>1, <3>3, <3>4
  <2> QED BY <2>1, <2>2
<1> QED BY <1>3, <1>6, <1>7 DEF front, tail
\* The types of what a broadcast needs
PostTypes ==
  /\ alive \subseteq Sockets
  /\ subs \in [Wanted -> Seq(Users)]
  /\ post \in [Posts -> {"idle", "walk", "done", "failed"}]
  /\ rest \in [Posts -> SUBSET Wanted]
  /\ chan \in [Posts -> Wanted \cup {Absent}]
  /\ next \in [Posts -> Nat \ {0}]
  /\ got \in [Posts -> [Sockets -> 0..2]]
  /\ steady \in [Posts -> SUBSET Sockets]
  /\ skipped \in [Posts -> SUBSET Users]

\* What is registered for a user is a connection of his that is not new.
Owns == \A u \in Users : active[u] # Absent => owner[active[u]] = u /\ place[active[u]] # "new"

\* A user has one place in one list at most.
OnePlace ==
  \A c, d \in Wanted : \A i \in 1..Len(subs[c]), j \in 1..Len(subs[d]) :
    subs[c][i] = subs[d][j] => c = d /\ i = j

\* Broadcast b has yet to come to place i of list c.
Expected(b, c, i) == c \in rest[b] \/ (c = chan[b] /\ i >= next[b])

\* A connection that is still to be sent it, and one that was or was missed
Waits(b, s) == got[b][s] = 0 /\ owner[s] \notin skipped[b]
Served(b, s) == got[b][s] = IF owner[s] \in skipped[b] THEN 0 ELSE 1

Placed(b, s) ==
  \E c \in Wanted : \E i \in 1..Len(subs[c]) :
    subs[c][i] = owner[s] /\ IF Expected(b, c, i) THEN Waits(b, s) ELSE Served(b, s)

There(s) == s \in alive /\ place[s] = "loop" /\ active[owner[s]] = s

WalkInv(b) ==
  /\ post[b] = "idle" =>
       steady[b] = {} /\ skipped[b] = {} /\ chan[b] = Absent /\ \A s \in Sockets : got[b][s] = 0
  /\ chan[b] \notin rest[b]
  /\ \A s \in steady[b] : There(s)
  /\ post[b] = "walk" => \A s \in steady[b] : Placed(b, s)
  /\ post[b] = "done" => \A s \in steady[b] : Served(b, s)

PostInv == PostTypes /\ Owns /\ OnePlace /\ \A b \in Posts : WalkInv(b)

\* A user who leaves all lists: the part of a list behind him moves up.
Shifts(c, u, k, n) ==
  /\ k \in 1..(Len(subs[c]) + 1) /\ n = IF k <= Len(subs[c]) THEN Len(subs[c]) - 1 ELSE Len(subs[c])
  /\ \A j \in 1..Len(subs[c]) : subs[c][j] = u <=> j = k

\* A list that a user has left: he had one place in it, k, or none, when k is behind the list.
LEMMA WithoutFacts ==
  ASSUME PostTypes, OnePlace, NEW u \in Users, NEW c \in Wanted
  PROVE  /\ Without(u)[c] \in Seq(Users)
         /\ \E k, n \in Nat :
              /\ Shifts(c, u, k, n) /\ Len(Without(u)[c]) = n
              /\ \A j \in 1..n : Without(u)[c][j] = IF j < k THEN subs[c][j] ELSE subs[c][j + 1]
<1> DEFINE list == subs[c]
<1>1. list \in Seq(Users) /\ Len(list) \in Nat /\ Without(u)[c] = Seqs!RemoveFirst(list, u)
  BY DEF PostTypes, Without
<1>2. CASE \E k \in 1..Len(list) : list[k] = u
  <2>1. PICK k \in 1..Len(list) : list[k] = u  BY <1>2
  <2>2. \A j \in 1..Len(list) : list[j] = u => j = k
    BY <2>1 DEF OnePlace
  <2>3. \A j \in 1..(k - 1) : list[j] # u
    BY <1>1, <2>2
  <2>4. /\ Without(u)[c] \in Seq(Users) /\ Len(Without(u)[c]) = Len(list) - 1
        /\ \A j \in 1..(Len(list) - 1) : Without(u)[c][j] = IF j < k THEN list[j] ELSE list[j + 1]
    <3> HIDE DEF list
    <3>1. /\ Seqs!RemoveFirst(list, u) \in Seq(Users) /\ Len(Seqs!RemoveFirst(list, u)) = Len(list) - 1
          /\ \A j \in 1..(Len(list) - 1) :
               Seqs!RemoveFirst(list, u)[j] = IF j < k THEN list[j] ELSE list[j + 1]
      BY <1>1, <2>1, <2>3, RemoveFacts
    <3> QED BY <1>1, <3>1
  <2>5. Shifts(c, u, k, Len(list) - 1)
    <3>1. k \in 1..(Len(list) + 1) /\ k <= Len(list)
      BY <1>1, <2>1
    <3>2. \A j \in 1..Len(list) : list[j] = u <=> j = k
      BY <2>1, <2>2
    <3> QED BY <3>1, <3>2 DEF Shifts
  <2> QED BY <1>1, <2>1, <2>4, <2>5
<1>3. CASE ~ \E k \in 1..Len(list) : list[k] = u
  <2>1. Without(u)[c] = list
    BY <1>1, <1>3 DEF Seqs!RemoveFirst
  <2>2. Shifts(c, u, Len(list) + 1, Len(list))
    BY <1>1, <1>3 DEF Shifts
  <2> QED BY <1>1, <2>1, <2>2
<1> QED BY <1>2, <1>3

\* The lists after u has left them, and perhaps joined one of them again
Leaves(u) ==
  \A c \in Wanted : \E k, n \in Nat :
    /\ Shifts(c, u, k, n) /\ n <= Len(subs'[c])
    /\ \A j \in 1..n : subs'[c][j] = IF j < k THEN subs[c][j] ELSE subs[c][j + 1]
    /\ \A j \in 1..Len(subs'[c]) : j > n => subs'[c][j] = u

\* Somebody else keeps his place, or moves up by one.
LEMMA KeepsPlace ==
  ASSUME PostTypes, OnePlace, NEW u \in Users, Leaves(u), NEW c \in Wanted, NEW i \in 1..Len(subs[c]),
         subs[c][i] # u
  PROVE  \E j \in 1..Len(subs'[c]) :
           /\ subs'[c][j] = subs[c][i]
           /\ \/ j = i /\ \A k \in 1..(i - 1) : subs[c][k] # u
              \/ j = i - 1 /\ \E k \in 1..(i - 1) : subs[c][k] = u
<1>1. PICK k \in Nat, n \in Nat :
        /\ Shifts(c, u, k, n) /\ n <= Len(subs'[c])
        /\ \A j \in 1..n : subs'[c][j] = IF j < k THEN subs[c][j] ELSE subs[c][j + 1]
  BY DEF Leaves
<1>2. Len(subs[c]) \in Nat
  BY DEF PostTypes
<1>3. i # k /\ Len(subs'[c]) >= n
  BY <1>1 DEF Shifts
<1>4. CASE i < k
  <2>1. i \in 1..n
    BY <1>1, <1>2, <1>4 DEF Shifts
  <2>2. \A m \in 1..(i - 1) : subs[c][m] # u
    BY <1>1, <1>2, <1>4 DEF Shifts
  <2> QED BY <1>1, <1>4, <2>1, <2>2
<1>5. CASE i > k
  <2>1. i - 1 \in 1..n /\ ~(i - 1 < k) /\ (i - 1) + 1 = i
    BY <1>1, <1>2, <1>5 DEF Shifts
  <2>2. k \in 1..(i - 1) /\ subs[c][k] = u
    BY <1>1, <1>2, <1>5 DEF Shifts
  <2> QED BY <1>1, <2>1, <2>2
<1> QED BY <1>1, <1>3, <1>4, <1>5

\* Who is missed is the one who comes next, and he is missed if one before him leaves.
LEMMA MissedFacts ==
  ASSUME PostTypes, NEW b \in Posts, NEW u \in Users
  PROVE  /\ \A v \in Missed(b, u) :
              /\ post[b] = "walk" /\ chan[b] \in Wanted /\ next[b] \in 1..Len(subs[chan[b]])
              /\ v = subs[chan[b]][next[b]] /\ \E k \in 1..(next[b] - 1) : subs[chan[b]][k] = u
         /\ \A k \in 1..(next[b] - 1) :
              post[b] = "walk" /\ chan[b] \in Wanted /\ next[b] <= Len(subs[chan[b]]) /\ subs[chan[b]][k] = u
                => subs[chan[b]][next[b]] \in Missed(b, u)
         /\ Missed(b, u) \subseteq Users
<1>1. next[b] \in Nat \ {0} /\ chan[b] \in Wanted \cup {Absent} /\ Absent \notin Wanted
  BY NamesAssumption DEF PostTypes
<1>2. ASSUME NEW v \in Missed(b, u)
      PROVE  /\ post[b] = "walk" /\ chan[b] \in Wanted /\ next[b] \in 1..Len(subs[chan[b]])
             /\ v = subs[chan[b]][next[b]] /\ \E k \in 1..(next[b] - 1) : subs[chan[b]][k] = u
  <2>1. post[b] = "walk" /\ chan[b] \in Wanted
    BY <1>1, <1>2 DEF Missed
  <2>2. subs[chan[b]] \in Seq(Users)
    BY <2>1 DEF PostTypes
  <2> QED BY <1>1, <1>2, <2>1, <2>2 DEF Missed
<1>3. ASSUME NEW k \in 1..(next[b] - 1), post[b] = "walk", chan[b] \in Wanted,
             next[b] <= Len(subs[chan[b]]), subs[chan[b]][k] = u
      PROVE  subs[chan[b]][next[b]] \in Missed(b, u)
  BY <1>1, <1>3 DEF Missed
<1>4. ASSUME NEW v \in Missed(b, u)
      PROVE  v \in Users
  <2>1. subs[chan[b]] \in Seq(Users)
    BY <1>2 DEF PostTypes
  <2> QED BY <1>2, <2>1
<1> QED BY <1>2, <1>3, <1>4

\* The lists stay and the broadcasts too; less connections may count as there.
LEMMA SameLists ==
  ASSUME PostInv, UNCHANGED <<subs, walkVars, skipped>>, steady' \in [Posts -> SUBSET Sockets],
         alive' \subseteq Sockets,
         \A b \in Posts : steady'[b] \subseteq steady[b],
         \A b \in Posts : \A s \in steady'[b] : There(s)' /\ owner'[s] = owner[s],
         Owns'
  PROVE  PostInv'
<1>1. PostTypes'
  BY DEF PostInv, PostTypes, walkVars
<1>2. OnePlace'
  BY DEF PostInv, OnePlace
<1>3. ASSUME NEW b \in Posts
      PROVE  WalkInv(b)'
  <2>1. WalkInv(b) /\ steady'[b] \subseteq steady[b]
    BY DEF PostInv
  <2>2. UNCHANGED <<post, rest, chan, next, got, subs, skipped>>
    BY DEF walkVars
  <2>3. ASSUME NEW s \in steady'[b]
        PROVE  There(s)' /\ (Placed(b, s) => Placed(b, s)') /\ (Served(b, s) => Served(b, s)')
    <3>1. There(s)' /\ owner'[s] = owner[s]
      OBVIOUS
    <3> QED BY <2>2, <3>1 DEF Placed, Expected, Waits, Served
  <2> QED BY <2>1, <2>2, <2>3 DEF WalkInv
<1> QED BY <1>1, <1>2, <1>3 DEF PostInv

\* Who is behind a place of another's in a list that u has left was in the list before.
LEMMA CameFrom ==
  ASSUME PostTypes, NEW u \in Users, Leaves(u), NEW c \in Wanted,
         NEW i \in 1..Len(subs'[c]), subs'[c][i] # u
  PROVE  \E k, n \in Nat : \E m \in 1..Len(subs[c]) :
           Shifts(c, u, k, n) /\ m = (IF i < k THEN i ELSE i + 1) /\ subs[c][m] = subs'[c][i]
<1>1. PICK k \in Nat, n \in Nat :
        /\ Shifts(c, u, k, n)
        /\ \A a \in 1..n : subs'[c][a] = IF a < k THEN subs[c][a] ELSE subs[c][a + 1]
        /\ \A a \in 1..Len(subs'[c]) : a > n => subs'[c][a] = u
  BY DEF Leaves
<1>2. Len(subs[c]) \in Nat /\ i \in 1..n
  BY <1>1 DEF PostTypes
<1>3. (IF i < k THEN i ELSE i + 1) \in 1..Len(subs[c])
  BY <1>1, <1>2 DEF Shifts
<1>4. subs'[c][i] = subs[c][IF i < k THEN i ELSE i + 1]
  BY <1>1, <1>2
<1> QED BY <1>1, <1>3, <1>4

\* One user leaves the lists, and joins one of them at most: everybody has one place still.
LEMMA LeavesOnePlace ==
  ASSUME PostTypes, OnePlace, PostTypes', NEW u \in Users, Leaves(u),
         \A c, d \in Wanted : \A i \in 1..Len(subs'[c]), j \in 1..Len(subs'[d]) :
           subs'[c][i] = u /\ subs'[d][j] = u => c = d /\ i = j
  PROVE  OnePlace'
<1> SUFFICES ASSUME NEW c \in Wanted, NEW d \in Wanted,
                    NEW i \in 1..Len(subs'[c]), NEW j \in 1..Len(subs'[d]), subs'[c][i] = subs'[d][j]
             PROVE  c = d /\ i = j
  BY DEF OnePlace
<1>1. CASE subs'[c][i] = u
  BY <1>1
<1>2. CASE subs'[c][i] # u
  <2>1. PICK k \in Nat, n \in Nat, m \in 1..Len(subs[c]) :
          Shifts(c, u, k, n) /\ m = (IF i < k THEN i ELSE i + 1) /\ subs[c][m] = subs'[c][i]
    BY <1>2, CameFrom
  <2>2. PICK k2 \in Nat, n2 \in Nat, m2 \in 1..Len(subs[d]) :
          Shifts(d, u, k2, n2) /\ m2 = (IF j < k2 THEN j ELSE j + 1) /\ subs[d][m2] = subs'[d][j]
    BY <1>2, CameFrom
  <2>3. c = d /\ m = m2
    BY <2>1, <2>2 DEF OnePlace
  <2>4. k = k2
    <3>1. Len(subs[c]) \in Nat
      BY DEF PostTypes
    <3>2. Shifts(c, u, k, n) /\ Shifts(c, u, k2, n2)
      BY <2>1, <2>2, <2>3
    <3>3. CASE k \in 1..Len(subs[c])
      BY <3>2, <3>3 DEF Shifts
    <3>4. CASE k2 \in 1..Len(subs[c])
      BY <3>2, <3>4 DEF Shifts
    <3>5. CASE k \notin 1..Len(subs[c]) /\ k2 \notin 1..Len(subs[c])
      BY <3>1, <3>2, <3>5 DEF Shifts
    <3> QED BY <3>3, <3>4, <3>5
  <2>5. i \in Nat /\ j \in Nat
    OBVIOUS
  <2>6. (IF i < k THEN i ELSE i + 1) = (IF j < k THEN j ELSE j + 1)
    BY <2>1, <2>2, <2>3, <2>4
  <2> QED BY <2>3, <2>5, <2>6
<1> QED BY <1>1, <1>2

\* Somebody else, who keeps his place or moves up: either the walk is as far from him as it
\* was, or he is the one who is missed.
LEMMA LeavesPlaced ==
  ASSUME PostTypes, OnePlace, NEW u \in Users, Leaves(u), NEW b \in Posts, WalkInv(b), post[b] = "walk",
         UNCHANGED <<owner, walkVars>>, skipped'[b] = skipped[b] \cup Missed(b, u),
         NEW s \in Sockets, owner[s] \in Users, owner[s] # u, Placed(b, s)
  PROVE  Placed(b, s)'
<1> DEFINE v == owner[s]
           missed == Missed(b, u)
<1>1. PICK c \in Wanted : \E i \in 1..Len(subs[c]) :
        subs[c][i] = v /\ IF Expected(b, c, i) THEN Waits(b, s) ELSE Served(b, s)
  BY DEF Placed
<1>2. PICK i \in 1..Len(subs[c]) :
        subs[c][i] = v /\ IF Expected(b, c, i) THEN Waits(b, s) ELSE Served(b, s)
  BY <1>1
<1>3. PICK j \in 1..Len(subs'[c]) :
        /\ subs'[c][j] = v
        /\ \/ j = i /\ \A k \in 1..(i - 1) : subs[c][k] # u
           \/ j = i - 1 /\ \E k \in 1..(i - 1) : subs[c][k] = u
  BY <1>2, KeepsPlace
<1>4. /\ rest' = rest /\ chan' = chan /\ next' = next /\ got' = got /\ owner' = owner
      /\ skipped'[b] = skipped[b] \cup missed
      /\ next[b] \in Nat \ {0} /\ chan[b] \in Wanted \cup {Absent} /\ i \in Nat /\ j \in Nat
  BY DEF walkVars, PostTypes
<1>5. v \in missed => c = chan[b] /\ i = next[b] /\ \E k \in 1..(i - 1) : subs[c][k] = u
  <2> SUFFICES ASSUME v \in missed
               PROVE  c = chan[b] /\ i = next[b] /\ \E k \in 1..(i - 1) : subs[c][k] = u
    OBVIOUS
  <2>1. /\ chan[b] \in Wanted /\ next[b] \in 1..Len(subs[chan[b]])
        /\ v = subs[chan[b]][next[b]] /\ \E k \in 1..(next[b] - 1) : subs[chan[b]][k] = u
    BY MissedFacts
  <2>2. c = chan[b] /\ i = next[b]
    BY <1>2, <2>1 DEF OnePlace
  <2> QED BY <2>1, <2>2
<1>6. c = chan[b] /\ i = next[b] /\ (\E k \in 1..(i - 1) : subs[c][k] = u) => v \in missed
  BY <1>2, <1>4, MissedFacts
<1>7. v \notin missed => (Waits(b, s) => Waits(b, s)') /\ (Served(b, s) => Served(b, s)')
  BY <1>4 DEF Waits, Served
<1>8. v \in missed => (Waits(b, s) => Served(b, s)')
  BY <1>4 DEF Waits, Served
<1>9. c \in rest[b] => c # chan[b]
  BY DEF WalkInv
<1>10. IF Expected(b, c, j)' THEN Waits(b, s)' ELSE Served(b, s)'
  <2>1. CASE c \in rest[b]
    BY <1>2, <1>4, <1>5, <1>7, <1>9, <2>1 DEF Expected
  <2>2. CASE c \notin rest[b] /\ c # chan[b]
    BY <1>2, <1>4, <1>5, <1>7, <2>2 DEF Expected
  <2>3. CASE c \notin rest[b] /\ c = chan[b] /\ v \in missed
    <3>1. i = next[b] /\ j = i - 1
      BY <1>3, <1>5, <2>3
    <3>2. Expected(b, c, i) /\ ~Expected(b, c, j)'
      BY <1>4, <2>3, <3>1 DEF Expected
    <3> QED BY <1>2, <1>8, <2>3, <3>2
  <2>4. CASE c \notin rest[b] /\ c = chan[b] /\ v \notin missed
    <3>1. Expected(b, c, i) <=> i >= next[b]
      BY <2>4 DEF Expected
    <3>2. Expected(b, c, j)' <=> j >= next[b]
      BY <1>4, <2>4 DEF Expected
    <3>3. i >= next[b] <=> j >= next[b]
      BY <1>3, <1>4, <1>6, <2>4
    <3> QED BY <1>2, <1>7, <2>4, <3>1, <3>2, <3>3
  <2> QED BY <2>1, <2>2, <2>3, <2>4
<1>11. subs'[c][j] = owner'[s]
  BY <1>3, <1>4
<1> QED BY <1>10, <1>11 DEF Placed

\* A user leaves the lists, for good or for another one.
LEMMA LeavesPostInv ==
  ASSUME SocketTypes, PostInv, NEW u \in Users, Leaves(u), subs' \in [Wanted -> Seq(Users)],
         \A c, d \in Wanted : \A i \in 1..Len(subs'[c]), j \in 1..Len(subs'[d]) :
           subs'[c][i] = u /\ subs'[d][j] = u => c = d /\ i = j,
         UNCHANGED <<active, owner, place, alive, walkVars>>, Unsettle(u),
         skipped' = [b \in Posts |-> skipped[b] \cup Missed(b, u)]
  PROVE  PostInv'
<1>1. UNCHANGED <<post, rest, chan, next, got>>
  BY DEF walkVars
<1>2. \A b \in Posts : steady'[b] = {s \in steady[b] : owner[s] # u}
  BY DEF Unsettle
<1>3. PostTypes'
  <2>1. steady' \in [Posts -> SUBSET Sockets] /\ alive' \subseteq Sockets
    BY DEF Unsettle, PostInv, PostTypes
  <2>2. skipped' \in [Posts -> SUBSET Users]
    BY MissedFacts DEF PostInv, PostTypes
  <2> QED BY <1>1, <2>1, <2>2 DEF PostInv, PostTypes
<1>4. Owns'
  BY DEF PostInv, Owns
<1>5. OnePlace'
  BY <1>3, LeavesOnePlace DEF PostInv
<1>6. ASSUME NEW b \in Posts
      PROVE  WalkInv(b)'
  <2>1. WalkInv(b) /\ steady[b] \subseteq Sockets
    BY DEF PostInv, PostTypes
  <2>2. \A s \in steady'[b] : s \in steady[b] /\ s \in Sockets /\ owner[s] # u
    BY <1>2, <2>1
  <2>3. \A s \in steady'[b] : There(s) /\ There(s)'
    BY <2>1, <2>2 DEF There, WalkInv
  <2>4. post[b] # "walk" => skipped'[b] = skipped[b]
    BY MissedFacts DEF PostInv
  <2>5. CASE post[b] = "walk"
    <3>1. ASSUME NEW s \in steady'[b]
          PROVE  Placed(b, s)'
      <4>1. owner[s] \in Users
        BY <2>2, <2>3 DEF There, SocketTypes
      <4>2. Placed(b, s) /\ s \in Sockets /\ owner[s] # u
        BY <2>1, <2>2, <2>5 DEF WalkInv
      <4> QED BY <2>1, <2>5, <4>1, <4>2, LeavesPlaced DEF PostInv
    <3> QED BY <1>1, <2>1, <2>3, <2>5, <3>1 DEF WalkInv
  <2>6. CASE post[b] # "walk"
    <3>1. \A s \in steady'[b] : Served(b, s) => Served(b, s)'
      BY <1>1, <2>4, <2>6 DEF Served
    <3>2. steady[b] = {} => steady'[b] = {}
      BY <2>2
    <3> QED BY <1>1, <2>1, <2>2, <2>3, <2>4, <2>6, <3>1, <3>2 DEF WalkInv
  <2> QED BY <2>5, <2>6
<1> QED BY <1>3, <1>4, <1>5, <1>6 DEF PostInv

\* A broadcast begins: nobody has had it, and it is to come to every list it names.
LEMMA PostPostInv ==
  ASSUME SocketTypes, PostInv, NEW b \in Posts, NEW e \in Events, Post(b, e)
  PROVE  PostInv'
<1> DEFINE named == Named(e) \cap Wanted
           there == {s \in alive : place[s] = "loop" /\ Registered(s) /\
                       \E c \in named : \E i \in DOMAIN subs[c] : subs[c][i] = owner[s]}
<1>1. /\ post[b] = "idle" /\ post' = [post EXCEPT ![b] = "walk"]
      /\ rest' = [rest EXCEPT ![b] = named] /\ steady' = [steady EXCEPT ![b] = there]
      /\ UNCHANGED <<active, owner, place, alive, subs, chan, next, got, skipped>>
  BY DEF Post, socketVars
<1>2. named \subseteq Wanted /\ there \subseteq Sockets
  BY DEF PostInv, PostTypes
<1>3. PostTypes'
  <2> HIDE DEF named, there
  <2> QED BY <1>1, <1>2 DEF PostInv, PostTypes
<1>4. Owns' /\ OnePlace'
  BY <1>1 DEF PostInv, Owns, OnePlace
<1>5. ASSUME NEW d \in Posts \ {b}
      PROVE  WalkInv(d)'
  <2>1. /\ post'[d] = post[d] /\ rest'[d] = rest[d] /\ steady'[d] = steady[d]
        /\ UNCHANGED <<active, owner, place, alive, subs, chan, next, got, skipped>>
    BY <1>1 DEF PostInv, PostTypes
  <2>2. WalkInv(d)
    BY DEF PostInv
  <2> QED BY <2>1, <2>2 DEF WalkInv, There, Placed, Expected, Waits, Served
<1>6. WalkInv(b)'
  <2>1. post'[b] = "walk" /\ rest'[b] = named /\ steady'[b] = there
    <3> HIDE DEF named, there
    <3> QED BY <1>1 DEF PostInv, PostTypes
  <2>2. WalkInv(b)
    BY DEF PostInv
  <2>3. chan'[b] \notin rest'[b]
    BY <1>1, <1>2, <2>1, <2>2, NamesAssumption DEF WalkInv
  <2>4. ASSUME NEW s \in steady'[b]
        PROVE  There(s)' /\ Placed(b, s)'
    <3>1. s \in alive /\ place[s] = "loop" /\ active[owner[s]] = s
      BY <2>1 DEF Registered
    <3>2. PICK c \in named : \E i \in DOMAIN subs[c] : subs[c][i] = owner[s]
      BY <2>1
    <3>3. c \in Wanted /\ subs[c] \in Seq(Users)
      BY DEF PostInv, PostTypes
    <3>4. PICK i \in 1..Len(subs[c]) : subs[c][i] = owner[s]
      BY <3>2, <3>3
    <3>5. Expected(b, c, i)'
      BY <2>1 DEF Expected
    <3>6. Waits(b, s)'
      BY <1>1, <2>2, <2>4, <3>1 DEF Waits, WalkInv, PostInv, PostTypes
    <3>7. There(s)'
      BY <1>1, <3>1 DEF There
    <3> QED BY <1>1, <3>3, <3>4, <3>5, <3>6, <3>7 DEF Placed
  <2> QED BY <2>1, <2>3, <2>4 DEF WalkInv
<1> QED BY <1>3, <1>4, <1>5, <1>6 DEF PostInv

\* A message is sent to the subscriber at place i of list c, to whom it was to be sent; of
\* all others who are connected it is as it was whether they have had it.  R is what is left.
Sends(b, c, i, R, l) ==
  /\ post[b] = "walk" /\ post' = [post EXCEPT ![b] = l]
  /\ R \subseteq rest[b] /\ c \notin R /\ rest' = [rest EXCEPT ![b] = R]
  /\ chan' = [chan EXCEPT ![b] = c] /\ next' = [next EXCEPT ![b] = i + 1]
  /\ Expected(b, c, i) /\ active[subs[c][i]] # Absent
  /\ active[subs[c][i]] \in alive => l = "walk"
  /\ got' = IF active[subs[c][i]] \in alive /\ got[b][active[subs[c][i]]] < 2
            THEN [got EXCEPT ![b][active[subs[c][i]]] = @ + 1] ELSE got
  /\ \A d \in Wanted : \A j \in 1..Len(subs[d]) :
       active[subs[d][j]] # Absent /\ ~(d = c /\ j = i) => (Expected(b, d, j)' <=> Expected(b, d, j))
  /\ UNCHANGED <<active, owner, place, alive, subs, steady, skipped>>

\* Such a step keeps the invariant.
LEMMA SendPostInv ==
  ASSUME SocketTypes, PostInv, NEW b \in Posts, NEW c \in Wanted, NEW i \in 1..Len(subs[c]),
         NEW R, NEW l \in {"walk", "failed"}, Sends(b, c, i, R, l)
  PROVE  PostInv'
<1> USE DEF Sends
<1> DEFINE u == subs[c][i]
           t == active[u]
<1>1. /\ i \in Nat /\ i + 1 \in Nat \ {0} /\ u \in Users /\ t \in Sockets
      /\ owner[t] = u
  <2>1. subs[c] \in Seq(Users)
    BY DEF PostInv, PostTypes
  <2>2. u \in Users
    BY <2>1
  <2> QED BY <2>2 DEF PostInv, Owns, SocketTypes
<1>2. got' \in [Posts -> [Sockets -> 0..2]]
  <2>1. got \in [Posts -> [Sockets -> 0..2]] /\ got[b][t] \in 0..2
    BY <1>1 DEF PostInv, PostTypes
  <2>2. CASE t \in alive /\ got[b][t] < 2
    <3>1. got' = [got EXCEPT ![b][t] = got[b][t] + 1] /\ got[b][t] + 1 \in 0..2
      BY <2>1, <2>2
    <3> QED BY <1>1, <2>1, <3>1
  <2>3. CASE ~(t \in alive /\ got[b][t] < 2)
    BY <2>1, <2>3
  <2> QED BY <2>2, <2>3
<1>3. PostTypes'
  BY <1>1, <1>2 DEF PostInv, PostTypes
<1>4. Owns' /\ OnePlace'
  BY DEF PostInv, Owns, OnePlace
<1>5. /\ \A d \in Posts \ {b} :
           post'[d] = post[d] /\ rest'[d] = rest[d] /\ chan'[d] = chan[d] /\ next'[d] = next[d]
      /\ post'[b] = l /\ rest'[b] = R /\ chan'[b] = c /\ next'[b] = i + 1
  BY DEF PostInv, PostTypes
<1>6. /\ \A d \in Posts \ {b} : got'[d] = got[d]
      /\ \A s \in Sockets \ {t} : got'[b][s] = got[b][s]
      /\ t \in alive /\ got[b][t] < 2 => got'[b][t] = got[b][t] + 1
  BY <1>1 DEF PostInv, PostTypes
<1>7. ASSUME NEW d \in Posts \ {b}
      PROVE  WalkInv(d)'
  <2>1. WalkInv(d)
    BY DEF PostInv
  <2> QED BY <1>5, <1>6, <2>1 DEF WalkInv, There, Placed, Expected, Waits, Served
<1>8. ASSUME NEW s \in steady[b]
      PROVE  Placed(b, s)'
  <2>1. s \in Sockets /\ There(s) /\ Placed(b, s)
    BY DEF PostInv, PostTypes, WalkInv
  <2>2. PICK d \in Wanted : \E j \in 1..Len(subs[d]) :
          subs[d][j] = owner[s] /\ IF Expected(b, d, j) THEN Waits(b, s) ELSE Served(b, s)
    BY <2>1 DEF Placed
  <2>3. PICK j \in 1..Len(subs[d]) :
          subs[d][j] = owner[s] /\ IF Expected(b, d, j) THEN Waits(b, s) ELSE Served(b, s)
    BY <2>2
  <2>4. active[owner[s]] = s /\ s \in alive /\ s # Absent
    BY <2>1, NamesAssumption DEF There
  <2>5. CASE d = c /\ j = i
    <3>1. t = s
      BY <2>3, <2>4, <2>5
    <3>2. ~Expected(b, d, j)'
      BY <1>1, <1>5, <2>5 DEF Expected
    <3>3. got[b][s] = 0 /\ owner[s] \notin skipped[b]
      BY <2>3, <2>5 DEF Waits
    <3>4. Served(b, s)'
      BY <1>6, <2>4, <3>1, <3>3 DEF Served
    <3> QED BY <2>3, <3>2, <3>4 DEF Placed
  <2>6. CASE ~(d = c /\ j = i)
    <3>1. s # t
      <4>1. s = t => subs[d][j] = subs[c][i]
        BY <1>1, <2>3
      <4> QED BY <2>6, <4>1 DEF PostInv, OnePlace
    <3>2. Expected(b, d, j)' <=> Expected(b, d, j)
      BY <2>3, <2>4, <2>6
    <3>3. got'[b][s] = got[b][s]
      BY <1>6, <2>1, <3>1
    <3>4. (Waits(b, s) => Waits(b, s)') /\ (Served(b, s) => Served(b, s)')
      BY <3>3 DEF Waits, Served
    <3>5. subs'[d][j] = owner'[s] /\ IF Expected(b, d, j)' THEN Waits(b, s)' ELSE Served(b, s)'
      BY <2>3, <3>2, <3>4
    <3> QED BY <3>5 DEF Placed
  <2> QED BY <2>5, <2>6
<1>9. WalkInv(b)'
  <2>1. \A s \in steady[b] : There(s)'
    BY DEF PostInv, WalkInv, There
  <2> QED BY <1>5, <1>8, <2>1 DEF WalkInv
<1> QED BY <1>3, <1>4, <1>7, <1>9 DEF PostInv

\* The one who comes next is the first of those who are ahead.
LEMMA FirstAhead ==
  ASSUME PostTypes, NEW c \in Wanted, NEW from \in Nat \ {0}, Ahead(c, from) # {}
  PROVE  LET i == CHOOSE i \in Ahead(c, from) : \A j \in Ahead(c, from) : i <= j
         IN i \in Ahead(c, from) /\ \A j \in Ahead(c, from) : i <= j
<1>1. Len(subs[c]) \in Nat /\ Ahead(c, from) \in SUBSET Nat
  BY DEF PostTypes, Ahead
<1>2. \E i \in Ahead(c, from) : \A j \in Ahead(c, from) : i <= j
  BY <1>1, Smallest
<1> QED BY <1>2

\* The next in the list
LEMMA SendNextPostInv ==
  ASSUME SocketTypes, PostInv, NEW b \in Posts, SendNext(b)
  PROVE  PostInv'
<1>1. /\ post[b] = "walk" /\ chan[b] \in Wanted /\ Here(b) = Ahead(chan[b], next[b])
      /\ Here(b) # {} /\ next[b] \in Nat \ {0} /\ chan[b] \notin rest[b]
  BY DEF SendNext, Here, PostInv, PostTypes, WalkInv
<1> DEFINE c == chan[b]
           i == CHOOSE i \in Here(b) : \A j \in Here(b) : i <= j
<1>2. i \in Here(b) /\ \A j \in Here(b) : i <= j
  BY <1>1, FirstAhead DEF PostInv
<1>3. /\ chan' = [chan EXCEPT ![b] = c] /\ next' = [next EXCEPT ![b] = i + 1]
      /\ LET s == active[subs[c][i]]
         IN got' = IF s \in alive /\ got[b][s] < 2 THEN [got EXCEPT ![b][s] = @ + 1] ELSE got
      /\ \E l \in {"walk", "failed"} :
           (active[subs[c][i]] \in alive => l = "walk") /\ post' = [post EXCEPT ![b] = l]
      /\ UNCHANGED <<active, owner, place, alive, subs, rest, steady, skipped>>
  BY DEF SendNext, SendTo, socketVars
<1> HIDE DEF i
<1>4. PICK l \in {"walk", "failed"} :
        (active[subs[c][i]] \in alive => l = "walk") /\ post' = [post EXCEPT ![b] = l]
  BY <1>3
<1>5. /\ i \in 1..Len(subs[c]) /\ i \in Nat /\ i >= next[b] /\ active[subs[c][i]] # Absent
      /\ Expected(b, c, i)
  BY <1>1, <1>2 DEF Ahead, Expected, PostInv, PostTypes
<1>6. rest' = [rest EXCEPT ![b] = rest[b]] /\ rest'[b] = rest[b] /\ chan'[b] = c /\ next'[b] = i + 1
  BY <1>3 DEF PostInv, PostTypes
<1>7. ASSUME NEW d \in Wanted, NEW j \in 1..Len(subs[d]), active[subs[d][j]] # Absent, ~(d = c /\ j = i)
      PROVE  Expected(b, d, j)' <=> Expected(b, d, j)
  <2>1. CASE d # c
    BY <1>6, <2>1 DEF Expected
  <2>2. CASE d = c
    <3>1. j >= next[b] => j \in Here(b)
      BY <1>1, <1>7, <2>2 DEF Ahead
    <3>2. j >= next[b] <=> j >= i + 1
      BY <1>1, <1>2, <1>5, <1>7, <2>2, <3>1
    <3> QED BY <1>1, <1>6, <2>2, <3>2 DEF Expected
  <2> QED BY <2>1, <2>2
<1> HIDE DEF c
<1>8. c \in Wanted /\ c \notin rest[b]
  BY <1>1 DEF c
<1>9. Sends(b, c, i, rest[b], l)
  BY <1>1, <1>3, <1>4, <1>5, <1>6, <1>7, <1>8 DEF Sends
<1> QED BY <1>5, <1>8, <1>9, SendPostInv

\* The first in one of the lists that are left, when there is nobody in those before it
LEMMA SendFirstPostInv ==
  ASSUME SocketTypes, PostInv, NEW b \in Posts, NEW c \in rest[b],
         NEW before \in SUBSET (rest[b] \ {c}), SendFirst(b, c, before)
  PROVE  PostInv'
<1>1. /\ post[b] = "walk" /\ c \in Wanted /\ Here(b) = {} /\ Ahead(c, 1) # {} /\ chan[b] \notin rest[b]
      /\ next[b] \in Nat \ {0} /\ \A d \in before : Ahead(d, 1) = {}
  BY DEF SendFirst, PostInv, PostTypes, WalkInv
<1> DEFINE i == CHOOSE i \in Ahead(c, 1) : \A j \in Ahead(c, 1) : i <= j
           R == rest[b] \ (before \cup {c})
<1>2. i \in Ahead(c, 1) /\ \A j \in Ahead(c, 1) : i <= j
  BY <1>1, FirstAhead DEF PostInv
<1>3. /\ chan' = [chan EXCEPT ![b] = c] /\ next' = [next EXCEPT ![b] = i + 1]
      /\ LET s == active[subs[c][i]]
         IN got' = IF s \in alive /\ got[b][s] < 2 THEN [got EXCEPT ![b][s] = @ + 1] ELSE got
      /\ \E l \in {"walk", "failed"} :
           (active[subs[c][i]] \in alive => l = "walk") /\ post' = [post EXCEPT ![b] = l]
      /\ rest' = [rest EXCEPT ![b] = R]
      /\ UNCHANGED <<active, owner, place, alive, subs, steady, skipped>>
  BY DEF SendFirst, SendTo, socketVars
<1> HIDE DEF i
<1>4. PICK l \in {"walk", "failed"} :
        (active[subs[c][i]] \in alive => l = "walk") /\ post' = [post EXCEPT ![b] = l]
  BY <1>3
<1>5. i \in 1..Len(subs[c]) /\ i \in Nat /\ active[subs[c][i]] # Absent /\ Expected(b, c, i)
  BY <1>1, <1>2 DEF Ahead, Expected, PostInv, PostTypes
<1>6. rest'[b] = R /\ chan'[b] = c /\ next'[b] = i + 1
  BY <1>3 DEF PostInv, PostTypes
<1>7. ASSUME NEW d \in Wanted, NEW j \in 1..Len(subs[d]), active[subs[d][j]] # Absent, ~(d = c /\ j = i)
      PROVE  Expected(b, d, j)' <=> Expected(b, d, j)
  <2>1. j \in Ahead(d, 1)
    BY <1>7 DEF Ahead
  <2>2. d \notin before
    BY <1>1, <2>1
  <2>3. ~(d = chan[b] /\ j >= next[b])
    <3> SUFFICES ASSUME d = chan[b], j >= next[b]
                 PROVE  FALSE
      OBVIOUS
    <3>1. d # Absent /\ j \in Ahead(d, next[b])
      BY <1>1, <1>7, NamesAssumption DEF Ahead
    <3> QED BY <1>1, <3>1 DEF Here
  <2>4. Expected(b, d, j) <=> d \in rest[b]
    BY <2>3 DEF Expected
  <2>5. CASE d # c
    BY <1>6, <2>2, <2>4, <2>5 DEF Expected
  <2>6. CASE d = c
    <3>1. j >= i + 1
      BY <1>2, <1>5, <1>7, <2>1, <2>6
    <3> QED BY <1>6, <2>4, <2>6, <3>1 DEF Expected
  <2> QED BY <2>5, <2>6
<1>8. R \in SUBSET rest[b] /\ c \notin R
  OBVIOUS
<1> HIDE DEF R
<1>9. Sends(b, c, i, R, l)
  BY <1>1, <1>3, <1>4, <1>5, <1>7, <1>8 DEF Sends
<1> QED BY <1>1, <1>5, <1>9, SendPostInv

\* Nobody is left to be sent the message: everybody who was there has had it.
LEMMA FinishPostInv ==
  ASSUME PostInv, NEW b \in Posts, Finish(b)
  PROVE  PostInv'
<1>1. /\ post[b] = "walk" /\ post' = [post EXCEPT ![b] = "done"] /\ Here(b) = {}
      /\ \A d \in rest[b] : Ahead(d, 1) = {}
      /\ UNCHANGED <<active, owner, place, alive, subs, rest, chan, next, got, steady, skipped>>
  BY DEF Finish, socketVars
<1>2. PostTypes' /\ Owns' /\ OnePlace'
  <2>1. PostTypes'
    BY <1>1 DEF PostInv, PostTypes
  <2>2. Owns'
    BY <1>1 DEF PostInv, Owns
  <2>3. OnePlace'
    BY <1>1 DEF PostInv, OnePlace
  <2> QED BY <2>1, <2>2, <2>3
<1>3. post'[b] = "done" /\ \A d \in Posts \ {b} : post'[d] = post[d]
  BY <1>1 DEF PostInv, PostTypes
<1>4. ASSUME NEW d \in Posts \ {b}
      PROVE  WalkInv(d)'
  <2>1. WalkInv(d)
    BY DEF PostInv
  <2> QED BY <1>1, <1>3, <2>1 DEF WalkInv, There, Placed, Expected, Waits, Served
<1>5. ASSUME NEW s \in steady[b]
      PROVE  Served(b, s)
  <2>1. There(s) /\ Placed(b, s) /\ s \in Sockets
    BY <1>1 DEF PostInv, PostTypes, WalkInv
  <2>2. PICK c \in Wanted : \E i \in 1..Len(subs[c]) :
          subs[c][i] = owner[s] /\ IF Expected(b, c, i) THEN Waits(b, s) ELSE Served(b, s)
    BY <2>1 DEF Placed
  <2>3. PICK i \in 1..Len(subs[c]) :
          subs[c][i] = owner[s] /\ IF Expected(b, c, i) THEN Waits(b, s) ELSE Served(b, s)
    BY <2>2
  <2>4. active[subs[c][i]] # Absent /\ i \in Nat /\ c # Absent
    BY <2>1, <2>3, NamesAssumption DEF There
  <2>5. i \in Ahead(c, 1)
    BY <2>4 DEF Ahead
  <2>6. c = chan[b] /\ i >= next[b] => i \in Here(b)
    BY <2>4 DEF Ahead, Here, PostInv, PostTypes
  <2>7. ~Expected(b, c, i)
    BY <1>1, <2>5, <2>6 DEF Expected
  <2> QED BY <2>3, <2>7
<1>6. WalkInv(b)'
  <2>1. WalkInv(b)
    BY DEF PostInv
  <2>2. \A s \in steady[b] : There(s)' /\ Served(b, s)'
    BY <1>1, <1>5, <2>1 DEF WalkInv, There, Served
  <2> QED BY <1>1, <1>3, <2>1, <2>2 DEF WalkInv
<1> QED BY <1>2, <1>4, <1>6 DEF PostInv

\* A connection comes, goes on, or goes.  Who was there and is not of its user still is.
LEMMA TaskPostInv ==
  ASSUME SocketTypes, PostInv, NEW s \in Sockets,
         (\E u \in Users : Connect(s, u)) \/ Register(s) \/ Hello(s) \/ Drop(s) \/ Disconnect(s)
  PROVE  PostInv'
<1>1. UNCHANGED <<subs, walkVars, skipped>>
  BY DEF Connect, Register, Hello, Drop, Disconnect
<1>2. /\ alive' \subseteq Sockets /\ steady' \in [Posts -> SUBSET Sockets]
      /\ \A b \in Posts : steady'[b] \subseteq steady[b]
  BY DEF Connect, Register, Hello, Drop, Disconnect, Unsettle, PostInv, PostTypes
<1>3. \A b \in Posts : \A x \in steady'[b] : x \in steady[b] /\ x \in Sockets /\ There(x)
  BY <1>2 DEF PostInv, PostTypes, WalkInv
<1>4. (\A b \in Posts : \A x \in steady'[b] : There(x)' /\ owner'[x] = owner[x]) /\ Owns'
  <2>1. ASSUME NEW u \in Users, Connect(s, u)
        PROVE  (\A b \in Posts : \A x \in steady'[b] : There(x)' /\ owner'[x] = owner[x]) /\ Owns'
    <3>1. /\ place[s] = "new" /\ owner' = [owner EXCEPT ![s] = u] /\ active' = active
          /\ place' = [place EXCEPT ![s] = "accept"] /\ alive' = alive \cup {s}
      BY <2>1 DEF Connect
    <3>2. \A x \in Sockets \ {s} : owner'[x] = owner[x] /\ place'[x] = place[x]
      BY <3>1 DEF SocketTypes
    <3>3. \A v \in Users : active[v] # Absent => active[v] \in Sockets \ {s}
      BY <3>1 DEF PostInv, Owns, SocketTypes
    <3>4. Owns'
      BY <3>1, <3>2, <3>3 DEF PostInv, Owns
    <3>5. \A x \in Sockets : There(x) => There(x)' /\ owner'[x] = owner[x]
      BY <3>1, <3>2 DEF There
    <3> QED BY <1>3, <3>4, <3>5
  <2>2. CASE Register(s)
    <3>1. /\ place[s] = "accept" /\ active' = [active EXCEPT ![owner[s]] = s]
          /\ place' = [place EXCEPT ![s] = "hello"] /\ UNCHANGED <<owner, alive>>
          /\ steady' = [b \in Posts |-> {x \in steady[b] : owner[x] # owner[s]}]
      BY <2>2 DEF Register, Unsettle
    <3>2. /\ owner[s] \in Users /\ place'[s] = "hello" /\ active'[owner[s]] = s
          /\ \A x \in Sockets \ {s} : place'[x] = place[x]
          /\ \A v \in Users \ {owner[s]} : active'[v] = active[v]
      BY <3>1 DEF SocketTypes
    <3>3. Owns'
      BY <3>1, <3>2 DEF PostInv, Owns, SocketTypes
    <3>4. \A x \in Sockets : There(x) /\ owner[x] # owner[s] => There(x)'
      BY <3>1, <3>2 DEF There, SocketTypes
    <3>5. \A b \in Posts : \A x \in steady'[b] : owner[x] # owner[s]
      BY <3>1
    <3> QED BY <1>3, <3>1, <3>3, <3>4, <3>5
  <2>3. CASE Hello(s)
    <3>1. /\ place[s] = "hello" /\ UNCHANGED <<active, owner, alive>>
          /\ \E l \in {"loop", "end"} : place' = [place EXCEPT ![s] = l]
      BY <2>3 DEF Hello
    <3>2. place'[s] # "new" /\ \A x \in Sockets \ {s} : place'[x] = place[x]
      BY <3>1 DEF SocketTypes
    <3>3. Owns'
      BY <3>1, <3>2 DEF PostInv, Owns, SocketTypes
    <3>4. \A x \in Sockets : There(x) => There(x)'
      BY <3>1, <3>2 DEF There
    <3> QED BY <1>3, <3>1, <3>3, <3>4
  <2>4. CASE Drop(s)
    <3>1. /\ UNCHANGED <<active, owner, place>> /\ alive' = alive \ {s}
          /\ steady' = [b \in Posts |-> steady[b] \ {s}]
      BY <2>4 DEF Drop
    <3>2. Owns'
      BY <3>1 DEF PostInv, Owns
    <3>3. \A x \in Sockets : There(x) /\ x # s => There(x)'
      BY <3>1 DEF There
    <3>4. \A b \in Posts : \A x \in steady'[b] : x # s
      BY <3>1
    <3> QED BY <1>3, <3>1, <3>2, <3>3, <3>4
  <2>5. CASE Disconnect(s)
    <3>1. /\ place[s] = "loop" /\ active' = [active EXCEPT ![owner[s]] = Absent]
          /\ place' = [place EXCEPT ![s] = "end"] /\ UNCHANGED <<owner, alive>>
          /\ steady' = [b \in Posts |-> {x \in steady[b] : owner[x] # owner[s]}]
      BY <2>5 DEF Disconnect, Unsettle
    <3>2. /\ owner[s] \in Users /\ place'[s] = "end" /\ active'[owner[s]] = Absent
          /\ \A x \in Sockets \ {s} : place'[x] = place[x]
          /\ \A v \in Users \ {owner[s]} : active'[v] = active[v]
      BY <3>1 DEF SocketTypes
    <3>3. Owns'
      BY <3>1, <3>2 DEF PostInv, Owns, SocketTypes
    <3>4. \A x \in Sockets : There(x) /\ owner[x] # owner[s] => There(x)'
      BY <3>1, <3>2 DEF There, SocketTypes
    <3>5. \A b \in Posts : \A x \in steady'[b] : owner[x] # owner[s]
      BY <3>1
    <3> QED BY <1>3, <3>1, <3>3, <3>4, <3>5
  <2> QED BY <2>1, <2>2, <2>3, <2>4, <2>5
<1> QED BY <1>1, <1>2, <1>4, SameLists

\* A message of a client whose connection is not registered, or that is not JSON
LEMMA UnknownPostInv ==
  ASSUME SocketTypes, PostInv, NEW s \in Sockets, Ask(s, FALSE), UNCHANGED subs
  PROVE  PostInv'
<1>1. /\ place[s] = "loop" /\ place' = [place EXCEPT ![s] = "end"] /\ alive' = alive \ {s}
      /\ UNCHANGED <<active, owner, walkVars, skipped>>
      /\ steady' = [b \in Posts |-> {x \in steady[b] : owner[x] # owner[s]}]
  BY DEF Ask, Unsettle
<1>2. place'[s] = "end" /\ \A x \in Sockets \ {s} : place'[x] = place[x]
  BY <1>1 DEF SocketTypes
<1>3. /\ alive' \subseteq Sockets /\ steady' \in [Posts -> SUBSET Sockets]
      /\ \A b \in Posts : steady'[b] \subseteq steady[b]
  BY <1>1 DEF PostInv, PostTypes
<1>4. Owns'
  BY <1>1, <1>2 DEF PostInv, Owns, SocketTypes
<1>5. \A b \in Posts : \A x \in steady'[b] : There(x)' /\ owner'[x] = owner[x]
  <2> SUFFICES ASSUME NEW b \in Posts, NEW x \in steady'[b]
               PROVE  There(x)' /\ owner'[x] = owner[x]
    OBVIOUS
  <2>1. x \in Sockets /\ There(x) /\ x # s
    BY <1>1 DEF PostInv, PostTypes, WalkInv
  <2> QED BY <1>1, <1>2, <2>1 DEF There
<1> QED BY <1>1, <1>3, <1>4, <1>5, SameLists

\* A user leaves every list.
LEMMA WithoutLeaves ==
  ASSUME PostTypes, OnePlace, NEW u \in Users, subs' = Without(u)
  PROVE  /\ Leaves(u) /\ subs' \in [Wanted -> Seq(Users)]
         /\ \A c \in Wanted : \A j \in 1..Len(subs'[c]) : subs'[c][j] # u
<1>1. subs' \in [Wanted -> Seq(Users)]
  BY WithoutFacts DEF Without
<1>2. ASSUME NEW c \in Wanted
      PROVE  \E k, n \in Nat :
               /\ Shifts(c, u, k, n) /\ Len(subs'[c]) = n
               /\ \A j \in 1..n : subs'[c][j] = IF j < k THEN subs[c][j] ELSE subs[c][j + 1]
  BY WithoutFacts
<1>3. Leaves(u)
  <2> SUFFICES ASSUME NEW c \in Wanted
               PROVE  \E k, n \in Nat :
                        /\ Shifts(c, u, k, n) /\ n <= Len(subs'[c])
                        /\ \A j \in 1..n : subs'[c][j] = IF j < k THEN subs[c][j] ELSE subs[c][j + 1]
                        /\ \A j \in 1..Len(subs'[c]) : j > n => subs'[c][j] = u
    BY DEF Leaves
  <2>1. PICK k \in Nat, n \in Nat :
          /\ Shifts(c, u, k, n) /\ Len(subs'[c]) = n
          /\ \A j \in 1..n : subs'[c][j] = IF j < k THEN subs[c][j] ELSE subs[c][j + 1]
    BY <1>2
  <2> QED BY <2>1
<1>4. ASSUME NEW c \in Wanted, NEW j \in 1..Len(subs'[c])
      PROVE  subs'[c][j] # u
  <2>1. PICK k \in Nat, n \in Nat :
          /\ Shifts(c, u, k, n) /\ Len(subs'[c]) = n
          /\ \A i \in 1..n : subs'[c][i] = IF i < k THEN subs[c][i] ELSE subs[c][i + 1]
    BY <1>2
  <2>2. Len(subs[c]) \in Nat /\ j \in 1..n
    BY <2>1 DEF PostTypes
  <2>3. CASE j < k
    <3>1. j \in 1..Len(subs[c]) /\ j # k
      BY <2>1, <2>2, <2>3 DEF Shifts
    <3> QED BY <2>1, <2>2, <2>3, <3>1 DEF Shifts
  <2>4. CASE ~(j < k)
    <3>1. j + 1 \in 1..Len(subs[c]) /\ j + 1 # k
      BY <2>1, <2>2, <2>4 DEF Shifts
    <3> QED BY <2>1, <2>2, <2>4, <3>1 DEF Shifts
  <2> QED BY <2>3, <2>4
<1> QED BY <1>1, <1>3, <1>4

\* A user leaves every list and joins one.
LEMMA JoinLeaves ==
  ASSUME PostTypes, OnePlace, NEW u \in Users, NEW c \in Wanted,
         subs' = [Without(u) EXCEPT ![c] = Append(@, u)]
  PROVE  /\ Leaves(u) /\ subs' \in [Wanted -> Seq(Users)]
         /\ \A d \in Wanted : \A j \in 1..Len(subs'[d]) : subs'[d][j] = u => d = c /\ j = Len(subs'[d])
<1> DEFINE without == Without(u)
<1>1. without \in [Wanted -> Seq(Users)]
  BY WithoutFacts DEF Without
<1>2. ASSUME NEW d \in Wanted
      PROVE  \E k, n \in Nat :
               /\ Shifts(d, u, k, n) /\ Len(without[d]) = n
               /\ \A j \in 1..n : without[d][j] = IF j < k THEN subs[d][j] ELSE subs[d][j + 1]
  BY WithoutFacts
<1> HIDE DEF without
<1>3. subs' = [without EXCEPT ![c] = Append(without[c], u)]
  BY DEF without
<1>4. subs' \in [Wanted -> Seq(Users)]
  <2>1. Append(without[c], u) \in Seq(Users)
    BY <1>1
  <2> QED BY <1>1, <1>3, <2>1
<1>5. /\ \A d \in Wanted \ {c} : subs'[d] = without[d]
      /\ Len(without[c]) \in Nat /\ Len(subs'[c]) = Len(without[c]) + 1 /\ subs'[c][Len(subs'[c])] = u
      /\ \A j \in 1..Len(without[c]) : subs'[c][j] = without[c][j]
  BY <1>1, <1>3
<1>6. ASSUME NEW d \in Wanted
      PROVE  /\ Len(without[d]) <= Len(subs'[d])
             /\ \A j \in 1..Len(without[d]) : subs'[d][j] = without[d][j]
             /\ \A j \in 1..Len(subs'[d]) :
                  j > Len(without[d]) => d = c /\ j = Len(subs'[d]) /\ subs'[d][j] = u
  <2>1. CASE d = c
    BY <1>5, <2>1
  <2>2. CASE d # c
    <3>1. subs'[d] = without[d] /\ without[d] \in Seq(Users)
      BY <1>1, <1>5, <2>2
    <3>2. Len(without[d]) \in Nat
      BY <3>1
    <3>3. \A j \in 1..Len(without[d]) : ~(j > Len(without[d]))
      BY <3>2
    <3>4. Len(without[d]) <= Len(without[d])
      BY <3>2
    <3> QED BY <3>1, <3>3, <3>4
  <2> QED BY <2>1, <2>2
<1>7. Leaves(u)
  <2> SUFFICES ASSUME NEW d \in Wanted
               PROVE  \E k, n \in Nat :
                        /\ Shifts(d, u, k, n) /\ n <= Len(subs'[d])
                        /\ \A j \in 1..n : subs'[d][j] = IF j < k THEN subs[d][j] ELSE subs[d][j + 1]
                        /\ \A j \in 1..Len(subs'[d]) : j > n => subs'[d][j] = u
    BY DEF Leaves
  <2>1. PICK k \in Nat, n \in Nat :
          /\ Shifts(d, u, k, n) /\ Len(without[d]) = n
          /\ \A j \in 1..n : without[d][j] = IF j < k THEN subs[d][j] ELSE subs[d][j + 1]
    BY <1>2
  <2> QED BY <1>6, <2>1
<1>8. ASSUME NEW d \in Wanted, NEW j \in 1..Len(subs'[d]), subs'[d][j] = u
      PROVE  d = c /\ j = Len(subs'[d])
  <2>1. PICK k \in Nat, n \in Nat :
          /\ Shifts(d, u, k, n) /\ Len(without[d]) = n
          /\ \A i \in 1..n : without[d][i] = IF i < k THEN subs[d][i] ELSE subs[d][i + 1]
    BY <1>2
  <2>2. Len(subs[d]) \in Nat /\ Len(subs'[d]) \in Nat
    BY <1>4 DEF PostTypes
  <2>3. CASE j > n
    BY <1>6, <2>1, <2>3
  <2>4. CASE j <= n /\ j < k
    <3>1. j \in 1..n /\ j \in 1..Len(subs[d]) /\ j # k
      BY <2>1, <2>2, <2>4 DEF Shifts
    <3>2. subs[d][j] = u
      BY <1>6, <1>8, <2>1, <2>4, <3>1
    <3> QED BY <2>1, <3>1, <3>2 DEF Shifts
  <2>5. CASE j <= n /\ ~(j < k)
    <3>1. j \in 1..n /\ j + 1 \in 1..Len(subs[d]) /\ j + 1 # k
      BY <2>1, <2>2, <2>5 DEF Shifts
    <3>2. subs[d][j + 1] = u
      BY <1>6, <1>8, <2>1, <2>5, <3>1
    <3> QED BY <2>1, <3>1, <3>2 DEF Shifts
  <2> QED BY <2>1, <2>3, <2>4, <2>5
<1> QED BY <1>4, <1>7, <1>8

\* A message of a client
LEMMA AskPostInv ==
  ASSUME SocketTypes, PostInv, NEW s \in Sockets,
         (\E c \in Wanted : Subscribe(s, c)) \/ Unsubscribe(s) \/ BadMessage(s)
  PROVE  PostInv'
<1> DEFINE u == owner[s]
<1>1. place[s] = "loop" /\ u \in Users
  BY DEF Subscribe, Unsubscribe, BadMessage, Ask, SocketTypes
<1>2. CASE BadMessage(s)
  BY <1>2, UnknownPostInv DEF BadMessage
<1>3. CASE ~Registered(s) /\ ((\E c \in Wanted : Subscribe(s, c)) \/ Unsubscribe(s))
  <2>1. Registered(s) = FALSE
    BY <1>3 DEF Registered
  <2>2. Ask(s, FALSE) /\ UNCHANGED subs
    BY <1>3, <2>1 DEF Subscribe, Unsubscribe
  <2> QED BY <2>2, UnknownPostInv
<1>4. CASE Registered(s) /\ ((\E c \in Wanted : Subscribe(s, c)) \/ Unsubscribe(s))
  <2>1. /\ UNCHANGED <<active, owner, place, alive, walkVars>> /\ Unsettle(u)
        /\ skipped' = [b \in Posts |-> skipped[b] \cup Missed(b, u)]
    BY <1>4 DEF Subscribe, Unsubscribe, Ask
  <2>2. PostTypes /\ OnePlace
    BY DEF PostInv
  <2>3. ASSUME NEW c \in Wanted, Subscribe(s, c)
        PROVE  PostInv'
    <3>1. subs' = [Without(u) EXCEPT ![c] = Append(@, u)]
      BY <1>4, <2>3 DEF Subscribe
    <3>2. /\ Leaves(u) /\ subs' \in [Wanted -> Seq(Users)]
          /\ \A d \in Wanted : \A j \in 1..Len(subs'[d]) : subs'[d][j] = u => d = c /\ j = Len(subs'[d])
      BY <1>1, <2>2, <3>1, JoinLeaves
    <3>3. \A d, e \in Wanted : \A i \in 1..Len(subs'[d]), j \in 1..Len(subs'[e]) :
            subs'[d][i] = u /\ subs'[e][j] = u => d = e /\ i = j
      BY <3>2
    <3> HIDE DEF u
    <3> QED BY <1>1, <2>1, <3>2, <3>3, LeavesPostInv
  <2>4. CASE Unsubscribe(s)
    <3>1. subs' = Without(u)
      BY <1>4, <2>4 DEF Unsubscribe
    <3>2. /\ Leaves(u) /\ subs' \in [Wanted -> Seq(Users)]
          /\ \A c \in Wanted : \A j \in 1..Len(subs'[c]) : subs'[c][j] # u
      BY <1>1, <2>2, <3>1, WithoutLeaves
    <3>3. \A d, e \in Wanted : \A i \in 1..Len(subs'[d]), j \in 1..Len(subs'[e]) :
            subs'[d][i] = u /\ subs'[e][j] = u => d = e /\ i = j
      BY <3>2
    <3> HIDE DEF u
    <3> QED BY <1>1, <2>1, <3>2, <3>3, LeavesPostInv
  <2> QED BY <1>4, <2>3, <2>4
<1> QED BY <1>2, <1>3, <1>4

\* At first there are no subscribers and no broadcasts.
LEMMA InitPostInv == ServerInit => PostInv
<1> SUFFICES ASSUME ServerInit PROVE PostInv
  OBVIOUS
<1> USE DEF ServerInit
<1>1. PostTypes
  BY DEF PostTypes
<1>2. Owns /\ OnePlace
  BY DEF Owns, OnePlace
<1>3. \A b \in Posts : WalkInv(b)
  BY DEF WalkInv
<1> QED BY <1>1, <1>2, <1>3 DEF PostInv

\* Every step keeps it.
LEMMA StepPostInv == SocketTypes /\ PostInv /\ [ServerNext]_serverVars => PostInv'
<1> SUFFICES ASSUME SocketTypes, PostInv, [ServerNext]_serverVars PROVE PostInv'
  OBVIOUS
<1>1. CASE UNCHANGED serverVars
  <2>1. /\ UNCHANGED <<subs, walkVars, skipped, active, owner, place, alive>>
        /\ steady' = steady
    BY <1>1 DEF serverVars, socketVars
  <2>2. \A b \in Posts : \A s \in steady[b] : There(s) /\ There(s)'
    BY <2>1 DEF PostInv, WalkInv, There
  <2>3. Owns'
    BY <2>1 DEF PostInv, Owns
  <2>4. alive' \subseteq Sockets /\ steady' \in [Posts -> SUBSET Sockets]
    BY <2>1 DEF PostInv, PostTypes
  <2> QED BY <2>1, <2>2, <2>3, <2>4, SameLists
<1>2. ASSUME NEW s \in Sockets,
             (\E u \in Users : Connect(s, u)) \/ Register(s) \/ Hello(s) \/ Drop(s) \/ Disconnect(s)
      PROVE  PostInv'
  BY <1>2, TaskPostInv
<1>3. ASSUME NEW s \in Sockets, (\E c \in Wanted : Subscribe(s, c)) \/ Unsubscribe(s) \/ BadMessage(s)
      PROVE  PostInv'
  BY <1>3, AskPostInv
<1>4. ASSUME NEW b \in Posts, NEW e \in Events, Post(b, e) PROVE PostInv'
  BY <1>4, PostPostInv
<1>5. ASSUME NEW b \in Posts, SendNext(b) PROVE PostInv'
  BY <1>5, SendNextPostInv
<1>6. ASSUME NEW b \in Posts, NEW c \in rest[b], NEW before \in SUBSET (rest[b] \ {c}), SendFirst(b, c, before)
      PROVE  PostInv'
  BY <1>6, SendFirstPostInv
<1>7. ASSUME NEW b \in Posts, Finish(b) PROVE PostInv'
  BY <1>7, FinishPostInv
<1> QED BY <1>1, <1>2, <1>3, <1>4, <1>5, <1>6, <1>7 DEF ServerNext

\* A broadcast that comes to its end has gone once to every connection that was there from
\* its beginning on, but not to a user whom it missed since the list moved under it.
THEOREM DeliveredAlways == ServerSpec => []Delivered
<1>1. SocketInv => SocketTypes
  BY DEF SocketInv
<1>2. PostInv => Delivered
  BY DEF PostInv, WalkInv, Served, Delivered
<1> QED BY <1>1, <1>2, InitSocketInv, StepSocketInv, InitPostInv, StepPostInv, PTL DEF ServerSpec

(***************************************************************************)
(* The types of the server.  They bound a list by the number of users.     *)
(***************************************************************************)
\* A list is at most as long as there are users, and a user has one subscription at most.
LEMMA ListBounds ==
  ASSUME PostTypes, OnePlace
  PROVE  /\ Cardinality(Users) \in Nat
         /\ \A c \in Wanted : Len(subs[c]) <= Cardinality(Users)
         /\ \A u \in Users : Cardinality(Subscriptions(u)) <= 1
<1>1. Cardinality(Users) \in Nat
  BY UsersAssumption, FS_CardinalityType
<1>2. ASSUME NEW c \in Wanted
      PROVE  Len(subs[c]) <= Cardinality(Users)
  <2>1. subs[c] \in Seq(Users) /\ Len(subs[c]) \in Nat
    BY DEF PostTypes
  <2>2. subs[c] \in [1..Len(subs[c]) -> Users]
    BY <2>1
  <2>3. \A i, j \in 1..Len(subs[c]) : subs[c][i] = subs[c][j] => i = j
    BY DEF OnePlace
  <2>4. subs[c] \in Injection(1..Len(subs[c]), Users)
    BY <2>2, <2>3 DEF Injection, IsInjective
  <2>5. Cardinality(1..Len(subs[c])) <= Cardinality(Users)
    BY <2>4, UsersAssumption, FS_Injection
  <2>6. Cardinality(1..Len(subs[c])) = Len(subs[c])
    BY <2>1, FS_Interval
  <2> QED BY <2>5, <2>6
<1>3. ASSUME NEW u \in Users
      PROVE  Cardinality(Subscriptions(u)) <= 1
  <2>1. ASSUME NEW p \in Subscriptions(u), NEW q \in Subscriptions(u)
        PROVE  p = q
    <3>1. /\ p = <<p[1], p[2]>> /\ q = <<q[1], q[2]>> /\ p[1] \in Wanted /\ q[1] \in Wanted
          /\ p[2] \in 1..Cardinality(Users) /\ q[2] \in 1..Cardinality(Users)
          /\ p[2] <= Len(subs[p[1]]) /\ q[2] <= Len(subs[q[1]])
          /\ subs[p[1]][p[2]] = u /\ subs[q[1]][q[2]] = u
      BY DEF Subscriptions
    <3>2. Len(subs[p[1]]) \in Nat /\ Len(subs[q[1]]) \in Nat
      BY <3>1 DEF PostTypes
    <3>3. p[2] \in 1..Len(subs[p[1]]) /\ q[2] \in 1..Len(subs[q[1]])
      BY <1>1, <3>1, <3>2
    <3> QED BY <3>1, <3>3 DEF OnePlace
  <2>2. CASE Subscriptions(u) = {}
    BY <2>2, FS_EmptySet
  <2>3. CASE Subscriptions(u) # {}
    <3>1. PICK p : p \in Subscriptions(u)
      BY <2>3
    <3>2. Subscriptions(u) = {p}
      BY <2>1, <3>1
    <3>3. Cardinality({p}) = 1
      BY FS_Singleton
    <3> QED BY <3>2, <3>3
  <2> QED BY <2>2, <2>3
<1> QED BY <1>1, <1>2, <1>3

\* What the types have beyond those of the connections and the broadcasts
Bounded ==
  /\ shadowed \subseteq Sockets /\ asks \in 0..MaxAsks
  /\ \A b \in Posts : next[b] <= Cardinality(Users) + 1

ServerInv == SocketInv /\ PostInv /\ Bounded

\* The place that a walk is at is in a list, or right behind it.
LEMMA StepBounded == ServerInv /\ [ServerNext]_serverVars => Bounded'
<1> SUFFICES ASSUME ServerInv, [ServerNext]_serverVars PROVE Bounded'
  OBVIOUS
<1> USE DEF ServerInv, Bounded
<1>1. PostTypes /\ OnePlace /\ Cardinality(Users) \in Nat
  BY ListBounds DEF PostInv
<1>2. CASE UNCHANGED serverVars
  BY <1>2 DEF serverVars, socketVars, walkVars
<1>3. ASSUME NEW s \in Sockets,
             (\E u \in Users : Connect(s, u)) \/ Register(s) \/ Hello(s) \/ Drop(s) \/ Disconnect(s)
      PROVE  Bounded'
  BY <1>3 DEF Connect, Register, Hello, Drop, Disconnect, walkVars
<1>4. ASSUME NEW s \in Sockets, (\E c \in Wanted : Subscribe(s, c)) \/ Unsubscribe(s) \/ BadMessage(s)
      PROVE  Bounded'
  <2>1. asks < MaxAsks /\ asks' = asks + 1 /\ UNCHANGED <<shadowed, next>>
    BY <1>4 DEF Subscribe, Unsubscribe, BadMessage, Ask, walkVars
  <2> QED BY <2>1, AsksAssumption
<1>5. ASSUME NEW b \in Posts, (\E e \in Events : Post(b, e)) \/ Finish(b)
      PROVE  Bounded'
  BY <1>5 DEF Post, Finish, socketVars
<1>6. ASSUME NEW b \in Posts, NEW c \in Wanted, NEW from \in Nat \ {0}, Ahead(c, from) # {},
             SendTo(b, c, Ahead(c, from)), UNCHANGED socketVars
      PROVE  Bounded'
  <2> DEFINE i == CHOOSE i \in Ahead(c, from) : \A j \in Ahead(c, from) : i <= j
  <2>1. i \in Ahead(c, from)
    BY <1>1, <1>6, FirstAhead
  <2>2. next' = [next EXCEPT ![b] = i + 1] /\ UNCHANGED <<shadowed, asks>>
    BY <1>6 DEF SendTo, socketVars
  <2> HIDE DEF i
  <2>3. Len(subs[c]) \in Nat /\ Len(subs[c]) <= Cardinality(Users)
    BY <1>1, ListBounds DEF PostTypes
  <2>4. i \in Nat /\ i <= Len(subs[c])
    BY <2>1, <2>3 DEF Ahead
  <2>5. i + 1 <= Cardinality(Users) + 1
    BY <1>1, <2>3, <2>4
  <2> QED BY <1>1, <2>2, <2>5 DEF PostTypes
<1>7. ASSUME NEW b \in Posts, SendNext(b) PROVE Bounded'
  <2>1. chan[b] \in Wanted /\ next[b] \in Nat \ {0} /\ Here(b) = Ahead(chan[b], next[b]) /\ Here(b) # {}
    BY <1>1, <1>7 DEF SendNext, Here, PostTypes
  <2> QED BY <1>6, <1>7, <2>1 DEF SendNext
<1>8. ASSUME NEW b \in Posts, NEW c \in rest[b], NEW before \in SUBSET (rest[b] \ {c}), SendFirst(b, c, before)
      PROVE  Bounded'
  <2>1. c \in Wanted
    BY <1>1 DEF PostTypes
  <2> QED BY <1>6, <1>8, <2>1 DEF SendFirst
<1> QED BY <1>2, <1>3, <1>4, <1>5, <1>7, <1>8 DEF ServerNext

\* The types hold, and no list has two places of a user.
THEOREM ServerTypeCorrect == ServerSpec => []ServerTypeOK
<1>1. ServerInit => Bounded
  BY AsksAssumption, UsersAssumption, FS_CardinalityType DEF ServerInit, Bounded
<1>2. ServerInit => ServerInv
  BY <1>1, InitSocketInv, InitPostInv DEF ServerInv
<1>3. ServerInv /\ [ServerNext]_serverVars => ServerInv'
  BY StepSocketInv, StepPostInv, StepBounded DEF ServerInv, SocketInv
<1>4. ASSUME ServerInv PROVE ServerTypeOK
  <2>1. SocketTypes /\ PostTypes /\ OnePlace /\ Owns /\ Bounded
    BY <1>4 DEF ServerInv, SocketInv, PostInv
  <2>2. \A b \in Posts : next[b] \in 1..(Cardinality(Users) + 1)
    BY <2>1, ListBounds DEF PostTypes, Bounded
  <2> QED BY <2>1, <2>2, ListBounds DEF ServerTypeOK, SocketTypes, PostTypes, Owns, Bounded, Stages
<1> QED BY <1>2, <1>3, <1>4, PTL DEF ServerSpec
=============================================================================
