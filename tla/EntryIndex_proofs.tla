--------------------------- MODULE EntryIndex_proofs ---------------------------
(***************************************************************************)
(* Proof that the index tells what the files say, for any number of paths, *)
(* requests, crashes and rebuilds.                                         *)
(***************************************************************************)
EXTENDS EntryIndex, TLAPS

Written == {"create", "update"}
Moving == {"mv_del", "mv_put", "mv_get", "mv_pdel", "mv_pput"}

\* A request is only where its kind leads, and its task comes after it.
Fit(r) ==
  /\ pc[r] = "idle" => tpc[r] = "none" /\ r \notin met
  /\ pc[r] # "idle" => /\ path[r] \in Paths /\ kind[r] # "none"
                       /\ kind[r] = "move" => dest[r] \in Paths \ {path[r]}
                       /\ kind[r] # "move" => dest[r] = None
  /\ tpc[r] # "none" => pc[r] = "done"
  /\ pc[r] = "check" => kind[r] = "create"
  /\ pc[r] = "load" => kind[r] # "create"
  /\ pc[r] \in {"save", "payload"} => kind[r] \in Written
  /\ pc[r] = "remove" => kind[r] = "delete"
  /\ pc[r] = "rename" => kind[r] = "move" /\ seen[r] # None
  /\ tpc[r] \in {"body", "put_meta", "put_payload"} => kind[r] \in Written
  /\ tpc[r] \in {"del_meta", "del_payload"} => kind[r] = "delete"
  /\ tpc[r] \in Moving => kind[r] = "move"
Fitting == \A r \in Requests : Fit(r)

\* No payload file without a meta file
Whole == \A p \in Paths : meta[p] = None => body[p] = None

\* What the documents of a path should be
Stands(doc, file) == doc = file \/ (doc = Empty /\ file = None)
Right(p) == idx[p] = meta[p] /\ Stands(pdx[p], body[p])

\* Two requests at work on a path have both met, as have all that work during a rebuild; the
\* paths of one that has are disturbed.
Company ==
  /\ \A r, s \in Requests : r # s /\ Active(r) /\ Active(s) /\ Touches(r) \cap Touches(s) # {} => r \in met
  /\ rpc # "off" => AllActive \subseteq met
  /\ \A r \in met : Active(r) => Touches(r) \subseteq disturbed

Under(r) == pc[r] = "announce" \/ tpc[r] \notin {"none", "done"}

\* What a request that works alone knows while it has written nothing,
AloneBefore(r) ==
  LET p == path[r] IN
  /\ pc[r] \in {"check", "load", "remove", "rename"} => \A x \in Touches(r) \ disturbed : Right(x)
  /\ pc[r] = "save" /\ kind[r] = "update" => meta[p] # None
  /\ pc[r] = "remove" => meta[p] # None
  /\ pc[r] = "rename" => meta[p] # None /\ seen[r] = meta[p]
\* and when it has written an entry,
AloneWriting(r) ==
  LET p == path[r] IN
  /\ kind[r] \in Written /\ (pc[r] = "payload" \/ Under(r)) => meta[p] = r
  /\ kind[r] \in Written /\ Under(r) => body[p] = r
  /\ tpc[r] \in {"body", "put_meta", "put_payload"} => tm[r] = r
  /\ tpc[r] \in {"put_meta", "put_payload"} => tb[r] = r
  /\ tpc[r] = "put_payload" => idx[p] = r
\* deleted it
AloneDeleting(r) ==
  LET p == path[r] IN
  p \notin disturbed =>
    /\ kind[r] = "delete" /\ Under(r) => meta[p] = None
    /\ kind[r] = "delete" /\ (pc[r] = "announce" \/ tpc[r] = "start") => idx[p] # None
    /\ tpc[r] \in {"del_meta", "del_payload"} => tm[r] # None
    /\ tpc[r] = "del_payload" => idx[p] = None
\* or moved it.
AloneMoving(r) ==
  LET p == path[r]  q == dest[r] IN
  /\ kind[r] = "move" /\ Under(r) => meta[q] # None
  /\ tpc[r] \in Moving => tm[r] = meta[q]
  /\ tpc[r] \in {"mv_get", "mv_pdel", "mv_pput"} => idx[q] = meta[q]
  /\ p \notin disturbed =>
       /\ kind[r] = "move" /\ Under(r) => meta[p] = None
       /\ tpc[r] \in Moving \ {"mv_del"} => idx[p] = None
       /\ tpc[r] = "mv_pput" => pdx[p] = None
  /\ q \notin disturbed =>
       /\ kind[r] = "move" /\ Under(r) /\ tpc[r] \notin {"mv_pdel", "mv_pput"} => Stands(pdx[p], body[q])
       /\ tpc[r] \in {"mv_pdel", "mv_pput"} => Stands(tb[r], body[q])
Alone(r) == AloneBefore(r) /\ AloneWriting(r) /\ AloneDeleting(r) /\ AloneMoving(r)
Lonely == \A r \in Requests \ met : Active(r) => Alone(r)

\* What create_index has read of a path nobody works on is what the files say.
Rebuilding ==
  /\ rpc = "put" => rtodo = {}
  /\ rpc # "off" => \A p \in Paths \ disturbed :
       /\ idx[p] = None /\ pdx[p] = None
       /\ p \notin rtodo => rm[p] = meta[p] /\ rb[p] = body[p]

IInv == TypeOK /\ Fitting /\ Whole /\ Company /\ Lonely /\ Rebuilding /\ IndexTruthful

-----------------------------------------------------------------------------
Act(r) == Begin(r) \/ RequestStep(r) \/ TaskStep(r) \/ Crash(r)
Works(r) == RequestStep(r) \/ TaskStep(r) \/ Crash(r)

\* It holds at first.
LEMMA InitIInv == Init => IInv
<1> SUFFICES ASSUME Init  PROVE IInv
  OBVIOUS
<1>1. TypeOK  BY BoundAssumption DEF Init, TypeOK, Contents, Kinds, Points, TaskPoints, Nothing
<1>2. \A r \in Requests : ~Active(r) /\ pc[r] = "idle" /\ tpc[r] = "none"  BY DEF Init, Active
<1>3. Fitting /\ Lonely /\ Company  BY <1>2 DEF Init, Fitting, Fit, Lonely, Company, Moving
<1>4. Whole /\ Rebuilding /\ IndexTruthful  BY DEF Init, Whole, Rebuilding, IndexTruthful
<1> QED BY <1>1, <1>3, <1>4 DEF IInv

\* A step of a request leaves the others and the rebuild where they are.
LEMMA OthersStay ==
  ASSUME TypeOK, NEW r \in Requests, Act(r)
  PROVE  /\ \A s \in Requests \ {r} : /\ pc'[s] = pc[s] /\ tpc'[s] = tpc[s] /\ kind'[s] = kind[s]
                                      /\ path'[s] = path[s] /\ dest'[s] = dest[s]
                                      /\ seen'[s] = seen[s] /\ tm'[s] = tm[s] /\ tb'[s] = tb[s]
         /\ UNCHANGED rebuildVars
<1> USE DEF TypeOK, jobVars, taskVars, rebuildVars, Goto, Task, Reads
<1>1. CASE Begin(r)  BY <1>1 DEF Begin
<1>2. CASE CheckNew(r)  BY <1>2 DEF CheckNew
<1>3. CASE LoadEntry(r)  BY <1>3 DEF LoadEntry
<1>4. CASE Save(r)  BY <1>4 DEF Save
<1>5. CASE SavePayload(r)  BY <1>5 DEF SavePayload
<1>6. CASE Remove(r)  BY <1>6 DEF Remove
<1>7. CASE Rename(r)  BY <1>7 DEF Rename
<1>8. CASE Announce(r)  BY <1>8 DEF Announce
<1>9. CASE HookLoad(r)  BY <1>9 DEF HookLoad
<1>10. CASE HookBody(r)  BY <1>10 DEF HookBody
<1>11. CASE PutMeta(r) \/ PutPayload(r)  BY <1>11 DEF PutMeta, PutPayload
<1>12. CASE HookFind(r)  BY <1>12 DEF HookFind
<1>13. CASE DelMeta(r) \/ DelPayload(r)  BY <1>13 DEF DelMeta, DelPayload
<1>14. CASE MoveDel(r) \/ MovePut(r)  BY <1>14 DEF MoveDel, MovePut
<1>15. CASE MoveGet(r)  BY <1>15 DEF MoveGet
<1>16. CASE MovePayloadDel(r) \/ MovePayloadPut(r)  BY <1>16 DEF MovePayloadDel, MovePayloadPut
<1>17. CASE Crash(r)  BY <1>17 DEF Crash
<1> QED BY <1>1, <1>2, <1>3, <1>4, <1>5, <1>6, <1>7, <1>8, <1>9, <1>10, <1>11, <1>12, <1>13, <1>14,
           <1>15, <1>16, <1>17 DEF Act, RequestStep, TaskStep

\* A request at work is about the paths it came for.
LEMMA SameJob ==
  ASSUME TypeOK, NEW r \in Requests, Works(r)
  PROVE  UNCHANGED jobVars /\ Active(r) /\ ~Begin(r)
<1>1. UNCHANGED jobVars
  BY DEF Works, RequestStep, TaskStep, Task, CheckNew, LoadEntry, Save, SavePayload, Remove, Rename, Announce,
         HookLoad, HookBody, PutMeta, PutPayload, HookFind, DelMeta, DelPayload, MoveDel, MovePut,
         MoveGet, MovePayloadDel, MovePayloadPut, Crash
<1>2. Active(r)
  BY DEF Active, Works, RequestStep, TaskStep, Task, CheckNew, LoadEntry, Save, SavePayload, Remove, Rename,
         Announce, HookLoad, HookBody, PutMeta, PutPayload, HookFind, DelMeta, DelPayload, MoveDel, MovePut,
         MoveGet, MovePayloadDel, MovePayloadPut, Crash
<1>3. Begin(r) => pc[r] = "idle" /\ pc'[r] \in {"check", "load"} /\ UNCHANGED tpc
  BY DEF Begin, Goto, TypeOK, taskVars
<1>4. ~Begin(r)
  <2>1. RequestStep(r) => pc[r] # "idle"
    BY DEF RequestStep, CheckNew, LoadEntry, Save, SavePayload, Remove, Rename, Announce
  <2>2. TaskStep(r) => pc' = pc
    BY DEF TaskStep, Task, HookLoad, HookBody, PutMeta, PutPayload, HookFind, DelMeta, DelPayload, MoveDel,
           MovePut, MoveGet, MovePayloadDel, MovePayloadPut
  <2>3. Crash(r) => pc'[r] = "done"  BY DEF Crash, Goto, TypeOK
  <2> QED BY <1>3, <2>1, <2>2, <2>3 DEF Works
<1> QED BY <1>1, <1>2, <1>4

\* It writes to those only.
LEMMA WritesAtHome ==
  ASSUME TypeOK, NEW r \in Requests, Works(r), NEW x \in Paths, x \notin Touches(r)
  PROVE  meta'[x] = meta[x] /\ body'[x] = body[x] /\ idx'[x] = idx[x] /\ pdx'[x] = pdx[x]
<1>0. x # path[r] /\ x # dest[r]  BY DEF Touches
<1> USE <1>0 DEF TypeOK, fileVars, docVars, Task
<1>1. CASE CheckNew(r) \/ LoadEntry(r) \/ Announce(r) \/ Crash(r)  BY <1>1 DEF CheckNew, LoadEntry, Announce, Crash
<1>2. CASE Save(r)  BY <1>2 DEF Save
<1>3. CASE SavePayload(r)  BY <1>3 DEF SavePayload
<1>4. CASE Remove(r)  BY <1>4 DEF Remove
<1>5. CASE Rename(r)  BY <1>5 DEF Rename
<1>6. CASE HookLoad(r) \/ HookBody(r) \/ HookFind(r) \/ MoveGet(r)  BY <1>6 DEF HookLoad, HookBody, HookFind, MoveGet
<1>7. CASE PutMeta(r) \/ PutPayload(r)  BY <1>7 DEF PutMeta, PutPayload
<1>8. CASE DelMeta(r) \/ DelPayload(r)  BY <1>8 DEF DelMeta, DelPayload
<1>9. CASE MoveDel(r) \/ MovePut(r)  BY <1>9 DEF MoveDel, MovePut
<1>10. CASE MovePayloadDel(r) \/ MovePayloadPut(r)  BY <1>10 DEF MovePayloadDel, MovePayloadPut
<1> QED BY <1>1, <1>2, <1>3, <1>4, <1>5, <1>6, <1>7, <1>8, <1>9, <1>10 DEF Works, RequestStep, TaskStep

\* A step of the hook changes the histories only when it ends a create or an update alone.
LEMMA TaskHistories ==
  ASSUME NEW r \in Requests, TaskStep(r), TypeOK
  PROVE  \/ UNCHANGED historyVars
         \/ /\ met' = met /\ disturbed' = disturbed \ {path[r]}
            /\ r \notin met /\ kind[r] \in Written /\ tpc'[r] = "done"
<1>1. PICK f, t : Task(r, f, t)
  BY DEF TaskStep, HookLoad, HookBody, PutMeta, PutPayload, HookFind, DelMeta, DelPayload,
         MoveDel, MovePut, MoveGet, MovePayloadDel, MovePayloadPut
<1> QED BY <1>1 DEF Task, Vouch, Written, TypeOK

\* What a step of a request at work does to the histories
LEMMA Histories ==
  ASSUME TypeOK, NEW r \in Requests, Works(r), Fit(r)
  PROVE  /\ met' = met
         /\ \/ disturbed \subseteq disturbed' /\ disturbed' \subseteq disturbed \cup Touches(r)
            \/ /\ disturbed' = disturbed \ {path[r]} /\ TaskStep(r)
               /\ r \notin met /\ kind[r] \in Written /\ tpc'[r] = "done"
<1> USE DEF historyVars
<1>0. pc[r] \notin {"idle", "done"} => path[r] \in Touches(r)  BY DEF Fit, Touches
<1>1. CASE CheckNew(r) \/ LoadEntry(r) \/ Save(r) \/ SavePayload(r) \/ Announce(r)
  BY <1>1 DEF CheckNew, LoadEntry, Save, SavePayload, Announce
<1>2. CASE Remove(r)  BY <1>0, <1>2 DEF Remove, Disturb
<1>3. CASE Rename(r)
  <2>1. path[r] \in Touches(r) /\ dest[r] \in Touches(r)  BY <1>3 DEF Rename, Fit, Touches
  <2> QED BY <1>3, <2>1 DEF Rename, Disturb
<1>4. CASE Crash(r)  BY <1>4 DEF Crash, Disturb
<1>5. CASE TaskStep(r)  BY <1>5, TaskHistories
<1> QED BY <1>1, <1>2, <1>3, <1>4, <1>5 DEF Works, RequestStep

\* Whoever arrives where somebody is at work is marked, and so are they and their paths.
LEMMA Arrival ==
  ASSUME TypeOK, Fitting, NEW r \in Requests, Begin(r)
  PROVE  /\ ~Active(r) /\ r \notin met /\ Active(r)' /\ kind'[r] # "none" /\ kind'[r] \in Kinds
         /\ pc'[r] = (IF kind'[r] = "create" THEN "check" ELSE "load") /\ tpc'[r] = "none"
         /\ path'[r] \in Paths
         /\ dest'[r] \in (IF kind'[r] = "move" THEN Paths \ {path'[r]} ELSE {None})
         /\ UNCHANGED <<meta, body, idx, pdx, seen, tm, tb>>
         /\ met \subseteq met' /\ disturbed \subseteq disturbed'
         /\ met' \subseteq met \cup {r} \cup {o \in AllActive : Touches(o) \cap Touches(r)' # {}}
         /\ disturbed' \subseteq disturbed \cup Touches(r)'
                                 \cup UNION {Touches(o) : o \in {o \in AllActive : Touches(o) \cap Touches(r)' # {}}}
         /\ \A o \in AllActive : Touches(o) \cap Touches(r)' # {} =>
              o \in met' /\ r \in met' /\ Touches(o) \subseteq disturbed'
         /\ rpc # "off" => r \in met'
         /\ r \in met' => Touches(r)' \subseteq disturbed'
<1>1. PICK p \in Paths, q \in Paths \cup {None}, k \in Kinds \ {"none"} :
        /\ IF k = "move" THEN q \in Paths \ {p} ELSE q = None
        /\ path' = [path EXCEPT ![r] = p] /\ dest' = [dest EXCEPT ![r] = q] /\ kind' = [kind EXCEPT ![r] = k]
        /\ Goto(r, IF k = "create" THEN "check" ELSE "load") /\ Meet(r, {p, q} \cap Paths)
  BY DEF Begin
<1>2. path'[r] = p /\ dest'[r] = q /\ kind'[r] = k /\ pc'[r] = IF k = "create" THEN "check" ELSE "load"
  BY <1>1 DEF TypeOK, Goto
<1>3. UNCHANGED <<meta, body, idx, pdx, seen, tpc, tm, tb>>
  BY DEF Begin, fileVars, docVars, taskVars
<1>4. ~Active(r) /\ r \notin met /\ tpc[r] = "none"  BY DEF Begin, Fitting, Fit, Active
<1>5. Active(r)'  BY <1>2 DEF Active
<1>6. Touches(r)' = {p, q} \cap Paths  BY <1>2 DEF Touches
<1> DEFINE T == {p, q} \cap Paths
           others == {o \in AllActive : Touches(o) \cap T # {}}
<1>7. /\ others = {} /\ rpc = "off" => met' = met /\ disturbed' = disturbed
      /\ ~(others = {} /\ rpc = "off") => /\ met' = met \cup others \cup {r}
                                          /\ disturbed' = disturbed \cup T \cup UNION {Touches(o) : o \in others}
  BY <1>1 DEF Meet, historyVars
<1>8. /\ met \subseteq met' /\ disturbed \subseteq disturbed'
      /\ met' \subseteq met \cup {r} \cup others
      /\ disturbed' \subseteq disturbed \cup T \cup UNION {Touches(o) : o \in others}
      /\ \A o \in others : o \in met' /\ r \in met' /\ Touches(o) \subseteq disturbed'
      /\ rpc # "off" => r \in met'
      /\ r \in met' => T \subseteq disturbed'
  <2> HIDE DEF T, others
  <2>1. CASE others = {} /\ rpc = "off"  BY <1>4, <1>7, <2>1
  <2>2. CASE ~(others = {} /\ rpc = "off")  BY <1>4, <1>7, <2>2
  <2> QED BY <2>1, <2>2
<1> QED BY <1>1, <1>2, <1>3, <1>4, <1>5, <1>6, <1>8

\* Types survive a step of a request.
LEMMA TypesStay ==
  ASSUME IInv, NEW r \in Requests, Act(r)
  PROVE  TypeOK'
<1>0. TypeOK /\ Fit(r) /\ Fitting /\ UNCHANGED rebuildVars /\ None \notin Paths
  BY OthersStay, ContentAssumption DEF IInv, Fitting
<1>1. /\ kind' \in [Requests -> Kinds] /\ path' \in [Requests -> Paths \cup {None}]
      /\ dest' \in [Requests -> Paths \cup {None}]
  <2>1. CASE Begin(r)
    <3>1. PICK p \in Paths, q \in Paths \cup {None}, k \in Kinds \ {"none"} :
            path' = [path EXCEPT ![r] = p] /\ dest' = [dest EXCEPT ![r] = q] /\ kind' = [kind EXCEPT ![r] = k]
      BY <2>1 DEF Begin
    <3> QED BY <1>0, <3>1 DEF TypeOK
  <2>2. CASE Works(r)  BY <1>0, <2>2, SameJob DEF TypeOK, jobVars
  <2> QED BY <2>1, <2>2 DEF Act, Works
<1>2. pc' \in [Requests -> Points] /\ tpc' \in [Requests -> TaskPoints] /\ crashes' \in 0..MaxCrashes
  <2> USE <1>0 DEF TypeOK, Points, TaskPoints
  <2>1. CASE Begin(r)
    <3>1. (pc' = [pc EXCEPT ![r] = "check"] \/ pc' = [pc EXCEPT ![r] = "load"]) /\ UNCHANGED <<tpc, crashes>>
      BY <2>1 DEF Begin, Goto, taskVars
    <3> QED BY <3>1
  <2>2. CASE RequestStep(r)
    <3>1. LoadEntry(r) => kind[r] \in {"update", "delete", "move"}
      <4>1. LoadEntry(r) => pc[r] = "load"  BY DEF LoadEntry
      <4> QED BY <4>1 DEF Fit, Kinds
    <3>2. \E t \in {"check", "load", "save", "payload", "remove", "rename", "announce", "done"} :
            pc' = [pc EXCEPT ![r] = t]
      <4>1. CASE CheckNew(r)  BY <4>1 DEF CheckNew, Goto
      <4>2. CASE LoadEntry(r)
        <5> DEFINE next == [update |-> "save", delete |-> "remove", move |-> "rename"]
        <5>1. next[kind[r]] \in {"save", "remove", "rename"}  BY <3>1, <4>2
        <5>2. pc' = [pc EXCEPT ![r] = IF meta[path[r]] = None THEN "done" ELSE next[kind[r]]]
          BY <4>2 DEF LoadEntry, Goto
        <5> HIDE DEF next
        <5> QED BY <5>1, <5>2
      <4>3. CASE Save(r)  BY <4>3 DEF Save, Goto
      <4>4. CASE SavePayload(r)  BY <4>4 DEF SavePayload, Goto
      <4>5. CASE Remove(r)  BY <4>5 DEF Remove, Goto
      <4>6. CASE Rename(r)  BY <4>6 DEF Rename, Goto
      <4>7. CASE Announce(r)  BY <4>7 DEF Announce, Goto
      <4> QED BY <2>2, <4>1, <4>2, <4>3, <4>4, <4>5, <4>6, <4>7 DEF RequestStep
    <3>3. (tpc' = tpc \/ tpc' = [tpc EXCEPT ![r] = "start"]) /\ crashes' = crashes
      BY <2>2 DEF RequestStep, CheckNew, LoadEntry, Save, SavePayload, Remove, Rename, Announce, taskVars
    <3> QED BY <3>2, <3>3
  <2>3. CASE TaskStep(r)
    <3>1. PICK f, t \in TaskPoints : Task(r, f, t)
      <4>1. CASE HookLoad(r)
        <5>1. \E t \in {"done", "mv_del", "body"} : Task(r, "start", t)  BY <4>1 DEF HookLoad
        <5> QED BY <5>1
      <4> QED BY <2>3, <4>1 DEF TaskStep, HookBody, PutMeta, PutPayload, HookFind, DelMeta, DelPayload,
                                MoveDel, MovePut, MoveGet, MovePayloadDel, MovePayloadPut
    <3> QED BY <3>1 DEF Task
  <2>4. CASE Crash(r)  BY <2>4, BoundAssumption DEF Crash, Goto
  <2> QED BY <2>1, <2>2, <2>3, <2>4 DEF Act
<1>3. /\ meta' \in [Paths -> Contents \cup {None}] /\ body' \in [Paths -> Contents \cup {None}]
      /\ seen' \in [Requests -> Contents \cup {None}]
  <2>0. r \in Contents  BY DEF Contents
  <2>1. CASE Begin(r)  BY <1>0, <2>1, Arrival DEF TypeOK
  <2>2. CASE LoadEntry(r)
    <3>1. path[r] \in Paths  BY <1>0, <2>2 DEF LoadEntry, Fit
    <3> QED BY <1>0, <2>2, <3>1 DEF LoadEntry, TypeOK, fileVars
  <2>3. CASE Save(r)
    <3>1. UNCHANGED <<body, seen>> /\ (meta' = meta \/ meta' = [meta EXCEPT ![path[r]] = r])  BY <2>3 DEF Save
    <3> QED BY <1>0, <2>0, <3>1 DEF TypeOK
  <2>4. CASE SavePayload(r)
    <3>1. UNCHANGED <<meta, seen>> /\ (body' = body \/ body' = [body EXCEPT ![path[r]] = r])
      BY <2>4 DEF SavePayload
    <3> QED BY <1>0, <2>0, <3>1 DEF TypeOK
  <2>5. CASE Remove(r)
    <3>1. /\ seen' = seen
          /\ \/ UNCHANGED <<meta, body>>
             \/ /\ meta' = [meta EXCEPT ![path[r]] = None]
                /\ body' = [body EXCEPT ![path[r]] = None]
      BY <2>5 DEF Remove, fileVars
    <3> QED BY <1>0, <3>1 DEF TypeOK
  <2>6. CASE Rename(r)
    <3>1. path[r] \in Paths /\ dest[r] \in Paths /\ path[r] # dest[r]  BY <1>0, <2>6 DEF Rename, Fit
    <3>2. seen[r] \in Contents \cup {None} /\ body[path[r]] \in Contents \cup {None}
          /\ body[dest[r]] \in Contents \cup {None}
      BY <1>0, <3>1 DEF TypeOK
    <3>3. /\ seen' = seen
          /\ \/ UNCHANGED <<meta, body>>
             \/ /\ meta' = [meta EXCEPT ![path[r]] = None, ![dest[r]] = seen[r]]
                /\ body' = [body EXCEPT ![path[r]] = None,
                                        ![dest[r]] = IF body[path[r]] = None THEN @ ELSE body[path[r]]]
      BY <2>6 DEF Rename, fileVars
    <3>4. CASE UNCHANGED <<meta, body>>  BY <1>0, <3>3, <3>4 DEF TypeOK
    <3>5. CASE meta' = [meta EXCEPT ![path[r]] = None, ![dest[r]] = seen[r]]
               /\ body' = [body EXCEPT ![path[r]] = None,
                                       ![dest[r]] = IF body[path[r]] = None THEN @ ELSE body[path[r]]]
      <4>1. meta' \in [Paths -> Contents \cup {None}]  BY <1>0, <3>2, <3>5 DEF TypeOK
      <4>2. body' \in [Paths -> Contents \cup {None}]
        <5>1. \E v \in Contents \cup {None} : body' = [body EXCEPT ![path[r]] = None, ![dest[r]] = v]
          <6>1. CASE body[path[r]] = None
            <7>1. body' = [body EXCEPT ![path[r]] = None, ![dest[r]] = @]  BY <3>5, <6>1
            <7>2. body' = [body EXCEPT ![path[r]] = None, ![dest[r]] = body[dest[r]]]  BY <3>1, <7>1
            <7> QED BY <3>2, <7>2
          <6>2. CASE body[path[r]] # None
            <7>1. body' = [body EXCEPT ![path[r]] = None, ![dest[r]] = body[path[r]]]  BY <3>5, <6>2
            <7> QED BY <3>2, <7>1
          <6> QED BY <6>1, <6>2
        <5> QED BY <1>0, <5>1 DEF TypeOK
      <4> QED BY <1>0, <3>3, <4>1, <4>2 DEF TypeOK
    <3> QED BY <3>3, <3>4, <3>5
  <2>7. CASE CheckNew(r) \/ Announce(r) \/ Crash(r) \/ TaskStep(r)
    <3>1. UNCHANGED <<meta, body, seen>>
      BY <2>7 DEF CheckNew, Announce, Crash, TaskStep, Task, HookLoad, HookBody, PutMeta, PutPayload, HookFind,
                  DelMeta, DelPayload, MoveDel, MovePut, MoveGet, MovePayloadDel, MovePayloadPut, fileVars
    <3> QED BY <1>0, <3>1 DEF TypeOK
  <2> QED BY <2>1, <2>2, <2>3, <2>4, <2>5, <2>6, <2>7 DEF Act, RequestStep
<1>4. /\ idx' \in [Paths -> Contents \cup {None}] /\ pdx' \in [Paths -> Contents \cup {None, Empty}]
      /\ tm' \in [Requests -> Contents \cup {None}] /\ tb' \in [Requests -> Contents \cup {None, Empty}]
  <2>0. tm[r] \in Contents \cup {None} /\ tb[r] \in Contents \cup {None, Empty}  BY <1>0 DEF TypeOK
  <2>1. CASE HookLoad(r)
    <3>1. UNCHANGED <<idx, pdx, tb>> /\ tpc[r] = "start"  BY <2>1 DEF HookLoad, Task, docVars
    <3>2. path[r] \in Paths /\ (kind[r] = "move" => dest[r] \in Paths)  BY <1>0, <3>1 DEF Fit
    <3>3. \E x \in Paths : tm' = [tm EXCEPT ![r] = meta[x]]  BY <2>1, <3>2 DEF HookLoad, Reads
    <3>4. tm' \in [Requests -> Contents \cup {None}]  BY <1>0, <3>3 DEF TypeOK
    <3> QED BY <1>0, <3>1, <3>4 DEF TypeOK
  <2>2. CASE HookBody(r) \/ MoveGet(r)
    <3>1. UNCHANGED <<idx, pdx, tm>> /\ tpc[r] \in {"body", "mv_get"}
      BY <2>2 DEF HookBody, MoveGet, Task, docVars
    <3>2. path[r] \in Paths  BY <1>0, <3>1 DEF Fit
    <3>3. tb' = [tb EXCEPT ![r] = OrEmpty(body[path[r]])] \/ tb' = [tb EXCEPT ![r] = OrEmpty(pdx[path[r]])]
      BY <2>2 DEF HookBody, MoveGet, Reads
    <3>4. OrEmpty(body[path[r]]) \in Contents \cup {None, Empty} /\ OrEmpty(pdx[path[r]]) \in Contents \cup {None, Empty}
      BY <1>0, <3>2 DEF OrEmpty, TypeOK
    <3>5. tb' \in [Requests -> Contents \cup {None, Empty}]
      <4> HIDE DEF OrEmpty
      <4> QED BY <1>0, <3>3, <3>4 DEF TypeOK
    <3> QED BY <1>0, <3>1, <3>5 DEF TypeOK
  <2>3. CASE HookFind(r)
    <3>1. UNCHANGED <<idx, pdx, tb>> /\ tpc[r] = "start"  BY <2>3 DEF HookFind, Task, docVars
    <3>2. path[r] \in Paths  BY <1>0, <3>1 DEF Fit
    <3> QED BY <1>0, <2>3, <3>1, <3>2 DEF HookFind, Reads, TypeOK
  <2>4. CASE PutMeta(r) \/ DelMeta(r) \/ MoveDel(r) \/ MovePut(r) \/ PutPayload(r) \/ DelPayload(r)
             \/ MovePayloadDel(r) \/ MovePayloadPut(r)
    <3>1. /\ UNCHANGED <<tm, tb>>
          /\ \/ /\ pdx' = pdx
                /\ \E x, v \in Contents \cup {None} \cup Paths :
                     v \in Contents \cup {None} /\ idx' = [idx EXCEPT ![x] = v]
             \/ /\ idx' = idx
                /\ \E x, v \in Contents \cup {None, Empty} \cup Paths :
                     v \in Contents \cup {None, Empty} /\ pdx' = [pdx EXCEPT ![x] = v]
      <4>1. path[r] \in Paths \cup {None} /\ dest[r] \in Paths \cup {None}  BY <1>0 DEF TypeOK
      <4>2. CASE PutMeta(r)  BY <2>0, <4>1, <4>2 DEF PutMeta
      <4>3. CASE DelMeta(r)  BY <2>0, <4>1, <4>3 DEF DelMeta
      <4>4. CASE MoveDel(r)  BY <2>0, <4>1, <4>4 DEF MoveDel
      <4>5. CASE MovePut(r)  BY <2>0, <4>1, <4>5 DEF MovePut
      <4>6. CASE PutPayload(r)  BY <2>0, <4>1, <4>6 DEF PutPayload
      <4>7. CASE DelPayload(r)  BY <2>0, <4>1, <4>7 DEF DelPayload
      <4>8. CASE MovePayloadDel(r)  BY <2>0, <4>1, <4>8 DEF MovePayloadDel
      <4>9. CASE MovePayloadPut(r)  BY <2>0, <4>1, <4>9 DEF MovePayloadPut
      <4> QED BY <2>4, <4>2, <4>3, <4>4, <4>5, <4>6, <4>7, <4>8, <4>9
    <3>2. idx' \in [Paths -> Contents \cup {None}]  BY <1>0, <3>1 DEF TypeOK
    <3>3. pdx' \in [Paths -> Contents \cup {None, Empty}]  BY <1>0, <3>1 DEF TypeOK
    <3> QED BY <1>0, <3>1, <3>2, <3>3 DEF TypeOK
  <2>5. CASE Begin(r) \/ RequestStep(r) \/ Crash(r)
    <3>1. UNCHANGED <<idx, pdx, tm, tb>>
      BY <2>5 DEF Begin, RequestStep, Crash, CheckNew, LoadEntry, Save, SavePayload, Remove, Rename, Announce,
                  docVars, taskVars
    <3> QED BY <1>0, <3>1 DEF TypeOK
  <2> QED BY <2>1, <2>2, <2>3, <2>4, <2>5 DEF Act, TaskStep
<1>5. met' \subseteq Requests /\ disturbed' \subseteq Paths
  <2>0. \A o : Touches(o) \subseteq Paths  BY DEF Touches
  <2>1. CASE Begin(r)
    <3>1. Touches(r)' \subseteq Paths /\ AllActive \subseteq Requests  BY DEF Touches, AllActive
    <3> DEFINE others == {o \in AllActive : Touches(o) \cap Touches(r)' # {}}
    <3>2. others \subseteq Requests /\ UNION {Touches(o) : o \in others} \subseteq Paths  BY <2>0, <3>1
    <3>3. /\ met' \subseteq met \cup {r} \cup others
          /\ disturbed' \subseteq disturbed \cup Touches(r)' \cup UNION {Touches(o) : o \in others}
      BY <1>0, <2>1, Arrival
    <3> HIDE DEF others
    <3> QED BY <1>0, <3>1, <3>2, <3>3 DEF TypeOK
  <2>2. CASE Works(r)  BY <1>0, <2>0, <2>2, Histories DEF TypeOK
  <2> QED BY <2>1, <2>2 DEF Act, Works
<1>6. /\ rpc' \in {"off", "read", "put"} /\ rm' \in [Paths -> Contents \cup {None}]
      /\ rb' \in [Paths -> Contents \cup {None}] /\ rtodo' \subseteq Paths /\ rebuilds' \in 0..MaxRebuilds
  BY <1>0 DEF rebuildVars, TypeOK
<1> QED BY <1>1, <1>2, <1>3, <1>4, <1>5, <1>6 DEF TypeOK

\* Every request fits after a step.
LEMMA FittingStays ==
  ASSUME IInv, NEW r \in Requests, Act(r)
  PROVE  Fitting'
<1>0. TypeOK /\ Fitting /\ Fit(r)  BY DEF IInv, Fitting
<1>1. ASSUME NEW s \in Requests \ {r}  PROVE Fit(s)'
  <2>1. Fit(s)  BY <1>0 DEF Fitting
  <2>2. pc[s] = "idle" => s \notin AllActive  BY <2>1 DEF Fit, AllActive, Active
  <2>3. pc[s] = "idle" => s \notin met'
    <3>1. CASE Begin(r)  BY <1>0, <2>1, <2>2, <3>1, Arrival DEF Fit
    <3>2. CASE Works(r)  BY <1>0, <2>1, <3>2, Histories DEF Fit
    <3> QED BY <3>1, <3>2 DEF Act, Works
  <2> QED BY <1>0, <2>1, <2>3, OthersStay DEF Fit
<1>2. Fit(r)'
  <2>1. CASE Begin(r)
    <3>1. /\ kind'[r] # "none" /\ path'[r] \in Paths /\ tpc'[r] = "none"
          /\ pc'[r] = (IF kind'[r] = "create" THEN "check" ELSE "load")
          /\ dest'[r] \in (IF kind'[r] = "move" THEN Paths \ {path'[r]} ELSE {None})
      BY <1>0, <2>1, Arrival
    <3> QED BY <3>1 DEF Fit, Moving
  <2>2. CASE Works(r)
    <3>0. UNCHANGED jobVars /\ pc[r] # "idle" /\ kind[r] \in Kinds \ {"none"}
      <4>1. UNCHANGED jobVars /\ Active(r)  BY <1>0, <2>2, SameJob
      <4>2. pc[r] # "idle"  BY <1>0, <4>1 DEF Fit, Active
      <4> QED BY <1>0, <4>1, <4>2 DEF Fit, TypeOK
    <3>1. kind'[r] = kind[r] /\ path'[r] = path[r] /\ dest'[r] = dest[r]  BY <3>0 DEF jobVars
    <3>2. CASE RequestStep(r) /\ ~Announce(r)
      <4>1. tpc'[r] = "none"
        <5>1. pc[r] # "done" /\ tpc' = tpc
          BY <3>2 DEF RequestStep, CheckNew, LoadEntry, Save, SavePayload, Remove, Rename, taskVars
        <5> QED BY <1>0, <5>1 DEF Fit
      <4>2. /\ pc'[r] # "idle" /\ pc'[r] # "check" /\ pc'[r] # "load"
            /\ pc'[r] \in {"save", "payload"} => kind[r] \in Written
            /\ pc'[r] = "remove" => kind[r] = "delete"
            /\ pc'[r] = "rename" => kind[r] = "move" /\ seen'[r] # None
        <5> USE <1>0, <3>0 DEF Fit, TypeOK, Goto, Kinds, Written
        <5>1. CASE CheckNew(r)  BY <5>1 DEF CheckNew
        <5>2. CASE LoadEntry(r)  BY <5>2 DEF LoadEntry
        <5>3. CASE Save(r)  BY <5>3 DEF Save
        <5>4. CASE SavePayload(r)  BY <5>4 DEF SavePayload
        <5>5. CASE Remove(r)  BY <5>5 DEF Remove
        <5>6. CASE Rename(r)  BY <5>6 DEF Rename
        <5> QED BY <3>2, <5>1, <5>2, <5>3, <5>4, <5>5, <5>6 DEF RequestStep
      <4> QED BY <1>0, <3>0, <3>1, <4>1, <4>2 DEF Fit, Moving
    <3>3. CASE Announce(r)
      <4>1. pc'[r] = "done" /\ tpc'[r] = "start"  BY <1>0, <3>3 DEF Announce, Goto, TypeOK
      <4> QED BY <1>0, <3>0, <3>1, <4>1 DEF Fit, Moving
    <3>4. CASE TaskStep(r)
      <4>1. pc' = pc /\ tpc[r] # "none"
        BY <3>4 DEF TaskStep, Task, HookLoad, HookBody, PutMeta, PutPayload, HookFind, DelMeta, DelPayload,
                    MoveDel, MovePut, MoveGet, MovePayloadDel, MovePayloadPut
      <4>2. /\ tpc'[r] \in {"body", "put_meta", "put_payload"} => kind[r] \in Written
            /\ tpc'[r] \in {"del_meta", "del_payload"} => kind[r] = "delete"
            /\ tpc'[r] \in Moving => kind[r] = "move"
        <5> USE <1>0, <3>0 DEF Fit, TypeOK, Task, Kinds, Written, Moving
        <5>1. CASE HookLoad(r)  BY <5>1 DEF HookLoad
        <5>2. CASE HookBody(r)  BY <5>2 DEF HookBody
        <5>3. CASE PutMeta(r) \/ PutPayload(r)  BY <5>3 DEF PutMeta, PutPayload
        <5>4. CASE HookFind(r)  BY <5>4 DEF HookFind
        <5>5. CASE DelMeta(r) \/ DelPayload(r)  BY <5>5 DEF DelMeta, DelPayload
        <5>6. CASE MoveDel(r) \/ MovePut(r)  BY <5>6 DEF MoveDel, MovePut
        <5>7. CASE MoveGet(r)  BY <5>7 DEF MoveGet
        <5>8. CASE MovePayloadDel(r) \/ MovePayloadPut(r)  BY <5>8 DEF MovePayloadDel, MovePayloadPut
        <5> QED BY <3>4, <5>1, <5>2, <5>3, <5>4, <5>5, <5>6, <5>7, <5>8 DEF TaskStep
      <4> QED BY <1>0, <3>0, <3>1, <4>1, <4>2 DEF Fit
    <3>5. CASE Crash(r)
      <4>1. pc'[r] = "done" /\ tpc'[r] = "done"  BY <1>0, <3>5 DEF Crash, Goto, TypeOK
      <4> QED BY <1>0, <3>0, <3>1, <4>1 DEF Fit, Moving
    <3> QED BY <2>2, <3>2, <3>3, <3>4, <3>5 DEF Works
  <2> QED BY <2>1, <2>2 DEF Act, Works
<1> QED BY <1>1, <1>2 DEF Fitting

\* There is no payload file without a meta file after a step.
LEMMA WholeStays ==
  ASSUME IInv, NEW r \in Requests, Act(r)
  PROVE  Whole'
<1>0. TypeOK /\ Fitting /\ Fit(r) /\ Whole /\ None \notin Requests  BY ContentAssumption DEF IInv, Fitting
<1>1. CASE UNCHANGED <<meta, body>>  BY <1>0, <1>1 DEF Whole
<1>2. CASE Save(r)
  <2>1. body' = body /\ (meta' = meta \/ meta' = [meta EXCEPT ![path[r]] = r])  BY <1>2 DEF Save
  <2> QED BY <1>0, <2>1 DEF Whole, TypeOK
<1>3. CASE SavePayload(r)
  <2>1. meta' = meta /\ (body' = body \/ (meta[path[r]] # None /\ body' = [body EXCEPT ![path[r]] = r]))
    BY <1>3 DEF SavePayload
  <2> QED BY <1>0, <2>1 DEF Whole, TypeOK
<1>4. CASE Remove(r)
  <2>1. \/ UNCHANGED <<meta, body>>
        \/ meta' = [meta EXCEPT ![path[r]] = None] /\ body' = [body EXCEPT ![path[r]] = None]
    BY <1>4 DEF Remove, fileVars
  <2> QED BY <1>0, <2>1 DEF Whole, TypeOK
<1>5. CASE Rename(r)
  <2> DEFINE p == path[r]
             q == dest[r]
  <2>1. p \in Paths /\ q \in Paths /\ p # q /\ seen[r] # None  BY <1>0, <1>5 DEF Rename, Fit
  <2>2. \/ UNCHANGED <<meta, body>>
        \/ /\ meta' = [meta EXCEPT ![p] = None, ![q] = seen[r]]
           /\ body' = [body EXCEPT ![p] = None, ![q] = IF body[p] = None THEN @ ELSE body[p]]
    BY <1>5 DEF Rename, fileVars
  <2>3. CASE meta' = [meta EXCEPT ![p] = None, ![q] = seen[r]]
             /\ body' = [body EXCEPT ![p] = None, ![q] = IF body[p] = None THEN @ ELSE body[p]]
    <3>1. meta'[q] # None /\ body'[p] = None  BY <1>0, <2>1, <2>3 DEF TypeOK
    <3>2. \A x \in Paths \ {p, q} : meta'[x] = meta[x] /\ body'[x] = body[x]  BY <1>0, <2>1, <2>3 DEF TypeOK
    <3> QED BY <1>0, <3>1, <3>2 DEF Whole
  <2> QED BY <1>1, <2>2, <2>3
<1>6. CASE Begin(r) \/ CheckNew(r) \/ LoadEntry(r) \/ Announce(r) \/ TaskStep(r) \/ Crash(r)
  BY <1>1, <1>6 DEF Begin, CheckNew, LoadEntry, Announce, Crash, TaskStep, Task, HookLoad, HookBody, PutMeta,
                    PutPayload, HookFind, DelMeta, DelPayload, MoveDel, MovePut, MoveGet, MovePayloadDel,
                    MovePayloadPut, fileVars
<1> QED BY <1>2, <1>3, <1>4, <1>5, <1>6 DEF Act, RequestStep

\* Whether the others are at work, and where, is no matter of this request.
LEMMA OthersActive ==
  ASSUME TypeOK, NEW r \in Requests, Act(r), NEW s \in Requests \ {r}
  PROVE  (Active(s)' <=> Active(s)) /\ Touches(s)' = Touches(s)
BY OthersStay DEF Active, Touches

\* Company is noticed in every step of a request.
LEMMA CompanyStays ==
  ASSUME IInv, NEW c \in Requests, Act(c)
  PROVE  Company'
<1>0. TypeOK /\ Fitting /\ Fit(c) /\ Company /\ rpc' = rpc
  BY OthersStay DEF IInv, Fitting, rebuildVars
<1>1. \A s \in Requests \ {c} : (Active(s)' <=> Active(s)) /\ Touches(s)' = Touches(s)  BY <1>0, OthersActive
<1>2. CASE Begin(c)
  <2>1. met \subseteq met' /\ disturbed \subseteq disturbed' /\ ~Active(c) /\ c \notin met
    BY <1>0, <1>2, Arrival
  <2>2. \A o \in AllActive : Touches(o) \cap Touches(c)' # {} =>
          o \in met' /\ c \in met' /\ Touches(o) \subseteq disturbed'
    BY <1>0, <1>2, Arrival
  <2>3. (rpc # "off" => c \in met') /\ (c \in met' => Touches(c)' \subseteq disturbed')
    BY <1>0, <1>2, Arrival
  <2>4. met' \subseteq met \cup {c} \cup {o \in AllActive : Touches(o) \cap Touches(c)' # {}}
    BY <1>0, <1>2, Arrival
  <2>5. ASSUME NEW x \in Requests, NEW y \in Requests, x # y, Active(x)', Active(y)',
               Touches(x)' \cap Touches(y)' # {}
        PROVE  x \in met'
    <3>1. CASE x = c
      <4>1. y \in AllActive /\ Touches(y) \cap Touches(c)' # {}  BY <1>1, <2>5, <3>1 DEF AllActive
      <4> QED BY <2>2, <3>1, <4>1
    <3>2. CASE y = c
      <4>1. x \in AllActive /\ Touches(x) \cap Touches(c)' # {}  BY <1>1, <2>5, <3>2 DEF AllActive
      <4> QED BY <2>2, <4>1
    <3>3. CASE x # c /\ y # c  BY <1>0, <1>1, <2>1, <2>5, <3>3 DEF Company
    <3> QED BY <3>1, <3>2, <3>3
  <2>6. ASSUME rpc' # "off", NEW x \in Requests, Active(x)'  PROVE x \in met'
    BY <1>0, <1>1, <2>1, <2>3, <2>6 DEF Company, AllActive
  <2>7. ASSUME NEW x \in met', Active(x)'  PROVE Touches(x)' \subseteq disturbed'
    <3>1. CASE x = c  BY <2>3, <2>7, <3>1
    <3>2. CASE x # c /\ x \in met
      <4>1. x \in Requests  BY <1>0, <3>2 DEF TypeOK
      <4> QED BY <1>0, <1>1, <2>1, <2>7, <3>2, <4>1 DEF Company
    <3>3. CASE x # c /\ x \notin met
      <4>1. x \in AllActive /\ Touches(x) \cap Touches(c)' # {}  BY <2>4, <2>7, <3>3
      <4> QED BY <1>1, <2>2, <3>3, <4>1 DEF AllActive
    <3> QED BY <3>1, <3>2, <3>3
  <2> QED BY <2>5, <2>6, <2>7 DEF Company, AllActive
<1>3. CASE Works(c)
  <2>1. Active(c) /\ Touches(c)' = Touches(c) /\ met' = met
    BY <1>0, <1>3, SameJob, Histories DEF Touches, jobVars
  <2>2. \A x \in Requests : Touches(x)' = Touches(x) /\ (Active(x)' => Active(x))  BY <1>1, <2>1
  <2>3. ASSUME NEW x \in met, Active(x)'  PROVE Touches(x)' \subseteq disturbed'
    <3>0. x \in Requests  BY <1>0 DEF TypeOK
    <3>1. Touches(x) \subseteq disturbed  BY <1>0, <2>2, <2>3, <3>0 DEF Company
    <3>2. CASE disturbed \subseteq disturbed'  BY <2>2, <3>0, <3>1, <3>2
    <3>3. CASE disturbed' = disturbed \ {path[c]} /\ c \notin met /\ TaskStep(c)
      <4>1. path[c] \in Touches(c)
        <5>1. pc[c] # "idle"  BY <1>0, <2>1 DEF Fit, Active
        <5> QED BY <1>0, <5>1 DEF Fit, Touches
      <4>2. path[c] \notin Touches(x)  BY <1>0, <2>1, <2>2, <2>3, <3>0, <3>3, <4>1 DEF Company
      <4> QED BY <2>2, <3>0, <3>1, <3>3, <4>2
    <3> QED BY <1>0, <1>3, <3>2, <3>3, Histories
  <2>4. \A x, y \in Requests : x # y /\ Active(x)' /\ Active(y)' /\ Touches(x)' \cap Touches(y)' # {} => x \in met'
    BY <1>0, <2>1, <2>2 DEF Company
  <2>5. rpc' # "off" => AllActive' \subseteq met'  BY <1>0, <2>1, <2>2 DEF Company, AllActive
  <2> QED BY <2>1, <2>3, <2>4, <2>5 DEF Company
<1> QED BY <1>2, <1>3 DEF Act, Works

\* What a request that works alone relies on, the others leave alone.
LEMMA LeftAlone ==
  ASSUME IInv, NEW c \in Requests, Act(c), NEW s \in Requests \ {c}, s \notin met', Active(s)
  PROVE  /\ s \notin met /\ path[s] \in Touches(s) /\ (kind[s] = "move" => dest[s] \in Touches(s))
         /\ \A x \in Touches(s) : /\ meta'[x] = meta[x] /\ body'[x] = body[x]
                                  /\ idx'[x] = idx[x] /\ pdx'[x] = pdx[x]
                                  /\ x \in disturbed => x \in disturbed'
<1>0. TypeOK /\ Fitting /\ Fit(c) /\ Fit(s) /\ Company  BY DEF IInv, Fitting
<1>1. path[s] \in Touches(s) /\ (kind[s] = "move" => dest[s] \in Touches(s))
  <2>1. pc[s] # "idle"  BY <1>0 DEF Fit, Active
  <2> QED BY <1>0, <2>1 DEF Fit, Touches
<1>2. CASE Begin(c)  BY <1>0, <1>1, <1>2, Arrival
<1>3. CASE Works(c)
  <2>1. s \notin met /\ Active(c)  BY <1>0, <1>3, Histories, SameJob
  <2>2. Touches(s) \cap Touches(c) = {}  BY <1>0, <2>1 DEF Company
  <2>3. Touches(s) \subseteq Paths  BY DEF Touches
  <2>4. path[c] \in Touches(c)
    <3>1. pc[c] # "idle"  BY <1>0, <2>1 DEF Fit, Active
    <3> QED BY <1>0, <3>1 DEF Fit, Touches
  <2>5. \A x \in Touches(s) : x \in disturbed => x \in disturbed'  BY <1>0, <1>3, <2>2, <2>4, Histories
  <2>6. \A x \in Touches(s) : meta'[x] = meta[x] /\ body'[x] = body[x] /\ idx'[x] = idx[x] /\ pdx'[x] = pdx[x]
    BY <1>0, <1>3, <2>2, <2>3, WritesAtHome
  <2> QED BY <1>1, <2>1, <2>5, <2>6
<1> QED BY <1>2, <1>3 DEF Act, Works

\* While a rebuild is on, the paths of those at work are disturbed, and the others untouched.
LEMMA RebuildingStays ==
  ASSUME IInv, NEW c \in Requests, Act(c)
  PROVE  Rebuilding'
<1>0. TypeOK /\ Fitting /\ Fit(c) /\ Company /\ Rebuilding  BY DEF IInv, Fitting
<1>1. UNCHANGED <<rpc, rm, rb, rtodo>>  BY <1>0, OthersStay DEF rebuildVars
<1>2. rpc = "put" => rtodo = {}  BY <1>0 DEF Rebuilding
<1> SUFFICES ASSUME rpc # "off", NEW p \in Paths \ disturbed'
             PROVE  /\ idx'[p] = None /\ pdx'[p] = None
                    /\ p \notin rtodo => rm[p] = meta'[p] /\ rb[p] = body'[p]
  BY <1>1, <1>2 DEF Rebuilding
<1>3. p \notin disturbed /\ meta'[p] = meta[p] /\ body'[p] = body[p] /\ idx'[p] = idx[p] /\ pdx'[p] = pdx[p]
  <2>1. CASE Begin(c)  BY <1>0, <2>1, Arrival
  <2>2. CASE Works(c)
    <3>1. Active(c) /\ c \in met  BY <1>0, <2>2, SameJob DEF Company, AllActive
    <3>2. Touches(c) \subseteq disturbed /\ disturbed \subseteq disturbed'
      BY <1>0, <2>2, <3>1, Histories DEF Company
    <3> QED BY <1>0, <2>2, <3>2, WritesAtHome
  <2> QED BY <2>1, <2>2 DEF Act, Works
<1> QED BY <1>0, <1>3 DEF Rebuilding

\* A request that works alone, goes on alone.
LEMMA OwnStep ==
  ASSUME IInv, NEW c \in Requests, Act(c), c \notin met', Active(c)'
  PROVE  Alone(c)'
<1>0. TypeOK /\ Fitting /\ Fit(c) /\ Whole /\ None \notin Requests  BY ContentAssumption DEF IInv, Fitting
<1> DEFINE p == path[c]
           q == dest[c]
<1>1. CASE Begin(c)
  <2>1. /\ kind'[c] \in Kinds /\ kind'[c] # "none" /\ tpc'[c] = "none" /\ UNCHANGED <<meta, body, idx, pdx>>
        /\ pc'[c] = (IF kind'[c] = "create" THEN "check" ELSE "load") /\ disturbed \subseteq disturbed'
    BY <1>0, <1>1, Arrival
  <2>2. rpc = "off" /\ \A o \in AllActive : Touches(o) \cap Touches(c)' = {}  BY <1>0, <1>1, Arrival
  <2>3. ASSUME NEW x \in Touches(c)' \ disturbed'  PROVE Right(x)'
    <3>1. x \in Paths \ (disturbed \cup Busy)  BY <2>1, <2>2 DEF Busy, InWork, Touches
    <3>2. idx[x] = meta[x] /\ (pdx[x] = body[x] \/ (pdx[x] = Empty /\ body[x] = None))
      BY <3>1 DEF IInv, IndexTruthful
    <3> QED BY <2>1, <3>2 DEF Right, Stands
  <2>4. AloneBefore(c)'  BY <2>1, <2>3 DEF AloneBefore
  <2>5. AloneWriting(c)' /\ AloneDeleting(c)' /\ AloneMoving(c)'
    BY <2>1 DEF AloneWriting, AloneDeleting, AloneMoving, Under, Moving
  <2> QED BY <2>4, <2>5 DEF Alone
<1>2. CASE Works(c)
  <2>0. /\ kind' = kind /\ path' = path /\ dest' = dest /\ pc[c] # "idle" /\ Alone(c)
        /\ Touches(c)' = Touches(c) /\ c \notin met
    <3>1. UNCHANGED jobVars /\ Active(c) /\ met' = met  BY <1>0, <1>2, SameJob, Histories
    <3>2. pc[c] # "idle"  BY <1>0, <3>1 DEF Fit, Active
    <3> QED BY <3>1, <3>2 DEF jobVars, Touches, IInv, Lonely
  <2>1. /\ p \in Paths /\ kind[c] \in Kinds \ {"none"} /\ p \in Touches(c)
        /\ kind[c] = "move" => q \in Paths /\ p # q /\ q \in Touches(c)
    BY <1>0, <2>0 DEF Fit, TypeOK, Touches
  <2>2. AloneBefore(c) /\ AloneWriting(c) /\ AloneDeleting(c) /\ AloneMoving(c)  BY <2>0 DEF Alone
  <2>3. CASE CheckNew(c)
    <3>1. pc[c] = "check" /\ tpc'[c] = "none" /\ pc'[c] \in {"save", "done"}
      BY <1>0, <2>3 DEF CheckNew, Fit, Goto, TypeOK, taskVars
    <3>2. pc'[c] = "save" /\ kind[c] = "create"  BY <1>0, <3>1 DEF Active, Fit
    <3> QED BY <2>0, <3>1, <3>2 DEF Alone, AloneBefore, AloneWriting, AloneDeleting, AloneMoving, Under, Moving
  <2>4. CASE LoadEntry(c)
    <3>1. /\ pc[c] = "load" /\ tpc'[c] = "none" /\ seen'[c] = meta[p]
          /\ UNCHANGED <<meta, body, idx, pdx, disturbed>>
          /\ meta[p] = None => pc'[c] = "done"
      BY <1>0, <2>4 DEF LoadEntry, Fit, Goto, TypeOK, taskVars, fileVars, docVars, historyVars
    <3>2. meta[p] # None /\ kind[c] \in {"update", "delete", "move"}
      BY <1>0, <2>1, <3>1 DEF Active, Fit, Kinds
    <3>3. pc'[c] = [update |-> "save", delete |-> "remove", move |-> "rename"][kind[c]]
      BY <1>0, <2>4, <3>2 DEF LoadEntry, Goto, TypeOK
    <3>4. pc'[c] \in {"save", "remove", "rename"}  BY <3>2, <3>3
    <3>5. \A x \in Touches(c) \ disturbed : Right(x)' /\ Right(x)
      BY <2>2, <3>1 DEF AloneBefore, Right, Stands
    <3>6. AloneBefore(c)'  BY <2>0, <3>1, <3>2, <3>5 DEF AloneBefore
    <3> QED BY <2>0, <3>1, <3>4, <3>6 DEF Alone, AloneWriting, AloneDeleting, AloneMoving, Under, Moving
  <2>5. CASE Save(c)
    <3>1. pc[c] = "save" /\ tpc'[c] = "none" /\ kind[c] \in Written
      BY <1>0, <2>5 DEF Save, Fit, TypeOK, taskVars
    <3>2. kind[c] = "create" \/ meta[p] # None  BY <2>2, <3>1 DEF AloneBefore, Written
    <3>3. meta'[p] = c /\ pc'[c] = "payload"  BY <1>0, <2>1, <2>5, <3>2 DEF Save, Goto, TypeOK
    <3> QED BY <2>0, <3>1, <3>3 DEF Alone, AloneBefore, AloneWriting, AloneDeleting, AloneMoving, Under, Moving
  <2>6. CASE SavePayload(c)
    <3>1. pc[c] = "payload" /\ tpc'[c] = "none" /\ kind[c] \in Written
      BY <1>0, <2>6 DEF SavePayload, Fit, TypeOK, taskVars
    <3>2. meta[p] = c  BY <2>2, <3>1 DEF AloneWriting
    <3>3. meta'[p] = c /\ body'[p] = c /\ pc'[c] = "announce"
      BY <1>0, <2>1, <2>6, <3>2 DEF SavePayload, Goto, TypeOK
    <3> QED BY <2>0, <3>1, <3>3
        DEF Alone, AloneBefore, AloneWriting, AloneDeleting, AloneMoving, Under, Moving, Written
  <2>7. CASE Remove(c)
    <3>1. pc[c] = "remove" /\ tpc'[c] = "none" /\ kind[c] = "delete" /\ pc'[c] = "announce" /\ idx' = idx
      BY <1>0, <2>7 DEF Remove, Fit, TypeOK, taskVars, Goto, docVars
    <3>2. \/ meta'[p] = None /\ disturbed' = disturbed
          \/ p \in disturbed'
      BY <1>0, <2>1, <2>7 DEF Remove, TypeOK, Disturb, historyVars
    <3>3. p \notin disturbed => idx[p] # None  BY <2>1, <2>2, <3>1 DEF AloneBefore, Right
    <3>4. AloneDeleting(c)'  BY <2>0, <3>1, <3>2, <3>3 DEF AloneDeleting
    <3> QED BY <2>0, <3>1, <3>4 DEF Alone, AloneBefore, AloneWriting, AloneMoving, Under, Moving, Written
  <2>8. CASE Rename(c)
    <3>1. pc[c] = "rename" /\ tpc'[c] = "none" /\ kind[c] = "move" /\ UNCHANGED <<idx, pdx>>
      BY <1>0, <2>8 DEF Rename, Fit, TypeOK, taskVars, docVars
    <3>2. meta[p] # None /\ seen[c] = meta[p] /\ \A x \in {p, q} \ disturbed : Right(x)
      BY <2>1, <2>2, <3>1 DEF AloneBefore
    <3>3. CASE meta[q] # None
      <4>1. pc'[c] = "announce" /\ p \in disturbed' /\ q \in disturbed' /\ UNCHANGED <<meta, body>>
        BY <1>0, <2>8, <3>3 DEF Rename, Goto, Disturb, TypeOK, fileVars
      <4> QED BY <2>0, <3>1, <3>3, <4>1
          DEF Alone, AloneBefore, AloneWriting, AloneDeleting, AloneMoving, Under, Moving, Written
    <3>4. CASE meta[q] = None
      <4>1. /\ pc'[c] = "announce" /\ Disturb(IF p \in disturbed THEN {q} ELSE {})
            /\ meta' = [meta EXCEPT ![p] = None, ![q] = seen[c]]
            /\ body' = [body EXCEPT ![p] = None, ![q] = IF body[p] = None THEN @ ELSE body[p]]
        BY <1>0, <2>8, <3>2, <3>4 DEF Rename, Goto, TypeOK
      <4>2. meta'[p] = None /\ meta'[q] # None  BY <1>0, <2>1, <3>1, <3>2, <4>1 DEF TypeOK
      <4>3. body'[q] = body[p]
        <5>1. body[q] = None  BY <1>0, <2>1, <3>1, <3>4 DEF Whole
        <5>2. CASE body[p] = None  BY <1>0, <2>1, <3>1, <4>1, <5>1, <5>2 DEF TypeOK
        <5>3. CASE body[p] # None  BY <1>0, <2>1, <3>1, <4>1, <5>3 DEF TypeOK
        <5> QED BY <5>2, <5>3
      <4>4. q \notin disturbed' => p \notin disturbed  BY <4>1 DEF Disturb
      <4>5. q \notin disturbed' => Stands(pdx'[p], body'[q])  BY <3>1, <3>2, <4>3, <4>4 DEF Right
      <4>6. AloneMoving(c)'  BY <2>0, <3>1, <4>1, <4>2, <4>5 DEF AloneMoving, Moving
      <4> QED BY <2>0, <3>1, <4>1, <4>6 DEF Alone, AloneBefore, AloneWriting, AloneDeleting, Under, Written
    <3> QED BY <3>3, <3>4
  <2>9. CASE Announce(c)
    <3>1. /\ pc[c] = "announce" /\ tpc[c] = "none" /\ pc'[c] = "done" /\ tpc'[c] = "start"
          /\ UNCHANGED <<meta, body, idx, pdx, disturbed, seen, tm, tb>>
      BY <1>0, <2>9 DEF Announce, Fit, Goto, TypeOK, fileVars, docVars, historyVars
    <3> QED BY <2>0, <2>2, <3>1
        DEF Alone, AloneBefore, AloneWriting, AloneDeleting, AloneMoving, Under, Moving, Written, Stands
  <2>10. ASSUME TaskStep(c)
         PROVE  /\ pc'[c] = "done" /\ tpc'[c] # "done" /\ pc[c] = "done"
                /\ UNCHANGED <<meta, body, disturbed>> /\ AloneBefore(c)'
    <3>1. pc' = pc /\ tpc[c] # "none" /\ UNCHANGED <<meta, body>>
      BY <2>10 DEF TaskStep, Task, HookLoad, HookBody, PutMeta, PutPayload, HookFind, DelMeta, DelPayload,
                   MoveDel, MovePut, MoveGet, MovePayloadDel, MovePayloadPut, fileVars
    <3>2. pc[c] = "done"  BY <1>0, <3>1 DEF Fit
    <3>3. tpc'[c] # "done"  BY <3>1, <3>2 DEF Active
    <3>4. disturbed' = disturbed  BY <1>0, <2>10, <3>3, TaskHistories DEF historyVars
    <3>5. AloneBefore(c)'  BY <3>1, <3>2 DEF AloneBefore
    <3> QED BY <3>1, <3>2, <3>3, <3>4, <3>5
  <2>11. CASE HookLoad(c)
    <3>1. /\ tpc[c] = "start" /\ kind[c] # "delete" /\ UNCHANGED <<idx, pdx, tb>>
          /\ tm'[c] = meta[IF kind[c] = "move" THEN q ELSE p]
          /\ tpc'[c] \in {"done", IF kind[c] = "move" THEN "mv_del" ELSE "body"}
      BY <1>0, <2>11 DEF HookLoad, Task, Reads, docVars, TypeOK
    <3>2. TaskStep(c)  BY <2>11 DEF TaskStep
    <3>3. tpc'[c] = IF kind[c] = "move" THEN "mv_del" ELSE "body"  BY <2>10, <3>1, <3>2
    <3>4. kind[c] # "move" => kind[c] \in Written  BY <2>1, <3>1 DEF Kinds, Written
    <3>5. AloneWriting(c)'  BY <2>0, <2>2, <2>10, <3>1, <3>2, <3>3, <3>4 DEF AloneWriting, Under, Written
    <3>6. AloneMoving(c)'  BY <2>0, <2>2, <2>10, <3>1, <3>2, <3>3 DEF AloneMoving, Under, Moving, Stands
    <3>7. AloneDeleting(c)'  BY <2>0, <2>10, <3>1, <3>2, <3>3 DEF AloneDeleting
    <3> QED BY <2>10, <3>2, <3>5, <3>6, <3>7 DEF Alone
  <2>12. CASE HookBody(c)
    <3>1. /\ tpc[c] = "body" /\ tpc'[c] = "put_meta" /\ UNCHANGED <<idx, pdx, tm>> /\ tb'[c] = OrEmpty(body[p])
      BY <1>0, <2>12 DEF HookBody, Task, Reads, docVars, TypeOK
    <3>2. TaskStep(c) /\ kind[c] \in Written  BY <1>0, <2>12, <3>1 DEF TaskStep, Fit
    <3>3. body[p] = c  BY <2>2, <3>1, <3>2 DEF AloneWriting, Under
    <3>4. tb'[c] = c  BY <1>0, <3>1, <3>3 DEF OrEmpty
    <3>5. AloneWriting(c)'  BY <2>0, <2>2, <2>10, <3>1, <3>2, <3>4 DEF AloneWriting, Under
    <3> QED BY <2>0, <2>10, <3>1, <3>2, <3>5 DEF Alone, AloneDeleting, AloneMoving, Written, Moving
  <2>13. CASE PutMeta(c)
    <3>1. /\ tpc[c] = "put_meta" /\ tpc'[c] = "put_payload" /\ UNCHANGED <<pdx, tm, tb>> /\ idx'[p] = tm[c]
      BY <1>0, <2>1, <2>13 DEF PutMeta, Task, TypeOK
    <3>2. TaskStep(c) /\ kind[c] \in Written  BY <1>0, <2>13, <3>1 DEF TaskStep, Fit
    <3>3. AloneWriting(c)'  BY <2>0, <2>2, <2>10, <3>1, <3>2 DEF AloneWriting, Under
    <3> QED BY <2>0, <2>10, <3>1, <3>2, <3>3 DEF Alone, AloneDeleting, AloneMoving, Written, Moving
  <2>14. CASE HookFind(c)
    <3>1. /\ tpc[c] = "start" /\ kind[c] = "delete" /\ tpc'[c] = "del_meta" /\ UNCHANGED <<idx, pdx, tb>>
          /\ tm'[c] = idx[p]
      BY <1>0, <2>14 DEF HookFind, Task, Reads, docVars, TypeOK
    <3>2. TaskStep(c)  BY <2>14 DEF TaskStep
    <3>3. AloneDeleting(c)'  BY <2>0, <2>2, <2>10, <3>1, <3>2 DEF AloneDeleting, Under
    <3> QED BY <2>0, <2>10, <3>1, <3>2, <3>3 DEF Alone, AloneWriting, AloneMoving, Written, Moving
  <2>15. CASE DelMeta(c)
    <3>1. /\ tpc[c] = "del_meta" /\ tpc'[c] = "del_payload" /\ UNCHANGED <<pdx, tm, tb>> /\ idx'[p] = None
      BY <1>0, <2>1, <2>15 DEF DelMeta, Task, TypeOK
    <3>2. TaskStep(c) /\ kind[c] = "delete"  BY <1>0, <2>15, <3>1 DEF TaskStep, Fit
    <3>3. AloneDeleting(c)'  BY <2>0, <2>2, <2>10, <3>1, <3>2 DEF AloneDeleting, Under
    <3> QED BY <2>0, <2>10, <3>1, <3>2, <3>3 DEF Alone, AloneWriting, AloneMoving, Written, Moving
  <2>16. CASE MoveDel(c)
    <3>1. /\ tpc[c] = "mv_del" /\ tpc'[c] = "mv_put" /\ UNCHANGED <<pdx, tm, tb>> /\ idx'[p] = None
      BY <1>0, <2>1, <2>16 DEF MoveDel, Task, TypeOK
    <3>2. TaskStep(c) /\ kind[c] = "move"  BY <1>0, <2>16, <3>1 DEF TaskStep, Fit, Moving
    <3>3. AloneMoving(c)'  BY <2>0, <2>2, <2>10, <3>1, <3>2 DEF AloneMoving, Under, Moving
    <3> QED BY <2>0, <2>10, <3>1, <3>2, <3>3 DEF Alone, AloneWriting, AloneDeleting, Written
  <2>17. CASE MovePut(c)
    <3>0. tpc[c] = "mv_put"  BY <2>17 DEF MovePut, Task
    <3>1. TaskStep(c) /\ kind[c] = "move"  BY <1>0, <2>17, <3>0 DEF TaskStep, Fit, Moving
    <3>2. /\ tpc'[c] = "mv_get" /\ UNCHANGED <<pdx, tm, tb>> /\ idx'[q] = tm[c] /\ idx'[p] = idx[p]
      BY <1>0, <2>1, <2>17, <3>1 DEF MovePut, Task, TypeOK
    <3>3. AloneMoving(c)'  BY <2>0, <2>2, <2>10, <3>0, <3>1, <3>2 DEF AloneMoving, Under, Moving
    <3> QED BY <2>0, <2>10, <3>1, <3>2, <3>3 DEF Alone, AloneWriting, AloneDeleting, Written
  <2>18. CASE MoveGet(c)
    <3>1. /\ tpc[c] = "mv_get" /\ tpc'[c] = "mv_pdel" /\ UNCHANGED <<idx, pdx, tm>> /\ tb'[c] = OrEmpty(pdx[p])
      BY <1>0, <2>18 DEF MoveGet, Task, Reads, docVars, TypeOK
    <3>2. TaskStep(c) /\ kind[c] = "move"  BY <1>0, <2>18, <3>1 DEF TaskStep, Fit, Moving
    <3>3. q \notin disturbed => Stands(pdx[p], body[q])  BY <2>2, <3>1, <3>2 DEF AloneMoving, Under
    <3>4. q \notin disturbed => Stands(tb'[c], body[q])  BY <3>1, <3>3 DEF Stands, OrEmpty
    <3>5. AloneMoving(c)'  BY <2>0, <2>2, <2>10, <3>1, <3>2, <3>4 DEF AloneMoving, Under, Moving
    <3> QED BY <2>0, <2>10, <3>1, <3>2, <3>5 DEF Alone, AloneWriting, AloneDeleting, Written
  <2>19. CASE MovePayloadDel(c)
    <3>1. /\ tpc[c] = "mv_pdel" /\ tpc'[c] = "mv_pput" /\ UNCHANGED <<idx, tm, tb>> /\ pdx'[p] = None
      BY <1>0, <2>1, <2>19 DEF MovePayloadDel, Task, TypeOK
    <3>2. TaskStep(c) /\ kind[c] = "move"  BY <1>0, <2>19, <3>1 DEF TaskStep, Fit, Moving
    <3>3. AloneMoving(c)'  BY <2>0, <2>2, <2>10, <3>1, <3>2 DEF AloneMoving, Under, Moving, Stands
    <3> QED BY <2>0, <2>10, <3>1, <3>2, <3>3 DEF Alone, AloneWriting, AloneDeleting, Written
  <2>20. ~PutPayload(c) /\ ~DelPayload(c) /\ ~MovePayloadPut(c)
    <3>1. PutPayload(c) \/ DelPayload(c) \/ MovePayloadPut(c) => TaskStep(c) /\ tpc'[c] = "done"
      BY <1>0 DEF TaskStep, PutPayload, DelPayload, MovePayloadPut, Task, TypeOK
    <3> QED BY <2>10, <3>1
  <2>21. ~Crash(c)
    <3>1. Crash(c) => pc'[c] = "done" /\ tpc'[c] = "done"  BY <1>0 DEF Crash, Goto, TypeOK
    <3> QED BY <3>1 DEF Active
  <2> HIDE DEF p, q
  <2> QED BY <1>2, <2>3, <2>4, <2>5, <2>6, <2>7, <2>8, <2>9, <2>11, <2>12, <2>13, <2>14, <2>15, <2>16, <2>17,
             <2>18, <2>19, <2>20, <2>21 DEF Works, RequestStep, TaskStep
<1> QED BY <1>1, <1>2 DEF Act, Works

\* So does every other one.
LEMMA LonelyStays ==
  ASSUME IInv, NEW c \in Requests, Act(c)
  PROVE  Lonely'
<1>0. TypeOK /\ Lonely  BY DEF IInv
<1> SUFFICES ASSUME NEW s \in Requests \ met', Active(s)'  PROVE Alone(s)'
  BY DEF Lonely
<1>1. CASE s = c  BY <1>1, OwnStep
<1>2. CASE s # c
  <2>1. Active(s) /\ Touches(s)' = Touches(s)  BY <1>0, <1>2, OthersActive
  <2>2. /\ s \notin met /\ path[s] \in Touches(s) /\ (kind[s] = "move" => dest[s] \in Touches(s))
        /\ \A x \in Touches(s) : /\ meta'[x] = meta[x] /\ body'[x] = body[x]
                                 /\ idx'[x] = idx[x] /\ pdx'[x] = pdx[x]
                                 /\ x \in disturbed => x \in disturbed'
    BY <1>2, <2>1, LeftAlone
  <2>3. Alone(s) /\ Fit(s)  BY <1>0, <2>1, <2>2 DEF Lonely, IInv, Fitting
  <2>4. /\ pc'[s] = pc[s] /\ tpc'[s] = tpc[s] /\ kind'[s] = kind[s] /\ path'[s] = path[s]
        /\ dest'[s] = dest[s] /\ seen'[s] = seen[s] /\ tm'[s] = tm[s] /\ tb'[s] = tb[s]
    BY <1>0, <1>2, OthersStay
  <2>5. AloneBefore(s)'
    <3>1. \A x \in Touches(s) : x \notin disturbed' => (Right(x) => Right(x)')  BY <2>2 DEF Right, Stands
    <3> QED BY <2>1, <2>2, <2>3, <2>4, <3>1 DEF Alone, AloneBefore
  <2>6. AloneWriting(s)'  BY <2>2, <2>3, <2>4 DEF Alone, AloneWriting, Under
  <2>7. AloneDeleting(s)'  BY <2>2, <2>3, <2>4 DEF Alone, AloneDeleting, Under
  <2>8. AloneMoving(s)'
    <3>1. CASE kind[s] = "move"
      <4>1. dest[s] \in Touches(s)  BY <2>2, <3>1
      <4> QED BY <2>2, <2>3, <2>4, <3>1, <4>1 DEF Alone, AloneMoving, Under, Stands
    <3>2. CASE kind[s] # "move"  BY <2>3, <2>4, <3>2 DEF AloneMoving, Fit, Moving
    <3> QED BY <3>1, <3>2
  <2> QED BY <2>5, <2>6, <2>7, <2>8 DEF Alone
<1> QED BY <1>1, <1>2

\* Whoever leaves a path nobody else is at work on, leaves its documents right.
LEMMA TruthStays ==
  ASSUME IInv, NEW c \in Requests, Act(c)
  PROVE  IndexTruthful'
<1>0. /\ TypeOK /\ Fitting /\ Fit(c) /\ Whole /\ Company /\ Lonely /\ IndexTruthful
      /\ None \notin Requests /\ UNCHANGED rebuildVars
  BY ContentAssumption, OthersStay DEF IInv, Fitting
<1> SUFFICES ASSUME NEW p \in Paths \ (disturbed \cup Busy)'
             PROVE  Right(p)'
  BY DEF IndexTruthful, Right, Stands
<1>1. rpc = "off" /\ p \notin disturbed' /\ p \in Paths
  BY <1>0 DEF Busy, rebuildVars
<1>2. \A s \in Requests : Active(s)' => p \notin Touches(s)'
  BY <1>1, <1>0 DEF Busy, InWork, AllActive, rebuildVars
<1>3. \A s \in Requests \ {c} : Active(s) => p \notin Touches(s)  BY <1>0, <1>2, OthersActive
<1>4. CASE Begin(c)
  <2>1. ~Active(c) /\ p \notin disturbed /\ UNCHANGED <<meta, body, idx, pdx>>
    BY <1>0, <1>1, <1>4, Arrival
  <2>2. p \notin Busy  BY <1>1, <1>3, <2>1 DEF Busy, InWork, AllActive
  <2> QED BY <1>0, <1>1, <2>1, <2>2 DEF IndexTruthful, Right, Stands
<1>5. CASE Works(c)
  <2>1. Active(c) /\ kind' = kind /\ path' = path /\ dest' = dest /\ met' = met /\ Touches(c)' = Touches(c)
    BY <1>0, <1>5, SameJob, Histories DEF jobVars, Touches
  <2>2. pc[c] # "idle" /\ path[c] \in Paths /\ kind[c] \in Kinds \ {"none"}
        /\ (kind[c] = "move" => dest[c] \in Paths /\ path[c] # dest[c])
        /\ (kind[c] # "move" => dest[c] \notin Paths)
    <3>1. pc[c] # "idle"  BY <1>0, <2>1 DEF Fit, Active
    <3> QED BY <1>0, <3>1, ContentAssumption DEF Fit, TypeOK
  <2>3. CASE p \notin Touches(c)
    <3>1. p \notin disturbed
      <4>1. p # path[c]  BY <2>2, <2>3 DEF Touches
      <4> QED BY <1>0, <1>1, <1>5, <4>1, Histories
    <3>2. p \notin Busy  BY <1>1, <1>3, <2>3 DEF Busy, InWork, AllActive
    <3>3. meta'[p] = meta[p] /\ body'[p] = body[p] /\ idx'[p] = idx[p] /\ pdx'[p] = pdx[p]
      BY <1>0, <1>1, <1>5, <2>3, WritesAtHome
    <3> QED BY <1>0, <1>1, <3>1, <3>2, <3>3 DEF IndexTruthful, Right, Stands
  <2>4. CASE p \in Touches(c)
    <3>1. c \notin met
      <4>1. c \in met => p \in disturbed /\ disturbed \subseteq disturbed'
        BY <1>0, <1>5, <2>1, <2>4, Histories DEF Company
      <4> QED BY <1>1, <4>1
    <3>2. Alone(c) /\ ~Active(c)'  BY <1>0, <1>2, <2>1, <2>4, <3>1 DEF Lonely
    <3>3. AloneBefore(c) /\ AloneWriting(c) /\ AloneDeleting(c) /\ AloneMoving(c)  BY <3>2 DEF Alone
    <3>4. p = path[c] \/ (kind[c] = "move" /\ p = dest[c])  BY <2>2, <2>4 DEF Touches
    <3>5. CASE CheckNew(c) \/ LoadEntry(c)
      <4>1. pc[c] \in {"check", "load"} /\ UNCHANGED <<meta, body, idx, pdx, disturbed>>
        BY <3>5 DEF CheckNew, LoadEntry, fileVars, docVars, historyVars
      <4> QED BY <1>1, <2>4, <3>3, <4>1 DEF AloneBefore, Right, Stands
    <3>6. ~Save(c) /\ ~SavePayload(c) /\ ~Remove(c) /\ ~Announce(c)
      <4>1. Save(c) => pc'[c] = "payload"
        <5>1. Save(c) => pc[c] = "save" /\ kind[c] \in Written  BY <1>0 DEF Save, Fit
        <5> QED BY <1>0, <2>2, <3>3, <5>1 DEF Save, AloneBefore, Written, Goto, TypeOK
      <4>2. SavePayload(c) => pc'[c] = "announce"
        <5>1. SavePayload(c) => pc[c] = "payload" /\ kind[c] \in Written  BY <1>0 DEF SavePayload, Fit
        <5> QED BY <1>0, <2>2, <3>3, <5>1 DEF SavePayload, AloneWriting, Goto, TypeOK
      <4>3. Remove(c) => pc'[c] = "announce"  BY <1>0 DEF Remove, Goto, TypeOK
      <4>4. Announce(c) => tpc'[c] = "start"  BY <1>0 DEF Announce, TypeOK
      <4> QED BY <3>2, <4>1, <4>2, <4>3, <4>4 DEF Active
    <3>7. ~Rename(c)
      <4>1. Rename(c) => pc[c] = "rename" /\ meta[path[c]] # None  BY <3>3 DEF Rename, AloneBefore
      <4>2. Rename(c) => pc'[c] = "announce"  BY <1>0, <4>1 DEF Rename, Goto, TypeOK
      <4> QED BY <3>2, <4>2 DEF Active
    <3>8. ~Crash(c)  BY <1>1, <2>4 DEF Crash, Disturb
    <3>9. ~HookLoad(c)
      <4> SUFFICES ASSUME HookLoad(c)  PROVE FALSE
        OBVIOUS
      <4>1. tpc[c] = "start" /\ kind[c] # "delete"  BY DEF HookLoad, Task
      <4>2. meta[IF kind[c] = "move" THEN dest[c] ELSE path[c]] # None
        <5>1. CASE kind[c] = "move"  BY <3>3, <4>1, <5>1 DEF AloneMoving, Under
        <5>2. CASE kind[c] # "move"
          <6>1. kind[c] \in Written  BY <2>2, <4>1, <5>2 DEF Kinds, Written
          <6> QED BY <1>0, <3>3, <4>1, <5>2, <6>1 DEF AloneWriting, Under
        <5> QED BY <5>1, <5>2
      <4>3. tpc'[c] \in {"mv_del", "body"}  BY <1>0, <4>2 DEF HookLoad, Task, TypeOK
      <4> QED BY <3>2, <4>3 DEF Active
    <3>10. ~HookBody(c) /\ ~PutMeta(c) /\ ~HookFind(c) /\ ~DelMeta(c) /\ ~MoveDel(c) /\ ~MovePut(c)
           /\ ~MoveGet(c) /\ ~MovePayloadDel(c)
      <4>1. HookBody(c) \/ PutMeta(c) \/ HookFind(c) \/ DelMeta(c) \/ MoveDel(c) \/ MovePut(c)
            \/ MoveGet(c) \/ MovePayloadDel(c)
            => tpc'[c] \in {"put_meta", "put_payload", "del_meta", "del_payload", "mv_put", "mv_get", "mv_pdel", "mv_pput"}
        BY <1>0 DEF HookBody, PutMeta, HookFind, DelMeta, MoveDel, MovePut, MoveGet, MovePayloadDel, Task, TypeOK
      <4> QED BY <3>2, <4>1 DEF Active
    <3>11. CASE PutPayload(c)
      <4>1. tpc[c] = "put_payload" /\ UNCHANGED <<meta, body, idx>> /\ pdx' = [pdx EXCEPT ![path[c]] = tb[c]]
        BY <3>11 DEF PutPayload, Task, fileVars
      <4>2. kind[c] \in Written /\ p = path[c]  BY <1>0, <3>4, <4>1 DEF Fit, Written
      <4>3. meta[p] = c /\ body[p] = c /\ idx[p] = c /\ tb[c] = c  BY <3>3, <4>1, <4>2 DEF AloneWriting, Under
      <4> QED BY <1>0, <1>1, <4>1, <4>2, <4>3 DEF Right, Stands, TypeOK
    <3>12. CASE DelPayload(c)
      <4>1. tpc[c] = "del_payload" /\ UNCHANGED <<meta, body>>  BY <3>12 DEF DelPayload, Task, fileVars
      <4>2. kind[c] = "delete" /\ p = path[c]  BY <1>0, <3>4, <4>1 DEF Fit
      <4>3. p \notin disturbed
        <5>1. TaskStep(c)  BY <3>12 DEF TaskStep
        <5> QED BY <1>0, <1>1, <4>2, <5>1, TaskHistories DEF historyVars, Written
      <4>4. meta[p] = None /\ body[p] = None /\ tm[c] # None /\ idx[p] = None
        BY <1>0, <1>1, <3>3, <4>1, <4>2, <4>3 DEF AloneDeleting, Under, Whole
      <4>5. idx' = idx /\ pdx'[p] = None  BY <1>0, <1>1, <3>12, <4>2, <4>4 DEF DelPayload, TypeOK
      <4> QED BY <4>1, <4>4, <4>5 DEF Right, Stands
    <3>13. CASE MovePayloadPut(c)
      <4>1. tpc[c] = "mv_pput" /\ UNCHANGED <<meta, body, idx>> /\ pdx' = [pdx EXCEPT ![dest[c]] = tb[c]]
        BY <3>13 DEF MovePayloadPut, Task, fileVars
      <4>2. kind[c] = "move"  BY <1>0, <4>1 DEF Fit, Moving
      <4>3. p \notin disturbed
        <5>1. TaskStep(c)  BY <3>13 DEF TaskStep
        <5> QED BY <1>0, <1>1, <4>2, <5>1, TaskHistories DEF historyVars, Written
      <4>4. CASE p = path[c]
        <5>1. meta[p] = None /\ body[p] = None /\ idx[p] = None /\ pdx[p] = None
          BY <1>0, <1>1, <3>3, <4>1, <4>2, <4>3, <4>4 DEF AloneMoving, Under, Whole, Moving
        <5>2. pdx'[p] = pdx[p]  BY <1>0, <1>1, <2>2, <4>1, <4>2, <4>4 DEF TypeOK
        <5> QED BY <4>1, <5>1, <5>2 DEF Right, Stands
      <4>5. CASE p = dest[c]
        <5>1. idx[p] = meta[p] /\ Stands(tb[c], body[p])
          BY <3>3, <4>1, <4>2, <4>3, <4>5 DEF AloneMoving, Under, Moving
        <5>2. pdx'[p] = tb[c]  BY <1>0, <1>1, <4>1, <4>5 DEF TypeOK
        <5> QED BY <4>1, <5>1, <5>2 DEF Right, Stands
      <4> QED BY <3>4, <4>4, <4>5
    <3> QED BY <1>5, <3>5, <3>6, <3>7, <3>8, <3>9, <3>10, <3>11, <3>12, <3>13 DEF Works, RequestStep, TaskStep
  <2> QED BY <2>3, <2>4
<1> QED BY <1>4, <1>5 DEF Act, Works

-----------------------------------------------------------------------------
\* A rebuild starts from no documents, and knows who is at work then.
LEMMA DropStays == ASSUME IInv, RebuildDrop  PROVE IInv'
<1>0. /\ TypeOK /\ Fitting /\ Whole
      /\ UNCHANGED <<meta, body, kind, path, dest, pc, seen, tpc, tm, tb, rm, rb, crashes>>
      /\ rpc' = "read" /\ rtodo' = Paths /\ disturbed' = InWork /\ met' = met \cup AllActive
  BY DEF IInv, RebuildDrop, fileVars, jobVars, taskVars
<1>1. AllActive \subseteq Requests /\ InWork \subseteq Paths  BY DEF AllActive, InWork, Touches
<1>2. TypeOK'
  <2>1. idx' = [p \in Paths |-> None] /\ pdx' = [p \in Paths |-> None]  BY DEF RebuildDrop
  <2>2. rebuilds' \in 0..MaxRebuilds  BY <1>0, BoundAssumption DEF RebuildDrop, TypeOK
  <2>3. idx' \in [Paths -> Contents \cup {None}] /\ pdx' \in [Paths -> Contents \cup {None, Empty}]
    BY <2>1
  <2> QED BY <1>0, <1>1, <2>2, <2>3 DEF TypeOK
<1>3. Fitting'
  <2>1. \A r \in Requests : pc[r] = "idle" => r \notin AllActive
    BY <1>0 DEF Fitting, Fit, AllActive, Active
  <2> QED BY <1>0, <2>1 DEF Fitting, Fit
<1>4. Whole'  BY <1>0 DEF Whole
<1>5. \A r \in Requests : Active(r)' => r \in met' /\ Touches(r)' \subseteq disturbed'
  BY <1>0 DEF AllActive, Active, InWork, Touches
<1>6. Company' /\ Lonely'
  <2>1. met' \subseteq Requests  BY <1>2 DEF TypeOK
  <2> QED BY <1>5, <2>1 DEF Company, Lonely, AllActive
<1>7. Rebuilding'
  <2>1. \A p \in Paths : idx'[p] = None /\ pdx'[p] = None  BY DEF RebuildDrop
  <2> QED BY <1>0, <2>1 DEF Rebuilding
<1>8. IndexTruthful'  BY <1>0 DEF IndexTruthful, Busy
<1> QED BY <1>2, <1>3, <1>4, <1>6, <1>7, <1>8 DEF IInv

\* Those at work during a rebuild stay known; the documents may change under them.
LEMMA OnlyRebuild ==
  ASSUME IInv, rpc # "off", UNCHANGED <<jobVars, pc, tpc, seen, historyVars, meta, body>>
  PROVE  Fitting' /\ Whole' /\ Lonely' /\ Company'
<1>0. UNCHANGED <<kind, path, dest, met, disturbed>>  BY DEF jobVars, historyVars
<1>1. Fitting' /\ Whole'  BY <1>0 DEF IInv, Fitting, Fit, Whole
<1>2. \A r \in Requests : Active(r)' => Active(r) /\ r \in met  BY DEF IInv, Company, AllActive, Active
<1>3. Lonely'  BY <1>0, <1>2 DEF Lonely
<1>4. \A r : Touches(r)' = Touches(r)  BY <1>0 DEF Touches
<1>5. met \subseteq Requests  BY DEF IInv, TypeOK
<1>6. Company'  BY <1>0, <1>2, <1>4, <1>5 DEF IInv, Company, AllActive
<1> QED BY <1>1, <1>3, <1>6

\* It reads the files of one entry,
LEMMA ReadStays == ASSUME IInv, NEW p \in Paths, RebuildRead(p)  PROVE IInv'
<1>0. /\ TypeOK /\ Rebuilding /\ rpc = "read"
      /\ UNCHANGED <<meta, body, idx, pdx, kind, path, dest, pc, seen, tpc, tm, tb, rebuilds, crashes, met, disturbed>>
      /\ rm' = [rm EXCEPT ![p] = meta[p]] /\ rb' = [rb EXCEPT ![p] = body[p]] /\ rtodo' = rtodo \ {p}
      /\ rpc' = IF rtodo' = {} THEN "put" ELSE "read"
  BY DEF IInv, RebuildRead, fileVars, docVars, jobVars, taskVars, historyVars
<1>1. TypeOK'  BY <1>0 DEF TypeOK
<1>2. Fitting' /\ Whole' /\ Lonely' /\ Company'  BY <1>0, OnlyRebuild DEF jobVars, historyVars
<1>3. Rebuilding'  BY <1>0 DEF Rebuilding, TypeOK
<1>4. IndexTruthful'  BY <1>0 DEF IndexTruthful, Busy
<1> QED BY <1>1, <1>2, <1>3, <1>4 DEF IInv

\* and in the end writes the documents of all.
LEMMA PutStays == ASSUME IInv, RebuildPut  PROVE IInv'
<1>0. /\ TypeOK /\ Rebuilding /\ Whole /\ rpc = "put" /\ rpc' = "off"
      /\ UNCHANGED <<meta, body, kind, path, dest, pc, seen, tpc, tm, tb, rm, rb, rtodo, rebuilds, crashes, met, disturbed>>
      /\ idx' = [x \in Paths |-> IF rm[x] = None THEN idx[x] ELSE rm[x]]
      /\ pdx' = [x \in Paths |-> IF None \in {rm[x], rb[x]} THEN pdx[x] ELSE rb[x]]
  BY DEF IInv, RebuildPut, fileVars, jobVars, taskVars, historyVars
<1>1. TypeOK'
  <2>1. idx' \in [Paths -> Contents \cup {None}]  BY <1>0 DEF TypeOK
  <2>2. pdx' \in [Paths -> Contents \cup {None, Empty}]  BY <1>0 DEF TypeOK
  <2> QED BY <1>0, <2>1, <2>2 DEF TypeOK
<1>2. Fitting' /\ Whole' /\ Lonely' /\ Company'  BY <1>0, OnlyRebuild DEF jobVars, historyVars
<1>3. Rebuilding'  BY <1>0 DEF Rebuilding
<1>4. IndexTruthful'
  <2> SUFFICES ASSUME NEW x \in Paths \ disturbed  PROVE Right(x)'
    BY <1>0 DEF IndexTruthful, Right, Stands
  <2>1. idx[x] = None /\ pdx[x] = None /\ rm[x] = meta[x] /\ rb[x] = body[x]  BY <1>0 DEF Rebuilding
  <2>2. idx'[x] = meta[x] /\ pdx'[x] = IF None \in {meta[x], body[x]} THEN None ELSE body[x]
    BY <1>0, <2>1
  <2> QED BY <1>0, <2>2 DEF Right, Stands, Whole
<1> QED BY <1>1, <1>2, <1>3, <1>4 DEF IInv

\* Nothing changes, nothing breaks.
LEMMA Stutter == ASSUME IInv, UNCHANGED vars  PROVE IInv'
<1> USE DEF vars, fileVars, docVars, jobVars, taskVars, rebuildVars, historyVars, IInv
<1>1. TypeOK'  BY DEF TypeOK
<1>2. Fitting' /\ Whole'  BY DEF Fitting, Fit, Whole
<1>3. Company'  BY DEF Company, AllActive, Active, Touches
<1>4. Lonely'
  <2>1. \A r \in Requests : Alone(r) => Alone(r)'
    <3> TAKE r \in Requests
    <3>1. AloneBefore(r) => AloneBefore(r)'  BY DEF AloneBefore, Touches, Right, Stands
    <3>2. AloneWriting(r) => AloneWriting(r)'  BY DEF AloneWriting, Under
    <3>3. AloneDeleting(r) => AloneDeleting(r)'  BY DEF AloneDeleting, Under
    <3>4. AloneMoving(r) => AloneMoving(r)'  BY DEF AloneMoving, Under, Stands
    <3> QED BY <3>1, <3>2, <3>3, <3>4 DEF Alone
  <2> QED BY <2>1 DEF Lonely, Active
<1>5. Rebuilding'  BY DEF Rebuilding
<1>6. IndexTruthful'  BY DEF IndexTruthful, Busy, InWork, AllActive, Active, Touches
<1> QED BY <1>1, <1>2, <1>3, <1>4, <1>5, <1>6

\* The invariant holds of every behaviour.
LEMMA Always == Spec => []IInv
<1>1. IInv /\ [Next]_vars => IInv'
  <2> SUFFICES ASSUME IInv, Next \/ UNCHANGED vars  PROVE IInv'
    OBVIOUS
  <2>1. CASE UNCHANGED vars  BY <2>1, Stutter
  <2>2. ASSUME NEW r \in Requests, Act(r)  PROVE IInv'
    BY <2>2, TypesStay, FittingStays, WholeStays, CompanyStays, LonelyStays, RebuildingStays, TruthStays DEF IInv
  <2>3. CASE RebuildStep  BY <2>3, DropStays, ReadStays, PutStays DEF RebuildStep
  <2> QED BY <2>1, <2>2, <2>3 DEF Next, Act
<1> QED BY InitIInv, <1>1, PTL DEF Spec

\* Every variable keeps its type: files, documents, requests, tasks and the rebuild.
THEOREM TypeCorrect == Spec => []TypeOK
BY Always, PTL DEF IInv

\* When nobody is at work on a path, its documents say what its files say, but where writers
\* of the path overlapped, a refused delete or move was announced, or a worker died; and
\* create_index repairs what nobody works on: for any number of paths and requests.
THEOREM IndexTruthfulAlways == Spec => []IndexTruthful
BY Always, PTL DEF IInv
=============================================================================
