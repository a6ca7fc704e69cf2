------------------------- MODULE Attachments_proofs -------------------------
(***************************************************************************)
(* Proof that the text of an entry's document is what the files say, for   *)
(* any number of entries, attachments, requests and workers.               *)
(***************************************************************************)
EXTENDS Attachments, TLAPS

PcPoints == {"idle", "write", "unlink", "done"}
TaskPoints == {"none", "start", "route", "load", "list", "read", "save", "done"}

\* Where a request is, its task is not ahead of it, and only an application of an alteration
\* goes on when its task has started.
Fit(r) ==
  /\ pc[r] = "idle" => tpc[r] = "none" /\ r \notin met
  /\ pc[r] # "idle" => at[r] \in Parents /\ kind[r] # "none"
  /\ pc[r] = "write" => tpc[r] = "none"
  /\ pc[r] = "unlink" => kind[r] = "apply" /\ tpc[r] # "none"
  /\ kind[r] \in {"attach", "detach", "apply"} => name[r] \in Names
  /\ tpc[r] = "route" => kind[r] \in {"attach", "detach"}
  /\ tpc[r] \in {"none", "start", "route"} => aim[r] = None
  /\ tpc[r] \in {"load", "list", "read", "save"} => aim[r] \in Parents
  /\ tpc[r] \in {"load", "list", "read", "save"} /\ kind[r] \in EntryKinds => aim[r] = at[r]
  /\ tpc[r] \in {"load", "list", "read"} => kind[r] # "remove"
Fitting == \A r \in Requests : Fit(r)

\* Two requests at work at an entry have both met; the entries of one that has are disturbed.
Company ==
  /\ \A r, s \in Requests : r # s /\ Active(r) /\ Active(s) /\ {at[r], aim[r]} \cap {at[s], aim[s]} \cap Parents # {}
       => r \in met
  /\ \A r \in met : Active(r) => {at[r], aim[r]} \cap Parents \subseteq disturbed
  /\ \A r \in Requests \ met : Active(r) => aim[r] \in {None, at[r]}

\* A request that works alone: what the document says while it has not written, what it knows
\* of the files when it has.
Alone(r) ==
  LET p == at[r] IN
  /\ pc[r] = "write" /\ p \notin disturbed => doc[p] = Told(p)
  /\ pc[r] = "write" /\ kind[r] \in {"edit", "remove", "apply"} => entry[p] # None
  /\ kind[r] \in {"attach", "detach"} /\ tpc[r] # "none" /\ p \notin disturbed
       => entry[p] # None /\ doc[p].says = entry[p]
  /\ kind[r] \in EntryKinds \ {"remove"} /\ tpc[r] # "none" => entry[p] # None
  /\ kind[r] = "remove" /\ tpc[r] # "none" => entry[p] = None
  /\ tpc[r] \in {"list", "read", "save"} /\ kind[r] # "remove" /\ (kind[r] \in EntryKinds \/ p \notin disturbed)
       => seen[r] = entry[p]
  /\ tpc[r] = "read" /\ (kind[r] \in EntryKinds \/ p \notin disturbed) => from[r] = p
  /\ tpc[r] \in {"read", "save"} /\ kind[r] # "remove"
       /\ (kind[r] \in EntryKinds \ {"apply"} \/ p \notin disturbed) => text[r] = att[p]
  /\ pc[r] = "unlink" /\ tpc[r] = "done" /\ p \notin disturbed => doc[p] = Told(p)
Lonely == \A r \in Requests \ met : Active(r) => Alone(r)

IInv == TypeOK /\ Fitting /\ Company /\ Lonely /\ TextTruthful

-----------------------------------------------------------------------------
Act(r) == Begin(r) \/ Step(r) \/ TaskStep(r)

\* It holds at first.
LEMMA InitIInv == Init => IInv
<1> SUFFICES ASSUME Init  PROVE IInv
  OBVIOUS
<1>1. \A p \in Parents : Told(p) \in Docs \cup {NoDoc}  BY DEF Init, Told, Docs, Contents
<1>2. TypeOK
  <2>1. doc \in [Parents -> Docs \cup {NoDoc}]  BY <1>1 DEF Init
  <2>2. data \in [Workers -> Events]  BY DEF Init, Events, NoEvent
  <2>3. crashes \in 0..MaxCrashes  BY CrashesAssumption DEF Init
  <2> QED BY <2>1, <2>2, <2>3 DEF Init, TypeOK, Contents, Kinds
<1>3. \A r \in Requests : pc[r] = "idle" /\ tpc[r] = "none" /\ aim[r] = None /\ kind[r] = "none"  BY DEF Init
<1>4. \A r \in Requests : ~Active(r)  BY <1>3 DEF Active
<1>5. Fitting  BY <1>3 DEF Init, Fitting, Fit, EntryKinds
<1>6. Company /\ Lonely  BY <1>4 DEF Init, Company, Lonely
<1>7. TextTruthful  BY DEF Init, TextTruthful
<1> QED BY <1>2, <1>5, <1>6, <1>7 DEF IInv

\* A step of a request leaves the others where they are.
LEMMA OthersStay ==
  ASSUME TypeOK, NEW r \in Requests, Act(r)
  PROVE  /\ \A s \in Requests \ {r} : /\ pc'[s] = pc[s] /\ tpc'[s] = tpc[s] /\ kind'[s] = kind[s]
                                      /\ at'[s] = at[s] /\ name'[s] = name[s] /\ aim'[s] = aim[s]
                                      /\ seen'[s] = seen[s] /\ text'[s] = text[s] /\ from'[s] = from[s]
         /\ on' = on /\ crashes' = crashes
<1> USE DEF TypeOK, jobVars, taskVars, Goto, Leave, Task
<1>1. CASE Begin(r)  BY <1>1 DEF Begin
<1>2. CASE WriteAttachment(r)  BY <1>2 DEF WriteAttachment
<1>3. CASE WriteEntry(r)  BY <1>3 DEF WriteEntry
<1>4. CASE Unlink(r)  BY <1>4 DEF Unlink
<1>5. CASE Start(r)  BY <1>5 DEF Start
<1>6. CASE Route(r)  BY <1>6 DEF Route
<1>7. CASE Load(r)  BY <1>7 DEF Load
<1>8. CASE List(r)  BY <1>8 DEF List
<1>9. CASE Read(r)  BY <1>9 DEF Read
<1>10. CASE Save(r)  BY <1>10 DEF Save, Forget
<1> QED BY <1>1, <1>2, <1>3, <1>4, <1>5, <1>6, <1>7, <1>8, <1>9, <1>10 DEF Act, Step, TaskStep

\* It writes nowhere but where it is at work, and takes back no disturbance elsewhere.
LEMMA WritesAtHome ==
  ASSUME TypeOK, NEW r \in Requests, Act(r), NEW p \in Parents, p \notin {at[r], aim[r]}
  PROVE  /\ entry'[p] = entry[p] /\ att'[p] = att[p] /\ doc'[p] = doc[p]
         /\ p \in disturbed => p \in disturbed'
<1> USE DEF TypeOK, fileVars, historyVars, Task
<1>1. CASE Begin(r)  BY <1>1 DEF Begin, Meet
<1>2. CASE WriteAttachment(r)  BY <1>2 DEF WriteAttachment, Disturb
<1>3. CASE WriteEntry(r)  BY <1>3 DEF WriteEntry
<1>4. CASE Unlink(r)  BY <1>4 DEF Unlink, Disturb
<1>5. CASE Start(r)  BY <1>5 DEF Start
<1>6. CASE Route(r)  BY <1>6 DEF Route
<1>7. CASE Load(r)  BY <1>7 DEF Load
<1>8. CASE List(r)  BY <1>8 DEF List, Disturb
<1>9. CASE Read(r)  BY <1>9 DEF Read
<1>10. CASE Save(r)
  <2>1. disturbed' = disturbed \/ disturbed' = disturbed \ {aim[r]}  BY <1>10 DEF Save, Vouch
  <2> QED BY <1>10, <2>1 DEF Save
<1> QED BY <1>1, <1>2, <1>3, <1>4, <1>5, <1>6, <1>7, <1>8, <1>9, <1>10 DEF Act, Step, TaskStep

\* What it does to the histories
LEMMA Histories ==
  ASSUME TypeOK, NEW r \in Requests, Act(r)
  PROVE  \/ met' = met /\ disturbed' = disturbed
         \/ met' = met /\ disturbed' = disturbed \cup {at[r]} /\ (pc[r] = "unlink" \/ pc[r] = "write")
         \/ met' = met /\ disturbed' = disturbed \cup {aim[r]} /\ List(r)
         \/ /\ Save(r) /\ met' = met /\ disturbed' = disturbed \ {aim[r]}
            /\ r \notin met /\ kind[r] \in EntryKinds \ {"apply"}
         \/ /\ Begin(r) /\ AtWork(at'[r]) \ {r} # {}
            /\ met' = met \cup (AtWork(at'[r]) \ {r}) \cup {r} /\ disturbed' = disturbed \cup {at'[r]}
         \/ /\ Route(r) /\ aim'[r] # at[r] /\ disturbed' = disturbed \cup ({at[r], aim'[r]} \cap Parents)
            /\ met' = met \cup {r} \cup (IF aim'[r] = None THEN {} ELSE AtWork(aim'[r]))
<1> USE DEF historyVars, TypeOK
<1>1. CASE Begin(r)
  <2>1. PICK q \in Parents : at' = [at EXCEPT ![r] = q] /\ Meet(r, q)  BY <1>1 DEF Begin
  <2>2. at'[r] = q  BY <2>1
  <2> QED BY <1>1, <2>1, <2>2 DEF Meet
<1>2. CASE WriteAttachment(r)  BY <1>2 DEF WriteAttachment, Disturb
<1>3. CASE WriteEntry(r)  BY <1>3 DEF WriteEntry
<1>4. CASE Unlink(r)  BY <1>4 DEF Unlink, Disturb
<1>5. CASE Start(r)  BY <1>5 DEF Start
<1>6. CASE Route(r)
  <2>1. aim'[r] = data[on[r]].of  BY <1>6 DEF Route
  <2> QED BY <1>6, <2>1 DEF Route
<1>7. CASE Load(r) \/ List(r) \/ Read(r)  BY <1>7 DEF Load, List, Read, Disturb
<1>8. CASE Save(r)
  <2>1. CASE kind[r] \in EntryKinds \ {"apply"} /\ r \notin met  BY <1>8, <2>1 DEF Save, Vouch
  <2>2. CASE ~(kind[r] \in EntryKinds \ {"apply"} /\ r \notin met)  BY <1>8, <2>2 DEF Save
  <2> QED BY <2>1, <2>2
<1> QED BY <1>1, <1>2, <1>3, <1>4, <1>5, <1>6, <1>7, <1>8 DEF Act, Step, TaskStep

\* What hooks at their end forget
LEMMA Forgotten ==
  ASSUME TypeOK, NEW rs, Forget(rs)
  PROVE  /\ aim' \in [Requests -> Parents \cup {None}] /\ seen' \in [Requests -> Contents \cup {None}]
         /\ from' \in [Requests -> (Spaces \cup {None}) \X Paths \cup {None}]
         /\ text' \in [Requests -> SUBSET Names]
         /\ \A r \in Requests : IF r \in rs THEN aim'[r] = None
              ELSE aim'[r] = aim[r] /\ seen'[r] = seen[r] /\ from'[r] = from[r] /\ text'[r] = text[r]
<1>1. aim' \in [Requests -> Parents \cup {None}]  BY DEF TypeOK, Forget
<1>2. seen' \in [Requests -> Contents \cup {None}]  BY DEF TypeOK, Forget
<1>3. from' \in [Requests -> (Spaces \cup {None}) \X Paths \cup {None}]  BY DEF TypeOK, Forget
<1>4. text' \in [Requests -> SUBSET Names]  BY DEF TypeOK, Forget
<1>5. \A r \in Requests : IF r \in rs THEN aim'[r] = None
        ELSE aim'[r] = aim[r] /\ seen'[r] = seen[r] /\ from'[r] = from[r] /\ text'[r] = text[r]
  BY DEF Forget
<1> QED BY <1>1, <1>2, <1>3, <1>4, <1>5

\* Types survive a step.
LEMMA TypesStay ==
  ASSUME IInv, NEW r \in Requests, Act(r)
  PROVE  TypeOK'
<1>0. TypeOK /\ Fit(r) /\ on' = on /\ crashes' = crashes  BY OthersStay DEF IInv, Fitting
<1>1. /\ pc' \in [Requests -> PcPoints] /\ tpc' \in [Requests -> TaskPoints]
      /\ kind' \in [Requests -> Kinds] /\ at' \in [Requests -> Parents \cup {None}]
      /\ name' \in [Requests -> Names \cup {None}]
  <2> USE <1>0 DEF TypeOK, PcPoints, TaskPoints, jobVars, Goto, Leave, Task
  <2>1. CASE Begin(r)  BY <2>1 DEF Begin
  <2>2. CASE WriteAttachment(r)  BY <2>2 DEF WriteAttachment
  <2>3. CASE WriteEntry(r)
    <3>1. /\ \/ tpc' = tpc \/ tpc' = [tpc EXCEPT ![r] = "start"]
          /\ \/ pc' = [pc EXCEPT ![r] = "unlink"] \/ pc' = [pc EXCEPT ![r] = "done"]
          /\ UNCHANGED <<kind, at, name>>
      BY <2>3 DEF WriteEntry
    <3> QED BY <3>1
  <2>4. CASE Unlink(r)  BY <2>4 DEF Unlink
  <2>5. CASE Start(r)
    <3>1. tpc' = [tpc EXCEPT ![r] = IF kind[r] \in {"attach", "detach"} THEN "route"
                                    ELSE IF kind[r] = "remove" THEN "save" ELSE "load"]
          /\ UNCHANGED <<pc, kind, at, name>>
      BY <2>5 DEF Start
    <3> QED BY <3>1
  <2>6. CASE Route(r)
    <3>1. (tpc' = [tpc EXCEPT ![r] = "done"] \/ tpc' = [tpc EXCEPT ![r] = "load"])
          /\ UNCHANGED <<pc, kind, at, name>>
      BY <2>6 DEF Route
    <3> QED BY <3>1
  <2>7. CASE Load(r)
    <3>1. (tpc' = [tpc EXCEPT ![r] = "done"] \/ tpc' = [tpc EXCEPT ![r] = "list"])
          /\ UNCHANGED <<pc, kind, at, name>>
      BY <2>7 DEF Load
    <3> QED BY <3>1
  <2>8. CASE List(r)  BY <2>8 DEF List
  <2>9. CASE Read(r)  BY <2>9 DEF Read
  <2>10. CASE Save(r)  BY <2>10 DEF Save
  <2> QED BY <2>1, <2>2, <2>3, <2>4, <2>5, <2>6, <2>7, <2>8, <2>9, <2>10 DEF Act, Step, TaskStep
<1>2. entry' \in [Parents -> Contents \cup {None}] /\ att' \in [Parents -> SUBSET Names]
  <2>1. CASE WriteAttachment(r)
    <3>1. /\ entry' = entry /\ kind[r] \in {"attach", "detach"}
          /\ \/ att' = [att EXCEPT ![at[r]] = @ \cup {name[r]}] \/ att' = [att EXCEPT ![at[r]] = @ \ {name[r]}]
      BY <2>1 DEF WriteAttachment
    <3>2. name[r] \in Names  BY <1>0, <3>1 DEF Fit
    <3> QED BY <1>0, <3>1, <3>2 DEF TypeOK
  <2>2. CASE WriteEntry(r)
    <3>1. CASE entry' = entry /\ att' = att  BY <1>0, <3>1 DEF TypeOK
    <3>2. CASE ~(entry' = entry /\ att' = att)
      <4>1. /\ entry' = [entry EXCEPT ![at[r]] = IF kind[r] = "remove" THEN None ELSE r]
            /\ att' = [att EXCEPT ![at[r]] = IF kind[r] = "remove" THEN {} ELSE @]
        BY <2>2, <3>2 DEF WriteEntry, fileVars
      <4>2. r \in Contents  BY DEF Contents
      <4> QED BY <1>0, <4>1, <4>2 DEF TypeOK
    <3> QED BY <3>1, <3>2
  <2>3. CASE Unlink(r)  BY <1>0, <2>3 DEF Unlink, TypeOK
  <2>4. CASE ~WriteAttachment(r) /\ ~WriteEntry(r) /\ ~Unlink(r)
    BY <1>0, <2>4 DEF Act, Step, TaskStep, Begin, Start, Route, Load, List, Read, Save, Task, fileVars, TypeOK
  <2> QED BY <2>1, <2>2, <2>3, <2>4
<1>3. /\ doc' \in [Parents -> Docs \cup {NoDoc}] /\ data' \in [Workers -> Events]
      /\ aim' \in [Requests -> Parents \cup {None}] /\ seen' \in [Requests -> Contents \cup {None}]
      /\ from' \in [Requests -> (Spaces \cup {None}) \X Paths \cup {None}]
      /\ text' \in [Requests -> SUBSET Names]
  <2>1. CASE Start(r)
    <3>1. UNCHANGED <<doc, seen, from, text>>  BY <2>1 DEF Start
    <3>2. at[r] \in Parents /\ on[r] \in Workers
      <4>1. pc[r] # "idle"  BY <1>0, <2>1 DEF Start, Task, Fit
      <4> QED BY <1>0, <4>1 DEF TypeOK, Fit
    <3>3. at[r][1] \in Spaces  BY <3>2, ParentsAssumption
    <3>4. \A q \in Parents \cup {None} : [space |-> at[r][1], of |-> q] \in Events  BY <3>3 DEF Events
    <3>5. /\ \E q \in Parents \cup {None} : data' = [data EXCEPT ![on[r]] = [space |-> at[r][1], of |-> q]]
          /\ aim' = [aim EXCEPT ![r] = None] \/ aim' = [aim EXCEPT ![r] = at[r]]
      BY <2>1, <3>2 DEF Start
    <3>6. data' \in [Workers -> Events]  BY <1>0, <3>2, <3>4, <3>5 DEF TypeOK
    <3>7. aim' \in [Requests -> Parents \cup {None}]  BY <1>0, <3>2, <3>5 DEF TypeOK
    <3> QED BY <1>0, <3>1, <3>6, <3>7 DEF TypeOK
  <2>2. CASE Route(r)
    <3>1. data[on[r]].of \in Parents \cup {None}  BY <1>0 DEF TypeOK, Events
    <3> QED BY <1>0, <2>2, <3>1 DEF Route, TypeOK
  <2>3. CASE Load(r)
    <3>1. aim[r] \in Parents  BY <1>0, <2>3 DEF Load, Task, Fit
    <3>2. entry[aim[r]] \in Contents \cup {None} /\ doc[aim[r]].says \in Contents \cup {None}
      BY <1>0, <3>1 DEF TypeOK, Docs, NoDoc
    <3>3. /\ seen' = [seen EXCEPT ![r] = entry[aim[r]]] \/ seen' = [seen EXCEPT ![r] = doc[aim[r]].says]
          /\ UNCHANGED <<doc, data, aim, from, text>>
      BY <2>3 DEF Load
    <3>4. seen' \in [Requests -> Contents \cup {None}]  BY <1>0, <3>2, <3>3 DEF TypeOK
    <3> QED BY <1>0, <3>3, <3>4 DEF TypeOK
  <2>4. CASE List(r)
    <3>1. aim[r] \in Parents  BY <1>0, <2>4 DEF List, Task, Fit
    <3>2. aim[r] \in Spaces \X Paths  BY <3>1, ParentsAssumption
    <3>3. data[on[r]].space \in Spaces \cup {None}  BY <1>0 DEF TypeOK, Events
    <3>4. Directory(r) \in (Spaces \cup {None}) \X Paths  BY <3>2, <3>3 DEF Directory
    <3>5. \A place : In(place) \in SUBSET Names  BY <1>0 DEF In, TypeOK
    <3>6. /\ from' = [from EXCEPT ![r] = Directory(r)] /\ text' = [text EXCEPT ![r] = In(Directory(r))]
          /\ UNCHANGED <<doc, data, aim, seen>>
      BY <2>4 DEF List
    <3>7. from' \in [Requests -> (Spaces \cup {None}) \X Paths \cup {None}]  BY <1>0, <3>4, <3>6 DEF TypeOK
    <3>8. text' \in [Requests -> SUBSET Names]  BY <1>0, <3>5, <3>6 DEF TypeOK
    <3> QED BY <1>0, <3>6, <3>7, <3>8 DEF TypeOK
  <2>5. CASE Read(r)
    <3>1. /\ text' = text \/ text' = [text EXCEPT ![r] = {}] \/ text' = [text EXCEPT ![r] = text[r]]
          /\ from' = [from EXCEPT ![r] = None]
          /\ UNCHANGED <<doc, data, aim, seen>>
      BY <2>5 DEF Read
    <3>2. text' \in [Requests -> SUBSET Names]  BY <1>0, <3>1 DEF TypeOK
    <3>3. from' \in [Requests -> (Spaces \cup {None}) \X Paths \cup {None}]  BY <1>0, <3>1 DEF TypeOK
    <3> QED BY <1>0, <3>1, <3>2, <3>3 DEF TypeOK
  <2>6. CASE Save(r)
    <3>1. [says |-> seen[r], text |-> text[r]] \in Docs  BY <1>0 DEF TypeOK, Docs
    <3>2. /\ \/ doc' = [doc EXCEPT ![aim[r]] = NoDoc]
             \/ doc' = [doc EXCEPT ![aim[r]] = [says |-> seen[r], text |-> text[r]]]
          /\ data' = data /\ Forget({r})
      BY <2>6 DEF Save
    <3>3. doc' \in [Parents -> Docs \cup {NoDoc}]  BY <1>0, <3>1, <3>2 DEF TypeOK
    <3>4. /\ aim' \in [Requests -> Parents \cup {None}] /\ seen' \in [Requests -> Contents \cup {None}]
          /\ from' \in [Requests -> (Spaces \cup {None}) \X Paths \cup {None}]
          /\ text' \in [Requests -> SUBSET Names]
      BY <1>0, <3>2, Forgotten
    <3> QED BY <1>0, <3>2, <3>3, <3>4 DEF TypeOK
  <2>7. CASE ~Start(r) /\ ~TaskStep(r)
    <3>1. UNCHANGED <<doc, data, taskVars>>
      BY <2>7 DEF Act, Step, Begin, WriteAttachment, WriteEntry, Unlink
    <3> QED BY <1>0, <3>1 DEF TypeOK, taskVars
  <2> QED BY <2>1, <2>2, <2>3, <2>4, <2>5, <2>6, <2>7 DEF TaskStep
<1>4. met' \subseteq Requests /\ disturbed' \subseteq Parents
  <2>1. pc[r] \in {"write", "unlink"} => at[r] \in Parents  BY <1>0 DEF Fit
  <2>2. /\ Begin(r) => at'[r] \in Parents
        /\ List(r) => aim[r] \in Parents
    BY <1>0 DEF Begin, List, Task, TypeOK, Fit
  <2>3. \A p : AtWork(p) \subseteq Requests  BY DEF AtWork
  <2>4. met \subseteq Requests /\ disturbed \subseteq Parents  BY <1>0 DEF TypeOK
  <2>5. \/ met' = met
        \/ met' = met \cup (AtWork(at'[r]) \ {r}) \cup {r}
        \/ met' = met \cup {r} \cup (IF aim'[r] = None THEN {} ELSE AtWork(aim'[r]))
    BY <1>0, Histories
  <2>6. \/ disturbed' \subseteq disturbed
        \/ disturbed' = disturbed \cup {at[r]} /\ pc[r] \in {"write", "unlink"}
        \/ disturbed' = disturbed \cup {aim[r]} /\ List(r)
        \/ disturbed' = disturbed \cup {at'[r]} /\ Begin(r)
        \/ disturbed' = disturbed \cup ({at[r], aim'[r]} \cap Parents)
    BY <1>0, Histories
  <2>7. met' \subseteq Requests  BY <2>3, <2>4, <2>5
  <2>8. disturbed' \subseteq Parents  BY <2>1, <2>2, <2>4, <2>6
  <2> QED BY <2>7, <2>8
<1> QED BY <1>0, <1>1, <1>2, <1>3, <1>4 DEF TypeOK, PcPoints, TaskPoints

\* Every request fits after a step.
LEMMA FittingStays ==
  ASSUME IInv, NEW r \in Requests, Act(r)
  PROVE  Fitting'
<1>0. TypeOK /\ Fitting /\ Fit(r) /\ None \notin Parents \cup Names  BY ContentAssumption DEF IInv, Fitting
<1>1. ASSUME NEW s \in Requests \ {r}  PROVE Fit(s)'
  <2>1. pc[s] = "idle" /\ s \notin met => s \notin met'
    <3>1. ~Active(s) => \A p : s \notin AtWork(p)  BY DEF AtWork
    <3>2. pc[s] = "idle" => ~Active(s)  BY <1>0 DEF Fitting, Fit, Active
    <3> QED BY <1>0, <3>1, <3>2, Histories
  <2> QED BY <1>0, <2>1, OthersStay DEF Fitting, Fit
<1>2. Fit(r)'
  <2>1. CASE Begin(r)
    <3>1. PICK k \in Kinds \ {"none"}, q \in Parents, n \in Names \cup {None} :
            Fits(k, q, n) /\ kind' = [kind EXCEPT ![r] = k] /\ at' = [at EXCEPT ![r] = q]
            /\ name' = [name EXCEPT ![r] = n]
      BY <2>1 DEF Begin
    <3>2. kind'[r] = k /\ at'[r] = q /\ name'[r] = n /\ pc'[r] = "write" /\ tpc' = tpc /\ aim' = aim
      BY <1>0, <2>1, <3>1 DEF Begin, Goto, TypeOK, taskVars
    <3>3. k \in {"attach", "detach", "apply"} => n \in Names
      <4>1. att[q] \subseteq Names  BY <1>0 DEF TypeOK
      <4> QED BY <3>1, <4>1 DEF Fits
    <3>4. tpc[r] = "none" /\ aim[r] = None  BY <1>0, <2>1 DEF Begin, Fit
    <3> QED BY <1>0, <3>1, <3>2, <3>3, <3>4 DEF Fit
  <2>2. CASE WriteAttachment(r)
    <3>1. /\ pc[r] = "write" /\ pc'[r] = "done" /\ tpc'[r] = "start" /\ kind[r] \in {"attach", "detach"}
          /\ UNCHANGED <<kind, at, name, aim>>
      BY <1>0, <2>2 DEF WriteAttachment, Goto, Leave, TypeOK, jobVars, taskVars
    <3> QED BY <1>0, <3>1 DEF Fit
  <2>3. CASE WriteEntry(r)
    <3>1. /\ pc[r] = "write" /\ kind[r] \in EntryKinds /\ UNCHANGED <<kind, at, name, aim>>
          /\ \/ pc'[r] = "done" /\ tpc'[r] \in {tpc[r], "start"}
             \/ pc'[r] = "unlink" /\ kind[r] = "apply" /\ tpc'[r] = "start"
      BY <1>0, <2>3 DEF WriteEntry, Goto, Leave, TypeOK, jobVars, taskVars
    <3> QED BY <1>0, <3>1 DEF Fit
  <2>4. CASE Unlink(r)
    <3>1. pc[r] = "unlink" /\ pc'[r] = "done" /\ UNCHANGED <<tpc, kind, at, name, aim>>
      BY <1>0, <2>4 DEF Unlink, Goto, TypeOK, jobVars, taskVars
    <3> QED BY <1>0, <3>1 DEF Fit
  <2>5. CASE Start(r)
    <3>1. /\ tpc[r] = "start" /\ UNCHANGED <<pc, kind, at, name>>
          /\ tpc'[r] = IF kind[r] \in {"attach", "detach"} THEN "route"
                       ELSE IF kind[r] = "remove" THEN "save" ELSE "load"
          /\ aim'[r] = IF kind[r] \in {"attach", "detach"} THEN None ELSE at[r]
      BY <1>0, <2>5 DEF Start, Task, TypeOK, jobVars
    <3>2. pc[r] # "idle" /\ kind[r] \in Kinds \ {"none"}  BY <1>0, <3>1 DEF Fit, TypeOK
    <3> QED BY <1>0, <3>1, <3>2 DEF Fit, Kinds, EntryKinds
  <2>6. CASE Route(r)
    <3>1. /\ tpc[r] = "route" /\ UNCHANGED <<pc, kind, at, name>>
          /\ aim'[r] = data[on[r]].of /\ tpc'[r] = IF data[on[r]].of = None THEN "done" ELSE "load"
      BY <1>0, <2>6 DEF Route, Task, TypeOK, jobVars
    <3>2. data[on[r]].of \in Parents \cup {None}  BY <1>0 DEF TypeOK, Events
    <3> QED BY <1>0, <3>1, <3>2 DEF Fit, EntryKinds
  <2>7. CASE Load(r) \/ List(r) \/ Read(r) \/ Save(r)
    <3>1. /\ tpc[r] \in {"load", "list", "read", "save"} /\ UNCHANGED <<pc, kind, at, name>>
          /\ \/ tpc[r] = "load" /\ tpc'[r] \in {"done", "list"} /\ aim' = aim
             \/ tpc[r] = "list" /\ tpc'[r] = "read" /\ aim' = aim
             \/ tpc[r] = "read" /\ tpc'[r] = "save" /\ aim' = aim
             \/ tpc[r] = "save" /\ tpc'[r] = "done" /\ aim'[r] = None
      <4> USE <1>0 DEF Task, TypeOK, jobVars, taskVars
      <4>1. CASE Load(r)  BY <4>1 DEF Load
      <4>2. CASE List(r)  BY <4>2 DEF List
      <4>3. CASE Read(r)  BY <4>3 DEF Read
      <4>4. CASE Save(r)  BY <4>4 DEF Save, Forget
      <4> QED BY <2>7, <4>1, <4>2, <4>3, <4>4
    <3> QED BY <1>0, <3>1 DEF Fit
  <2> QED BY <2>1, <2>2, <2>3, <2>4, <2>5, <2>6, <2>7 DEF Act, Step, TaskStep
<1> QED BY <1>1, <1>2 DEF Fitting

\* Two that meet are marked, and so are the entries they meet at.
LEMMA Meeting ==
  ASSUME TypeOK, Fitting, NEW r \in Requests, Act(r)
  PROVE  /\ met \subseteq met'
         /\ Begin(r) => /\ AtWork(at'[r]) \ {r} \subseteq met'
                        /\ AtWork(at'[r]) \ {r} # {} => r \in met' /\ at'[r] \in disturbed'
                        /\ disturbed \subseteq disturbed'
                        /\ UNCHANGED <<fileVars, doc>>
         /\ Route(r) /\ aim'[r] # at[r] => /\ r \in met' /\ disturbed \subseteq disturbed'
                                           /\ {at[r], aim'[r]} \cap Parents \subseteq disturbed'
                                           /\ aim'[r] # None => AtWork(aim'[r]) \subseteq met'
<1>1. met \subseteq met'  BY Histories
<1>2. ASSUME Begin(r)
      PROVE  /\ AtWork(at'[r]) \ {r} \subseteq met'
             /\ AtWork(at'[r]) \ {r} # {} => r \in met' /\ at'[r] \in disturbed'
             /\ disturbed \subseteq disturbed'
             /\ UNCHANGED <<fileVars, doc>>
  <2>1. PICK q \in Parents : at' = [at EXCEPT ![r] = q] /\ Meet(r, q)  BY <1>2 DEF Begin
  <2>2. at'[r] = q  BY <2>1 DEF TypeOK
  <2>3. UNCHANGED <<fileVars, doc>>  BY <1>2 DEF Begin
  <2>4. CASE AtWork(q) \ {r} = {}  BY <2>1, <2>2, <2>3, <2>4 DEF Meet, historyVars
  <2>5. CASE AtWork(q) \ {r} # {}  BY <2>1, <2>2, <2>3, <2>5 DEF Meet
  <2> QED BY <2>4, <2>5
<1>3. ASSUME Route(r), aim'[r] # at[r]
      PROVE  /\ r \in met' /\ disturbed \subseteq disturbed'
             /\ {at[r], aim'[r]} \cap Parents \subseteq disturbed'
             /\ aim'[r] # None => AtWork(aim'[r]) \subseteq met'
  <2>1. aim'[r] = data[on[r]].of  BY <1>3 DEF Route, TypeOK
  <2>2. /\ disturbed' = disturbed \cup ({at[r], aim'[r]} \cap Parents)
        /\ met' = met \cup {r} \cup (IF aim'[r] = None THEN {} ELSE AtWork(aim'[r]))
    BY <1>3, <2>1 DEF Route
  <2> QED BY <2>2
<1> QED BY <1>1, <1>2, <1>3

\* Where a step takes its request
LEMMA Footprint ==
  ASSUME TypeOK, Fitting, NEW r \in Requests, Act(r)
  PROVE  \/ /\ Begin(r) /\ ~Active(r) /\ at'[r] \in Parents /\ aim'[r] = None
            /\ pc'[r] = "write" /\ tpc'[r] = "none" /\ r \notin met
         \/ Route(r) /\ Active(r) /\ at'[r] = at[r] /\ aim'[r] # at[r]
         \/ /\ Active(r) /\ at'[r] = at[r] /\ aim'[r] \in {aim[r], at[r], None} /\ met' = met
            /\ ~Begin(r)
<1>0. Fit(r)  BY DEF Fitting
<1> USE DEF TypeOK, jobVars, taskVars, Goto, Leave, Task
<1>1. CASE Begin(r)
  <2>1. at'[r] \in Parents /\ pc'[r] = "write" /\ aim' = aim /\ tpc' = tpc /\ pc[r] = "idle"
    BY <1>1 DEF Begin
  <2> QED BY <1>0, <1>1, <2>1 DEF Fit, Active
<1>2. CASE ~Begin(r)
  <2>1. Active(r)
    BY <1>2 DEF Act, Step, TaskStep, Active, WriteAttachment, WriteEntry, Unlink, Start, Route, Load, List, Read, Save
  <2>2. at' = at
    BY <1>2 DEF Act, Step, TaskStep, WriteAttachment, WriteEntry, Unlink, Start, Route, Load, List, Read, Save
  <2>3. CASE Route(r)
    <3>1. aim'[r] # at[r] \/ (aim'[r] = at[r] /\ met' = met)  BY Histories, <1>2
    <3> QED BY <1>2, <2>1, <2>2, <2>3, <3>1
  <2>4. CASE ~Route(r)
    <3>1. met' = met  BY <1>2, <2>4, Histories
    <3>2. aim'[r] \in {aim[r], at[r], None}
      BY <1>2, <2>4 DEF Act, Step, TaskStep, WriteAttachment, WriteEntry, Unlink, Start, Load, List, Read, Save, Forget
    <3> QED BY <1>2, <2>1, <2>2, <3>1, <3>2
  <2> QED BY <2>3, <2>4
<1> QED BY <1>1, <1>2

\* A disturbance is taken back by a request that has met nobody only.
LEMMA OneTakesBack ==
  ASSUME TypeOK, NEW r \in Requests, Act(r)
  PROVE  disturbed \subseteq disturbed' \/ (/\ Save(r) /\ disturbed' = disturbed \ {aim[r]}
                                            /\ r \notin met /\ kind[r] \in EntryKinds \ {"apply"})
BY Histories

\* Being at work is a matter of the request alone.
LEMMA OthersActive ==
  ASSUME TypeOK, NEW r \in Requests, Act(r), NEW s \in Requests \ {r}
  PROVE  Active(s)' <=> Active(s)
BY OthersStay DEF Active

\* Company is noticed in every step.
LEMMA CompanyStays ==
  ASSUME IInv, NEW c \in Requests, Act(c)
  PROVE  Company'
<1>0. TypeOK /\ Fitting /\ Company /\ None \notin Parents  BY ContentAssumption DEF IInv
<1>1. met \subseteq met'  BY <1>0, Meeting
<1>2. \A s \in Requests \ {c} : at'[s] = at[s] /\ aim'[s] = aim[s]  BY <1>0, OthersStay
<1>3. \A s \in Requests \ {c} : Active(s)' <=> Active(s)  BY <1>0, OthersActive
<1>4. ASSUME NEW s \in Requests \ {c}, Active(s)', Active(c)',
             NEW p \in Parents, p \in {at'[c], aim'[c]}, p \in {at[s], aim[s]}
      PROVE  c \in met' /\ s \in met'
  <2>1. Active(s) /\ s \in AtWork(p)  BY <1>3, <1>4 DEF AtWork
  <2>2. Active(c) /\ p \in {at[c], aim[c]} => c \in met /\ s \in met
    BY <1>0, <1>4, <2>1 DEF Company
  <2>3. CASE Begin(c) /\ aim'[c] = None
    <3>1. p = at'[c]  BY <1>0, <1>4, <2>3
    <3> QED BY <1>0, <2>1, <2>3, <3>1, Meeting
  <2>4. CASE Route(c) /\ Active(c) /\ at'[c] = at[c] /\ aim'[c] # at[c]
    <3>1. c \in met' /\ (aim'[c] # None => AtWork(aim'[c]) \subseteq met')  BY <1>0, <2>4, Meeting
    <3>2. CASE p = at[c]  BY <1>1, <2>2, <2>4, <3>2
    <3>3. CASE p = aim'[c]  BY <1>0, <2>1, <3>1, <3>3
    <3> QED BY <1>4, <2>4, <3>2, <3>3
  <2>5. CASE Active(c) /\ at'[c] = at[c] /\ aim'[c] \in {aim[c], at[c], None}
    BY <1>0, <1>1, <1>4, <2>2, <2>5
  <2> QED BY <1>0, <2>3, <2>4, <2>5, Footprint
<1>5. ASSUME NEW x \in Requests, NEW y \in Requests, x # y, Active(x)', Active(y)',
             {at'[x], aim'[x]} \cap {at'[y], aim'[y]} \cap Parents # {}
      PROVE  x \in met'
  <2>1. PICK p \in Parents : p \in {at'[x], aim'[x]} /\ p \in {at'[y], aim'[y]}  BY <1>5
  <2>2. CASE x = c  BY <1>2, <1>4, <1>5, <2>1, <2>2
  <2>3. CASE y = c  BY <1>2, <1>4, <1>5, <2>1, <2>3
  <2>4. CASE x # c /\ y # c
    <3>1. {at[x], aim[x]} \cap {at[y], aim[y]} \cap Parents # {}  BY <1>2, <2>4, <1>5
    <3>2. Active(x) /\ Active(y)  BY <1>3, <1>5, <2>4
    <3> QED BY <1>0, <1>1, <1>5, <3>1, <3>2 DEF Company
  <2> QED BY <2>2, <2>3, <2>4
<1>6. ASSUME NEW x \in met', Active(x)', NEW p \in Parents, p \in {at'[x], aim'[x]}
      PROVE  p \in disturbed'
  <2>0. x \in Requests  BY TypesStay DEF TypeOK
  <2>1. CASE x = c
    <3>1. CASE Begin(c) /\ aim'[c] = None /\ c \notin met
      <4>1. p = at'[c]  BY <1>0, <1>6, <2>1, <3>1
      <4>2. AtWork(at'[c]) \ {c} # {}
        <5>1. met' # met  BY <1>6, <2>1, <3>1
        <5>2. ~Route(c)
          <6>1. pc[c] = "idle" /\ pc'[c] = "write"  BY <1>0, <3>1 DEF Begin, Goto, TypeOK
          <6> QED BY <6>1 DEF Route, Task
        <5> QED BY <1>0, <5>1, <5>2, Histories
      <4> QED BY <1>0, <3>1, <4>1, <4>2, Meeting
    <3>2. CASE Route(c) /\ at'[c] = at[c] /\ aim'[c] # at[c]  BY <1>0, <1>6, <2>1, <3>2, Meeting
    <3>3. CASE Active(c) /\ at'[c] = at[c] /\ aim'[c] \in {aim[c], at[c], None} /\ met' = met
      <4>1. p \in {at[c], aim[c]} /\ c \in met  BY <1>0, <1>6, <2>1, <3>3
      <4>2. p \in disturbed  BY <1>0, <3>3, <4>1 DEF Company
      <4> QED BY <1>0, <4>1, <4>2, OneTakesBack
    <3> QED BY <1>0, <3>1, <3>2, <3>3, Footprint
  <2>2. CASE x # c
    <3>1. Active(x) /\ p \in {at[x], aim[x]} /\ x \in Requests \ {c}  BY <1>2, <1>3, <1>6, <2>0, <2>2
    <3>2. CASE x \in met
      <4>1. p \in disturbed  BY <1>0, <3>1, <3>2 DEF Company
      <4>2. CASE disturbed \subseteq disturbed'  BY <4>1, <4>2
      <4>3. CASE Save(c) /\ disturbed' = disturbed \ {aim[c]} /\ c \notin met
        <5>1. Active(c)  BY <4>3 DEF Save, Task, Active
        <5>2. p # aim[c]
          <6>1. p = aim[c] => {at[c], aim[c]} \cap {at[x], aim[x]} \cap Parents # {}  BY <3>1
          <6> QED BY <1>0, <3>1, <4>3, <5>1, <6>1 DEF Company
        <5> QED BY <4>1, <4>3, <5>2
      <4> QED BY <1>0, <4>2, <4>3, OneTakesBack
    <3>3. CASE x \notin met
      <4>0. aim[x] \in {None, at[x]}  BY <1>0, <3>1, <3>3 DEF Company
      <4>1. p = at[x]  BY <1>0, <3>1, <4>0
      <4>2. CASE /\ x \in AtWork(at'[c]) /\ at'[c] \in Parents /\ disturbed' = disturbed \cup {at'[c]}
        <5>1. at'[c] \in {at[x], aim[x]}  BY <4>2 DEF AtWork
        <5> QED BY <1>0, <4>0, <4>1, <4>2, <5>1
      <4>3. CASE /\ aim'[c] # None /\ x \in AtWork(aim'[c])
                 /\ disturbed' = disturbed \cup ({at[c], aim'[c]} \cap Parents)
        <5>1. aim'[c] \in {at[x], aim[x]}  BY <4>3 DEF AtWork
        <5>2. aim'[c] = at[x]  BY <4>0, <4>3, <5>1
        <5> QED BY <4>1, <4>3, <5>2
      <4>4. Begin(c) => at'[c] \in Parents  BY <1>0, Footprint DEF Begin, TypeOK
      <4> QED BY <1>0, <1>6, <2>2, <3>3, <4>2, <4>3, <4>4, Histories
    <3> QED BY <3>2, <3>3
  <2> QED BY <2>1, <2>2
<1>7. ASSUME NEW x \in Requests \ met', Active(x)'  PROVE aim'[x] \in {None, at'[x]}
  <2>1. CASE x = c
    <3>1. ~(Route(c) /\ aim'[c] # at[c])  BY <1>0, <1>7, <2>1, Meeting
    <3>2. CASE Active(c) /\ at'[c] = at[c] /\ aim'[c] \in {aim[c], at[c], None}
      BY <1>0, <1>1, <1>7, <2>1, <3>2 DEF Company
    <3> QED BY <1>0, <2>1, <3>1, <3>2, Footprint
  <2>2. CASE x # c  BY <1>0, <1>1, <1>2, <1>3, <1>7, <2>2 DEF Company
  <2> QED BY <2>1, <2>2
<1>8. \A x \in met' : Active(x)' => {at'[x], aim'[x]} \cap Parents \subseteq disturbed'  BY <1>6
<1> QED BY <1>5, <1>7, <1>8 DEF Company

\* What a request that works alone relies on, the others leave alone.
LEMMA LeftAlone ==
  ASSUME IInv, NEW c \in Requests, Act(c), NEW s \in Requests \ {c}, s \notin met', Active(s)
  PROVE  /\ at[s] \in Parents /\ s \notin met
         /\ entry'[at[s]] = entry[at[s]] /\ att'[at[s]] = att[at[s]] /\ doc'[at[s]] = doc[at[s]]
         /\ at[s] \in disturbed => at[s] \in disturbed'
<1>0. TypeOK /\ Fitting /\ Company  BY DEF IInv
<1>1. at[s] \in Parents
  <2>1. Fit(s)  BY <1>0 DEF Fitting
  <2> QED BY <2>1 DEF Fit, Active
<1>2. s \notin met  BY <1>0, Meeting
<1>3. CASE Begin(c)  BY <1>0, <1>1, <1>2, <1>3, Meeting DEF fileVars
<1>4. CASE ~Begin(c)
  <2>1. Active(c)  BY <1>0, <1>4, Footprint
  <2>2. at[s] \notin {at[c], aim[c]}
    <3>1. at[s] \in {at[c], aim[c]} => {at[s], aim[s]} \cap {at[c], aim[c]} \cap Parents # {}  BY <1>1
    <3> QED BY <1>0, <1>2, <2>1, <3>1 DEF Company
  <2> QED BY <1>0, <1>1, <1>2, <2>2, WritesAtHome
<1> QED BY <1>3, <1>4

\* A request that works alone, goes on alone.
LEMMA OwnStep ==
  ASSUME IInv, NEW c \in Requests, Act(c), c \notin met', Active(c)'
  PROVE  Alone(c)'
<1>0. TypeOK /\ Fit(c) /\ Company /\ c \notin met /\ None \notin Parents /\ Requests \cap {None, Old} = {}
  <2>1. TypeOK /\ Fitting /\ Company  BY DEF IInv
  <2>2. c \notin met  BY <2>1, Meeting
  <2> QED BY <2>1, <2>2, ContentAssumption DEF Fitting
<1>1. CASE Begin(c)
  <2>1. PICK k \in Kinds \ {"none"}, q \in Parents, n \in Names \cup {None} :
          /\ Fits(k, q, n) /\ kind' = [kind EXCEPT ![c] = k] /\ at' = [at EXCEPT ![c] = q] /\ Meet(c, q)
    BY <1>1 DEF Begin
  <2>2. kind'[c] = k /\ at'[c] = q /\ pc'[c] = "write" /\ tpc'[c] = "none" /\ UNCHANGED <<entry, att, doc>>
    BY <1>0, <1>1, <2>1 DEF Begin, Fit, TypeOK, fileVars, Goto
  <2>3. AtWork(q) = {} /\ disturbed' = disturbed
    <3>1. AtWork(q) \ {c} = {} /\ disturbed' = disturbed  BY <1>0, <2>1 DEF Meet, historyVars
    <3>2. ~Active(c)  BY <1>0, <1>1 DEF Begin, Fit, Active
    <3> QED BY <3>1, <3>2 DEF AtWork
  <2>4. q \notin disturbed => doc[q] = Told(q)  BY <2>3 DEF IInv, TextTruthful
  <2>5. k \in {"edit", "remove", "apply"} => entry[q] # None  BY <2>1 DEF Fits
  <2> QED BY <2>2, <2>3, <2>4, <2>5 DEF Alone, Told
<1>2. CASE ~Begin(c)
  <2>0. Alone(c) /\ at[c] \in Parents /\ kind[c] # "none" /\ kind[c] \in Kinds
    <3>1. Active(c)  BY <1>0, <1>2, Footprint DEF IInv
    <3>2. pc[c] # "idle"  BY <1>0, <3>1 DEF Fit, Active
    <3> QED BY <1>0, <3>1, <3>2 DEF IInv, Lonely, Fit, TypeOK
  <2>1. CASE WriteAttachment(c)
    <3>1. /\ pc[c] = "write" /\ kind[c] \in {"attach", "detach"} /\ pc'[c] = "done" /\ tpc'[c] = "start"
          /\ UNCHANGED <<entry, doc, kind, at>>
          /\ disturbed' = IF entry[at[c]] = None THEN disturbed \cup {at[c]} ELSE disturbed
      BY <1>0, <2>1 DEF WriteAttachment, Goto, Leave, Disturb, historyVars, jobVars, TypeOK
    <3>2. at[c] \notin disturbed' => entry[at[c]] # None /\ doc[at[c]].says = entry[at[c]]
      BY <2>0, <3>1 DEF Alone, Told
    <3> QED BY <3>1, <3>2 DEF Alone, EntryKinds
  <2>2. CASE WriteEntry(c)
    <3>1. pc[c] = "write" /\ kind[c] \in EntryKinds /\ UNCHANGED <<kind, at>>
      BY <2>2 DEF WriteEntry, jobVars
    <3>2. kind[c] # "create" => entry[at[c]] # None  BY <2>0, <3>1 DEF Alone, EntryKinds
    <3>3. /\ entry' = [entry EXCEPT ![at[c]] = IF kind[c] = "remove" THEN None ELSE c]
          /\ pc'[c] # "write" /\ tpc'[c] = "start"
      BY <1>0, <2>2, <3>2 DEF WriteEntry, Goto, Leave, TypeOK
    <3>4. entry'[at[c]] = IF kind[c] = "remove" THEN None ELSE c  BY <1>0, <2>0, <3>3 DEF TypeOK
    <3> QED BY <1>0, <3>1, <3>3, <3>4 DEF Alone, EntryKinds
  <2>3. CASE Unlink(c)
    <3>1. /\ kind[c] = "apply" /\ pc'[c] = "done" /\ UNCHANGED <<entry, doc, tpc, kind, at, seen, from, text>>
          /\ tpc[c] \notin {"start", "load", "list"} => at[c] \in disturbed'
          /\ disturbed \subseteq disturbed'
      BY <1>0, <2>3 DEF Unlink, Fit, Goto, Disturb, historyVars, jobVars, taskVars, TypeOK
    <3> QED BY <2>0, <3>1 DEF Alone, EntryKinds
  <2>4. CASE Start(c)
    <3>1. /\ tpc[c] = "start" /\ UNCHANGED <<entry, att, doc, pc, kind, at, disturbed>>
          /\ tpc'[c] = IF kind[c] \in {"attach", "detach"} THEN "route"
                       ELSE IF kind[c] = "remove" THEN "save" ELSE "load"
      BY <1>0, <2>4 DEF Start, Task, fileVars, jobVars, historyVars, TypeOK
    <3>2. pc[c] # "write"  BY <1>0, <3>1 DEF Fit
    <3>3. tpc'[c] \in {"list", "read", "save"} => kind[c] = "remove"  BY <3>1
    <3> QED BY <2>0, <3>1, <3>2, <3>3 DEF Alone
  <2>5. CASE Route(c)
    <3>1. aim'[c] = at[c]  BY <1>0, <2>5, Meeting DEF IInv
    <3>2. /\ tpc[c] = "route" /\ UNCHANGED <<entry, att, doc, pc, kind, at, disturbed>> /\ tpc'[c] = "load"
      BY <1>0, <2>0, <2>5, <3>1 DEF Route, Task, fileVars, jobVars, historyVars, TypeOK
    <3>3. pc[c] # "write"  BY <1>0, <3>2 DEF Fit
    <3> QED BY <2>0, <3>2, <3>3 DEF Alone
  <2>6. CASE Load(c)
    <3>1. /\ tpc[c] = "load" /\ UNCHANGED <<entry, att, doc, pc, kind, at, disturbed>>
          /\ tpc'[c] \in {"list", "done"}
          /\ seen'[c] = IF kind[c] \in EntryKinds THEN entry[aim[c]] ELSE doc[aim[c]].says
      BY <1>0, <2>6 DEF Load, Task, fileVars, jobVars, historyVars, TypeOK
    <3>2. aim[c] = at[c] /\ pc[c] # "write"  BY <1>0, <2>0, <3>1 DEF Fit, Company, AtWork, Active
    <3>3. kind[c] \in EntryKinds \/ kind[c] \in {"attach", "detach"}  BY <2>0 DEF Kinds
    <3>4. kind[c] \in EntryKinds \/ at[c] \notin disturbed => seen'[c] = entry[at[c]]
      BY <2>0, <3>1, <3>2, <3>3 DEF Alone
    <3>5. pc[c] = "unlink" => tpc'[c] = "list"
      <4>1. pc[c] = "unlink" => kind[c] = "apply" /\ entry[at[c]] # None
        BY <1>0, <2>0, <3>1 DEF Fit, Alone, EntryKinds
      <4> QED BY <1>0, <2>6, <3>2, <4>1 DEF Load, Task, TypeOK
    <3> QED BY <2>0, <3>1, <3>2, <3>4, <3>5 DEF Alone
  <2>7. CASE List(c)
    <3>1. /\ tpc[c] = "list" /\ UNCHANGED <<entry, att, doc, pc, kind, at, seen>>
          /\ tpc'[c] = "read" /\ from'[c] = Directory(c) /\ text'[c] = In(Directory(c))
          /\ disturbed' = IF Directory(c) = aim[c] THEN disturbed ELSE disturbed \cup {aim[c]}
      BY <1>0, <2>7 DEF List, Disturb, Task, fileVars, jobVars, historyVars, TypeOK
    <3>2. aim[c] = at[c] /\ pc[c] # "write"  BY <1>0, <2>0, <3>1 DEF Fit, Company, AtWork, Active
    <3>3. kind[c] \in EntryKinds \/ at[c] \notin disturbed' => Directory(c) = at[c]
      BY <3>1, <3>2 DEF Directory
    <3>4. In(at[c]) = att[at[c]]  BY <2>0 DEF In
    <3>5. kind[c] \in EntryKinds \/ at[c] \notin disturbed'
            => from'[c] = at[c] /\ text'[c] = att[at[c]] /\ disturbed' = disturbed
      BY <3>1, <3>2, <3>3, <3>4
    <3> QED BY <2>0, <3>1, <3>2, <3>5 DEF Alone
  <2>8. CASE Read(c)
    <3>1. /\ tpc[c] = "read" /\ UNCHANGED <<entry, att, doc, pc, kind, at, disturbed, seen>>
          /\ tpc'[c] = "save" /\ text'[c] = IF text[c] \subseteq In(from[c]) THEN text[c] ELSE {}
      BY <1>0, <2>8 DEF Read, Task, fileVars, jobVars, historyVars, TypeOK
    <3>2. aim[c] = at[c] /\ pc[c] # "write"  BY <1>0, <2>0, <3>1 DEF Fit, Company, AtWork, Active
    <3>3. text[c] = att[at[c]] /\ from[c] = at[c] => text'[c] = att[at[c]]  BY <2>0, <3>1 DEF In
    <3>4. kind[c] # "remove"  BY <1>0, <3>1 DEF Fit
    <3>5. kind[c] \in EntryKinds \ {"apply"} \/ at[c] \notin disturbed => text'[c] = att[at[c]]
      BY <2>0, <3>1, <3>3, <3>4 DEF Alone
    <3> QED BY <2>0, <3>1, <3>2, <3>5 DEF Alone
  <2>9. CASE Save(c)
    <3>1. /\ tpc[c] = "save" /\ UNCHANGED <<entry, att, pc, kind, at>> /\ tpc'[c] = "done"
      BY <1>0, <2>9 DEF Save, Task, fileVars, jobVars, TypeOK
    <3>2. pc[c] = "unlink" /\ kind[c] = "apply"  BY <1>0, <3>1 DEF Fit, Active
    <3>3. disturbed' = disturbed  BY <2>9, <3>2 DEF Save, historyVars
    <3>4. aim[c] = at[c]  BY <1>0, <3>1, <3>2 DEF Fit, EntryKinds
    <3>5. doc'[at[c]] = [says |-> seen[c], text |-> text[c]]
      BY <1>0, <2>0, <2>9, <3>2, <3>4 DEF Save, TypeOK
    <3>6. at[c] \notin disturbed => entry[at[c]] # None /\ seen[c] = entry[at[c]] /\ text[c] = att[at[c]]
      BY <2>0, <3>1, <3>2 DEF Alone, EntryKinds
    <3>7. at[c] \notin disturbed => doc'[at[c]] = [says |-> entry'[at[c]], text |-> att'[at[c]]] /\ entry'[at[c]] # None
      BY <3>1, <3>5, <3>6
    <3>8. at'[c] \notin disturbed' => doc'[at'[c]] = Told(at[c])'  BY <3>1, <3>3, <3>7 DEF Told
    <3>9. entry'[at'[c]] # None  BY <2>0, <3>1, <3>2 DEF Alone, EntryKinds
    <3> QED BY <3>1, <3>2, <3>8, <3>9 DEF Alone, EntryKinds, Told
  <2> QED BY <1>2, <2>1, <2>2, <2>3, <2>4, <2>5, <2>6, <2>7, <2>8, <2>9 DEF Act, Step, TaskStep
<1> QED BY <1>1, <1>2

\* So does every other one.
LEMMA LonelyStays ==
  ASSUME IInv, NEW c \in Requests, Act(c)
  PROVE  Lonely'
<1>0. TypeOK /\ Lonely  BY DEF IInv
<1> SUFFICES ASSUME NEW s \in Requests \ met', Active(s)'  PROVE Alone(s)'
  BY DEF Lonely
<1>1. CASE s = c  BY <1>1, OwnStep
<1>2. CASE s # c
  <2>1. Active(s)  BY <1>0, <1>2, OthersActive
  <2>2. /\ at[s] \in Parents /\ s \notin met
        /\ entry'[at[s]] = entry[at[s]] /\ att'[at[s]] = att[at[s]] /\ doc'[at[s]] = doc[at[s]]
        /\ at[s] \in disturbed => at[s] \in disturbed'
    BY <1>2, <2>1, LeftAlone
  <2>3. Alone(s)  BY <1>0, <2>1, <2>2 DEF Lonely
  <2>4. /\ pc'[s] = pc[s] /\ tpc'[s] = tpc[s] /\ kind'[s] = kind[s] /\ at'[s] = at[s]
        /\ seen'[s] = seen[s] /\ text'[s] = text[s] /\ from'[s] = from[s]
    BY <1>0, <1>2, OthersStay
  <2> QED BY <2>2, <2>3, <2>4 DEF Alone, Told
<1> QED BY <1>1, <1>2

\* Whoever leaves an entry nobody else is at work at, leaves the document right.
LEMMA TruthStays ==
  ASSUME IInv, NEW c \in Requests, Act(c)
  PROVE  TextTruthful'
<1>0. /\ TypeOK /\ Fitting /\ Fit(c) /\ Company /\ Lonely /\ TextTruthful /\ None \notin Parents
      /\ Requests \cap {None, Old} = {}
  BY ContentAssumption DEF IInv, Fitting
<1> SUFFICES ASSUME NEW p \in Parents, p \notin disturbed', AtWork(p)' = {}
             PROVE  doc'[p] = Told(p)'
  BY DEF TextTruthful
<1>1. \A s \in AtWork(p) : s = c
  <2> SUFFICES ASSUME NEW s \in AtWork(p), s # c  PROVE FALSE
    OBVIOUS
  <2>1. s \in Requests \ {c} /\ Active(s) /\ p \in {at[s], aim[s]}  BY DEF AtWork
  <2>2. Active(s)' /\ at'[s] = at[s] /\ aim'[s] = aim[s]  BY <1>0, <2>1, OthersActive, OthersStay
  <2> QED BY <2>1, <2>2 DEF AtWork
<1>2. ~(Active(c)' /\ p \in {at'[c], aim'[c]})  BY DEF AtWork
<1>3. CASE AtWork(p) = {} /\ p \notin disturbed /\ entry'[p] = entry[p] /\ att'[p] = att[p] /\ doc'[p] = doc[p]
  BY <1>0, <1>3 DEF TextTruthful, Told
<1>4. CASE Begin(c)
  <2>1. ~Active(c)  BY <1>0, <1>4 DEF Begin, Fit, Active
  <2>2. AtWork(p) = {}  BY <1>1, <2>1 DEF AtWork
  <2>3. p \notin disturbed /\ UNCHANGED <<entry, att, doc>>  BY <1>0, <1>4, Meeting DEF fileVars
  <2> QED BY <1>3, <2>2, <2>3
<1>5. CASE ~Begin(c) /\ p \notin {at[c], aim[c]}
  <2>1. AtWork(p) = {}  BY <1>1, <1>5 DEF AtWork
  <2>2. p \notin disturbed /\ entry'[p] = entry[p] /\ att'[p] = att[p] /\ doc'[p] = doc[p]
    BY <1>0, <1>5, WritesAtHome
  <2> QED BY <1>3, <2>1, <2>2
<1>6. CASE ~Begin(c) /\ p \in {at[c], aim[c]}
  <2>1. Active(c) /\ at'[c] = at[c]  BY <1>0, <1>6, Footprint
  <2>2. c \notin met
    <3>1. c \in met => p \in disturbed  BY <1>0, <1>6, <2>1 DEF Company
    <3>2. c \in met => disturbed \subseteq disturbed'  BY <1>0, OneTakesBack
    <3> QED BY <3>1, <3>2
  <2>3. p = at[c] /\ Alone(c) /\ ~Active(c)'
    <3>1. p = at[c]  BY <1>0, <1>6, <2>1, <2>2 DEF Company
    <3> QED BY <1>0, <1>2, <2>1, <2>2, <3>1 DEF Lonely
  <2>4. kind[c] \in Kinds \ {"none"} /\ pc[c] # "idle" /\ at[c] \in Parents
    BY <1>0, <2>1, <2>3 DEF Fit, Active, TypeOK
  <2>5. ~WriteAttachment(c)
    BY <1>0, <2>3 DEF WriteAttachment, Leave, Active, TypeOK
  <2>6. ~WriteEntry(c)
    <3> SUFFICES ASSUME WriteEntry(c)  PROVE FALSE
      OBVIOUS
    <3>1. pc[c] = "write" /\ kind[c] \in EntryKinds  BY DEF WriteEntry
    <3>2. kind[c] # "create" => entry[at[c]] # None  BY <2>3, <3>1 DEF Alone, EntryKinds
    <3>3. tpc'[c] = "start"  BY <1>0, <3>2 DEF WriteEntry, Leave, TypeOK
    <3> QED BY <2>3, <3>3 DEF Active
  <2>7. ~Unlink(c)
    <3> SUFFICES ASSUME Unlink(c)  PROVE FALSE
      OBVIOUS
    <3>1. tpc' = tpc /\ (tpc[c] \notin {"start", "load", "list"} => at[c] \in disturbed')
      BY DEF Unlink, Disturb
    <3>2. tpc[c] \in {"start", "load", "list"}  BY <2>3, <3>1
    <3> QED BY <2>3, <3>1, <3>2 DEF Active
  <2>8. ~Start(c) /\ ~List(c) /\ ~Read(c)
    <3>1. Start(c) \/ List(c) \/ Read(c) => tpc'[c] \in {"route", "save", "load", "read"}
      BY <1>0 DEF Start, List, Read, Task, TypeOK
    <3> QED BY <2>3, <3>1 DEF Active
  <2>9. ~Route(c)
    <3> SUFFICES ASSUME Route(c)  PROVE FALSE
      OBVIOUS
    <3>1. aim'[c] = at[c]  BY <1>0, <2>3, <2>4, Meeting
    <3>2. tpc'[c] = "load"  BY <1>0, <2>4, <3>1 DEF Route, Task, TypeOK
    <3> QED BY <2>3, <3>2 DEF Active
  <2>10. ~Load(c)
    <3> SUFFICES ASSUME Load(c)  PROVE FALSE
      OBVIOUS
    <3>1. tpc[c] = "load"  BY DEF Load, Task
    <3>2. kind[c] \in EntryKinds => aim[c] = at[c] /\ kind[c] # "remove" /\ entry[at[c]] # None
      BY <1>0, <2>3, <3>1 DEF Fit, Alone
    <3>3. tpc'[c] = "list"  BY <1>0, <3>2 DEF Load, Task, TypeOK
    <3> QED BY <2>3, <3>3 DEF Active
  <2>11. CASE Save(c)
    <3>1. tpc[c] = "save" /\ UNCHANGED <<entry, att, pc>> /\ aim[c] = p
      <4>1. tpc[c] = "save" /\ UNCHANGED <<entry, att, pc>>  BY <2>11 DEF Save, Task, fileVars
      <4>2. aim[c] \in Parents  BY <1>0, <4>1 DEF Fit
      <4> QED BY <1>0, <2>1, <2>2, <2>3, <4>1, <4>2 DEF Company
    <3>2. pc[c] = "done"
      <4>1. pc[c] \in {"idle", "write", "unlink", "done"}  BY <1>0 DEF TypeOK
      <4> QED BY <2>3, <2>4, <3>1, <4>1 DEF Active
    <3>3. doc'[p] = IF kind[c] = "remove" THEN NoDoc ELSE [says |-> seen[c], text |-> text[c]]
      BY <1>0, <2>11, <3>1 DEF Save, TypeOK
    <3>4. Told(p)' = Told(p)  BY <3>1 DEF Told
    <3>5. CASE kind[c] = "remove"
      <4>1. entry[p] = None  BY <2>3, <3>1, <3>5 DEF Alone
      <4> QED BY <3>3, <3>4, <3>5, <4>1 DEF Told
    <3>6. CASE kind[c] \in {"create", "edit"}
      <4>1. entry[p] # None /\ seen[c] = entry[p] /\ text[c] = att[p]
        BY <2>3, <3>1, <3>6 DEF Alone, EntryKinds
      <4> QED BY <3>3, <3>4, <3>6, <4>1 DEF Told
    <3>7. CASE kind[c] \in {"apply", "attach", "detach"}
      <4>1. p \notin disturbed  BY <1>0, <3>7, OneTakesBack DEF EntryKinds
      <4>2. entry[p] # None /\ seen[c] = entry[p] /\ text[c] = att[p]
        BY <2>3, <3>1, <3>2, <3>7, <4>1 DEF Alone, EntryKinds
      <4> QED BY <3>3, <3>4, <3>7, <4>2 DEF Told
    <3> QED BY <2>4, <3>5, <3>6, <3>7 DEF Kinds, EntryKinds
  <2> QED BY <1>6, <2>5, <2>6, <2>7, <2>8, <2>9, <2>10, <2>11 DEF Act, Step, TaskStep
<1> QED BY <1>4, <1>5, <1>6

-----------------------------------------------------------------------------
\* What a worker that dies leaves behind: its hooks disturb, and all others stay where they are.
LEMMA CrashStays ==
  ASSUME IInv, NEW w \in Workers, Crash(w)
  PROVE  IInv'
<1>0. /\ TypeOK /\ Fitting /\ Company /\ Lonely /\ TextTruthful /\ None \notin Parents
  BY ContentAssumption DEF IInv
<1>1. /\ UNCHANGED <<entry, att, doc, kind, at, name, on, met>> /\ disturbed \subseteq disturbed'
      /\ data' = [data EXCEPT ![w] = NoEvent] /\ crashes < MaxCrashes /\ crashes' = crashes + 1
  BY DEF Crash, fileVars, jobVars, Disturb
<1>2. \A r \in Lost(w) : r \in Requests /\ Active(r)  BY DEF Lost
<1>3. /\ pc' \in [Requests -> PcPoints] /\ tpc' \in [Requests -> TaskPoints]
      /\ \A r \in Requests : IF r \in Lost(w) THEN pc'[r] = "done" /\ tpc'[r] = "done"
                             ELSE pc'[r] = pc[r] /\ tpc'[r] = tpc[r]
  <2>1. /\ pc' = [r \in Requests |-> IF r \in Lost(w) THEN "done" ELSE pc[r]]
        /\ tpc' = [r \in Requests |-> IF r \in Lost(w) THEN "done" ELSE tpc[r]]
    BY DEF Crash
  <2> QED BY <1>0, <2>1 DEF TypeOK, PcPoints, TaskPoints
<1>4. /\ aim' \in [Requests -> Parents \cup {None}] /\ seen' \in [Requests -> Contents \cup {None}]
      /\ from' \in [Requests -> (Spaces \cup {None}) \X Paths \cup {None}]
      /\ text' \in [Requests -> SUBSET Names]
      /\ \A r \in Requests : IF r \in Lost(w) THEN aim'[r] = None
           ELSE aim'[r] = aim[r] /\ seen'[r] = seen[r] /\ from'[r] = from[r] /\ text'[r] = text[r]
  <2>1. Forget(Lost(w))  BY DEF Crash
  <2> QED BY <1>0, <2>1, Forgotten
<1>5. TypeOK'
  <2>1. data' \in [Workers -> Events]  BY <1>0, <1>1 DEF TypeOK, Events, NoEvent
  <2>2. crashes' \in 0..MaxCrashes  BY <1>0, <1>1, CrashesAssumption DEF TypeOK
  <2>3. disturbed' \subseteq Parents  BY <1>0 DEF Crash, Disturb, TypeOK
  <2> QED BY <1>0, <1>1, <1>3, <1>4, <2>1, <2>2, <2>3 DEF TypeOK, PcPoints, TaskPoints
<1>6. \A r \in Requests : Active(r)' => Active(r) /\ r \notin Lost(w)
  BY <1>2, <1>3 DEF Active
<1>7. Fitting'
  <2> SUFFICES ASSUME NEW r \in Requests  PROVE Fit(r)'
    BY DEF Fitting
  <2>0. Fit(r)  BY <1>0 DEF Fitting
  <2>1. CASE r \in Lost(w)
    <3>1. pc'[r] = "done" /\ tpc'[r] = "done" /\ pc[r] # "idle"  BY <1>2, <1>3, <2>0, <2>1 DEF Active, Fit
    <3> QED BY <1>1, <2>0, <3>1 DEF Fit
  <2>2. CASE r \notin Lost(w)
    <3>1. pc'[r] = pc[r] /\ tpc'[r] = tpc[r] /\ aim'[r] = aim[r]  BY <1>3, <1>4, <2>2
    <3> QED BY <1>1, <2>0, <3>1 DEF Fit
  <2> QED BY <2>1, <2>2
<1>8. Company'
  <2>1. \A r \in Requests : Active(r)' => Active(r) /\ at'[r] = at[r] /\ aim'[r] = aim[r]  BY <1>1, <1>4, <1>6
  <2>2. met \subseteq Requests  BY <1>0 DEF TypeOK
  <2> QED BY <1>0, <1>1, <2>1, <2>2 DEF Company
<1>9. Lonely'
  <2> SUFFICES ASSUME NEW r \in Requests \ met', Active(r)'  PROVE Alone(r)'
    BY DEF Lonely
  <2>1. Alone(r) /\ r \notin Lost(w)  BY <1>0, <1>1, <1>6 DEF Lonely
  <2>2. /\ pc'[r] = pc[r] /\ tpc'[r] = tpc[r] /\ seen'[r] = seen[r] /\ text'[r] = text[r] /\ from'[r] = from[r]
    BY <1>3, <1>4, <2>1
  <2> QED BY <1>1, <2>1, <2>2 DEF Alone, Told
<1>10. TextTruthful'
  <2> SUFFICES ASSUME NEW p \in Parents, p \notin disturbed', AtWork(p)' = {}
               PROVE  doc[p] = Told(p)
    BY <1>1 DEF TextTruthful, Told
  <2>1. p \notin disturbed  BY <1>1
  <2>2. CASE AtWork(p) = {}  BY <1>0, <2>1, <2>2 DEF TextTruthful
  <2>3. CASE AtWork(p) # {}
    <3>1. PICK q \in Requests : Active(q) /\ p \in {at[q], aim[q]}  BY <2>3 DEF AtWork
    <3>2. q \in Lost(w)
      <4>1. q \notin Lost(w) => Active(q)' /\ at'[q] = at[q] /\ aim'[q] = aim[q]
        BY <1>1, <1>3, <1>4, <3>1 DEF Active
      <4> QED BY <3>1, <4>1 DEF AtWork
    <3>3. tpc[q] \in {"none", "done"}
      <4>1. disturbed' = disturbed \cup UNION {{at[r], aim[r]} \cap Parents :
                           r \in {o \in Lost(w) : tpc[o] \notin {"none", "done"}}}
        BY DEF Crash, Disturb
      <4> QED BY <3>1, <3>2, <4>1
    <3>4. pc[q] \in {"write", "unlink"}  BY <3>1, <3>3 DEF Active
    <3>5. q \notin met  BY <1>0, <2>1, <3>1 DEF Company
    <3>6. p = at[q] /\ Alone(q)  BY <1>0, <3>1, <3>5 DEF Company, Lonely
    <3>7. pc[q] = "unlink" => tpc[q] = "done"  BY <1>0, <3>3 DEF Fitting, Fit
    <3> QED BY <2>1, <3>4, <3>6, <3>7 DEF Alone
  <2> QED BY <2>2, <2>3
<1> QED BY <1>5, <1>7, <1>8, <1>9, <1>10 DEF IInv

-----------------------------------------------------------------------------
\* Nothing changes, nothing breaks.
LEMMA Stutter == ASSUME IInv, UNCHANGED vars  PROVE IInv'
<1> USE DEF vars, fileVars, jobVars, taskVars, historyVars, IInv
<1>1. TypeOK'  BY DEF TypeOK
<1>2. Fitting'  BY DEF Fitting, Fit
<1>3. Company'  BY DEF Company, Active
<1>4. Lonely'
  <2>1. \A p : Told(p)' = Told(p)  BY DEF Told
  <2> QED BY <2>1 DEF Lonely, Active, Alone, Told
<1>5. TextTruthful'  BY DEF TextTruthful, AtWork, Active, Told
<1> QED BY <1>1, <1>2, <1>3, <1>4, <1>5

\* The invariant holds of every behaviour.
LEMMA Always == Spec => []IInv
<1>1. IInv /\ [Next]_vars => IInv'
  <2> SUFFICES ASSUME IInv, Next \/ UNCHANGED vars  PROVE IInv'
    OBVIOUS
  <2>1. CASE UNCHANGED vars  BY <2>1, Stutter
  <2>2. CASE Next
    <3>1. CASE \E w \in Workers : Crash(w)  BY <2>2, <3>1, CrashStays
    <3>2. CASE \E r \in Requests : Act(r)
      <4>1. PICK r \in Requests : Act(r)  BY <3>2
      <4> QED BY <4>1, TypesStay, FittingStays, CompanyStays, LonelyStays, TruthStays DEF IInv
    <3> QED BY <2>2, <3>1, <3>2 DEF Next, Act
  <2> QED BY <2>1, <2>2
<1> QED BY InitIInv, <1>1, PTL DEF Spec

\* Every variable keeps its type: requests, tasks, files, documents and both histories.
THEOREM TypeCorrect == Spec => []TypeOK
BY Always, PTL DEF IInv

\* When nobody is at work at an entry, its document tells its content and exactly its
\* attachments, but for the six things TextTruthful names: for any
\* number of requests, entries, attachments and workers.
THEOREM TextTruthfulAlways == Spec => []TextTruthful
BY Always, PTL DEF IInv
=============================================================================
