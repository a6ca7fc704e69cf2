---------------------------- MODULE Access_proofs ----------------------------
(***************************************************************************)
(* Proofs about the cache of permissions, for any users, groups, roles and *)
(* permissions, whatever their files say, and any number of changes and of *)
(* requests at a time.  That a cached answer is fresh rests on three       *)
(* facts.  A change whose document is not in the index yet will still      *)
(* throw away whatever is cached and not excused (Swept).  A request that  *)
(* has seen all changes has, at every point of its way through the roles,  *)
(* a part of the answer that the documents give and knows the rest         *)
(* (Reading).  So an answer is what the documents say or it is going to be *)
(* thrown away (FreshOrDoomed).                                            *)
(*                                                                         *)
(* Proofs, for any permissions, entries and requests, about what the map   *)
(* of permissions comes to (AccessRules).  While it is put together it has *)
(* for every key at least the actions and conditions of the permissions    *)
(* met that list the key, and no more than those of permissions that share *)
(* a key with one (RulesInv).  What it answers follows without a further   *)
(* step, but for the policies of queries: they are paths flattened, and    *)
(* that flattening parts of one name each leaves a path as it is, is by    *)
(* the least number of parts for which it would not (FlattenOnes).         *)
(***************************************************************************)
EXTENDS Access, AccessRules, SequenceTheorems, WellFoundedInduction, TLAPS

\* The first thing a file may say is one that it may say.
LEMMA FirstText ==
  ASSUME NEW f \in Contents, NEW d \in Docs
  PROVE  Head(f[d]) \in Range(f[d])
<1>1. f[d] \in Seq(Range(f[d])) /\ f[d] # <<>>  BY ContentsAssumption
<1>2. 1 \in DOMAIN f[d] /\ Head(f[d]) = f[d][1]  BY <1>1
<1> QED BY <1>2 DEF Range

\* What a file may say is a text.
LEMMA MayBeText ==
  ASSUME NEW f \in Contents, NEW d \in Docs
  PROVE  Range(f[d]) \subseteq Texts
BY DEF Texts

\* What the documents of permissions allow are grants.
LEMMA AllowedGrants ==
  ASSUME TypeOK, NEW names
  PROVE  Allowed(names) \subseteq Grants
<1>1. SUFFICES ASSUME NEW p \in Perms, NEW g \in Of(p) PROVE g \in Grants
  BY DEF Allowed
<1>2. doc[p] # None /\ g \in doc[p]  BY <1>1 DEF Of, There
<1>3. doc[p] \in Range(may[p]) /\ may \in Contents  BY <1>2 DEF TypeOK, Docs
<1> QED BY <1>2, <1>3 DEF Grants

\* So is what the file of world allows.
LEMMA WorldGrants ==
  ASSUME TypeOK, file[World] # None
  PROVE  file[World] \subseteq Grants
<1>1. World \in Perms /\ World \in Docs  BY NamesAssumption DEF Docs
<1>2. file[World] \in Range(may[World]) /\ may \in Contents  BY <1>1 DEF TypeOK
<1> QED BY <1>1, <1>2 DEF Grants

\* A change that is a reload is about no document.
LEMMA NoneOfDocs == None \notin Docs
BY NamesAssumption DEF Docs

\* At first every value has its type,
LEMMA InitTypeOK == Init => TypeOK
<1> SUFFICES ASSUME Init PROVE TypeOK  OBVIOUS
<1>1. may \in Contents /\ \A d \in Docs : Head(may[d]) \in Range(may[d])  BY FirstText DEF Init
<1>2. \A d \in Docs : /\ file[d] \in Range(may[d]) /\ doc[d] \in Range(may[d])
                      /\ file[d] \in Texts /\ doc[d] \in Texts
  BY <1>1, MayBeText DEF Init
<1>3. file \in [Docs -> Texts] /\ doc \in [Docs -> Texts]  BY <1>2 DEF Init
<1>4. None \in Texts  BY DEF Texts
<1>5. /\ made \in 0..MaxChanges /\ checks \in 0..MaxChecks
      /\ \A s \in Slots : pc[s] # "idle" => user[s] \in Users
      /\ may \in Contents /\ excused \subseteq Users /\ late \subseteq Docs
      /\ stored \subseteq Users /\ rewrites \in 0..MaxChanges
  BY <1>1, BoundAssumption DEF Init
<1>6. /\ cache \in [Users -> SUBSET Grants] /\ map \in [Slots -> SUBSET Grants]
      /\ keys \in [Changes -> SUBSET Users] /\ seen \in [Slots -> SUBSET Changes]
  BY DEF Init
<1>7. /\ target \in [Changes -> Docs \cup {None}]
      /\ index \in [Changes -> {"none", "load", "save", "done"}]
      /\ found \in [Changes -> Texts]
      /\ inval \in [Changes -> {"none", "scan", "search", "del", "done"}]
  BY <1>4 DEF Init
<1>8. /\ pc \in [Slots -> Points] /\ user \in [Slots -> Users \cup {None}]
      /\ meta \in [Slots -> Texts] /\ pending \in [Slots -> [Roles -> Texts]]
  BY <1>4 DEF Init, NoRoles, Points
<1>10. copy \in [Users -> Texts] /\ todo \in [Users -> {"none", "login", "sync", "save"}]
  BY <1>4 DEF Init
<1>9. \A d \in Docs : {file[d], doc[d]} \subseteq Range(may[d]) \cup {None}  BY <1>2
<1> QED BY <1>3, <1>5, <1>6, <1>7, <1>8, <1>9, <1>10 DEF TypeOK

DocTypes ==
  /\ file \in [Docs -> Texts] /\ doc \in [Docs -> Texts] /\ may \in Contents
  /\ \A d \in Docs : {file[d], doc[d]} \subseteq Range(may[d]) \cup {None}
TaskTypes ==
  /\ made \in 0..MaxChanges /\ target \in [Changes -> Docs \cup {None}]
  /\ index \in [Changes -> {"none", "load", "save", "done"}] /\ found \in [Changes -> Texts]
  /\ inval \in [Changes -> {"none", "scan", "search", "del", "done"}]
  /\ keys \in [Changes -> SUBSET Users]
BackTypes ==
  /\ copy \in [Users -> Texts] /\ rewrites \in 0..MaxChanges
  /\ todo \in [Users -> {"none", "login", "sync", "save"}]
RequestTypes ==
  /\ pc \in [Slots -> Points] /\ user \in [Slots -> Users \cup {None}]
  /\ \A s \in Slots : pc[s] # "idle" => user[s] \in Users
  /\ meta \in [Slots -> Texts] /\ pending \in [Slots -> [Roles -> Texts]]
  /\ map \in [Slots -> SUBSET Grants] /\ checks \in 0..MaxChecks
  /\ seen \in [Slots -> SUBSET Changes]
AnswerTypes ==
  /\ cache \in [Users -> SUBSET Grants] /\ stored \subseteq Users
  /\ excused \subseteq Users /\ late \subseteq Docs

\* What the tasks of the changes keep in order: changes that were not made have none, the
\* hook of redis_db_update works at a document, and a request has seen what is indexed.
TaskInv ==
  /\ \A c \in Changes \ (1..made) : index[c] = "none" /\ inval[c] = "none" /\ target[c] = None
  /\ \A c \in 1..made : index[c] # "none" /\ inval[c] # "none"
  /\ \A c \in 1..made : target[c] \in Docs \/ index[c] = "done"
  /\ \A s \in Slots : seen[s] \subseteq Indexed

\* What a hook or a request is about to save or write back is a text of that file.
Held ==
  /\ \A c \in 1..made : target[c] \in Docs => found[c] \in Range(may[target[c]]) \cup {None}
  /\ \A s \in Slots : pc[s] = "save_user" => meta[s] \in Range(may[user[s]]) \cup {None}
  /\ \A u \in Users : copy[u] \in Range(may[u]) \cup {None}

TypeInv == DocTypes /\ TaskTypes /\ BackTypes /\ RequestTypes /\ AnswerTypes /\ TaskInv /\ Held

\* Each group of the types, taken together with the others, is TypeOK.
LEMMA TypesAreTypeOK == TypeOK <=> DocTypes /\ TaskTypes /\ BackTypes /\ RequestTypes /\ AnswerTypes
BY DEF TypeOK, DocTypes, TaskTypes, BackTypes, RequestTypes, AnswerTypes

\* and there are no tasks.
LEMMA InitTypeInv == Init => TypeInv
<1> SUFFICES ASSUME Init PROVE TypeInv  OBVIOUS
<1>1. made = 0 /\ MaxChanges \in Nat  BY BoundAssumption DEF Init
<1>2. TaskInv  BY <1>1 DEF Init, TaskInv, Changes
<1>3. Held  BY <1>1 DEF Init, Held
<1> QED BY <1>2, <1>3, InitTypeOK, TypesAreTypeOK DEF TypeInv

\* A new change takes the first number that is free.
LEMMA NextChange ==
  ASSUME TypeInv, made + rewrites < MaxChanges, made' = made + 1
  PROVE  /\ made < MaxChanges /\ made + 1 \in Changes \ (1..made) /\ made' \in 0..MaxChanges
         /\ 1..made' = (1..made) \cup {made + 1} /\ 1..made \subseteq Changes
BY BoundAssumption DEF TypeInv, TaskTypes, BackTypes, Changes

\* A change keeps the types: its two tasks begin, about a document there is,
LEMMA AnnounceTypes ==
  ASSUME TypeInv, NEW d \in Docs, NEW t \in Range(may[d]) \cup {None}, Announce(d, t),
         file' = file \/ file' = [file EXCEPT ![d] = t]
  PROVE  TypeInv'
<1>2. /\ made + 1 \in Changes \ (1..made) /\ made' \in 0..MaxChanges
      /\ 1..made' = (1..made) \cup {made + 1} /\ 1..made \subseteq Changes
  BY NextChange DEF Announce
<1>3. t \in Texts  BY MayBeText DEF TypeInv, DocTypes, Texts
<1>4. DocTypes'  BY <1>3 DEF TypeInv, DocTypes, Announce
<1>5. TaskTypes'  BY <1>2, <1>3 DEF TypeInv, TaskTypes, Announce, Changes
<1>6. BackTypes' /\ RequestTypes' /\ AnswerTypes'
  BY DEF TypeInv, BackTypes, RequestTypes, AnswerTypes, Announce, reqVars, backVars
<1>7. TaskInv'
  <2>1. Indexed' = Indexed  BY <1>2 DEF Announce, Indexed, TypeInv, TaskTypes, TaskInv, Changes
  <2> QED BY <1>2, <2>1 DEF Announce, TypeInv, TaskTypes, TaskInv, reqVars, Changes
<1>8. Held'
  <2>1. may' = may /\ copy' = copy /\ reqVars' = reqVars  BY DEF Announce, backVars
  <2>2. /\ \A c \in 1..made : target'[c] = target[c] /\ found'[c] = found[c]
        /\ target'[made + 1] = d /\ found'[made + 1] = t
    BY <1>2 DEF Announce, TypeInv, TaskTypes
  <2> QED BY <1>2, <2>1, <2>2 DEF TypeInv, Held, reqVars
<1> QED BY <1>4, <1>5, <1>6, <1>7, <1>8 DEF TypeInv

\* whether or not the file was written,
LEMMA ChangeTypes ==
  ASSUME TypeInv, NEW d \in Docs, Change(d) \/ RefusedDelete(d)
  PROVE  TypeInv'
BY AnnounceTypes DEF Change, RefusedDelete

\* and a reload is the second task by itself.
LEMMA ReloadTypes == TypeInv /\ Reload => TypeInv'
<1> SUFFICES ASSUME TypeInv, Reload PROVE TypeInv'  OBVIOUS
<1>2. /\ made + 1 \in Changes \ (1..made) /\ made' \in 0..MaxChanges
      /\ 1..made' = (1..made) \cup {made + 1} /\ 1..made \subseteq Changes
  BY NextChange DEF Reload
<1>4. DocTypes'  BY DEF TypeInv, DocTypes, Reload, docVars
<1>5. TaskTypes'  BY <1>2 DEF TypeInv, TaskTypes, Reload, Changes
<1>6. BackTypes' /\ RequestTypes' /\ AnswerTypes'
  BY DEF TypeInv, BackTypes, RequestTypes, AnswerTypes, Reload, reqVars, backVars
<1>7. TaskInv'
  <2>1. Indexed \subseteq Indexed'  BY <1>2 DEF Reload, Indexed, TypeInv, TaskTypes, TaskInv, Changes
  <2> QED BY <1>2, <2>1 DEF Reload, TypeInv, TaskTypes, TaskInv, reqVars, Changes
<1>8. Held'
  <2>1. target[made + 1] \notin Docs  BY <1>2, NoneOfDocs DEF TypeInv, TaskInv
  <2> QED BY <1>2, <2>1 DEF Reload, TypeInv, TaskTypes, Held, reqVars, docVars, backVars
<1> QED BY <1>4, <1>5, <1>6, <1>7, <1>8 DEF TypeInv

\* The hook works at a document of a change that was made, and has its file.
LEMMA TaskTypesStep ==
  ASSUME TypeInv, NEW c \in Changes, Load(c) \/ Save(c) \/ Scan(c) \/ Search(c) \/ Del(c)
  PROVE  TypeInv'
<1>1. c \in 1..made  BY DEF TypeInv, TaskTypes, TaskInv, Load, Save, Scan, Search, Del
<1>2. UNCHANGED <<may, file, backVars, reqVars, made, target>>
  BY DEF Load, Save, Scan, Search, Del, docVars
<1>3. BackTypes' /\ RequestTypes'  BY <1>2 DEF TypeInv, BackTypes, RequestTypes, reqVars, backVars
<1>4. DocTypes' /\ late' \subseteq Docs
  <2>1. CASE Load(c) \/ Save(c)
    <3>1. target[c] \in Docs  BY <1>1, <2>1 DEF TypeInv, TaskInv, Load, Save
    <3>2. late' \subseteq Docs  BY <2>1, <3>1 DEF TypeInv, AnswerTypes, Load, Save
    <3>3. PICK t \in Range(may[target[c]]) \cup {None} : doc' = doc \/ doc' = [doc EXCEPT ![target[c]] = t]
      <4>1. CASE Load(c)  BY <4>1 DEF Load
      <4>2. CASE Save(c)
        <5>1. found[c] \in Range(may[target[c]]) \cup {None}  BY <1>1, <3>1 DEF TypeInv, Held
        <5>2. doc' = [doc EXCEPT ![target[c]] = found[c]]  BY <4>2 DEF Save
        <5> QED BY <5>1, <5>2
      <4> QED BY <2>1, <4>1, <4>2
    <3>4. t \in Texts  BY <3>1, MayBeText DEF TypeInv, DocTypes, Texts
    <3> QED BY <1>2, <3>1, <3>2, <3>3, <3>4 DEF TypeInv, DocTypes
  <2>2. CASE Scan(c) \/ Search(c) \/ Del(c)
    BY <1>2, <2>2 DEF TypeInv, DocTypes, AnswerTypes, Scan, Search, Del, docVars
  <2> QED BY <2>1, <2>2
<1>5. TaskTypes'
  <2>1. CASE Load(c) \/ Save(c)
    <3>1. target[c] \in Docs  BY <1>1, <2>1 DEF TypeInv, TaskInv, Load, Save
    <3>2. None \in Texts  BY DEF Texts
    <3> QED BY <1>2, <2>1, <3>1, <3>2 DEF TypeInv, DocTypes, TaskTypes, Load, Save
  <2>2. CASE Scan(c) \/ Search(c) \/ Del(c)
    BY <1>2, <2>2 DEF TypeInv, TaskTypes, AnswerTypes, Scan, Search, Del
  <2> QED BY <2>1, <2>2
<1>6. AnswerTypes'
  <2>1. cache' \in [Users -> SUBSET Grants]  BY DEF TypeInv, AnswerTypes, Load, Save, Scan, Search, Del
  <2>2. excused' \subseteq Users  BY DEF TypeInv, AnswerTypes, Load, Save, Scan, Search, Del, Cached
  <2>3. stored' \subseteq Users  BY DEF TypeInv, AnswerTypes, Load, Save, Scan, Search, Del
  <2> QED BY <1>4, <2>1, <2>2, <2>3 DEF AnswerTypes
<1>7. TaskInv'
  <2>1. Indexed \subseteq Indexed'  BY DEF TypeInv, TaskTypes, Indexed, Load, Save, Scan, Search, Del
  <2>2. /\ \A e \in Changes \ {c} : index'[e] = index[e] /\ inval'[e] = inval[e]
        /\ index'[c] \in {index[c], "save", "done"} /\ inval'[c] \in {inval[c], "search", "del", "done"}
        /\ index[c] = "done" => index'[c] = "done"
    BY DEF TypeInv, TaskTypes, Load, Save, Scan, Search, Del
  <2>3. 1..made \subseteq Changes  BY BoundAssumption DEF TypeInv, TaskTypes, Changes
  <2> QED BY <1>1, <1>2, <2>1, <2>2, <2>3 DEF TypeInv, TaskInv, reqVars
<1>8. Held'
  <2>1. \A e \in Changes \ {c} : found'[e] = found[e]  BY DEF TypeInv, TaskTypes, Load, Save, Scan, Search, Del
  <2>2. found'[c] \in {found[c], None, file[target[c]]}  BY DEF TypeInv, TaskTypes, Load, Save, Scan, Search, Del
  <2>3. 1..made \subseteq Changes  BY BoundAssumption DEF TypeInv, TaskTypes, Changes
  <2> QED BY <1>1, <1>2, <2>1, <2>2, <2>3 DEF TypeInv, DocTypes, Held, reqVars, backVars
<1> QED BY <1>3, <1>4, <1>5, <1>6, <1>7, <1>8 DEF TypeInv

\* What a user's file or document is overwritten with is a text of it.
LEMMA BackTypesStep ==
  ASSUME TypeInv, NEW u \in Users, Take(u) \/ WriteBack(u) \/ SaveBack(u) \/ Register(u)
  PROVE  TypeInv'
<1>1. u \in Docs  BY DEF Docs
<1>2. UNCHANGED <<may, hookVars, reqVars, cache, stored, excused>>
  BY DEF Take, WriteBack, SaveBack, Register, docVars
<1>3. TaskTypes' /\ RequestTypes' /\ TaskInv'
  BY <1>2 DEF TypeInv, TaskTypes, RequestTypes, TaskInv, Indexed, hookVars, reqVars
<1>4. PICK t \in Range(may[u]) \cup {None} :
        /\ file' = file \/ file' = [file EXCEPT ![u] = t]
        /\ doc' = doc \/ doc' = [doc EXCEPT ![u] = t]
        /\ copy' = copy \/ copy' = [copy EXCEPT ![u] = t]
  <2>1. CASE Take(u)
    <3>1. PICK w \in {<<file[u], "login">>, <<file[u], "sync">>, <<doc[u], "login">>} :
            copy' = [copy EXCEPT ![u] = w[1]]
      BY <2>1 DEF Take
    <3>2. w[1] \in Range(may[u]) \cup {None}  BY <1>1, <3>1 DEF TypeInv, DocTypes
    <3> QED BY <2>1, <3>1, <3>2 DEF Take, docVars
  <2>2. CASE WriteBack(u) \/ SaveBack(u)
    BY <2>2 DEF WriteBack, SaveBack, TypeInv, Held
  <2>3. CASE Register(u)  BY <2>3 DEF Register
  <2> QED BY <2>1, <2>2, <2>3
<1>5. t \in Texts  BY <1>1, MayBeText DEF TypeInv, DocTypes, Texts
<1>6. DocTypes'  BY <1>1, <1>2, <1>4, <1>5 DEF TypeInv, DocTypes
<1>7. late' \subseteq late \cup {u}  BY DEF Take, WriteBack, SaveBack, Register
<1>8. AnswerTypes'  BY <1>1, <1>2, <1>7 DEF TypeInv, AnswerTypes
<1>9. rewrites' \in 0..MaxChanges
  BY BoundAssumption DEF TypeInv, BackTypes, TaskTypes, Take, WriteBack, SaveBack, Register
<1>10. todo' \in [Users -> {"none", "login", "sync", "save"}]
  BY DEF TypeInv, BackTypes, Take, WriteBack, SaveBack, Register
<1>11. BackTypes'  BY <1>4, <1>5, <1>9, <1>10 DEF TypeInv, BackTypes
<1>12. Held'  BY <1>2, <1>4 DEF TypeInv, Held, BackTypes, hookVars, reqVars
<1> QED BY <1>3, <1>6, <1>8, <1>11, <1>12 DEF TypeInv

\* A request's step leaves the files, the tasks and the files that are written back alone.
Aside == UNCHANGED <<may, file, hookVars, backVars>>

\* No step of a request touches a file or a task.
LEMMA RequestKeeps ==
  ASSUME NEW s \in Slots, Ask(s) \/ Step(s)
  PROVE  Aside
BY DEF Aside, docVars, Kept, Ask, Step, LoadUser, SaveUser, FindRoles, FindGroups, FindPerms,
       LoadWorld, SaveMap

\* What may come of a request by its end
LEMMA FinishTypes ==
  ASSUME TypeInv, NEW s \in Slots, Finish(s), checks' = checks, Aside
  PROVE  RequestTypes' /\ TaskInv' /\ Held'
<1>1. None \in Texts  BY DEF Texts
<1>2. RequestTypes'  BY <1>1 DEF TypeInv, RequestTypes, Finish, Goto, Points, NoRoles
<1>3. TaskInv'  BY DEF TypeInv, TaskInv, RequestTypes, Finish, Aside, hookVars, backVars, Indexed
<1>4. Held'  BY DEF TypeInv, Held, RequestTypes, Finish, Goto, Aside, hookVars, backVars
<1> QED BY <1>2, <1>3, <1>4

\* A request that goes on has what it has read, and grants.
LEMMA GoOnTypes ==
  ASSUME TypeInv, NEW s \in Slots, NEW p \in Points, Goto(s, p), user[s] \in Users,
         NEW m \in Texts, meta' = [meta EXCEPT ![s] = m],
         p = "save_user" => m \in Range(may[user[s]]) \cup {None},
         NEW rs \in [Roles -> Texts], pending' = [pending EXCEPT ![s] = rs],
         NEW g \in SUBSET Grants, map' = [map EXCEPT ![s] = g],
         UNCHANGED <<user, checks, seen>>, Aside
  PROVE  RequestTypes' /\ TaskInv' /\ Held'
<1>1. RequestTypes'  BY DEF TypeInv, RequestTypes, Goto
<1>2. TaskInv'  BY DEF TypeInv, TaskInv, RequestTypes, Aside, hookVars, backVars, Indexed
<1>3. Held'  BY DEF TypeInv, Held, RequestTypes, Goto, Aside, hookVars, backVars
<1> QED BY <1>1, <1>2, <1>3

\* A request begins having seen the changes that are in the index.
LEMMA AskTypes ==
  ASSUME TypeInv, NEW s \in Slots, Ask(s)
  PROVE  RequestTypes' /\ TaskInv' /\ Held'
<1>1. PICK u \in Users : user' = [user EXCEPT ![s] = u] /\ seen' = [seen EXCEPT ![s] = Indexed]
  BY DEF Ask
<1>2. pc' = [pc EXCEPT ![s] = "user"] /\ Aside /\ UNCHANGED <<meta, pending, map>>
  BY RequestKeeps DEF Ask, Goto
<1>3. checks' \in 0..MaxChecks  BY BoundAssumption DEF Ask, TypeInv, RequestTypes
<1>4. RequestTypes'  BY <1>1, <1>2, <1>3 DEF TypeInv, RequestTypes, Points, Indexed
<1>5. TaskInv'  BY <1>1, <1>2 DEF TypeInv, TaskInv, RequestTypes, Aside, hookVars, backVars, Indexed
<1>6. Held'  BY <1>1, <1>2 DEF TypeInv, Held, RequestTypes, Aside, hookVars, backVars
<1> QED BY <1>4, <1>5, <1>6

\* A request's steps keep the types of the requests.
LEMMA RequestTypesStep ==
  ASSUME TypeInv, NEW s \in Slots, Step(s)
  PROVE  RequestTypes' /\ TaskInv' /\ Held'
<1>1. Aside /\ checks' = checks
  BY RequestKeeps DEF Step, Kept, LoadUser, SaveUser, FindRoles, FindGroups, FindPerms, LoadWorld, SaveMap
<1>2. CASE Finish(s)  BY <1>1, <1>2, FinishTypes
<1>3. user[s] \in Users /\ meta[s] \in Texts /\ pending[s] \in [Roles -> Texts] /\ map[s] \in SUBSET Grants
  BY DEF TypeInv, RequestTypes, Step, At, LoadUser, SaveUser, FindRoles, FindGroups, FindPerms,
         LoadWorld, SaveMap
<1>4. /\ meta = [meta EXCEPT ![s] = meta[s]] /\ pending = [pending EXCEPT ![s] = pending[s]]
      /\ map = [map EXCEPT ![s] = map[s]]
  BY DEF TypeInv, RequestTypes
<1>6. CASE LoadUser(s) /\ ~Finish(s)
  <2> DEFINE m == IF There(user[s]) THEN doc[user[s]] ELSE file[user[s]]
             p == IF There(user[s]) THEN "roles" ELSE "save_user"
  <2>1. /\ meta' = [meta EXCEPT ![s] = m] /\ Goto(s, p) /\ UNCHANGED <<user, pending, map, seen>>
    BY <1>6 DEF LoadUser
  <2>2. user[s] \in Docs  BY <1>3 DEF Docs
  <2>3. m \in Texts /\ m \in Range(may[user[s]]) \cup {None} /\ p \in Points
    BY <2>2 DEF TypeInv, DocTypes, Points
  <2> HIDE DEF m, p
  <2> QED BY <1>1, <1>3, <1>4, <2>1, <2>3, GoOnTypes
<1>7. CASE SaveUser(s)
  <2>1. Goto(s, "roles") /\ UNCHANGED <<user, meta, pending, map, seen>>  BY <1>7 DEF SaveUser
  <2> QED BY <1>1, <1>3, <1>4, <2>1, GoOnTypes DEF Points
<1>8. CASE FindRoles(s) \/ (FindGroups(s) /\ ~Finish(s))
  <2>1. PICK rs, p : /\ pending' = [pending EXCEPT ![s] = rs] /\ Goto(s, p)
                     /\ rs \in [Roles -> Texts] /\ p \in {"groups", "save", "role"}
                     /\ UNCHANGED <<user, meta, map, seen>>
    <3>1. Roles \subseteq Docs /\ None \in Texts  BY DEF Docs, Texts
    <3>2. CASE FindRoles(s)
      <4> DEFINE rs == [r \in Roles |-> IF r \in meta[s] \cup {LoggedIn} THEN doc[r] ELSE None]
      <4>1. rs \in [Roles -> Texts]  BY <3>1 DEF TypeInv, DocTypes
      <4>2. pending' = [pending EXCEPT ![s] = rs] /\ Goto(s, "groups") /\ UNCHANGED <<user, meta, map, seen>>
        BY <3>2 DEF FindRoles
      <4> HIDE DEF rs
      <4> QED BY <4>1, <4>2
    <3>3. CASE FindGroups(s) /\ ~Finish(s)
      <4>1. /\ Goto(s, IF pending[s] = NoRoles THEN "save" ELSE "role")
            /\ UNCHANGED <<user, meta, pending, map, seen>>
        BY <3>3 DEF FindGroups
      <4> QED BY <1>3, <1>4, <4>1
    <3> QED BY <1>8, <3>2, <3>3
  <2> QED BY <1>1, <1>3, <1>4, <2>1, GoOnTypes DEF Points
<1>9. CASE FindPerms(s)
  <2>1. PICK r \in Roles : /\ map' = [map EXCEPT ![s] = @ \cup Allowed(pending[s][r])]
                           /\ pending' = [pending EXCEPT ![s][r] = None]
    BY <1>9 DEF FindPerms
  <2> DEFINE rs == [pending[s] EXCEPT ![r] = None]
             g == map[s] \cup Allowed(pending[s][r])
  <2>2. Goto(s, "world") /\ UNCHANGED <<user, meta, seen>>  BY <1>9 DEF FindPerms
  <2>3. g \in SUBSET Grants  BY <1>3, AllowedGrants, TypesAreTypeOK DEF TypeInv
  <2>4. rs \in [Roles -> Texts]  BY <1>3 DEF Texts
  <2>5. map' = [map EXCEPT ![s] = g] /\ pending' = [pending EXCEPT ![s] = rs]  BY <2>1 DEF TypeInv, RequestTypes
  <2> HIDE DEF rs, g
  <2> QED BY <1>1, <1>3, <1>4, <2>2, <2>3, <2>4, <2>5, GoOnTypes DEF Points
<1>10. CASE LoadWorld(s) /\ ~Finish(s)
  <2> DEFINE p == IF pending[s] = NoRoles THEN "save" ELSE "role"
             g == map[s] \cup file[World]
  <2>1. file[World] # None /\ Goto(s, p) /\ UNCHANGED <<user, meta, pending, seen>>  BY <1>10 DEF LoadWorld
  <2>2. map' = [map EXCEPT ![s] = g]  BY <1>10 DEF LoadWorld, TypeInv, RequestTypes
  <2>3. g \in SUBSET Grants /\ p \in Points /\ p # "save_user"
    BY <1>3, <2>1, WorldGrants, TypesAreTypeOK DEF TypeInv, Points
  <2> HIDE DEF p, g
  <2> QED BY <1>1, <1>3, <1>4, <2>1, <2>2, <2>3, GoOnTypes
<1>11. CASE SaveMap(s)  BY <1>2, <1>11 DEF SaveMap
<1> QED BY <1>2, <1>6, <1>7, <1>8, <1>9, <1>10, <1>11 DEF Step

\* and those of the rest.
LEMMA RequestRestTypes ==
  ASSUME TypeInv, NEW s \in Slots, Ask(s) \/ Step(s)
  PROVE  DocTypes' /\ TaskTypes' /\ BackTypes' /\ AnswerTypes'
<1>1. Aside  BY RequestKeeps
<1>2. TaskTypes' /\ BackTypes'  BY <1>1 DEF TypeInv, TaskTypes, BackTypes, Aside, hookVars, backVars
<1>3. CASE SaveUser(s)
  <2>1. /\ user[s] \in Docs /\ meta[s] \in Range(may[user[s]]) \cup {None} /\ meta[s] \in Texts
        /\ doc' = [doc EXCEPT ![user[s]] = meta[s]] /\ late' \subseteq late \cup {user[s]}
        /\ UNCHANGED <<cache, stored, excused>>
    BY <1>3 DEF SaveUser, At, TypeInv, Held, RequestTypes, Docs
  <2> QED BY <1>1, <1>2, <2>1 DEF TypeInv, DocTypes, AnswerTypes, Aside
<1>4. CASE SaveMap(s)
  <2>1. /\ user[s] \in Users /\ map[s] \in SUBSET Grants
        /\ cache' = [cache EXCEPT ![user[s]] = map[s]] /\ stored' = stored \cup {user[s]}
        /\ excused' \subseteq excused \cup {user[s]} /\ UNCHANGED <<late, doc>>
    BY <1>4 DEF SaveMap, At, TypeInv, RequestTypes, docVars
  <2> QED BY <1>1, <1>2, <2>1 DEF TypeInv, DocTypes, AnswerTypes, Aside
<1>5. CASE ~SaveUser(s) /\ ~SaveMap(s)
  <2>1. UNCHANGED <<doc, cache, stored, excused, late>>
    BY <1>5 DEF docVars, Ask, Step, LoadUser, FindRoles, FindGroups, FindPerms, LoadWorld
  <2> QED BY <1>1, <1>2, <2>1 DEF TypeInv, DocTypes, AnswerTypes, Aside
<1> QED BY <1>3, <1>4, <1>5

\* Every step keeps the types.
LEMMA NextTypeInv == TypeInv /\ [Next]_vars => TypeInv'
<1> SUFFICES ASSUME TypeInv, [Next]_vars PROVE TypeInv'  OBVIOUS
<1>1. CASE UNCHANGED vars
  BY <1>1 DEF vars, docVars, hookVars, backVars, reqVars, TypeInv, DocTypes, TaskTypes, BackTypes,
              RequestTypes, AnswerTypes, TaskInv, Held, Indexed
<1>2. CASE Next
  BY <1>2, ReloadTypes, ChangeTypes, TaskTypesStep, BackTypesStep, AskTypes, RequestTypesStep, RequestRestTypes
  DEF Next, TypeInv
<1> QED BY <1>1, <1>2

\* For any names, contents, changes and requests, every value has its type.
THEOREM TypeCorrect == Spec => []TypeOK
<1>1. TypeInv => TypeOK  BY TypesAreTypeOK DEF TypeInv
<1> QED BY <1>1, InitTypeInv, NextTypeInv, PTL DEF Spec

(***************************************************************************)
(* The documents                                                           *)
(***************************************************************************)
\* A document that is not what its file says has a hook coming that will see to it: one
\* that deletes it when there is no file, else one that has still to load or to save.
Coming ==
  \A d \in Docs \ late :
    /\ file[d] # None /\ doc[d] # file[d] =>
         \E c \in 1..made : target[c] = d /\ (index[c] = "save" \/ (index[c] = "load" /\ found[c] # None))
    /\ file[d] = None /\ doc[d] # None =>
         \E c \in 1..made : target[c] = d /\ index[c] = "load" /\ found[c] = None

\* At first every document is what its file says.
LEMMA InitComing == Init => Coming
BY DEF Init, Coming

\* Steps that touch neither the documents nor their hooks
LEMMA SameComing ==
  ASSUME Coming, UNCHANGED <<file, doc, made, target, index, found>>, late \subseteq late'
  PROVE  Coming'
BY DEF Coming

\* A change brings a hook of its own, a deletion that was refused one to no purpose.
LEMMA AnnounceComing ==
  ASSUME TypeInv, Coming, NEW d \in Docs, NEW t, Announce(d, t),
         file' = [file EXCEPT ![d] = t] \/ (file' = file /\ (t = None \/ t = file[d]))
  PROVE  Coming'
<1>2. /\ made + 1 \in Changes \ (1..made) /\ made' \in 0..MaxChanges
      /\ 1..made' = (1..made) \cup {made + 1} /\ 1..made \subseteq Changes
  BY NextChange DEF Announce
<1>3. /\ \A c \in 1..made : target'[c] = target[c] /\ index'[c] = index[c] /\ found'[c] = found[c]
      /\ target'[made + 1] = d /\ index'[made + 1] = "load" /\ found'[made + 1] = t
  BY <1>2 DEF Announce, TypeInv, TaskTypes
<1>4. doc' = doc /\ late' = late /\ file'[d] \in {file[d], t} /\ \A e \in Docs \ {d} : file'[e] = file[e]
  BY DEF Announce, TypeInv, DocTypes
<1> SUFFICES ASSUME NEW e \in Docs \ late
             PROVE  /\ file'[e] # None /\ doc'[e] # file'[e] =>
                          \E c \in 1..made' :
                            target'[c] = e /\ (index'[c] = "save" \/ (index'[c] = "load" /\ found'[c] # None))
                    /\ file'[e] = None /\ doc'[e] # None =>
                          \E c \in 1..made' : target'[c] = e /\ index'[c] = "load" /\ found'[c] = None
  BY <1>4 DEF Coming
<1>5. CASE e = d /\ file' = [file EXCEPT ![d] = t]
  <2>1. file'[d] = t  BY <1>5 DEF TypeInv, DocTypes
  <2> QED BY <1>2, <1>3, <1>4, <1>5, <2>1
<1>6. CASE file' = file  BY <1>2, <1>3, <1>4, <1>6 DEF Coming
<1>7. CASE e # d  BY <1>2, <1>3, <1>4, <1>7 DEF Coming
<1> QED BY <1>5, <1>6, <1>7

\* A reload has no hook of redis_db_update.
LEMMA ReloadComing ==
  ASSUME TypeInv, Coming, Reload
  PROVE  Coming'
<1>2. /\ made + 1 \in Changes \ (1..made) /\ made' \in 0..MaxChanges
      /\ 1..made' = (1..made) \cup {made + 1} /\ 1..made \subseteq Changes
  BY NextChange DEF Reload
<1>3. \A c \in 1..made : index'[c] = index[c]
  BY <1>2 DEF Reload, TypeInv, TaskTypes
<1> QED BY <1>2, <1>3 DEF Reload, Coming, docVars

\* A hook that ends has brought the document up to date, or what it saved was old.
LEMMA LoadComing ==
  ASSUME TypeInv, Coming, NEW c \in Changes, Load(c)
  PROVE  Coming'
<1>1. /\ c \in 1..made /\ target[c] \in Docs /\ made' = made /\ target' = target /\ file' = file
      /\ index[c] = "load"
  BY DEF TypeInv, TaskTypes, TaskInv, Load
<1>2. \A e \in Changes \ {c} : index'[e] = index[e] /\ found'[e] = found[e]
  BY DEF TypeInv, TaskTypes, Load
<1>3. 1..made \subseteq Changes  BY BoundAssumption DEF TypeInv, TaskTypes, Changes
<1>4. CASE found[c] = None
  <2>1. /\ doc' = [doc EXCEPT ![target[c]] = None]
        /\ late' = IF file[target[c]] = None THEN late ELSE late \cup {target[c]}
    BY <1>4 DEF Load
  <2> QED BY <1>1, <1>2, <1>3, <2>1 DEF Coming, TypeInv, DocTypes
<1>5. CASE found[c] # None
  <2>1. /\ doc' = doc /\ late' = late
        /\ index'[c] = IF file[target[c]] = None THEN "done" ELSE "save"
    BY <1>5 DEF Load, TypeInv, TaskTypes
  <2> QED BY <1>1, <1>2, <1>3, <1>5, <2>1 DEF Coming
<1> QED BY <1>4, <1>5

\* The same of the second half of the hook
LEMMA SaveComing ==
  ASSUME TypeInv, Coming, NEW c \in Changes, Save(c)
  PROVE  Coming'
<1>1. /\ c \in 1..made /\ target[c] \in Docs /\ made' = made /\ target' = target /\ file' = file
      /\ index[c] = "save"
  BY DEF TypeInv, TaskTypes, TaskInv, Save
<1>2. \A e \in Changes \ {c} : index'[e] = index[e] /\ found'[e] = found[e]
  BY DEF TypeInv, TaskTypes, Save
<1>3. 1..made \subseteq Changes  BY BoundAssumption DEF TypeInv, TaskTypes, Changes
<1>4. /\ doc' = [doc EXCEPT ![target[c]] = found[c]]
      /\ late' = IF found[c] = file[target[c]] THEN late ELSE late \cup {target[c]}
  BY DEF Save
<1> QED BY <1>1, <1>2, <1>3, <1>4 DEF Coming, TypeInv, DocTypes

\* So has a request that saves the document of its user.
LEMMA SaveUserComing ==
  ASSUME TypeInv, Coming, NEW s \in Slots, SaveUser(s)
  PROVE  Coming'
<1>1. user[s] \in Docs  BY DEF SaveUser, At, TypeInv, RequestTypes, Docs
<1>2. /\ doc' = [doc EXCEPT ![user[s]] = meta[s]]
      /\ late' = IF meta[s] = file[user[s]] THEN late ELSE late \cup {user[s]}
      /\ UNCHANGED <<file, made, target, index, found>>
  BY DEF SaveUser, Kept, hookVars
<1> QED BY <1>1, <1>2 DEF Coming, TypeInv, DocTypes

\* A user's file is written to no notice, and its document saved as the file was.
LEMMA BackComing ==
  ASSUME TypeInv, Coming, NEW u \in Users, Take(u) \/ WriteBack(u) \/ SaveBack(u) \/ Register(u)
  PROVE  Coming'
<1>1. u \in Docs /\ UNCHANGED <<made, target, index, found>>
  BY DEF Docs, Take, WriteBack, SaveBack, Register, hookVars
<1>2. CASE Take(u)  BY <1>1, <1>2, SameComing DEF Take, docVars
<1>3. CASE WriteBack(u) \/ Register(u)
  <2>1. /\ doc' = doc /\ late \subseteq late' /\ (file' = file \/ u \in late')
        /\ \A d \in Docs \ {u} : file'[d] = file[d]
    BY <1>3 DEF WriteBack, Register, TypeInv, DocTypes, Held
  <2> QED BY <1>1, <2>1 DEF Coming
<1>4. CASE SaveBack(u)
  <2>1. /\ doc' = [doc EXCEPT ![u] = copy[u]] /\ file' = file
        /\ late' = IF copy[u] = file[u] THEN late ELSE late \cup {u}
    BY <1>4 DEF SaveBack
  <2> QED BY <1>1, <2>1 DEF Coming, TypeInv, DocTypes
<1> QED BY <1>2, <1>3, <1>4

\* Every step keeps the hooks coming that are needed.
LEMMA NextComing == TypeInv /\ Coming /\ [Next]_vars => Coming'
<1> SUFFICES ASSUME TypeInv, Coming, [Next]_vars PROVE Coming'  OBVIOUS
<1>1. CASE UNCHANGED vars  BY <1>1, SameComing DEF vars, docVars, hookVars
<1>2. ASSUME NEW d \in Docs, Change(d) \/ RefusedDelete(d) PROVE Coming'
  <2>1. CASE Change(d)
    <3>1. PICK t : file' = [file EXCEPT ![d] = t] /\ Announce(d, t)  BY <2>1 DEF Change
    <3> QED BY <3>1, AnnounceComing
  <2>2. CASE RefusedDelete(d)  BY <2>2, AnnounceComing DEF RefusedDelete
  <2> QED BY <1>2, <2>1, <2>2
<1>3. ASSUME NEW c \in Changes, Load(c) \/ Save(c) PROVE Coming'  BY <1>3, LoadComing, SaveComing
<1>4. ASSUME NEW c \in Changes, Scan(c) \/ Search(c) \/ Del(c) PROVE Coming'
  BY <1>4, SameComing DEF Scan, Search, Del, docVars
<1>5. ASSUME NEW s \in Slots, Ask(s) \/ Step(s) PROVE Coming'
  <2>1. CASE SaveUser(s)  BY <2>1, SaveUserComing
  <2>2. CASE ~SaveUser(s)
    <3>1. UNCHANGED <<file, doc, late, made, target, index, found>>
      BY <1>5, <2>2, RequestKeeps
      DEF Aside, hookVars, backVars, docVars, Ask, Step, LoadUser, FindRoles, FindGroups, FindPerms, LoadWorld, SaveMap
    <3> QED BY <3>1, SameComing
  <2> QED BY <2>1, <2>2
<1> QED BY <1>1, <1>2, <1>3, <1>4, <1>5, ReloadComing, BackComing DEF Next

\* When the tasks of the changes of a document have ended it says what its file says, unless
\* somebody who had read the file before a change saved it afterwards, a deletion was announced
\* of a file that was there, or a user's file was written and nobody told.
THEOREM DocCurrentAlways == Spec => []DocCurrent
<1>1. TypeInv /\ Coming => DocCurrent
  BY DEF Coming, DocCurrent, Settled, TypeInv, DocTypes
<1> QED BY <1>1, InitTypeInv, NextTypeInv, InitComing, NextComing, PTL DEF Spec

(***************************************************************************)
(* The cached answers                                                      *)
(***************************************************************************)
\* A change will still throw the answer of a user away.
Reaches(c, u) == inval[c] \in {"scan", "search"} \/ (inval[c] = "del" /\ u \in keys[c])
Doomed(u) == \E c \in 1..made : target[c] \in Docs /\ Reaches(c, u)

\* As long as the document of a change is not in the index, what is cached will be thrown
\* away by that change, but for the excused.
Swept == \A c \in 1..made : \A u \in Cached \ excused : index[c] # "done" => Reaches(c, u)

\* A cached answer is what the documents say, or will be thrown away.
FreshOrDoomed == \A u \in Cached \ (excused \cup late) : Doomed(u) \/ cache[u] = Effective(u)

\* There is a change that a request may not have seen.
Stale(s) == \E c \in 1..made : target[c] \in Docs /\ c \notin seen[s]

\* What the roles that a request has still to go through will add to its answer
Rest(s) == UNION {Allowed(pending[s][r]) : r \in {q \in Roles : pending[s][q] # None}}

\* How far a request is with the answer that the documents give
Tells(s) ==
  LET u == user[s] IN
  /\ pc[s] = "save_user" => meta[s] = file[u] /\ meta[s] # None
  /\ pc[s] \in {"roles", "groups"} => meta[s] = doc[u] /\ meta[s] # None
  /\ pc[s] = "groups" =>
       pending[s] = [r \in Roles |-> IF r \in meta[s] \cup {LoggedIn} THEN doc[r] ELSE None]
  /\ pc[s] \in {"role", "world"} =>
       /\ RolesOf(u) # {} /\ Shared(Of(u)) = {}
       /\ file[World] # None => map[s] \cup Rest(s) \cup file[World] = Gained(u) \cup file[World]
  /\ pc[s] = "save" => map[s] = Effective(u)
Empty == \A s \in Slots : pc[s] \notin {"role", "world", "save"} => map[s] = {}
Reading == \A s \in Slots : pc[s] # "idle" /\ user[s] \notin late /\ ~Stale(s) => Tells(s)

CacheInv == Swept /\ FreshOrDoomed /\ Empty /\ Reading

\* At first nothing is cached and nobody asks.
LEMMA InitCacheInv == Init => CacheInv
<1> SUFFICES ASSUME Init PROVE CacheInv  OBVIOUS
<1>1. Cached = {}  BY DEF Init, Cached
<1> QED BY <1>1 DEF Init, CacheInv, Swept, FreshOrDoomed, Empty, Reading

\* What the documents amount to for a user depends on the user's document, on those of
\* groups, roles and permissions, and on the file of world.
LEMMA Depends ==
  ASSUME NEW u \in Users, doc'[u] = doc[u],
         \A d \in Groups \cup Roles \cup Perms : doc'[d] = doc[d]
  PROVE  /\ RolesOf(u)' = RolesOf(u) /\ Gained(u)' = Gained(u) /\ Shared(Of(u))' = Shared(Of(u))
         /\ \A names : Allowed(names)' = Allowed(names)
         /\ file'[World] = file[World] => Effective(u)' = Effective(u)
<1>1. \A d \in {u} \cup Groups \cup Roles \cup Perms : There(d)' = There(d) /\ Of(d)' = Of(d)
  BY DEF There, Of
<1>2. RolesOf(u)' = RolesOf(u)  BY <1>1 DEF RolesOf
<1>5. Shared(Of(u))' = Shared(Of(u))
  <2>1. Of(u)' = Of(u)  BY <1>1
  <2>2. (UNION {Of(g) : g \in Of(u) \cap Groups})' = UNION {Of(g) : g \in Of(u) \cap Groups}
    BY <1>1, <2>1
  <2> QED BY <1>1, <2>2 DEF Shared
<1>3. \A names : Allowed(names)' = Allowed(names)  BY <1>1 DEF Allowed
<1>4. Gained(u)' = Gained(u)
  <2>1. RolesOf(u) \subseteq Roles  BY DEF RolesOf
  <2>2. (UNION {Of(r) : r \in RolesOf(u)})' = UNION {Of(r) : r \in RolesOf(u)}  BY <1>1, <1>2, <2>1
  <2> QED BY <1>3, <2>2 DEF Gained
<1> QED BY <1>2, <1>3, <1>4, <1>5 DEF Effective

\* So does how far a request is.
LEMMA TellsSame ==
  ASSUME TypeInv, NEW s \in Slots, user[s] \in Users,
         pc'[s] = pc[s], user'[s] = user[s], meta'[s] = meta[s], pending'[s] = pending[s], map'[s] = map[s],
         file'[user[s]] = file[user[s]], file'[World] = file[World], doc'[user[s]] = doc[user[s]],
         \A d \in Groups \cup Roles \cup Perms : doc'[d] = doc[d], Tells(s)
  PROVE  Tells(s)'
<1>1. PICK u \in Users : u = user[s]  OBVIOUS
<1>2. /\ RolesOf(u)' = RolesOf(u) /\ Gained(u)' = Gained(u) /\ Effective(u)' = Effective(u)
      /\ Shared(Of(u))' = Shared(Of(u)) /\ \A names : Allowed(names)' = Allowed(names)
  BY <1>1, Depends
<1>3. Rest(s)' = Rest(s)  BY <1>2 DEF Rest
<1>4. \A r \in Roles : doc'[r] = doc[r]  OBVIOUS
<1> QED BY <1>1, <1>2, <1>3, <1>4 DEF Tells

\* What the steps of the tasks do to what is thrown away: no answer leaves the reach of a
\* change but by being thrown away or excused.
LEMMA TaskReach ==
  ASSUME TypeInv, NEW c \in Changes, Scan(c) \/ Search(c) \/ Del(c)
  PROVE  /\ UNCHANGED <<docVars, made, target, index, found, backVars, reqVars, late>>
         /\ \A u \in Cached' \ excused' :
              /\ u \in Cached \ excused /\ cache'[u] = cache[u]
              /\ \A e \in 1..made : Reaches(e, u) => Reaches(e, u)'
<1>1. UNCHANGED <<docVars, made, target, index, found, backVars, reqVars, late>>  BY DEF Scan, Search, Del
<1> SUFFICES ASSUME NEW u \in Cached' \ excused'
             PROVE  /\ u \in Cached \ excused /\ cache'[u] = cache[u]
                    /\ \A e \in 1..made : Reaches(e, u) => Reaches(e, u)'
  BY <1>1
<1>2. u \in Users /\ 1..made \subseteq Changes  BY BoundAssumption DEF Cached, TypeInv, TaskTypes, Changes
<1>3. u \in Cached \ excused /\ cache'[u] = cache[u]
  <2>1. CASE Scan(c) \/ Search(c)  BY <2>1 DEF Scan, Search, Cached
  <2>2. CASE Del(c)  BY <1>2, <2>2 DEF Del, Cached
  <2> QED BY <2>1, <2>2
<1>4. \A e \in Changes \ {c} : inval'[e] = inval[e] /\ keys'[e] = keys[e]
  BY DEF TypeInv, TaskTypes, Scan, Search, Del
<1>5. Reaches(c, u) => Reaches(c, u)'
  <2>1. CASE Scan(c)
    <3>1. inval'[c] = "search"  BY <1>3, <2>1 DEF Scan, TypeInv, TaskTypes
    <3> QED BY <3>1 DEF Reaches
  <2>2. CASE Search(c)
    <3>1. inval'[c] = "del" /\ u \in keys'[c]
      <4>1. PICK page \in SUBSET stored :
              keys' = [keys EXCEPT ![c] = page] /\ excused' = excused \cup (Cached \ page)
        BY <2>2 DEF Search
      <4>2. inval' = [inval EXCEPT ![c] = "del"]  BY <2>2 DEF Search
      <4> QED BY <1>3, <4>1, <4>2 DEF TypeInv, TaskTypes
    <3> QED BY <3>1 DEF Reaches
  <2>3. CASE Del(c)
    <3>1. inval[c] = "del" /\ u \notin keys[c]
      BY <1>2, <2>3 DEF Del, Cached
    <3> QED BY <3>1 DEF Reaches
  <2> QED BY <2>1, <2>2, <2>3
<1> QED BY <1>2, <1>3, <1>4, <1>5 DEF Reaches

\* A change that has begun reaches everybody, and leaves the others to what they reach.
LEMMA BegunReach ==
  ASSUME TypeInv, NEW n, n = made + 1, made + rewrites < MaxChanges, made' = n,
         inval' = [inval EXCEPT ![n] = "scan"], keys' = keys
  PROVE  /\ n \in Changes \ (1..made) /\ 1..made' = (1..made) \cup {n} /\ 1..made \subseteq Changes
         /\ \A u : Reaches(n, u)'
         /\ \A u : \A e \in 1..made : Reaches(e, u)' <=> Reaches(e, u)
<1>1. /\ n \in Changes \ (1..made) /\ 1..made' = (1..made) \cup {n} /\ 1..made \subseteq Changes
  BY NextChange
<1>2. inval'[n] = "scan" /\ \A e \in 1..made : inval'[e] = inval[e]
  BY <1>1 DEF TypeInv, TaskTypes
<1> QED BY <1>1, <1>2 DEF Reaches

\* An answer that is saved is excused when a change has looked for answers already whose
\* document the request may not have seen.
LEMMA SavedReach ==
  ASSUME TypeInv, NEW s \in Slots, SaveMap(s), user[s] \notin excused', NEW c \in (1..made) \ seen[s]
  PROVE  inval[c] \in {"scan", "search"}
<1>1. ~Overtaken(s)  BY DEF SaveMap, At, TypeInv, RequestTypes
<1>2. c \in Changes  BY BoundAssumption DEF TypeInv, TaskTypes, Changes
<1>3. inval[c] \in {"scan", "search", "del", "done"}  BY <1>2 DEF TypeInv, TaskTypes, TaskInv
<1> QED BY <1>1, <1>3 DEF Overtaken

\* Every step keeps what is cached within the reach of the changes that are not indexed.
LEMMA NextSwept == TypeInv /\ Swept /\ [Next]_vars => Swept'
<1> SUFFICES ASSUME TypeInv, Swept, [Next]_vars PROVE Swept'  OBVIOUS
<1>0. 1..made \subseteq Changes  BY BoundAssumption DEF TypeInv, TaskTypes, Changes
<1>1. CASE UNCHANGED vars  BY <1>1 DEF vars, hookVars, Swept, Cached, Reaches
<1>2. ASSUME NEW d \in Docs, Change(d) \/ RefusedDelete(d) PROVE Swept'
  <2>0. PICK n : n = made + 1  OBVIOUS
  <2>1. /\ made + rewrites < MaxChanges /\ made' = n /\ inval' = [inval EXCEPT ![n] = "scan"]
        /\ index' = [index EXCEPT ![n] = "load"] /\ UNCHANGED <<keys, cache, excused>>
    BY <1>2, <2>0 DEF Change, RefusedDelete, Announce
  <2>2. Cached' = Cached  BY <2>1 DEF Cached
  <2>3. /\ n \in Changes \ (1..made) /\ 1..made' = (1..made) \cup {n}
        /\ \A v : Reaches(n, v)' /\ \A e \in 1..made : Reaches(e, v)' <=> Reaches(e, v)
    BY <2>0, <2>1, BegunReach
  <2>4. \A e \in 1..made : index'[e] = index[e]  BY <2>1, <2>3 DEF TypeInv, TaskTypes
  <2> QED BY <2>1, <2>2, <2>3, <2>4 DEF Swept
<1>3. ASSUME Reload PROVE Swept'
  <2>0. PICK n : n = made + 1  OBVIOUS
  <2>1. /\ made + rewrites < MaxChanges /\ made' = n /\ inval' = [inval EXCEPT ![n] = "scan"]
        /\ index' = [index EXCEPT ![n] = "done"] /\ UNCHANGED <<keys, cache, excused>>
    BY <1>3, <2>0 DEF Reload
  <2>2. Cached' = Cached  BY <2>1 DEF Cached
  <2>3. /\ n \in Changes \ (1..made) /\ 1..made' = (1..made) \cup {n}
        /\ \A v : Reaches(n, v)' /\ \A e \in 1..made : Reaches(e, v)' <=> Reaches(e, v)
    BY <2>0, <2>1, BegunReach
  <2>4. \A e \in 1..made : index'[e] = index[e]  BY <2>1, <2>3 DEF TypeInv, TaskTypes
  <2> QED BY <2>1, <2>2, <2>3, <2>4 DEF Swept
<1>4. ASSUME NEW c \in Changes, Load(c) \/ Save(c) PROVE Swept'
  <2>1. UNCHANGED <<made, inval, keys, cache, excused>>  BY <1>4 DEF Load, Save
  <2>2. index[c] # "done" /\ \A e \in Changes \ {c} : index'[e] = index[e]
    BY <1>4 DEF Load, Save, TypeInv, TaskTypes
  <2> QED BY <1>0, <2>1, <2>2 DEF Swept, Cached, Reaches
<1>5. ASSUME NEW c \in Changes, Scan(c) \/ Search(c) \/ Del(c) PROVE Swept'
  BY <1>5, TaskReach DEF Swept
<1>6. ASSUME NEW s \in Slots, Ask(s) \/ Step(s) PROVE Swept'
  <2>1. Aside  BY <1>6, RequestKeeps
  <2>2. CASE SaveMap(s)
    <3>1. /\ cache' = [cache EXCEPT ![user[s]] = map[s]] /\ user[s] \in Users
          /\ excused \subseteq excused' \cup {user[s]}
      BY <2>2 DEF SaveMap, At, TypeInv, RequestTypes
    <3> SUFFICES ASSUME NEW c \in 1..made, NEW u \in Cached' \ excused', index[c] # "done"
                 PROVE  Reaches(c, u)'
      BY <2>1 DEF Swept, Aside, hookVars, backVars
    <3>2. CASE u = user[s]
      <4>1. c \notin seen[s]  BY DEF TypeInv, TaskInv, Indexed
      <4> QED BY <2>1, <2>2, <3>2, <4>1, SavedReach DEF Reaches, Aside, hookVars, backVars
    <3>3. CASE u # user[s]
      <4>1. u \in Cached \ excused  BY <3>1, <3>3 DEF Cached, TypeInv, AnswerTypes
      <4> QED BY <2>1, <4>1 DEF Swept, Reaches, Aside, hookVars, backVars
    <3> QED BY <3>2, <3>3
  <2>3. CASE ~SaveMap(s)
    <3>1. UNCHANGED <<cache, excused>>
      BY <1>6, <2>3 DEF Ask, Step, LoadUser, SaveUser, FindRoles, FindGroups, FindPerms, LoadWorld
    <3> QED BY <2>1, <3>1 DEF Swept, Cached, Reaches, Aside, hookVars, backVars
  <2> QED BY <2>2, <2>3
<1>7. ASSUME NEW u \in Users, Take(u) \/ WriteBack(u) \/ SaveBack(u) \/ Register(u) PROVE Swept'
  BY <1>7 DEF Take, WriteBack, SaveBack, Register, hookVars, Swept, Cached, Reaches
<1> QED BY <1>1, <1>2, <1>3, <1>4, <1>5, <1>6, <1>7 DEF Next

\* While a request goes through its roles, what it has and what is to come is all.
LEMMA NextEmpty == TypeInv /\ Empty /\ [Next]_vars => Empty'
<1> SUFFICES ASSUME TypeInv, Empty, [Next]_vars PROVE Empty'  OBVIOUS
<1>1. CASE UNCHANGED <<pc, map>>  BY <1>1 DEF Empty
<1>2. ASSUME NEW s \in Slots, Ask(s) \/ Step(s) PROVE Empty'
  BY <1>2 DEF Empty, TypeInv, RequestTypes, Ask, Step, At, Goto, Finish, LoadUser, SaveUser, FindRoles,
              FindGroups, FindPerms, LoadWorld, SaveMap
<1> QED BY <1>1, <1>2 
DEF Next, vars, reqVars, Reload, Change, RefusedDelete, Announce, Load, Save, Scan, Search, Del,
    Take, WriteBack, SaveBack, Register

\* A user's document that is replaced by what the file says is what it was, unless there is a
\* change still to come to the index.
LEMMA UserSaved ==
  ASSUME TypeInv, Coming, NEW u \in Users \ late, doc' = [doc EXCEPT ![u] = file[u]]
  PROVE  doc' = doc \/ \E c \in 1..made : target[c] = u /\ index[c] # "done"
<1>1. u \in Docs  BY DEF Docs
<1>3. CASE doc[u] = file[u]  BY <1>1, <1>3 DEF TypeInv, DocTypes
<1>4. CASE doc[u] # file[u]  BY <1>1, <1>4 DEF Coming
<1> QED BY <1>3, <1>4

\* A user's document says nothing about groups, roles, permissions and other users.
LEMMA OnlyTheUser ==
  ASSUME TypeInv, NEW u \in Users, NEW m, doc' = [doc EXCEPT ![u] = m]
  PROVE  /\ \A d \in Groups \cup Roles \cup Perms : doc'[d] = doc[d]
         /\ \A v \in Users \ {u} : doc'[v] = doc[v]
BY NamesAssumption DEF TypeInv, DocTypes, Docs

\* What a request makes of the roles it has found
LEMMA GroupsTell ==
  ASSUME TypeInv, NEW s \in Slots, FindGroups(s), ~Finish(s), Tells(s), Empty
  PROVE  Tells(s)'
<1>1. PICK u \in Users : u = user[s]  BY DEF FindGroups, At, TypeInv, RequestTypes
<1>2. /\ pc[s] = "groups" /\ meta[s] = doc[u] /\ meta[s] # None
      /\ pending[s] = [r \in Roles |-> IF r \in meta[s] \cup {LoggedIn} THEN doc[r] ELSE None]
  BY <1>1 DEF Tells, FindGroups, At
<1> DEFINE rs == pending[s]
<1>3. /\ pc'[s] = (IF rs = NoRoles THEN "save" ELSE "role") /\ pending'[s] = rs
      /\ user'[s] = u /\ map'[s] = {} /\ doc' = doc /\ file' = file
  BY <1>1, <1>2 DEF FindGroups, Goto, TypeInv, RequestTypes, Empty, docVars
<1>4. \A r \in Roles : rs[r] = IF r \in RolesOf(u) THEN doc[r] ELSE None
  BY <1>2 DEF RolesOf, Of, There
<1>5. \A r \in RolesOf(u) : r \in Roles /\ doc[r] # None  BY DEF RolesOf, There
<1>6. rs = NoRoles <=> RolesOf(u) = {}
  <2>1. CASE RolesOf(u) = {}  BY <1>2, <1>4, <2>1 DEF NoRoles
  <2>2. CASE RolesOf(u) # {}
    <3>1. PICK r \in RolesOf(u) : TRUE  BY <2>2
    <3>2. rs[r] # None /\ r \in Roles  BY <1>4, <1>5, <3>1
    <3>3. NoRoles[r] = None  BY <3>2 DEF NoRoles
    <3> QED BY <2>2, <3>2, <3>3
  <2> QED BY <2>1, <2>2
<1>10. Shared(Of(u)) = {}
  <2>1. Of(u) = meta[s]  BY <1>2 DEF Of, There
  <2>2. Shared(meta[s]) = {}  BY DEF FindGroups
  <2> QED BY <2>1, <2>2
<1>7. /\ Gained(u)' = Gained(u) /\ RolesOf(u)' = RolesOf(u) /\ Effective(u)' = Effective(u)
      /\ Shared(Of(u))' = Shared(Of(u)) /\ \A names : Allowed(names)' = Allowed(names)
  BY <1>3, Depends
<1>8. CASE rs = NoRoles
  <2>1. Effective(u) = {}  BY <1>6, <1>8 DEF Effective
  <2> QED BY <1>3, <1>7, <1>8, <2>1 DEF Tells
<1>9. CASE rs # NoRoles
  <2>1. Rest(s)' = UNION {Allowed(rs[r]) : r \in {q \in Roles : rs[q] # None}}
    BY <1>3, <1>7 DEF Rest
  <2>2. {q \in Roles : rs[q] # None} = RolesOf(u)  BY <1>4, <1>5
  <2>3. \A r \in RolesOf(u) : rs[r] = Of(r)  BY <1>4, <1>5 DEF Of, There
  <2>4. UNION {Allowed(rs[r]) : r \in RolesOf(u)} = UNION {Allowed(Of(r)) : r \in RolesOf(u)}
    BY <2>3
  <2>5. UNION {Allowed(Of(r)) : r \in RolesOf(u)} = Allowed(UNION {Of(r) : r \in RolesOf(u)})
    BY DEF Allowed
  <2>6. Rest(s)' = Gained(u)  BY <2>1, <2>2, <2>4, <2>5 DEF Gained
  <2> HIDE DEF rs
  <2> QED BY <1>3, <1>6, <1>7, <1>9, <1>10, <2>6 DEF Tells
<1> QED BY <1>8, <1>9

\* and of the permissions of the next one.
LEMMA PermsTell ==
  ASSUME TypeInv, NEW s \in Slots, FindPerms(s), Tells(s)
  PROVE  Tells(s)'
<1>1. PICK u \in Users : u = user[s]  BY DEF FindPerms, At, TypeInv, RequestTypes
<1>2. PICK r \in Roles : /\ pending[s][r] # None
                         /\ map' = [map EXCEPT ![s] = @ \cup Allowed(pending[s][r])]
                         /\ pending' = [pending EXCEPT ![s][r] = None]
  BY DEF FindPerms
<1>3. /\ pc[s] = "role" /\ pc'[s] = "world" /\ map'[s] = map[s] \cup Allowed(pending[s][r])
      /\ \A q \in Roles : pending'[s][q] = IF q = r THEN None ELSE pending[s][q]
      /\ user'[s] = u /\ doc' = doc /\ file' = file
  BY <1>1, <1>2 DEF FindPerms, At, Goto, TypeInv, RequestTypes, docVars
<1>4. /\ Gained(u)' = Gained(u) /\ RolesOf(u)' = RolesOf(u)
      /\ Shared(Of(u))' = Shared(Of(u)) /\ \A names : Allowed(names)' = Allowed(names)
  BY <1>3, Depends
<1>5. Rest(s) = Allowed(pending[s][r]) \cup Rest(s)'
  <2>1. {q \in Roles : pending[s][q] # None} = {r} \cup {q \in Roles : pending'[s][q] # None}
    BY <1>2, <1>3
  <2>2. \A q \in {q \in Roles : pending'[s][q] # None} : pending'[s][q] = pending[s][q]  BY <1>3
  <2>3. Rest(s)' = UNION {Allowed(pending[s][q]) : q \in {q \in Roles : pending'[s][q] # None}}
    BY <1>4, <2>2 DEF Rest
  <2> QED BY <2>1, <2>3 DEF Rest
<1> QED BY <1>1, <1>3, <1>4, <1>5 DEF Tells

\* With the last role the answer is all there.
LEMMA WorldTells ==
  ASSUME TypeInv, NEW s \in Slots, LoadWorld(s), ~Finish(s), Tells(s)
  PROVE  Tells(s)'
<1>1. PICK u \in Users : u = user[s]  BY DEF LoadWorld, At, TypeInv, RequestTypes
<1>2. /\ pc[s] = "world" /\ file[World] # None /\ map'[s] = map[s] \cup file[World]
      /\ pc'[s] = (IF pending[s] = NoRoles THEN "save" ELSE "role")
      /\ pending' = pending /\ user'[s] = u /\ doc' = doc /\ file' = file
  BY <1>1 DEF LoadWorld, At, Goto, TypeInv, RequestTypes, docVars
<1>3. /\ Gained(u)' = Gained(u) /\ RolesOf(u)' = RolesOf(u) /\ Effective(u)' = Effective(u)
      /\ Shared(Of(u))' = Shared(Of(u)) /\ \A names : Allowed(names)' = Allowed(names)
  BY <1>2, Depends
<1>4. RolesOf(u) # {} /\ Shared(Of(u)) = {} /\ map[s] \cup Rest(s) \cup file[World] = Gained(u) \cup file[World]
  BY <1>1, <1>2 DEF Tells
<1>5. Rest(s)' = Rest(s)  BY <1>2, <1>3 DEF Rest
<1>6. CASE pending[s] = NoRoles
  <2>1. Rest(s) = {}  BY <1>6 DEF Rest, NoRoles
  <2>2. map'[s] = Effective(u)  BY <1>2, <1>4, <2>1 DEF Effective
  <2> QED BY <1>2, <1>3, <1>6, <2>2 DEF Tells
<1>7. CASE pending[s] # NoRoles
  BY <1>2, <1>3, <1>4, <1>5, <1>7 DEF Tells
<1> QED BY <1>6, <1>7

\* A request's own steps
LEMMA StepTells ==
  ASSUME TypeInv, Empty, NEW s \in Slots, Step(s), ~Finish(s), user[s] \notin late', Tells(s)
  PROVE  Tells(s)'
<1>2. CASE LoadUser(s)
  <2>1. PICK u \in Users : u = user[s]  BY <1>2 DEF LoadUser, At, TypeInv, RequestTypes
  <2> DEFINE m == IF There(u) THEN doc[u] ELSE file[u]
  <2>2. /\ m # None /\ meta'[s] = m /\ user'[s] = u /\ UNCHANGED <<doc, file>>
        /\ pc'[s] = IF There(u) THEN "roles" ELSE "save_user"
    BY <1>2, <2>1 DEF LoadUser, Goto, TypeInv, RequestTypes, docVars
  <2> QED BY <2>2 DEF Tells, There
<1>3. CASE SaveUser(s)
  <2>1. PICK u \in Users : u = user[s]  BY <1>3 DEF SaveUser, At, TypeInv, RequestTypes
  <2>2. /\ pc[s] = "save_user" /\ pc'[s] = "roles" /\ meta' = meta /\ user'[s] = u
        /\ doc' = [doc EXCEPT ![u] = meta[s]]
    BY <1>3, <2>1 DEF SaveUser, At, Goto, TypeInv, RequestTypes
  <2>3. doc'[u] = meta[s] /\ meta[s] # None  BY <2>2 DEF TypeInv, DocTypes, Tells, Docs
  <2> QED BY <2>2, <2>3 DEF Tells
<1>4. CASE FindRoles(s)
  <2>1. PICK u \in Users : u = user[s]  BY <1>4 DEF FindRoles, At, TypeInv, RequestTypes
  <2>2. /\ pc[s] = "roles" /\ pc'[s] = "groups" /\ meta' = meta /\ user'[s] = u /\ doc' = doc
        /\ pending'[s] = [r \in Roles |-> IF r \in meta[s] \cup {LoggedIn} THEN doc[r] ELSE None]
    BY <1>4, <2>1 DEF FindRoles, At, Goto, TypeInv, RequestTypes, docVars
  <2> QED BY <2>1, <2>2 DEF Tells
<1>5. CASE FindGroups(s)  BY <1>5, GroupsTell
<1>6. CASE FindPerms(s)  BY <1>6, PermsTell
<1>7. CASE LoadWorld(s)  BY <1>7, WorldTells
<1> QED BY <1>2, <1>3, <1>4, <1>5, <1>6, <1>7 DEF Step, SaveMap

\* Steps that touch neither documents nor requests
LEMMA SameReading ==
  ASSUME TypeInv, Reading, UNCHANGED <<doc, file, made, target, reqVars>>, late \subseteq late'
  PROVE  Reading'
<1>1. \A s \in Slots : Stale(s)' <=> Stale(s)  BY DEF Stale, reqVars
<1>2. ASSUME NEW s \in Slots, pc[s] # "idle", Tells(s) PROVE Tells(s)'
  BY <1>2, TellsSame DEF TypeInv, RequestTypes, reqVars
<1> QED BY <1>1, <1>2 DEF Reading, reqVars

\* A change that is not in the index is one that no request may count on.
LEMMA WorkingStale ==
  ASSUME TypeInv, NEW c \in 1..made, index[c] # "done", NEW s \in Slots
  PROVE  Stale(s)
BY DEF TypeInv, TaskInv, Indexed, Stale

\* Every step leaves each request with what the documents say so far.
LEMMA NextReading == TypeInv /\ Coming /\ Empty /\ Reading /\ [Next]_vars => Reading'
<1> SUFFICES ASSUME TypeInv, Coming, Empty, Reading, [Next]_vars PROVE Reading'  OBVIOUS
<1>1. CASE UNCHANGED vars  BY <1>1, SameReading DEF vars, docVars, hookVars
<1>2. ASSUME NEW d \in Docs, Change(d) \/ RefusedDelete(d) PROVE Reading'
  <2>1. PICK n : n = made + 1  OBVIOUS
  <2>2. n \in Changes \ (1..made) /\ n \in 1..made'
    BY <1>2, <2>1, NextChange DEF Change, RefusedDelete, Announce
  <2>3. target'[n] = d /\ reqVars' = reqVars
    BY <1>2, <2>1, <2>2 DEF Change, RefusedDelete, Announce, TypeInv, TaskTypes
  <2>4. \A s \in Slots : n \notin seen'[s]  BY <2>2, <2>3 DEF TypeInv, TaskInv, Indexed, reqVars
  <2> QED BY <2>2, <2>3, <2>4 DEF Reading, Stale
<1>3. ASSUME Reload PROVE Reading'
  <2>1. 1..made' = 1..made \cup {made + 1} /\ UNCHANGED <<doc, file, target, reqVars, late>>
    BY <1>3, NextChange DEF Reload, docVars
  <2>2. ASSUME NEW s \in Slots, ~Stale(s)' PROVE ~Stale(s)  BY <2>1, <2>2 DEF Stale, reqVars
  <2>3. ASSUME NEW s \in Slots, pc[s] # "idle", Tells(s) PROVE Tells(s)'
    BY <2>1, <2>3, TellsSame DEF TypeInv, RequestTypes, reqVars
  <2> QED BY <2>1, <2>2, <2>3 DEF Reading, reqVars
<1>4. ASSUME NEW c \in Changes, Load(c) \/ Save(c) PROVE Reading'
  <2>1. c \in 1..made /\ index[c] # "done" /\ UNCHANGED <<made, target, reqVars>>
    BY <1>4 DEF Load, Save, TypeInv, TaskInv
  <2>2. \A s \in Slots : Stale(s)'  BY <2>1, WorkingStale DEF Stale, reqVars
  <2> QED BY <2>2 DEF Reading
<1>5. ASSUME NEW c \in Changes, Scan(c) \/ Search(c) \/ Del(c) PROVE Reading'
  BY <1>5, TaskReach, SameReading DEF docVars
<1>6. ASSUME NEW s \in Slots, Ask(s) PROVE Reading'
  <2>1. Aside /\ UNCHANGED <<doc, file, made, target, late>>  BY <1>6, RequestKeeps DEF Ask, docVars, Aside, hookVars, backVars
  <2>2. pc'[s] = "user" /\ \A o \in Slots \ {s} : pc'[o] = pc[o] /\ user'[o] = user[o] /\ seen'[o] = seen[o]
    BY <1>6 DEF Ask, Goto, TypeInv, RequestTypes
  <2>3. Tells(s)'  BY <2>2 DEF Tells
  <2>4. ASSUME NEW o \in Slots \ {s}, pc[o] # "idle", Tells(o) PROVE Tells(o)'
    BY <1>6, <2>1, <2>2, <2>4, TellsSame DEF TypeInv, RequestTypes, Ask
  <2>5. \A o \in Slots \ {s} : Stale(o)' <=> Stale(o)  BY <2>1, <2>2 DEF Stale
  <2> QED BY <2>1, <2>2, <2>3, <2>4, <2>5 DEF Reading
<1>7. ASSUME NEW s \in Slots, Step(s) PROVE Reading'
  <2>1. Aside /\ UNCHANGED <<file, made, target>>  BY <1>7, RequestKeeps DEF Aside, hookVars, backVars
  <2>2. /\ late \subseteq late'
        /\ \A o \in Slots \ {s} : /\ pc'[o] = pc[o] /\ user'[o] = user[o] /\ meta'[o] = meta[o]
                                 /\ pending'[o] = pending[o] /\ map'[o] = map[o] /\ seen'[o] = seen[o]
    BY <1>7 DEF Step, Goto, Finish, LoadUser, SaveUser, FindRoles, FindGroups, FindPerms, LoadWorld, SaveMap,
       TypeInv, RequestTypes
  <2> SUFFICES ASSUME NEW o \in Slots, pc'[o] # "idle", user'[o] \notin late', ~Stale(o)' PROVE Tells(o)'
    BY DEF Reading
  <2>3. CASE o = s
    <3>1. ~Finish(s)  BY <2>3 DEF Finish, Goto, TypeInv, RequestTypes
    <3>2. pc[s] # "idle" /\ user'[s] = user[s] /\ seen' = seen
      BY <1>7, <3>1 DEF Step, At, LoadUser, SaveUser, FindRoles, FindGroups, FindPerms, LoadWorld, SaveMap
    <3>3. ~Stale(s)  BY <2>1, <2>3, <3>2 DEF Stale
    <3> QED BY <1>7, <2>2, <2>3, <3>1, <3>2, <3>3, StepTells DEF Reading
  <2>4. CASE o # s
    <3>1. ~Stale(o)  BY <2>1, <2>2, <2>4 DEF Stale
    <3>2. pc[o] # "idle" /\ user[o] \notin late /\ Tells(o) /\ user[o] \in Users
      BY <2>2, <2>4, <3>1 DEF Reading, TypeInv, RequestTypes
    <3>3. CASE ~SaveUser(s)
      <4>1. doc' = doc
        BY <1>7, <3>3 DEF Step, docVars, LoadUser, FindRoles, FindGroups, FindPerms, LoadWorld, SaveMap
      <4> QED BY <2>1, <2>2, <2>4, <3>2, <4>1, TellsSame
    <3>4. CASE SaveUser(s) /\ doc' = doc
      BY <2>1, <2>2, <2>4, <3>2, <3>4, TellsSame
    <3>7. ASSUME SaveUser(s) PROVE user[s] \in Users /\ doc' = [doc EXCEPT ![user[s]] = meta[s]]
      BY <3>7 DEF SaveUser, At, TypeInv, RequestTypes
    <3>5. CASE SaveUser(s) /\ user[o] # user[s]
      BY <2>1, <2>2, <2>4, <3>2, <3>5, <3>7, OnlyTheUser, TellsSame
    <3>6. CASE SaveUser(s) /\ user[o] = user[s] /\ doc' # doc
      <4>1. user[s] \notin late' /\ user[s] \notin late  BY <2>2, <2>4, <3>6
      <4>3. meta[s] = file[user[s]]  BY <3>6, <4>1 DEF SaveUser
      <4>2. PICK c \in 1..made : index[c] # "done"  BY <3>6, <3>7, <4>1, <4>3, UserSaved
      <4> QED BY <3>1, <4>2, WorkingStale
    <3> QED BY <3>3, <3>4, <3>5, <3>6
  <2> QED BY <2>3, <2>4
<1>8. ASSUME NEW u \in Users, Take(u) \/ WriteBack(u) \/ SaveBack(u) \/ Register(u) PROVE Reading'
  <2>1. UNCHANGED <<made, target, index, reqVars>> /\ late \subseteq late'
    BY <1>8 DEF Take, WriteBack, SaveBack, Register, hookVars
  <2> SUFFICES ASSUME NEW s \in Slots, pc[s] # "idle", user[s] \notin late', ~Stale(s) PROVE Tells(s)'
    BY <2>1 DEF Reading, Stale, reqVars
  <2>2. Tells(s) /\ user[s] \in Users /\ user[s] \notin late
    BY <2>1 DEF Reading, TypeInv, RequestTypes
  <2>3. file'[user[s]] = file[user[s]] /\ file'[World] = file[World]
    <3>1. World # u  BY NamesAssumption
    <3>2. World \in Docs /\ user[s] \in Docs  BY <2>2, NamesAssumption DEF Docs
    <3>3. file' = file \/ (u \in late' /\ \A d \in Docs \ {u} : file'[d] = file[d])
      BY <1>8 DEF Take, WriteBack, SaveBack, Register, docVars, TypeInv, DocTypes
    <3> QED BY <3>1, <3>2, <3>3
  <2>4. CASE doc' = doc
    BY <2>1, <2>2, <2>3, <2>4, TellsSame DEF reqVars
  <2>5. CASE doc' # doc
    <3>1. SaveBack(u) /\ doc' = [doc EXCEPT ![u] = copy[u]]
      BY <1>8, <2>5 DEF Take, WriteBack, SaveBack, Register, docVars
    <3>2. CASE user[s] # u
      BY <2>1, <2>2, <2>3, <3>1, <3>2, OnlyTheUser, TellsSame DEF reqVars
    <3>3. CASE user[s] = u
      <4>1. copy[u] = file[u]  BY <3>1, <3>3 DEF SaveBack
      <4>2. PICK c \in 1..made : index[c] # "done"  BY <2>2, <2>5, <3>1, <3>3, <4>1, UserSaved
      <4> QED BY <4>2, WorkingStale
    <3> QED BY <3>2, <3>3
  <2> QED BY <2>4, <2>5
<1> QED BY <1>1, <1>2, <1>3, <1>4, <1>5, <1>6, <1>7, <1>8 DEF Next

\* Every step leaves a cached answer fresh or doomed.
LEMMA NextFresh == TypeInv /\ Coming /\ CacheInv /\ [Next]_vars => FreshOrDoomed'
<1> SUFFICES ASSUME TypeInv, Coming, CacheInv, [Next]_vars,
                    NEW u \in Cached' \ (excused' \cup late')
             PROVE  Doomed(u)' \/ cache'[u] = Effective(u)'
  BY DEF FreshOrDoomed
<1>0. u \in Users /\ 1..made \subseteq Changes  BY BoundAssumption DEF Cached, TypeInv, TaskTypes, Changes
<1>1. ASSUME UNCHANGED <<doc, file, made, target>>, cache'[u] = cache[u],
             u \in Cached \ (excused \cup late), \A e \in 1..made : Reaches(e, u) => Reaches(e, u)'
      PROVE  Doomed(u)' \/ cache'[u] = Effective(u)'
  <2>1. Doomed(u) => Doomed(u)'  BY <1>1 DEF Doomed
  <2>2. Effective(u)' = Effective(u)  BY <1>0, <1>1, Depends
  <2> QED BY <1>1, <2>1, <2>2 DEF CacheInv, FreshOrDoomed
<1>2. CASE UNCHANGED vars
  <2>1. UNCHANGED <<doc, file, made, target, cache, excused, late, inval, keys>>
    BY <1>2 DEF vars, docVars, hookVars
  <2> QED BY <1>1, <2>1 DEF Cached, Reaches
<1>3. ASSUME NEW d \in Docs, Change(d) \/ RefusedDelete(d) PROVE Doomed(u)'
  <2>1. PICK n : n = made + 1  OBVIOUS
  <2>2. /\ made + rewrites < MaxChanges /\ made' = n /\ inval' = [inval EXCEPT ![n] = "scan"]
        /\ keys' = keys /\ target' = [target EXCEPT ![n] = d]
    BY <1>3, <2>1 DEF Change, RefusedDelete, Announce
  <2>3. n \in 1..made' /\ n \in Changes /\ Reaches(n, u)'  BY <2>1, <2>2, BegunReach
  <2>4. target'[n] = d  BY <2>2, <2>3 DEF TypeInv, TaskTypes
  <2> QED BY <2>3, <2>4 DEF Doomed
<1>4. CASE Reload
  <2>1. PICK n : n = made + 1  OBVIOUS
  <2>2. /\ made + rewrites < MaxChanges /\ made' = n /\ inval' = [inval EXCEPT ![n] = "scan"]
        /\ UNCHANGED <<doc, file, target, keys, cache, excused, late>>
    BY <1>4, <2>1 DEF Reload, docVars
  <2>3. Doomed(u) => Doomed(u)'  BY <2>1, <2>2, BegunReach DEF Doomed
  <2>4. Effective(u)' = Effective(u)  BY <1>0, <2>2, Depends
  <2> QED BY <2>2, <2>3, <2>4 DEF CacheInv, FreshOrDoomed, Cached
<1>5. ASSUME NEW c \in Changes, Load(c) \/ Save(c) PROVE Doomed(u)'
  <2>1. /\ c \in 1..made /\ index[c] # "done" /\ target[c] \in Docs
        /\ UNCHANGED <<made, target, inval, keys, cache, excused>>
    BY <1>5 DEF Load, Save, TypeInv, TaskInv
  <2> QED BY <2>1 DEF CacheInv, Swept, Doomed, Reaches, Cached
<1>6. ASSUME NEW c \in Changes, Scan(c) \/ Search(c) \/ Del(c)
      PROVE  Doomed(u)' \/ cache'[u] = Effective(u)'
  BY <1>1, <1>6, TaskReach DEF docVars
<1>7. ASSUME NEW s \in Slots, SaveMap(s) PROVE Doomed(u)' \/ cache'[u] = Effective(u)'
  <2>1. /\ user[s] \in Users /\ cache' = [cache EXCEPT ![user[s]] = map[s]] /\ pc[s] = "save"
        /\ excused \subseteq excused' \cup {user[s]}
        /\ UNCHANGED <<doc, file, made, target, inval, keys, late>>
    BY <1>7 DEF SaveMap, At, TypeInv, RequestTypes, docVars, Kept, hookVars
  <2>2. \A e \in 1..made : Reaches(e, u)' <=> Reaches(e, u)  BY <2>1 DEF Reaches
  <2>3. CASE u # user[s]
    BY <1>1, <2>1, <2>2, <2>3 DEF Cached, TypeInv, AnswerTypes
  <2>4. CASE u = user[s] /\ ~Stale(s)
    <3>1. map[s] = Effective(u)  BY <2>1, <2>4 DEF CacheInv, Reading, Tells
    <3>2. Effective(u)' = Effective(u)  BY <1>0, <2>1, Depends
    <3> QED BY <2>1, <2>4, <3>1, <3>2 DEF TypeInv, AnswerTypes
  <2>5. CASE u = user[s] /\ Stale(s)
    <3>1. PICK c \in 1..made : target[c] \in Docs /\ c \notin seen[s]  BY <2>5 DEF Stale
    <3>2. Reaches(c, u)  BY <1>7, <2>5, <3>1, SavedReach DEF Reaches
    <3> QED BY <2>1, <2>2, <3>1, <3>2 DEF Doomed
  <2> QED BY <2>3, <2>4, <2>5
<1>8. ASSUME NEW v \in Users, NEW m, doc' = [doc EXCEPT ![v] = m], v \in late' \/ m = file[v],
             file'[World] = file[World],
             UNCHANGED <<made, target, index, inval, keys, cache, excused>>, late \subseteq late'
      PROVE  Doomed(u)' \/ cache'[u] = Effective(u)'
  <2>2. \A e \in 1..made : Reaches(e, u)' <=> Reaches(e, u)  BY <1>8 DEF Reaches
  <2>3. u \in Cached \ (excused \cup late)  BY <1>8 DEF Cached
  <2>4. CASE doc'[u] = doc[u]
    <3>1. Effective(u)' = Effective(u)  BY <1>0, <1>8, <2>4, OnlyTheUser, Depends
    <3> QED BY <1>8, <2>2, <2>3, <3>1 DEF CacheInv, FreshOrDoomed, Doomed
  <2>6. CASE doc'[u] # doc[u]
    <3>1. u = v  BY <1>0, <1>8, <2>6, OnlyTheUser
    <3>2. m = file[v] /\ v \notin late  BY <1>8, <2>3, <3>1
    <3>3. PICK c \in 1..made : target[c] = v /\ index[c] # "done"  BY <1>8, <2>6, <3>2, UserSaved
    <3>4. target[c] \in Docs /\ Reaches(c, u)  BY <1>0, <2>3, <3>1, <3>3 DEF CacheInv, Swept, Docs
    <3> QED BY <1>8, <2>2, <3>4 DEF Doomed
  <2> QED BY <2>4, <2>6
<1>10. ASSUME NEW s \in Slots, SaveUser(s) PROVE Doomed(u)' \/ cache'[u] = Effective(u)'
  <2>1. /\ UNCHANGED <<file, made, target, index, inval, keys, cache, excused>> /\ late \subseteq late'
        /\ user[s] \in Users /\ doc' = [doc EXCEPT ![user[s]] = meta[s]]
        /\ user[s] \in late' \/ meta[s] = file[user[s]]
    BY <1>10 DEF SaveUser, Kept, hookVars, At, TypeInv, RequestTypes
  <2> QED BY <1>8, <2>1
<1>11. ASSUME NEW v \in Users, Take(v) \/ WriteBack(v) \/ SaveBack(v) \/ Register(v)
       PROVE  Doomed(u)' \/ cache'[u] = Effective(u)'
  <2>1. UNCHANGED <<made, target, index, inval, keys, cache, excused>> /\ late \subseteq late'
    BY <1>11 DEF Take, WriteBack, SaveBack, Register, hookVars
  <2>2. file'[World] = file[World]
    BY <1>11, NamesAssumption DEF Take, WriteBack, SaveBack, Register, docVars, TypeInv, DocTypes, Docs
  <2>3. CASE SaveBack(v)
    <3>1. doc' = [doc EXCEPT ![v] = copy[v]] /\ (v \in late' \/ copy[v] = file[v])  BY <2>3 DEF SaveBack
    <3> QED BY <1>8, <2>1, <2>2, <3>1
  <2>4. CASE doc' = doc
    <3>1. Effective(u)' = Effective(u)  BY <1>0, <2>2, <2>4, Depends
    <3>2. u \in Cached \ (excused \cup late)  BY <2>1 DEF Cached
    <3> QED BY <2>1, <3>1, <3>2 DEF CacheInv, FreshOrDoomed, Doomed, Reaches
  <2> QED BY <1>11, <2>3, <2>4 DEF Take, WriteBack, Register, docVars
<1>9. ASSUME NEW s \in Slots, Ask(s) \/ Step(s), ~SaveMap(s), ~SaveUser(s)
      PROVE  Doomed(u)' \/ cache'[u] = Effective(u)'
  <2>1. UNCHANGED <<doc, file, made, target, inval, keys, cache, excused, late>>
    BY <1>9, RequestKeeps
    DEF Aside, hookVars, backVars, docVars, Ask, Step, LoadUser, FindRoles, FindGroups, FindPerms, LoadWorld
  <2> QED BY <1>1, <2>1 DEF Cached, Reaches
<1> QED BY <1>2, <1>3, <1>4, <1>5, <1>6, <1>7, <1>9, <1>10, <1>11 DEF Next

\* When the tasks of all changes have ended, what the cache says a user may do is what the
\* documents say, and nothing of a user with a role from a group, but for the users who are
\* excused and those whose own file or document was written outside of any change.
THEOREM CacheFreshAlways == Spec => []CacheFresh
<1>1. TypeInv /\ CacheInv => CacheFresh
  <2> SUFFICES ASSUME TypeInv, CacheInv, Settled(Docs), NEW u \in Cached \ (excused \cup late)
               PROVE  cache[u] = Effective(u)
    BY DEF CacheFresh
  <2>1. ~Doomed(u)  BY DEF Settled, Doomed, Reaches
  <2> QED BY <2>1 DEF CacheInv, FreshOrDoomed
<1>2. TypeInv /\ Coming /\ CacheInv /\ [Next]_vars => CacheInv'
  BY NextSwept, NextEmpty, NextReading, NextFresh DEF CacheInv
<1> QED BY <1>1, <1>2, InitTypeInv, NextTypeInv, InitComing, NextComing, InitCacheInv, PTL DEF Spec

\* A set of numbers that is not empty has a smallest.
LEMMA Smallest ==
  ASSUME NEW P \in SUBSET Nat, P # {}
  PROVE  \E i \in P : \A j \in P : i <= j
<1> DEFINE R == OpToRel(<, Nat)
<1>1. IsWellFoundedOn(R, Nat)  BY NatLessThanWellFounded
<1>2. \A x, y \in Nat : x < y => <<x, y>> \in R  BY DEF OpToRel
<1> HIDE DEF R
<1>3. PICK i \in P : \A j \in P : ~(<<j, i>> \in R)  BY <1>1, WFMin
<1>4. ASSUME NEW j \in P PROVE i <= j
  <2>1. i \in Nat /\ j \in Nat  OBVIOUS
  <2>2. ~(j < i)  BY <1>2, <1>3, <2>1
  <2> QED BY <2>1, <2>2
<1> QED BY <1>4
(***************************************************************************)
(* What permissions come to                                                *)
(***************************************************************************)
Asked(k) == UNION {Catalog[p].conditions : p \in Listing(k)}

\* The permissions that list key k share no key with the others of the user.
Separate(k) ==
  \A p \in Listing(k) : \A o \in Range(chosen) \ Listing(k) : KeysOf(p) \cap KeysOf(o) = {}

\* r gives no more than the permissions that list k, and asks for no more.
Within(r, k) == r.actions \subseteq Listed(k) /\ r.conditions \subseteq Asked(k)

RuleTypes ==
  /\ backend \in {"file", "sql"}
  /\ chosen \in Seq(DOMAIN Catalog) /\ Len(chosen) \in 1..MaxChosen
  /\ at \in 1..(Len(chosen) + 1)
  /\ left \subseteq IF Ready THEN {} ELSE KeysOf(chosen[at])
  /\ live \in Lives
  /\ \A k \in DOMAIN granted :
       granted[k] \in [actions : SUBSET Actions, conditions : SUBSET Conditions, from : Listing(k)]

\* What was put into the map is there, and the object that is being put has kept its own.
AtLeast ==
  /\ ~Ready => Own(chosen[at]).actions \subseteq live.actions /\ Own(chosen[at]).conditions \subseteq live.conditions
  /\ \A i \in 1..Len(chosen) : \A k \in KeysOf(chosen[i]) :
       i < at \/ (i = at /\ k \notin left) =>
         /\ k \in DOMAIN granted
         /\ Catalog[chosen[i]].actions \subseteq granted[k].actions
         /\ Catalog[chosen[i]].conditions \subseteq granted[k].conditions

\* There is no more in it with SQL.  With files the object picks up what the map has for its
\* keys, and that is of permissions that share a key with it.
AtMost ==
  /\ backend = "sql" =>
       /\ ~Ready => live = Own(chosen[at])
       /\ \A k \in DOMAIN granted : Within(granted[k], k)
  /\ \A k : Separate(k) =>
       /\ ~Ready /\ chosen[at] \in Listing(k) => Within(live, k)
       /\ \A p \in Listing(k) : \A j \in KeysOf(p) \cap DOMAIN granted : Within(granted[j], k)

RulesInv == RuleTypes /\ AtLeast /\ AtMost

\* The permission that is being put is one of the user's.
LEMMA TheOne ==
  ASSUME RuleTypes, ~Ready
  PROVE  /\ at \in 1..Len(chosen) /\ chosen[at] \in Range(chosen) /\ chosen[at] \in DOMAIN Catalog
         /\ Own(chosen[at]) \in Lives
         /\ \A k \in KeysOf(chosen[at]) : chosen[at] \in Listing(k) /\ Within(Own(chosen[at]), k)
<1>1. at \in 1..Len(chosen)
  BY DEF RuleTypes, Ready
<1>2. chosen[at] \in Range(chosen) /\ chosen[at] \in DOMAIN Catalog
  BY <1>1 DEF RuleTypes, Range
<1>3. Own(chosen[at]) \in Lives
  BY <1>2, CatalogAssumption DEF Own, Lives
<1>4. ASSUME NEW k \in KeysOf(chosen[at])
      PROVE  chosen[at] \in Listing(k) /\ Within(Own(chosen[at]), k)
  <2>1. chosen[at] \in Listing(k)
    BY <1>2 DEF Listing
  <2> QED BY <2>1 DEF Within, Listed, Asked, Own
<1> QED BY <1>1, <1>2, <1>3, <1>4

\* At first there is nothing in the map.
LEMMA InitRulesInv == RulesInit => RulesInv
<1> SUFFICES ASSUME RulesInit PROVE RulesInv
  OBVIOUS
<1>1. PICK n \in 1..MaxChosen : chosen \in [1..n -> DOMAIN Catalog]
  BY DEF RulesInit
<1>2. n \in Nat /\ n >= 1 /\ n <= MaxChosen
  BY <1>1, ChosenAssumption
<1>3. chosen \in Seq(DOMAIN Catalog) /\ Len(chosen) = n
  BY <1>1, <1>2, SeqDef
<1>4. at = 1 /\ ~Ready /\ left = KeysOf(chosen[at]) /\ live = Own(chosen[at]) /\ granted = <<>>
      /\ backend \in {"file", "sql"}
  BY <1>2, <1>3 DEF RulesInit, Ready
<1>5. DOMAIN granted = {}
  BY <1>4
<1>6. chosen[at] \in DOMAIN Catalog
  BY <1>1, <1>2, <1>4
<1>7. live \in Lives
  BY <1>4, <1>6, CatalogAssumption DEF Own, Lives
<1>8. RuleTypes
  BY <1>2, <1>3, <1>4, <1>5, <1>7, ChosenAssumption DEF RuleTypes
<1>9. AtLeast
  <2>1. \A i \in 1..Len(chosen) : ~(i < at)
    BY <1>4
  <2> QED BY <1>4, <2>1 DEF AtLeast
<1>10. AtMost
  <2>1. ASSUME NEW k, chosen[at] \in Listing(k)
        PROVE  Within(live, k)
    BY <1>4, <2>1 DEF Within, Listed, Asked, Own
  <2> QED BY <1>4, <1>5, <2>1 DEF AtMost
<1> QED BY <1>8, <1>9, <1>10 DEF RulesInv

\* What the map gets for key k
LEMMA MergedFacts ==
  ASSUME RuleTypes, NEW k
  PROVE  /\ Merged(k) \in Lives
         /\ live.actions \subseteq Merged(k).actions /\ live.conditions \subseteq Merged(k).conditions
         /\ k \in DOMAIN granted =>
              /\ granted[k].actions \subseteq Merged(k).actions
              /\ granted[k].conditions \subseteq Merged(k).conditions
              /\ \A j : Within(live, j) /\ Within(granted[k], j) => Within(Merged(k), j)
         /\ k \notin DOMAIN granted => Merged(k) = live
<1>1. live \in [actions : SUBSET Actions, conditions : SUBSET Conditions]
  BY DEF RuleTypes, Lives
<1>2. CASE k \in DOMAIN granted
  <2>1. granted[k] \in [actions : SUBSET Actions, conditions : SUBSET Conditions, from : Listing(k)]
    BY <1>2 DEF RuleTypes
  <2>2. Merged(k) = [actions |-> live.actions \cup granted[k].actions,
                     conditions |-> live.conditions \cup granted[k].conditions]
    BY <1>2 DEF Merged
  <2> QED BY <1>1, <1>2, <2>1, <2>2 DEF Lives, Within
<1>3. CASE k \notin DOMAIN granted
  <2>1. Merged(k) = live
    BY <1>3 DEF Merged
  <2> QED BY <1>1, <1>3, <2>1 DEF Lives
<1> QED BY <1>2, <1>3

\* A key is put.
LEMMA PutRulesInv ==
  ASSUME RulesInv, NEW k \in left, Put(k)
  PROVE  RulesInv'
<1> DEFINE p == chosen[at]
           r == Merged(k)
<1>1. /\ ~Ready /\ left' = left \ {k} /\ UNCHANGED <<backend, chosen, at>>
      /\ DOMAIN granted' = DOMAIN granted \cup {k}
      /\ granted'[k] = [actions |-> r.actions, conditions |-> r.conditions, from |-> p]
      /\ \A j \in DOMAIN granted : j # k => granted'[j] = granted[j]
      /\ live' = IF backend = "file" THEN r ELSE live
  BY DEF Put
<1>2. RuleTypes
  BY DEF RulesInv
<1>3. /\ k \in KeysOf(p) /\ p \in Range(chosen) /\ p \in Listing(k) /\ at \in 1..Len(chosen)
      /\ Within(Own(p), k)
  BY <1>1, <1>2, TheOne DEF RuleTypes
<1>4. /\ r \in Lives
      /\ live.actions \subseteq r.actions /\ live.conditions \subseteq r.conditions
      /\ k \in DOMAIN granted =>
           granted[k].actions \subseteq r.actions /\ granted[k].conditions \subseteq r.conditions
  BY <1>2, MergedFacts
<1>5. \A j : Listing(j)' = Listing(j) /\ Listed(j)' = Listed(j) /\ Asked(j)' = Asked(j)
             /\ (Separate(j)' <=> Separate(j))
  BY <1>1 DEF Listing, Listed, Asked, Separate
<1>6. Ready' = Ready
  BY <1>1 DEF Ready
<1>7. RuleTypes'
  <2>1. \A j \in DOMAIN granted' :
          granted'[j] \in [actions : SUBSET Actions, conditions : SUBSET Conditions, from : Listing(j)]
    <3> SUFFICES ASSUME NEW j \in DOMAIN granted'
                 PROVE  granted'[j] \in [actions : SUBSET Actions, conditions : SUBSET Conditions,
                                          from : Listing(j)]
      OBVIOUS
    <3>1. CASE j = k
      BY <1>1, <1>3, <1>4, <3>1 DEF Lives
    <3>2. CASE j # k
      BY <1>1, <1>2, <3>2 DEF RuleTypes
    <3> QED BY <3>1, <3>2
  <2>2. live' \in Lives
    BY <1>1, <1>2, <1>4 DEF RuleTypes
  <2>3. left' \subseteq KeysOf(chosen'[at'])
    BY <1>1, <1>2 DEF RuleTypes
  <2> QED BY <1>1, <1>2, <1>5, <1>6, <2>1, <2>2, <2>3 DEF RuleTypes
<1>8. AtLeast'
  <2>1. /\ Own(p).actions \subseteq live.actions /\ Own(p).conditions \subseteq live.conditions
    BY <1>1 DEF RulesInv, AtLeast
  <2>2. Own(p).actions \subseteq live'.actions /\ Own(p).conditions \subseteq live'.conditions
    BY <1>1, <1>4, <2>1
  <2>3. ASSUME NEW i \in 1..Len(chosen), NEW j \in KeysOf(chosen[i]), i < at \/ (i = at /\ j \notin left')
        PROVE  /\ j \in DOMAIN granted'
               /\ Catalog[chosen[i]].actions \subseteq granted'[j].actions
               /\ Catalog[chosen[i]].conditions \subseteq granted'[j].conditions
    <3>1. CASE i = at /\ j = k
      BY <1>1, <1>4, <2>1, <3>1 DEF Own
    <3>2. CASE ~(i = at /\ j = k)
      <4>1. i < at \/ (i = at /\ j \notin left)
        BY <1>1, <2>3, <3>2
      <4>2. /\ j \in DOMAIN granted
            /\ Catalog[chosen[i]].actions \subseteq granted[j].actions
            /\ Catalog[chosen[i]].conditions \subseteq granted[j].conditions
        BY <4>1 DEF RulesInv, AtLeast
      <4> QED BY <1>1, <1>4, <4>2
    <3> QED BY <3>1, <3>2
  <2> HIDE DEF r
  <2> QED BY <1>1, <1>6, <2>2, <2>3 DEF AtLeast, Own
<1>9. ASSUME NEW j, Separate(j), p \in Listing(j)
      PROVE  Within(r, j)
  <2>1. Within(live, j) /\ (k \in DOMAIN granted => Within(granted[k], j))
    BY <1>1, <1>3, <1>9 DEF RulesInv, AtMost
  <2> QED BY <1>2, <2>1, MergedFacts
<1>10. ASSUME backend = "sql"
       PROVE  /\ live' = Own(p)
              /\ \A j \in DOMAIN granted' : Within(granted'[j], j)
  <2>1. live = Own(p) /\ \A j \in DOMAIN granted : Within(granted[j], j)
    BY <1>1, <1>10 DEF RulesInv, AtMost
  <2>2. Within(r, k)
    BY <1>2, <1>3, <2>1, MergedFacts
  <2>3. Within(granted'[k], k)
    BY <1>1, <2>2 DEF Within
  <2> QED BY <1>1, <1>10, <2>1, <2>3
<1>11. ASSUME NEW j, Separate(j)
       PROVE  /\ p \in Listing(j) => Within(live', j)
              /\ \A o \in Listing(j) : \A i \in KeysOf(o) \cap DOMAIN granted' : Within(granted'[i], j)
  <2>1. p \in Listing(j) => Within(live', j)
    BY <1>1, <1>9, <1>11 DEF RulesInv, AtMost
  <2>2. ASSUME NEW o \in Listing(j), NEW i \in KeysOf(o) \cap DOMAIN granted'
        PROVE  Within(granted'[i], j)
    <3>1. CASE i # k
      BY <1>1, <1>11, <3>1 DEF RulesInv, AtMost
    <3>2. CASE i = k
      <4>1. p \in Listing(j)
        BY <1>3, <1>11, <3>2 DEF Separate
      <4>2. Within(r, j)
        BY <1>9, <1>11, <4>1
      <4> QED BY <1>1, <3>2, <4>2 DEF Within
    <3> QED BY <3>1, <3>2
  <2> QED BY <2>1, <2>2
<1>12. AtMost'
  BY <1>1, <1>5, <1>6, <1>10, <1>11 DEF AtMost, Within, Own
<1> QED BY <1>7, <1>8, <1>12 DEF RulesInv

\* The next permission's turn
LEMMA NextRulesInv ==
  ASSUME RulesInv, NextPermission
  PROVE  RulesInv'
<1>1. /\ ~Ready /\ left = {} /\ at' = at + 1 /\ UNCHANGED <<backend, chosen, granted>>
      /\ left' = (IF at < Len(chosen) THEN KeysOf(chosen[at + 1]) ELSE {})
      /\ live' = (IF at < Len(chosen) THEN Own(chosen[at + 1]) ELSE live)
  BY DEF NextPermission
<1>2. RuleTypes
  BY DEF RulesInv
<1>3. /\ at \in Nat /\ Len(chosen) \in Nat /\ at <= Len(chosen) /\ at >= 1
      /\ (Ready' <=> ~(at < Len(chosen)))
  BY <1>1, <1>2 DEF RuleTypes, Ready
<1>4. \A j : Listing(j)' = Listing(j) /\ Listed(j)' = Listed(j) /\ Asked(j)' = Asked(j)
             /\ (Separate(j)' <=> Separate(j))
  BY <1>1 DEF Listing, Listed, Asked, Separate
<1>5. ~Ready' => live' = Own(chosen[at']) /\ left' = KeysOf(chosen[at']) /\ chosen[at'] \in DOMAIN Catalog
  BY <1>1, <1>2, <1>3 DEF RuleTypes
<1>6. Ready' => live' = live /\ left' = {}
  BY <1>1, <1>3
<1>7. RuleTypes'
  <2>1. live' \in Lives
    <3>1. ~Ready' => Own(chosen[at']) \in Lives
      BY <1>5, CatalogAssumption DEF Own, Lives
    <3> QED BY <1>2, <1>5, <1>6, <3>1 DEF RuleTypes
  <2>2. left' \subseteq IF Ready' THEN {} ELSE KeysOf(chosen'[at'])
    BY <1>1, <1>5, <1>6
  <2>3. at' \in 1..(Len(chosen') + 1)
    BY <1>1, <1>3
  <2> QED BY <1>1, <1>2, <1>4, <2>1, <2>2, <2>3 DEF RuleTypes
<1>8. AtLeast'
  <2>1. ASSUME NEW i \in 1..Len(chosen), NEW k \in KeysOf(chosen[i]), i < at' \/ (i = at' /\ k \notin left')
        PROVE  /\ k \in DOMAIN granted
               /\ Catalog[chosen[i]].actions \subseteq granted[k].actions
               /\ Catalog[chosen[i]].conditions \subseteq granted[k].conditions
    <3>1. ~(i = at' /\ k \notin left')
      BY <1>1, <1>3, <1>5, <2>1
    <3>2. i < at \/ (i = at /\ k \notin left)
      BY <1>1, <1>3, <2>1, <3>1
    <3> QED BY <3>2 DEF RulesInv, AtLeast
  <2> QED BY <1>1, <1>5, <2>1 DEF AtLeast
<1>9. ASSUME NEW k, ~Ready', chosen[at'] \in Listing(k)
      PROVE  Within(live', k)
  <2>1. live' = Own(chosen[at'])
    BY <1>5, <1>9
  <2> QED BY <1>9, <2>1 DEF Within, Listed, Asked, Own
<1>10. AtMost'
  BY <1>1, <1>4, <1>5, <1>9 DEF RulesInv, AtMost, Within, Own
<1> QED BY <1>7, <1>8, <1>10 DEF RulesInv

\* Every step keeps it.
LEMMA StepRulesInv == RulesInv /\ [RulesNext]_rulesVars => RulesInv'
<1> SUFFICES ASSUME RulesInv, [RulesNext]_rulesVars PROVE RulesInv'
  OBVIOUS
<1>1. CASE UNCHANGED rulesVars
  BY <1>1 DEF rulesVars, RulesInv, RuleTypes, AtLeast, AtMost, Ready, Listing, Listed, Asked, Separate, Within, Own
<1>2. CASE NextPermission
  BY <1>2, NextRulesInv
<1>3. ASSUME NEW k \in left, Put(k) PROVE RulesInv'
  BY <1>3, PutRulesInv
<1> QED BY <1>1, <1>2, <1>3 DEF RulesNext

\* The types hold.
THEOREM RulesTypeCorrect == RulesSpec => []RulesTypeOK
<1>1. ASSUME RulesInv PROVE RulesTypeOK
  <2>1. RuleTypes
    BY <1>1 DEF RulesInv
  <2>2. at \in 1..(MaxChosen + 1) /\ Len(chosen) <= MaxChosen
    BY <2>1, ChosenAssumption DEF RuleTypes
  <2>3. left \subseteq AllKeys
    BY <2>1, TheOne DEF RuleTypes, AllKeys
  <2>4. ASSUME NEW k \in DOMAIN granted
        PROVE  /\ k \in AllKeys
               /\ [actions |-> granted[k].actions, conditions |-> granted[k].conditions] \in Lives
               /\ granted[k].from \in Range(chosen)
    <3>1. granted[k].from \in Listing(k)
      BY <2>1 DEF RuleTypes
    <3>2. granted[k].from \in Range(chosen) /\ k \in KeysOf(granted[k].from)
      BY <3>1 DEF Listing
    <3>3. granted[k].from \in DOMAIN Catalog
      BY <2>1, <3>2 DEF RuleTypes, Range
    <3>4. [actions |-> granted[k].actions, conditions |-> granted[k].conditions] \in Lives
      BY <2>1 DEF RuleTypes, Lives
    <3> QED BY <3>2, <3>3, <3>4 DEF AllKeys
  <2>5. DOMAIN granted \subseteq AllKeys
    BY <2>4
  <2> QED BY <2>1, <2>2, <2>3, <2>4, <2>5 DEF RulesTypeOK, RuleTypes
<1> QED BY <1>1, InitRulesInv, StepRulesInv, PTL DEF RulesSpec

\* The map that is ready has for a key what the permissions that list it have between them.
LEMMA ReadyMap ==
  ASSUME RulesInv, Ready, NEW k \in DOMAIN granted
  PROVE  /\ Listed(k) \subseteq granted[k].actions /\ Asked(k) \subseteq granted[k].conditions
         /\ backend = "sql" \/ Separate(k) => granted[k].actions = Listed(k) /\ granted[k].conditions = Asked(k)
<1>1. RuleTypes
  BY DEF RulesInv
<1>2. ASSUME NEW p \in Listing(k)
      PROVE  /\ Catalog[p].actions \subseteq granted[k].actions
             /\ Catalog[p].conditions \subseteq granted[k].conditions
  <2>1. PICK i \in 1..Len(chosen) : chosen[i] = p
    BY <1>1 DEF RuleTypes, Listing, Range
  <2>2. i < at /\ k \in KeysOf(chosen[i])
    BY <1>1, <2>1 DEF RuleTypes, Ready, Listing
  <2> QED BY <2>1, <2>2 DEF RulesInv, AtLeast
<1>3. Listed(k) \subseteq granted[k].actions /\ Asked(k) \subseteq granted[k].conditions
  BY <1>2 DEF Listed, Asked
<1>4. granted[k].from \in Listing(k) /\ k \in KeysOf(granted[k].from)
  BY <1>1 DEF RuleTypes, Listing
<1>5. backend = "sql" \/ Separate(k) => Within(granted[k], k)
  BY <1>4 DEF RulesInv, AtMost
<1> QED BY <1>3, <1>5 DEF Within

\* With the SQL backend the map has for each key the actions, and asks for the conditions, of
\* the permissions that list it; with files it does when these share no key with others.
THEOREM MapExactAlways == RulesSpec => []MapExact
<1>1. ASSUME RulesInv PROVE MapExact
  BY <1>1, ReadyMap DEF MapExact, Separate, Asked
<1> QED BY <1>1, InitRulesInv, StepRulesInv, PTL DEF RulesSpec

\* check_access asks for keys that cover the entry.
LEMMA AskedKeys ==
  ASSUME NEW d, NEW n \in 0..Len(Full(d))
  PROVE  LET path == Upto(Full(d), n)
         IN Covers(GlobalKey(d, path), d) /\ Covers(Key(d.space, Spelled(path), d.type), d)
BY DEF Covers, GlobalKey, Key

\* With the SQL backend check_access lets through only what a permission of the user covers
\* that lists the action, and all the permissions for that key have their conditions met.
THEOREM GrantsFoundedAlways == RulesSpec => []GrantsFounded
<1>1. ASSUME RulesInv PROVE GrantsFounded
  <2> SUFFICES ASSUME Ready, backend = "sql", NEW d \in Entries, NEW action \in Actions,
                      NEW attributes \in Requests, CheckAccess(d, action, attributes)
               PROVE  \E k \in DOMAIN granted :
                        /\ Covers(k, d)
                        /\ \E p \in Listing(k) : action \in Catalog[p].actions
                        /\ \E p \in Listing(k) : RestrictionsHold(p, action, attributes)
                        /\ action \in {"create", "query"}
                             \/ \A p \in Listing(k) : Catalog[p].conditions \subseteq Achieved(d)
    BY DEF GrantsFounded
  <2>1. \E k : Covers(k, d) /\ KeyGrants(k, d, action, attributes)
    BY AskedKeys DEF CheckAccess
  <2>2. PICK k : Covers(k, d) /\ KeyGrants(k, d, action, attributes)
    BY <2>1
  <2>3. k \in DOMAIN granted /\ action \in granted[k].actions
        /\ ConditionsHold(granted[k].conditions, d, action)
        /\ RestrictionsHold(granted[k].from, action, attributes)
    BY <2>2 DEF KeyGrants
  <2>4. granted[k].actions = Listed(k) /\ granted[k].conditions = Asked(k) /\ granted[k].from \in Listing(k)
    BY <1>1, <2>3, ReadyMap DEF RulesInv, RuleTypes
  <2>5. \E p \in Listing(k) : action \in Catalog[p].actions
    BY <2>3, <2>4 DEF Listed
  <2>6. action \in {"create", "query"} \/ \A p \in Listing(k) : Catalog[p].conditions \subseteq Achieved(d)
    BY <2>3, <2>4 DEF ConditionsHold, Asked
  <2> QED BY <2>2, <2>3, <2>4, <2>5, <2>6
<1> QED BY <1>1, InitRulesInv, StepRulesInv, PTL DEF RulesSpec

\* Sequences of one element each, put one after the other
LEMMA FlattenOnes ==
  ASSUME NEW S, NEW f \in Seq(S)
  PROVE  FlattenSeq([i \in DOMAIN f |-> <<f[i]>>]) = f
<1> DEFINE n == Len(f)
           ones == [i \in DOMAIN f |-> <<f[i]>>]
           Next1(g) == [i \in 1..n |-> IF i = 1 THEN ones[i] ELSE g[i - 1] \o ones[i]]
           fronts == [i \in 1..n |-> SubSeq(f, 1, i)]
<1>1. /\ n \in Nat /\ DOMAIN f = 1..n /\ ones \in Seq(Seq(S)) /\ Len(ones) = n
      /\ \A i \in 1..n : ones[i] = <<f[i]>>
  <2>1. n \in Nat /\ DOMAIN f = 1..n /\ \A i \in 1..n : f[i] \in S
    BY LenProperties
  <2>2. \A i \in 1..n : <<f[i]>> \in Seq(S)
    BY <2>1
  <2>3. ones \in [1..n -> Seq(S)]
    BY <2>1, <2>2
  <2>4. ones \in Seq(Seq(S))
    BY <2>1, <2>3, SeqDef
  <2>5. Len(ones) = n
    BY <2>1, <2>3, <2>4
  <2> QED BY <2>1, <2>4, <2>5
<1>2. CASE n = 0
  <2>1. ones = <<>> /\ f = <<>>
    BY <1>1, <1>2
  <2>2. FlattenSeq(ones) = ones
    BY <1>1, <1>2 DEF FlattenSeq
  <2> QED BY <2>1, <2>2
<1>3. CASE n # 0
  <2> DEFINE g == CHOOSE g : g = Next1(g)
  <2>1. FlattenSeq(ones) = g[n]
    BY <1>1, <1>3 DEF FlattenSeq
  <2>2. SubSeq(f, 1, 1) = <<f[1]>> /\ 1 \in 1..n
    <3>1. 1 \in 1..n /\ f[1] \in S
      BY <1>1, <1>3, ElementOfSeq
    <3>2. SubSeq(f, 1, 1) = SubSeq(f, 1, 0) \o <<f[1]>>
      <4>1. SubSeq(f, 1, 1) = SubSeq(f, 1, 1 - 1) \o <<f[1]>>
        BY <3>1, SubSeqRecursiveSecond
      <4>2. 1 - 1 = 0
        OBVIOUS
      <4> QED BY <4>1, <4>2, Zenon
    <3>3. SubSeq(f, 1, 0) = <<>>
      BY SubSeqEmpty
    <3>4. <<f[1]>> \in Seq(S)
      BY <3>1
    <3>5. <<>> \o <<f[1]>> = <<f[1]>>
      BY <3>4, ConcatEmptySeq
    <3> QED BY <3>1, <3>2, <3>3, <3>5, Zenon
  <2>3. fronts = Next1(fronts)
    <3>1. ASSUME NEW i \in 1..n
          PROVE  fronts[i] = IF i = 1 THEN ones[i] ELSE fronts[i - 1] \o ones[i]
      <4>1. CASE i = 1
        BY <1>1, <2>2, <4>1
      <4>2. CASE i # 1
        <5>1. i - 1 \in 1..n /\ fronts[i - 1] = SubSeq(f, 1, i - 1)
          BY <1>1, <4>2
        <5>2. SubSeq(f, 1, i) = SubSeq(f, 1, i - 1) \o <<f[i]>>
          BY <1>1, <1>3, <4>2, SubSeqRecursiveSecond
        <5> QED BY <1>1, <4>2, <5>1, <5>2
      <4> QED BY <4>1, <4>2
    <3> QED BY <3>1
  <2>4. g = Next1(g)
    BY <2>3
  <2> HIDE DEF g
  <2>5. /\ \A i \in 1..n : g[i] = IF i = 1 THEN ones[i] ELSE g[i - 1] \o ones[i]
        /\ \A i \in 1..n : fronts[i] = IF i = 1 THEN ones[i] ELSE fronts[i - 1] \o ones[i]
    BY <2>3, <2>4
  <2>6. fronts[n] = f
    BY <1>1, <1>3, SubSeqFull
  <2> HIDE DEF fronts, ones, n
  <2> DEFINE Bad == {i \in 1..n : g[i] # fronts[i]}
  <2>7. Bad = {}
    <3> SUFFICES ASSUME Bad # {} PROVE FALSE
      OBVIOUS
    <3>1. Bad \in SUBSET Nat
      BY <1>1
    <3>2. PICK i \in Bad : \A j \in Bad : i <= j
      BY <3>1, Smallest
    <3>3. i \in 1..n /\ i \in Nat /\ g[i] # fronts[i]
      BY <1>1, <3>2
    <3>4. CASE i = 1
      BY <2>5, <3>3, <3>4
    <3>5. CASE i # 1
      <4>1. i - 1 \in 1..n /\ ~(i <= i - 1)
        BY <1>1, <3>3, <3>5
      <4>2. g[i - 1] = fronts[i - 1]
        BY <3>2, <4>1
      <4> QED BY <2>5, <3>3, <3>5, <4>2
    <3> QED BY <3>4, <3>5
  <2>8. n \in 1..n
    BY <1>1, <1>3
  <2>9. g[n] = fronts[n]
    BY <2>7, <2>8
  <2> QED BY <2>1, <2>6, <2>9 DEF ones
<1> QED BY <1>2, <1>3

\* Keys and entries have paths of names, those of keys are not empty.
LEMMA Paths ==
  /\ RuleTypes => \A k \in DOMAIN granted : k.path \in Seq(STRING) /\ k.path # <<>>
  /\ \A d \in Entries : d.path \in Seq(STRING) /\ Full(d) \in Seq(STRING)
  /\ \A d \in Entries : \A q \in Queried(d) : q \in Seq(STRING)
<1>1. ASSUME RuleTypes, NEW k \in DOMAIN granted
      PROVE  k.path \in Seq(STRING) /\ k.path # <<>>
  <2>1. granted[k].from \in Listing(k)
    BY <1>1 DEF RuleTypes
  <2>2. PICK p \in DOMAIN Catalog : k \in KeysOf(p)
    BY <1>1, <2>1 DEF Listing, RuleTypes, Range
  <2>3. PICK j \in Catalog[p].keys : k = [j EXCEPT !.path = Trans(j.path)]
    BY <2>2 DEF KeysOf
  <2>4. j \in [space : STRING, path : Seq(STRING) \ {<<>>}, type : STRING]
    BY <2>3, CatalogAssumption
  <2>5. k.path = Trans(j.path) /\ j.path \in Seq(STRING) /\ j.path # <<>>
    BY <2>3, <2>4
  <2>6. DOMAIN j.path = 1..Len(j.path) /\ Len(j.path) \in Nat \ {0} /\ \A i \in 1..Len(j.path) : j.path[i] \in STRING
    BY <2>5, LenProperties, EmptySeq
  <2>7. Trans(j.path) \in [1..Len(j.path) -> STRING]
    BY <2>6, UserAssumption DEF Trans
  <2>8. Trans(j.path) \in Seq(STRING)
    BY <2>6, <2>7, SeqDef
  <2>9. Trans(j.path) # <<>>
    BY <2>6, <2>7
  <2> QED BY <2>5, <2>8, <2>9
<1>2. ASSUME NEW d \in Entries
      PROVE  d.path \in Seq(STRING) /\ Full(d) \in Seq(STRING)
  BY EntriesAssumption, AppendProperties DEF Full
<1>3. ASSUME NEW d \in Entries, NEW q \in Queried(d)
      PROVE  q \in Seq(STRING)
  <2>1. PICK n \in 0..Len(d.path) : q = SubSeq(d.path, 1, n)
    BY DEF Queried, Upto
  <2>2. \A i \in 1..n : d.path[i] \in STRING
    BY <1>2
  <2> QED BY <2>1, <2>2, SubSeqProperties
<1> QED BY <1>1, <1>2, <1>3

\* A path without the wildcard stands for itself.
LEMMA PlainPolicy ==
  ASSUME NEW path \in Seq(STRING), NEW q, AllSubpaths \notin Range(path)
  PROVE  PolicyPath(path, q) = path
<1>1. \A i \in DOMAIN path : path[i] # AllSubpaths
  BY DEF Range
<1>2. path # <<AllSubpaths>>
  <2> SUFFICES ASSUME path = <<AllSubpaths>> PROVE FALSE
    OBVIOUS
  <2>1. 1 \in DOMAIN path /\ path[1] = AllSubpaths
    OBVIOUS
  <2> QED BY <1>1, <2>1
<1>3. PolicyPath(path, q) = FlattenSeq([i \in DOMAIN path |-> <<path[i]>>])
  BY <1>1, <1>2 DEF PolicyPath
<1> QED BY <1>3, FlattenOnes

\* The wildcard in its place before the last stands for one part, if the query names no more.
LEMMA WildcardPolicy ==
  ASSUME NEW path \in Seq(STRING), NEW q \in Seq(STRING), Len(path) > 1, Len(q) <= 1,
         AllSubpaths \in Range(path), PlainWildcard(path)
  PROVE  Generic(PolicyPath(path, q)) = path
<1>1. PICK n \in Nat : n = Len(path) /\ n > 1 /\ DOMAIN path = 1..n
  BY LenProperties
<1>2. PICK part : (IF q = <<>> THEN <<"">> ELSE q) = <<part>>
  <2>1. CASE q = <<>>
    BY <2>1
  <2>2. CASE q # <<>>
    <3>1. PICK m \in Nat : m = Len(q) /\ m <= 1 /\ m # 0
      BY <2>2, EmptySeq, LenProperties
    <3>2. Len(q) = 1
      BY <3>1
    <3>3. q \in [1..1 -> STRING]
      BY <3>2, LenProperties
    <3>4. q[1] \in STRING /\ q = <<q[1]>>
      BY <3>2, <3>3
    <3> QED BY <2>2, <3>4
  <2> QED BY <2>1, <2>2
<1>3. PICK f : f = [i \in 1..n |-> IF path[i] # AllSubpaths THEN path[i] ELSE part]
  OBVIOUS
<1>4. DOMAIN f = 1..n /\ \A i \in 1..n : f[i] = IF path[i] # AllSubpaths THEN path[i] ELSE part
  BY <1>3
<1>5. f \in Seq(STRING \cup {part}) /\ Len(f) = n
  <2>1. \A i \in 1..n : path[i] \in STRING
    BY <1>1
  <2>2. f \in [1..n -> STRING \cup {part}]
    BY <1>3, <2>1
  <2>3. f \in Seq(STRING \cup {part})
    BY <1>1, <2>2, SeqDef
  <2> QED BY <1>1, <2>2, <2>3, LenProperties
<1>6. path # <<AllSubpaths>>
  <2>1. Len(<<AllSubpaths>>) = 1
    OBVIOUS
  <2> QED BY <1>1, <2>1
<1>7. PolicyPath(path, q) = FlattenSeq([i \in DOMAIN f |-> <<f[i]>>])
  <2>1. [i \in DOMAIN path |-> IF path[i] # AllSubpaths THEN <<path[i]>> ELSE <<part>>]
          = [i \in DOMAIN f |-> <<f[i]>>]
    BY <1>1, <1>4
  <2>2. PolicyPath(path, q) =
          FlattenSeq([i \in DOMAIN path |-> IF path[i] # AllSubpaths THEN <<path[i]>> ELSE <<part>>])
    BY <1>2, <1>6 DEF PolicyPath
  <2> QED BY <2>1, <2>2
<1>8. PolicyPath(path, q) = f
  BY <1>5, <1>7, FlattenOnes
<1>9. Generic(f) = [f EXCEPT ![n - 1] = AllSubpaths]
  <2>1. ~(Len(f) <= 1)
    BY <1>1, <1>5
  <2> QED BY <1>5, <2>1 DEF Generic
<1>10. PICK i \in 1..n : path[i] = AllSubpaths
  BY <1>1 DEF Range
<1>11. \A j \in 1..n : path[j] = AllSubpaths <=> j = n - 1
  <2>1. \A j \in 1..n : path[j] = AllSubpaths => j + 1 = n
    BY <1>1 DEF PlainWildcard
  <2>2. i = n - 1 /\ path[n - 1] = AllSubpaths
    BY <1>1, <1>10, <2>1
  <2> QED BY <1>1, <2>1, <2>2
<1>12. PICK g : g = [f EXCEPT ![n - 1] = AllSubpaths]
  OBVIOUS
<1>13. DOMAIN g = 1..n /\ \A j \in 1..n : g[j] = path[j]
  BY <1>1, <1>4, <1>11, <1>12
<1>14. path = [j \in 1..n |-> path[j]] /\ g = [j \in 1..n |-> g[j]]
  <2>1. path = [j \in 1..n |-> path[j]]
    BY <1>1, SeqDef
  <2>2. g = [j \in 1..n |-> g[j]]
    BY <1>4, <1>12
  <2> QED BY <2>1, <2>2
<1>15. g = path
  BY <1>13, <1>14
<1> QED BY <1>8, <1>9, <1>12, <1>15

\* What policies admit meets the conditions, when names of users and groups are apart.
LEMMA Admitted ==
  ASSUME NEW c \in SUBSET Conditions, NEW d, PolicyAdmits(c, d)
  PROVE  c \subseteq Achieved(d) \cup IF d.group = Ana \/ d.owner = Staff THEN {"own"} ELSE {}
BY DEF PolicyAdmits, Achieved, Conditions

\* A query shows an entry only if a permission covers it whose conditions it meets, but for
\* wildcards that stand for more in a query, and for users with the name of a group.
THEOREM QueriesFoundedAlways == RulesSpec => []QueriesFounded
<1>1. ASSUME RulesInv PROVE QueriesFounded
  <2> SUFFICES ASSUME Ready, NEW d \in Entries, NEW q \in Queried(d), NEW k \in DOMAIN granted,
                      PolicyPath(k.path, q) \in DocumentPaths(d), k.space \in {d.space, AllSpaces},
                      k.type = d.type, PolicyAdmits(granted[k].conditions, d)
               PROVE  /\ granted[k].conditions \subseteq
                           Achieved(d) \cup IF d.group = Ana \/ d.owner = Staff THEN {"own"} ELSE {}
                      /\ \/ Covers(k, d)
                         \/ /\ AllSubpaths \in Range(k.path) /\ Len(k.path) > 1
                            /\ Len(q) > 1 \/ ~PlainWildcard(k.path)
    BY DEF QueriesFounded, Hit
  <2>1. /\ k.path \in Seq(STRING) /\ k.path # <<>> /\ Full(d) \in Seq(STRING) /\ q \in Seq(STRING)
        /\ granted[k].conditions \in SUBSET Conditions
    BY <1>1, Paths DEF RulesInv, RuleTypes
  <2>2. PICK n \in 0..Len(Full(d)) : PolicyPath(k.path, q) = Upto(Full(d), n)
    BY DEF DocumentPaths
  <2>3. CASE k.path = <<AllSubpaths>>
    <3>1. Upto(Full(d), 0) = <<>>
      BY SubSeqEmpty DEF Upto
    <3>2. Generic(<<>>) = <<AllSubpaths>>
      BY DEF Generic
    <3>3. 0 \in 0..Len(Full(d))
      BY <2>1
    <3> QED BY <2>1, <2>3, <3>1, <3>2, <3>3, Admitted DEF Covers
  <2>4. CASE AllSubpaths \notin Range(k.path)
    <3>1. Spelled(Upto(Full(d), n)) = k.path
      BY <2>1, <2>2, <2>4, PlainPolicy DEF Spelled
    <3> QED BY <2>1, <3>1, Admitted DEF Covers
  <2>5. CASE AllSubpaths \in Range(k.path) /\ k.path # <<AllSubpaths>>
    <3>1. Len(k.path) > 1
      <4>1. PICK m \in Nat \ {0} : m = Len(k.path) /\ k.path \in [1..m -> STRING]
        BY <2>1, EmptySeq, LenProperties
      <4>2. m = 1 => k.path = <<AllSubpaths>>
        BY <2>5, <4>1 DEF Range
      <4>3. m # 1
        BY <2>5, <4>2
      <4>4. m > 1
        BY <4>3
      <4> QED BY <4>1, <4>4
    <3>2. CASE Len(q) > 1 \/ ~PlainWildcard(k.path)
      BY <2>1, <2>5, <3>1, <3>2, Admitted
    <3>3. CASE ~(Len(q) > 1) /\ PlainWildcard(k.path)
      <4>1. Generic(Upto(Full(d), n)) = k.path
        BY <2>1, <2>2, <2>5, <3>1, <3>3, WildcardPolicy
      <4> QED BY <2>1, <4>1, Admitted DEF Covers
    <3> QED BY <3>2, <3>3
  <2> QED BY <2>3, <2>4, <2>5
<1> QED BY <1>1, InitRulesInv, StepRulesInv, PTL DEF RulesSpec

\* The paths that check_access asks for with a wildcard in them do have one.
LEMMA GenericHasWildcard ==
  ASSUME NEW path \in Seq(STRING)
  PROVE  AllSubpaths \in Range(Generic(path))
<1>1. Len(path) \in Nat /\ DOMAIN path = 1..Len(path)
  BY LenProperties
<1>2. CASE Len(path) <= 1
  <2>1. Generic(path) = <<AllSubpaths>>
    BY <1>2 DEF Generic
  <2>2. 1 \in DOMAIN <<AllSubpaths>> /\ <<AllSubpaths>>[1] = AllSubpaths
    OBVIOUS
  <2> QED BY <2>1, <2>2 DEF Range
<1>3. CASE ~(Len(path) <= 1)
  <2>1. Generic(path) = [path EXCEPT ![Len(path) - 1] = AllSubpaths] /\ Len(path) - 1 \in DOMAIN path
    BY <1>1, <1>3 DEF Generic
  <2>2. Len(path) - 1 \in DOMAIN Generic(path) /\ Generic(path)[Len(path) - 1] = AllSubpaths
    BY <2>1
  <2> QED BY <2>2 DEF Range
<1> QED BY <1>2, <1>3

\* What a key lets a user view, a query of the entry's own subpath finds, but for keys of the
\* root or with a wildcard among other parts, and entries that are one's own by the group.
THEOREM QueriesCompleteAlways == RulesSpec => []QueriesComplete
<1>1. ASSUME RulesInv PROVE QueriesComplete
  <2> SUFFICES ASSUME Ready, NEW d \in Entries, NEW k \in DOMAIN granted,
                      KeyGrants(k, d, "view", <<>>), Covers(k, d),
                      k.path # Root, AllSubpaths \in Range(k.path) => Len(k.path) = 1,
                      ~(granted[k].conditions = {"own"} /\ d.active /\ d.owner # Ana)
               PROVE  Hit(d, d.path)
    BY DEF QueriesComplete
  <2>1. /\ k.path \in Seq(STRING) /\ k.path # <<>> /\ d.path \in Seq(STRING) /\ Full(d) \in Seq(STRING)
        /\ granted[k].conditions \in SUBSET Conditions
    BY <1>1, Paths DEF RulesInv, RuleTypes
  <2>2. granted[k].conditions \subseteq Achieved(d)
    BY DEF KeyGrants, ConditionsHold
  <2>3. PolicyAdmits(granted[k].conditions, d)
    BY <2>1, <2>2 DEF PolicyAdmits, Achieved, Conditions
  <2>4. PolicyPath(k.path, d.path) \in DocumentPaths(d)
    <3>1. CASE AllSubpaths \in Range(k.path)
      <4>1. k.path = <<AllSubpaths>>
        <5>1. k.path \in [1..1 -> STRING] /\ Len(k.path) = 1
          BY <2>1, <3>1, LenProperties
        <5> QED BY <3>1, <5>1 DEF Range
      <4>2. PolicyPath(k.path, d.path) = d.path
        BY <4>1 DEF PolicyPath
      <4>3. Len(d.path) \in 0..Len(Full(d)) /\ Upto(Full(d), Len(d.path)) = d.path
        <5>1. CASE Full(d) = d.path
          BY <2>1, <5>1, SubSeqFull DEF Upto
        <5>2. CASE Full(d) = Append(d.path, d.name)
          <6>1. d.name \in STRING
            BY EntriesAssumption
          <6>2. Len(Full(d)) = Len(d.path) + 1 /\ \A i \in 1..Len(d.path) : Full(d)[i] = d.path[i]
            BY <2>1, <5>2, <6>1, AppendProperties
          <6>3. /\ Len(d.path) \in Nat /\ SubSeq(Full(d), 1, Len(d.path)) \in Seq(STRING)
                /\ Len(SubSeq(Full(d), 1, Len(d.path))) = Len(d.path)
                /\ \A i \in 1..Len(d.path) : SubSeq(Full(d), 1, Len(d.path))[i] = d.path[i]
            BY <2>1, <6>2
          <6>4. SubSeq(Full(d), 1, Len(d.path)) = d.path
            BY <2>1, <6>3, SeqEqual
          <6> QED BY <6>2, <6>3, <6>4 DEF Upto
        <5> QED BY <5>1, <5>2 DEF Full
      <4> QED BY <4>2, <4>3 DEF DocumentPaths
    <3>2. CASE AllSubpaths \notin Range(k.path)
      <4>1. PolicyPath(k.path, d.path) = k.path
        BY <2>1, <3>2, PlainPolicy
      <4>2. PICK n \in 0..Len(Full(d)) : k.path \in {Spelled(Upto(Full(d), n)), Generic(Upto(Full(d), n))}
        BY DEF Covers
      <4>3. Upto(Full(d), n) \in Seq(STRING)
        <5>1. \A i \in 1..n : Full(d)[i] \in STRING
          BY <2>1
        <5> QED BY <5>1, SubSeqProperties DEF Upto
      <4>4. k.path = Spelled(Upto(Full(d), n))
        BY <3>2, <4>2, <4>3, GenericHasWildcard
      <4>5. k.path = Upto(Full(d), n)
        BY <4>4 DEF Spelled
      <4> QED BY <4>1, <4>5 DEF DocumentPaths
    <3> QED BY <3>1, <3>2
  <2>5. k.space \in {d.space, AllSpaces} /\ k.type = d.type
    BY DEF Covers
  <2> QED BY <2>3, <2>4, <2>5 DEF Hit
<1> QED BY <1>1, InitRulesInv, StepRulesInv, PTL DEF RulesSpec
=============================================================================
