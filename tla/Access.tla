-------------------------------- MODULE Access --------------------------------
(***************************************************************************)
(* The cache of permissions.  What a user may do follows from documents in *)
(* the index: the user names roles and groups, a group roles, a role       *)
(* permissions.  The answer is put together over many awaits and kept in   *)
(* Redis, users_permissions_<user>, without a TTL.  A change of a user,    *)
(* role, group or permission starts two tasks at once: redis_db_update     *)
(* brings the changed document to the index, update_access_controls throws *)
(* the cached answers away -- those that one page of a search returns.     *)
(* A login, a logout and a password reset write a user's file back as they *)
(* have read it before, and start no task.                                 *)
(***************************************************************************)
EXTENDS Naturals, FiniteSets, Sequences, Functions

CONSTANTS
  Users, Groups, Roles, Perms,
  Contents,    \* what the file of each of them may say: functions
               \* to sequences of sets of names, the first being what it says at first
  None,        \* no file, no document
  PageSize,    \* how many keys a search returns that asks for no number: 10
  Slots,       \* requests in flight
  Refusable,   \* bound: what the database may refuse to delete
  MaxChanges, MaxChecks  \* bounds on changes with files written back, and on requests

LoggedIn == "logged_in"   \* the role everybody has
World == "world"          \* the permission added to every role
Docs == Users \cup Groups \cup Roles \cup Perms

ASSUME NamesAssumption ==
  /\ LoggedIn \in Roles /\ World \in Perms
  /\ \A S \in {Users, Groups, Roles, Perms} : None \notin S
  /\ Users \cap (Groups \cup Roles \cup Perms) = {}  \* each in a folder of its own
ASSUME ContentsAssumption ==
  \A f \in Contents : DOMAIN f = Docs /\ \A d \in Docs : f[d] \in Seq(Range(f[d])) \ {<<>>}
ASSUME BoundAssumption ==
  /\ Refusable \subseteq Docs
  /\ PageSize \in Nat \ {0} /\ MaxChanges \in Nat /\ MaxChecks \in Nat

Changes == 1..MaxChanges
Grants == UNION {c \in UNION {Range(f[p]) : f \in Contents, p \in Perms} : c # None}

VARIABLES
  may,         \* what the files may say here, one of Contents
  file, doc,   \* what the files say and what the index has
  cache,       \* what users_permissions_<user> says; {} if there is none
  stored,      \* the users there is one for, be it an empty one
  made,        \* changes made
  target,      \* what each change is about
  index,       \* where the task of redis_db_update for the change stands,
  found,       \* and what it has loaded
  inval,       \* where the task of update_access_controls stands,
  keys,        \* and the keys its search returned
  copy, todo, rewrites,  \* users read by a request that writes the file back
  pc, user, meta, pending, map, checks,  \* the requests that ask for permissions
  seen,        \* history: the changes that were in the index when a request began
  excused,     \* history: users whose answer may be old, for a reason named below
  late         \* history: documents that a task or a request wrote as an older file was, and
               \* users whose file was written and nobody told

docVars == <<may, file, doc>>
hookVars == <<made, target, index, found, inval, keys>>
backVars == <<copy, todo, rewrites>>
reqVars == <<pc, user, meta, pending, map, checks, seen>>
vars == <<docVars, cache, stored, hookVars, backVars, reqVars, excused, late>>

Texts == {None} \cup UNION {Range(f[d]) : f \in Contents, d \in Docs}
Points == {"idle", "user", "save_user", "roles", "groups", "role", "world", "save"}

TypeOK ==
  /\ file \in [Docs -> Texts] /\ doc \in [Docs -> Texts]
  /\ may \in Contents
  /\ \A d \in Docs : {file[d], doc[d]} \subseteq Range(may[d]) \cup {None}
  /\ cache \in [Users -> SUBSET Grants]
  /\ stored \subseteq Users
  /\ made \in 0..MaxChanges
  /\ target \in [Changes -> Docs \cup {None}]
  /\ index \in [Changes -> {"none", "load", "save", "done"}]
  /\ found \in [Changes -> Texts]
  /\ inval \in [Changes -> {"none", "scan", "search", "del", "done"}]
  /\ keys \in [Changes -> SUBSET Users]
  /\ copy \in [Users -> Texts] /\ rewrites \in 0..MaxChanges
  /\ todo \in [Users -> {"none", "login", "sync", "save"}]
  /\ pc \in [Slots -> Points]
  /\ user \in [Slots -> Users \cup {None}]
  /\ \A s \in Slots : pc[s] # "idle" => user[s] \in Users
  /\ meta \in [Slots -> Texts]
  /\ pending \in [Slots -> [Roles -> Texts]]
  /\ map \in [Slots -> SUBSET Grants]
  /\ checks \in 0..MaxChecks
  /\ seen \in [Slots -> SUBSET Changes]
  /\ excused \subseteq Users /\ late \subseteq Docs

NoRoles == [r \in Roles |-> None]

Init ==
  /\ may \in Contents
  /\ file = [d \in Docs |-> Head(may[d])]
  /\ doc = file
  /\ cache = [u \in Users |-> {}] /\ stored = {}
  /\ copy = [u \in Users |-> None] /\ todo = [u \in Users |-> "none"] /\ rewrites = 0
  /\ made = 0 /\ target = [c \in Changes |-> None]
  /\ index = [c \in Changes |-> "none"] /\ found = [c \in Changes |-> None]
  /\ inval = [c \in Changes |-> "none"] /\ keys = [c \in Changes |-> {}]
  /\ pc = [s \in Slots |-> "idle"] /\ user = [s \in Slots |-> None]
  /\ meta = [s \in Slots |-> None] /\ pending = [s \in Slots |-> NoRoles]
  /\ map = [s \in Slots |-> {}] /\ checks = 0
  /\ seen = [s \in Slots |-> {}]
  /\ excused = {} /\ late = {}

(***************************************************************************)
(* What the documents amount to                                            *)
(***************************************************************************)
There(d) == doc[d] # None
Of(d) == IF There(d) THEN doc[d] ELSE {}

RolesOf(u) == {r \in Roles : There(r) /\ r \in Of(u) \cup {LoggedIn}}

\* The roles that some groups give.  They come as objects where text is expected, and there
\* is no answer for a user with a group that gives one.
Shared(groups) == {r \in Roles : There(r) /\ r \in UNION {Of(g) : g \in groups \cap Groups}}

\* What some documents of permissions allow, of those with the given names
Allowed(names) == UNION {Of(p) : p \in names \cap Perms}
Gained(u) == Allowed(UNION {Of(r) : r \in RolesOf(u)})

\* What generate_user_permissions comes to if nothing changes meanwhile, {} where there is no
\* answer.  The permission world is read from its file; without it there is none either.
Effective(u) ==
  IF RolesOf(u) = {} \/ Shared(Of(u)) # {} THEN {} ELSE Gained(u) \cup file[World]

(***************************************************************************)
(* Changes and their two tasks                                             *)
(***************************************************************************)
\* after_action starts the tasks of a change; what it says of the file is None for a delete.
Announce(d, t) ==
  /\ made + rewrites < MaxChanges /\ made' = made + 1
  /\ target' = [target EXCEPT ![made + 1] = d]
  /\ found' = [found EXCEPT ![made + 1] = t]
  /\ index' = [index EXCEPT ![made + 1] = "load"]
  /\ inval' = [inval EXCEPT ![made + 1] = "scan"]
  /\ UNCHANGED <<may, doc, cache, stored, keys, backVars, reqVars, excused, late>>

\* A create, update or delete has written the file,
Change(d) ==
  \E t \in Range(may[d]) \ {file[d]} : file' = [file EXCEPT ![d] = t] /\ Announce(d, t)

\* or db.delete has refused, for a lock or because the entry is gone, which is announced
\* like a deletion.
RefusedDelete(d) ==
  /\ d \in Refusable
  /\ file[d] # None \/ \E c \in 1..made : target[c] = d
  /\ Announce(d, None) /\ UNCHANGED file

\* /managed/reload-security-data, or a worker that starts: the second task, by itself
Reload ==
  /\ made + rewrites < MaxChanges
  /\ made' = made + 1
  /\ index' = [index EXCEPT ![made + 1] = "done"]
  /\ inval' = [inval EXCEPT ![made + 1] = "scan"]
  /\ UNCHANGED <<docVars, cache, stored, target, found, keys, backVars, reqVars, excused, late>>

\* Fault: the hook has nothing to do when there is no file to load.
LoadNoDelete(c) ==
  /\ index[c] = "load"
  /\ found' = [found EXCEPT ![c] = file[target[c]]]
  /\ index' = [index EXCEPT ![c] = IF file[target[c]] = None THEN "done" ELSE "save"]
  /\ UNCHANGED <<may, file, doc, cache, stored, made, target, inval, keys, backVars, reqVars, excused, late>>

\* The hook of redis_db_update.  After a deletion it deletes the document, else it loads
\* the file, if there still is one, and saves it.
Load(c) ==
  /\ index[c] = "load"
  /\ IF found[c] = None
     THEN /\ doc' = [doc EXCEPT ![target[c]] = None]
          /\ index' = [index EXCEPT ![c] = "done"]
          /\ late' = IF file[target[c]] = None THEN late ELSE late \cup {target[c]}
          /\ UNCHANGED found
     ELSE /\ found' = [found EXCEPT ![c] = file[target[c]]]
          /\ index' = [index EXCEPT ![c] = IF file[target[c]] = None THEN "done" ELSE "save"]
          /\ UNCHANGED <<doc, late>>
  /\ UNCHANGED <<may, file, cache, stored, made, target, inval, keys, backVars, reqVars, excused>>

Save(c) ==
  /\ index[c] = "save"
  /\ doc' = [doc EXCEPT ![target[c]] = found[c]]
  /\ index' = [index EXCEPT ![c] = "done"]
  /\ found' = [found EXCEPT ![c] = None]
  /\ late' = IF found[c] = file[target[c]] THEN late ELSE late \cup {target[c]}
  /\ UNCHANGED <<may, file, cache, stored, made, target, inval, keys, backVars, reqVars, excused>>

Cached == {u \in Users : cache[u] # {}}

\* load_permissions_and_roles reads every role, group and permission and keeps nothing.  A
\* file that changes meanwhile may fail to load; then the task ends here.
Scan(c) ==
  /\ inval[c] = "scan"
  /\ \/ inval' = [inval EXCEPT ![c] = "search"] /\ UNCHANGED excused
     \/ /\ \E e \in Changes : e > c /\ e <= made /\ target[e] \notin Users
        /\ inval' = [inval EXCEPT ![c] = "done"]
        /\ excused' = excused \cup Cached
  /\ UNCHANGED <<docVars, cache, stored, made, target, index, found, keys, backVars, reqVars, late>>

\* Fault: every user is forgotten but one.
SearchBelow(c) ==
  /\ inval[c] = "search"
  /\ \E page \in SUBSET stored :
       /\ Cardinality(page) = IF Cardinality(stored) < PageSize
                              THEN Cardinality(stored) ELSE PageSize - 1
       /\ keys' = [keys EXCEPT ![c] = page]
       /\ excused' = IF Cardinality(stored) <= PageSize THEN excused
                     ELSE excused \cup (Cached \ page)
  /\ inval' = [inval EXCEPT ![c] = "del"]
  /\ UNCHANGED <<docVars, cache, stored, made, target, index, found, backVars, reqVars, late>>

\* delete_user_permissions_map_in_redis: the search, one page of the keys there are
Search(c) ==
  /\ inval[c] = "search"
  /\ \E page \in SUBSET stored :
       /\ Cardinality(page) = IF Cardinality(stored) < PageSize
                              THEN Cardinality(stored) ELSE PageSize
       /\ keys' = [keys EXCEPT ![c] = page]
       /\ excused' = excused \cup (Cached \ page)
  /\ inval' = [inval EXCEPT ![c] = "del"]
  /\ UNCHANGED <<docVars, cache, stored, made, target, index, found, backVars, reqVars, late>>

\* and the deletion
Del(c) ==
  /\ inval[c] = "del"
  /\ cache' = [u \in Users |-> IF u \in keys[c] THEN {} ELSE cache[u]]
  /\ stored' = stored \ keys[c]
  /\ excused' = excused \ keys[c]
  /\ inval' = [inval EXCEPT ![c] = "done"]
  /\ keys' = [keys EXCEPT ![c] = {}]
  /\ UNCHANGED <<docVars, made, target, index, found, backVars, reqVars, late>>

(***************************************************************************)
(* Files of users that are written and nobody told                         *)
(***************************************************************************)
\* Somebody logs in or out or is sent a reset, and the user is read from the file -- or from
\* the document, when a provider has let somebody in.
Take(u) ==
  /\ todo[u] = "none" /\ made + rewrites < MaxChanges
  /\ \E w \in {<<file[u], "login">>, <<file[u], "sync">>, <<doc[u], "login">>} :
       /\ w[1] # None
       /\ copy' = [copy EXCEPT ![u] = w[1]]
       /\ todo' = [todo EXCEPT ![u] = w[2]]
  /\ rewrites' = rewrites + 1
  /\ UNCHANGED <<docVars, cache, stored, hookVars, reqVars, excused, late>>

\* internal_sys_update_model: db.update writes all of it, if the file is there
WriteBack(u) ==
  /\ todo[u] \in {"login", "sync"}
  /\ IF file[u] = None
     THEN todo' = [todo EXCEPT ![u] = "none"] /\ UNCHANGED <<file, late>>  \* refused
     ELSE /\ file' = [file EXCEPT ![u] = copy[u]]
          /\ late' = IF copy[u] = file[u] THEN late ELSE late \cup {u}
          /\ todo' = [todo EXCEPT ![u] = IF @ = "sync" THEN "save" ELSE "none"]
  /\ UNCHANGED <<may, doc, cache, stored, hookVars, copy, rewrites, reqVars, excused>>

\* and, but for a login, its document is saved.
SaveBack(u) ==
  /\ todo[u] = "save"
  /\ doc' = [doc EXCEPT ![u] = copy[u]]
  /\ late' = IF copy[u] = file[u] THEN late ELSE late \cup {u}
  /\ todo' = [todo EXCEPT ![u] = "none"]
  /\ UNCHANGED <<may, file, cache, stored, hookVars, copy, rewrites, reqVars, excused>>

\* Whom the index does not know of, a provider's login gives a file under a new name.
Register(u) ==
  /\ made + rewrites < MaxChanges /\ rewrites' = rewrites + 1
  /\ file[u] = None /\ doc[u] = None /\ \A c \in 1..made : target[c] # u
  /\ \E t \in Range(may[u]) \ {None} : file' = [file EXCEPT ![u] = t]
  /\ late' = late \cup {u}
  /\ UNCHANGED <<may, doc, cache, stored, hookVars, copy, todo, reqVars, excused>>

(***************************************************************************)
(* A request asks for a user's permissions                                 *)
(***************************************************************************)
At(s, p) == pc[s] = p
Goto(s, p) == pc' = [pc EXCEPT ![s] = p]
Kept == UNCHANGED <<hookVars, backVars, checks>>

Finish(s) ==
  /\ Goto(s, "idle")
  /\ user' = [user EXCEPT ![s] = None] /\ meta' = [meta EXCEPT ![s] = None]
  /\ pending' = [pending EXCEPT ![s] = NoRoles] /\ map' = [map EXCEPT ![s] = {}]
  /\ seen' = [seen EXCEPT ![s] = {}]

\* Changes a request that begins now finds everywhere it looks.  The file of world is read
\* as it is, whatever its document says.
Indexed == {c \in Changes : index[c] = "done"}

\* get_user_permissions: what is stored is the answer, if it is not empty, and nothing is done.
Ask(s) ==
  /\ At(s, "idle") /\ checks < MaxChecks
  /\ \E u \in {v \in Users : cache[v] = {}} :
       /\ user' = [user EXCEPT ![s] = u]
       /\ seen' = [seen EXCEPT ![s] = Indexed]
  /\ Goto(s, "user")
  /\ checks' = checks + 1
  /\ UNCHANGED <<docVars, cache, stored, hookVars, backVars, meta, pending, map, excused, late>>

\* load_user_meta: the document, else the file, which then becomes the document
LoadUser(s) ==
  /\ At(s, "user")
  /\ LET u == user[s]
         m == IF There(u) THEN doc[u] ELSE file[u]
     IN IF m = None THEN Finish(s)
        ELSE /\ meta' = [meta EXCEPT ![s] = m]
             /\ Goto(s, IF There(u) THEN "roles" ELSE "save_user")
             /\ UNCHANGED <<user, pending, map, seen>>
  /\ Kept /\ UNCHANGED <<docVars, cache, stored, excused, late>>

SaveUser(s) ==
  /\ At(s, "save_user")
  /\ doc' = [doc EXCEPT ![user[s]] = meta[s]]
  /\ late' = IF meta[s] = file[user[s]] THEN late ELSE late \cup {user[s]}
  /\ Goto(s, "roles")
  /\ Kept /\ UNCHANGED <<may, file, cache, stored, user, meta, pending, map, seen, excused>>

\* get_user_roles_operational: the search for the roles the user names
FindRoles(s) ==
  /\ At(s, "roles")
  /\ pending' = [pending EXCEPT ![s] = [r \in Roles |->
                   IF r \in meta[s] \cup {LoggedIn} THEN doc[r] ELSE None]]
  /\ Goto(s, "groups")
  /\ Kept /\ UNCHANGED <<docVars, cache, stored, user, meta, map, seen, excused, late>>

\* get_user_roles_from_groups.  json.loads of a group's role raises, and the request fails.
\* Without any role the map is empty, which is saved too.
FindGroups(s) ==
  /\ At(s, "groups")
  /\ IF Shared(meta[s]) # {} THEN Finish(s)
     ELSE /\ Goto(s, IF pending[s] = NoRoles THEN "save" ELSE "role")
          /\ UNCHANGED <<user, meta, pending, map, seen>>
  /\ Kept /\ UNCHANGED <<docVars, cache, stored, excused, late>>

\* get_role_permissions_operational for the next role
FindPerms(s) ==
  /\ At(s, "role")
  /\ \E r \in {q \in Roles : pending[s][q] # None} :
       /\ map' = [map EXCEPT ![s] = @ \cup Allowed(pending[s][r])]
       /\ pending' = [pending EXCEPT ![s][r] = None]
  /\ Goto(s, "world")
  /\ Kept /\ UNCHANGED <<docVars, cache, stored, user, meta, seen, excused, late>>

\* and db.load_or_none of world; None is used as a permission, and the request fails
LoadWorld(s) ==
  /\ At(s, "world")
  /\ IF file[World] = None THEN Finish(s)
     ELSE /\ map' = [map EXCEPT ![s] = @ \cup file[World]]
          /\ Goto(s, IF pending[s] = NoRoles THEN "save" ELSE "role")
          /\ UNCHANGED <<user, meta, pending, seen>>
  /\ Kept /\ UNCHANGED <<docVars, cache, stored, excused, late>>

\* A change this request may not have seen, and whose tasks will not throw away what it saves
Overtaken(s) ==
  \E c \in 1..made : c \notin seen[s] /\ inval[c] \in {"del", "done"}

\* save_doc of the map, an empty one too
SaveMap(s) ==
  /\ At(s, "save")
  /\ LET u == user[s] IN
       /\ cache' = [cache EXCEPT ![u] = map[s]]
       /\ stored' = stored \cup {u}
       /\ excused' = IF Overtaken(s) THEN excused \cup {u} ELSE excused \ {u}
  /\ Finish(s)
  /\ Kept /\ UNCHANGED <<docVars, late>>

Step(s) ==
  \/ LoadUser(s) \/ SaveUser(s) \/ FindRoles(s) \/ FindGroups(s)
  \/ FindPerms(s) \/ LoadWorld(s) \/ SaveMap(s)

Next ==
  \/ Reload \/ \E d \in Docs : Change(d) \/ RefusedDelete(d)
  \/ \E c \in Changes : Load(c) \/ Save(c) \/ Scan(c) \/ Search(c) \/ Del(c)
  \/ \E u \in Users : Take(u) \/ WriteBack(u) \/ SaveBack(u) \/ Register(u)
  \/ \E s \in Slots : Ask(s) \/ Step(s)

Spec == Init /\ [][Next]_vars

(***************************************************************************)
(* Properties                                                              *)
(***************************************************************************)
Settled(S) == \A c \in 1..made : target[c] \in S => index[c] = "done" /\ inval[c] = "done"

\* When the tasks of all changes have ended, what the cache says a user may do is what the
\* documents say, and nothing of a user with a role from a group, unless one of three things
\* happened: a request that read a document before a change reached it saved its answer after
\* that change had looked for answers to throw away; more answers were stored, empty ones
\* among them, than the search returned; or the task failed.  A user whose file or document
\* was written outside of any change and differed from it is not spoken of.
CacheFresh ==
  Settled(Docs) => \A u \in Cached \ (excused \cup late) : cache[u] = Effective(u)

\* When the tasks of the changes of a user, role, group or permission have ended, its document
\* is what its file says, and none if it was deleted -- unless a task or a request that had
\* read the file before a change saved it afterwards, a deletion was announced of a file that
\* was there when the document was deleted, or a file was written that no task was told of: a
\* user's, by a login, logout or reset that had read another one, or by a first login.
DocCurrent == \A d \in Docs \ late : Settled({d}) => doc[d] = file[d]
=============================================================================
