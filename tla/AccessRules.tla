----------------------------- MODULE AccessRules -----------------------------
(***************************************************************************)
(* What permissions come to.  A user's permissions are put into one map,   *)
(* key by key; check_access walks from the root of the space to the entry  *)
(* and asks the map at each step; a query turns the map into policies and  *)
(* leaves it to Redis to compare them with those of the documents.  A path *)
(* is the sequence of its parts.                                           *)
(*                                                                         *)
(* No name here is one of Access, so that a module can extend both.        *)
(***************************************************************************)
EXTENDS Naturals, FiniteSets, Sequences, SequencesExt

CONSTANTS
  Catalog,    \* the permissions there are, by name
  MaxChosen,  \* bound on those a user has
  Ana,        \* the user,
  Staff,      \* the group of the user
  Entries,    \* what is asked about
  Requests    \* attributes sent with a create or an update

AllSpaces == "__all_spaces__"
AllSubpaths == "__all_subpaths__"
CurrentUser == "__current_user__"
Root == <<"/">>                       \* how the key of the root of a space is spelled

Actions == {"query", "view", "update", "create", "delete"}
Conditions == {"is_active", "own"}

ASSUME CatalogAssumption == \A p \in DOMAIN Catalog :
  /\ Catalog[p].actions \subseteq Actions /\ Catalog[p].conditions \subseteq Conditions
  /\ Catalog[p].keys \subseteq [space : STRING, path : Seq(STRING) \ {<<>>}, type : STRING]
ASSUME EntriesAssumption == \A d \in Entries : d.path \in Seq(STRING) /\ d.name \in STRING
ASSUME UserAssumption == Ana \in STRING /\ Staff \in STRING
ASSUME ChosenAssumption == MaxChosen \in Nat

VARIABLES
  backend,  \* settings.active_data_db
  chosen,   \* the user's permissions, in the order they are met
  at,       \* which of them is being put into the map
  left,     \* its keys that are not in the map yet
  live,     \* its actions and conditions as the object has them now
  granted   \* user_permissions

rulesVars == <<backend, chosen, at, left, live, granted>>

\* trans_magic_words
Trans(path) == [i \in DOMAIN path |-> IF path[i] = CurrentUser THEN Ana ELSE path[i]]
KeysOf(p) == {[k EXCEPT !.path = Trans(k.path)] : k \in Catalog[p].keys}
AllKeys == UNION {KeysOf(p) : p \in DOMAIN Catalog}
Own(p) == [actions |-> Catalog[p].actions, conditions |-> Catalog[p].conditions]

Lives == [actions : SUBSET Actions, conditions : SUBSET Conditions]

RulesTypeOK ==
  /\ backend \in {"file", "sql"}
  /\ chosen \in Seq(DOMAIN Catalog) /\ Len(chosen) <= MaxChosen
  /\ at \in 1..MaxChosen + 1
  /\ left \subseteq AllKeys
  /\ live \in Lives
  /\ DOMAIN granted \subseteq AllKeys
  /\ \A k \in DOMAIN granted :
       /\ [actions |-> granted[k].actions, conditions |-> granted[k].conditions] \in Lives
       /\ granted[k].from \in Range(chosen)

RulesInit ==
  /\ backend \in {"file", "sql"}
  /\ \E n \in 1..MaxChosen : chosen \in {c \in [1..n -> DOMAIN Catalog] : IsInjective(c)}
  /\ at = 1
  /\ left = KeysOf(chosen[1])
  /\ live = Own(chosen[1])
  /\ granted = <<>>

Ready == at > Len(chosen)

(***************************************************************************)
(* generate_user_permissions                                               *)
(***************************************************************************)
\* What the map gets for a key: if it has the key, the actions and the conditions of both;
\* the restrictions are those of the permission met last, which from names.
Merged(k) ==
  IF k \in DOMAIN granted
  THEN [actions |-> live.actions \cup granted[k].actions,
        conditions |-> live.conditions \cup granted[k].conditions]
  ELSE live

\* Fault: what the map has for the key is replaced.
PutReplacing(k) ==
  /\ ~Ready /\ k \in left
  /\ granted' = [j \in DOMAIN granted \cup {k} |->
               IF j = k THEN [actions |-> live.actions, conditions |-> live.conditions,
                              from |-> chosen[at]] ELSE granted[j]]
  /\ left' = left \ {k}
  /\ UNCHANGED <<backend, chosen, at, live>>

\* The sets of an object that was validated are changed in place by |=, so that the keys
\* still left get the union too; the lists of a row are copied.
Put(k) ==
  /\ ~Ready /\ k \in left
  /\ granted' = [j \in DOMAIN granted \cup {k} |->
               IF j = k THEN [actions |-> Merged(k).actions, conditions |-> Merged(k).conditions,
                              from |-> chosen[at]] ELSE granted[j]]
  /\ live' = IF backend = "file" THEN Merged(k) ELSE live
  /\ left' = left \ {k}
  /\ UNCHANGED <<backend, chosen, at>>

NextPermission ==
  /\ ~Ready /\ left = {}
  /\ at' = at + 1
  /\ left' = IF at < Len(chosen) THEN KeysOf(chosen[at + 1]) ELSE {}
  /\ live' = IF at < Len(chosen) THEN Own(chosen[at + 1]) ELSE live
  /\ UNCHANGED <<backend, chosen, granted>>

RulesNext == NextPermission \/ \E k \in left : Put(k)

RulesSpec == RulesInit /\ [][RulesNext]_rulesVars

(***************************************************************************)
(* check_access                                                            *)
(***************************************************************************)
Full(d) == IF d.type = "folder" THEN Append(d.path, d.name) ELSE d.path
Upto(path, n) == SubSeq(path, 1, n)
Spelled(path) == IF path = <<>> THEN Root ELSE path
Key(space, path, type) == [space |-> space, path |-> path, type |-> type]

Achieved(d) ==
  (IF d.active THEN {"is_active"} ELSE {})
    \cup (IF d.owner = Ana \/ d.group = Staff THEN {"own"} ELSE {})

\* check_access_conditions
ConditionsHold(conditions, d, action) ==
  action \in {"create", "query"} \/ conditions \subseteq Achieved(d)

\* check_access_restriction.  A value is a set with a mark that says whether it is a list.
ValueAllowed(v, allowed) ==
  IF v.list THEN allowed.list => v.of \subseteq allowed.of
            ELSE ~allowed.list /\ v.of \subseteq allowed.of

RestrictionsHold(p, action, attributes) ==
  action \in {"create", "update"} =>
    /\ Catalog[p].restricted \cap DOMAIN attributes = {}
    /\ \A f \in DOMAIN Catalog[p].values \cap DOMAIN attributes :
         ValueAllowed(attributes[f], Catalog[p].values[f])

\* Fault: the conditions of the permission are not asked for.
KeyGrantsAnyone(k, d, action, attributes) ==
  /\ k \in DOMAIN granted
  /\ action \in granted[k].actions
  /\ RestrictionsHold(granted[k].from, action, attributes)

KeyGrants(k, d, action, attributes) ==
  /\ k \in DOMAIN granted
  /\ action \in granted[k].actions
  /\ ConditionsHold(granted[k].conditions, d, action)
  /\ RestrictionsHold(granted[k].from, action, attributes)

\* The part before the last, or the only one, becomes __all_subpaths__.
Generic(path) ==
  IF Len(path) <= 1 THEN <<AllSubpaths>> ELSE [path EXCEPT ![Len(path) - 1] = AllSubpaths]

\* has_global_access: of three keys, the last that is there, and no other
GlobalKey(d, path) ==
  LET original == Key(AllSpaces, Spelled(path), d.type)
      here == Key(d.space, Generic(path), d.type)
      everywhere == Key(AllSpaces, Generic(path), d.type)
  IN IF original \in DOMAIN granted THEN original
     ELSE IF here \in DOMAIN granted THEN here ELSE everywhere

CheckAccess(d, action, attributes) ==
  \E n \in 0..Len(Full(d)) :
    LET path == Upto(Full(d), n) IN
      \/ KeyGrants(GlobalKey(d, path), d, action, attributes)
      \/ KeyGrants(Key(d.space, Spelled(path), d.type), d, action, attributes)

(***************************************************************************)
(* Queries                                                                 *)
(***************************************************************************)
\* Fault: the wildcard is left as it is.
PolicyPathAsIs(path, q) == path

\* get_user_query_policies: the wildcard stands for the subpath that is queried.  If that
\* is the root, "" does, and a part that is "" is in no document.
PolicyPath(path, q) ==
  IF path = <<AllSubpaths>> THEN q
  ELSE FlattenSeq([i \in DOMAIN path |->
         IF path[i] # AllSubpaths THEN <<path[i]>> ELSE IF q = <<>> THEN <<"">> ELSE q])

\* generate_query_policies: a document has a policy for each way to it
DocumentPaths(d) == {Upto(Full(d), n) : n \in 0..Len(Full(d))}

\* Fault: a permission for what is one's own shows what is active.
PolicyAdmitsActive(conditions, d) ==
  LET mine == d.owner \in {Ana, Staff} \/ d.group \in {Ana, Staff} IN
  CASE conditions = {} -> TRUE
    [] conditions = {"is_active"} -> d.active
    [] conditions = {"own"} -> d.active \/ mine
    [] OTHER -> d.active /\ mine

\* What follows the key in a policy
PolicyAdmits(conditions, d) ==
  LET mine == d.owner \in {Ana, Staff} \/ d.group \in {Ana, Staff} IN
  CASE conditions = {} -> TRUE
    [] conditions = {"is_active"} -> d.active
    [] conditions = {"own"} -> IF d.active THEN Ana \in {d.owner, d.group} ELSE mine
    [] OTHER -> d.active /\ mine

\* Redis compares; the actions of a permission play no part.
Hit(d, q) ==
  \E k \in DOMAIN granted :
    /\ k.space \in {d.space, AllSpaces} /\ k.type = d.type
    /\ PolicyPath(k.path, q) \in DocumentPaths(d)
    /\ PolicyAdmits(granted[k].conditions, d)

Queried(d) == {Upto(d.path, n) : n \in 0..Len(d.path)}   \* the subpaths a query may name

(***************************************************************************)
(* Properties                                                              *)
(***************************************************************************)
Listing(k) == {p \in Range(chosen) : k \in KeysOf(p)}
Listed(k) == UNION {Catalog[p].actions : p \in Listing(k)}

\* With the SQL backend the map has for each key the actions, and asks for the conditions, of
\* the permissions that list it.  With files it may have more of both, but only
\* when one that lists the key shares another key with one that does not.
MapExact ==
  Ready => \A k \in DOMAIN granted :
    LET wanted == UNION {Catalog[p].conditions : p \in Listing(k)}
        apart == \A p \in Listing(k) : \A o \in Range(chosen) \ Listing(k) :
                   KeysOf(p) \cap KeysOf(o) = {}
    IN /\ Listed(k) \subseteq granted[k].actions /\ wanted \subseteq granted[k].conditions
       /\ backend = "sql" \/ apart => granted[k].actions = Listed(k) /\ granted[k].conditions = wanted

\* A key covers an entry if it is that of a way to it, in its space or in all of them, one
\* part of which, the one before the last, may be anything.
Covers(k, d) ==
  /\ k.space \in {d.space, AllSpaces} /\ k.type = d.type
  /\ \E n \in 0..Len(Full(d)) :
       k.path \in {Spelled(Upto(Full(d), n)), Generic(Upto(Full(d), n))}

\* With the SQL backend check_access lets through only what a permission of the user covers
\* that lists the action, and then all the permissions for that key have their conditions
\* met: one more permission for a key never drops the conditions of another.
GrantsFounded ==
  Ready /\ backend = "sql" =>
    \A d \in Entries, action \in Actions, attributes \in Requests :
      CheckAccess(d, action, attributes) =>
        \E k \in DOMAIN granted :
          /\ Covers(k, d)
          /\ \E p \in Listing(k) : action \in Catalog[p].actions
          /\ \E p \in Listing(k) : RestrictionsHold(p, action, attributes)
          /\ action \in {"create", "query"}
               \/ \A p \in Listing(k) : Catalog[p].conditions \subseteq Achieved(d)

\* The wildcard stands for the part before the last, as in check_access.
PlainWildcard(path) == \A i \in DOMAIN path : path[i] = AllSubpaths => i + 1 = Len(path)

\* A query shows an entry only if a permission covers it whose conditions the entry meets --
\* unless the query names a subpath of several parts, or the wildcard is not just the part
\* before the last: then it stands for more in a query than check_access lets it stand for.
\* In a query a name is that of a user or of a group: an entry is one's own as well if its
\* group has the name of the user, or its owner that of the user's group.
QueriesFounded ==
  Ready => \A d \in Entries : \A q \in Queried(d) :
    Hit(d, q) =>
      \E k \in DOMAIN granted :
        /\ granted[k].conditions \subseteq
             Achieved(d) \cup IF d.group = Ana \/ d.owner = Staff THEN {"own"} ELSE {}
        /\ \/ Covers(k, d)
           \/ /\ AllSubpaths \in Range(k.path) /\ Len(k.path) > 1
              /\ Len(q) > 1 \/ ~PlainWildcard(k.path)

\* What a key lets a user view, a query of the entry's own subpath finds -- unless the key is
\* that of the root or has a wildcard among other parts, or it is for one's own entries and
\* this one is active and the user's only through the group.
QueriesComplete ==
  Ready => \A d \in Entries : \A k \in DOMAIN granted :
    /\ KeyGrants(k, d, "view", <<>>) /\ Covers(k, d)
    /\ k.path # Root /\ (AllSubpaths \in Range(k.path) => Len(k.path) = 1)
    /\ ~(granted[k].conditions = {"own"} /\ d.active /\ d.owner # Ana)
    => Hit(d, d.path)
=============================================================================
