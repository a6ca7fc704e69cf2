---------------------------- MODULE MCAccessRules ----------------------------
EXTENDS AccessRules, TLC

K(space, path) == [space |-> space, path |-> path, type |-> "content"]
P(keys, actions, conditions, restricted, values) ==
  [keys |-> keys, actions |-> actions, conditions |-> conditions,
   restricted |-> restricted, values |-> values]

One(v) == [list |-> FALSE, of |-> {v}]
Many(S) == [list |-> TRUE, of |-> S]

MCCatalog ==
  "browse"  :> P({K("shop", <<"a">>), K("shop", <<"a", "b">>)}, {"view", "query"}, {}, {}, <<>>)
  @@ "edit" :> P({K("shop", <<"a">>)}, {"update", "delete"}, {"own"}, {"price"}, <<>>)
  @@ "shelf" :> P({K("shop", <<"a", AllSubpaths, "c">>), K(AllSpaces, <<"a", "b">>)},
                 {"view", "update"}, {"is_active"}, {}, "state" :> Many({"new"}))
  @@ "any"  :> P({K("shop", <<AllSubpaths>>)}, {"view"}, {"own", "is_active"}, {}, <<>>)
  @@ "deep" :> P({K("shop", <<AllSubpaths, "b">>), K(AllSpaces, <<AllSubpaths>>)},
                 {"create"}, {}, {}, "state" :> [list |-> FALSE, of |-> {"new"}])
  @@ "root" :> P({K("shop", Root)}, {"view"}, {}, {}, <<>>)
  @@ "mine" :> P({K("shop", <<"a", CurrentUser>>), K("shop", <<AllSubpaths, "b", "c">>),
                  [K("shop", <<"a", "b">>) EXCEPT !.type = "folder"]},
                 Actions, {"own"}, {}, <<>>)

E(path, active, owner, group) ==
  [space |-> "shop", path |-> path, type |-> "content", name |-> "x",
   active |-> active, owner |-> owner, group |-> group]

MCEntries ==
  {E(path, active, who[1], who[2]) :
     path \in {<<>>, <<"a">>, <<"a", "b">>, <<"x", "a", "b">>, <<"a", "b", "c">>, <<"a", "ana">>},
     active \in BOOLEAN,
     who \in {<<"ana", "none">>, <<"bob", "staff">>, <<"bob", "none">>, <<"bob", "ana">>}}
  \cup {[E(<<"a">>, TRUE, "ana", "none") EXCEPT !.type = "folder", !.name = "b"]}

MCRequests == {<<>>, "price" :> One("new"), "state" :> One("old"), "state" :> Many({"new"})}
=============================================================================
