--------------------------- MODULE MCManagedRequest ---------------------------
EXTENDS ManagedRequest, TLC

CONSTANTS a, b, c, c1, c2, alice, bob, none

InFolder == {a, b}

\* Alice may do anything; Bob may create and update.
Rights == ({alice} \X {"create", "update", "assign", "delete"}) \cup ({bob} \X {"create", "update"})

R(p, code) == [path |-> p, dest |-> none, payload |-> TRUE, code |-> code, named |-> TRUE,
               valid |-> TRUE, to |-> none, ticket |-> FALSE, checks |-> FALSE]
Bare(p) == [R(p, none) EXCEPT !.payload = FALSE]
B(type, records) == [type |-> type, records |-> records]

Sent ==
  { B("create", <<R(a, c1), R(b, c1)>>),
    B("create", <<R(b, c1), [R(c, c2) EXCEPT !.valid = FALSE]>>),
    B("create", <<[R(b, c2) EXCEPT !.ticket = TRUE], [R(a, c1) EXCEPT !.ticket = TRUE]>>),
    B("import", <<[R(a, c1) EXCEPT !.valid = FALSE], Bare(none), R(b, c2)>>),
    B("upload", <<R(a, c1)>>),
    B("register", <<R(b, c1)>>),
    B("update", <<R(a, c1)>>),
    B("update", <<R(b, none)>>),
    B("update", <<[R(a, c1) EXCEPT !.named = FALSE]>>),
    B("r_replace", <<[R(b, c1) EXCEPT !.checks = TRUE]>>),
    B("assign", <<[Bare(a) EXCEPT !.to = bob], [Bare(b) EXCEPT !.to = bob]>>),
    B("update_acl", <<Bare(a), Bare(b)>>),
    B("delete", <<[Bare(b) EXCEPT !.checks = TRUE], Bare(a)>>),
    B("move", <<[Bare(c) EXCEPT !.dest = a]>>),
    B("move", <<[Bare(a) EXCEPT !.dest = b]>>) }

\* The entries there are at the start are Alice's, with the code c1 at a and c2
\* elsewhere, and only b may be locked.
Entry(p, code) == {none, [code |-> code, owner |-> alice]}
MCInit == /\ Init
          /\ files[a] \in Entry(a, c1) /\ files[b] \in Entry(b, c2) /\ files[c] \in Entry(c, c1)
          /\ locked \subseteq {b}
MCSpec == MCInit /\ [][Next]_vars
===============================================================================
