----------------------------- MODULE MCRealtime -----------------------------
EXTENDS Realtime, TLC

Symmetry == Permutations(Users) \cup Permutations(Sockets)

MCSubpaths == {<<"news", "local">>}

\* One channel of the folder and one of the folder above it
MCWanted == {
  [subpath |-> <<"news">>, schema |-> All, action |-> "update"],
  [subpath |-> <<"news", "local">>, schema |-> "post", action |-> All]}
=============================================================================
