------------------------------ MODULE MCSession ------------------------------
EXTENDS Session, TLC

Symmetry == Permutations(Slots)

\* What is sent is mixed so that the behaviours of interest meet
For(first, second) == [u \in Users |-> IF u = "ana" THEN first ELSE second]
MCMixes == {
  For({"login", "visit", "logout", "disable"}, {}),
  For({"login", "profile", "enable", "disable"}, {"profile"}),
  For({"social", "logout"}, {"social"}),
  For({"social"}, {"login"}),
  For({"social", "disable"}, {}),
  For({"login", "delete", "invitation", "forgot", "reset"}, {})}
=============================================================================
