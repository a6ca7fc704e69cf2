------------------------------- MODULE MCAccess -------------------------------
EXTENDS Access, TLC

Symmetry == Permutations(Slots)

Files(ana, staff, edit, world) ==
  "ana" :> ana @@ "ben" :> <<{"staff"}>> @@ "staff" :> staff @@ "admin" :> <<{"edit"}>>
  @@ "logged_in" :> <<{}>> @@ "edit" :> edit @@ "world" :> world

\* What changes: who the user is, beside one with an empty answer; or the group, the
\* permission of all, and a user there is none of at first
MCContents == {
  Files(<<{"admin"}, {}, None>>, <<{}>>, <<{"read"}>>, <<{}>>),
  Files(<<None, {"admin"}>>, <<{}, {"admin"}>>, <<{"read"}>>, <<{"look"}, None>>)}
=============================================================================
