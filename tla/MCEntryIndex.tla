---------------------------- MODULE MCEntryIndex ----------------------------
EXTENDS EntryIndex, TLC

\* Liveness is checked without symmetry.  Requests are alike and so are paths:
\* nothing is lost when a chosen request arrives first, at a chosen path.
First == CHOOSE r \in Requests : TRUE
Front == CHOOSE p \in Paths : TRUE
InOrder == /\ \A r \in Requests : pc'[r] # "idle" => pc'[First] # "idle"
           /\ path'[First] \in {None, Front}
FairInOrder == Init /\ [][Next /\ InOrder]_vars /\ Fairness
=============================================================================
