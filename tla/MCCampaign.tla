------------------------------ MODULE MCCampaign ------------------------------
EXTENDS Campaign, TLC

CONSTANTS n1, n2

Push == {n2}

\* Both are told, or broken off; the run ends at one; nobody is to be told.
Plain == [for |-> People, named |-> FALSE, refused |-> FALSE]
Sent == [Plain EXCEPT !.named = TRUE]
Refused == [Plain EXCEPT !.refused = TRUE]
ForNobody == [Sent EXCEPT !.for = {}]
Asks == {[n \in Notes |-> Plain], [n \in Notes |-> Sent], [n \in Notes |-> IF n = n1 THEN Plain ELSE Refused],
         [n \in Notes |-> IF n = n1 THEN Sent ELSE Plain], [n \in Notes |-> IF n = n1 THEN ForNobody ELSE Sent]}
Symmetry == Permutations(Runs) \cup Permutations(People)
===============================================================================
