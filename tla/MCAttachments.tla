---------------------------- MODULE MCAttachments ----------------------------
EXTENDS Attachments, TLC, SequencesExt

CONSTANTS s1, s2, a

\* Two entries of one path in two spaces
Entries == {<<s1, a>>, <<s2, a>>}

\* Liveness is checked without symmetry.  Requests, entries and workers are alike: nothing
\* is lost when requests arrive in a fixed order, the first at a chosen entry and worker.
Order == SetToSeq(Requests)
InOrder == /\ \A i, j \in DOMAIN Order :
                i < j /\ pc'[Order[j]] # "idle" => pc'[Order[i]] # "idle"
           /\ at'[Order[1]] \in {None, <<s1, a>>}
FairInOrder == /\ Init /\ on[Order[1]] = CHOOSE w \in Workers : TRUE
               /\ [][Next /\ InOrder]_vars /\ Fairness
=============================================================================
