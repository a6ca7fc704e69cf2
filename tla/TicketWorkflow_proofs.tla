------------------------- MODULE TicketWorkflow_proofs -------------------------
(***************************************************************************)
(* Proofs about tickets, for any workflow, users, requests and bounds, and *)
(* about the pages of queries, for any number of entries and any limit.    *)
(***************************************************************************)
EXTENDS TicketWorkflow, QueryPages, SequenceTheorems, FiniteSetTheorems, WellFoundedInduction,
        TLAPS

USE NoneAssumption, BoundAssumption DEF Goto, requestVars

(***************************************************************************)
(* What the loops over the workflow return                                 *)
(***************************************************************************)
\* transite only follows the workflow: where it leads is a state name, the role
\* is one the step asks for, and no set closed under the workflow is left.
LEMMA LeadsAllowed ==
  ASSUME NEW n, NEW a, NEW rs, NEW m \in Leads(n, a, rs)
  PROVE  /\ m \in Names
         /\ Allows(n, m, rs)
         /\ \A S : n \in S /\ Closed(S) => m \in S
<1>1. PICK p \in Steps(n, a) : StepAt(p).roles \cap rs # {} /\ m = StepAt(p).state
  BY DEF Leads, First
<1>2. PICK i \in Named(n) : \E j \in DOMAIN Workflow[i].next : p = <<i, j>>
  BY <1>1 DEF Steps
<1>3. PICK j \in DOMAIN Workflow[i].next : p = <<i, j>>
  BY <1>2
<1>4. Workflow[i] \in Entry /\ i \in DOMAIN Workflow /\ Workflow[i].state = n
  BY <1>2, WorkflowAssumption DEF Named
<1>5. Workflow[i].next[j] \in Step /\ StepAt(p) = Workflow[i].next[j]
  BY <1>3, <1>4 DEF Entry, StepAt
<1>6. m \in Names
  BY <1>1, <1>5 DEF Step
<1>7. Allows(n, m, rs)
  BY <1>1, <1>2, <1>5 DEF Allows
<1>8. \A S : n \in S /\ Closed(S) => m \in S
  BY <1>1, <1>2, <1>4, <1>5 DEF Closed, Targets
<1> QED BY <1>6, <1>7, <1>8

\* An element of a sequence belongs to its set.
LEMMA ElementOfSequence ==
  ASSUME NEW S, NEW s \in Seq(S), NEW i \in DOMAIN s
  PROVE  s[i] \in S
OBVIOUS

\* What is in a sequence after Append
LEMMA AppendElement ==
  ASSUME NEW S, NEW s \in Seq(S), NEW e \in S
  PROVE  /\ Append(s, e) \in Seq(S)
         /\ \A i \in DOMAIN Append(s, e) : \/ i \in DOMAIN s /\ Append(s, e)[i] = s[i]
                                           \/ Append(s, e)[i] = e
         /\ \A i \in DOMAIN s : i \in DOMAIN Append(s, e) /\ Append(s, e)[i] = s[i]
         /\ \E i \in DOMAIN Append(s, e) : Append(s, e)[i] = e
<1>1. Len(s) \in Nat /\ DOMAIN s = 1..Len(s) /\ DOMAIN Append(s, e) = 1..(Len(s) + 1)
  OBVIOUS
<1>2. Append(s, e)[Len(s) + 1] = e /\ \A i \in 1..Len(s) : Append(s, e)[i] = s[i]
  OBVIOUS
<1>3. Append(s, e) \in Seq(S)
  OBVIOUS
<1> QED BY <1>1, <1>2, <1>3

\* Tickets begin in states that the workflow names.
LEMMA InitialNames ==
  ASSUME NEW rs
  PROVE  InitialState(rs) \subseteq Names
<1>1. Chosen(rs) \subseteq DOMAIN Initial
  BY DEF Chosen
<1>2. ASSUME NEW i \in DOMAIN Initial PROVE Initial[i].name \in Names
  <2> DEFINE R == [name : Names, roles : SUBSET (Roles \cup {Default})]
  <2>1. Initial \in Seq(R)
    BY WorkflowAssumption
  <2> HIDE DEF R
  <2>2. Initial[i] \in R
    BY <2>1, ElementOfSequence
  <2> USE DEF R
  <2> QED BY <2>2
<1> QED BY <1>1, <1>2 DEF InitialState

(***************************************************************************)
(* Types                                                                   *)
(***************************************************************************)
\* What handle_update_state makes of the ticket, whatever the resolution
LEMMA TransitEffect ==
  ASSUME TypeOK, NEW r \in Requests, Transit(r)
  PROVE  /\ was[r].open
         /\ \E t \in Tickets :
              /\ obj' = [obj EXCEPT ![r] = t]
              /\ t.by = r
              /\ t.open = HasNext(t.state)
              /\ Allows(was[r].state, t.state, RolesOf[who[r]])
              /\ \A S : was[r].state \in S /\ Closed(S) => t.state \in S
<1>1. PICK a \in Actions : \E n \in Leads(was[r].state, a, RolesOf[who[r]]) :
        \E x \in Resolutions \cup {None} :
          obj' = [obj EXCEPT ![r] =
                    IF x = None THEN Moved(r, n) ELSE [Moved(r, n) EXCEPT !.reason = x]]
  BY DEF Transit, Progress
<1>2. PICK n \in Leads(was[r].state, a, RolesOf[who[r]]), x \in Resolutions \cup {None} :
        obj' = [obj EXCEPT ![r] =
                  IF x = None THEN Moved(r, n) ELSE [Moved(r, n) EXCEPT !.reason = x]]
  BY <1>1
<1>3. /\ n \in Names
      /\ Allows(was[r].state, n, RolesOf[who[r]])
      /\ \A S : was[r].state \in S /\ Closed(S) => n \in S
  BY LeadsAllowed
<1>4. PICK t : t = IF x = None THEN Moved(r, n) ELSE [Moved(r, n) EXCEPT !.reason = x]
  OBVIOUS
<1>5. HasNext(n) \in BOOLEAN /\ was[r] \in Tickets
  BY DEF HasNext, TypeOK
<1>6. t \in Tickets /\ t.by = r /\ t.open = HasNext(n) /\ t.state = n
  BY <1>3, <1>4, <1>5 DEF Moved, Tickets
<1>7. was[r].open /\ obj' = [obj EXCEPT ![r] = t]
  BY <1>2, <1>4 DEF Transit
<1> QED BY <1>3, <1>6, <1>7

\* What update_from_record makes of it
LEMMA ChangeEffect ==
  ASSUME TypeOK, NEW r \in Requests, Change(r)
  PROVE  \E t \in Tickets : obj' = [obj EXCEPT ![r] = t] /\ (t = obj[r] \/ t.by = r)
<1>1. CASE UNCHANGED obj
  BY <1>1 DEF TypeOK
<1>2. CASE \E n \in Names, b \in BOOLEAN :
             obj' = [obj EXCEPT ![r] = [was[r] EXCEPT !.state = n, !.open = b, !.by = r]]
  <2>1. PICK n \in Names, b \in BOOLEAN :
          obj' = [obj EXCEPT ![r] = [was[r] EXCEPT !.state = n, !.open = b, !.by = r]]
    BY <1>2
  <2>2. PICK t : t = [was[r] EXCEPT !.state = n, !.open = b, !.by = r]
    OBVIOUS
  <2>3. t \in Tickets /\ t.by = r
    BY <2>2 DEF TypeOK, Tickets
  <2> QED BY <2>1, <2>2, <2>3
<1> QED BY <1>1, <1>2 DEF Change

\* What store_entry_diff appends
Lines == [req : Requests, old : Names, new : Names]
Line(r) == [req |-> r, old |-> was[r].state, new |-> obj[r].state]

\* Record adds one line at most to the history, and one if the state has changed.
LEMMA RecordLine ==
  ASSUME TypeOK, NEW r \in Requests, Record(r)
  PROVE  /\ history' \in Seq(Lines)
         /\ \A i \in DOMAIN history' : \/ i \in DOMAIN history /\ history'[i] = history[i]
                                       \/ history'[i] = Line(r)
         /\ \A i \in DOMAIN history : i \in DOMAIN history' /\ history'[i] = history[i]
         /\ was[r].state # obj[r].state => \E i \in DOMAIN history' : history'[i] = Line(r)
<1>1. history \in Seq(Lines)
  BY DEF TypeOK, Lines
<1>2. Line(r) \in Lines
  BY DEF TypeOK, Lines, Line, Tickets
<1>3. CASE was[r].state = obj[r].state
  BY <1>1, <1>3 DEF Record
<1>4. CASE was[r].state # obj[r].state
  <2>1. history' = Append(history, Line(r))
    BY <1>4 DEF Record, Line
  <2> QED BY <1>1, <1>2, <2>1, AppendElement
<1> QED BY <1>3, <1>4

\* Every variable keeps its type: in particular the state and is_open of the meta
\* file, which a transition computes from a workflow somebody else wrote.
THEOREM TypeCorrect == Spec => []TypeOK
<1>1. Init => TypeOK
  BY InitialNames DEF Init, TypeOK, Tickets, Points, Seconds
<1>2. ASSUME TypeOK, [Next]_vars PROVE TypeOK'
  <2> USE <1>2 DEF TypeOK, Points
  <2>1. ASSUME NEW r \in Requests, Load(r) PROVE TypeOK'
    BY <2>1 DEF Load
  <2>2. ASSUME NEW r \in Requests, Refuse(r) PROVE TypeOK'
    BY <2>2 DEF Refuse
  <2>3. ASSUME NEW r \in Requests, Transit(r) PROVE TypeOK'
    <3>1. obj' \in [Requests -> Tickets]
      BY <2>3, TransitEffect
    <3>2. stamp' \in [Requests -> Seconds \cup {None}]
      BY <2>3 DEF Transit, Progress
    <3> QED BY <2>3, <3>1, <3>2 DEF Transit, Progress
  <2>4. ASSUME NEW r \in Requests, StoreComment(r) PROVE TypeOK'
    BY <2>4 DEF StoreComment
  <2>5. ASSUME NEW r \in Requests, Change(r) PROVE TypeOK'
    <3>1. obj' \in [Requests -> Tickets]
      BY <2>5, ChangeEffect
    <3> QED BY <2>5, <3>1 DEF Change
  <2>6. ASSUME NEW r \in Requests, Save(r) PROVE TypeOK'
    BY <2>6 DEF Save, Tickets
  <2>7. ASSUME NEW r \in Requests, Record(r) PROVE TypeOK'
    <3>1. history' \in Seq(Lines)
      BY <2>7, RecordLine
    <3> QED BY <2>7, <3>1 DEF Record, Lines
  <2>8. ASSUME NEW r \in Requests, Crash(r) PROVE TypeOK'
    BY <2>8 DEF Crash
  <2>9. CASE Tick
    BY <2>9 DEF Tick, Seconds
  <2>10. CASE UNCHANGED vars
    BY <2>10 DEF vars
  <2> QED BY <1>2, <2>1, <2>2, <2>3, <2>4, <2>5, <2>6, <2>7, <2>8, <2>9, <2>10 DEF Next
<1> QED BY <1>1, <1>2, PTL DEF Spec

(***************************************************************************)
(* The inductive invariant.  What a request loaded and what it is about to *)
(* write stay behind while others move the ticket on, so each part speaks  *)
(* of ticket, of was and of obj.                                           *)
(***************************************************************************)
\* A request at work has a sender and a purpose, and took no second yet unless
\* it is past the transition.
AtWork ==
  \A r \in Requests :
    /\ pc[r] # "idle" => who[r] \in Users /\ kind[r] \in {"progress", "update"}
    /\ pc[r] \in {"transit", "comment"} => kind[r] = "progress"
    /\ pc[r] = "change" => kind[r] = "update"
    /\ pc[r] \in {"idle", "transit", "change"} => stamp[r] = None
    /\ pc[r] = "comment" => stamp[r] # None

\* A transition about to be written is one its author may take, from the state he
\* loaded, and that ticket was open.
Entitled ==
  \A r \in Requests :
    kind[r] = "progress" /\ pc[r] \in {"comment", "save", "record", "ok"} =>
      was[r].open /\ Allows(was[r].state, obj[r].state, RolesOf[who[r]])

\* Only those who are done have a line in the history.
HistoryOfDone == \A i \in DOMAIN history : pc[history[i].req] = "ok"

\* A ticket bears the name of somebody who has written it.
Written(r) == pc[r] \in {"record", "ok", "crashed"}
AuthorsWrote ==
  \A r \in Requests :
    /\ ticket.by = r => Written(r)
    /\ \A q \in Requests : /\ was[q].by = r => Written(r)
                           /\ obj[q].by = r => q = r \/ Written(r)

\* is_open fits the state wherever a transition set both.
Fits(t) ==
  t.by # None => /\ pc[t.by] # "idle"
                 /\ kind[t.by] = "progress" => t.open = HasNext(t.state)
AllFit == Fits(ticket) /\ \A r \in Requests : Fits(was[r]) /\ Fits(obj[r])

\* The states in use lie in every closed set that has those the ticket was put
\* in, but for the one an update is about to put it in.
Reached ==
  \A S \in SUBSET Names :
    placed \subseteq S /\ Closed(S) =>
      /\ ticket.state \in S
      /\ \A r \in Requests :
           /\ was[r].state \in S
           /\ obj[r].state \in S \/ (kind[r] = "update" /\ obj[r].by = r)

\* A comment lies in the second its author took, and no author past storing
\* finds the place empty.
CommentsPlaced ==
  /\ \A s \in Seconds : comments[s] # None => stamp[comments[s]] = s
  /\ \A r \in Requests :
       pc[r] \in {"save", "record", "ok"} /\ stamp[r] # None => comments[stamp[r]] # None

\* Whoever was told of success has his change in the history.
DoneRecorded ==
  \A r \in Requests : pc[r] = "ok" /\ was[r].state # obj[r].state => RecordedBy(r)

Inv == /\ TypeOK
       /\ AtWork
       /\ Entitled
       /\ HistoryOfDone
       /\ HistoryLegal
       /\ AuthorsWrote
       /\ AllFit
       /\ Reached
       /\ CommentsPlaced
       /\ DoneRecorded

\* The steps there are, one by one
LEMMA NextCases ==
  ASSUME Next
  PROVE  \/ \E r \in Requests : Load(r)
         \/ \E r \in Requests : Refuse(r)
         \/ \E r \in Requests : Transit(r)
         \/ \E r \in Requests : StoreComment(r)
         \/ \E r \in Requests : Change(r)
         \/ \E r \in Requests : Save(r)
         \/ \E r \in Requests : Record(r)
         \/ \E r \in Requests : Crash(r)
         \/ Tick
BY DEF Next

\* The invariant holds at the beginning.
LEMMA InitInv == Init => Inv
<1> SUFFICES ASSUME Init PROVE Inv
  OBVIOUS
<1>1. TypeOK
  BY InitialNames DEF Init, TypeOK, Tickets, Points, Seconds
<1>2. /\ \A r \in Requests : pc[r] = "idle" /\ kind[r] = "none" /\ stamp[r] = None
      /\ \A r \in Requests : was[r] = ticket /\ obj[r] = ticket
      /\ ticket.by = None /\ ticket.state \in placed
      /\ history = <<>> /\ DOMAIN history = {}
      /\ \A s \in Seconds : comments[s] = None
  BY DEF Init
<1>3. AtWork /\ Entitled /\ HistoryOfDone /\ HistoryLegal /\ AuthorsWrote /\ DoneRecorded
  BY <1>2 DEF AtWork, Entitled, HistoryOfDone, HistoryLegal, AuthorsWrote, DoneRecorded
<1>4. AllFit /\ Reached /\ CommentsPlaced
  BY <1>2 DEF AllFit, Fits, Reached, CommentsPlaced
<1> QED BY <1>1, <1>3, <1>4 DEF Inv

\* A step keeps what is known of the requests at work.
LEMMA AtWorkKept ==
  ASSUME TypeOK, AtWork, Next
  PROVE  AtWork'
<1> USE DEF TypeOK, AtWork
<1>1. ASSUME NEW r \in Requests, Load(r) PROVE AtWork'
  BY <1>1 DEF Load
<1>2. ASSUME NEW r \in Requests, Refuse(r) PROVE AtWork'
  BY <1>2 DEF Refuse
<1>3. ASSUME NEW r \in Requests, Transit(r) PROVE AtWork'
  BY <1>3 DEF Transit, Progress, Seconds
<1>4. ASSUME NEW r \in Requests, StoreComment(r) PROVE AtWork'
  BY <1>4 DEF StoreComment
<1>5. ASSUME NEW r \in Requests, Change(r) PROVE AtWork'
  BY <1>5 DEF Change
<1>6. ASSUME NEW r \in Requests, Save(r) PROVE AtWork'
  BY <1>6 DEF Save
<1>7. ASSUME NEW r \in Requests, Record(r) PROVE AtWork'
  BY <1>7 DEF Record
<1>8. ASSUME NEW r \in Requests, Crash(r) PROVE AtWork'
  BY <1>8 DEF Crash
<1>9. CASE Tick
  BY <1>9 DEF Tick
<1> QED BY <1>1, <1>2, <1>3, <1>4, <1>5, <1>6, <1>7, <1>8, <1>9, NextCases

\* A step keeps it that transitions are computed for who may take them.
LEMMA EntitledKept ==
  ASSUME TypeOK, AtWork, Entitled, Next
  PROVE  Entitled'
<1> USE DEF TypeOK, Entitled
<1>1. ASSUME NEW r \in Requests, Load(r) PROVE Entitled'
  BY <1>1 DEF Load
<1>2. ASSUME NEW r \in Requests, Refuse(r) PROVE Entitled'
  BY <1>2 DEF Refuse
<1>3. ASSUME NEW r \in Requests, Transit(r) PROVE Entitled'
  <2>1. PICK t \in Tickets :
          /\ was[r].open
          /\ obj' = [obj EXCEPT ![r] = t]
          /\ Allows(was[r].state, t.state, RolesOf[who[r]])
    BY <1>3, TransitEffect
  <2>2. UNCHANGED <<kind, who, was>> /\ \A q \in Requests : q # r => pc'[q] = pc[q]
    BY <1>3 DEF Transit, Progress
  <2> QED BY <2>1, <2>2
<1>4. ASSUME NEW r \in Requests, StoreComment(r) PROVE Entitled'
  BY <1>4 DEF StoreComment
<1>5. ASSUME NEW r \in Requests, Change(r) PROVE Entitled'
  <2>1. kind[r] = "update"
    BY <1>5 DEF Change, AtWork
  <2> QED BY <1>5, <2>1, ChangeEffect DEF Change
<1>6. ASSUME NEW r \in Requests, Save(r) PROVE Entitled'
  BY <1>6 DEF Save
<1>7. ASSUME NEW r \in Requests, Record(r) PROVE Entitled'
  BY <1>7 DEF Record
<1>8. ASSUME NEW r \in Requests, Crash(r) PROVE Entitled'
  BY <1>8 DEF Crash
<1>9. CASE Tick
  BY <1>9 DEF Tick
<1> QED BY <1>1, <1>2, <1>3, <1>4, <1>5, <1>6, <1>7, <1>8, <1>9, NextCases

\* A line is written by a request on its way to "ok", and legal because what it
\* wrote was; the lines of others stay, and nobody whose line is there starts
\* another request.
LEMMA HistoryKept ==
  ASSUME TypeOK, AtWork, Entitled, HistoryOfDone, HistoryLegal, Next
  PROVE  HistoryOfDone' /\ HistoryLegal'
<1> DEFINE Safe == HistoryOfDone' /\ HistoryLegal'
<1>1. ASSUME NEW i \in DOMAIN history
      PROVE  history[i] \in Lines
  BY ElementOfSequence DEF TypeOK, Lines
<1>2. ASSUME UNCHANGED history,
             \A q \in Requests : pc[q] = "ok" =>
               pc'[q] = "ok" /\ kind'[q] = kind[q] /\ who'[q] = who[q]
      PROVE  Safe
  BY <1>1, <1>2 DEF HistoryOfDone, HistoryLegal, Lines
<1>3. ASSUME NEW r \in Requests, Load(r) PROVE Safe
  BY <1>2, <1>3 DEF Load, TypeOK
<1>4. ASSUME NEW r \in Requests, Refuse(r) PROVE Safe
  BY <1>2, <1>4 DEF Refuse, TypeOK
<1>5. ASSUME NEW r \in Requests, Transit(r) PROVE Safe
  BY <1>2, <1>5 DEF Transit, Progress, TypeOK
<1>6. ASSUME NEW r \in Requests, StoreComment(r) PROVE Safe
  BY <1>2, <1>6 DEF StoreComment, TypeOK
<1>7. ASSUME NEW r \in Requests, Change(r) PROVE Safe
  BY <1>2, <1>7 DEF Change, TypeOK
<1>8. ASSUME NEW r \in Requests, Save(r) PROVE Safe
  BY <1>2, <1>8 DEF Save, TypeOK
<1>9. ASSUME NEW r \in Requests, Record(r) PROVE Safe
  <2>1. UNCHANGED <<kind, who>> /\ pc'[r] = "ok"
        /\ \A q \in Requests : q # r => pc'[q] = pc[q]
    BY <1>9 DEF Record, TypeOK
  <2>2. kind[r] = "progress" => Allows(was[r].state, obj[r].state, RolesOf[who[r]])
    BY <1>9 DEF Record, Entitled
  <2>3. Line(r).req = r /\ Line(r).old = was[r].state /\ Line(r).new = obj[r].state
    BY DEF Line
  <2>4. ASSUME NEW i \in DOMAIN history'
        PROVE  \/ i \in DOMAIN history /\ history'[i] = history[i]
               \/ history'[i] = Line(r)
    BY <1>9, RecordLine
  <2>5. HistoryOfDone'
    BY <1>1, <2>1, <2>3, <2>4 DEF HistoryOfDone, Lines
  <2>6. HistoryLegal'
    BY <2>1, <2>2, <2>3, <2>4 DEF HistoryLegal
  <2> QED BY <2>5, <2>6
<1>10. ASSUME NEW r \in Requests, Crash(r) PROVE Safe
  BY <1>2, <1>10 DEF Crash, TypeOK
<1>11. CASE Tick
  BY <1>2, <1>11 DEF Tick
<1> QED BY <1>3, <1>4, <1>5, <1>6, <1>7, <1>8, <1>9, <1>10, <1>11, NextCases

\* A step keeps it that authors have written.
LEMMA AuthorsWroteKept ==
  ASSUME TypeOK, AuthorsWrote, Next
  PROVE  AuthorsWrote'
<1> USE DEF TypeOK, AuthorsWrote, Written
<1>1. ASSUME NEW r \in Requests, Load(r) PROVE AuthorsWrote'
  BY <1>1 DEF Load
<1>2. ASSUME NEW r \in Requests, Refuse(r) PROVE AuthorsWrote'
  BY <1>2 DEF Refuse
<1>3. ASSUME NEW r \in Requests, Transit(r) PROVE AuthorsWrote'
  <2>1. PICK t \in Tickets : obj' = [obj EXCEPT ![r] = t] /\ t.by = r
    BY <1>3, TransitEffect
  <2>2. /\ UNCHANGED <<ticket, was>>
        /\ \A q \in Requests : Written(q) => pc'[q] = pc[q]
    BY <1>3 DEF Transit, Progress
  <2> QED BY <2>1, <2>2
<1>4. ASSUME NEW r \in Requests, StoreComment(r) PROVE AuthorsWrote'
  BY <1>4 DEF StoreComment
<1>5. ASSUME NEW r \in Requests, Change(r) PROVE AuthorsWrote'
  <2>1. PICK t \in Tickets : obj' = [obj EXCEPT ![r] = t] /\ (t = obj[r] \/ t.by = r)
    BY <1>5, ChangeEffect
  <2>2. /\ UNCHANGED <<ticket, was>>
        /\ \A q \in Requests : Written(q) => pc'[q] = pc[q]
    BY <1>5 DEF Change
  <2> QED BY <2>1, <2>2
<1>6. ASSUME NEW r \in Requests, Save(r) PROVE AuthorsWrote'
  BY <1>6 DEF Save
<1>7. ASSUME NEW r \in Requests, Record(r) PROVE AuthorsWrote'
  BY <1>7 DEF Record
<1>8. ASSUME NEW r \in Requests, Crash(r) PROVE AuthorsWrote'
  BY <1>8 DEF Crash
<1>9. CASE Tick
  BY <1>9 DEF Tick
<1> QED BY <1>1, <1>2, <1>3, <1>4, <1>5, <1>6, <1>7, <1>8, <1>9, NextCases

\* Once a ticket fits its author it fits: he is under way and stays what he is.
LEMMA AllFitKept ==
  ASSUME TypeOK, AtWork, AllFit, Next
  PROVE  AllFit'
<1>1. ASSUME NEW t \in Tickets, Fits(t),
             \A q \in Requests : pc[q] # "idle" => pc'[q] # "idle" /\ kind'[q] = kind[q]
      PROVE  Fits(t)'
  BY <1>1 DEF Fits, Tickets
<1>2. ASSUME \A q \in Requests : pc[q] # "idle" => pc'[q] # "idle" /\ kind'[q] = kind[q],
             ticket' \in {ticket} \cup {obj[q] : q \in Requests},
             \A q \in Requests : /\ was'[q] \in {was[q], ticket}
                                 /\ obj'[q] \in {obj[q], ticket} \/ Fits(obj[q])'
      PROVE  AllFit'
  BY <1>1, <1>2 DEF AllFit, TypeOK
<1> USE DEF TypeOK
<1>3. ASSUME NEW r \in Requests, Load(r) PROVE AllFit'
  BY <1>2, <1>3 DEF Load
<1>4. ASSUME NEW r \in Requests, Refuse(r) PROVE AllFit'
  BY <1>2, <1>4 DEF Refuse
<1>5. ASSUME NEW r \in Requests, Transit(r) PROVE AllFit'
  <2>0. PICK t \in Tickets : /\ obj' = [obj EXCEPT ![r] = t]
                             /\ t.by = r
                             /\ t.open = HasNext(t.state)
    BY <1>5, TransitEffect
  <2>1. Fits(obj[r])'
    BY <1>5, <2>0 DEF Fits, Transit, Progress
  <2>2. \A q \in Requests : q # r => obj'[q] = obj[q]
    BY <2>0
  <2>3. UNCHANGED <<ticket, was, kind>>
        /\ \A q \in Requests : pc[q] # "idle" => pc'[q] # "idle"
    BY <1>5 DEF Transit, Progress
  <2> QED BY <1>2, <2>1, <2>2, <2>3
<1>6. ASSUME NEW r \in Requests, StoreComment(r) PROVE AllFit'
  BY <1>2, <1>6 DEF StoreComment
<1>7. ASSUME NEW r \in Requests, Change(r) PROVE AllFit'
  <2>1. kind[r] = "update" /\ UNCHANGED <<ticket, was, kind>> /\ pc'[r] = "save"
        /\ \A q \in Requests : pc[q] # "idle" => pc'[q] # "idle"
    BY <1>7 DEF Change, AtWork
  <2>2. PICK t \in Tickets : obj' = [obj EXCEPT ![r] = t] /\ (t = obj[r] \/ t.by = r)
    BY <1>7, ChangeEffect
  <2>3. \A q \in Requests : q # r => obj'[q] = obj[q]
    BY <2>2
  <2>4. obj'[r] = obj[r] \/ Fits(obj[r])'
    BY <2>1, <2>2 DEF Fits
  <2> QED BY <1>2, <2>1, <2>3, <2>4
<1>8. ASSUME NEW r \in Requests, Save(r) PROVE AllFit'
  BY <1>2, <1>8 DEF Save
<1>9. ASSUME NEW r \in Requests, Record(r) PROVE AllFit'
  BY <1>2, <1>9 DEF Record
<1>10. ASSUME NEW r \in Requests, Crash(r) PROVE AllFit'
  BY <1>2, <1>10 DEF Crash
<1>11. CASE Tick
  BY <1>2, <1>11 DEF Tick
<1> QED BY <1>3, <1>4, <1>5, <1>6, <1>7, <1>8, <1>9, <1>10, <1>11, NextCases

\* A transition stays in the closed sets, an update adds the state it sets to
\* placed when it writes it, and everybody else copies tickets.
LEMMA ReachedKept ==
  ASSUME TypeOK, AtWork, Reached, Next
  PROVE  Reached'
<1> SUFFICES ASSUME NEW S \in SUBSET Names, placed' \subseteq S, Closed(S)
             PROVE  /\ ticket'.state \in S
                    /\ \A q \in Requests :
                         /\ was'[q].state \in S
                         /\ obj'[q].state \in S \/ (kind'[q] = "update" /\ obj'[q].by = q)
  BY DEF Reached
<1> DEFINE Here == /\ ticket'.state \in S
                   /\ \A q \in Requests :
                        /\ was'[q].state \in S
                        /\ obj'[q].state \in S \/ (kind'[q] = "update" /\ obj'[q].by = q)
<1>1. ASSUME placed \subseteq S
      PROVE  /\ ticket.state \in S
             /\ \A q \in Requests :
                  /\ was[q].state \in S
                  /\ obj[q].state \in S \/ (kind[q] = "update" /\ obj[q].by = q)
  BY <1>1 DEF Reached
<1> USE DEF TypeOK
<1>2. ASSUME NEW r \in Requests, Load(r) PROVE Here
  BY <1>1, <1>2 DEF Load
<1>3. ASSUME NEW r \in Requests, Refuse(r) PROVE Here
  BY <1>1, <1>3 DEF Refuse
<1>4. ASSUME NEW r \in Requests, Transit(r) PROVE Here
  <2>1. PICK t \in Tickets :
          /\ obj' = [obj EXCEPT ![r] = t]
          /\ \A T : was[r].state \in T /\ Closed(T) => t.state \in T
    BY <1>4, TransitEffect
  <2>2. UNCHANGED <<ticket, was, kind, placed>>
    BY <1>4 DEF Transit, Progress
  <2>3. t.state \in S
    BY <1>1, <2>1, <2>2
  <2> QED BY <1>1, <2>1, <2>2, <2>3
<1>5. ASSUME NEW r \in Requests, StoreComment(r) PROVE Here
  BY <1>1, <1>5 DEF StoreComment
<1>6. ASSUME NEW r \in Requests, Change(r) PROVE Here
  <2>1. PICK t \in Tickets : obj' = [obj EXCEPT ![r] = t] /\ (t = obj[r] \/ t.by = r)
    BY <1>6, ChangeEffect
  <2>2. UNCHANGED <<ticket, was, kind, placed>> /\ kind[r] = "update"
    BY <1>6 DEF Change, AtWork
  <2> QED BY <1>1, <2>1, <2>2
<1>7. ASSUME NEW r \in Requests, Save(r) PROVE Here
  BY <1>1, <1>7 DEF Save
<1>8. ASSUME NEW r \in Requests, Record(r) PROVE Here
  BY <1>1, <1>8 DEF Record
<1>9. ASSUME NEW r \in Requests, Crash(r) PROVE Here
  BY <1>1, <1>9 DEF Crash
<1>10. CASE Tick
  BY <1>1, <1>10 DEF Tick
<1> QED BY <1>2, <1>3, <1>4, <1>5, <1>6, <1>7, <1>8, <1>9, <1>10, NextCases

\* A request takes its second once, before it stores a comment.
LEMMA CommentsPlacedKept ==
  ASSUME TypeOK, AtWork, CommentsPlaced, Next
  PROVE  CommentsPlaced'
<1> USE DEF TypeOK, CommentsPlaced
<1>1. ASSUME NEW r \in Requests, Load(r) PROVE CommentsPlaced'
  BY <1>1 DEF Load
<1>2. ASSUME NEW r \in Requests, Refuse(r) PROVE CommentsPlaced'
  BY <1>2 DEF Refuse
<1>3. ASSUME NEW r \in Requests, Transit(r) PROVE CommentsPlaced'
  <2>1. stamp[r] = None /\ pc[r] = "transit" /\ UNCHANGED comments
    BY <1>3 DEF Transit, Progress, AtWork
  <2>2. /\ \A q \in Requests : q # r => stamp'[q] = stamp[q] /\ pc'[q] = pc[q]
        /\ stamp'[r] # None => pc'[r] = "comment"
    BY <1>3, <2>1 DEF Transit, Progress
  <2>3. \A s \in Seconds : comments[s] # None => comments[s] \in Requests /\ comments[s] # r
    BY <2>1 DEF Seconds
  <2> QED BY <2>1, <2>2, <2>3
<1>4. ASSUME NEW r \in Requests, StoreComment(r) PROVE CommentsPlaced'
  BY <1>4 DEF StoreComment, AtWork
<1>5. ASSUME NEW r \in Requests, Change(r) PROVE CommentsPlaced'
  BY <1>5 DEF Change, AtWork
<1>6. ASSUME NEW r \in Requests, Save(r) PROVE CommentsPlaced'
  BY <1>6 DEF Save
<1>7. ASSUME NEW r \in Requests, Record(r) PROVE CommentsPlaced'
  BY <1>7 DEF Record
<1>8. ASSUME NEW r \in Requests, Crash(r) PROVE CommentsPlaced'
  BY <1>8 DEF Crash
<1>9. CASE Tick
  BY <1>9 DEF Tick
<1> QED BY <1>1, <1>2, <1>3, <1>4, <1>5, <1>6, <1>7, <1>8, <1>9, NextCases

\* A step keeps it that what succeeded is recorded.
LEMMA DoneRecordedKept ==
  ASSUME TypeOK, DoneRecorded, Next
  PROVE  DoneRecorded'
<1>1. ASSUME UNCHANGED history,
             \A q \in Requests : pc'[q] = "ok" =>
               pc[q] = "ok" /\ was'[q] = was[q] /\ obj'[q] = obj[q]
      PROVE  DoneRecorded'
  BY <1>1 DEF DoneRecorded, RecordedBy
<1> USE DEF TypeOK
<1>2. ASSUME NEW r \in Requests, Load(r) PROVE DoneRecorded'
  BY <1>1, <1>2 DEF Load
<1>3. ASSUME NEW r \in Requests, Refuse(r) PROVE DoneRecorded'
  BY <1>1, <1>3 DEF Refuse
<1>4. ASSUME NEW r \in Requests, Transit(r) PROVE DoneRecorded'
  <2>1. PICK t \in Tickets : obj' = [obj EXCEPT ![r] = t]
    BY <1>4, TransitEffect
  <2> QED BY <1>1, <1>4, <2>1 DEF Transit, Progress
<1>5. ASSUME NEW r \in Requests, StoreComment(r) PROVE DoneRecorded'
  BY <1>1, <1>5 DEF StoreComment
<1>6. ASSUME NEW r \in Requests, Change(r) PROVE DoneRecorded'
  <2>1. PICK t \in Tickets : obj' = [obj EXCEPT ![r] = t]
    BY <1>6, ChangeEffect
  <2> QED BY <1>1, <1>6, <2>1 DEF Change
<1>7. ASSUME NEW r \in Requests, Save(r) PROVE DoneRecorded'
  BY <1>1, <1>7 DEF Save
<1>8. ASSUME NEW r \in Requests, Record(r) PROVE DoneRecorded'
  <2>1. UNCHANGED <<was, obj>> /\ \A q \in Requests : q # r => pc'[q] = pc[q]
    BY <1>8 DEF Record
  <2>2. Line(r).req = r
    BY DEF Line
  <2>3. ASSUME NEW q \in Requests, RecordedBy(q) PROVE RecordedBy(q)'
    BY <1>8, <2>3, RecordLine DEF RecordedBy
  <2>4. was[r].state # obj[r].state => RecordedBy(r)'
    BY <1>8, <2>2, RecordLine DEF RecordedBy
  <2> QED BY <2>1, <2>3, <2>4 DEF DoneRecorded
<1>9. ASSUME NEW r \in Requests, Crash(r) PROVE DoneRecorded'
  BY <1>1, <1>9 DEF Crash
<1>10. CASE Tick
  BY <1>1, <1>10 DEF Tick
<1> QED BY <1>2, <1>3, <1>4, <1>5, <1>6, <1>7, <1>8, <1>9, <1>10, NextCases

(***************************************************************************)
(* The theorems                                                            *)
(***************************************************************************)
THEOREM Invariance == Spec => []Inv
<1>1. Init => Inv
  BY InitInv
<1>2. ASSUME Inv, TypeOK', [Next]_vars PROVE Inv'
  <2>1. CASE Next
    BY <1>2, <2>1, AtWorkKept, EntitledKept, HistoryKept, AuthorsWroteKept, AllFitKept,
       ReachedKept, CommentsPlacedKept, DoneRecordedKept DEF Inv
  <2>2. CASE UNCHANGED vars
    BY <1>2, <2>2 DEF Inv, vars, AtWork, Entitled, HistoryOfDone, HistoryLegal, AuthorsWrote,
       Written, AllFit, Fits, Reached, CommentsPlaced, DoneRecorded, RecordedBy
  <2> QED BY <1>2, <2>1, <2>2
<1> QED BY <1>1, <1>2, TypeCorrect, PTL DEF Spec

\* Overlapping transitions, plain updates that write back what they loaded and
\* workers that die bring the ticket into no state that the workflow does not
\* reach from where it was put.
THEOREM StaysOnWorkflow == Spec => []OnWorkflow
<1>1. Inv => OnWorkflow
  BY DEF Inv, Reached, OnWorkflow
<1> QED BY <1>1, Invariance, PTL

\* is_open is what check_open_state says of the state, until an update sets one
\* of the two itself.
THEOREM OpenFollowsState == Spec => []OpenMeansNext
<1>1. Inv => OpenMeansNext
  BY DEF Inv, AllFit, Fits, OpenMeansNext
<1> QED BY <1>1, Invariance, PTL

\* Every transition in history.jsonl is one the workflow grants to a role of its
\* author, from the state he loaded.
THEOREM HistoryIsLegal == Spec => []HistoryLegal
<1>1. Inv => HistoryLegal
  BY DEF Inv
<1> QED BY <1>1, Invariance, PTL

\* The answers are true of the file, of the history and of the comments.
THEOREM AnswersTrue == Spec => []AnswerIsTrue
<1>1. ASSUME Inv, NEW r \in Requests, pc[r] = "ok"
      PROVE  /\ was[r].state # obj[r].state => RecordedBy(r)
             /\ stamp[r] # None => /\ comments[stamp[r]] # None
                                   /\ stamp[comments[stamp[r]]] = stamp[r]
  BY <1>1 DEF Inv, DoneRecorded, CommentsPlaced, TypeOK
<1>2. ASSUME Inv, NEW r \in Requests, pc[r] = "refused"
      PROVE  ~RecordedBy(r) /\ ticket.by # r
  BY <1>2 DEF Inv, HistoryOfDone, AuthorsWrote, Written, RecordedBy
<1>3. Inv => AnswerIsTrue
  BY <1>1, <1>2 DEF AnswerIsTrue
<1> QED BY <1>3, Invariance, PTL

\* Only a request that saw the ticket open, or an update that sets is_open, opens
\* a closed one.
THEOREM OnlyOvertakenReopen == Spec => ReopenOvertaken
<1> DEFINE A == ~ticket.open /\ ticket'.open =>
                  \E r \in Requests :
                    pc'[r] # pc[r] /\ (was[r].open \/ (kind[r] = "update" /\ obj[r] # was[r]))
<1>1. ASSUME Inv, [Next]_vars, ~ticket.open, ticket'.open
      PROVE  \E r \in Requests :
               pc'[r] # pc[r] /\ (was[r].open \/ (kind[r] = "update" /\ obj[r] # was[r]))
  <2>1. PICK r \in Requests : Save(r)
    <3>1. ticket' # ticket
      BY <1>1
    <3> QED BY <1>1, <3>1, NextCases
            DEF vars, Load, Refuse, Transit, Progress, StoreComment, Change, Record, Crash, Tick
  <2>2. pc[r] = "save" /\ pc'[r] # pc[r] /\ obj[r].open
    BY <1>1, <2>1 DEF Save, Inv, TypeOK
  <2>3. kind[r] \in {"progress", "update"} /\ (kind[r] = "progress" => was[r].open)
    BY <1>1, <2>2 DEF Inv, AtWork, Entitled
  <2> QED BY <2>2, <2>3
<1>2. Inv /\ [Next]_vars => [A]_vars
  BY <1>1
<1> QED BY <1>2, Invariance, PTL DEF Spec, ReopenOvertaken

-----------------------------------------------------------------------------
(***************************************************************************)
(* The pages of queries: counting, and lists of numbers in order           *)
(***************************************************************************)
HIDE BoundAssumption
HIDE NoneAssumption DEF Goto, requestVars

\* A set of numbers that is not empty has a smallest.
LEMMA Smallest ==
  ASSUME NEW P \in SUBSET Nat, P # {}
  PROVE  \E i \in P : \A j \in P : i <= j
<1> DEFINE R == OpToRel(<, Nat)
<1>1. IsWellFoundedOn(R, Nat)  BY NatLessThanWellFounded
<1>2. \A x, y \in Nat : x < y => <<x, y>> \in R  BY DEF OpToRel
<1> HIDE DEF R
<1>3. PICK i \in P : \A j \in P : ~(<<j, i>> \in R)  BY <1>1, WFMin
<1>4. ASSUME NEW j \in P PROVE i <= j
  <2>1. i \in Nat /\ j \in Nat  OBVIOUS
  <2>2. ~(j < i)  BY <1>2, <1>3, <2>1
  <2> QED BY <2>1, <2>2
<1> QED BY <1>4

\* Counting up to n, each number taking the next one with it
LEMMA Counting ==
  ASSUME NEW n \in Nat, NEW P, 0 \in P, \A i \in 0..n : i < n /\ i \in P => i + 1 \in P
  PROVE  \A i \in 0..n : i \in P
<1> DEFINE Bad == {i \in 0..n : i \notin P}
<1> SUFFICES ASSUME Bad # {} PROVE FALSE
  OBVIOUS
<1>1. PICK i \in Bad : \A j \in Bad : i <= j
  <2>1. Bad \in SUBSET Nat
    OBVIOUS
  <2> QED BY <2>1, Smallest
<1>2. i \in Nat /\ i # 0 /\ i <= n /\ i \notin P
  BY <1>1
<1>3. i - 1 \in 0..n /\ i - 1 < n /\ (i - 1) + 1 = i /\ ~(i <= i - 1)
  BY <1>2
<1>4. i - 1 \in P
  BY <1>1, <1>3
<1> QED BY <1>2, <1>3, <1>4

\* What But is after each element of the list
LEMMA ButSteps ==
  ASSUME NEW T, NEW s \in Seq(T), NEW S
  PROVE  \E f : /\ f[0] = <<>> /\ But(s, S) = f[Len(s)]
                /\ \A i \in 1..Len(s) : f[i] = IF s[i] \in S THEN f[i - 1] ELSE Append(f[i - 1], s[i])
<1>1. PICK n \in Nat : n = Len(s)
  BY LenProperties
<1> DEFINE Then(f, i) == IF i = 0 THEN <<>> ELSE IF s[i] \in S THEN f[i - 1] ELSE Append(f[i - 1], s[i])
           P == {m \in 0..n : \E f : f = [i \in 0..m |-> Then(f, i)]}
<1>2. 0 \in P
  <2>1. PICK f : f = [i \in 0..0 |-> <<>>]
    OBVIOUS
  <2>2. \A i \in 0..0 : Then(f, i) = <<>>
    OBVIOUS
  <2>3. f = [i \in 0..0 |-> Then(f, i)]
    BY <2>1, <2>2
  <2> QED BY <1>1, <2>3
<1>3. ASSUME NEW m \in 0..n, m < n, m \in P PROVE m + 1 \in P
  <2>1. PICK f : f = [i \in 0..m |-> Then(f, i)]
    BY <1>3
  <2>2. PICK g : g = [i \in 0..m + 1 |-> IF i <= m THEN f[i] ELSE Then(f, i)]
    OBVIOUS
  <2>3. ASSUME NEW i \in 0..m PROVE g[i] = f[i] /\ f[i] = Then(f, i)
    <3>1. i \in 0..m + 1 /\ i <= m
      BY <1>3
    <3> HIDE DEF Then
    <3> QED BY <2>1, <2>2, <3>1
  <2>4. \A i \in 0..m + 1 : g[i] = Then(g, i)
    <3> SUFFICES ASSUME NEW i \in 0..m + 1 PROVE g[i] = Then(g, i)
      OBVIOUS
    <3>1. i = 0 \/ i - 1 \in 0..m
      BY <1>3
    <3>2. Then(g, i) = Then(f, i)
      BY <2>3, <3>1
    <3>3. g[i] = Then(f, i)
      <4>1. i \in 0..m \/ ~(i <= m)
        BY <1>3
      <4> HIDE DEF Then
      <4> QED BY <2>2, <2>3, <4>1
    <3> QED BY <3>2, <3>3
  <2>5. g = [i \in 0..m + 1 |-> Then(g, i)]
    BY <2>2, <2>4
  <2>6. m + 1 \in 0..n
    BY <1>3
  <2> QED BY <2>5, <2>6
<1>4. n \in P
  <2> HIDE DEF P
  <2>1. \A m \in 0..n : m < n /\ m \in P => m + 1 \in P
    BY <1>3
  <2>2. \A m \in 0..n : m \in P
    BY <1>2, <2>1, Counting
  <2> QED BY <2>2
<1> DEFINE f == CHOOSE f : f = [i \in 0..n |-> Then(f, i)]
<1>5. f = [i \in 0..n |-> Then(f, i)]
  BY <1>4
<1>6. But(s, S) = f[n]
  BY <1>1 DEF But
<1> HIDE DEF f
<1>7. f[0] = <<>> /\ \A i \in 1..n : f[i] = IF s[i] \in S THEN f[i - 1] ELSE Append(f[i - 1], s[i])
  <2>1. \A i \in 0..n : f[i] = Then(f, i)
    <3> HIDE DEF Then
    <3> QED BY <1>5
  <2>2. 0 \in 0..n /\ \A i \in 1..n : i \in 0..n /\ i # 0
    OBVIOUS
  <2> QED BY <2>1, <2>2
<1> QED BY <1>1, <1>6, <1>7

\* The elements of a list, one by one
LEMMA Elements ==
  ASSUME NEW T, NEW s \in Seq(T)
  PROVE  /\ ToSet(s) = {s[j] : j \in 1..Len(s)} /\ ToSet(s) \subseteq T
         /\ \A x : x \in ToSet(s) <=> \E j \in 1..Len(s) : s[j] = x
<1>1. DOMAIN s = 1..Len(s) /\ \A j \in 1..Len(s) : s[j] \in T
  BY LenProperties
<1>2. ToSet(s) = {s[j] : j \in 1..Len(s)}
  BY <1>1 DEF ToSet
<1> QED BY <1>1, <1>2

\* A list belongs to the set that its elements are in.
LEMMA Typed ==
  ASSUME NEW X, NEW s \in Seq(X), NEW T, ToSet(s) \subseteq T
  PROVE  s \in Seq(T)
<1>1. PICK n \in Nat : n = Len(s) /\ s \in [1..n -> X]
  BY LenProperties
<1>2. \A j \in 1..n : s[j] \in T
  BY <1>1, Elements
<1>3. s \in [1..n -> T]
  BY <1>1, <1>2
<1> QED BY <1>3

\* A list has one more element after Append.
LEMMA Added ==
  ASSUME NEW T, NEW s \in Seq(T), NEW x \in T
  PROVE  /\ Append(s, x) \in Seq(T) /\ Len(Append(s, x)) = Len(s) + 1
         /\ \A j \in 1..Len(s) : Append(s, x)[j] = s[j]
         /\ Append(s, x)[Len(s) + 1] = x
         /\ ToSet(Append(s, x)) = ToSet(s) \cup {x}
<1>1. PICK m \in Nat : m = Len(s)
  BY LenProperties
<1>2. PICK r : r = Append(s, x)
  OBVIOUS
<1>3. r \in Seq(T) /\ Len(r) = m + 1 /\ (\A j \in 1..m : r[j] = s[j]) /\ r[m + 1] = x
  BY <1>1, <1>2, AppendProperties
<1>4. 1..(m + 1) = (1..m) \cup {m + 1}
  OBVIOUS
<1>5. ToSet(s) = {s[j] : j \in 1..m} /\ ToSet(r) = {r[j] : j \in 1..(m + 1)}
  BY <1>1, <1>3, Elements
<1>6. {r[j] : j \in 1..(m + 1)} = {s[j] : j \in 1..m} \cup {x}
  BY <1>3, <1>4
<1>7. ToSet(r) = ToSet(s) \cup {x}
  BY <1>5, <1>6
<1> HIDE DEF ToSet
<1> QED BY <1>1, <1>2, <1>3, <1>7

\* But keeps the elements that are not in S, and is shorter if there are any that are.
LEMMA ButFacts ==
  ASSUME NEW T, NEW s \in Seq(T), NEW S
  PROVE  /\ But(s, S) \in Seq(T) /\ Len(But(s, S)) <= Len(s)
         /\ ToSet(But(s, S)) = ToSet(s) \ S
         /\ (ToSet(s) \cap S # {}) => Len(But(s, S)) < Len(s)
<1>1. PICK n \in Nat : n = Len(s) /\ \A i \in 1..n : s[i] \in T
  BY LenProperties
<1>2. PICK f : /\ f[0] = <<>> /\ But(s, S) = f[n]
               /\ \A i \in 1..n : f[i] = IF s[i] \in S THEN f[i - 1] ELSE Append(f[i - 1], s[i])
  <2>1. PICK f : /\ f[0] = <<>> /\ But(s, S) = f[Len(s)]
                 /\ \A i \in 1..Len(s) : f[i] = IF s[i] \in S THEN f[i - 1] ELSE Append(f[i - 1], s[i])
    BY ButSteps
  <2> QED BY <1>1, <2>1
<1> DEFINE Upto(i) == {s[j] : j \in 1..i}
           Right(i) == /\ f[i] \in Seq(T) /\ Len(f[i]) <= i
                       /\ ToSet(f[i]) = Upto(i) \ S
                       /\ (Upto(i) \cap S # {}) => Len(f[i]) < i
           P == {i \in 0..n : Right(i)}
<1>3. 0 \in P
  <2>1. <<>> \in Seq(T) /\ Len(<<>>) = 0
    BY EmptySeq
  <2>2. Upto(0) = {}
    OBVIOUS
  <2>3. ToSet(<<>>) = {}
    <3>1. PICK e \in Seq(T) : e = <<>> /\ Len(e) = 0
      BY <2>1
    <3>2. \A x \in ToSet(e) : \E j \in 1..Len(e) : e[j] = x
      BY Elements
    <3>3. ~\E x : x \in ToSet(e)
      BY <3>1, <3>2
    <3> HIDE DEF ToSet
    <3> QED BY <3>1, <3>3
  <2>4. Right(0)
    <3> HIDE DEF Upto
    <3> QED BY <1>2, <2>1, <2>2, <2>3
  <2>5. 0 \in 0..n
    OBVIOUS
  <2> HIDE DEF Right
  <2> QED BY <2>4, <2>5
<1>4. ASSUME NEW i \in 0..n, i < n, i \in P PROVE i + 1 \in P
  <2>1. i + 1 \in 1..n /\ (i + 1) - 1 = i /\ i \in Nat /\ s[i + 1] \in T
    BY <1>1, <1>4
  <2>2. Upto(i + 1) = Upto(i) \cup {s[i + 1]}
    <3>1. 1..(i + 1) = (1..i) \cup {i + 1}
      BY <2>1
    <3> QED BY <3>1
  <2>3. Right(i)
    BY <1>4
  <2> HIDE DEF Upto, P
  <2>4. CASE s[i + 1] \in S
    <3>1. f[i + 1] = f[i]
      BY <1>2, <2>1, <2>4
    <3>2. Len(f[i]) \in Nat
      BY <2>3, LenProperties
    <3>3. Len(f[i]) < i + 1 /\ Len(f[i]) <= i + 1
      BY <2>1, <2>3, <3>2
    <3>4. ToSet(f[i + 1]) = Upto(i + 1) \ S
      BY <2>2, <2>3, <2>4, <3>1
    <3>5. Right(i + 1)
      BY <2>3, <3>1, <3>3, <3>4
    <3> QED BY <2>1, <3>5 DEF P
  <2>5. CASE s[i + 1] \notin S
    <3>1. f[i + 1] = Append(f[i], s[i + 1])
      BY <1>2, <2>1, <2>5
    <3>2. PICK m \in Nat : m = Len(f[i])
      BY <2>3, LenProperties
    <3>3. f[i + 1] \in Seq(T) /\ Len(f[i + 1]) = m + 1 /\ ToSet(f[i + 1]) = ToSet(f[i]) \cup {s[i + 1]}
      BY <2>1, <2>3, <3>1, <3>2, Added
    <3>5. ToSet(f[i + 1]) = Upto(i + 1) \ S
      BY <2>2, <2>3, <2>5, <3>3
    <3>6. m <= i /\ ((Upto(i) \cap S # {}) => m < i)
      BY <2>3, <3>2
    <3>7. m + 1 <= i + 1 /\ (m < i => m + 1 < i + 1)
      BY <2>1, <3>2, <3>6
    <3>8. Upto(i + 1) \cap S = Upto(i) \cap S
      BY <2>2, <2>5
    <3>9. Right(i + 1)
      BY <3>3, <3>5, <3>6, <3>7, <3>8
    <3> QED BY <2>1, <3>9 DEF P
  <2> QED BY <2>4, <2>5
<1>5. \A i \in 0..n : i \in P
  <2> HIDE DEF P
  <2>1. \A i \in 0..n : i < n /\ i \in P => i + 1 \in P
    BY <1>4
  <2> QED BY <1>3, <2>1, Counting
<1>6. Right(n)
  <2>1. n \in 0..n
    OBVIOUS
  <2> HIDE DEF Right
  <2> QED BY <1>5, <2>1
<1>7. Upto(n) = ToSet(s)
  BY <1>1, Elements
<1> HIDE DEF Upto
<1> QED BY <1>1, <1>2, <1>6, <1>7

\* Lists of numbers in order
Ups == {s \in Seq(Nat) : \A i, j \in 1..Len(s) : i < j => s[i] < s[j]}

\* But keeps the order.
LEMMA ButUps ==
  ASSUME NEW s \in Ups, NEW S
  PROVE  But(s, S) \in Ups
<1>1. PICK n \in Nat : n = Len(s) /\ DOMAIN s = 1..n
  BY LenProperties DEF Ups
<1>0. s \in Seq(Nat) /\ \A i \in 1..n : s[i] \in Nat
  BY <1>1, ElementOfSeq DEF Ups
<1>2. PICK f : /\ f[0] = <<>> /\ But(s, S) = f[n]
               /\ \A i \in 1..n : f[i] = IF s[i] \in S THEN f[i - 1] ELSE Append(f[i - 1], s[i])
  BY <1>0, <1>1, ButSteps
<1> DEFINE Below(i) == \A k \in 1..Len(f[i]), j \in 1..n : i < j => f[i][k] < s[j]
           P == {i \in 0..n : f[i] \in Ups /\ Below(i)}
<1>3. 0 \in P
  <2>1. <<>> \in Seq(Nat) /\ Len(<<>>) = 0
    OBVIOUS
  <2>2. <<>> \in Ups
    BY <2>1 DEF Ups
  <2>3. Below(0)
    BY <1>2, <2>1
  <2> QED BY <1>1, <1>2, <2>2, <2>3
<1>4. ASSUME NEW i \in 0..n, i < n, i \in P PROVE i + 1 \in P
  <2>1. i + 1 \in 1..n /\ (i + 1) - 1 = i /\ i \in Nat /\ s[i + 1] \in Nat /\ i + 1 \in 0..n
    BY <1>0, <1>1, <1>4
  <2>2. f[i] \in Ups /\ Below(i)
    BY <1>4
  <2>3. CASE s[i + 1] \in S
    <3>1. f[i + 1] = f[i]
      BY <1>2, <2>1, <2>3
    <3>2. \A j \in 1..n : i + 1 < j => i < j
      BY <2>1
    <3> QED BY <2>1, <2>2, <3>1, <3>2
  <2>4. CASE s[i + 1] \notin S
    <3>1. f[i + 1] = Append(f[i], s[i + 1])
      BY <1>2, <2>1, <2>4
    <3>2. PICK m \in Nat : m = Len(f[i]) /\ f[i] \in Seq(Nat)
      BY <2>2, LenProperties DEF Ups
    <3>3. /\ f[i + 1] \in Seq(Nat) /\ Len(f[i + 1]) = m + 1
          /\ \A j \in 1..m : f[i + 1][j] = f[i][j]
          /\ f[i + 1][m + 1] = s[i + 1]
      BY <2>1, <3>1, <3>2, AppendProperties
    <3>4. \A k \in 1..m : f[i][k] < s[i + 1]
      BY <2>1, <2>2, <3>2
    <3>5. \A k, l \in 1..(m + 1) : k < l => f[i + 1][k] < f[i + 1][l]
      <4> SUFFICES ASSUME NEW k \in 1..(m + 1), NEW l \in 1..(m + 1), k < l
                   PROVE  f[i + 1][k] < f[i + 1][l]
        OBVIOUS
      <4>1. k \in 1..m /\ (l \in 1..m \/ l = m + 1)
        BY <3>2
      <4> QED BY <2>2, <3>2, <3>3, <3>4, <4>1 DEF Ups
    <3>6. \A j \in 1..n : i + 1 < j => s[i + 1] < s[j]
      BY <1>1, <2>1 DEF Ups
    <3>7. Below(i + 1)
      <4> SUFFICES ASSUME NEW k \in 1..(m + 1), NEW j \in 1..n, i + 1 < j
                   PROVE  f[i + 1][k] < s[j]
        BY <3>3
      <4>1. k \in 1..m \/ k = m + 1
        BY <3>2
      <4>2. i < j
        BY <2>1
      <4> QED BY <2>2, <3>2, <3>3, <3>6, <4>1, <4>2
    <3>8. f[i + 1] \in Ups
      BY <3>3, <3>5 DEF Ups
    <3> QED BY <2>1, <3>7, <3>8
  <2> QED BY <2>3, <2>4
<1>5. \A i \in 0..n : i \in P
  <2> HIDE DEF P
  <2>1. \A i \in 0..n : i < n /\ i \in P => i + 1 \in P
    BY <1>4
  <2> QED BY <1>3, <2>1, Counting
<1> QED BY <1>1, <1>2, <1>5

\* The place of a number in a list in order is the further back the more numbers there are.
LEMMA RankLe ==
  ASSUME NEW A \in Ups, NEW N \in Ups, ToSet(A) \subseteq ToSet(N),
         NEW j \in 1..Len(A), NEW m \in 1..Len(N), A[j] = N[m]
  PROVE  j <= m
<1>1. PICK n \in Nat : n = Len(A) /\ \A i \in 1..n : A[i] \in Nat
  BY LenProperties DEF Ups
<1>2. PICK l \in Nat : l = Len(N) /\ \A i \in 1..l : N[i] \in Nat
  BY LenProperties DEF Ups
<1> DEFINE P == {i \in 0..n : i > 0 => \A k \in 1..l : A[i] = N[k] => i <= k}
<1>3. 0 \in P
  OBVIOUS
<1>4. ASSUME NEW i \in 0..n, i < n, i \in P PROVE i + 1 \in P
  <2>1. i + 1 \in 1..n /\ i + 1 \in 0..n /\ i \in Nat
    BY <1>4
  <2>2. ASSUME NEW k \in 1..l, A[i + 1] = N[k] PROVE i + 1 <= k
    <3>1. CASE i = 0
      BY <3>1
    <3>2. CASE i # 0
      <4>1. i \in 1..n
        BY <2>1, <3>2
      <4>2. A[i] \in ToSet(N)
        BY <1>1, <4>1, Elements DEF Ups
      <4>3. PICK o \in 1..l : N[o] = A[i]
        BY <1>2, <4>2, Elements DEF Ups
      <4>4. i <= o
        BY <1>4, <4>1, <4>3
      <4>5. A[i] < A[i + 1]
        BY <1>1, <2>1, <4>1 DEF Ups
      <4>6. k < o => N[k] < N[o]
        BY <1>2 DEF Ups
      <4>7. ~(k < o) /\ k # o
        BY <1>1, <1>2, <2>2, <2>1, <4>1, <4>3, <4>5, <4>6
      <4> QED BY <2>1, <4>4, <4>7
    <3> QED BY <3>1, <3>2
  <2> QED BY <2>1, <2>2
<1>5. \A i \in 0..n : i \in P
  <2> HIDE DEF P
  <2>1. \A i \in 0..n : i < n /\ i \in P => i + 1 \in P
    BY <1>4
  <2> QED BY <1>3, <2>1, Counting
<1>6. j \in 0..n /\ j > 0 /\ m \in 1..l
  BY <1>1, <1>2
<1> QED BY <1>5, <1>6

\* Two lists in order that have the same elements are the same.
LEMMA SameList ==
  ASSUME NEW A \in Ups, NEW N \in Ups, ToSet(A) = ToSet(N)
  PROVE  Len(A) = Len(N) /\ \A j \in 1..Len(A) : A[j] = N[j]
<1>1. ASSUME NEW B \in Ups, NEW M \in Ups, ToSet(B) = ToSet(M)
      PROVE  Len(B) <= Len(M) /\ \A j \in 1..Len(B) : B[j] = M[j]
  <2>1. PICK n \in Nat : n = Len(B)
    BY LenProperties DEF Ups
  <2>2. PICK l \in Nat : l = Len(M)
    BY LenProperties DEF Ups
  <2>3. ASSUME NEW j \in 1..n PROVE j \in 1..l /\ B[j] = M[j]
    <3>1. B[j] \in ToSet(M)
      BY <1>1, <2>1, Elements DEF Ups
    <3>2. PICK m \in 1..l : M[m] = B[j]
      BY <2>2, <3>1, Elements DEF Ups
    <3>3. j <= m
      BY <1>1, <2>1, <2>2, <3>2, RankLe
    <3>4. m <= j
      <4> HIDE DEF Ups
      <4> QED BY <1>1, <2>1, <2>2, <3>2, RankLe
    <3> QED BY <3>2, <3>3, <3>4
  <2>4. n <= l
    <3>1. n = 0 \/ n \in 1..n
      OBVIOUS
    <3> QED BY <2>3, <3>1
  <2> QED BY <2>1, <2>2, <2>3, <2>4
<1>2. Len(A) \in Nat /\ Len(N) \in Nat
  BY LenProperties DEF Ups
<1> QED BY <1>1, <1>2

\* The first elements of a list are those of any list in order between them and the whole.
LEMMA SamePrefix ==
  ASSUME NEW A \in Ups, NEW M \in Ups, ToSet(M) \subseteq ToSet(A),
         NEW p \in 0..Len(A), \A j \in 1..p : A[j] \in ToSet(M)
  PROVE  p <= Len(M) /\ \A j \in 1..p : M[j] = A[j]
<1>1. PICK n \in Nat : n = Len(A) /\ \A i \in 1..n : A[i] \in Nat
  BY LenProperties DEF Ups
<1>2. PICK l \in Nat : l = Len(M)
  BY LenProperties DEF Ups
<1>3. PICK C : C = SubSeq(A, 1, p)
  OBVIOUS
<1>4. p \in Nat /\ p <= n
  BY <1>1
<1>5. C \in Seq(Nat) /\ Len(C) = p /\ \A i \in 1..p : C[i] = A[i]
  BY <1>1, <1>3, <1>4, SubSeqProperties
<1>6. C \in Ups
  <2>1. \A i, j \in 1..p : i < j => C[i] < C[j]
    <3>1. \A i \in 1..p : i \in 1..Len(A)
      BY <1>1, <1>4
    <3> QED BY <1>5, <3>1 DEF Ups
  <2> QED BY <1>5, <2>1 DEF Ups
<1>7. ToSet(C) \subseteq ToSet(M)
  BY <1>5, Elements
<1>8. ASSUME NEW j \in 1..p PROVE j \in 1..l /\ M[j] = A[j]
  <2>1. PICK m \in 1..l : M[m] = A[j]
    BY <1>2, <1>8, Elements DEF Ups
  <2>2. j <= m
    BY <1>2, <1>5, <1>6, <1>7, <2>1, RankLe
  <2>3. m <= j
    <3>1. j \in 1..n
      BY <1>4
    <3> QED BY <1>1, <1>2, <2>1, <3>1, RankLe
  <2> QED BY <2>1, <2>2, <2>3
<1>9. p <= l
  <2>1. p = 0 \/ p \in 1..p
    BY <1>4
  <2> QED BY <1>8, <2>1
<1> QED BY <1>2, <1>8, <1>9

\* One more number that is greater
LEMMA AppendUps ==
  ASSUME NEW A \in Ups, NEW x \in Nat, \A y \in ToSet(A) : y < x
  PROVE  Append(A, x) \in Ups
<1>1. PICK n \in Nat : n = Len(A) /\ A \in Seq(Nat)
  BY LenProperties DEF Ups
<1>2. PICK r : r = Append(A, x)
  OBVIOUS
<1>3. r \in Seq(Nat) /\ Len(r) = n + 1 /\ (\A j \in 1..n : r[j] = A[j]) /\ r[n + 1] = x
  BY <1>1, <1>2, Added
<1>4. \A j \in 1..n : A[j] < x
  BY <1>1, Elements
<1>5. \A i, j \in 1..(n + 1) : i < j => r[i] < r[j]
  <2> SUFFICES ASSUME NEW i \in 1..(n + 1), NEW j \in 1..(n + 1), i < j PROVE r[i] < r[j]
    OBVIOUS
  <2>1. i \in 1..n /\ (j \in 1..n \/ j = n + 1)
    OBVIOUS
  <2> QED BY <1>1, <1>3, <1>4, <2>1 DEF Ups
<1> QED BY <1>2, <1>3, <1>5 DEF Ups

\* A list in order that is made of two, one behind the other
LEMMA Joined ==
  ASSUME NEW A \in Ups, NEW E \in Ups, NEW F \in Ups, ToSet(A) = ToSet(E) \cup ToSet(F),
         \A x \in ToSet(E), y \in ToSet(F) : x < y
  PROVE  /\ Len(A) = Len(E) + Len(F)
         /\ \A j \in 1..Len(E) : A[j] = E[j]
         /\ \A j \in 1..Len(F) : A[Len(E) + j] = F[j]
<1>1. PICK n \in Nat : n = Len(E) /\ E \in Seq(Nat)
  BY LenProperties DEF Ups
<1>2. PICK l \in Nat : l = Len(F) /\ F \in Seq(Nat)
  BY LenProperties DEF Ups
<1>3. PICK r : r = E \o F
  OBVIOUS
<1>4. /\ r \in Seq(Nat) /\ Len(r) = n + l
      /\ \A i \in 1..(n + l) : r[i] = IF i <= n THEN E[i] ELSE F[i - n]
  BY <1>1, <1>2, <1>3, ConcatProperties
<1>5. /\ \A j \in 1..n : r[j] = E[j] /\ j \in 1..(n + l)
      /\ \A j \in 1..l : r[n + j] = F[j] /\ n + j \in 1..(n + l)
  <2>1. \A j \in 1..l : ~(n + j <= n) /\ (n + j) - n = j /\ n + j \in 1..(n + l)
    OBVIOUS
  <2>2. \A j \in 1..n : j <= n /\ j \in 1..(n + l)
    OBVIOUS
  <2> QED BY <1>4, <2>1, <2>2
<1>6. \A i \in 1..(n + l) : i \in 1..n \/ \E j \in 1..l : i = n + j
  <2> SUFFICES ASSUME NEW i \in 1..(n + l), i \notin 1..n PROVE \E j \in 1..l : i = n + j
    OBVIOUS
  <2>1. i - n \in 1..l /\ i = n + (i - n)
    OBVIOUS
  <2> QED BY <2>1
<1>7. r \in Ups
  <2> SUFFICES ASSUME NEW i \in 1..(n + l), NEW j \in 1..(n + l), i < j PROVE r[i] < r[j]
    BY <1>4 DEF Ups
  <2>1. CASE i \in 1..n /\ j \in 1..n
    BY <1>1, <1>5, <2>1 DEF Ups
  <2>2. CASE i \in 1..n /\ j \notin 1..n
    <3>1. PICK k \in 1..l : j = n + k
      BY <1>6, <2>2
    <3>2. E[i] \in ToSet(E) /\ F[k] \in ToSet(F)
      BY <1>1, <1>2, <2>2, Elements
    <3> QED BY <1>5, <2>2, <3>1, <3>2
  <2>3. CASE i \notin 1..n
    <3>1. PICK k \in 1..l : i = n + k
      BY <1>6, <2>3
    <3>2. PICK m \in 1..l : j = n + m
      BY <1>6, <2>3
    <3>3. k < m
      BY <3>1, <3>2
    <3> QED BY <1>2, <1>5, <3>1, <3>2, <3>3 DEF Ups
  <2> QED BY <2>1, <2>2, <2>3
<1>8. ToSet(r) = ToSet(A)
  <2>1. \A x : x \in ToSet(r) <=> \E i \in 1..(n + l) : r[i] = x
    BY <1>4, Elements
  <2>2. \A x : x \in ToSet(E) <=> \E i \in 1..n : E[i] = x
    BY <1>1, Elements
  <2>3. \A x : x \in ToSet(F) <=> \E i \in 1..l : F[i] = x
    BY <1>2, Elements
  <2> HIDE DEF ToSet
  <2>4. \A x : x \in ToSet(r) <=> x \in ToSet(E) \/ x \in ToSet(F)
    BY <1>5, <1>6, <2>1, <2>2, <2>3
  <2> QED BY <2>4
<1>9. Len(A) = n + l /\ \A j \in 1..(n + l) : A[j] = r[j]
  BY <1>4, <1>7, <1>8, SameList
<1> QED BY <1>1, <1>2, <1>5, <1>9

(***************************************************************************)
(* The shell and the pages                                                 *)
(***************************************************************************)
\* head takes the first elements, sed leaves them out.
LEMMA HeadFacts ==
  ASSUME NEW T, NEW s \in Seq(T), NEW k \in Nat
  PROVE  /\ HeadLines(s, k) \in Seq(T)
         /\ Len(HeadLines(s, k)) = IF k < Len(s) THEN k ELSE Len(s)
         /\ \A i \in 1..Len(s) : i <= k => HeadLines(s, k)[i] = s[i]
<1>1. PICK n \in Nat : n = Len(s) /\ \A i \in 1..n : s[i] \in T
  BY LenProperties
<1>2. PICK m \in Nat : m = (IF k < n THEN k ELSE n)
  OBVIOUS
<1>3. HeadLines(s, k) = SubSeq(s, 1, m)
  BY <1>1, <1>2 DEF HeadLines
<1>4. \A i \in 1..m : s[i] \in T
  BY <1>1, <1>2
<1>5. /\ SubSeq(s, 1, m) \in Seq(T) /\ Len(SubSeq(s, 1, m)) = (IF 1 <= m THEN m - 1 + 1 ELSE 0)
      /\ \A i \in 1..(m - 1 + 1) : SubSeq(s, 1, m)[i] = s[1 + i - 1]
  BY <1>4, SubSeqProperties
<1>6. \A i \in 1..n : i <= k => i \in 1..(m - 1 + 1) /\ 1 + i - 1 = i
  BY <1>2
<1>7. (IF 1 <= m THEN m - 1 + 1 ELSE 0) = m
  OBVIOUS
<1> QED BY <1>1, <1>2, <1>3, <1>5, <1>6, <1>7

\* What sed leaves
LEMMA SedFacts ==
  ASSUME NEW T, NEW s \in Seq(T), NEW k \in Nat
  PROVE  /\ Sed(s, k) \in Seq(T)
         /\ Len(Sed(s, k)) = IF k < Len(s) THEN Len(s) - k ELSE 0
         /\ \A i \in 1..Len(s) : i > k => Sed(s, k)[i - k] = s[i]
<1>1. PICK n \in Nat : n = Len(s) /\ \A i \in 1..n : s[i] \in T
  BY LenProperties
<1>2. PICK r : r = SubSeq(s, k + 1, n) /\ r = Sed(s, k)
  BY <1>1 DEF Sed
<1>4. \A i \in (k + 1)..n : s[i] \in T
  BY <1>1
<1>5. /\ r \in Seq(T) /\ Len(r) = (IF k + 1 <= n THEN n - (k + 1) + 1 ELSE 0)
      /\ \A i \in 1..(n - (k + 1) + 1) : r[i] = s[(k + 1) + i - 1]
  BY <1>2, <1>4, SubSeqProperties
<1>6. \A i \in 1..n : i > k => i - k \in 1..(n - (k + 1) + 1) /\ (k + 1) + (i - k) - 1 = i
  OBVIOUS
<1>7. (IF k + 1 <= n THEN n - (k + 1) + 1 ELSE 0) = (IF k < n THEN n - k ELSE 0)
  OBVIOUS
<1>8. \A i \in 1..n : i > k => r[i - k] = s[i]
  BY <1>5, <1>6
<1> QED BY <1>1, <1>2, <1>5, <1>7, <1>8

\* tail takes the last elements, or those from a line on.
LEMMA TailFacts ==
  ASSUME NEW T, NEW s \in Seq(T), NEW k \in Nat \ {0}
  PROVE  /\ TailLines(s, k) \in Seq(T)
         /\ Len(TailLines(s, k)) = IF k < Len(s) THEN k ELSE Len(s)
         /\ \A i \in 1..Len(TailLines(s, k)) : TailLines(s, k)[i] = s[Len(s) - Len(TailLines(s, k)) + i]
<1>1. PICK n \in Nat : n = Len(s) /\ \A i \in 1..n : s[i] \in T
  BY LenProperties
<1>2. PICK m \in Nat : m = (IF k < n THEN n - k + 1 ELSE 1)
  <2>1. (IF k < n THEN n - k + 1 ELSE 1) \in Nat
    OBVIOUS
  <2> QED BY <2>1
<1>3. PICK r : r = SubSeq(s, m, n) /\ r = TailLines(s, k)
  BY <1>1, <1>2 DEF TailLines
<1>4. \A i \in m..n : s[i] \in T
  BY <1>1, <1>2
<1>5. /\ r \in Seq(T) /\ Len(r) = (IF m <= n THEN n - m + 1 ELSE 0)
      /\ \A i \in 1..(n - m + 1) : r[i] = s[m + i - 1]
  <2>1. m \in Int /\ n \in Int
    OBVIOUS
  <2>2. /\ SubSeq(s, m, n) \in Seq(T) /\ Len(SubSeq(s, m, n)) = (IF m <= n THEN n - m + 1 ELSE 0)
        /\ \A i \in 1..(n - m + 1) : SubSeq(s, m, n)[i] = s[m + i - 1]
    BY <1>4, <2>1, SubSeqProperties
  <2> QED BY <1>3, <2>2
<1>6. PICK l \in Nat : l = (IF k < n THEN k ELSE n)
  OBVIOUS
<1>7. l = n - m + 1 /\ (IF m <= n THEN n - m + 1 ELSE 0) = l
  BY <1>2, <1>6
<1>8. \A i \in 1..l : m + i - 1 = n - l + i
  BY <1>7
<1>9. Len(r) = l /\ \A i \in 1..l : r[i] = s[n - l + i]
  BY <1>5, <1>7, <1>8
<1> QED BY <1>1, <1>3, <1>5, <1>6, <1>9

\* What tail leaves from a line on
LEMMA FromFacts ==
  ASSUME NEW T, NEW s \in Seq(T), NEW k \in Nat
  PROVE  /\ TailFrom(s, k) \in Seq(T)
         /\ \A i \in 1..Len(s) : k = 0 => i <= Len(TailFrom(s, k)) /\ TailFrom(s, k)[i] = s[i]
         /\ \A i \in 1..Len(s) : k > 0 /\ k <= i =>
              i - k + 1 \in 1..Len(TailFrom(s, k)) /\ TailFrom(s, k)[i - k + 1] = s[i]
<1>1. PICK n \in Nat : n = Len(s) /\ \A i \in 1..n : s[i] \in T
  BY LenProperties
<1>2. PICK m \in Nat : m = (IF k = 0 THEN 1 ELSE k)
  OBVIOUS
<1>3. PICK r : r = SubSeq(s, m, n) /\ r = TailFrom(s, k)
  BY <1>1, <1>2 DEF TailFrom
<1>4. \A i \in m..n : s[i] \in T
  BY <1>1, <1>2
<1>5. /\ r \in Seq(T) /\ Len(r) = (IF m <= n THEN n - m + 1 ELSE 0)
      /\ \A i \in 1..(n - m + 1) : r[i] = s[m + i - 1]
  <2>1. m \in Int /\ n \in Int
    OBVIOUS
  <2>2. /\ SubSeq(s, m, n) \in Seq(T) /\ Len(SubSeq(s, m, n)) = (IF m <= n THEN n - m + 1 ELSE 0)
        /\ \A i \in 1..(n - m + 1) : SubSeq(s, m, n)[i] = s[m + i - 1]
    BY <1>4, <2>1, SubSeqProperties
  <2> QED BY <1>3, <2>2
<1>6. ASSUME NEW i \in 1..n, m <= i PROVE i - m + 1 \in 1..Len(r) /\ r[i - m + 1] = s[i]
  <2>1. i - m + 1 \in 1..(n - m + 1) /\ m + (i - m + 1) - 1 = i /\ m <= n
    BY <1>6
  <2> QED BY <1>5, <2>1
<1>7. ASSUME NEW i \in 1..n, k = 0 PROVE i <= Len(r) /\ r[i] = s[i]
  <2>1. m = 1 /\ m <= i /\ i - m + 1 = i
    BY <1>2, <1>7
  <2> QED BY <1>6, <2>1
<1>8. ASSUME NEW i \in 1..n, k > 0, k <= i PROVE i - k + 1 \in 1..Len(r) /\ r[i - k + 1] = s[i]
  <2>1. m = k
    BY <1>2, <1>8
  <2> QED BY <1>6, <1>8, <2>1
<1> QED BY <1>1, <1>3, <1>5, <1>7, <1>8

\* The other way round
LEMMA ReverseFacts ==
  ASSUME NEW T, NEW s \in Seq(T)
  PROVE  /\ Reverse(s) \in Seq(T) /\ Len(Reverse(s)) = Len(s)
         /\ \A i \in 1..Len(s) : Reverse(s)[i] = s[Len(s) - i + 1]
         /\ \A i \in 1..Len(s) : s[i] \in ToSet(Reverse(s))
<1>1. PICK n \in Nat : n = Len(s) /\ \A i \in 1..n : s[i] \in T
  BY LenProperties
<1>2. PICK r : r = [i \in 1..n |-> s[n - i + 1]] /\ r = Reverse(s)
  BY <1>1 DEF Reverse
<1>3. \A i \in 1..n : n - i + 1 \in 1..n /\ n - (n - i + 1) + 1 = i
  OBVIOUS
<1>4. r \in [1..n -> T]
  BY <1>1, <1>2, <1>3
<1>5. r \in Seq(T) /\ Len(r) = n
  BY <1>2, <1>4
<1>6. \A i \in 1..n : r[i] = s[n - i + 1]
  BY <1>2
<1>7. \A i \in 1..n : s[i] = r[n - i + 1]
  BY <1>3, <1>6
<1>8. \A i \in 1..n : s[i] \in ToSet(r)
  <2> SUFFICES ASSUME NEW i \in 1..n PROVE s[i] \in ToSet(r)
    OBVIOUS
  <2>1. \E j \in 1..Len(r) : r[j] = s[i]
    BY <1>3, <1>5, <1>7
  <2> HIDE DEF ToSet
  <2> QED BY <1>5, <2>1, Elements
<1> HIDE DEF ToSet
<1> QED BY <1>1, <1>2, <1>5, <1>6, <1>8

\* A page has what comes after the offset, up to the limit.
LEMMA SliceFacts ==
  ASSUME NEW T, NEW s \in Seq(T), offset \in Nat, limit \in Nat \ {0}
  PROVE  /\ Slice(s) \in Seq(T) /\ Len(Slice(s)) <= limit
         /\ \A i \in 1..Len(s) : offset < i /\ i <= offset + limit => s[i] \in ToSet(Slice(s))
         /\ Slice(s) = <<>> => Len(s) <= offset
<1>1. PICK n \in Nat : n = Len(s)
  BY LenProperties
<1>2. PICK d : d = Sed(s, offset)
  OBVIOUS
<1>3. /\ d \in Seq(T) /\ Len(d) = (IF offset < n THEN n - offset ELSE 0)
      /\ \A i \in 1..n : i > offset => d[i - offset] = s[i]
  BY <1>1, <1>2, SedFacts
<1>4. PICK m \in Nat : m = Len(d)
  BY <1>3, LenProperties
<1>5. PICK h : h = HeadLines(d, limit)
  OBVIOUS
<1>6. /\ h \in Seq(T) /\ Len(h) = (IF limit < m THEN limit ELSE m)
      /\ \A i \in 1..m : i <= limit => h[i] = d[i]
  BY <1>3, <1>4, <1>5, HeadFacts
<1>7. Slice(s) = h
  BY <1>2, <1>5 DEF Slice
<1>8. ASSUME NEW i \in 1..n, offset < i, i <= offset + limit PROVE s[i] \in ToSet(h)
  <2>1. PICK j \in 1..m : j = i - offset
    BY <1>3, <1>4, <1>8
  <2>2. j <= limit
    BY <1>8, <2>1
  <2>3. h[j] = s[i]
    BY <1>3, <1>6, <1>8, <2>1, <2>2
  <2>4. j \in 1..Len(h)
    BY <1>6, <2>2
  <2> QED BY <1>6, <2>3, <2>4, Elements
<1>9. h = <<>> => n <= offset
  <2> SUFFICES ASSUME h = <<>> PROVE n <= offset
    OBVIOUS
  <2>1. Len(h) = 0
    BY EmptySeq
  <2> QED BY <1>3, <1>4, <1>6, <2>1
<1>10. Len(h) <= limit
  BY <1>6
<1> HIDE DEF ToSet
<1> QED BY <1>1, <1>6, <1>7, <1>8, <1>9, <1>10

\* What a walk is after each entry
LEMMA WalkSteps ==
  ASSUME NEW T, NEW s \in Seq(T), NEW w0, NEW bad
  PROVE  \E f : /\ f[0] = w0 /\ Walk(w0, s, bad) = f[Len(s)]
                /\ \A i \in 1..Len(s) : f[i] = Look(f[i - 1], s[i], bad)
<1>1. PICK n \in Nat : n = Len(s)
  BY LenProperties
<1> DEFINE Then(f, i) == IF i = 0 THEN w0 ELSE Look(f[i - 1], s[i], bad)
           P == {m \in 0..n : \E f : f = [i \in 0..m |-> Then(f, i)]}
<1>2. 0 \in P
  <2>1. PICK f : f = [i \in 0..0 |-> w0]
    OBVIOUS
  <2>2. \A i \in 0..0 : Then(f, i) = w0
    OBVIOUS
  <2>3. f = [i \in 0..0 |-> Then(f, i)]
    BY <2>1, <2>2
  <2> QED BY <1>1, <2>3
<1>3. ASSUME NEW m \in 0..n, m < n, m \in P PROVE m + 1 \in P
  <2>1. PICK f : f = [i \in 0..m |-> Then(f, i)]
    BY <1>3
  <2>2. PICK g : g = [i \in 0..m + 1 |-> IF i <= m THEN f[i] ELSE Then(f, i)]
    OBVIOUS
  <2>3. ASSUME NEW i \in 0..m PROVE g[i] = f[i] /\ f[i] = Then(f, i)
    <3>1. i \in 0..m + 1 /\ i <= m
      BY <1>3
    <3> HIDE DEF Then
    <3> QED BY <2>1, <2>2, <3>1
  <2>4. \A i \in 0..m + 1 : g[i] = Then(g, i)
    <3> SUFFICES ASSUME NEW i \in 0..m + 1 PROVE g[i] = Then(g, i)
      OBVIOUS
    <3>1. i = 0 \/ i - 1 \in 0..m
      BY <1>3
    <3>2. Then(g, i) = Then(f, i)
      BY <2>3, <3>1
    <3>3. g[i] = Then(f, i)
      <4>1. i \in 0..m \/ ~(i <= m)
        BY <1>3
      <4> HIDE DEF Then
      <4> QED BY <2>2, <2>3, <4>1
    <3> QED BY <3>2, <3>3
  <2>5. g = [i \in 0..m + 1 |-> Then(g, i)]
    BY <2>2, <2>4
  <2>6. m + 1 \in 0..n
    BY <1>3
  <2> QED BY <2>5, <2>6
<1>4. n \in P
  <2> HIDE DEF P
  <2>1. \A m \in 0..n : m < n /\ m \in P => m + 1 \in P
    BY <1>3
  <2>2. \A m \in 0..n : m \in P
    BY <1>2, <2>1, Counting
  <2> QED BY <2>2
<1> DEFINE f == CHOOSE f : f = [i \in 0..n |-> Then(f, i)]
<1>5. f = [i \in 0..n |-> Then(f, i)]
  BY <1>4
<1>6. Walk(w0, s, bad) = f[n]
  BY <1>1 DEF Walk
<1> HIDE DEF f
<1>7. f[0] = w0 /\ \A i \in 1..n : f[i] = Look(f[i - 1], s[i], bad)
  <2>1. \A i \in 0..n : f[i] = Then(f, i)
    <3> HIDE DEF Then
    <3> QED BY <1>5
  <2>2. 0 \in 0..n /\ \A i \in 1..n : i \in 0..n /\ i # 0
    OBVIOUS
  <2> QED BY <2>1, <2>2
<1> QED BY <1>1, <1>6, <1>7

\* A page of a walk begins with the record before the offset, and it is never fuller than
\* the entries from there on that have been counted.
FirstRank == IF offset = 0 THEN 1 ELSE offset
Fine(w) ==
  /\ w.n \in Nat /\ w.page \in Seq(1..MaxItems) /\ Len(w.page) <= limit
  /\ Len(w.page) = 0 \/ Len(w.page) + FirstRank <= w.n + 1

\* One entry of a walk
LEMMA LookFacts ==
  ASSUME offset \in Nat, limit \in Nat \ {0}, NEW w, Fine(w), NEW i \in 1..MaxItems, NEW bad
  PROVE  /\ Fine(Look(w, i, bad)) /\ Look(w, i, bad).n = w.n + 1
         /\ ToSet(w.page) \subseteq ToSet(Look(w, i, bad).page)
         /\ FirstRank <= w.n + 1 /\ w.n + 1 < FirstRank + limit /\ i \notin bad
              => i \in ToSet(Look(w, i, bad).page)
<1>1. PICK v : v = Look(w, i, bad)
  OBVIOUS
<1>2. PICK m \in Nat : m = Len(w.page) /\ w.page \in Seq(1..MaxItems)
  BY LenProperties DEF Fine
<1>3. PICK r : r = Append(w.page, i)
  OBVIOUS
<1>4. r \in Seq(1..MaxItems) /\ Len(r) = m + 1 /\ ToSet(r) = ToSet(w.page) \cup {i}
  <2>1. PICK T : T = 1..MaxItems
    OBVIOUS
  <2>2. w.page \in Seq(T) /\ i \in T
    BY <1>2, <2>1
  <2>3. r \in Seq(T) /\ Len(r) = m + 1 /\ ToSet(r) = ToSet(w.page) \cup {i}
    BY <1>2, <1>3, <2>2, Added
  <2> QED BY <2>1, <2>3
<1>5. w.n \in Nat /\ m <= limit /\ (m = 0 \/ m + FirstRank <= w.n + 1)
  BY <1>2 DEF Fine
<1>6. v.n = w.n + 1 /\ v.page = (IF m >= limit \/ w.n + 1 < offset \/ i \in bad THEN w.page ELSE r)
  BY <1>1, <1>2, <1>3 DEF Look
<1>7. FirstRank \in Nat \ {0} /\ (w.n + 1 < offset <=> w.n + 1 < FirstRank)
  BY <1>5 DEF FirstRank
<1> HIDE DEF ToSet
<1>8. CASE v.page = w.page
  <2>1. Fine(v)
    BY <1>2, <1>5, <1>6, <1>7, <1>8 DEF Fine
  <2>2. FirstRank <= w.n + 1 /\ w.n + 1 < FirstRank + limit => m < limit
    BY <1>5, <1>7
  <2>3. FirstRank <= w.n + 1 /\ w.n + 1 < FirstRank + limit /\ i \notin bad => v.page = r
    BY <1>5, <1>6, <1>7, <2>2
  <2> QED BY <1>1, <1>4, <1>6, <1>8, <2>1, <2>3
<1>9. CASE v.page = r /\ m < limit /\ FirstRank <= w.n + 1
  <2>1. m + 1 <= limit /\ (m + 1) + FirstRank <= (w.n + 1) + 1
    BY <1>5, <1>7, <1>9
  <2>2. Fine(v)
    BY <1>4, <1>5, <1>6, <1>9, <2>1 DEF Fine
  <2> QED BY <1>1, <1>4, <1>6, <1>9, <2>2
<1> QED BY <1>2, <1>5, <1>6, <1>7, <1>8, <1>9

\* A walk counts all entries, keeps what it has, and takes those of the page that are not bad.
LEMMA WalkFacts ==
  ASSUME offset \in Nat, limit \in Nat \ {0}, NEW s \in Seq(1..MaxItems),
         NEW w0, Fine(w0), NEW bad
  PROVE  /\ Fine(Walk(w0, s, bad)) /\ Walk(w0, s, bad).n = w0.n + Len(s)
         /\ ToSet(w0.page) \subseteq ToSet(Walk(w0, s, bad).page)
         /\ \A j \in 1..Len(s) :
              FirstRank <= w0.n + j /\ w0.n + j < FirstRank + limit /\ s[j] \notin bad
                => s[j] \in ToSet(Walk(w0, s, bad).page)
<1>1. PICK n \in Nat : n = Len(s) /\ \A i \in 1..n : s[i] \in 1..MaxItems
  BY LenProperties
<1>2. PICK f : /\ f[0] = w0 /\ Walk(w0, s, bad) = f[n]
               /\ \A i \in 1..n : f[i] = Look(f[i - 1], s[i], bad)
  <2>1. PICK f : /\ f[0] = w0 /\ Walk(w0, s, bad) = f[Len(s)]
                 /\ \A i \in 1..Len(s) : f[i] = Look(f[i - 1], s[i], bad)
    BY WalkSteps
  <2> QED BY <1>1, <2>1
<1> HIDE DEF ToSet
<1> DEFINE Due(j) == FirstRank <= w0.n + j /\ w0.n + j < FirstRank + limit /\ s[j] \notin bad
           Right(i) == /\ Fine(f[i]) /\ f[i].n = w0.n + i
                       /\ ToSet(w0.page) \subseteq ToSet(f[i].page)
                       /\ \A j \in 1..i : Due(j) => s[j] \in ToSet(f[i].page)
           P == {i \in 0..n : Right(i)}
<1>0. w0.n \in Nat
  BY DEF Fine
<1>3. 0 \in P
  <2>1. Right(0)
    BY <1>0, <1>2
  <2> HIDE DEF Right
  <2> QED BY <2>1
<1>4. ASSUME NEW i \in 0..n, i < n, i \in P PROVE i + 1 \in P
  <2>1. i + 1 \in 1..n /\ (i + 1) - 1 = i /\ i \in Nat /\ i + 1 \in 0..n /\ s[i + 1] \in 1..MaxItems
    BY <1>1, <1>4
  <2>2. Right(i)
    BY <1>4
  <2> HIDE DEF P
  <2>3. PICK v : v = f[i] /\ f[i + 1] = Look(v, s[i + 1], bad)
    BY <1>2, <2>1
  <2>4. /\ Fine(f[i + 1]) /\ f[i + 1].n = v.n + 1
        /\ ToSet(v.page) \subseteq ToSet(f[i + 1].page)
        /\ FirstRank <= v.n + 1 /\ v.n + 1 < FirstRank + limit /\ s[i + 1] \notin bad
             => s[i + 1] \in ToSet(f[i + 1].page)
    <3>1. Fine(v)
      BY <2>2, <2>3
    <3>2. PICK x \in 1..MaxItems : x = s[i + 1]
      BY <2>1
    <3>3. /\ Fine(Look(v, x, bad)) /\ Look(v, x, bad).n = v.n + 1
          /\ ToSet(v.page) \subseteq ToSet(Look(v, x, bad).page)
          /\ FirstRank <= v.n + 1 /\ v.n + 1 < FirstRank + limit /\ x \notin bad
               => x \in ToSet(Look(v, x, bad).page)
      BY <3>1, LookFacts
    <3> HIDE DEF Right, Due
    <3> QED BY <2>3, <3>2, <3>3
  <2>5. v.n + 1 = w0.n + (i + 1)
    <3>1. v.n = w0.n + i
      BY <2>2, <2>3
    <3> HIDE DEF Right
    <3> QED BY <1>0, <2>1, <3>1
  <2>6. \A j \in 1..(i + 1) : j \in 1..i \/ j = i + 1
    BY <2>1
  <2>7. Right(i + 1)
    BY <2>2, <2>3, <2>4, <2>5, <2>6
  <2> HIDE DEF Right
  <2> QED BY <2>1, <2>7 DEF P
<1>5. \A i \in 0..n : i \in P
  <2> HIDE DEF P
  <2>1. \A i \in 0..n : i < n /\ i \in P => i + 1 \in P
    BY <1>4
  <2> QED BY <1>3, <2>1, Counting
<1>6. Right(n)
  <2>1. n \in 0..n
    OBVIOUS
  <2> HIDE DEF Right
  <2> QED BY <1>5, <2>1
<1> QED BY <1>1, <1>2, <1>6

\* Two walks, one behind the other, over a list that is made of two
LEMMA WalkedAll ==
  ASSUME offset \in Nat, limit \in Nat \ {0},
         NEW A \in Ups, NEW E \in Ups, NEW F \in Ups, ToSet(A) = ToSet(E) \cup ToSet(F),
         \A x \in ToSet(E), y \in ToSet(F) : x < y, ToSet(A) \subseteq 1..MaxItems,
         NEW b1, NEW b2, NEW w, w = Walk(Walk(Start, E, b1), F, b2)
  PROVE  /\ w.page \in Seq(1..MaxItems) /\ Len(w.page) <= limit /\ w.n = Len(A)
         /\ \A k \in 1..Len(A) : FirstRank <= k /\ k < FirstRank + limit =>
              A[k] \in ToSet(w.page) \cup (b1 \cap ToSet(E)) \cup (b2 \cap ToSet(F))
<1> HIDE DEF ToSet
<1>1. PICK n \in Nat : n = Len(E) /\ E \in Seq(1..MaxItems)
  <2>1. E \in Seq(Nat) /\ ToSet(E) \subseteq 1..MaxItems
    BY DEF Ups
  <2> QED BY <2>1, Typed, LenProperties
<1>2. PICK l \in Nat : l = Len(F) /\ F \in Seq(1..MaxItems)
  <2>1. F \in Seq(Nat) /\ ToSet(F) \subseteq 1..MaxItems
    BY DEF Ups
  <2> QED BY <2>1, Typed, LenProperties
<1>3. /\ Len(A) = n + l /\ \A j \in 1..n : A[j] = E[j]
      /\ \A j \in 1..l : A[n + j] = F[j]
  BY <1>1, <1>2, Joined
<1>4. Fine(Start) /\ Start.n = 0
  <2>1. PICK e : e = <<>> /\ e \in Seq(1..MaxItems) /\ Len(e) = 0
    BY EmptySeq
  <2>2. Start = [n |-> 0, page |-> e]
    BY <2>1 DEF Start
  <2>3. Start.n = 0 /\ Start.page = e
    BY <2>2
  <2> QED BY <2>1, <2>3 DEF Fine
<1>5. PICK u : u = Walk(Start, E, b1)
  OBVIOUS
<1>6. /\ Fine(u) /\ u.n = 0 + n
      /\ \A j \in 1..n : FirstRank <= 0 + j /\ 0 + j < FirstRank + limit /\ E[j] \notin b1
                           => E[j] \in ToSet(u.page)
  BY <1>1, <1>4, <1>5, WalkFacts
<1>7. /\ Fine(w) /\ w.n = u.n + l /\ ToSet(u.page) \subseteq ToSet(w.page)
      /\ \A j \in 1..l : FirstRank <= u.n + j /\ u.n + j < FirstRank + limit /\ F[j] \notin b2
                           => F[j] \in ToSet(w.page)
  BY <1>2, <1>5, <1>6, WalkFacts
<1>8. u.n = n /\ w.n = n + l
  BY <1>6, <1>7
<1>9. ASSUME NEW k \in 1..(n + l), FirstRank <= k, k < FirstRank + limit
      PROVE  A[k] \in ToSet(w.page) \cup (b1 \cap ToSet(E)) \cup (b2 \cap ToSet(F))
  <2>1. CASE k \in 1..n
    <3>1. A[k] = E[k] /\ E[k] \in ToSet(E)
      BY <1>1, <1>3, <2>1, Elements
    <3>2. 0 + k = k
      OBVIOUS
    <3>3. E[k] \notin b1 => E[k] \in ToSet(u.page)
      BY <1>6, <1>9, <2>1, <3>2
    <3> QED BY <1>7, <3>1, <3>3
  <2>2. CASE k \notin 1..n
    <3>1. PICK j \in 1..l : k = n + j
      <4>1. k - n \in 1..l /\ k = n + (k - n)
        BY <2>2
      <4> QED BY <4>1
    <3>2. A[k] = F[j] /\ F[j] \in ToSet(F)
      BY <1>2, <1>3, <3>1, Elements
    <3>3. F[j] \notin b2 => F[j] \in ToSet(w.page)
      BY <1>7, <1>8, <1>9, <3>1
    <3> QED BY <3>2, <3>3
  <2> QED BY <2>1, <2>2
<1> QED BY <1>3, <1>7, <1>8, <1>9 DEF Fine

\* Of keeps the elements that are in S, and the order.
LEMMA OfFacts ==
  ASSUME NEW s \in Ups, NEW S
  PROVE  Of(s, S) \in Ups /\ ToSet(Of(s, S)) = ToSet(s) \cap S
<1>1. PICK X : X = ToSet(s)
  OBVIOUS
<1>2. s \in Seq(Nat) /\ Of(s, S) = But(s, X \ S)
  BY <1>1 DEF Of, Ups
<1>3. But(s, X \ S) \in Ups
  BY ButUps
<1>4. ToSet(But(s, X \ S)) = X \ (X \ S)
  <2> HIDE DEF ToSet
  <2> QED BY <1>1, <1>2, ButFacts
<1> HIDE DEF ToSet
<1> QED BY <1>1, <1>2, <1>3, <1>4

\* The numbers up to n
LEMMA UptoFacts ==
  ASSUME NEW n \in Nat
  PROVE  \E s : /\ s = [i \in 1..n |-> i]
               /\ s \in Ups /\ s \in Seq(Nat) /\ Len(s) = n /\ ToSet(s) = 1..n
               /\ \A i \in 1..n : s[i] = i
<1>2. PICK s : s = [i \in 1..n |-> i]
  OBVIOUS
<1>3. s \in [1..n -> Nat]
  BY <1>2
<1>4. s \in Seq(Nat) /\ Len(s) = n /\ \A i \in 1..n : s[i] = i
  BY <1>2, <1>3
<1>5. s \in Ups
  BY <1>4 DEF Ups
<1>6. \A x : x \in ToSet(s) <=> x \in 1..n
  <2>1. \A x : x \in ToSet(s) <=> \E j \in 1..n : s[j] = x
    BY <1>4, Elements
  <2> HIDE DEF ToSet
  <2> QED BY <1>4, <2>1
<1> HIDE DEF ToSet
<1> QED BY <1>2, <1>4, <1>5, <1>6

\* The entries there are
LEMMA ItemsFacts ==
  ASSUME PagesTypeOK
  PROVE  /\ Items \in Ups /\ Len(Items) = size /\ ToSet(Items) = 1..size
         /\ \A i \in 1..size : Items[i] = i
<1>1. PICK n \in Nat : n = size
  BY PageAssumption DEF PagesTypeOK
<1>2. PICK s : s = [i \in 1..n |-> i] /\ s = Items
  BY <1>1 DEF Items
<1> HIDE DEF ToSet
<1>3. s \in Ups /\ Len(s) = n /\ ToSet(s) = 1..n /\ \A i \in 1..n : s[i] = i
  BY <1>2, UptoFacts
<1> QED BY <1>1, <1>2, <1>3

\* What is left of the entries, in their order
LEMMA ButItems ==
  ASSUME PagesTypeOK, NEW S
  PROVE  /\ But(Items, S) \in Ups /\ ToSet(But(Items, S)) = (1..size) \ S
         /\ Len(But(Items, S)) \in 0..size
         /\ But(Items, S) \in Seq(1..MaxItems)
<1>1. PICK s : s = Items
  OBVIOUS
<1>2. s \in Ups /\ s \in Seq(Nat) /\ Len(s) = size /\ ToSet(s) = 1..size
  BY <1>1, ItemsFacts DEF Ups
<1> HIDE DEF ToSet
<1>3. But(s, S) \in Ups /\ But(s, S) \in Seq(Nat)
  BY <1>2, ButUps DEF Ups
<1>4. ToSet(But(s, S)) = (1..size) \ S /\ Len(But(s, S)) <= size
  BY <1>2, ButFacts
<1>5. size \in Nat /\ size <= MaxItems /\ MaxItems \in Nat
  BY PageAssumption DEF PagesTypeOK
<1>6. ToSet(But(s, S)) \subseteq 1..MaxItems
  BY <1>4, <1>5
<1>7. Len(But(s, S)) \in Nat
  BY <1>3, LenProperties
<1> QED BY <1>1, <1>3, <1>4, <1>5, <1>6, <1>7, Typed

(***************************************************************************)
(* The pages of each type of query                                         *)
(***************************************************************************)
\* What the pages go through, in their order, and what they leave out of it
InOrder ==
  IF type \in {"subpath", "search", "search_sorted", "spaces"} THEN But(Items, hidden)
  ELSE IF type \in {"sql", "events_search", "sql_events_search"} THEN But(Items, other)
  ELSE Items
Skipped ==
  IF type = "subpath" THEN other \ Subfolders
  ELSE IF type = "search" THEN other
  ELSE IF type \in {"locators", "events", "events_search", "sql_events", "sql_events_search"}
       THEN hidden
  ELSE {}

\* The places that the page at the offset is to have
InPage(k) ==
  IF Overlapping THEN FirstRank <= k /\ k < FirstRank + limit
  ELSE IF type \in Logs THEN k + offset <= Len(InOrder) /\ Len(InOrder) < k + offset + limit
  ELSE IF type = "spaces" THEN TRUE
  ELSE offset < k /\ k <= offset + limit

\* An answer is a page that fits, with all it is to have, and a count that does not end
\* the client's round before the last of it.
Covers(pg) ==
  type # "search_schemas" =>
    \A k \in 1..Len(InOrder) : InPage(k) => InOrder[k] \in ToSet(pg) \cup Skipped
Within(pg) ==
  type # "spaces" => Len(pg) <= IF type = "sql_events" /\ offset > 0 THEN limit + 1 ELSE limit
Ends(n) ==
  type # "search_schemas" /\ offset + limit >= n => offset + limit >= Len(InOrder)
Right(a) ==
  /\ a[1] \in Seq(1..MaxItems) /\ a[2] \in 0..MaxItems
  /\ Covers(a[1]) /\ Within(a[1]) /\ Ends(a[2])

\* The bounds of a state
LEMMA Bounds ==
  ASSUME PagesTypeOK
  PROVE  /\ offset \in Nat /\ limit \in Nat \ {0} /\ size \in Nat /\ size <= MaxItems
         /\ MaxItems \in Nat /\ first \in Nat /\ first <= size
BY PageAssumption DEF PagesTypeOK

\* The page of a walk of a folder is right: entries and then subfolders.
LEMMA SubpathRight == ASSUME PagesTypeOK, type = "subpath" PROVE Right(Answer)
<1>1. Answer = <<WalkFolders.page, WalkFolders.n>>
  BY type = "subpath" DEF Answer
<1>2. PICK A : A = But(Items, hidden)
  OBVIOUS
<1>3. InOrder = A /\ Skipped = other \ Subfolders /\ Overlapping
  BY <1>2, type = "subpath" DEF InOrder, Skipped, Overlapping, Walks
<1>4. PICK E : E = But(Items, hidden \cup Subfolders)
  OBVIOUS
<1>5. PICK F : F = But(Of(Items, Subfolders), hidden)
  OBVIOUS
<1>6. PICK w : w = WalkFolders
  OBVIOUS
<1>7. w = Walk(Walk(Start, E, other), F, {})
  BY <1>4, <1>5, <1>6 DEF WalkFolders, WalkEntries
<1> HIDE DEF ToSet
<1>8. A \in Ups /\ ToSet(A) = (1..size) \ hidden /\ Len(A) \in 0..size
  BY <1>2, ButItems
<1>9. E \in Ups /\ ToSet(E) = (1..size) \ (hidden \cup Subfolders)
  BY <1>4, ButItems
<1>10. F \in Ups /\ ToSet(F) = ((1..size) \cap Subfolders) \ hidden
  <2>1. PICK o : o = Of(Items, Subfolders)
    OBVIOUS
  <2>2. o \in Ups /\ o \in Seq(Nat) /\ ToSet(o) = (1..size) \cap Subfolders
    BY <2>1, ItemsFacts, OfFacts DEF Ups
  <2>3. F = But(o, hidden)
    BY <1>5, <2>1
  <2> QED BY <2>2, <2>3, ButUps, ButFacts
<1>11. ToSet(A) = ToSet(E) \cup ToSet(F)
  BY <1>8, <1>9, <1>10
<1>12. \A x \in ToSet(E), y \in ToSet(F) : x < y
  <2>1. \A x \in 1..size, y \in 1..size : x \notin Subfolders /\ y \in Subfolders => x < y
    BY Bounds DEF Subfolders, PagesTypeOK
  <2> QED BY <1>9, <1>10, <2>1
<1>13. ToSet(A) \subseteq 1..MaxItems
  BY <1>8, Bounds
<1>14. /\ w.page \in Seq(1..MaxItems) /\ Len(w.page) <= limit /\ w.n = Len(A)
       /\ \A k \in 1..Len(A) : FirstRank <= k /\ k < FirstRank + limit =>
            A[k] \in ToSet(w.page) \cup (other \cap ToSet(E)) \cup ({} \cap ToSet(F))
  <2>1. offset \in Nat /\ limit \in Nat \ {0}
    BY Bounds
  <2>2. A \in Ups /\ E \in Ups /\ F \in Ups
    BY <1>8, <1>9, <1>10
  <2> QED BY <1>7, <1>11, <1>12, <1>13, <2>1, <2>2, WalkedAll
<1>15. other \cap ToSet(E) \subseteq Skipped
  BY <1>3, <1>9
<1>16. Covers(w.page)
  BY <1>3, <1>14, <1>15 DEF Covers, InPage
<1>17. Within(w.page) /\ Ends(w.n)
  BY <1>3, <1>14, type = "subpath" DEF Within, Ends
<1>18. w.n \in 0..MaxItems
  BY <1>8, <1>14, Bounds
<1> QED BY <1>1, <1>6, <1>14, <1>16, <1>17, <1>18 DEF Right

\* The page of a walk for locators is right.
LEMMA LocatorsRight == ASSUME PagesTypeOK, type = "locators" PROVE Right(Answer)
<1>1. Answer = <<Locators.page, Locators.n>>
  BY type = "locators" DEF Answer
<1>2. PICK A : A = Items
  OBVIOUS
<1>3. InOrder = A /\ Skipped = hidden /\ Overlapping
  BY <1>2, type = "locators" DEF InOrder, Skipped, Overlapping, Walks
<1>4. PICK E : E = But(Items, Subfolders)
  OBVIOUS
<1>5. PICK F : F = Of(Items, Subfolders)
  OBVIOUS
<1>6. PICK w : w = Locators
  OBVIOUS
<1>7. w = Walk(Walk(Start, E, hidden), F, hidden)
  BY <1>4, <1>5, <1>6 DEF Locators
<1> HIDE DEF ToSet
<1>8. A \in Ups /\ ToSet(A) = 1..size /\ Len(A) = size
  BY <1>2, ItemsFacts
<1>9. E \in Ups /\ ToSet(E) = (1..size) \ Subfolders
  BY <1>4, ButItems
<1>10. F \in Ups /\ ToSet(F) = (1..size) \cap Subfolders
  BY <1>5, ItemsFacts, OfFacts
<1>11. ToSet(A) = ToSet(E) \cup ToSet(F)
  BY <1>8, <1>9, <1>10
<1>12. \A x \in ToSet(E), y \in ToSet(F) : x < y
  <2>1. \A x \in 1..size, y \in 1..size : x \notin Subfolders /\ y \in Subfolders => x < y
    BY Bounds DEF Subfolders, PagesTypeOK
  <2> QED BY <1>9, <1>10, <2>1
<1>13. ToSet(A) \subseteq 1..MaxItems
  BY <1>8, Bounds
<1>14. /\ w.page \in Seq(1..MaxItems) /\ Len(w.page) <= limit /\ w.n = Len(A)
       /\ \A k \in 1..Len(A) : FirstRank <= k /\ k < FirstRank + limit =>
            A[k] \in ToSet(w.page) \cup (hidden \cap ToSet(E)) \cup (hidden \cap ToSet(F))
  <2>1. offset \in Nat /\ limit \in Nat \ {0}
    BY Bounds
  <2>2. A \in Ups /\ E \in Ups /\ F \in Ups
    BY <1>8, <1>9, <1>10
  <2> QED BY <1>7, <1>11, <1>12, <1>13, <2>1, <2>2, WalkedAll
<1>16. Covers(w.page)
  BY <1>3, <1>14 DEF Covers, InPage
<1>17. Within(w.page) /\ Ends(w.n)
  BY <1>3, <1>14, type = "locators" DEF Within, Ends
<1>18. w.n \in 0..MaxItems
  BY <1>8, <1>14, Bounds
<1> QED BY <1>1, <1>6, <1>14, <1>16, <1>17, <1>18 DEF Right

\* The list of spaces is right.
LEMMA SpacesRight == ASSUME PagesTypeOK, type = "spaces" PROVE Right(Answer)
<1>1. PICK A : A = But(Items, hidden)
  OBVIOUS
<1>2. Answer = <<A, Len(A)>>
  BY <1>1, type = "spaces" DEF Answer, Spaces
<1>3. InOrder = A
  BY <1>1, type = "spaces" DEF InOrder
<1>4. A \in Seq(1..MaxItems) /\ Len(A) \in 0..size
  BY <1>1, ButItems
<1> HIDE DEF ToSet
<1>5. \A k \in 1..Len(A) : A[k] \in ToSet(A)
  BY <1>4, Elements
<1>6. Covers(A) /\ Within(A) /\ Ends(Len(A))
  BY <1>3, <1>5, type = "spaces" DEF Covers, Within, Ends
<1>7. Len(A) \in 0..MaxItems
  BY <1>4, Bounds
<1> QED BY <1>2, <1>4, <1>6, <1>7 DEF Right

\* Searches and SQL: the page is cut out of what is found.
LEMMA SqlRight == ASSUME PagesTypeOK, type = "sql" PROVE Right(Answer)
<1>1. PICK A : A = But(Items, other)
  OBVIOUS
<1>2. PICK p : p = Slice(A)
  OBVIOUS
<1>3. SqlStatement(FALSE) = p /\ SqlStatement(TRUE) = A
  BY <1>1, <1>2 DEF SqlStatement
<1>4. Answer = <<p, IF p = <<>> THEN 0 ELSE Len(A)>>
  BY <1>3, type = "sql" DEF Answer, SqlTotal
<1>5. InOrder = A /\ ~Overlapping /\ type \notin Logs
  BY <1>1, type = "sql" DEF InOrder, Overlapping, Walks, Logs
<1>6. A \in Seq(1..MaxItems) /\ Len(A) \in 0..size
  BY <1>1, ButItems
<1> HIDE DEF ToSet
<1>7. /\ p \in Seq(1..MaxItems) /\ Len(p) <= limit
      /\ \A i \in 1..Len(A) : offset < i /\ i <= offset + limit => A[i] \in ToSet(p)
      /\ p = <<>> => Len(A) <= offset
  BY <1>2, <1>6, Bounds, SliceFacts
<1>8. Covers(p)
  BY <1>5, <1>7, type = "sql" DEF Covers, InPage
<1>9. Within(p)
  BY <1>7, type = "sql" DEF Within
<1>10. Ends(IF p = <<>> THEN 0 ELSE Len(A))
  <2>1. PICK n \in Nat : n = Len(A)
    BY <1>6, LenProperties
  <2>2. p = <<>> => offset + limit >= n
    BY <1>7, <2>1, Bounds
  <2> QED BY <1>5, <2>1, <2>2 DEF Ends
<1>11. (IF p = <<>> THEN 0 ELSE Len(A)) \in 0..MaxItems
  BY <1>6, Bounds
<1> QED BY <1>4, <1>7, <1>8, <1>9, <1>10, <1>11 DEF Right

\* The page of a search in one index is right.
LEMMA SearchRight == ASSUME PagesTypeOK, type = "search" PROVE Right(Answer)
<1>1. PICK A : A = But(Items, hidden)
  OBVIOUS
<1>2. PICK p : p = Slice(A)
  OBVIOUS
<1>3. RedisSearch(A, limit, offset).page = p /\ RedisSearch(A, limit, offset).n = Len(A)
  BY <1>2 DEF RedisSearch, Slice
<1>4. Answer = <<But(p, other), Len(A)>>
  BY <1>1, <1>3, type = "search" DEF Answer, Readable
<1>5. InOrder = A /\ ~Overlapping /\ type \notin Logs /\ Skipped = other
  BY <1>1, type = "search" DEF InOrder, Overlapping, Walks, Logs, Skipped
<1>6. A \in Seq(1..MaxItems) /\ Len(A) \in 0..size
  BY <1>1, ButItems
<1> HIDE DEF ToSet
<1>7. /\ p \in Seq(1..MaxItems) /\ Len(p) <= limit
      /\ \A i \in 1..Len(A) : offset < i /\ i <= offset + limit => A[i] \in ToSet(p)
  BY <1>2, <1>6, Bounds, SliceFacts
<1>8. PICK q : q = But(p, other)
  OBVIOUS
<1>9. q \in Seq(1..MaxItems) /\ Len(q) <= Len(p) /\ ToSet(q) = ToSet(p) \ other
  BY <1>7, <1>8, ButFacts
<1>10. Covers(q)
  BY <1>5, <1>7, <1>9, type = "search" DEF Covers, InPage
<1>11. Within(q)
  <2>1. Len(p) \in Nat /\ Len(q) \in Nat
    BY <1>7, <1>9, LenProperties
  <2> QED BY <1>7, <1>9, <2>1, Bounds, type = "search" DEF Within
<1>12. Ends(Len(A)) /\ Len(A) \in 0..MaxItems
  BY <1>5, <1>6, Bounds DEF Ends
<1> QED BY <1>4, <1>8, <1>9, <1>10, <1>11, <1>12 DEF Right

\* What a search finds first
LEMMA TopFacts ==
  ASSUME NEW s \in Seq(Nat), NEW l \in Nat, NEW X, X = ToSet(RedisSearch(s, l, 0).page)
  PROVE  X \subseteq ToSet(s) /\ \A i \in 1..Len(s) : i <= l => s[i] \in X
<1>1. PICK d : d = Sed(s, 0)
  OBVIOUS
<1>2. PICK h : h = HeadLines(d, l)
  OBVIOUS
<1> HIDE DEF ToSet
<1>3. X = ToSet(h)
  BY <1>1, <1>2 DEF RedisSearch
<1>4. PICK n \in Nat : n = Len(s)
  BY LenProperties
<1>5. d \in Seq(Nat) /\ Len(d) = n /\ \A i \in 1..n : d[i] = s[i]
  <2>1. PICK z \in Nat : z = 0
    OBVIOUS
  <2>3. /\ Sed(s, z) \in Seq(Nat) /\ Len(Sed(s, z)) = (IF z < Len(s) THEN Len(s) - z ELSE 0)
        /\ \A i \in 1..Len(s) : i > z => Sed(s, z)[i - z] = s[i]
    BY SedFacts
  <2>4. /\ d \in Seq(Nat) /\ Len(d) = n
        /\ \A i \in 1..n : i > 0 => d[i - 0] = s[i]
    BY <1>1, <1>4, <2>1, <2>3
  <2>2. \A i \in 1..n : i - 0 = i /\ i > 0
    OBVIOUS
  <2> QED BY <2>2, <2>4
<1>6. /\ h \in Seq(Nat) /\ Len(h) = (IF l < n THEN l ELSE n)
      /\ \A i \in 1..n : i <= l => h[i] = d[i]
  BY <1>2, <1>5, HeadFacts
<1>7. \A i \in 1..Len(h) : i \in 1..n /\ i <= l
  BY <1>6
<1>8. \A x : x \in X => x \in ToSet(s)
  <2>1. \A x : x \in X => \E i \in 1..Len(h) : h[i] = x
    BY <1>3, <1>6, Elements
  <2>2. \A x : x \in ToSet(s) <=> \E i \in 1..n : s[i] = x
    BY <1>4, Elements
  <2> QED BY <1>5, <1>6, <1>7, <2>1, <2>2
<1>9. ASSUME NEW i \in 1..n, i <= l PROVE s[i] \in X
  <2>1. i \in 1..Len(h) /\ h[i] = s[i]
    BY <1>5, <1>6, <1>9
  <2> QED BY <1>3, <1>6, <2>1, Elements
<1> QED BY <1>4, <1>8, <1>9

\* The page of a sorted search in two indices is right: what it needs is first in one of them.
LEMMA SearchSortedRight == ASSUME PagesTypeOK, type = "search_sorted" PROVE Right(Answer)
<1>1. PICK A : A = But(Items, hidden)
  OBVIOUS
<1>2. PICK B : B = But(Items, hidden \cup other)
  OBVIOUS
<1>3. PICK C : C = But(Of(Items, other), hidden)
  OBVIOUS
<1>4. PICK X : X = ToSet(RedisSearch(B, limit + offset, 0).page)
  OBVIOUS
<1>5. PICK Y : Y = ToSet(RedisSearch(C, limit + offset, 0).page)
  OBVIOUS
<1>6. PICK M : M = Of(Items, X \cup Y)
  OBVIOUS
<1>7. PICK p : p = Slice(M)
  OBVIOUS
<1>8. Answer = <<p, Len(A)>>
  BY <1>1, <1>2, <1>3, <1>4, <1>5, <1>6, <1>7, type = "search_sorted" DEF Answer, SearchSorted
<1>9. InOrder = A /\ ~Overlapping /\ type \notin Logs
  BY <1>1, type = "search_sorted" DEF InOrder, Overlapping, Walks, Logs
<1> HIDE DEF ToSet
<1>10. A \in Ups /\ ToSet(A) = (1..size) \ hidden /\ Len(A) \in 0..size
  BY <1>1, ButItems
<1>11. B \in Ups /\ ToSet(B) = (1..size) \ (hidden \cup other)
  BY <1>2, ButItems
<1>12. C \in Ups /\ ToSet(C) = ((1..size) \cap other) \ hidden
  <2>1. PICK o : o = Of(Items, other)
    OBVIOUS
  <2>2. o \in Ups /\ o \in Seq(Nat) /\ ToSet(o) = (1..size) \cap other
    BY <2>1, ItemsFacts, OfFacts DEF Ups
  <2>3. C = But(o, hidden)
    BY <1>3, <2>1
  <2> QED BY <2>2, <2>3, ButUps, ButFacts
<1>13. PICK n \in Nat : n = Len(A)
  BY <1>10, LenProperties DEF Ups
<1>14. PICK l \in Nat : l = limit + offset
  BY Bounds
<1>15. /\ X \subseteq ToSet(B) /\ \A i \in 1..Len(B) : i <= l => B[i] \in X
       /\ Y \subseteq ToSet(C) /\ \A i \in 1..Len(C) : i <= l => C[i] \in Y
  <2>1. B \in Seq(Nat) /\ C \in Seq(Nat)
    BY <1>11, <1>12 DEF Ups
  <2>2. X = ToSet(RedisSearch(B, l, 0).page) /\ Y = ToSet(RedisSearch(C, l, 0).page)
    BY <1>4, <1>5, <1>14
  <2> QED BY <2>1, <2>2, TopFacts
<1>16. M \in Ups /\ ToSet(M) = X \cup Y
  <2>1. M \in Ups /\ ToSet(M) = (1..size) \cap (X \cup Y)
    BY <1>6, ItemsFacts, OfFacts
  <2> QED BY <1>11, <1>12, <1>15, <2>1
<1>17. ToSet(M) \subseteq ToSet(A)
  BY <1>10, <1>11, <1>12, <1>15, <1>16
<1>18. ASSUME NEW j \in 1..n, j <= l PROVE A[j] \in ToSet(M)
  <2>1. A[j] \in ToSet(A)
    BY <1>10, <1>13, Elements DEF Ups
  <2>2. CASE A[j] \in ToSet(B)
    <3>1. PICK m \in 1..Len(B) : B[m] = A[j]
      BY <1>11, <2>2, Elements DEF Ups
    <3>2. ToSet(B) \subseteq ToSet(A)
      BY <1>10, <1>11
    <3>3. m <= j
      BY <1>10, <1>11, <1>13, <3>1, <3>2, RankLe
    <3>4. m <= l
      <4>1. m \in Nat
        BY <1>11, LenProperties DEF Ups
      <4> QED BY <1>18, <3>3, <4>1
    <3> QED BY <1>15, <1>16, <3>1, <3>4
  <2>3. CASE A[j] \in ToSet(C)
    <3>1. PICK m \in 1..Len(C) : C[m] = A[j]
      BY <1>12, <2>3, Elements DEF Ups
    <3>2. ToSet(C) \subseteq ToSet(A)
      BY <1>10, <1>12
    <3>3. m <= j
      BY <1>10, <1>12, <1>13, <3>1, <3>2, RankLe
    <3>4. m <= l
      <4>1. m \in Nat
        BY <1>12, LenProperties DEF Ups
      <4> QED BY <1>18, <3>3, <4>1
    <3> QED BY <1>15, <1>16, <3>1, <3>4
  <2> QED BY <1>10, <1>11, <1>12, <2>1, <2>2, <2>3
<1>19. PICK q \in Nat : q = (IF l < n THEN l ELSE n)
  OBVIOUS
<1>20. q <= Len(M) /\ \A j \in 1..q : M[j] = A[j]
  <2>1. q \in 0..Len(A) /\ \A j \in 1..q : j \in 1..n /\ j <= l
    BY <1>13, <1>19
  <2> QED BY <1>10, <1>16, <1>17, <1>18, <2>1, SamePrefix
<1>21. /\ p \in Seq(1..MaxItems) /\ Len(p) <= limit
       /\ \A i \in 1..Len(M) : offset < i /\ i <= offset + limit => M[i] \in ToSet(p)
  <2>1. ToSet(M) \subseteq 1..MaxItems /\ M \in Seq(Nat)
    BY <1>10, <1>16, <1>17, Bounds DEF Ups
  <2>2. M \in Seq(1..MaxItems)
    BY <2>1, Typed
  <2> QED BY <1>7, <2>2, Bounds, SliceFacts
<1>22. ASSUME NEW k \in 1..n, offset < k, k <= offset + limit PROVE A[k] \in ToSet(p)
  <2>1. k \in 1..q
    BY <1>14, <1>19, <1>22, Bounds
  <2>2. k \in 1..Len(M)
    <3>1. Len(M) \in Nat
      BY <1>16, LenProperties DEF Ups
    <3> QED BY <1>20, <2>1, <3>1
  <2> QED BY <1>20, <1>21, <1>22, <2>1, <2>2
<1>23. Covers(p)
  BY <1>9, <1>13, <1>22, type = "search_sorted" DEF Covers, InPage
<1>24. Within(p) /\ Ends(Len(A)) /\ Len(A) \in 0..MaxItems
  BY <1>9, <1>10, <1>21, Bounds, type = "search_sorted" DEF Within, Ends
<1> QED BY <1>8, <1>21, <1>23, <1>24 DEF Right

\* The page of a search in two indices that is not sorted fits; it promises no more.
LEMMA SearchSchemasRight == ASSUME PagesTypeOK, type = "search_schemas" PROVE Right(Answer)
<1>1. PICK B : B = But(Items, hidden \cup other)
  OBVIOUS
<1>2. PICK C : C = But(Of(Items, other), hidden)
  OBVIOUS
<1>3. PICK x : x = Slice(B)
  OBVIOUS
<1>4. PICK y : y = Slice(C)
  OBVIOUS
<1>5. RedisSearch(B, limit, offset).page = x /\ RedisSearch(C, limit, offset).page = y
  BY <1>3, <1>4 DEF RedisSearch, Slice
<1>6. PICK p : p = Slice(x \o y)
  OBVIOUS
<1>7. PICK A : A = But(Items, hidden)
  OBVIOUS
<1>8. Answer = <<p, Len(A)>>
  BY <1>1, <1>2, <1>5, <1>6, <1>7, type = "search_schemas" DEF Answer, SearchSchemas
<1>9. B \in Seq(1..MaxItems) /\ Len(A) \in 0..MaxItems
  BY <1>1, <1>7, ButItems, Bounds
<1> HIDE DEF ToSet
<1>10. C \in Seq(1..MaxItems)
  <2>1. PICK o : o = Of(Items, other)
    OBVIOUS
  <2>2. o \in Ups /\ o \in Seq(Nat) /\ ToSet(o) = (1..size) \cap other
    BY <2>1, ItemsFacts, OfFacts DEF Ups
  <2>3. C = But(o, hidden)
    BY <1>2, <2>1
  <2>4. C \in Seq(Nat) /\ ToSet(C) = ToSet(o) \ hidden
    BY <2>2, <2>3, ButFacts
  <2>5. ToSet(C) \subseteq 1..MaxItems
    BY <2>2, <2>4, Bounds
  <2> QED BY <2>4, <2>5, Typed
<1>11. x \in Seq(1..MaxItems) /\ y \in Seq(1..MaxItems)
  BY <1>3, <1>4, <1>9, <1>10, Bounds, SliceFacts
<1>12. x \o y \in Seq(1..MaxItems)
  BY <1>11, ConcatProperties
<1>13. p \in Seq(1..MaxItems) /\ Len(p) <= limit
  BY <1>6, <1>12, Bounds, SliceFacts
<1>14. Covers(p) /\ Within(p) /\ Ends(Len(A))
  BY <1>13, type = "search_schemas" DEF Covers, Within, Ends
<1> QED BY <1>8, <1>9, <1>13, <1>14 DEF Right

\* The pages of the logs
LEMMA HistoryRight == ASSUME PagesTypeOK, type = "history" PROVE Right(Answer)
<1>1. PICK A : A = Items
  OBVIOUS
<1>2. PICK f : f = TailFrom(A, offset)
  OBVIOUS
<1>3. PICK h : h = HeadLines(f, limit)
  OBVIOUS
<1>4. PICK p : p = Reverse(h)
  OBVIOUS
<1>5. Answer = <<p, size>>
  BY <1>1, <1>2, <1>3, <1>4, type = "history" DEF Answer, History
<1>6. InOrder = A /\ Overlapping
  BY <1>1, type = "history" DEF InOrder, Overlapping
<1> HIDE DEF ToSet
<1>7. A \in Seq(1..MaxItems) /\ Len(A) = size
  <2>1. A \in Seq(Nat) /\ ToSet(A) = 1..size /\ Len(A) = size
    BY <1>1, ItemsFacts DEF Ups
  <2>2. ToSet(A) \subseteq 1..MaxItems
    BY <2>1, Bounds
  <2> QED BY <2>1, <2>2, Typed
<1>8. PICK n \in Nat : n = Len(A)
  BY <1>7, Bounds
<1>9. PICK o \in Nat : o = offset
  BY Bounds
<1>10. PICK l \in Nat : l = limit /\ l # 0
  BY Bounds
<1>11. /\ f \in Seq(1..MaxItems)
       /\ \A i \in 1..n : o = 0 => i <= Len(f) /\ f[i] = A[i]
       /\ \A i \in 1..n : o > 0 /\ o <= i => i - o + 1 \in 1..Len(f) /\ f[i - o + 1] = A[i]
  BY <1>2, <1>7, <1>8, <1>9, FromFacts
<1>12. PICK m \in Nat : m = Len(f)
  BY <1>11, LenProperties
<1>13. /\ h \in Seq(1..MaxItems) /\ Len(h) = (IF l < m THEN l ELSE m)
       /\ \A i \in 1..m : i <= l => h[i] = f[i]
  BY <1>3, <1>10, <1>11, <1>12, HeadFacts
<1>14. /\ p \in Seq(1..MaxItems) /\ Len(p) = Len(h)
       /\ \A i \in 1..Len(h) : h[i] \in ToSet(p)
  BY <1>4, <1>13, ReverseFacts
<1>15. ASSUME NEW k \in 1..n, FirstRank <= k, k < FirstRank + limit PROVE A[k] \in ToSet(p)
  <2>1. PICK i \in 1..m : i <= l /\ f[i] = A[k]
    <3>1. CASE o = 0
      <4>1. k \in 1..m /\ k <= l
        BY <1>9, <1>10, <1>11, <1>12, <1>15, <3>1 DEF FirstRank
      <4> QED BY <1>11, <3>1, <4>1
    <3>2. CASE o > 0
      <4>1. o <= k /\ k - o + 1 <= l
        BY <1>9, <1>10, <1>15, <3>2 DEF FirstRank
      <4> QED BY <1>11, <1>12, <3>2, <4>1
    <3> QED BY <3>1, <3>2
  <2>2. i \in 1..Len(h) /\ h[i] = f[i]
    BY <1>13, <2>1
  <2> QED BY <1>14, <2>1, <2>2
<1>16. Covers(p)
  BY <1>6, <1>8, <1>15 DEF Covers, InPage
<1>17. Within(p)
  BY <1>10, <1>13, <1>14, type = "history" DEF Within
<1>18. Ends(size) /\ size \in 0..MaxItems
  BY <1>6, <1>7, Bounds DEF Ends
<1> QED BY <1>5, <1>14, <1>16, <1>17, <1>18 DEF Right

\* The last lines of a log, up to the page
LEMMA LastFacts ==
  ASSUME PagesTypeOK, NEW A \in Seq(1..MaxItems), NEW t, t = TailLines(A, limit + offset)
  PROVE  \E n, c \in Nat :
           /\ n = Len(A) /\ c = (IF limit + offset < n THEN limit + offset ELSE n)
           /\ t \in Seq(1..MaxItems) /\ Len(t) = c
           /\ \A i \in 1..c : t[i] = A[n - c + i]
<1>1. PICK n \in Nat : n = Len(A)
  BY LenProperties
<1>2. PICK l \in Nat \ {0} : l = limit + offset
  BY Bounds
<1>3. PICK c \in Nat : c = IF l < n THEN l ELSE n
  OBVIOUS
<1>4. /\ t \in Seq(1..MaxItems) /\ Len(t) = c
      /\ \A i \in 1..Len(t) : t[i] = A[n - Len(t) + i]
  BY <1>1, <1>2, <1>3, TailFacts
<1>5. \A i \in 1..c : t[i] = A[n - c + i]
  BY <1>4
<1>6. c = IF limit + offset < n THEN limit + offset ELSE n
  BY <1>2, <1>3
<1> WITNESS n \in Nat, c \in Nat
<1> QED BY <1>1, <1>4, <1>5, <1>6

\* The page of events is right.
LEMMA EventsRight == ASSUME PagesTypeOK, type = "events" PROVE Right(Answer)
<1>1. PICK A : A = Items
  OBVIOUS
<1>2. PICK t : t = TailLines(A, limit + offset)
  OBVIOUS
<1>3. PICK h : h = IF offset > 0 THEN HeadLines(t, limit) ELSE t
  OBVIOUS
<1>4. PICK r : r = Reverse(h)
  OBVIOUS
<1>5. PICK p : p = But(r, hidden)
  OBVIOUS
<1>6. Answer = <<p, size>>
  BY <1>1, <1>2, <1>3, <1>4, <1>5, type = "events" DEF Answer, Events
<1>7. InOrder = A /\ ~Overlapping /\ type \in Logs /\ Skipped = hidden
  BY <1>1, type = "events" DEF InOrder, Overlapping, Walks, Logs, Skipped
<1> HIDE DEF ToSet
<1>8. A \in Seq(1..MaxItems) /\ Len(A) = size
  <2>1. A \in Seq(Nat) /\ ToSet(A) = 1..size /\ Len(A) = size
    BY <1>1, ItemsFacts DEF Ups
  <2>2. ToSet(A) \subseteq 1..MaxItems
    BY <2>1, Bounds
  <2> QED BY <2>1, <2>2, Typed
<1>9. PICK o \in Nat : o = offset
  BY Bounds
<1>10. PICK l \in Nat : l = limit /\ l # 0
  BY Bounds
<1>11. PICK n, c \in Nat :
         /\ n = Len(A) /\ c = (IF l + o < n THEN l + o ELSE n)
         /\ t \in Seq(1..MaxItems) /\ Len(t) = c
         /\ \A i \in 1..c : t[i] = A[n - c + i]
  BY <1>2, <1>8, <1>9, <1>10, LastFacts
<1>12. /\ h \in Seq(1..MaxItems) /\ Len(h) <= l /\ Len(h) \in Nat
       /\ \A i \in 1..c : i <= l => i \in 1..Len(h) /\ h[i] = t[i]
  <2>1. CASE o > 0
    <3>1. /\ HeadLines(t, l) \in Seq(1..MaxItems) /\ Len(HeadLines(t, l)) = (IF l < c THEN l ELSE c)
          /\ \A i \in 1..c : i <= l => HeadLines(t, l)[i] = t[i]
      BY <1>11, HeadFacts
    <3>2. h = HeadLines(t, l)
      BY <1>3, <1>9, <1>10, <2>1
    <3> QED BY <3>1, <3>2
  <2>2. CASE ~(o > 0)
    <3>1. h = t /\ o = 0
      BY <1>3, <1>9, <2>2
    <3> QED BY <1>11, <3>1
  <2> QED BY <2>1, <2>2
<1>13. /\ r \in Seq(1..MaxItems) /\ Len(r) = Len(h)
       /\ \A i \in 1..Len(h) : h[i] \in ToSet(r)
  BY <1>4, <1>12, ReverseFacts
<1>14. p \in Seq(1..MaxItems) /\ Len(p) <= Len(r) /\ ToSet(p) = ToSet(r) \ hidden
  BY <1>5, <1>13, ButFacts
<1>15. ASSUME NEW k \in 1..n, k + o <= n, n < k + o + l PROVE A[k] \in ToSet(p) \cup hidden
  <2>1. PICK i \in 1..c : i = k - n + c /\ i <= l /\ n - c + i = k
    <3>0. (c = l + o /\ l + o < n) \/ (c = n /\ n <= l + o)
      BY <1>11
    <3>1. k - n + c \in 1..c /\ k - n + c <= l /\ n - c + (k - n + c) = k
      BY <1>15, <3>0
    <3> QED BY <3>1
  <2>2. A[k] \in ToSet(r)
    BY <1>11, <1>12, <1>13, <2>1
  <2> QED BY <1>14, <2>2
<1>16. Covers(p)
  BY <1>7, <1>9, <1>10, <1>11, <1>15, type = "events" DEF Covers, InPage
<1>17. Within(p)
  <2>1. Len(p) \in Nat
    BY <1>14, LenProperties
  <2> QED BY <1>10, <1>12, <1>13, <1>14, <2>1, type = "events" DEF Within
<1>18. Ends(size) /\ size \in 0..MaxItems
  BY <1>7, <1>8, Bounds DEF Ends
<1> QED BY <1>6, <1>14, <1>16, <1>17, <1>18 DEF Right

\* Events that are searched for, from the log and with SQL
LEMMA SearchedFacts ==
  ASSUME PagesTypeOK, NEW A, A = But(Items, other)
  PROVE  /\ But(EventsSearch, hidden) \in Seq(1..MaxItems)
         /\ Len(But(EventsSearch, hidden)) <= limit
         /\ \A k \in 1..Len(A) : k + offset <= Len(A) /\ Len(A) < k + offset + limit =>
              A[k] \in ToSet(But(EventsSearch, hidden)) \cup hidden
<1>1. PICK t : t = TailLines(A, limit + offset)
  OBVIOUS
<1>2. PICK v : v = Reverse(t)
  OBVIOUS
<1>3. PICK s : s = Sed(v, offset)
  OBVIOUS
<1>4. EventsSearch = s
  BY <1>1, <1>2, <1>3 DEF EventsSearch
<1>5. PICK p : p = But(s, hidden)
  OBVIOUS
<1> HIDE DEF ToSet
<1>8. A \in Seq(1..MaxItems)
  BY ButItems
<1>9. PICK o \in Nat : o = offset
  BY Bounds
<1>10. PICK l \in Nat : l = limit /\ l # 0
  BY Bounds
<1>11. PICK n, c \in Nat :
         /\ n = Len(A) /\ c = (IF l + o < n THEN l + o ELSE n)
         /\ t \in Seq(1..MaxItems) /\ Len(t) = c
         /\ \A i \in 1..c : t[i] = A[n - c + i]
  <2>1. \E n, c \in Nat :
           /\ n = Len(A) /\ c = (IF limit + offset < n THEN limit + offset ELSE n)
           /\ t \in Seq(1..MaxItems) /\ Len(t) = c
           /\ \A i \in 1..c : t[i] = A[n - c + i]
    BY <1>1, <1>8, LastFacts
  <2> QED BY <1>9, <1>10, <2>1
<1>12. (c = l + o /\ l + o < n) \/ (c = n /\ n <= l + o)
  BY <1>11
<1>13. /\ v \in Seq(1..MaxItems) /\ Len(v) = c
       /\ \A i \in 1..c : v[i] = t[c - i + 1]
  <2>1. /\ Reverse(t) \in Seq(1..MaxItems) /\ Len(Reverse(t)) = Len(t)
        /\ \A i \in 1..Len(t) : Reverse(t)[i] = t[Len(t) - i + 1]
    BY <1>11, ReverseFacts
  <2> QED BY <1>2, <1>11, <2>1
<1>14. /\ s \in Seq(1..MaxItems) /\ Len(s) = (IF o < c THEN c - o ELSE 0)
       /\ \A i \in 1..c : i > o => s[i - o] = v[i]
  BY <1>3, <1>9, <1>13, SedFacts
<1>15. p \in Seq(1..MaxItems) /\ Len(p) <= Len(s) /\ ToSet(p) = ToSet(s) \ hidden
  BY <1>5, <1>14, ButFacts
<1>16. Len(s) <= l /\ Len(s) \in Nat
  BY <1>12, <1>14
<1>17. ASSUME NEW k \in 1..n, k + o <= n, n < k + o + l PROVE A[k] \in ToSet(p) \cup hidden
  <2>1. PICK i \in 1..c : i > o /\ i = n - k + 1
    <3>1. n - k + 1 \in 1..c /\ n - k + 1 > o
      BY <1>12, <1>17
    <3> QED BY <3>1
  <2>2. PICK j \in 1..c : j = c - i + 1 /\ n - c + j = k
    <3>1. c - i + 1 \in 1..c /\ n - c + (c - i + 1) = k
      BY <2>1
    <3> QED BY <3>1
  <2>3. s[i - o] = A[k]
    <3>1. s[i - o] = v[i] /\ v[i] = t[j]
      BY <1>13, <1>14, <2>1, <2>2
    <3>2. t[j] = A[n - c + j]
      BY <1>11
    <3> QED BY <2>2, <3>1, <3>2
  <2>4. i - o \in 1..Len(s)
    BY <1>14, <2>1
  <2>5. A[k] \in ToSet(s)
    BY <1>14, <2>3, <2>4, Elements
  <2> QED BY <1>15, <2>5
<1>18. Len(p) <= l
  <2>1. Len(p) \in Nat
    BY <1>15, LenProperties
  <2> QED BY <1>15, <1>16, <2>1
<1> QED BY <1>4, <1>5, <1>9, <1>10, <1>11, <1>15, <1>17, <1>18

\* The page of events that are searched for is right.
LEMMA EventsSearchRight ==
  ASSUME PagesTypeOK, type \in {"events_search", "sql_events_search"}
  PROVE  Right(Answer)
<1>1. PICK A : A = But(Items, other)
  OBVIOUS
<1>2. PICK p : p = But(EventsSearch, hidden)
  OBVIOUS
<1>3. PICK m : m = IF type = "events_search" THEN size ELSE Len(A)
  OBVIOUS
<1>4. Answer = <<p, m>>
  BY <1>1, <1>2, <1>3, type \in {"events_search", "sql_events_search"} DEF Answer
<1>5. InOrder = A /\ ~Overlapping /\ type \in Logs /\ Skipped = hidden
  BY <1>1, type \in {"events_search", "sql_events_search"}
     DEF InOrder, Overlapping, Walks, Logs, Skipped
<1> HIDE DEF ToSet
<1>6. /\ p \in Seq(1..MaxItems) /\ Len(p) <= limit
      /\ \A k \in 1..Len(A) : k + offset <= Len(A) /\ Len(A) < k + offset + limit =>
           A[k] \in ToSet(p) \cup hidden
  BY <1>1, <1>2, SearchedFacts
<1>7. Covers(p)
  BY <1>5, <1>6 DEF Covers, InPage
<1>8. Within(p)
  BY <1>6, type \in {"events_search", "sql_events_search"} DEF Within
<1>9. Len(A) \in 0..size
  BY <1>1, ButItems
<1>10. Ends(m) /\ m \in 0..MaxItems
  BY <1>3, <1>5, <1>9, Bounds DEF Ends
<1> QED BY <1>4, <1>6, <1>7, <1>8, <1>10 DEF Right

\* Events with SQL: the line that is added is deleted first, or thrown out.
LEMMA SqlEventsRight == ASSUME PagesTypeOK, type = "sql_events" PROVE Right(Answer)
<1>1. PICK A : A = Items
  OBVIOUS
<1>2. PICK t : t = TailLines(A, limit + offset)
  OBVIOUS
<1>3. PICK u : u = Append(t, 0)
  OBVIOUS
<1>4. PICK v : v = Reverse(u)
  OBVIOUS
<1>5. PICK s : s = IF offset > 0 THEN Sed(v, offset) ELSE v
  OBVIOUS
<1>6. PICK e : e = But(s, {0})
  OBVIOUS
<1>7. PICK p : p = But(e, hidden)
  OBVIOUS
<1>8. Answer = <<p, size>>
  BY <1>1, <1>2, <1>3, <1>4, <1>5, <1>6, <1>7, type = "sql_events" DEF Answer, SqlEvents, Blank
<1>9. InOrder = A /\ ~Overlapping /\ type \in Logs /\ Skipped = hidden
  BY <1>1, type = "sql_events" DEF InOrder, Overlapping, Walks, Logs, Skipped
<1> HIDE DEF ToSet
<1>10. A \in Seq(1..MaxItems) /\ Len(A) = size
  <2>1. A \in Seq(Nat) /\ ToSet(A) = 1..size /\ Len(A) = size
    BY <1>1, ItemsFacts DEF Ups
  <2>2. ToSet(A) \subseteq 1..MaxItems
    BY <2>1, Bounds
  <2> QED BY <2>1, <2>2, Typed
<1>11. PICK o \in Nat : o = offset
  BY Bounds
<1>12. PICK l \in Nat : l = limit /\ l # 0
  BY Bounds
<1>13. PICK n, c \in Nat :
         /\ n = Len(A) /\ c = (IF l + o < n THEN l + o ELSE n)
         /\ t \in Seq(1..MaxItems) /\ Len(t) = c
         /\ \A i \in 1..c : t[i] = A[n - c + i]
  BY <1>2, <1>10, <1>11, <1>12, LastFacts
<1>14. (c = l + o /\ l + o < n) \/ (c = n /\ n <= l + o)
  BY <1>13
<1>15. PICK T : T = 0..MaxItems
  OBVIOUS
<1>16. /\ u \in Seq(T) /\ Len(u) = c + 1
       /\ \A i \in 1..c : u[i] = t[i]
       /\ u[c + 1] = 0
  <2>1. 0 \in T /\ 1..MaxItems \subseteq T
    BY <1>15, Bounds
  <2>2. t \in Seq(T)
    BY <1>13, <2>1, SeqMonotonic
  <2> QED BY <1>3, <1>13, <2>1, <2>2, Added
<1>17. /\ v \in Seq(T) /\ Len(v) = c + 1
       /\ \A i \in 1..(c + 1) : v[i] = u[(c + 1) - i + 1]
       /\ \A i \in 1..(c + 1) : u[i] \in ToSet(v)
  BY <1>4, <1>16, ReverseFacts
<1>18. /\ s \in Seq(T) /\ Len(s) = (IF o < c + 1 THEN (c + 1) - o ELSE 0)
       /\ \A i \in 1..(c + 1) : i > o => s[i - o] = v[i]
  <2>1. CASE o > 0
    <3>0. /\ Sed(v, o) \in Seq(T) /\ Len(Sed(v, o)) = (IF o < Len(v) THEN Len(v) - o ELSE 0)
          /\ \A i \in 1..Len(v) : i > o => Sed(v, o)[i - o] = v[i]
      BY <1>17, SedFacts
    <3>1. /\ Sed(v, o) \in Seq(T) /\ Len(Sed(v, o)) = (IF o < c + 1 THEN (c + 1) - o ELSE 0)
          /\ \A i \in 1..(c + 1) : i > o => Sed(v, o)[i - o] = v[i]
      BY <1>17, <3>0
    <3>2. s = Sed(v, o)
      BY <1>5, <1>11, <2>1
    <3> QED BY <3>1, <3>2
  <2>2. CASE ~(o > 0)
    <3>1. s = v /\ o = 0
      BY <1>5, <1>11, <2>2
    <3>2. \A i \in 1..(c + 1) : i - 0 = i
      OBVIOUS
    <3> QED BY <1>17, <3>1, <3>2
  <2> QED BY <2>1, <2>2
<1>19. PICK d \in Nat : d = Len(s) /\ d = (IF o < c + 1 THEN (c + 1) - o ELSE 0)
  BY <1>18, LenProperties
<1>20. /\ e \in Seq(T) /\ Len(e) <= d /\ ToSet(e) = ToSet(s) \ {0}
       /\ ToSet(s) \cap {0} # {} => Len(e) < d
  BY <1>6, <1>18, <1>19, ButFacts
<1>21. e \in Seq(1..MaxItems)
  <2>1. ToSet(s) \subseteq T
    BY <1>18, Elements
  <2>2. ToSet(e) \subseteq 1..MaxItems
    BY <1>15, <1>20, <2>1, Bounds
  <2> QED BY <1>20, <2>2, Typed
<1>22. p \in Seq(1..MaxItems) /\ Len(p) <= Len(e) /\ ToSet(p) = ToSet(e) \ hidden
  BY <1>7, <1>21, ButFacts
<1>23. Len(e) <= IF o > 0 THEN l + 1 ELSE l
  <2>1. Len(e) \in Nat
    BY <1>20, LenProperties
  <2>2. CASE o > 0
    <3>1. d <= l + 1
      BY <1>14, <1>19, <2>2
    <3> QED BY <1>20, <2>1, <2>2, <3>1
  <2>3. CASE o = 0
    <3>1. s = v
      BY <1>5, <1>11, <2>3
    <3>2. c + 1 \in 1..(c + 1)
      BY <1>13
    <3>3. 0 \in ToSet(s)
      BY <1>16, <1>17, <3>1, <3>2
    <3>4. Len(e) < d
      BY <1>20, <3>3
    <3>5. d <= l + 1
      BY <1>14, <1>19, <2>3
    <3> QED BY <2>1, <2>3, <3>4, <3>5
  <2> QED BY <2>2, <2>3
<1>24. ASSUME NEW k \in 1..n, k + o <= n, n < k + o + l PROVE A[k] \in ToSet(p) \cup hidden
  <2>1. PICK i \in 1..(c + 1) : i > o /\ i = n - k + 2
    <3>1. n - k + 2 \in 1..(c + 1) /\ n - k + 2 > o
      BY <1>14, <1>24
    <3> QED BY <3>1
  <2>2. PICK j \in 1..c : j = (c + 1) - i + 1 /\ n - c + j = k
    <3>1. (c + 1) - i + 1 \in 1..c /\ n - c + ((c + 1) - i + 1) = k
      BY <1>14, <1>24, <2>1
    <3> QED BY <3>1
  <2>3. s[i - o] = A[k]
    <3>1. s[i - o] = v[i] /\ v[i] = u[j]
      BY <1>17, <1>18, <2>1, <2>2
    <3>2. u[j] = t[j] /\ t[j] = A[n - c + j]
      BY <1>13, <1>16
    <3> QED BY <2>2, <3>1, <3>2
  <2>4. i - o \in 1..Len(s)
    BY <1>19, <2>1
  <2>5. A[k] \in ToSet(s)
    BY <1>18, <2>3, <2>4, Elements
  <2>6. A[k] # 0
    <3>1. A[k] \in 1..MaxItems
      BY <1>10, <1>13, ElementOfSeq
    <3> QED BY <3>1
  <2> QED BY <1>20, <1>22, <2>5, <2>6
<1>25. Covers(p)
  BY <1>9, <1>11, <1>12, <1>13, <1>24, type = "sql_events" DEF Covers, InPage
<1>26. Within(p)
  <2>1. Len(p) \in Nat /\ Len(e) \in Nat
    BY <1>20, <1>22, LenProperties
  <2>2. PICK b \in Nat : b = (IF o > 0 THEN l + 1 ELSE l)
    OBVIOUS
  <2>3. Len(p) <= b
    BY <1>22, <1>23, <2>1, <2>2
  <2> QED BY <1>11, <1>12, <2>2, <2>3, type = "sql_events" DEF Within
<1>27. Ends(size) /\ size \in 0..MaxItems
  BY <1>9, <1>10, Bounds DEF Ends
<1> QED BY <1>8, <1>22, <1>25, <1>26, <1>27 DEF Right

\* Every answer has its page.
LEMMA AnswerRight == ASSUME PagesTypeOK PROVE Right(Answer)
<1>1. \/ type \in {"subpath", "locators", "spaces", "search", "search_schemas", "search_sorted"}
      \/ type \in {"history", "events", "sql_events", "sql"}
      \/ type \in {"events_search", "sql_events_search"}
  BY DEF PagesTypeOK, Types, Walks, Searches, Logs
<1> QED BY <1>1, SubpathRight, LocatorsRight, SpacesRight, SearchRight, SearchSchemasRight,
           SearchSortedRight, HistoryRight, EventsRight, SqlEventsRight, SqlRight,
           EventsSearchRight

(***************************************************************************)
(* Steps                                                                   *)
(***************************************************************************)
\* The types hold in every state.
LEMMA PagesTypeInit == PagesInit => PagesTypeOK
<1> SUFFICES ASSUME PagesInit PROVE PagesTypeOK
  OBVIOUS
<1>1. <<>> \in Seq(1..MaxItems)
  BY EmptySeq
<1>2. page \in Seq(1..MaxItems)
  BY <1>1 DEF PagesInit
<1>3. /\ offset \in Nat /\ size \in 0..MaxItems /\ first \in 0..size
      /\ total \in 0..MaxItems /\ counted \in 0..MaxItems
  BY PageAssumption DEF PagesInit
<1>4. /\ hidden \subseteq 1..MaxItems /\ other \subseteq 1..MaxItems
      /\ seen \subseteq 1..MaxItems /\ done \in BOOLEAN
  BY DEF PagesInit
<1>5. type \in Types /\ limit \in 1..MaxLimit /\ folders \in {0, 1}
  BY DEF PagesInit
<1> QED BY <1>2, <1>3, <1>4, <1>5 DEF PagesTypeOK

\* A query or a new line keeps the types.
LEMMA PagesTypeStep == PagesTypeOK /\ [PagesNext]_pageVars => PagesTypeOK'
<1> SUFFICES ASSUME PagesTypeOK, [PagesNext]_pageVars PROVE PagesTypeOK'
  OBVIOUS
<1>1. CASE Ask
  <2>1. page' \in Seq(1..MaxItems) /\ total' \in 0..MaxItems
    BY <1>1, AnswerRight DEF Ask, Right
  <2>2. seen' \subseteq 1..MaxItems
    <3>1. ToSet(page') \subseteq 1..MaxItems
      BY <2>1, Elements
    <3>2. seen' = seen \cup ToSet(page') /\ seen \subseteq 1..MaxItems
      BY <1>1 DEF Ask, PagesTypeOK
    <3> HIDE DEF ToSet
    <3> QED BY <3>1, <3>2
  <2>3. counted' \in 0..MaxItems
    <3>1. Len(But(Items, hidden)) \in 0..size
      BY ButItems
    <3>2. counted' = (IF type = "subpath" THEN Len(But(Items, hidden)) ELSE size)
      BY <1>1 DEF Ask
    <3> QED BY <3>1, <3>2, Bounds
  <2>4. offset' \in Nat /\ done' \in BOOLEAN
    BY <1>1, Bounds DEF Ask
  <2> QED BY <1>1, <2>1, <2>2, <2>3, <2>4 DEF Ask, PagesTypeOK
<1>2. CASE Write
  <2>1. size' \in 0..MaxItems /\ first \in 0..size'
    BY <1>2, Bounds DEF Write
  <2> QED BY <1>2, <2>1 DEF Write, PagesTypeOK
<1>3. CASE UNCHANGED pageVars
  BY <1>3 DEF pageVars, PagesTypeOK
<1> QED BY <1>1, <1>2, <1>3 DEF PagesNext

\* No page has more records than were asked for.
LEMMA PageFitsInit == PagesInit => PageFits
<1> SUFFICES ASSUME PagesInit PROVE PageFits
  OBVIOUS
<1>1. Len(page) = 0 /\ limit \in Nat
  BY EmptySeq, PageAssumption DEF PagesInit
<1> QED BY <1>1 DEF PageFits

\* An answer fits, and a new line does not touch it.
LEMMA PageFitsStep == PagesTypeOK /\ PageFits /\ [PagesNext]_pageVars => PageFits'
<1> SUFFICES ASSUME PagesTypeOK, PageFits, [PagesNext]_pageVars PROVE PageFits'
  OBVIOUS
<1>1. CASE Ask
  <2>1. Within(page')
    BY <1>1, AnswerRight DEF Ask, Right
  <2>2. offset' = offset + limit /\ type' = type /\ limit' = limit
    BY <1>1 DEF Ask
  <2>3. offset' > limit' <=> offset > 0
    BY <2>2, Bounds
  <2> QED BY <2>1, <2>2, <2>3 DEF Within, PageFits
<1>2. CASE Write \/ UNCHANGED pageVars
  BY <1>2 DEF Write, pageVars, PageFits
<1> QED BY <1>1, <1>2 DEF PagesNext

(***************************************************************************)
(* Everything is seen                                                      *)
(***************************************************************************)
\* The places whose pages the client has had
Past(k) ==
  IF Overlapping THEN k < offset \/ (k = offset /\ offset = limit)
  ELSE IF type \in Logs THEN k + offset > Len(InOrder)
  ELSE IF type = "spaces" THEN offset > 0
  ELSE k <= offset

\* What was there at the beginning and is in one of these places has been seen, or it is
\* what the pages leave out.
Sofar ==
  \A k \in 1..Len(InOrder) : InOrder[k] <= first /\ Past(k) => InOrder[k] \in seen \cup Skipped
AtEnd ==
  done => offset >= Len(InOrder) /\ offset > 0 /\ (Overlapping => counted = Len(InOrder))
Rounds == \E n \in Nat : offset = n * limit
Course == Rounds /\ (type # "search_schemas" => Sofar /\ AtEnd)

\* What the pages go through is in order.
LEMMA InOrderFacts ==
  ASSUME PagesTypeOK
  PROVE  InOrder \in Ups /\ InOrder \in Seq(Nat) /\ ToSet(InOrder) \subseteq 1..size
<1> HIDE DEF ToSet
<1>1. CASE InOrder = Items
  BY <1>1, ItemsFacts DEF Ups
<1>2. CASE \E S : InOrder = But(Items, S)
  <2>1. PICK S : InOrder = But(Items, S)
    BY <1>2
  <2> QED BY <2>1, ButItems DEF Ups
<1> QED BY <1>1, <1>2 DEF InOrder

\* Nothing has been seen yet.
LEMMA CourseInit == PagesInit => Course
<1> SUFFICES ASSUME PagesInit PROVE Course
  OBVIOUS
<1>1. offset = 0 /\ limit \in Nat \ {0} /\ done = FALSE
  BY PageAssumption DEF PagesInit
<1>2. Rounds
  <2>1. 0 \in Nat /\ 0 = 0 * limit
    BY <1>1
  <2> QED BY <1>1, <2>1 DEF Rounds
<1>3. PICK n \in Nat : n = Len(InOrder)
  BY PagesTypeInit, InOrderFacts, LenProperties
<1>4. \A k \in 1..n : ~Past(k)
  BY <1>1, <1>3 DEF Past
<1> QED BY <1>1, <1>2, <1>3, <1>4 DEF Course, Sofar, AtEnd

\* A page takes the client from its places to the next.
LEMMA CourseAsk == PagesTypeOK /\ Course /\ Ask => Course'
<1> SUFFICES ASSUME PagesTypeOK, Course, Ask PROVE Course'
  OBVIOUS
<1> HIDE DEF ToSet
<1>1. /\ type' = type /\ limit' = limit /\ size' = size /\ first' = first /\ hidden' = hidden
      /\ other' = other /\ folders' = folders /\ offset' = offset + limit
  BY DEF Ask
<1>2. Overlapping' = Overlapping /\ Skipped' = Skipped /\ InOrder' = InOrder
  BY <1>1 DEF Overlapping, Skipped, Subfolders, InOrder, Items
<1>3. PICK A : A = InOrder
  OBVIOUS
<1>4. PICK n \in Nat : n = Len(A)
  BY <1>3, InOrderFacts, LenProperties
<1>5. PICK o \in Nat : o = offset
  BY Bounds
<1>6. PICK l \in Nat : l = limit /\ l > 0
  BY Bounds
<1>7. Rounds'
  <2>1. PICK m \in Nat : o = m * l
    BY <1>5, <1>6 DEF Course, Rounds
  <2>2. o + l = (m + 1) * l
    BY <2>1
  <2>3. m + 1 \in Nat
    OBVIOUS
  <2> QED BY <1>1, <1>5, <1>6, <2>2, <2>3 DEF Rounds
<1>8. ASSUME type # "search_schemas" PROVE Sofar' /\ AtEnd'
  <2>1. Covers(page') /\ Ends(total')
    BY AnswerRight DEF Ask, Right
  <2>2. seen' = seen \cup ToSet(page')
    BY DEF Ask
  <2>3. ASSUME NEW k \in 1..n, A[k] <= first, Past(k)' PROVE A[k] \in seen' \cup Skipped
    <3>1. CASE Past(k)
      BY <1>3, <1>4, <1>8, <2>2, <2>3, <3>1 DEF Course, Sofar
    <3>2. CASE ~Past(k)
      <4>1. InPage(k)
        BY <1>1, <1>2, <1>3, <1>4, <1>5, <1>6, <2>3, <3>2 DEF Past, InPage, FirstRank
      <4> QED BY <1>3, <1>4, <1>8, <2>1, <2>2, <4>1 DEF Covers
    <3> QED BY <3>1, <3>2
  <2>4. Sofar'
    BY <1>1, <1>2, <1>3, <1>4, <2>3 DEF Sofar
  <2>5. AtEnd'
    <3> SUFFICES ASSUME done'
                 PROVE  offset' >= n /\ offset' > 0 /\ (Overlapping => counted' = n)
      BY <1>2, <1>3, <1>4 DEF AtEnd
    <3>1. offset + limit >= total'
      BY <1>1 DEF Ask
    <3>2. offset' >= n /\ offset' > 0
      BY <1>1, <1>3, <1>4, <1>5, <1>6, <1>8, <2>1, <3>1 DEF Ends
    <3>3. ASSUME Overlapping PROVE counted' = n
      <4>1. CASE type = "subpath"
        <5>1. A = But(Items, hidden)
          BY <1>3, <4>1 DEF InOrder
        <5> QED BY <1>4, <4>1, <5>1 DEF Ask
      <4>2. CASE type \in {"locators", "history"}
        <5>1. A = Items
          BY <1>3, <4>2 DEF InOrder
        <5>2. n = size
          BY <1>4, <5>1, ItemsFacts
        <5> QED BY <4>2, <5>2 DEF Ask
      <4> QED BY <3>3, <4>1, <4>2 DEF Overlapping, Walks
    <3> QED BY <3>2, <3>3
  <2> QED BY <2>4, <2>5
<1> QED BY <1>1, <1>7, <1>8 DEF Course

\* A log that grows keeps the places of its lines.
LEMMA Grown ==
  ASSUME NEW A \in Ups, NEW B \in Ups, NEW s \in Nat, ToSet(A) \subseteq ToSet(B),
         \A x \in ToSet(B) : x <= s => x \in ToSet(A)
  PROVE  /\ Len(A) <= Len(B)
         /\ \A k \in 1..Len(B) : B[k] <= s => k \in 1..Len(A) /\ A[k] = B[k]
<1> HIDE DEF ToSet
<1>1. PICK n \in Nat : n = Len(A)
  BY LenProperties DEF Ups
<1>2. PICK m \in Nat : m = Len(B) /\ \A i \in 1..m : B[i] \in Nat
  BY LenProperties DEF Ups
<1>3. ToSet(A) \subseteq ToSet(B)
  OBVIOUS
<1>4. n <= m
  <2>1. CASE n = 0
    BY <2>1
  <2>2. CASE n # 0
    <3>1. n \in 1..n /\ A[n] \in ToSet(B)
      BY <1>1, <1>3, <2>2, Elements DEF Ups
    <3>2. PICK i \in 1..m : B[i] = A[n]
      BY <1>2, <3>1, Elements DEF Ups
    <3>3. n <= i
      BY <1>1, <1>2, <1>3, <3>1, <3>2, RankLe
    <3> QED BY <3>3
  <2> QED BY <2>1, <2>2
<1>5. ASSUME NEW k \in 1..m, B[k] <= s PROVE k \in 1..n /\ A[k] = B[k]
  <2>1. ASSUME NEW j \in 1..k PROVE B[j] \in ToSet(A)
    <3>1. j \in 1..m /\ (j = k \/ j < k)
      OBVIOUS
    <3>2. B[j] \in ToSet(B)
      BY <1>2, <3>1, Elements DEF Ups
    <3>3. j < k => B[j] < B[k]
      BY <1>2, <3>1 DEF Ups
    <3>4. B[j] <= s
      BY <1>2, <1>5, <3>1, <3>3
    <3> QED BY <3>2, <3>4
  <2>2. k \in 0..Len(B) /\ k \in 1..k
    BY <1>2
  <2>3. k <= n /\ A[k] = B[k]
    BY <1>1, <1>3, <2>1, <2>2, SamePrefix
  <2> QED BY <2>3
<1> QED BY <1>1, <1>2, <1>4, <1>5

\* A line that is written shifts what the pages of the logs begin with, and none is passed over.
LEMMA CourseWrite == PagesTypeOK /\ Course /\ Write => Course'
<1> SUFFICES ASSUME PagesTypeOK, Course, Write PROVE Course'
  OBVIOUS
<1> HIDE DEF ToSet
<1>1. /\ type' = type /\ limit' = limit /\ size' = size + 1 /\ first' = first /\ hidden' = hidden
      /\ other' = other /\ folders' = folders /\ offset' = offset /\ seen' = seen
      /\ done' = done /\ ~done /\ type \in Logs
  BY DEF Write
<1>2. Overlapping' = Overlapping /\ Skipped' = Skipped
  BY <1>1 DEF Overlapping, Skipped, Subfolders, Logs
<1>3. PICK s \in Nat : s = size
  BY Bounds
<1>4. PICK A : A = InOrder
  OBVIOUS
<1>5. PICK B : B = InOrder'
  OBVIOUS
<1>6. PICK n \in Nat : n = Len(A)
  BY <1>4, InOrderFacts, LenProperties
<1>7. PICK J : J = Items'
  OBVIOUS
<1>8. J \in Ups /\ J \in Seq(Nat) /\ ToSet(J) = 1..(s + 1)
  <2>1. J = [i \in 1..(s + 1) |-> i] /\ s + 1 \in Nat
    BY <1>1, <1>3, <1>7 DEF Items
  <2> QED BY <2>1, UptoFacts
<1>9. PICK X : /\ A \in Ups /\ ToSet(A) = (1..s) \ X
               /\ B \in Ups /\ B \in Seq(Nat) /\ ToSet(B) = (1..(s + 1)) \ X
  <2>1. CASE type \in {"history", "events", "sql_events"}
    <3>1. A = Items /\ B = J
      BY <1>1, <1>4, <1>5, <1>7, <2>1 DEF InOrder
    <3>2. ToSet(A) = (1..s) \ {} /\ ToSet(B) = (1..(s + 1)) \ {}
      BY <1>3, <1>8, <3>1, ItemsFacts
    <3> QED BY <1>8, <3>1, <3>2, ItemsFacts
  <2>2. CASE type \in {"events_search", "sql_events_search"}
    <3>1. A = But(Items, other) /\ B = But(J, other)
      BY <1>1, <1>4, <1>5, <1>7, <2>2 DEF InOrder
    <3>2. A \in Ups /\ ToSet(A) = (1..s) \ other
      BY <1>3, <3>1, ButItems
    <3>3. B \in Ups /\ B \in Seq(Nat) /\ ToSet(B) = (1..(s + 1)) \ other
      BY <1>8, <3>1, ButUps, ButFacts
    <3> QED BY <3>2, <3>3
  <2> QED BY <1>1, <2>1, <2>2 DEF Logs
<1>10. PICK m \in Nat : m = Len(B)
  BY <1>9, LenProperties
<1>11. n <= m /\ \A k \in 1..m : B[k] <= s => k \in 1..n /\ A[k] = B[k]
  <2>1. /\ Len(A) <= Len(B)
        /\ \A k \in 1..Len(B) : B[k] <= s => k \in 1..Len(A) /\ A[k] = B[k]
    <3>1. ToSet(A) \subseteq ToSet(B)
      BY <1>9
    <3>2. \A x \in ToSet(B) : x <= s => x \in ToSet(A)
      BY <1>9
    <3> QED BY <1>9, <3>1, <3>2, Grown
  <2> QED BY <1>6, <1>10, <2>1
<1>12. Rounds'
  BY <1>1 DEF Course, Rounds
<1>13. ASSUME type # "search_schemas" PROVE Sofar' /\ AtEnd'
  <2>1. ASSUME NEW k \in 1..m, B[k] <= first, Past(k)' PROVE B[k] \in seen \cup Skipped
    <3>1. B[k] <= s
      <4>1. B[k] \in Nat /\ first <= s /\ first \in Nat
        BY <1>3, <1>9, <1>10, Bounds, ElementOfSeq
      <4> QED BY <2>1, <4>1
    <3>2. k \in 1..n /\ A[k] = B[k]
      BY <1>11, <3>1
    <3>3. Past(k)
      <4>1. CASE Overlapping
        BY <1>1, <1>2, <2>1, <4>1 DEF Past
      <4>2. CASE ~Overlapping
        <5>1. k + offset > m
          BY <1>1, <1>2, <1>5, <1>10, <2>1, <4>2 DEF Past
        <5>2. k + offset > n
          BY <1>11, <5>1, Bounds
        <5> QED BY <1>1, <1>4, <1>6, <4>2, <5>2 DEF Past
      <4> QED BY <4>1, <4>2
    <3> QED BY <1>4, <1>6, <1>13, <2>1, <3>2, <3>3 DEF Course, Sofar
  <2>2. Sofar'
    BY <1>1, <1>2, <1>5, <1>10, <2>1 DEF Sofar
  <2>3. AtEnd'
    BY <1>1 DEF AtEnd
  <2> QED BY <2>2, <2>3
<1> QED BY <1>1, <1>12, <1>13 DEF Course

\* What the query is to show is in the order, and it is not what the pages leave out.
LEMMA WantedFacts ==
  ASSUME PagesTypeOK, type # "search_schemas", NEW x \in Wanted
  PROVE  x \in ToSet(InOrder) /\ x <= first /\ x \notin Skipped
<1> HIDE DEF ToSet
<1>0. 1..first \subseteq 1..size
  BY Bounds
<1>1. x \in 1..first
  BY type # "search_schemas" DEF Wanted, PagesTypeOK, Types, Walks, Searches, Logs
<1>2. x <= first /\ x \in 1..size
  BY <1>0, <1>1
<1>3. CASE type \in {"subpath", "search", "search_sorted", "spaces"}
  <2>1. ToSet(InOrder) = (1..size) \ hidden
    BY <1>3, ButItems DEF InOrder
  <2>2. x \notin hidden /\ x \notin Skipped
    BY <1>3 DEF Wanted, Skipped
  <2> QED BY <1>2, <2>1, <2>2
<1>4. CASE type \in {"sql", "events_search", "sql_events_search"}
  <2>1. ToSet(InOrder) = (1..size) \ other
    BY <1>4, ButItems DEF InOrder
  <2>2. x \notin other /\ x \notin Skipped
    BY <1>4 DEF Wanted, Skipped
  <2> QED BY <1>2, <2>1, <2>2
<1>5. CASE type \in {"locators", "history", "events", "sql_events"}
  <2>1. ToSet(InOrder) = 1..size
    BY <1>5, ItemsFacts DEF InOrder
  <2>2. x \notin Skipped
    BY <1>5 DEF Wanted, Skipped
  <2> QED BY <1>2, <2>1, <2>2
<1> QED BY <1>3, <1>4, <1>5, type # "search_schemas" DEF PagesTypeOK, Types, Walks, Searches, Logs

\* At the end the client has seen it all.
LEMMA SeenAtEnd == PagesTypeOK /\ Course => EverythingSeen
<1> SUFFICES ASSUME PagesTypeOK, Course, done, type # "search_schemas"
             PROVE  \/ Wanted \subseteq seen
                    \/ LastOnNone = 1 /\ Cardinality(Wanted \ seen) = 1
                       /\ \A i \in Wanted \ seen, j \in Wanted : j <= i
  BY DEF EverythingSeen
<1> HIDE DEF ToSet
<1>1. PICK A : A = InOrder
  OBVIOUS
<1>2. PICK n \in Nat : n = Len(A)
  BY <1>1, InOrderFacts, LenProperties
<1>3. A \in Ups /\ A \in Seq(Nat)
  BY <1>1, InOrderFacts
<1>4. PICK o \in Nat : o = offset
  BY Bounds
<1>5. PICK l \in Nat : l = limit /\ l > 0
  BY Bounds
<1>6. o >= n /\ o > 0 /\ (Overlapping => counted = n)
  BY <1>1, <1>2, <1>4 DEF Course, AtEnd
<1>7. ASSUME NEW x \in Wanted PROVE \E k \in 1..n : A[k] = x /\ (Past(k) => x \in seen)
  <2>1. x \in ToSet(A) /\ x <= first /\ x \notin Skipped
    BY <1>1, WantedFacts
  <2>2. PICK k \in 1..n : A[k] = x
    BY <1>2, <1>3, <2>1, Elements
  <2>3. Past(k) => x \in seen
    BY <1>1, <1>2, <2>1, <2>2 DEF Course, Sofar
  <2> QED BY <2>2, <2>3
<1>8. CASE ~Overlapping \/ n < o \/ o = l
  <2>1. \A k \in 1..n : Past(k)
    BY <1>1, <1>2, <1>4, <1>5, <1>6, <1>8 DEF Past
  <2> QED BY <1>7, <2>1
<1>9. CASE Overlapping /\ n = o /\ o # l
  <2>1. \A k \in 1..n : k # n => Past(k)
    BY <1>4, <1>9 DEF Past
  <2>2. n \in 1..n
    BY <1>6, <1>9
  <2>3. PICK z : z = A[n]
    OBVIOUS
  <2>4. Wanted \ seen \subseteq {z}
    BY <1>7, <2>1, <2>3
  <2>5. \A j \in Wanted : j <= z
    <3> SUFFICES ASSUME NEW j \in Wanted PROVE j <= z
      OBVIOUS
    <3>1. PICK k \in 1..n : A[k] = j
      BY <1>7
    <3>2. A[k] \in Nat /\ A[n] \in Nat
      BY <1>2, <1>3, <2>2, ElementOfSeq
    <3>3. k = n \/ k < n
      OBVIOUS
    <3>4. k < n => A[k] < A[n]
      BY <1>2, <1>3, <2>2 DEF Ups
    <3> QED BY <2>3, <3>1, <3>2, <3>3, <3>4
  <2>6. LastOnNone = 1
    <3>1. PICK m \in Nat : n = m * l
      BY <1>4, <1>5, <1>9 DEF Course, Rounds
    <3>2. n % l = 0
      BY <1>5, <3>1
    <3>3. n > l
      <4>1. m # 0 /\ m # 1
        BY <1>5, <1>6, <1>9, <3>1
      <4>2. PICK q \in Nat : m = q + 2
        <5>1. m - 2 \in Nat /\ m = (m - 2) + 2
          BY <4>1
        <5> QED BY <5>1
      <4>3. n = q * l + l + l /\ q * l \in Nat
        BY <3>1, <4>2
      <4> QED BY <1>5, <4>3
    <3> QED BY <1>5, <1>6, <1>9, <3>2, <3>3 DEF LastOnNone
  <2>7. CASE Wanted \subseteq seen
    BY <2>7
  <2>8. CASE ~(Wanted \subseteq seen)
    <3>1. Wanted \ seen = {z}
      BY <2>4, <2>8
    <3>2. Cardinality(Wanted \ seen) = 1
      BY <3>1, FS_Singleton
    <3> QED BY <2>5, <2>6, <3>1, <3>2
  <2> QED BY <2>7, <2>8
<1> QED BY <1>6, <1>8, <1>9

(***************************************************************************)
(* Theorems                                                                *)
(***************************************************************************)
\* Every page is one of the entries or lines there are, and every total is within bounds.
THEOREM PagesTypeCorrect == PagesSpec => []PagesTypeOK
BY PagesTypeInit, PagesTypeStep, PTL DEF PagesSpec

\* No answer has more records than the limit, whatever is logged meanwhile and wherever the
\* offset is -- but for the list of spaces and the later pages of events with SQL.
THEOREM PageFitsAlways == PagesSpec => []PageFits
BY PageFitsInit, PageFitsStep, PagesTypeCorrect, PTL DEF PagesSpec

\* Who goes from page to page up to the total has seen all there was to see at the
\* beginning, but for the last record of walks and histories whose pages come out even.
THEOREM EverythingSeenAlways == PagesSpec => []EverythingSeen
<1>1. PagesTypeOK /\ Course /\ [PagesNext]_pageVars => Course'
  <2>1. CASE UNCHANGED pageVars
    <3>1. /\ type' = type /\ limit' = limit /\ offset' = offset /\ first' = first
          /\ seen' = seen /\ done' = done /\ counted' = counted
      BY <2>1 DEF pageVars
    <3>2. InOrder' = InOrder /\ Skipped' = Skipped /\ Overlapping' = Overlapping
      BY <2>1 DEF pageVars, InOrder, Skipped, Overlapping, Items, Subfolders
    <3>3. Sofar => Sofar'
      BY <3>1, <3>2 DEF Sofar, Past
    <3>4. AtEnd => AtEnd'
      BY <3>1, <3>2 DEF AtEnd
    <3> QED BY <3>1, <3>3, <3>4 DEF Course, Rounds
  <2> QED BY <2>1, CourseAsk, CourseWrite DEF PagesNext
<1> QED BY <1>1, CourseInit, PagesTypeCorrect, SeenAtEnd, PTL DEF PagesSpec
=============================================================================
