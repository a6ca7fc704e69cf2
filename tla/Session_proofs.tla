--------------------------- MODULE Session_proofs ---------------------------
(***************************************************************************)
(* Proofs about logins and sessions, for any number of users, of requests  *)
(* in flight and of failures allowed.  Every step of a request moves that  *)
(* request alone, and either answers it or takes it to its next await; the *)
(* invariants say what a request still knows of the keys and of the file   *)
(* when it comes to write them.                                            *)
(***************************************************************************)
EXTENDS Session, TLAPS

SlotTypes ==
  /\ pc \in [Slots -> Points]
  /\ job \in [Slots -> Jobs \cup {None}]
  /\ obj \in [Slots -> Accounts]
  /\ count \in [Slots -> Nat]
  /\ \A s \in Slots : pc[s] # "idle" => job[s] \in Jobs

FileTypes == account \in [Users -> Accounts] /\ doc \in [Users -> Accounts]
             /\ shared \in Users \cup {None}
FailTypes == attempts \in [Users -> Nat] /\ fails \in [Users -> Nat]
StreakTypes == streak \in [Users -> Nat]
KeyTypes == active \in [Users -> BOOLEAN] /\ ended \subseteq Users /\ within \subseteq Users

MixTypes == mix \in [Users -> SUBSET Kinds]

Types == MixTypes /\ SlotTypes /\ FileTypes /\ FailTypes /\ StreakTypes /\ KeyTypes

\* A step of request s leaves the other requests where they are.
Others(s) ==
  \A o \in Slots \ {s} :
    pc'[o] = pc[o] /\ job'[o] = job[o] /\ obj'[o] = obj[o] /\ count'[o] = count[o]

\* It goes on, with the same user.
Goes(s) ==
  /\ \E p \in Points \ {"idle"} : pc' = [pc EXCEPT ![s] = p]
  /\ job' = job
  /\ obj' = obj \/ \E a \in Accounts : obj' = [obj EXCEPT ![s] = a]
  /\ count' = count \/ \E n \in Nat : count' = [count EXCEPT ![s] = n]

\* What a user's file can have in it
LEMMA AccountFields ==
  /\ Gone \in Accounts /\ Fresh \in Accounts
  /\ \A a \in Accounts :
       /\ a.there \in BOOLEAN /\ a.active \in BOOLEAN /\ a.verified \in BOOLEAN /\ a.push \in Users \cup {None}
       /\ [a EXCEPT !.active = FALSE] \in Accounts /\ [a EXCEPT !.active = TRUE] \in Accounts
       /\ [a EXCEPT !.force = TRUE] \in Accounts /\ [a EXCEPT !.push = None] \in Accounts
       /\ [a EXCEPT !.password = "rehashed"] \in Accounts
       /\ \A k \in Passwords : [a EXCEPT !.password = k, !.force = FALSE] \in Accounts
       /\ \A p \in Users : [a EXCEPT !.push = p] \in Accounts
       /\ \A v \in BOOLEAN : [a EXCEPT !.force = TRUE, !.verified = v] \in Accounts
BY DEF Accounts, Gone, Fresh, Hashes, Passwords

\* What a handler makes of its copy is a file's contents too.
LEMMA ChangedAccounts ==
  ASSUME NEW s \in Slots, obj[s] \in Accounts
  PROVE  Changed(s) \in Accounts
BY AccountFields DEF Changed

\* Where a request can stand after a step
LEMMA ShapeTypes ==
  ASSUME SlotTypes, NEW s \in Slots, pc[s] # "idle", Finish(s) \/ Goes(s)
  PROVE  /\ SlotTypes' /\ Others(s)
         /\ pc'[s] = "idle" \/ (pc'[s] # "idle" /\ job'[s] \in Jobs /\ job'[s].user = job[s].user
                                /\ job'[s].kind = job[s].kind /\ job'[s].push = job[s].push
                                /\ job'[s].key = job[s].key)
<1>1. CASE Finish(s)
  BY <1>1, AccountFields DEF SlotTypes, Finish, Others, Points
<1>2. CASE Goes(s)
  <2>1. PICK p \in Points \ {"idle"} : pc' = [pc EXCEPT ![s] = p]  BY <1>2 DEF Goes
  <2>2. pc' \in [Slots -> Points] /\ pc'[s] # "idle" /\ \A o \in Slots \ {s} : pc'[o] = pc[o]
    BY <2>1 DEF SlotTypes
  <2>3. job[s] \in Jobs  BY DEF SlotTypes
  <2>4. /\ job' \in [Slots -> Jobs \cup {None}] /\ job'[s] \in Jobs
        /\ job'[s].user = job[s].user /\ job'[s].kind = job[s].kind /\ job'[s].push = job[s].push
        /\ job'[s].key = job[s].key
        /\ \A o \in Slots \ {s} : job'[o] = job[o]
    BY <1>2, <2>3 DEF Goes, SlotTypes
  <2>5. obj' \in [Slots -> Accounts] /\ \A o \in Slots \ {s} : obj'[o] = obj[o]
    BY <1>2 DEF Goes, SlotTypes
  <2>6. count' \in [Slots -> Nat] /\ \A o \in Slots \ {s} : count'[o] = count[o]
    BY <1>2 DEF Goes, SlotTypes
  <2>7. \A o \in Slots : pc'[o] # "idle" => job'[o] \in Jobs  BY <2>2, <2>4 DEF SlotTypes
  <2> QED BY <2>2, <2>4, <2>5, <2>6, <2>7 DEF SlotTypes, Others
<1> QED BY <1>1, <1>2

\* Every step of a request answers it or takes it on.
LEMMA StepShape ==
  ASSUME Types, NEW s \in Slots, Step(s)
  PROVE  pc[s] # "idle" /\ (Finish(s) \/ Goes(s))
<1> USE DEF At, Continue, Goto, Points
<1>0. /\ pc[s] # "idle" => job[s] \in Jobs /\ Target(s) \in Users
      /\ obj[s] \in Accounts /\ \A u \in Users : account[u] \in Accounts /\ doc[u] \in Accounts
  BY DEF Types, SlotTypes, FileTypes, Target, Jobs
<1>1. CASE Fetch(s)  BY <1>1 DEF Fetch, Goes
<1>2. CASE Search(s)
  <2>1. [doc[Target(s)] EXCEPT !.password = "rehashed"] \in Accounts
    BY <1>0, <1>2, AccountFields DEF Search
  <2> QED BY <1>2, <2>1 DEF Search, Goes
<1>3. CASE Load(s)
  <2>1. \A a : AfterLoad(s, a) \subseteq {"clear", "count", "end", "write", "invite"}
    BY DEF AfterLoad
  <2>2. account[Target(s)] \in Accounts  BY <1>0, <1>3 DEF Load
  <2> QED BY <1>3, <2>1, <2>2 DEF Load, Goes
<1>4. CASE Clear(s)
  <2>1. job[s].key \in Passwords  BY <1>0, <1>4 DEF Clear, Jobs
  <2>2. [obj[s] EXCEPT !.password = job[s].key, !.force = FALSE] \in Accounts
    BY <1>0, <2>1, AccountFields
  <2>3. obj' = obj \/ obj' = [obj EXCEPT ![s] = [obj[s] EXCEPT !.password = job[s].key, !.force = FALSE]]
    BY <1>4 DEF Clear, Types, SlotTypes
  <2> QED BY <1>4, <2>2, <2>3 DEF Clear, Goes
<1>5. CASE Sign(s)  BY <1>5 DEF Sign, Goes
<1>6. CASE Activate(s)  BY <1>6 DEF Activate, Goes
<1>7. CASE Update(s)  BY <1>7 DEF Update
<1>8. CASE ReadCount(s)
  <2>1. attempts[Target(s)] \in Nat  BY <1>0, <1>8 DEF ReadCount, Types, FailTypes
  <2> QED BY <1>8, <2>1 DEF ReadCount, Goes
<1>9. CASE PutCount(s)  BY <1>9 DEF PutCount, Goes
<1>10. CASE LockOut(s)  BY <1>10 DEF LockOut
<1>11. CASE Check(s)  BY <1>11 DEF Check, Goes
<1>12. CASE Renew(s)  BY <1>12 DEF Renew, Goes
<1>13. CASE CheckSession(s)
  <2>1. PICK p \in {"inside", "drop_active", "load"} :
          Finish(s) \/ (Continue(s, p) /\ UNCHANGED <<job, obj, count>>)
    BY <1>13 DEF CheckSession
  <2> QED BY <1>13, <2>1 DEF CheckSession, Goes
<1>14. CASE Serve(s)  BY <1>14 DEF Serve
<1>15. CASE DropActive(s)  BY <1>15 DEF DropActive, Goes
<1>16. CASE DropSession(s)  BY <1>16 DEF DropSession, Goes
<1>17. CASE Write(s)
  <2>1. Changed(s) \in Accounts  BY <1>0, ChangedAccounts
  <2> QED BY <1>17, <2>1 DEF Write, Goes
<1>18. CASE Sync(s)  BY <1>18 DEF Sync, Goes
<1>19. CASE Invite(s)  BY <1>19 DEF Invite
<1> QED BY <1>1, <1>2, <1>3, <1>4, <1>5, <1>6, <1>7, <1>8, <1>9, <1>10, <1>11, <1>12, <1>13, <1>14,
           <1>15, <1>16, <1>17, <1>18, <1>19 DEF Step

\* A request in flight, its user and its copy
LEMMA SlotFacts ==
  ASSUME Types, NEW s \in Slots, pc[s] # "idle"
  PROVE  /\ job[s] \in Jobs /\ Target(s) \in Users /\ obj[s] \in Accounts /\ count[s] \in Nat
         /\ account[Target(s)] \in Accounts /\ doc[Target(s)] \in Accounts
BY DEF Types, SlotTypes, FileTypes, Target, Jobs

\* The file is written with a file's contents, or not at all.
LEMMA Writes ==
  ASSUME Types, NEW s \in Slots, Step(s)
  PROVE  /\ account' = account \/ \E a \in Accounts : WriteFile(Target(s), a)
         /\ shared' \in Users \cup {None}
<1>0. /\ pc[s] # "idle" /\ Target(s) \in Users /\ obj[s] \in Accounts
      /\ shared \in Users \cup {None}
  BY StepShape, SlotFacts DEF Types, FileTypes
<1>1. CASE Update(s)
  <2> DEFINE u == Target(s)
             sent == IF job[s].push THEN u ELSE None
             push == IF Is(s, {"social"}) /\ sent = None THEN shared ELSE sent
             base == IF push = None THEN obj[s] ELSE [obj[s] EXCEPT !.push = push]
  <2>1. push \in Users \cup {None}  BY <1>0
  <2>2. base \in Accounts
    <3>1. CASE push = None  BY <1>0, <3>1
    <3>2. CASE push # None  BY <1>0, <2>1, <3>2, AccountFields
    <3> QED BY <3>1, <3>2
  <2>3. \A v \in {obj[s].verified, TRUE} : [base EXCEPT !.force = TRUE, !.verified = v] \in Accounts
    <3>1. \A v \in {obj[s].verified, TRUE} : v \in BOOLEAN  BY <1>0, AccountFields
    <3> HIDE DEF base
    <3> QED BY <2>2, <3>1, AccountFields
  <2>4. /\ shared' = IF Is(s, {"social"}) THEN push ELSE shared
        /\ IF Is(s, {"invitation"})
           THEN \E v \in {obj[s].verified, TRUE} : WriteFile(u, [base EXCEPT !.force = TRUE, !.verified = v])
           ELSE IF push = None THEN UNCHANGED account ELSE WriteFile(u, base)
    BY <1>1 DEF Update
  <2> HIDE DEF base, push
  <2> QED BY <1>0, <2>1, <2>2, <2>3, <2>4
<1>2. CASE LockOut(s)
  BY <1>0, <1>2, AccountFields DEF LockOut
<1>3. CASE Write(s)
  BY <1>0, <1>3, ChangedAccounts DEF Write
<1>4. ASSUME \/ Fetch(s) \/ Search(s) \/ Load(s) \/ Clear(s) \/ Sign(s) \/ Activate(s)
             \/ ReadCount(s) \/ PutCount(s) \/ Check(s) \/ Renew(s) \/ CheckSession(s) \/ Serve(s)
             \/ DropActive(s) \/ DropSession(s) \/ Sync(s) \/ Invite(s)
      PROVE  account' = account /\ shared' = shared
  BY <1>4 DEF Fetch, Search, Load, Clear, Sign, Activate, ReadCount, PutCount, Check, Renew,
     CheckSession, Serve, DropActive, DropSession, Sync, Invite
<1> QED BY <1>0, <1>1, <1>2, <1>3, <1>4 DEF Step

\* The keys of the failed logins change in three steps, those of the sessions in four.
LEMMA Keys ==
  ASSUME NEW s \in Slots, Step(s)
  PROVE  /\ UNCHANGED failVars \/ Clear(s) \/ ReadCount(s) \/ PutCount(s)
         /\ UNCHANGED <<active, ended, within>> \/ Activate(s) \/ Renew(s) \/ DropActive(s)
         /\ UNCHANGED doc \/ Sync(s)
         /\ UNCHANGED provided \/ Sign(s)
         /\ \/ Finish(s)
            \/ Clear(s)
            \/ UNCHANGED <<alone, streak>>
BY DEF Step, Fetch, Search, Load, Clear, Sign, Activate, Update, ReadCount, PutCount, LockOut, Check,
   Renew, CheckSession, Serve, DropActive, DropSession, Write, Sync, Invite, sessionVars, Continue,
   companyVars

\* Every step keeps it.
LEMMA StepTypes ==
  ASSUME Types, NEW s \in Slots, Step(s)
  PROVE  Types'
<1>0. pc[s] # "idle" /\ (Finish(s) \/ Goes(s))  BY StepShape
<1>1. SlotTypes'  BY <1>0, ShapeTypes DEF Types
<1>2. Target(s) \in Users /\ obj[s] \in Accounts /\ count[s] \in Nat
  BY <1>0, SlotFacts
<1>3. FileTypes'
  <2>1. account' \in [Users -> Accounts]
    BY <1>2, Writes DEF WriteFile, Types, FileTypes
  <2>2. doc' \in [Users -> Accounts]
    <3>1. CASE doc' = doc  BY <3>1 DEF Types, FileTypes
    <3>2. CASE Sync(s)  BY <1>2, <3>2 DEF Sync, Types, FileTypes
    <3> QED BY <3>1, <3>2, Keys
  <2> QED BY <2>1, <2>2, Writes DEF FileTypes
<1>4. FailTypes'
  <2>1. CASE UNCHANGED failVars  BY <2>1 DEF failVars, Types, FailTypes
  <2>2. CASE Clear(s)  BY <1>2, <2>2 DEF Clear, ClearAttempts, Types, FailTypes
  <2>3. CASE ReadCount(s)  BY <1>2, <2>3 DEF ReadCount, Types, FailTypes
  <2>4. CASE PutCount(s)  BY <1>2, <2>4 DEF PutCount, Types, FailTypes
  <2> QED BY <2>1, <2>2, <2>3, <2>4, Keys
<1>5. StreakTypes'
  <2>1. CASE Finish(s)
    <3>1. streak[Target(s)] + 1 \in Nat  BY <1>2 DEF Types, StreakTypes
    <3> QED BY <2>1, <3>1 DEF Finish, Types, StreakTypes
  <2>2. CASE Clear(s)  BY <1>2, <2>2 DEF Clear, Types, StreakTypes
  <2>3. CASE UNCHANGED streak  BY <2>3 DEF Types, StreakTypes
  <2> QED BY <2>1, <2>2, <2>3, Keys
<1>6. KeyTypes'
  <2> USE <1>2 DEF Types, KeyTypes
  <2>1. CASE Activate(s)  BY <2>1 DEF Activate, SetActive
  <2>2. CASE Renew(s)  BY <2>2 DEF Renew, SetActive
  <2>3. CASE DropActive(s)  BY <2>3 DEF DropActive, EndActive
  <2> QED BY <2>1, <2>2, <2>3, Keys
<1>7. MixTypes'
  <2>1. mix' = mix
    BY DEF Step, Fetch, Search, Load, Clear, Sign, Activate, Update, ReadCount, PutCount, LockOut,
       Check, Renew, CheckSession, Serve, DropActive, DropSession, Write, Sync, Invite, Continue,
       Finish, settings
  <2> QED BY <2>1 DEF Types, MixTypes
<1> QED BY <1>1, <1>3, <1>4, <1>5, <1>6, <1>7 DEF Types

\* A request that arrives is one of a user, and goes where requests of its kind begin.
LEMMA ArriveShape ==
  ASSUME Types, NEW s \in Slots, Arrive(s)
  PROVE  /\ pc[s] = "idle" /\ SlotTypes' /\ Others(s)
         /\ pc'[s] \in {"fetch", "search", "check", "session", "load"} /\ job'[s].user \in Users
<1>0. PICK u \in Users, k \in Kinds : \E j \in Sent(u, k) :
        /\ job' = [job EXCEPT ![s] = j] /\ pc' = [pc EXCEPT ![s] = Entry(k)]
        /\ pc[s] = "idle" /\ obj' = obj /\ count' = count
  <2>1. \A u \in Users : mix[u] \subseteq Kinds  BY DEF Types, MixTypes
  <2> QED BY <2>1 DEF Arrive, At, Goto
<1>1. PICK j \in Sent(u, k) :
        /\ job' = [job EXCEPT ![s] = j] /\ pc' = [pc EXCEPT ![s] = Entry(k)]
        /\ pc[s] = "idle" /\ obj' = obj /\ count' = count
  BY <1>0
<1>3. j \in Jobs /\ j.user = u
  <2> DEFINE K == IF k \in {"login", "profile"} THEN Passwords ELSE {"new"}
             P == IF k \in {"login", "social"} THEN BOOLEAN ELSE {FALSE}
             I == IF k = "invitation" THEN 1..MaxInvites ELSE {0}
  <2>1. j \in [kind : {k}, user : {u}, key : K, push : P, invite : I]  BY DEF Sent
  <2>2. K \subseteq Passwords /\ P \subseteq BOOLEAN  BY DEF Passwords
  <2>4. I \subseteq 0..MaxInvites  BY BoundAssumption
  <2> HIDE DEF K, P, I
  <2> QED BY <2>1, <2>2, <2>4 DEF Jobs
<1>4. Entry(k) \in {"fetch", "search", "check", "session", "load"}  BY DEF Entry
<1>5. job'[s] = j /\ pc'[s] = Entry(k)  BY <1>1 DEF Types, SlotTypes
<1>6. SlotTypes' /\ Others(s)
  BY <1>1, <1>3, <1>4 DEF Types, SlotTypes, Others, Points
<1> QED BY <1>1, <1>3, <1>4, <1>5, <1>6

\* So does a request that arrives,
LEMMA ArriveTypes ==
  ASSUME Types, NEW s \in Slots, Arrive(s)
  PROVE  Types'
<1>1. /\ UNCHANGED <<mix, account, doc, shared, attempts, fails, active, ended, within>>
      /\ streak' = streak \/ \E u \in Users : streak' = [streak EXCEPT ![u] = 0]
  BY DEF Arrive, settings, failVars, sessionVars
<1>2. StreakTypes'  BY <1>1 DEF Types, StreakTypes
<1>3. SlotTypes'  BY ArriveShape
<1> QED BY <1>1, <1>2, <1>3 DEF Types, MixTypes, FileTypes, FailTypes, KeyTypes

\* the index catching up,
LEMMA IndexTypes ==
  ASSUME Types, NEW u \in Users, Index(u)
  PROVE  Types'
<1>1. /\ UNCHANGED <<mix, account, shared, attempts, fails, streak, active, ended, within,
                     pc, job, obj, count>>
      /\ doc' = [doc EXCEPT ![u] = account[u]]
  BY DEF Index, settings, failVars, sessionVars, companyVars
<1>2. doc' \in [Users -> Accounts]  BY <1>1 DEF Types, FileTypes
<1> QED BY <1>1, <1>2 DEF Types, MixTypes, SlotTypes, StreakTypes, FileTypes, FailTypes, KeyTypes

\* a key that runs out,
LEMMA ExpireTypes ==
  ASSUME Types, NEW u \in Users, Expire(u)
  PROVE  Types'
<1>1. /\ UNCHANGED <<mix, account, doc, shared, attempts, fails, streak, pc, job, obj, count>>
      /\ EndActive(u) \/ UNCHANGED <<active, ended, within>>
  BY DEF Expire, settings, failVars
<1>2. KeyTypes'  BY <1>1 DEF EndActive, Types, KeyTypes
<1> QED BY <1>1, <1>2 DEF Types, MixTypes, SlotTypes, StreakTypes, FileTypes, FailTypes, KeyTypes

\* and a restart.
LEMMA RestartTypes ==
  ASSUME Types, Restart
  PROVE  Types'
<1>1. /\ UNCHANGED <<mix, account, doc, attempts, fails, active, ended, within>>
      /\ shared' = None
      /\ pc' = [s \in Slots |-> "idle"] /\ job' = [s \in Slots |-> None]
      /\ obj' = [s \in Slots |-> Gone] /\ count' = [s \in Slots |-> 0]
  BY DEF Restart, settings, sessionVars
<1>2. streak' \in [Users -> Nat]  BY DEF Restart, Types, StreakTypes
<1>3. SlotTypes'  BY <1>1, AccountFields DEF SlotTypes, Points
<1> QED BY <1>1, <1>2, <1>3 DEF Types, MixTypes, StreakTypes, FileTypes, FailTypes, KeyTypes

\* It holds at first.
LEMMA InitTypes == Init => Types
<1> SUFFICES ASSUME Init PROVE Types  OBVIOUS
<1>1. MixTypes  BY MixAssumption DEF Init, MixTypes
<1>2. SlotTypes  BY AccountFields DEF Init, SlotTypes, Points
<1>3. FileTypes  BY AccountFields DEF Init, FileTypes
<1>4. FailTypes /\ StreakTypes /\ KeyTypes  BY DEF Init, FailTypes, StreakTypes, KeyTypes
<1> QED BY <1>1, <1>2, <1>3, <1>4 DEF Types

\* Every step keeps the types.
LEMMA NextTypes == Types /\ [Next]_vars => Types'
<1> SUFFICES ASSUME Types, [Next]_vars PROVE Types'  OBVIOUS
<1>1. CASE UNCHANGED vars
  BY <1>1 DEF vars, settings, failVars, sessionVars, companyVars, Types, MixTypes, SlotTypes,
     StreakTypes, FileTypes, FailTypes, KeyTypes
<1>2. CASE Next
  BY <1>2, StepTypes, ArriveTypes, IndexTypes, ExpireTypes, RestartTypes DEF Next
<1> QED BY <1>1, <1>2

(***************************************************************************)
(* The count of failed logins                                              *)
(***************************************************************************)
\* A request that is about to put a count that no clear has overtaken puts one that the
\* failures account for, its own among them.
CountKnown ==
  \A s \in Slots : pc[s] = "put" /\ s \notin outdated /\ Target(s) \notin uncleared
                    => count[s] + 1 <= fails[Target(s)]

FairInv == Types /\ AttemptsFair /\ CountKnown

\* It holds at first.
LEMMA InitFair == Init => FairInv
<1> SUFFICES ASSUME Init PROVE FairInv  OBVIOUS
<1>1. AttemptsFair /\ CountKnown  BY DEF Init, AttemptsFair, CountKnown
<1> QED BY <1>1, InitTypes DEF FairInv

\* A step of a request that does not touch the count and does not come to put one
LEMMA FairMove ==
  ASSUME FairInv, NEW s \in Slots, Others(s), pc'[s] # "put", UNCHANGED failVars
  PROVE  AttemptsFair' /\ CountKnown'
BY DEF FairInv, AttemptsFair, CountKnown, Others, failVars, Target

\* Every step keeps it.
LEMMA StepFair ==
  ASSUME FairInv, NEW s \in Slots, Step(s)
  PROVE  AttemptsFair' /\ CountKnown'
<1>0. /\ Types /\ pc[s] # "idle" /\ Target(s) \in Users /\ count[s] \in Nat
      /\ Others(s) /\ attempts \in [Users -> Nat] /\ fails \in [Users -> Nat]
      /\ \A o \in Slots : pc[o] # "idle" => Target(o) \in Users /\ count[o] \in Nat
  BY StepShape, ShapeTypes, SlotFacts DEF FairInv, Types, FailTypes
<1>1. CASE Clear(s)
  <2>1. PICK v \in Users : ClearAttempts(v)  BY <1>0, <1>1 DEF Clear
  <2>2. pc'[s] # "put"  BY <1>1 DEF Clear, Goto, Types, SlotTypes, FairInv
  <2>3. \A u \in Users : u # v => attempts'[u] = attempts[u] /\ fails'[u] = fails[u]
    BY <1>0, <2>1 DEF ClearAttempts
  <2>4. attempts'[v] = 0 /\ fails'[v] = 0  BY <1>0, <2>1 DEF ClearAttempts
  <2>5. uncleared' = uncleared \ {v}
        /\ outdated' = outdated \cup {o \in Slots : At(o, "put") /\ job[o].user = v}
    BY <2>1 DEF ClearAttempts
  <2>6. AttemptsFair'  BY <2>3, <2>4, <2>5 DEF FairInv, AttemptsFair
  <2>7. CountKnown'
    <3> SUFFICES ASSUME NEW o \in Slots, pc'[o] = "put", o \notin outdated', Target(o)' \notin uncleared'
                 PROVE  count'[o] + 1 <= fails'[Target(o)']
      BY DEF CountKnown
    <3>1. o # s /\ pc[o] = "put" /\ Target(o)' = Target(o) /\ count'[o] = count[o]
      BY <1>0, <2>2 DEF Others, Target
    <3>2. Target(o) # v  BY <2>5, <3>1 DEF At, Target
    <3>3. count[o] + 1 <= fails[Target(o)]  BY <2>5, <3>1, <3>2 DEF FairInv, CountKnown
    <3> QED BY <1>0, <2>3, <3>1, <3>2, <3>3
  <2> QED BY <2>6, <2>7
<1>2. CASE ReadCount(s)
  <2> DEFINE u == Target(s)
  <2>1. /\ fails' = [fails EXCEPT ![u] = @ + 1] /\ UNCHANGED <<attempts, outdated, uncleared>>
        /\ pc'[s] = "put" => count'[s] = attempts[u] /\ job' = job
    BY <1>0, <1>2 DEF ReadCount, Finish, Continue, Goto, Types, SlotTypes
  <2>2. AttemptsFair'  BY <1>0, <2>1 DEF FairInv, AttemptsFair
  <2>3. CountKnown'
    <3> SUFFICES ASSUME NEW o \in Slots, pc'[o] = "put", o \notin outdated, Target(o)' \notin uncleared
                 PROVE  count'[o] + 1 <= fails'[Target(o)']
      BY <2>1 DEF CountKnown
    <3>1. CASE o = s
      <4>1. Target(o)' = u /\ count'[o] = attempts[u]  BY <2>1, <3>1 DEF Target
      <4>2. attempts[u] <= fails[u]  BY <1>0, <4>1 DEF FairInv, AttemptsFair
      <4> QED BY <1>0, <2>1, <4>1, <4>2
    <3>2. CASE o # s
      <4>1. pc[o] = "put" /\ Target(o)' = Target(o) /\ count'[o] = count[o]
        BY <1>0, <3>2 DEF Others, Target
      <4>2. count[o] + 1 <= fails[Target(o)]  BY <4>1 DEF FairInv, CountKnown
      <4> QED BY <1>0, <2>1, <4>1, <4>2
    <3> QED BY <3>1, <3>2
  <2> QED BY <2>2, <2>3
<1>3. CASE PutCount(s)
  <2> DEFINE u == Target(s)
  <2>1. /\ attempts' = [attempts EXCEPT ![u] = count[s] + 1]
        /\ uncleared' = IF s \in outdated THEN uncleared \cup {u} ELSE uncleared
        /\ outdated' = outdated \ {s} /\ fails' = fails /\ pc[s] = "put"
        /\ pc'[s] # "put"
    BY <1>0, <1>3 DEF PutCount, At, Finish, Continue, Goto, Types, SlotTypes
  <2>2. AttemptsFair'
    <3> SUFFICES ASSUME NEW w \in Users, w \notin uncleared' PROVE attempts'[w] <= fails'[w]
      BY DEF AttemptsFair
    <3>1. CASE w = u
      <4>1. count[s] + 1 <= fails[u]  BY <2>1, <3>1 DEF FairInv, CountKnown
      <4> QED BY <1>0, <2>1, <3>1, <4>1
    <3>2. CASE w # u
      BY <1>0, <2>1, <3>2 DEF FairInv, AttemptsFair
    <3> QED BY <3>1, <3>2
  <2>3. CountKnown'
    <3> SUFFICES ASSUME NEW o \in Slots, pc'[o] = "put", o \notin outdated', Target(o)' \notin uncleared'
                 PROVE  count'[o] + 1 <= fails'[Target(o)']
      BY DEF CountKnown
    <3>1. o # s /\ pc[o] = "put" /\ Target(o)' = Target(o) /\ count'[o] = count[o]
      BY <1>0, <2>1 DEF Others, Target
    <3> QED BY <2>1, <3>1 DEF FairInv, CountKnown
  <2> QED BY <2>2, <2>3
<1>4. CASE ~Clear(s) /\ ~ReadCount(s) /\ ~PutCount(s)
  <2>1. UNCHANGED failVars  BY <1>4, Keys
  <2>2. pc'[s] # "put"
    <3>1. CASE Finish(s)  BY <3>1 DEF Finish, FairInv, Types, SlotTypes
    <3>2. CASE Load(s)
      <4>1. \A a : AfterLoad(s, a) \subseteq {"clear", "count", "end", "write", "invite"}
        BY DEF AfterLoad
      <4> QED BY <3>1, <3>2, <4>1 DEF Load, Continue, Goto, FairInv, Types, SlotTypes
    <3>3. CASE ~Load(s)
      BY <1>4, <3>1, <3>3 DEF Step, Fetch, Search, Sign, Activate, Update, LockOut, Check, Renew,
         CheckSession, Serve, DropActive, DropSession, Write, Sync, Invite, Continue, Goto,
         FairInv, Types, SlotTypes
    <3> QED BY <3>2, <3>3
  <2> QED BY <1>0, <2>1, <2>2, FairMove
<1> QED BY <1>1, <1>2, <1>3, <1>4

\* Every step keeps it.
LEMMA NextFair == FairInv /\ [Next]_vars => FairInv'
<1> SUFFICES ASSUME FairInv, [Next]_vars PROVE FairInv'  OBVIOUS
<1>0. Types'  BY NextTypes DEF FairInv
<1>1. CASE UNCHANGED vars
  BY <1>0, <1>1 DEF FairInv, AttemptsFair, CountKnown, Target, vars, failVars
<1>2. ASSUME NEW s \in Slots, Step(s)  PROVE FairInv'
  BY <1>0, <1>2, StepFair DEF FairInv
<1>3. ASSUME NEW s \in Slots, Arrive(s)  PROVE FairInv'
  <2>1. Others(s) /\ pc'[s] # "put" /\ UNCHANGED failVars
    BY <1>3, ArriveShape DEF FairInv, Arrive
  <2> QED BY <1>0, <2>1, FairMove DEF FairInv
<1>4. ASSUME NEW u \in Users, Index(u) \/ Expire(u)  PROVE FairInv'
  <2>1. UNCHANGED <<pc, job, count, failVars>>  BY <1>4 DEF Index, Expire
  <2> QED BY <1>0, <2>1 DEF FairInv, AttemptsFair, CountKnown, Target, failVars
<1>5. CASE Restart
  <2>1. UNCHANGED <<attempts, fails, uncleared>> /\ \A s \in Slots : pc'[s] = "idle"
    BY <1>5 DEF Restart
  <2> QED BY <1>0, <2>1 DEF FairInv, AttemptsFair, CountKnown
<1> QED BY <1>1, <1>2, <1>3, <1>4, <1>5 DEF Next

\* The count that locks a user out is not above the failures since it was cleared, unless a
\* clear fell between a failing login's read and its write.
THEOREM AttemptsFairAlways == Spec => []AttemptsFair
<1>1. FairInv => AttemptsFair  BY DEF FairInv
<1> QED BY <1>1, InitFair, NextFair, PTL DEF Spec

(***************************************************************************)
(* Sessions that have ended                                                *)
(***************************************************************************)
\* Nobody is about to renew a session that ended when nobody was: not even a request that has
\* been let in since, as none was.
Over ==
  \A u \in ended \ within :
    /\ active[u] = FALSE
    /\ \A s \in Slots : pc[s] = "renew" => Target(s) # u

OverInv == Types /\ Over

\* It holds at first.
LEMMA InitOver == Init => OverInv
BY InitTypes DEF Init, OverInv, Over

\* A session ends: if there is somebody to renew it, it is within.
LEMMA OverEnds ==
  ASSUME OverInv, NEW u \in Users, EndActive(u),
         \A o \in Slots : pc'[o] = "renew" => pc[o] = "renew" /\ Target(o)' = Target(o)
  PROVE  Over'
<1>1. active' = [active EXCEPT ![u] = FALSE] /\ ended' = ended \cup {u}
  BY DEF EndActive
<1>2. CASE \E o \in Slots : pc[o] = "renew" /\ Target(o) = u
  <2>1. within' = within \cup {u}  BY <1>2 DEF EndActive, At, Target
  <2> QED BY <1>1, <2>1 DEF OverInv, Over, Types, KeyTypes
<1>3. CASE ~\E o \in Slots : pc[o] = "renew" /\ Target(o) = u
  <2>1. within' = within \ {u}  BY <1>3 DEF EndActive, At, Target
  <2>2. active'[u] = FALSE /\ \A v \in Users \ {u} : active'[v] = active[v]
    BY <1>1 DEF OverInv, Types, KeyTypes
  <2>3. ended \subseteq Users  BY DEF OverInv, Types, KeyTypes
  <2> QED BY <1>1, <1>3, <2>1, <2>2, <2>3 DEF OverInv, Over
<1> QED BY <1>2, <1>3

\* A step of a request keeps it.
LEMMA StepOver ==
  ASSUME OverInv, NEW s \in Slots, Step(s)
  PROVE  Over'
<1>0. Types /\ Over /\ pc[s] # "idle" /\ Others(s) /\ Target(s) \in Users
      /\ pc \in [Slots -> Points] /\ active \in [Users -> BOOLEAN] /\ ended \subseteq Users
  BY StepShape, ShapeTypes, SlotFacts DEF OverInv, Types, SlotTypes, KeyTypes
<1>1. /\ \A o \in Slots \ {s} : pc'[o] = pc[o] /\ Target(o)' = Target(o)
      /\ pc'[s] # "idle" => Target(s)' = Target(s)
  BY <1>0, StepShape, ShapeTypes DEF Types, Others, Target
<1>2. CASE Activate(s)
  <2>1. /\ active' = [active EXCEPT ![Target(s)] = TRUE] /\ ended' = ended \ {Target(s)}
        /\ within' = within \ {Target(s)} /\ pc' = [pc EXCEPT ![s] = "update"]
    BY <1>2 DEF Activate, SetActive, Continue, Goto
  <2>2. \A u \in Users : u # Target(s) => active'[u] = active[u]  BY <1>0, <2>1
  <2>3. pc'[s] # "renew"  BY <1>0, <2>1
  <2> QED BY <1>0, <1>1, <2>1, <2>2, <2>3 DEF Over
<1>3. CASE Renew(s)
  <2>1. /\ active' = [active EXCEPT ![Target(s)] = TRUE] /\ UNCHANGED <<ended, within>>
        /\ pc[s] = "renew" /\ pc' = [pc EXCEPT ![s] = "session"]
    BY <1>3 DEF Renew, SetActive, Continue, Goto, At
  <2>2. Target(s) \notin ended \ within  BY <1>0, <2>1 DEF Over
  <2>3. \A u \in Users : u # Target(s) => active'[u] = active[u]  BY <1>0, <2>1
  <2>4. pc'[s] # "renew"  BY <1>0, <2>1
  <2> QED BY <1>0, <1>1, <2>1, <2>2, <2>3, <2>4 DEF Over
<1>4. CASE DropActive(s)
  <2>1. EndActive(Target(s))  BY <1>4 DEF DropActive
  <2>2. pc'[s] # "renew"  BY <1>0, <1>4 DEF DropActive, Finish, Continue, Goto
  <2> QED BY <1>0, <1>1, <2>1, <2>2, OverEnds
<1>5. CASE Check(s)
  <2>1. UNCHANGED <<active, ended, within>>  BY <1>5 DEF Check, sessionVars
  <2>2. pc'[s] = "renew" => active[Target(s)]
    <3>1. CASE ~active[Target(s)]  BY <1>0, <1>5, <3>1 DEF Check, Finish
    <3> QED BY <3>1
  <2>3. pc'[s] = "renew" => Target(s) \notin ended \ within  BY <2>2, <1>0 DEF Over
  <2>4. pc'[s] = "renew" => Target(s)' = Target(s)  BY <1>1
  <2> QED BY <1>0, <1>1, <2>1, <2>3, <2>4 DEF Over
<1>6. CASE ~Activate(s) /\ ~Renew(s) /\ ~DropActive(s) /\ ~Check(s)
  <2>1. UNCHANGED <<active, ended, within>>  BY <1>6, Keys
  <2>2. pc'[s] # "renew"
    <3>1. CASE Load(s)
      <4>1. \A a : AfterLoad(s, a) \subseteq {"clear", "count", "end", "write", "invite"}
        BY DEF AfterLoad
      <4> QED BY <1>0, <3>1, <4>1 DEF Load, Finish, Continue, Goto
    <3>2. CASE ~Load(s)
      BY <1>0, <1>6, <3>2 DEF Step, Fetch, Search, Clear, Sign, Update, ReadCount, PutCount, LockOut,
         CheckSession, Serve, DropSession, Write, Sync, Invite, Finish, Continue, Goto
    <3> QED BY <3>1, <3>2
  <2> QED BY <1>0, <1>1, <2>1, <2>2 DEF Over
<1> QED BY <1>2, <1>3, <1>4, <1>5, <1>6

\* So does every other step.
LEMMA NextOver == OverInv /\ [Next]_vars => OverInv'
<1> SUFFICES ASSUME OverInv, [Next]_vars PROVE Over'
  BY NextTypes DEF OverInv
<1>0. Types /\ Over  BY DEF OverInv
<1>1. CASE UNCHANGED vars
  BY <1>0, <1>1 DEF vars, sessionVars, Over, Target
<1>2. ASSUME NEW s \in Slots, Step(s)  PROVE Over'
  BY <1>2, StepOver
<1>3. ASSUME NEW s \in Slots, Arrive(s)  PROVE Over'
  <2>1. UNCHANGED <<active, ended, within>>  BY <1>3 DEF Arrive, sessionVars
  <2>2. /\ pc'[s] \in {"fetch", "search", "check", "session", "load"}
        /\ \A o \in Slots \ {s} : pc'[o] = pc[o] /\ Target(o)' = Target(o)
    BY <1>0, <1>3, ArriveShape DEF Others, Target
  <2> QED BY <1>0, <2>1, <2>2 DEF Over
<1>4. ASSUME NEW u \in Users, Index(u)  PROVE Over'
  <2>1. UNCHANGED <<pc, job, active, ended, within>>  BY <1>4 DEF Index, sessionVars
  <2> QED BY <1>0, <2>1 DEF Over, Target
<1>5. ASSUME NEW u \in Users, Expire(u)  PROVE Over'
  <2>1. UNCHANGED <<pc, job>> /\ (EndActive(u) \/ UNCHANGED <<active, ended, within>>)
    BY <1>5 DEF Expire
  <2>2. CASE EndActive(u)  BY <2>1, <2>2, OverEnds DEF Target
  <2>3. CASE UNCHANGED <<active, ended, within>>  BY <1>0, <2>1, <2>3 DEF Over, Target
  <2> QED BY <2>1, <2>2, <2>3
<1>6. CASE Restart
  <2>1. UNCHANGED <<active, ended, within>> /\ \A s \in Slots : pc'[s] = "idle"
    BY <1>6 DEF Restart, sessionVars
  <2> QED BY <1>0, <2>1 DEF Over
<1> QED BY <1>1, <1>2, <1>3, <1>4, <1>5, <1>6 DEF Next

\* With one session per user, a session that has ended is not there again until the next login,
\* unless a request of the user stood between check and renewal when it ended.
THEOREM EndedStaysEndedAlways == Spec => []EndedStaysEnded
<1>1. OverInv => EndedStaysEnded  BY DEF OverInv, Over, EndedStaysEnded
<1> QED BY <1>1, InitOver, NextOver, PTL DEF Spec

(***************************************************************************)
(* Push tokens                                                             *)
(***************************************************************************)
\* What user u may hold: the token of his own device, none, or that of another user, if
\* both have logged in through a provider
May(P, u, p) == p \in {u, None} \/ {u, p} \subseteq P

Places == /\ \A u \in Users : May(provided, u, account[u].push) /\ May(provided, u, doc[u].push)
          /\ \A s \in Slots : IF pc[s] = "idle" THEN obj[s].push = None
                                            ELSE May(provided, Target(s), obj[s].push)

\* The shared dict holds what a login through a provider has put there.
Dict == /\ shared # None => shared \in provided
        /\ \A s \in Slots : pc[s] \in {"activate", "update"} /\ Is(s, {"social"})
                              => Target(s) \in provided

PushInv == Types /\ Places /\ Dict

\* It holds at first.
LEMMA InitPush == Init => PushInv
<1> SUFFICES ASSUME Init PROVE PushInv  OBVIOUS
<1>1. Fresh.push = None /\ Gone.push = None  BY DEF Fresh, Gone
<1>2. Places  BY <1>1 DEF Init, Places, May
<1>3. Dict  BY DEF Init, Dict
<1> QED BY <1>2, <1>3, InitTypes DEF PushInv

\* What handlers do to a user's data keeps the push token, or drops it.
LEMMA PushFields ==
  ASSUME NEW a \in Accounts
  PROVE  /\ [a EXCEPT !.active = FALSE].push = a.push /\ [a EXCEPT !.active = TRUE].push = a.push
         /\ [a EXCEPT !.force = TRUE].push = a.push /\ [a EXCEPT !.password = "rehashed"].push = a.push
         /\ [a EXCEPT !.push = None].push = None /\ Gone.push = None
         /\ \A k : [a EXCEPT !.password = k, !.force = FALSE].push = a.push
         /\ \A p : [a EXCEPT !.push = p].push = p
         /\ \A v : [a EXCEPT !.force = TRUE, !.verified = v].push = a.push
BY DEF Accounts, Gone

\* The copy a request holds next has the push token of its copy, of the file, of the
\* document, or none.
LEMMA CopyPush ==
  ASSUME Types, NEW s \in Slots, Step(s), pc'[s] # "idle"
  PROVE  obj'[s].push \in {obj[s].push, account[Target(s)].push, doc[Target(s)].push, None}
<1>0. /\ pc[s] # "idle" /\ obj[s] \in Accounts /\ account[Target(s)] \in Accounts
      /\ doc[Target(s)] \in Accounts
  BY StepShape, SlotFacts
<1>1. CASE Finish(s)  BY <1>1 DEF Finish, Types, SlotTypes
<1>2. CASE ~Finish(s)
  <2>1. CASE Search(s)
    <3>1. obj'[s] = [doc[Target(s)] EXCEPT !.password = "rehashed"]
      BY <1>2, <2>1 DEF Search, Types, SlotTypes
    <3> QED BY <1>0, <3>1, PushFields
  <2>2. CASE Load(s)
    <3>1. obj'[s] = account[Target(s)]  BY <1>2, <2>2 DEF Load, Types, SlotTypes
    <3> QED BY <3>1
  <2>3. CASE Clear(s)
    <3>1. obj'[s] = obj[s] \/ obj'[s] = [obj[s] EXCEPT !.password = job[s].key, !.force = FALSE]
      BY <2>3 DEF Clear, Types, SlotTypes
    <3>2. [obj[s] EXCEPT !.password = job[s].key, !.force = FALSE].push = obj[s].push
      BY <1>0, PushFields
    <3> QED BY <3>1, <3>2
  <2>4. CASE Write(s)
    <3>1. obj'[s] = Changed(s)  BY <1>2, <2>4 DEF Write, Types, SlotTypes
    <3> QED BY <1>0, <3>1, PushFields DEF Changed
  <2>5. CASE ~Search(s) /\ ~Load(s) /\ ~Clear(s) /\ ~Write(s)
    <3>1. obj' = obj
      BY <1>2, <2>5 DEF Step, Fetch, Sign, Activate, Update, ReadCount, PutCount, LockOut, Check, Renew,
         CheckSession, Serve, DropActive, DropSession, Sync, Invite
    <3> QED BY <3>1
  <2> QED BY <2>1, <2>2, <2>3, <2>4, <2>5
<1> QED BY <1>1, <1>2

\* What is written to the file is the copy's push token, none, that of the device that
\* logs in, or what the dict holds, the latter by a login through a provider.
LEMMA FilePush ==
  ASSUME Types, NEW s \in Slots, Step(s)
  PROVE  /\ \A v \in Users : v # Target(s) => account'[v] = account[v]
         /\ \/ account'[Target(s)].push \in {account[Target(s)].push, obj[s].push, None, Target(s)}
            \/ /\ account'[Target(s)].push = shared
               /\ Is(s, {"social"}) /\ pc[s] = "update"
         /\ \/ shared' = shared
            \/ /\ Is(s, {"social"}) /\ pc[s] = "update"
               /\ shared' \in {shared, Target(s)}
<1>0. /\ pc[s] # "idle" /\ obj[s] \in Accounts /\ Target(s) \in Users /\ account \in [Users -> Accounts]
      /\ Changed(s) \in Accounts
  BY StepShape, SlotFacts, ChangedAccounts DEF Types, FileTypes
<1>1. \A v \in Users : v # Target(s) => account'[v] = account[v]
  BY <1>0, Writes DEF WriteFile
<1>2. ASSUME NEW a, WriteFile(Target(s), a)  PROVE account'[Target(s)] \in {account[Target(s)], a}
  BY <1>0, <1>2 DEF WriteFile
<1>3. CASE Update(s)
  <2> DEFINE u == Target(s)
             sent == IF job[s].push THEN u ELSE None
             push == IF Is(s, {"social"}) /\ sent = None THEN shared ELSE sent
             base == IF push = None THEN obj[s] ELSE [obj[s] EXCEPT !.push = push]
  <2>1. base \in Accounts /\ base.push \in {obj[s].push, push}
    <3>1. push \in Users \cup {None}  BY <1>0 DEF Types, FileTypes
    <3> HIDE DEF push
    <3>2. CASE push = None  BY <1>0, <3>2
    <3>3. CASE push # None
      <4>1. [obj[s] EXCEPT !.push = push] \in Accounts  BY <1>0, <3>1, <3>3, AccountFields
      <4> QED BY <1>0, <3>3, <4>1, PushFields
    <3> QED BY <3>2, <3>3
  <2>2. push \in {None, u} \/ (push = shared /\ Is(s, {"social"}))  OBVIOUS
  <2>3. /\ pc[s] = "update" /\ shared' = IF Is(s, {"social"}) THEN push ELSE shared
        /\ \/ \E v : WriteFile(u, [base EXCEPT !.force = TRUE, !.verified = v])
           \/ UNCHANGED account
           \/ WriteFile(u, base)
    BY <1>3 DEF Update, At
  <2>4. shared' = shared \/ (Is(s, {"social"}) /\ shared' \in {shared, u})
    <3>1. CASE Is(s, {"social"})
      <4>1. push \in {shared, u}  BY <3>1
      <4> HIDE DEF push
      <4> QED BY <2>3, <3>1, <4>1
    <3>2. CASE ~Is(s, {"social"})  BY <2>3, <3>2
    <3> QED BY <3>1, <3>2
  <2> HIDE DEF push, base, u
  <2>5. account'[Target(s)].push \in {account[Target(s)].push, obj[s].push, push}
    <3>1. CASE \E v : WriteFile(u, [base EXCEPT !.force = TRUE, !.verified = v])
      <4>1. PICK v : WriteFile(u, [base EXCEPT !.force = TRUE, !.verified = v])  BY <3>1
      <4>2. [base EXCEPT !.force = TRUE, !.verified = v].push = base.push  BY <2>1, PushFields
      <4> DEFINE a == [base EXCEPT !.force = TRUE, !.verified = v]
      <4>3. a.push = base.push /\ WriteFile(u, a)  BY <4>1, <4>2
      <4> HIDE DEF a
      <4> QED BY <1>2, <2>1, <4>3 DEF u
    <3>2. CASE UNCHANGED account  BY <3>2
    <3>3. CASE WriteFile(u, base)  BY <1>2, <2>1, <3>3 DEF u
    <3> QED BY <2>3, <3>1, <3>2, <3>3
  <2> QED BY <1>1, <2>2, <2>3, <2>4, <2>5 DEF u
<1>4. CASE LockOut(s)
  <2> DEFINE a == [obj[s] EXCEPT !.active = FALSE]
  <2>1. a.push = obj[s].push /\ WriteFile(Target(s), a) /\ shared' = shared
    BY <1>0, <1>4, PushFields DEF LockOut
  <2> HIDE DEF a
  <2> QED BY <1>1, <1>2, <2>1
<1>5. CASE Write(s)
  <2>1. Changed(s).push \in {obj[s].push, None}  BY <1>0, PushFields DEF Changed
  <2>2. (UNCHANGED account \/ WriteFile(Target(s), Changed(s))) /\ shared' = shared
    BY <1>5 DEF Write
  <2> QED BY <1>1, <1>2, <2>1, <2>2
<1>6. CASE ~Update(s) /\ ~LockOut(s) /\ ~Write(s)
  <2>1. account' = account /\ shared' = shared
    BY <1>6 DEF Step, Fetch, Search, Load, Clear, Sign, Activate, ReadCount, PutCount, Check,
       Renew, CheckSession, Serve, DropActive, DropSession, Sync, Invite
  <2> QED BY <2>1
<1> QED BY <1>3, <1>4, <1>5, <1>6

\* Every step keeps it.
LEMMA StepPush ==
  ASSUME PushInv, NEW s \in Slots, Step(s)
  PROVE  Places' /\ Dict'
<1> DEFINE u == Target(s)
<1>0. /\ Types /\ pc[s] # "idle" /\ Others(s) /\ u \in Users
      /\ pc'[s] = "idle" \/ (Target(s)' = u /\ job'[s].kind = job[s].kind)
  BY StepShape, ShapeTypes, SlotFacts DEF PushInv, Types, Target
<1>1. provided \subseteq provided' /\ (Is(s, {"social"}) /\ Sign(s) => u \in provided')
  <2>1. CASE Sign(s)  BY <2>1 DEF Sign
  <2>2. CASE ~Sign(s)  BY <2>2, Keys
  <2> QED BY <2>1, <2>2
<1>2. \A v \in Users : \A p : May(provided, v, p) => May(provided', v, p)  BY <1>1 DEF May
<1>3. May(provided', u, account[u].push) /\ May(provided', u, obj[s].push)
      /\ May(provided', u, doc[u].push) /\ May(provided', u, None) /\ May(provided', u, u)
  BY <1>0, <1>2 DEF PushInv, Places, May
<1>4. Is(s, {"social"}) /\ pc[s] = "update" => May(provided', u, shared) /\ u \in provided /\ shared \in provided \cup {None}
  BY <1>1 DEF PushInv, Dict, May
<1>5. Places'
  <2>1. \A v \in Users : May(provided', v, account'[v].push)
    <3>1. \A v \in Users : v # u => May(provided', v, account[v].push) /\ account'[v] = account[v]
      BY <1>0, <1>2, FilePush DEF PushInv, Places
    <3>2. May(provided', u, account'[u].push)  BY <1>0, <1>3, <1>4, FilePush
    <3> QED BY <3>1, <3>2
  <2>2. \A v \in Users : May(provided', v, doc'[v].push)
    <3>1. CASE doc' = doc  BY <1>2, <3>1 DEF PushInv, Places
    <3>2. CASE Sync(s)
      <4>1. \A v \in Users : doc'[v] = doc[v] \/ (v = u /\ doc'[v] = obj[s])
        BY <1>0, <3>2 DEF Sync, Types, FileTypes
      <4> QED BY <1>2, <1>3, <4>1 DEF PushInv, Places
    <3> QED BY <3>1, <3>2, Keys
  <2>3. ASSUME NEW o \in Slots, pc'[o] # "idle"  PROVE May(provided', Target(o)', obj'[o].push)
    <3>1. CASE o = s  BY <1>0, <1>3, <2>3, <3>1, CopyPush
    <3>2. CASE o # s
      <4>1. pc[o] # "idle" /\ Target(o)' = Target(o) /\ obj'[o] = obj[o]
        BY <1>0, <2>3, <3>2 DEF Others, Target
      <4>2. Target(o) \in Users  BY <1>0, <4>1, SlotFacts
      <4> QED BY <1>2, <4>1, <4>2 DEF PushInv, Places
    <3> QED BY <3>1, <3>2
  <2>4. ASSUME NEW o \in Slots, pc'[o] = "idle"  PROVE obj'[o].push = None
    <3>1. CASE o = s
      <4>1. Finish(s)  BY <2>4, <3>1, StepShape DEF Goes, Types, SlotTypes, PushInv
      <4> QED BY <1>0, <3>1, <4>1 DEF Finish, Gone, Types, SlotTypes
    <3>2. CASE o # s  BY <1>0, <2>4, <3>2 DEF Others, PushInv, Places
    <3> QED BY <3>1, <3>2
  <2> QED BY <2>1, <2>2, <2>3, <2>4 DEF Places
<1>6. Dict'
  <2>1. shared' # None => shared' \in provided'
    BY <1>0, <1>1, <1>4, FilePush DEF PushInv, Dict
  <2>2. ASSUME NEW o \in Slots, pc'[o] \in {"activate", "update"}, Is(o, {"social"})'
        PROVE  Target(o)' \in provided'
    <3>1. CASE o # s
      <4>1. pc[o] = pc'[o] /\ job'[o] = job[o]  BY <1>0, <3>1 DEF Others
      <4> QED BY <1>1, <2>2, <4>1 DEF PushInv, Dict, Target, Is
    <3>2. CASE o = s
      <4>1. Sign(s) \/ pc[s] = "activate"
        <5>1. \A a : AfterLoad(s, a) \subseteq {"clear", "count", "end", "write", "invite"}
          BY DEF AfterLoad
        <5> QED BY <1>0, <2>2, <3>2, <5>1 DEF Step, Fetch, Search, Load, Clear, Activate, Update,
               ReadCount, PutCount, LockOut, Check, Renew, CheckSession, Serve, DropActive, DropSession,
               Write, Sync, Invite, At, Continue, Goto, Finish, Types, SlotTypes
      <4>2. Is(s, {"social"}) /\ Target(s)' = u  BY <1>0, <2>2, <3>2 DEF Is
      <4> QED BY <1>1, <3>2, <4>1, <4>2 DEF PushInv, Dict
    <3> QED BY <3>1, <3>2
  <2> QED BY <2>1, <2>2 DEF Dict
<1> QED BY <1>5, <1>6

\* Every step keeps it.
LEMMA NextPush == PushInv /\ [Next]_vars => PushInv'
<1> SUFFICES ASSUME PushInv, [Next]_vars PROVE Places' /\ Dict'
  BY NextTypes DEF PushInv
<1>0. Types  BY DEF PushInv
<1>1. CASE UNCHANGED vars
  <2>1. UNCHANGED <<pc, job, obj, account, doc, shared, provided>>  BY <1>1 DEF vars
  <2> QED BY <2>1 DEF PushInv, Places, Dict, May, Target, Is
<1>2. ASSUME NEW s \in Slots, Step(s)  PROVE Places' /\ Dict'
  BY <1>2, StepPush
<1>3. ASSUME NEW s \in Slots, Arrive(s)  PROVE Places' /\ Dict'
  <2>1. /\ UNCHANGED <<account, doc, shared, provided, obj>>
        /\ pc[s] = "idle" /\ pc'[s] \in {"fetch", "search", "check", "session", "load"}
        /\ \A o \in Slots \ {s} : pc'[o] = pc[o] /\ job'[o] = job[o]
    BY <1>0, <1>3, ArriveShape DEF Arrive, Others
  <2>2. May(provided', Target(s)', obj[s].push)  BY <2>1 DEF PushInv, Places, May
  <2> QED BY <2>1, <2>2 DEF PushInv, Places, Dict, May, Target, Is
<1>4. ASSUME NEW u \in Users, Index(u)  PROVE Places' /\ Dict'
  <2>1. UNCHANGED <<pc, job, obj, account, shared, provided>> /\ doc' = [doc EXCEPT ![u] = account[u]]
    BY <1>4 DEF Index
  <2>2. \A v \in Users : doc'[v] \in {doc[v], account[v]}  BY <1>0, <2>1 DEF Types, FileTypes
  <2> QED BY <2>1, <2>2 DEF PushInv, Places, Dict, May, Target, Is
<1>5. ASSUME NEW u \in Users, Expire(u)  PROVE Places' /\ Dict'
  <2>1. UNCHANGED <<pc, job, obj, account, doc, shared, provided>>  BY <1>5 DEF Expire
  <2> QED BY <2>1 DEF PushInv, Places, Dict, May, Target, Is
<1>6. CASE Restart
  <2>1. UNCHANGED <<account, doc, provided>> /\ shared' = None
        /\ \A s \in Slots : pc'[s] = "idle" /\ obj'[s].push = None
    BY <1>6 DEF Restart, Gone
  <2> QED BY <2>1 DEF PushInv, Places, Dict, May
<1> QED BY <1>1, <1>2, <1>3, <1>4, <1>5, <1>6 DEF Next

\* A user's notifications go to another's device only if both have logged in through a
\* provider.
THEOREM PushHomeAlways == Spec => []PushHome
<1>1. PushInv => PushHome  BY DEF PushInv, Places, May, PushHome
<1> QED BY <1>1, InitPush, NextPush, PTL DEF Spec

(***************************************************************************)
(* Locking out                                                             *)
(***************************************************************************)
\* A request alone has no other of its user beside it; where there are several, the streak
\* is over.
Company ==
  \A s \in Slots :
    /\ s \in alone => /\ pc[s] # "idle"
                      /\ \A o \in Slots \ {s} : pc[o] # "idle" => Target(o) # Target(s)
    /\ pc[s] # "idle" /\ s \notin alone => streak[Target(s)] = 0

\* Where a login stands, and what its copy tells
Logins ==
  \A s \in Slots :
    /\ pc[s] = "idle" => ~obj[s].there
    /\ pc[s] \in {"clear", "write"} => obj[s].there
    /\ pc[s] # "idle" /\ Is(s, {"login"}) =>
         /\ pc[s] \in {"load", "clear", "sign", "activate", "update", "count", "put", "lock_out"}
         /\ pc[s] = "load" => ~obj[s].there
         /\ pc[s] \in {"clear", "sign", "activate", "update"} => job[s].key = obj[s].password

\* Who is not there is not active.
Proper(a) == a.active => a.there
AllProper == /\ \A u \in Users : Proper(account[u]) /\ Proper(doc[u])
             /\ \A s \in Slots : Proper(obj[s])

\* A request alone knows whether its user is active, and a login that counts a failure has
\* read a count that is not below the streak.
AloneKnows ==
  \A s \in Slots : s \in alone =>
    /\ pc[s] \in {"clear", "count", "put", "lock_out", "write"}
         => obj[s].active = account[Target(s)].active
    /\ pc[s] = "put" /\ account[Target(s)].active => count[s] >= streak[Target(s)]

\* The count of an active user has kept up with the streak, and the limit is ahead.
Counted ==
  \A u \in Users : account[u].active => attempts[u] >= streak[u] /\ streak[u] < MaxFailed

LockInv == Types /\ Company /\ Logins /\ AllProper /\ AloneKnows /\ Counted

\* It holds at first.
LEMMA InitLock == Init => LockInv
<1> SUFFICES ASSUME Init PROVE LockInv  OBVIOUS
<1>1. ~Gone.there /\ ~Gone.active /\ Fresh.there /\ Fresh.active  BY DEF Gone, Fresh
<1>2. Company /\ Logins  BY <1>1 DEF Init, Company, Logins
<1>3. AllProper  BY <1>1 DEF Init, AllProper, Proper
<1>4. AloneKnows /\ Counted  BY BoundAssumption DEF Init, AloneKnows, Counted
<1> QED BY <1>2, <1>3, <1>4, InitTypes DEF LockInv

\* A request that is answered leaves no company behind that still counts.
LEMMA StepCompany ==
  ASSUME LockInv, NEW s \in Slots, Step(s)
  PROVE  Company'
<1>0. /\ Types /\ Company /\ pc[s] # "idle" /\ Others(s) /\ Target(s) \in Users
      /\ Finish(s) \/ Goes(s)
      /\ pc'[s] = "idle" \/ Target(s)' = Target(s)
      /\ streak \in [Users -> Nat]
  BY StepShape, ShapeTypes, SlotFacts DEF LockInv, Types, Target, StreakTypes
<1>1. \A o \in Slots \ {s} : pc'[o] = pc[o] /\ Target(o)' = Target(o)  BY <1>0 DEF Others, Target
<1>2. \A o \in Slots : pc[o] # "idle" => Target(o) \in Users  BY <1>0, SlotFacts
<1>3. CASE Finish(s)
  <2>1. /\ pc'[s] = "idle" /\ alone' = alone \ {s}
        /\ \A v \in Users : v # Target(s) => streak'[v] = streak[v]
        /\ s \notin alone => streak'[Target(s)] = 0
    BY <1>0, <1>3 DEF Finish, Types, SlotTypes
  <2> SUFFICES ASSUME NEW o \in Slots
               PROVE  /\ o \in alone' => /\ pc'[o] # "idle"
                                         /\ \A x \in Slots \ {o} : pc'[x] # "idle" => Target(x)' # Target(o)'
                      /\ pc'[o] # "idle" /\ o \notin alone' => streak'[Target(o)'] = 0
    BY DEF Company
  <2>2. CASE o = s  BY <2>1, <2>2
  <2>3. CASE o # s
    <3>1. pc'[o] = pc[o] /\ Target(o)' = Target(o) /\ (o \in alone' <=> o \in alone)  BY <1>1, <2>1, <2>3
    <3>2. CASE o \in alone
      <4>1. pc[o] # "idle" /\ \A x \in Slots \ {o} : pc[x] # "idle" => Target(x) # Target(o)
        BY <1>0, <3>2 DEF Company
      <4> QED BY <1>0, <1>1, <2>1, <3>1, <3>2, <4>1
    <3>3. CASE o \notin alone /\ pc[o] # "idle"
      <4>1. streak[Target(o)] = 0 /\ Target(o) \in Users  BY <1>0, <1>2, <3>3 DEF Company
      <4>2. CASE Target(o) # Target(s)
        <5>1. streak'[Target(o)] = 0  BY <2>1, <4>1, <4>2
        <5> QED BY <3>1, <3>3, <5>1
      <4>3. CASE Target(o) = Target(s)
        <5>1. s \notin alone  BY <1>0, <2>3, <3>3, <4>3 DEF Company
        <5>2. streak'[Target(o)] = 0  BY <2>1, <4>3, <5>1
        <5> QED BY <3>1, <3>3, <5>2
      <4> QED BY <4>2, <4>3
    <3> QED BY <3>1, <3>2, <3>3
  <2> QED BY <2>2, <2>3
<1>4. CASE ~Finish(s)
  <2>1. Target(s)' = Target(s) /\ alone' = alone
    <3>1. pc'[s] # "idle"  BY <1>0, <1>4 DEF Goes, Types, SlotTypes
    <3>2. CASE Clear(s)
      <4>1. alone' = alone  BY <3>2 DEF Clear
      <4> QED BY <1>0, <3>1, <4>1
    <3>3. CASE ~Clear(s)  BY <1>0, <1>4, <3>1, <3>3, Keys
    <3> QED BY <3>2, <3>3
  <2>2. \A v \in Users : streak'[v] = streak[v] \/ streak'[v] = 0
    <3>1. CASE Clear(s)  BY <1>0, <3>1 DEF Clear
    <3>2. CASE ~Clear(s)  BY <1>4, <3>2, Keys
    <3> QED BY <3>1, <3>2
  <2>3. \A o \in Slots : pc[o] # "idle" => (streak[Target(o)] = 0 => streak'[Target(o)] = 0)
    BY <1>2, <2>2
  <2>4. \A o \in Slots : /\ Target(o)' = Target(o)
                         /\ pc'[o] # "idle" => pc[o] # "idle"
                         /\ o \in alone /\ pc[o] # "idle" => pc'[o] # "idle"
    <3>1. pc'[s] # "idle"  BY <1>0, <1>4 DEF Goes, Types, SlotTypes
    <3> QED BY <1>0, <1>1, <2>1, <3>1
  <2> SUFFICES ASSUME NEW o \in Slots
               PROVE  /\ o \in alone' => /\ pc'[o] # "idle"
                                         /\ \A x \in Slots \ {o} : pc'[x] # "idle" => Target(x)' # Target(o)'
                      /\ pc'[o] # "idle" /\ o \notin alone' => streak'[Target(o)'] = 0
    BY DEF Company
  <2>5. CASE o \in alone  BY <1>0, <2>1, <2>4, <2>5 DEF Company
  <2>6. CASE o \notin alone /\ pc'[o] # "idle"
    <3>1. streak'[Target(o)] = 0  BY <1>0, <2>3, <2>4, <2>6 DEF Company
    <3> QED BY <2>1, <2>4, <2>6, <3>1
  <2> QED BY <2>1, <2>5, <2>6
<1> QED BY <1>3, <1>4

\* What handlers do to a user's data, as far as locking out is concerned
LEMMA LockFields ==
  ASSUME NEW a \in Accounts
  PROVE  /\ ~[a EXCEPT !.active = FALSE].active /\ [a EXCEPT !.active = FALSE].there = a.there
         /\ [a EXCEPT !.active = TRUE].there = a.there
         /\ [a EXCEPT !.force = TRUE].active = a.active /\ [a EXCEPT !.force = TRUE].there = a.there
         /\ [a EXCEPT !.password = "rehashed"].active = a.active
         /\ [a EXCEPT !.password = "rehashed"].there = a.there
         /\ [a EXCEPT !.push = None].active = a.active /\ [a EXCEPT !.push = None].there = a.there
         /\ ~Gone.active /\ ~Gone.there
         /\ \A k : /\ [a EXCEPT !.password = k, !.force = FALSE].active = a.active
                   /\ [a EXCEPT !.password = k, !.force = FALSE].there = a.there
         /\ \A p : /\ [a EXCEPT !.push = p].active = a.active
                   /\ [a EXCEPT !.push = p].there = a.there
         /\ \A v : /\ [a EXCEPT !.force = TRUE, !.verified = v].active = a.active
                   /\ [a EXCEPT !.force = TRUE, !.verified = v].there = a.there
BY DEF Accounts, Gone

\* The copy a request goes on with
LEMMA CopyStep ==
  ASSUME Types, NEW s \in Slots, Step(s), ~Finish(s)
  PROVE  /\ ~Search(s) /\ ~Load(s) /\ ~Clear(s) /\ ~Write(s) => obj'[s] = obj[s]
         /\ Search(s) => /\ obj'[s].active = doc[Target(s)].active
                         /\ obj'[s].there = doc[Target(s)].there
         /\ Load(s) => obj'[s] = account[Target(s)] /\ account[Target(s)].there
         /\ Clear(s) => obj'[s].active = obj[s].active /\ obj'[s].there = obj[s].there
         /\ Clear(s) /\ Is(s, {"login"}) => obj'[s] = obj[s]
         /\ Write(s) => obj'[s] = Changed(s)
<1>0. /\ pc[s] # "idle" /\ obj[s] \in Accounts /\ account[Target(s)] \in Accounts
      /\ doc[Target(s)] \in Accounts /\ job[s] \in Jobs
  BY StepShape, SlotFacts
<1>1. CASE Search(s)
  <2>1. obj'[s] = [doc[Target(s)] EXCEPT !.password = "rehashed"] /\ pc[s] = "search"
    BY <1>1 DEF Search, At, Types, SlotTypes
  <2> QED BY <1>0, <1>1, <2>1, LockFields DEF Load, Clear, Write, At
<1>2. CASE Load(s)
  <2>1. obj'[s] = account[Target(s)] /\ account[Target(s)].there /\ pc[s] = "load"
    BY <1>2 DEF Load, At, Types, SlotTypes
  <2> QED BY <1>2, <2>1 DEF Search, Clear, Write, At
<1>3. CASE Clear(s)
  <2>1. /\ pc[s] = "clear"
        /\ \/ obj'[s] = obj[s]
           \/ Is(s, {"profile"}) /\ obj'[s] = [obj[s] EXCEPT !.password = job[s].key, !.force = FALSE]
    BY <1>3 DEF Clear, At, Types, SlotTypes
  <2>2. /\ [obj[s] EXCEPT !.password = job[s].key, !.force = FALSE].active = obj[s].active
        /\ [obj[s] EXCEPT !.password = job[s].key, !.force = FALSE].there = obj[s].there
    BY <1>0, LockFields
  <2> QED BY <1>3, <2>1, <2>2 DEF Search, Load, Write, At, Is
<1>4. CASE Write(s)
  <2>1. obj'[s] = Changed(s) /\ pc[s] = "write"  BY <1>4 DEF Write, At, Types, SlotTypes
  <2> QED BY <1>4, <2>1 DEF Search, Load, Clear, At
<1>5. CASE ~Search(s) /\ ~Load(s) /\ ~Clear(s) /\ ~Write(s)
  <2>1. obj' = obj
    BY <1>5 DEF Step, Fetch, Sign, Activate, Update, ReadCount, PutCount, LockOut, Check, Renew,
       CheckSession, Serve, DropActive, DropSession, Sync, Invite
  <2> QED BY <1>5, <2>1
<1> QED BY <1>1, <1>2, <1>3, <1>4, <1>5

\* Where a request goes from where it is
LEMMA Path ==
  ASSUME Types, NEW s \in Slots, Step(s), ~Finish(s)
  PROVE  /\ pc[s] # "update" /\ pc'[s] # "idle"
         /\ pc[s] = "load" <=> Load(s)
         /\ pc[s] = "clear" <=> Clear(s)
         /\ pc[s] = "write" <=> Write(s)
         /\ pc'[s] \in {"clear", "count"} => pc[s] = "load"
         /\ pc'[s] = "put" => pc[s] = "count" /\ ReadCount(s)
         /\ pc'[s] = "lock_out" => pc[s] = "put"
         /\ pc'[s] = "write" => pc[s] = "load" \/ (pc[s] = "clear" /\ Is(s, {"profile"}))
         /\ pc'[s] = "load" => ~Is(s, {"login"}) \/ pc[s] \in {"fetch", "session", "drop_session"}
         /\ Is(s, {"login"}) /\ pc[s] = "load" =>
              \/ pc'[s] = "count"
              \/ pc'[s] = "clear" /\ job[s].key = account[Target(s)].password
         /\ pc[s] = "clear" => pc'[s] \in {"write", "sign"}
         /\ pc[s] = "sign" => pc'[s] \in {"activate", "update"}
         /\ pc[s] = "activate" => pc'[s] = "update"
         /\ pc[s] = "count" => pc'[s] = "put"
         /\ pc[s] = "put" => pc'[s] = "lock_out"
         /\ pc[s] # "lock_out"
         /\ pc'[s] \in {"sign", "activate", "update"} => pc[s] \in {"search", "clear", "sign", "activate"}
<1>0. pc \in [Slots -> Points]  BY DEF Types, SlotTypes
<1>1. CASE Load(s)
  <2>1. pc[s] = "load" /\ pc'[s] \in AfterLoad(s, account[Target(s)]) /\ pc'[s] # "end"
    BY <1>0, <1>1 DEF Load, At, Continue, Goto
  <2>2. pc'[s] \in {"clear", "count", "write", "invite"}
        /\ (Is(s, {"login"}) => \/ pc'[s] = "count"
                                \/ pc'[s] = "clear" /\ job[s].key = account[Target(s)].password)
    BY <2>1 DEF AfterLoad, WrongKey, Is
  <2> QED BY <1>1, <2>1, <2>2 DEF Clear, Write, At
<1>2. CASE Clear(s)
  <2>1. pc[s] = "clear" /\ (pc'[s] = "sign" \/ (pc'[s] = "write" /\ Is(s, {"profile"})))
    BY <1>0, <1>2 DEF Clear, At, Goto
  <2> QED BY <1>2, <2>1 DEF Load, Write, At
<1>3. CASE Write(s)
  <2>1. pc[s] = "write" /\ pc'[s] \in {"sync", "drop_active"}
    BY <1>0, <1>3 DEF Write, At, Continue, Goto
  <2> QED BY <1>3, <2>1 DEF Load, Clear, At
<1>4. CASE ReadCount(s)
  <2>1. pc[s] = "count" /\ pc'[s] = "put"  BY <1>0, <1>4 DEF ReadCount, At, Continue, Goto
  <2> QED BY <1>4, <2>1 DEF Load, Clear, Write, At
<1>5. CASE PutCount(s)
  <2>1. pc[s] = "put" /\ pc'[s] = "lock_out"  BY <1>0, <1>5 DEF PutCount, At, Continue, Goto
  <2> QED BY <2>1 DEF Load, Clear, Write, At
<1>6. CASE Sign(s)
  <2>1. pc[s] = "sign" /\ pc'[s] \in {"activate", "update"}  BY <1>0, <1>6 DEF Sign, At, Continue, Goto
  <2> QED BY <2>1 DEF Load, Clear, Write, At
<1>7. CASE Activate(s) \/ Search(s)
  <2>1. \/ pc[s] = "activate" /\ pc'[s] = "update"
        \/ pc[s] = "search" /\ pc'[s] = "sign"
    BY <1>0, <1>7 DEF Activate, Search, At, Continue, Goto
  <2> QED BY <2>1 DEF Load, Clear, Write, At
<1>8. CASE Fetch(s) \/ CheckSession(s) \/ DropSession(s)
  <2>1. pc[s] \in {"fetch", "session", "drop_session"} /\ pc'[s] \in {"load", "inside", "drop_active"}
    BY <1>0, <1>8 DEF Fetch, CheckSession, DropSession, At, Continue, Goto
  <2> QED BY <2>1 DEF Load, Clear, Write, At
<1>9. CASE Check(s) \/ Renew(s) \/ DropActive(s) \/ Sync(s)
  <2>1. pc[s] \in {"check", "renew", "drop_active", "sync"}
        /\ pc'[s] \in {"renew", "session", "drop_session", "invite"}
    BY <1>0, <1>9 DEF Check, Renew, DropActive, Sync, At, Continue, Goto
  <2> QED BY <2>1 DEF Load, Clear, Write, At
<1> QED BY <1>1, <1>2, <1>3, <1>4, <1>5, <1>6, <1>7, <1>8, <1>9 DEF Step, Update, LockOut, Serve, Invite

\* Every step keeps it.
LEMMA StepLogins ==
  ASSUME LockInv, NEW s \in Slots, Step(s)
  PROVE  Logins'
<1>0. /\ Types /\ Logins /\ pc[s] # "idle" /\ Others(s)
      /\ Finish(s) \/ Goes(s)
      /\ pc'[s] = "idle" \/ (job'[s].kind = job[s].kind /\ job'[s].key = job[s].key)
  BY StepShape, ShapeTypes DEF LockInv, Types
<1> SUFFICES ASSUME NEW o \in Slots
             PROVE  /\ pc'[o] = "idle" => ~obj'[o].there
                    /\ pc'[o] \in {"clear", "write"} => obj'[o].there
                    /\ pc'[o] # "idle" /\ job'[o].kind = "login" =>
                         /\ pc'[o] \in {"load", "clear", "sign", "activate", "update", "count", "put", "lock_out"}
                         /\ pc'[o] = "load" => ~obj'[o].there
                         /\ pc'[o] \in {"clear", "sign", "activate", "update"} => job'[o].key = obj'[o].password
  BY DEF Logins, Is
<1>1. CASE o # s  BY <1>0, <1>1 DEF Others, Logins, Is
<1>2. CASE o = s /\ Finish(s)
  <2>1. pc'[s] = "idle" /\ ~obj'[s].there  BY <1>0, <1>2 DEF Finish, Gone, Types, SlotTypes
  <2> QED BY <1>2, <2>1
<1>3. CASE o = s /\ ~Finish(s)
  <2>1. pc'[s] \in {"clear", "write"} => obj'[s].there
    BY <1>0, <1>3, Path, CopyStep DEF Logins
  <2>2. ASSUME job[s].kind = "login"
        PROVE  /\ pc'[s] \in {"clear", "sign", "activate", "update", "count", "put", "lock_out"}
               /\ pc'[s] \in {"clear", "sign", "activate", "update"} => job[s].key = obj'[s].password
    <3>1. /\ pc[s] \in {"load", "clear", "sign", "activate", "update", "count", "put", "lock_out"}
          /\ pc[s] \in {"clear", "sign", "activate", "update"} => job[s].key = obj[s].password
          /\ Is(s, {"login"}) /\ ~Is(s, {"profile"})
      BY <1>0, <2>2 DEF Logins, Is
    <3>2. CASE pc[s] = "load"  BY <1>0, <1>3, <3>1, <3>2, Path, CopyStep
    <3>3. CASE pc[s] = "clear"  BY <1>0, <1>3, <3>1, <3>3, Path, CopyStep
    <3>4. CASE pc[s] \in {"sign", "activate"}
      <4>1. obj'[s] = obj[s]
        BY <1>0, <1>3, <3>4, CopyStep DEF Search, Load, Clear, Write, At
      <4> QED BY <1>0, <1>3, <3>1, <3>4, <4>1, Path
    <3>5. CASE pc[s] \in {"update", "count", "put", "lock_out"}  BY <1>0, <1>3, <3>5, Path
    <3> QED BY <3>1, <3>2, <3>3, <3>4, <3>5
  <2>3. pc'[s] # "idle"  BY <1>0, <1>3, Path
  <2> QED BY <1>0, <1>3, <2>1, <2>2, <2>3
<1> QED BY <1>1, <1>2, <1>3

\* What a step makes of the file: nothing, someone who is not active, the copy as far as
\* it matters here, or an active user, if that is what was asked for.
LEMMA FileStep ==
  ASSUME Types, NEW s \in Slots, Step(s)
  PROVE  /\ \A v \in Users : v # Target(s) => account'[v] = account[v]
         /\ \/ account' = account
            \/ pc[s] = "lock_out" /\ LockOut(s)
            \/ pc[s] = "update" /\ Finish(s)
            \/ pc[s] = "write" /\ (Finish(s) <=> Is(s, {"profile", "enable"}))
         /\ LockOut(s) => account'[Target(s)] = account[Target(s)] \/ ~account'[Target(s)].active
         /\ Update(s) => account'[Target(s)] = account[Target(s)] \/ account'[Target(s)].there = obj[s].there
         /\ \/ account'[Target(s)] = account[Target(s)]
            \/ ~account'[Target(s)].active
            \/ /\ account'[Target(s)].there = obj[s].there
               /\ account'[Target(s)].active = obj[s].active
            \/ /\ account'[Target(s)].there = obj[s].there
               /\ pc[s] = "write" /\ Is(s, {"enable"})
<1>0. /\ pc[s] # "idle" /\ obj[s] \in Accounts /\ Target(s) \in Users /\ account \in [Users -> Accounts]
      /\ Changed(s) \in Accounts
  BY StepShape, SlotFacts, ChangedAccounts DEF Types, FileTypes
<1>1. \A v \in Users : v # Target(s) => account'[v] = account[v]
  BY <1>0, Writes DEF WriteFile
<1>2. ASSUME NEW a, WriteFile(Target(s), a)  PROVE account'[Target(s)] \in {account[Target(s)], a}
  BY <1>0, <1>2 DEF WriteFile
<1>3. CASE Update(s)
  <2> DEFINE u == Target(s)
             sent == IF job[s].push THEN u ELSE None
             push == IF Is(s, {"social"}) /\ sent = None THEN shared ELSE sent
             base == IF push = None THEN obj[s] ELSE [obj[s] EXCEPT !.push = push]
  <2>1. base \in Accounts /\ base.there = obj[s].there /\ base.active = obj[s].active
    <3>1. push \in Users \cup {None}  BY <1>0 DEF Types, FileTypes
    <3> HIDE DEF push
    <3>2. CASE push = None  BY <1>0, <3>2
    <3>3. CASE push # None
      <4>1. [obj[s] EXCEPT !.push = push] \in Accounts  BY <1>0, <3>1, <3>3, AccountFields
      <4> QED BY <1>0, <3>3, <4>1, LockFields
    <3> QED BY <3>2, <3>3
  <2>2. /\ pc[s] = "update" /\ Finish(s)
        /\ \/ \E v : WriteFile(u, [base EXCEPT !.force = TRUE, !.verified = v])
           \/ UNCHANGED account
           \/ WriteFile(u, base)
    BY <1>3 DEF Update, At
  <2> HIDE DEF push, base, u
  <2>3. account'[Target(s)] = account[Target(s)]
        \/ (account'[Target(s)].there = obj[s].there /\ account'[Target(s)].active = obj[s].active)
    <3>1. CASE \E v : WriteFile(u, [base EXCEPT !.force = TRUE, !.verified = v])
      <4>1. PICK v : WriteFile(u, [base EXCEPT !.force = TRUE, !.verified = v])  BY <3>1
      <4> DEFINE a == [base EXCEPT !.force = TRUE, !.verified = v]
      <4>2. a.there = base.there /\ a.active = base.active  BY <2>1, LockFields
      <4>3. WriteFile(u, a)  BY <4>1
      <4> HIDE DEF a
      <4> QED BY <1>2, <2>1, <4>2, <4>3 DEF u
    <3>2. CASE UNCHANGED account  BY <3>2
    <3>3. CASE WriteFile(u, base)  BY <1>2, <2>1, <3>3 DEF u
    <3> QED BY <2>2, <3>1, <3>2, <3>3
  <2> QED BY <1>1, <2>2, <2>3 DEF LockOut, At
<1>4. CASE LockOut(s)
  <2> DEFINE a == [obj[s] EXCEPT !.active = FALSE]
  <2>1. ~a.active /\ WriteFile(Target(s), a) /\ pc[s] = "lock_out"
    BY <1>0, <1>4, LockFields DEF LockOut, At
  <2> HIDE DEF a
  <2> QED BY <1>1, <1>2, <1>4, <2>1 DEF Update, At
<1>5. CASE Write(s)
  <2>1. \/ ~Changed(s).active
        \/ Changed(s).there = obj[s].there /\ Changed(s).active = obj[s].active
        \/ Changed(s).there = obj[s].there /\ Is(s, {"enable"})
    <3>1. CASE Is(s, {"logout"})
      <4>1. Changed(s) = [obj[s] EXCEPT !.push = None]  BY <3>1 DEF Changed, Is
      <4> QED BY <1>0, <4>1, LockFields
    <3>2. CASE Is(s, {"reset"})
      <4>1. Changed(s) = [obj[s] EXCEPT !.force = TRUE]  BY <3>2 DEF Changed, Is
      <4> QED BY <1>0, <4>1, LockFields
    <3>3. CASE Is(s, {"disable"})
      <4>1. Changed(s) = [obj[s] EXCEPT !.active = FALSE]  BY <3>3 DEF Changed, Is
      <4> QED BY <1>0, <4>1, LockFields
    <3>4. CASE Is(s, {"enable"})
      <4>1. Changed(s) = [obj[s] EXCEPT !.active = TRUE]  BY <3>4 DEF Changed, Is
      <4> QED BY <1>0, <3>4, <4>1, LockFields
    <3>5. CASE Is(s, {"delete"})
      <4>1. Changed(s) = Gone  BY <3>5 DEF Changed, Is
      <4> QED BY <4>1, <1>0, LockFields
    <3>6. CASE ~Is(s, {"logout", "reset", "disable", "enable", "delete"})
      <4>1. Changed(s) = obj[s]  BY <3>6 DEF Changed, Is
      <4> QED BY <4>1
    <3> QED BY <3>1, <3>2, <3>3, <3>4, <3>5, <3>6 DEF Is
  <2>2. pc[s] = "write" /\ pc \in [Slots -> Points]  BY <1>5 DEF Write, At, Types, SlotTypes
  <2>3. UNCHANGED account \/ (WriteFile(Target(s), Changed(s)) /\ (Finish(s) <=> Is(s, {"profile", "enable"})))
    BY <1>5, <2>2 DEF Write, Finish, Continue, Goto
  <2>4. CASE UNCHANGED account  BY <2>2, <2>4 DEF LockOut, Update, At
  <2>5. CASE WriteFile(Target(s), Changed(s)) /\ (Finish(s) <=> Is(s, {"profile", "enable"}))
    <3>1. account'[Target(s)] \in {account[Target(s)], Changed(s)}  BY <1>2, <2>5
    <3> QED BY <1>1, <2>1, <2>2, <2>5, <3>1 DEF LockOut, Update, At
  <2> QED BY <2>3, <2>4, <2>5
<1>6. CASE ~Update(s) /\ ~LockOut(s) /\ ~Write(s)
  <2>1. account' = account
    BY <1>6 DEF Step, Fetch, Search, Load, Clear, Sign, Activate, ReadCount, PutCount, Check,
       Renew, CheckSession, Serve, DropActive, DropSession, Sync, Invite
  <2> QED BY <1>6, <2>1
<1> QED BY <1>3, <1>4, <1>5, <1>6

\* Every step keeps it.
LEMMA StepProper ==
  ASSUME LockInv, NEW s \in Slots, Step(s)
  PROVE  AllProper'
<1>0. /\ Types /\ Logins /\ AllProper /\ pc[s] # "idle" /\ Others(s) /\ Target(s) \in Users
      /\ doc \in [Users -> Accounts] /\ obj[s] \in Accounts
  BY StepShape, ShapeTypes, SlotFacts DEF LockInv, Types, FileTypes
<1>1. \A u \in Users : Proper(account'[u])
  <2>1. Proper(account'[Target(s)])
    BY <1>0, FileStep DEF AllProper, Proper, Logins
  <2> QED BY <1>0, <2>1, FileStep DEF AllProper
<1>2. \A u \in Users : Proper(doc'[u])
  <2>1. CASE doc' = doc  BY <1>0, <2>1 DEF AllProper
  <2>2. CASE Sync(s)
    <3>1. \A u \in Users : doc'[u] = doc[u] \/ doc'[u] = obj[s]
      BY <1>0, <2>2 DEF Sync
    <3> QED BY <1>0, <3>1 DEF AllProper
  <2> QED BY <2>1, <2>2, Keys
<1>3. Proper(obj'[s])
  <2>1. CASE Finish(s)  BY <1>0, <2>1 DEF Finish, Gone, Proper, Types, SlotTypes
  <2>2. CASE ~Finish(s)
    <3>1. CASE Write(s)
      <4>1. obj[s].there  BY <1>0, <3>1 DEF Write, At, Logins
      <4>2. obj'[s] = Changed(s)  BY <1>0, <2>2, <3>1, CopyStep
      <4>3. Proper(Changed(s))  BY <1>0, <4>1, LockFields DEF Changed, Proper, AllProper
      <4> QED BY <4>2, <4>3
    <3>2. CASE ~Write(s)
      BY <1>0, <2>2, <3>2, CopyStep DEF AllProper, Proper
    <3> QED BY <3>1, <3>2
  <2> QED BY <2>1, <2>2
<1>4. \A o \in Slots : Proper(obj'[o])  BY <1>0, <1>3 DEF Others, AllProper
<1> QED BY <1>1, <1>2, <1>4 DEF AllProper, Proper

\* Every step keeps it.
LEMMA StepAlone ==
  ASSUME LockInv, NEW s \in Slots, Step(s)
  PROVE  AloneKnows'
<1>0. /\ Types /\ Company /\ AloneKnows /\ Counted /\ pc[s] # "idle" /\ Others(s) /\ Target(s) \in Users
      /\ pc'[s] = "idle" \/ Target(s)' = Target(s)
      /\ streak \in [Users -> Nat] /\ count \in [Slots -> Nat] /\ attempts \in [Users -> Nat]
  BY StepShape, ShapeTypes, SlotFacts DEF LockInv, Types, Target, StreakTypes, FailTypes, SlotTypes
<1>1. /\ alone' \subseteq alone
      /\ Finish(s) => s \notin alone'
      /\ \A v \in Users : streak'[v] = streak[v] \/ streak'[v] = 0 \/ (v = Target(s) /\ Finish(s))
  <2>1. CASE Finish(s)
    <3>1. alone' = alone \ {s} /\ \A v \in Users : v # Target(s) => streak'[v] = streak[v]
      BY <1>0, <2>1 DEF Finish
    <3> QED BY <2>1, <3>1
  <2>2. CASE ~Finish(s) /\ Clear(s)  BY <1>0, <2>2 DEF Clear
  <2>3. CASE ~Finish(s) /\ ~Clear(s)  BY <2>3, Keys
  <2> QED BY <2>1, <2>2, <2>3
<1> SUFFICES ASSUME NEW o \in Slots, o \in alone'
             PROVE  /\ pc'[o] \in {"clear", "count", "put", "lock_out", "write"}
                         => obj'[o].active = account'[job'[o].user].active
                    /\ pc'[o] = "put" /\ account'[job'[o].user].active => count'[o] >= streak'[job'[o].user]
  BY DEF AloneKnows, Target
<1>2. CASE o # s
  <2> DEFINE v == job[o].user
  <2>1. /\ pc'[o] = pc[o] /\ job'[o] = job[o] /\ obj'[o] = obj[o] /\ count'[o] = count[o] /\ o \in alone
        /\ pc[o] # "idle" /\ v # Target(s) /\ v \in Users
    BY <1>0, <1>1, <1>2, SlotFacts DEF Others, Company, Target
  <2>2. account'[v] = account[v] /\ (streak'[v] = streak[v] \/ streak'[v] = 0)
        /\ streak[v] \in Nat /\ count[o] \in Nat
    BY <1>0, <1>1, <2>1, FileStep
  <2>3. /\ pc[o] \in {"clear", "count", "put", "lock_out", "write"} => obj[o].active = account[v].active
        /\ pc[o] = "put" /\ account[v].active => count[o] >= streak[v]
    BY <1>0, <2>1 DEF AloneKnows, Target
  <2> HIDE DEF v
  <2>4. job'[o].user = v  BY <2>1 DEF v
  <2> QED BY <2>1, <2>2, <2>3, <2>4
<1>3. CASE o = s
  <2> DEFINE u == Target(s)
  <2>1. ~Finish(s) /\ s \in alone /\ pc'[s] # "idle" /\ job'[s].user = u
    BY <1>0, <1>1, <1>3, Path DEF Target
  <2>2. /\ pc[s] \in {"clear", "count", "put", "lock_out", "write"} => obj[s].active = account[u].active
    BY <1>0, <2>1 DEF AloneKnows
  <2>3. ASSUME pc'[s] \in {"clear", "count", "put", "lock_out", "write"}
        PROVE  obj'[s].active = account'[u].active
    <3>1. pc[s] \in {"load", "count", "put", "clear"}  BY <1>0, <2>1, <2>3, Path
    <3>2. account' = account  BY <2>1, <3>1, <1>0, FileStep
    <3>3. CASE pc[s] = "load"  BY <1>0, <2>1, <3>2, <3>3, Path, CopyStep
    <3>4. CASE pc[s] = "clear"  BY <1>0, <2>1, <2>2, <3>2, <3>4, Path, CopyStep
    <3>5. CASE pc[s] \in {"count", "put"}
      <4>1. obj'[s] = obj[s]  BY <1>0, <2>1, <3>5, CopyStep DEF Search, Load, Clear, Write, At
      <4> QED BY <2>2, <3>2, <3>5, <4>1
    <3> QED BY <3>1, <3>3, <3>4, <3>5
  <2>4. ASSUME pc'[s] = "put", account'[u].active  PROVE count'[s] >= streak'[u]
    <3>1. ReadCount(s) /\ pc[s] = "count"  BY <1>0, <2>1, <2>4, Path
    <3>2. account' = account  BY <1>0, <3>1, FileStep
    <3>3. count'[s] = attempts[u]  BY <1>0, <2>1, <3>1 DEF ReadCount
    <3>4. attempts[u] >= streak[u]  BY <1>0, <2>4, <3>2 DEF Counted
    <3>5. streak'[u] = streak[u] \/ streak'[u] = 0  BY <1>0, <1>1, <2>1
    <3>6. attempts[u] \in Nat /\ streak[u] \in Nat  BY <1>0
    <3> HIDE DEF u
    <3> QED BY <3>3, <3>4, <3>5, <3>6
  <2> HIDE DEF u
  <2> QED BY <1>3, <2>1, <2>3, <2>4
<1> QED BY <1>2, <1>3

\* An answer to anything but a failed login of its own ends the streak.
LEMMA FinishStreak ==
  ASSUME LockInv, NEW s \in Slots, Step(s), Finish(s), ~ReadCount(s), ~PutCount(s), ~LockOut(s)
  PROVE  streak'[Target(s)] = 0
<1>0. /\ Types /\ Logins /\ pc[s] # "idle" /\ Target(s) \in Users /\ streak \in [Users -> Nat]
  BY StepShape, SlotFacts DEF LockInv, Types, StreakTypes
<1>1. Is(s, {"login"}) => pc[s] \in {"load", "clear", "sign", "activate", "update"}
  BY <1>0 DEF Logins, Step, Fetch, Search, Load, Clear, Sign, Activate, Update, Check, Renew,
     CheckSession, Serve, DropActive, DropSession, Write, Sync, Invite, At
<1>2. ~(Is(s, {"login"}) /\ obj[s].there /\ WrongKey(s, obj[s]))
  BY <1>0, <1>1 DEF Logins, WrongKey, Is
<1> QED BY <1>0, <1>2 DEF Finish

\* Every step keeps it.
LEMMA StepCounted ==
  ASSUME LockInv, NEW s \in Slots, Step(s)
  PROVE  Counted'
<1> DEFINE u == Target(s)
<1>0. /\ Types /\ Company /\ Logins /\ AloneKnows /\ Counted /\ pc[s] # "idle" /\ u \in Users
      /\ streak \in [Users -> Nat] /\ attempts \in [Users -> Nat] /\ count[s] \in Nat
      /\ account[u] \in Accounts /\ streak[u] \in Nat /\ attempts[u] \in Nat
      /\ s \notin alone => streak[u] = 0
      /\ MaxFailed \in Nat /\ MaxFailed > 0
  BY StepShape, SlotFacts, BoundAssumption DEF LockInv, Types, StreakTypes, FailTypes, Company
<1>1. streak' \in [Users -> Nat] /\ attempts' \in [Users -> Nat]
  BY <1>0, StepTypes DEF Types, StreakTypes, FailTypes
<1> SUFFICES ASSUME NEW v \in Users, account'[v].active
             PROVE  attempts'[v] >= streak'[v] /\ streak'[v] < MaxFailed
  BY DEF Counted
<1>2. CASE v # u
  <2>1. account'[v] = account[v]  BY <1>0, <1>2, FileStep
  <2>2. attempts[v] >= streak[v] /\ streak[v] < MaxFailed  BY <2>1 DEF LockInv, Counted
  <2>3. CASE Clear(s)
    <3>1. \/ attempts'[v] = 0 /\ streak'[v] = 0
          \/ attempts'[v] = attempts[v] /\ streak'[v] = streak[v]
      BY <1>0, <2>3 DEF Clear, ClearAttempts
    <3> QED BY <1>0, <2>2, <3>1
  <2>4. CASE ~Clear(s)
    <3>1. attempts'[v] = attempts[v]
      <4>1. CASE PutCount(s)  BY <1>0, <1>2, <4>1 DEF PutCount
      <4>2. CASE ReadCount(s)  BY <4>2 DEF ReadCount
      <4>3. CASE ~PutCount(s) /\ ~ReadCount(s)  BY <2>4, <4>3, Keys DEF failVars
      <4> QED BY <4>1, <4>2, <4>3
    <3>2. streak'[v] = streak[v]
      <4>1. CASE Finish(s)  BY <1>0, <1>2, <4>1 DEF Finish
      <4>2. CASE ~Finish(s)  BY <2>4, <4>2, Keys
      <4> QED BY <4>1, <4>2
    <3> QED BY <2>2, <3>1, <3>2
  <2> QED BY <2>3, <2>4
<1>3. CASE v = u /\ Clear(s)
  <2>1. \/ attempts'[u] = 0 /\ streak'[u] = 0
        \/ attempts'[u] = attempts[u] /\ streak'[u] = streak[u]
    BY <1>0, <1>3 DEF Clear, ClearAttempts
  <2>2. account' = account  BY <1>3, <1>0, FileStep DEF Clear, At
  <2>3. account[u].active => attempts[u] >= streak[u] /\ streak[u] < MaxFailed  BY <1>0 DEF Counted
  <2> HIDE DEF u
  <2> QED BY <1>0, <1>3, <2>1, <2>2, <2>3
<1>4. CASE v = u /\ ReadCount(s)
  <2>1. attempts' = attempts /\ account' = account /\ pc[s] = "count"  BY <1>4 DEF ReadCount, At
  <2>2. attempts[u] >= streak[u] /\ streak[u] < MaxFailed  BY <1>0, <1>4, <2>1 DEF Counted
  <2>3. CASE ~obj[s].active
    <3>1. s \notin alone  BY <1>0, <1>4, <2>1, <2>3 DEF AloneKnows
    <3>2. streak[u] = 0  BY <1>0, <3>1
    <3>3. streak'[u] = 0
      <4>1. CASE Finish(s)  BY <1>0, <3>1, <4>1 DEF Finish
      <4>2. CASE ~Finish(s)  BY <1>4, <2>1, <3>2, <4>2, Keys DEF Clear, At
      <4> QED BY <4>1, <4>2
    <3> HIDE DEF u
    <3> QED BY <1>0, <1>4, <2>1, <3>3
  <2>4. CASE obj[s].active
    <3>1. streak' = streak  BY <1>4, <2>4 DEF ReadCount, Continue, companyVars
    <3> QED BY <1>4, <2>1, <2>2, <3>1
  <2> QED BY <2>3, <2>4
<1>5. CASE v = u /\ PutCount(s)
  <2>1. attempts'[u] = count[s] + 1 /\ account' = account /\ pc[s] = "put"
    BY <1>0, <1>5 DEF PutCount, At
  <2>2. streak[u] <= count[s] /\ streak[u] < MaxFailed
    <3>1. streak[u] < MaxFailed  BY <1>0, <1>5, <2>1 DEF Counted
    <3>2. CASE s \in alone
      <4>1. count[s] >= streak[u]  BY <1>0, <1>5, <2>1, <3>2 DEF AloneKnows
      <4> HIDE DEF u
      <4> QED BY <1>0, <3>1, <4>1
    <3>3. CASE s \notin alone
      <4>1. streak[u] = 0  BY <1>0, <3>3
      <4> HIDE DEF u
      <4> QED BY <1>0, <3>1, <4>1
    <3> QED BY <3>2, <3>3
  <2>3. CASE Finish(s)
    <3>1. count[s] + 1 < MaxFailed
      <4>1. ~Continue(s, "lock_out")
        BY <1>0, <2>3 DEF Finish, Continue, Goto, Types, SlotTypes
      <4>2. ~(count[s] + 1 >= MaxFailed)  BY <1>5, <4>1 DEF PutCount
      <4> QED BY <1>0, <4>2
    <3>2. streak'[u] \in {streak[u] + 1, 0}  BY <1>0, <2>3 DEF Finish
    <3> HIDE DEF u
    <3> QED BY <1>0, <1>5, <2>1, <2>2, <3>1, <3>2
  <2>4. CASE ~Finish(s)
    <3>1. streak'[u] = streak[u]  BY <2>1, <2>4, Keys DEF Clear, At
    <3> HIDE DEF u
    <3> QED BY <1>0, <1>5, <2>1, <2>2, <3>1
  <2> QED BY <2>3, <2>4
<1>6. CASE v = u /\ LockOut(s)
  <2>1. account[u].active /\ account[u].there
    <3>1. account'[u] = account[u]  BY <1>0, <1>6, FileStep
    <3> QED BY <1>0, <1>6, <3>1 DEF LockInv, AllProper, Proper
  <2>2. account'[u] = [obj[s] EXCEPT !.active = FALSE]
    BY <1>0, <1>6, <2>1 DEF LockOut, WriteFile, Types, FileTypes
  <2>3. obj[s] \in Accounts  BY <1>0, SlotFacts
  <2> QED BY <1>6, <2>2, <2>3, LockFields
<1>7. CASE v = u /\ ~Clear(s) /\ ~ReadCount(s) /\ ~PutCount(s) /\ ~LockOut(s)
  <2>1. attempts' = attempts  BY <1>7, Keys DEF failVars
  <2>2. CASE Finish(s)
    <3>1. streak'[u] = 0  BY <1>7, <2>2, FinishStreak
    <3> HIDE DEF u
    <3> QED BY <1>0, <1>7, <2>1, <3>1
  <2>3. CASE ~Finish(s)
    <3>1. streak' = streak  BY <1>7, <2>3, Keys
    <3>2. CASE s \notin alone
      <4>1. streak'[u] = 0  BY <1>0, <3>1, <3>2
      <4> HIDE DEF u
      <4> QED BY <1>0, <1>7, <2>1, <4>1
    <3>3. CASE s \in alone
      <4>1. account[u].active
        <5>1. account' = account \/ (pc[s] = "write" /\ ~Is(s, {"enable"}))
          BY <1>0, <1>7, <2>3, FileStep DEF Is
        <5>2. pc[s] = "write" => obj[s].active = account[u].active  BY <1>0, <3>3 DEF AloneKnows
        <5> QED BY <1>0, <1>7, <5>1, <5>2, FileStep
      <4> QED BY <1>0, <1>7, <2>1, <3>1, <4>1 DEF Counted
    <3> QED BY <3>2, <3>3
  <2> QED BY <2>2, <2>3
<1> QED BY <1>2, <1>3, <1>4, <1>5, <1>6, <1>7

\* A request that arrives begins where requests of its kind do; it has company if others of
\* its user are in flight.
LEMMA ArriveMeets ==
  ASSUME Types, NEW s \in Slots, Arrive(s)
  PROVE  LET u == job'[s].user
             others == {o \in Slots : pc[o] # "idle" /\ Target(o) = u}
         IN /\ job'[s].kind \in Kinds /\ pc'[s] = Entry(job'[s].kind)
            /\ others = {} => alone' = alone \cup {s} /\ streak' = streak /\ mixed' = mixed
            /\ others # {} => /\ alone' = alone \ others /\ streak' = [streak EXCEPT ![u] = 0]
                              /\ mixed' = mixed \cup {u}
<1>0. mix \in [Users -> SUBSET Kinds] /\ pc \in [Slots -> Points] /\ job \in [Slots -> Jobs \cup {None}]
  BY DEF Types, MixTypes, SlotTypes
<1>1. PICK v \in Users : \E k \in mix[v] : \E j \in Sent(v, k) :
        /\ job' = [job EXCEPT ![s] = j] /\ pc' = [pc EXCEPT ![s] = Entry(k)]
        /\ LET company == {o \in Slots : pc[o] # "idle" /\ job[o].user = v} IN
             /\ alone' = IF company = {} THEN alone \cup {s} ELSE alone \ company
             /\ mixed' = IF company = {} THEN mixed ELSE mixed \cup {v}
             /\ streak' = IF company = {} THEN streak ELSE [streak EXCEPT ![v] = 0]
  BY DEF Arrive, Goto
<1>2. PICK k \in mix[v] : \E j \in Sent(v, k) :
        job' = [job EXCEPT ![s] = j] /\ pc' = [pc EXCEPT ![s] = Entry(k)]
  BY <1>1
<1>3. PICK j \in Sent(v, k) : job' = [job EXCEPT ![s] = j] /\ pc' = [pc EXCEPT ![s] = Entry(k)]
  BY <1>2
<1>4. j.user = v /\ j.kind = k
  <2> DEFINE K == IF k \in {"login", "profile"} THEN Passwords ELSE {"new"}
             P == IF k \in {"login", "social"} THEN BOOLEAN ELSE {FALSE}
             I == IF k = "invitation" THEN 1..MaxInvites ELSE {0}
  <2>1. j \in [kind : {k}, user : {v}, key : K, push : P, invite : I]  BY <1>3 DEF Sent
  <2> HIDE DEF K, P, I
  <2> QED BY <2>1
<1>5. job'[s].user = v /\ job'[s].kind = k /\ k \in Kinds /\ pc'[s] = Entry(k)
  BY <1>0, <1>3, <1>4
<1> QED BY <1>1, <1>5 DEF Target

\* A request that arrives ends the streak of its user if it has company.
LEMMA ArriveLock ==
  ASSUME LockInv, NEW s \in Slots, Arrive(s)
  PROVE  Company' /\ Logins' /\ AllProper' /\ AloneKnows' /\ Counted'
<1>0. /\ Types /\ Company /\ Logins /\ AllProper /\ AloneKnows /\ Counted
      /\ streak \in [Users -> Nat] /\ attempts \in [Users -> Nat]
      /\ MaxFailed \in Nat /\ MaxFailed > 0
  BY BoundAssumption DEF LockInv, Types, StreakTypes, FailTypes
<1> DEFINE u == job'[s].user
           others == {o \in Slots : pc[o] # "idle" /\ Target(o) = u}
<1>1. /\ pc[s] = "idle" /\ u \in Users
      /\ pc'[s] \in {"fetch", "search", "check", "session", "load"}
      /\ \A o \in Slots \ {s} : /\ pc'[o] = pc[o] /\ job'[o] = job[o] /\ obj'[o] = obj[o]
                                /\ count'[o] = count[o]
      /\ UNCHANGED <<account, doc, attempts, obj>>
  BY <1>0, ArriveShape DEF Arrive, Others, failVars
<1>2. /\ others = {} => alone' = alone \cup {s} /\ streak' = streak
      /\ others # {} => alone' = alone \ others /\ streak' = [streak EXCEPT ![u] = 0]
  BY <1>0, ArriveMeets
<1>3. /\ \A o \in Slots \ {s} : pc[o] # "idle" => Target(o) \in Users /\ Target(o)' = Target(o)
      /\ Target(s)' = u
  BY <1>0, <1>1, SlotFacts DEF Target
<1>4. \A o \in Slots : o \in others <=> pc[o] # "idle" /\ Target(o) = u  OBVIOUS
<1> HIDE DEF u, others
<1>5. \A v \in Users : streak'[v] = streak[v] \/ streak'[v] = 0  BY <1>0, <1>2
<1>6. Company'
  <2> SUFFICES ASSUME NEW o \in Slots
               PROVE  /\ o \in alone' => /\ pc'[o] # "idle"
                                         /\ \A x \in Slots \ {o} : pc'[x] # "idle" => Target(x)' # Target(o)'
                      /\ pc'[o] # "idle" /\ o \notin alone' => streak'[Target(o)'] = 0
    BY DEF Company
  <2>1. CASE others = {}
    <3>1. alone' = alone \cup {s} /\ streak' = streak /\ \A x \in Slots : pc[x] # "idle" => Target(x) # u
      BY <1>2, <1>4, <2>1
    <3>2. CASE o = s  BY <1>1, <1>3, <3>1, <3>2
    <3>3. CASE o # s
      <4>1. pc'[o] = pc[o] /\ (o \in alone' <=> o \in alone)  BY <1>1, <3>1, <3>3
      <4>2. CASE o \in alone
        <5>1. pc[o] # "idle" /\ \A x \in Slots \ {o} : pc[x] # "idle" => Target(x) # Target(o)
          BY <1>0, <4>2 DEF Company
        <5>2. Target(o)' = Target(o) /\ Target(o) # u  BY <1>3, <3>1, <3>3, <5>1
        <5>3. ASSUME NEW x \in Slots \ {o}, pc'[x] # "idle"  PROVE Target(x)' # Target(o)'
          <6>1. CASE x = s  BY <1>3, <5>2, <6>1
          <6>2. CASE x # s  BY <1>1, <1>3, <5>1, <5>2, <5>3, <6>2
          <6> QED BY <6>1, <6>2
        <5> QED BY <4>1, <4>2, <5>1, <5>3
      <4>3. CASE o \notin alone /\ pc[o] # "idle"
        <5>1. streak'[Target(o)] = 0 /\ Target(o)' = Target(o)  BY <1>0, <1>3, <3>1, <3>3, <4>3 DEF Company
        <5> QED BY <4>1, <4>3, <5>1
      <4> QED BY <4>1, <4>2, <4>3
    <3> QED BY <3>2, <3>3
  <2>2. CASE others # {}
    <3>1. alone' = alone \ others /\ streak'[u] = 0  BY <1>0, <1>1, <1>2, <2>2
    <3>2. CASE o = s
      <4>1. s \notin alone  BY <1>0, <1>1 DEF Company
      <4> QED BY <1>1, <1>3, <3>1, <3>2, <4>1
    <3>3. CASE o # s
      <4>1. pc'[o] = pc[o] /\ (o \in alone' => o \in alone)  BY <1>1, <3>1, <3>3
      <4>2. CASE o \in alone'
        <5>1. pc[o] # "idle" /\ \A x \in Slots \ {o} : pc[x] # "idle" => Target(x) # Target(o)
          BY <1>0, <4>1, <4>2 DEF Company
        <5>2. Target(o)' = Target(o) /\ Target(o) # u  BY <1>3, <1>4, <3>1, <3>3, <4>2, <5>1
        <5>3. ASSUME NEW x \in Slots \ {o}, pc'[x] # "idle"  PROVE Target(x)' # Target(o)'
          <6>1. CASE x = s  BY <1>3, <5>2, <6>1
          <6>2. CASE x # s  BY <1>1, <1>3, <5>1, <5>2, <5>3, <6>2
          <6> QED BY <6>1, <6>2
        <5> QED BY <4>1, <4>2, <5>1, <5>3
      <4>3. CASE o \notin alone' /\ pc[o] # "idle"
        <5>1. Target(o)' = Target(o) /\ Target(o) \in Users  BY <1>3, <3>3, <4>3
        <5>2. streak'[Target(o)] = 0
          <6>1. CASE o \in alone
            <7>1. Target(o) = u  BY <1>4, <3>1, <4>3, <6>1
            <7> QED BY <3>1, <7>1
          <6>2. CASE o \notin alone
            <7>1. streak[Target(o)] = 0  BY <1>0, <4>3, <6>2 DEF Company
            <7> QED BY <1>5, <5>1, <7>1
          <6> QED BY <6>1, <6>2
        <5> QED BY <4>1, <4>3, <5>1, <5>2
      <4> QED BY <4>1, <4>2, <4>3
    <3> QED BY <3>2, <3>3
  <2> QED BY <2>1, <2>2
<1>7. Logins'
  <2>1. ~obj[s].there /\ (job'[s].kind = "login" => pc'[s] = "load")
    BY <1>0, <1>1, ArriveMeets DEF Logins, Entry, Bearers
  <2> QED BY <1>0, <1>1, <2>1 DEF Logins, Is
<1>8. AllProper'  BY <1>0, <1>1 DEF AllProper, Proper
<1>9. AloneKnows'
  <2> SUFFICES ASSUME NEW o \in Slots, o \in alone'
               PROVE  /\ pc'[o] \in {"clear", "count", "put", "lock_out", "write"}
                           => obj'[o].active = account'[Target(o)'].active
                      /\ pc'[o] = "put" /\ account'[Target(o)'].active => count'[o] >= streak'[Target(o)']
    BY DEF AloneKnows
  <2>1. CASE o = s  BY <1>1, <2>1
  <2>2. CASE o # s
    <3>1. o \in alone /\ pc[o] # "idle"  BY <1>0, <1>2, <2>2 DEF Company
    <3>2. /\ Target(o) \in Users /\ Target(o)' = Target(o) /\ streak[Target(o)] \in Nat
          /\ streak'[Target(o)] = streak[Target(o)] \/ streak'[Target(o)] = 0
          /\ count[o] \in Nat
      BY <1>0, <1>3, <1>5, <2>2, <3>1, SlotFacts
    <3>3. /\ pc[o] \in {"clear", "count", "put", "lock_out", "write"}
               => obj[o].active = account[Target(o)].active
          /\ pc[o] = "put" /\ account[Target(o)].active => count[o] >= streak[Target(o)]
      BY <1>0, <3>1 DEF AloneKnows
    <3>4. /\ pc'[o] = pc[o] /\ obj'[o] = obj[o] /\ count'[o] = count[o] /\ account' = account
      BY <1>1, <2>2
    <3>5. pc[o] = "put" /\ account[Target(o)].active => count[o] >= streak'[Target(o)]
      BY <3>2, <3>3
    <3> QED BY <3>2, <3>3, <3>4, <3>5
  <2> QED BY <2>1, <2>2
<1>10. Counted'
  <2> SUFFICES ASSUME NEW v \in Users, account[v].active
               PROVE  attempts[v] >= streak'[v] /\ streak'[v] < MaxFailed
    BY <1>1 DEF Counted
  <2>1. attempts[v] >= streak[v] /\ streak[v] < MaxFailed /\ attempts[v] \in Nat  BY <1>0 DEF Counted
  <2> QED BY <1>0, <1>5, <2>1
<1> QED BY <1>6, <1>7, <1>8, <1>9, <1>10

\* Every step keeps it.
LEMMA NextLock == LockInv /\ [Next]_vars => LockInv'
<1> SUFFICES ASSUME LockInv, [Next]_vars
             PROVE  Company' /\ Logins' /\ AllProper' /\ AloneKnows' /\ Counted'
  BY NextTypes DEF LockInv
<1>0. /\ Types /\ Company /\ Logins /\ AllProper /\ AloneKnows /\ Counted
      /\ streak \in [Users -> Nat] /\ attempts \in [Users -> Nat]
      /\ MaxFailed \in Nat /\ MaxFailed > 0
  BY BoundAssumption DEF LockInv, Types, StreakTypes, FailTypes
<1>1. CASE UNCHANGED vars
  <2>1. UNCHANGED <<pc, job, obj, count, account, doc, attempts, alone, streak>>
    BY <1>1 DEF vars, failVars, companyVars
  <2> QED BY <1>0, <2>1 DEF Company, Logins, AllProper, Proper, AloneKnows, Counted, Target, Is
<1>2. ASSUME NEW s \in Slots, Step(s)
      PROVE  Company' /\ Logins' /\ AllProper' /\ AloneKnows' /\ Counted'
  BY <1>2, StepCompany, StepLogins, StepProper, StepAlone, StepCounted
<1>3. ASSUME NEW s \in Slots, Arrive(s)
      PROVE  Company' /\ Logins' /\ AllProper' /\ AloneKnows' /\ Counted'
  BY <1>3, ArriveLock
<1>4. ASSUME NEW u \in Users, Index(u) \/ Expire(u)
      PROVE  Company' /\ Logins' /\ AllProper' /\ AloneKnows' /\ Counted'
  <2>1. UNCHANGED <<pc, job, obj, count, account, attempts, alone, streak>>
    BY <1>4 DEF Index, Expire, failVars, companyVars
  <2>2. \A v \in Users : doc'[v] \in {doc[v], account[v]}
    BY <1>0, <1>4 DEF Index, Expire, Types, FileTypes
  <2>3. AllProper'  BY <1>0, <2>1, <2>2 DEF AllProper, Proper
  <2> QED BY <1>0, <2>1, <2>3 DEF Company, Logins, AloneKnows, Counted, Target, Is
<1>5. CASE Restart
  <2>1. /\ UNCHANGED <<account, doc, attempts>> /\ alone' = {}
        /\ \A s \in Slots : pc'[s] = "idle" /\ ~obj'[s].there /\ ~obj'[s].active
        /\ \A v \in Users : streak'[v] = streak[v] \/ streak'[v] = 0
    BY <1>5 DEF Restart, Gone
  <2>2. Company' /\ Logins' /\ AloneKnows'  BY <2>1 DEF Company, Logins, AloneKnows
  <2>3. AllProper'  BY <1>0, <2>1 DEF AllProper, Proper
  <2>4. Counted'
    <3> SUFFICES ASSUME NEW v \in Users, account[v].active
                 PROVE  attempts[v] >= streak'[v] /\ streak'[v] < MaxFailed
      BY <2>1 DEF Counted
    <3>1. attempts[v] >= streak[v] /\ streak[v] < MaxFailed /\ attempts[v] \in Nat  BY <1>0 DEF Counted
    <3> QED BY <1>0, <2>1, <3>1
  <2> QED BY <2>2, <2>3, <2>4
<1> QED BY <1>1, <1>2, <1>3, <1>4, <1>5 DEF Next

\* As many failures as are allowed, in a row and each on its own, leave the user deactivated.
THEOREM LockoutHoldsAlways == Spec => []LockoutHolds
<1>1. LockInv => LockoutHolds
  <2> SUFFICES ASSUME LockInv, NEW u \in Users, streak[u] >= MaxFailed, account[u].active PROVE FALSE
    BY DEF LockoutHolds
  <2>1. streak[u] < MaxFailed /\ streak[u] \in Nat  BY DEF LockInv, Counted, Types, StreakTypes
  <2> QED BY <2>1, BoundAssumption
<1> QED BY <1>1, InitLock, NextLock, PTL DEF Spec

(***************************************************************************)
(* Sessions and push tokens end together                                   *)
(***************************************************************************)
\* The kinds of request that come by each place
Roads ==
  \A s \in Slots :
    /\ pc[s] = "fetch" => Is(s, {"invitation"})
    /\ pc[s] \in {"check", "renew", "session"} => Is(s, Bearers)
    /\ pc[s] = "load" => ~Is(s, {"visit", "social"})
    /\ pc[s] = "write" => Is(s, {"logout", "profile", "reset", "delete", "disable", "enable"})
    /\ pc[s] = "drop_active" => Is(s, {"logout", "delete", "disable"})
    /\ pc[s] = "drop_session" => Is(s, {"logout", "delete"})

\* Only a file that is there has a push token, and only such a file is written back.
Kept ==
  /\ \A u \in Users : account[u].there \/ account[u].push = None
  /\ \A s \in Slots : pc[s] \in {"clear", "sign", "activate", "update", "count", "put", "lock_out", "write"}
                       => obj[s].there

\* The user has a session, or notifications go nowhere.
Together(u) == session[u] \/ account[u].push = None

\* What a request knows, if the requests of its user have not overlapped.  Only a logout
\* that has dropped the session leaves the user apart for a while; a copy that will be
\* written back has no push token without a session; who is logging in has a session, and
\* who is deleted has no push token.
Knows(s) ==
  /\ Together(Target(s)) \/ (pc[s] \in {"load", "write", "sync"} /\ Is(s, {"logout"}))
  /\ pc[s] \in {"clear", "count", "put", "lock_out"} \/ (pc[s] = "write" /\ ~Is(s, {"logout"}))
       => session[Target(s)] \/ obj[s].push = None
  /\ pc[s] \in {"activate", "update"} => session[Target(s)]
  /\ pc[s] \in {"drop_active", "drop_session"} /\ Is(s, {"delete"}) => account[Target(s)].push = None

\* Requests of a user who is not mixed are alone and know all this; a logout that has
\* written on its own has taken the push token away; and a user who is not mixed and has no
\* request in flight is together.
Ends ==
  /\ \A s \in Slots : pc[s] # "idle" /\ Target(s) \notin mixed => s \in alone /\ Knows(s)
  /\ \A s \in Slots : s \in alone /\ pc[s] = "sync" /\ Is(s, {"logout"}) => account[Target(s)].push = None
  /\ \A u \in Users : u \notin mixed /\ (\A s \in Slots : pc[s] # "idle" => Target(s) # u)
                       => Together(u)

SessionTypes == session \in [Users -> BOOLEAN]

EndInv == LockInv /\ SessionTypes /\ Roads /\ Kept /\ Ends

\* It holds at first.
LEMMA InitEnd == Init => EndInv
<1> SUFFICES ASSUME Init PROVE EndInv  OBVIOUS
<1>1. Roads /\ Ends  BY DEF Init, Roads, Ends, Together, Fresh, Gone
<1>2. Kept  BY DEF Init, Kept, Fresh, Gone
<1>3. SessionTypes  BY DEF Init, SessionTypes
<1> QED BY <1>1, <1>2, <1>3, InitLock DEF EndInv

\* Every step keeps it.
LEMMA StepRoads ==
  ASSUME Types, Roads, NEW s \in Slots, Step(s)
  PROVE  Roads'
<1>0. /\ pc[s] # "idle" /\ Others(s) /\ pc \in [Slots -> Points]
      /\ Finish(s) \/ Goes(s)
      /\ pc'[s] = "idle" \/ job'[s].kind = job[s].kind
  BY StepShape, ShapeTypes DEF Types, SlotTypes
<1> SUFFICES ASSUME NEW o \in Slots
             PROVE  /\ pc'[o] = "fetch" => job'[o].kind = "invitation"
                    /\ pc'[o] \in {"check", "renew", "session"} => job'[o].kind \in Bearers
                    /\ pc'[o] = "load" => job'[o].kind \notin {"visit", "social"}
                    /\ pc'[o] = "write" =>
                         job'[o].kind \in {"logout", "profile", "reset", "delete", "disable", "enable"}
                    /\ pc'[o] = "drop_active" => job'[o].kind \in {"logout", "delete", "disable"}
                    /\ pc'[o] = "drop_session" => job'[o].kind \in {"logout", "delete"}
  BY DEF Roads, Is
<1>1. CASE o # s  BY <1>0, <1>1 DEF Others, Roads, Is
<1>2. CASE o = s /\ Finish(s)
  <2>1. pc'[s] = "idle"  BY <1>0, <1>2 DEF Finish
  <2> QED BY <1>2, <2>1
<1>3. CASE o = s /\ ~Finish(s)
  <2>0. pc'[s] # "idle" /\ job'[s].kind = job[s].kind /\ job[s].kind \in Kinds
    BY <1>0, <1>3, Path, SlotFacts DEF Jobs
  <2>1. CASE Fetch(s)
    <3>1. pc[s] = "fetch" /\ pc'[s] = "load"  BY <1>0, <1>3, <2>1 DEF Fetch, At, Continue, Goto
    <3> QED BY <1>3, <2>0, <3>1 DEF Roads, Is
  <2>2. CASE Load(s)
    <3>1. pc[s] = "load" /\ pc'[s] \in AfterLoad(s, account[Target(s)]) /\ pc'[s] # "end"
      BY <1>0, <1>3, <2>2 DEF Load, At, Continue, Goto
    <3>2. pc'[s] \in {"clear", "count", "write", "invite"}
          /\ (pc'[s] = "write" => job[s].kind \notin {"login", "invitation", "forgot"})
      BY <3>1 DEF AfterLoad, Is
    <3>3. job[s].kind \notin {"visit", "social"}  BY <3>1 DEF Roads, Is
    <3> QED BY <1>3, <2>0, <3>2, <3>3 DEF Kinds
  <2>3. CASE Clear(s)
    <3>1. pc'[s] = "sign" \/ (pc'[s] = "write" /\ job[s].kind = "profile")
      BY <1>0, <2>3 DEF Clear, Goto, Is
    <3> QED BY <1>3, <2>0, <3>1
  <2>4. CASE CheckSession(s)
    <3>1. pc'[s] \in {"inside", "drop_active", "load"}
          /\ (pc'[s] = "drop_active" => job[s].kind = "logout")
          /\ (pc'[s] = "load" => job[s].kind # "visit")
          /\ pc[s] = "session"
      BY <1>0, <1>3, <2>4 DEF CheckSession, At, Continue, Goto, Is
    <3>2. job[s].kind # "social"  BY <3>1 DEF Roads, Is, Bearers
    <3> QED BY <1>3, <2>0, <3>1, <3>2
  <2>5. CASE DropActive(s)
    <3>1. pc'[s] = "drop_session" /\ job[s].kind # "disable" /\ pc[s] = "drop_active"
      BY <1>0, <1>3, <2>5 DEF DropActive, At, Continue, Goto, Is
    <3> QED BY <1>3, <2>0, <3>1 DEF Roads, Is
  <2>6. CASE DropSession(s)
    <3>1. pc'[s] = "load" /\ pc[s] = "drop_session"
      BY <1>0, <1>3, <2>6 DEF DropSession, At, Continue, Goto
    <3> QED BY <1>3, <2>0, <3>1 DEF Roads, Is
  <2>7. CASE Write(s)
    <3>1. /\ pc[s] = "write" /\ pc'[s] \in {"sync", "drop_active"}
          /\ job[s].kind \notin {"profile", "enable"}
          /\ pc'[s] = "drop_active" => job[s].kind \notin {"logout", "reset"}
      BY <1>0, <1>3, <2>7 DEF Write, At, Continue, Goto, Is
    <3> QED BY <1>3, <2>0, <3>1 DEF Roads, Is
  <2>8. CASE Check(s) \/ Renew(s)
    <3>1. pc[s] \in {"check", "renew"} /\ pc'[s] \in {"renew", "session"}
      BY <1>0, <1>3, <2>8 DEF Check, Renew, At, Continue, Goto
    <3> QED BY <1>3, <2>0, <3>1 DEF Roads, Is
  <2>9. CASE Search(s) \/ Sign(s) \/ Activate(s) \/ ReadCount(s) \/ PutCount(s) \/ Sync(s)
    <3>1. pc'[s] \in {"sign", "activate", "update", "put", "lock_out", "invite"}
      BY <1>0, <1>3, <2>9 DEF Search, Sign, Activate, ReadCount, PutCount, Sync, Continue, Goto
    <3> QED BY <1>3, <3>1
  <2> QED BY <1>3, <2>1, <2>2, <2>3, <2>4, <2>5, <2>6, <2>7, <2>8, <2>9 DEF Step, Update, LockOut, Serve, Invite
<1> QED BY <1>1, <1>2, <1>3

\* What a step makes of the file, as far as the push token is concerned
LEMMA EndWrites ==
  ASSUME Types, NEW s \in Slots, Step(s)
  PROVE  /\ \A v \in Users : v # Target(s) => account'[v] = account[v]
         /\ \/ account'[Target(s)] = account[Target(s)]
            \/ pc[s] = "update" /\ Finish(s) /\ account'[Target(s)].there = obj[s].there
            \/ /\ pc[s] = "lock_out"
               /\ account'[Target(s)].there = obj[s].there /\ account'[Target(s)].push = obj[s].push
            \/ pc[s] = "write" /\ account'[Target(s)] = Changed(s)
         /\ Changed(s).push = obj[s].push \/ Is(s, {"logout", "delete"})
         /\ Changed(s).push = None \/ ~Is(s, {"logout", "delete"})
         /\ Changed(s).there = obj[s].there \/ Is(s, {"delete"})
<1>0. obj[s] \in Accounts /\ Target(s) \in Users /\ account \in [Users -> Accounts]
  BY StepShape, SlotFacts DEF Types, FileTypes
<1>1. ASSUME NEW a, WriteFile(Target(s), a)  PROVE account'[Target(s)] \in {account[Target(s)], a}
  BY <1>0, <1>1 DEF WriteFile
<1>2. /\ \/ account'[Target(s)] = account[Target(s)]
         \/ pc[s] = "update" /\ Finish(s) /\ account'[Target(s)].there = obj[s].there
         \/ /\ pc[s] = "lock_out"
            /\ account'[Target(s)].there = obj[s].there /\ account'[Target(s)].push = obj[s].push
         \/ pc[s] = "write" /\ account'[Target(s)] = Changed(s)
  <2>1. CASE Update(s)
    BY <2>1, FileStep DEF Update, At
  <2>2. CASE LockOut(s)
    <3> DEFINE a == [obj[s] EXCEPT !.active = FALSE]
    <3>1. a.there = obj[s].there /\ a.push = obj[s].push  BY <1>0, LockFields, PushFields
    <3>2. WriteFile(Target(s), a) /\ pc[s] = "lock_out"  BY <2>2 DEF LockOut, At
    <3> HIDE DEF a
    <3> QED BY <1>1, <3>1, <3>2
  <2>3. CASE Write(s)
    <3>1. pc[s] = "write" /\ (UNCHANGED account \/ WriteFile(Target(s), Changed(s)))
      BY <2>3 DEF Write, At
    <3> QED BY <1>1, <3>1
  <2>4. CASE ~Update(s) /\ ~LockOut(s) /\ ~Write(s)
    BY <2>4 DEF Step, Fetch, Search, Load, Clear, Sign, Activate, ReadCount, PutCount, Check,
       Renew, CheckSession, Serve, DropActive, DropSession, Sync, Invite
  <2> QED BY <2>1, <2>2, <2>3, <2>4
<1>3. /\ Changed(s).push = obj[s].push \/ Is(s, {"logout", "delete"})
      /\ Changed(s).push = None \/ ~Is(s, {"logout", "delete"})
      /\ Changed(s).there = obj[s].there \/ Is(s, {"delete"})
  BY <1>0, LockFields, PushFields DEF Changed, Is
<1> QED BY <1>2, <1>3, FileStep

\* Every step keeps it.
LEMMA StepKept ==
  ASSUME Types, Kept, NEW s \in Slots, Step(s)
  PROVE  Kept'
<1>0. pc[s] # "idle" /\ Others(s) /\ (Finish(s) \/ Goes(s)) /\ pc \in [Slots -> Points]
  BY StepShape, ShapeTypes DEF Types, SlotTypes
<1>1. ASSUME NEW u \in Users  PROVE account'[u].there \/ account'[u].push = None
  <2>1. CASE u # Target(s) \/ account'[u] = account[u]  BY <2>1, EndWrites DEF Kept
  <2>2. CASE u = Target(s) /\ account'[u] # account[u]  BY <2>2, EndWrites DEF Kept, Is
  <2> QED BY <2>1, <2>2
<1>2. ASSUME NEW o \in Slots,
             pc'[o] \in {"clear", "sign", "activate", "update", "count", "put", "lock_out", "write"}
      PROVE  obj'[o].there
  <2>1. CASE o # s  BY <1>0, <1>2, <2>1 DEF Others, Kept
  <2>2. CASE o = s /\ Finish(s)
    <3>1. pc'[s] = "idle"  BY <1>0, <2>2 DEF Finish
    <3> QED BY <1>2, <2>2, <3>1
  <2>3. CASE o = s /\ ~Finish(s)
    <3>1. CASE Search(s)
      <4>1. doc[Target(s)].there  BY <2>3, <3>1 DEF Search
      <4> QED BY <2>3, <3>1, <4>1, CopyStep
    <3>2. CASE Load(s)  BY <2>3, <3>2, CopyStep
    <3>3. CASE Clear(s)
      <4>1. obj[s].there  BY <3>3 DEF Clear, At, Kept
      <4> QED BY <2>3, <3>3, <4>1, CopyStep
    <3>4. CASE Write(s)
      <4>1. pc'[s] \in {"sync", "drop_active"}  BY <1>0, <2>3, <3>4 DEF Write, Continue, Goto
      <4> QED BY <1>2, <2>3, <4>1
    <3>5. CASE ~Search(s) /\ ~Load(s) /\ ~Clear(s) /\ ~Write(s)
      <4>1. obj'[s] = obj[s]  BY <2>3, <3>5, CopyStep
      <4>2. pc[s] # "search"
        BY <3>5 DEF Step, Fetch, Sign, Activate, Update, ReadCount, PutCount, LockOut, Check, Renew,
           CheckSession, Serve, DropActive, DropSession, Sync, Invite, At
      <4>3. pc[s] \in {"clear", "sign", "activate", "update", "count", "put", "lock_out", "write"}
        BY <1>2, <2>3, <3>5, <4>2, Path
      <4> QED BY <2>3, <4>1, <4>3 DEF Kept
    <3> QED BY <3>1, <3>2, <3>3, <3>4, <3>5
  <2> QED BY <2>1, <2>2, <2>3
<1> QED BY <1>1, <1>2 DEF Kept

\* A session begins as its token is signed and ends as its user logs out or is deleted.
LEMMA SessionStep ==
  ASSUME Types, SessionTypes, NEW s \in Slots, Step(s)
  PROVE  /\ SessionTypes' /\ \A v \in Users : v # Target(s) => session'[v] = session[v]
         /\ Sign(s) => session'[Target(s)]
         /\ ~Sign(s) /\ ~DropSession(s) => session' = session
<1>0. Target(s) \in Users  BY StepShape, SlotFacts
<1>1. CASE Sign(s)
  <2>1. session' = [session EXCEPT ![Target(s)] = TRUE]  BY <1>1 DEF Sign
  <2> QED BY <1>0, <1>1, <2>1 DEF SessionTypes
<1>2. CASE DropSession(s)
  <2>1. session' = [session EXCEPT ![Target(s)] = FALSE] /\ ~Sign(s)
    BY <1>2 DEF DropSession, Sign, At
  <2> QED BY <1>0, <1>2, <2>1 DEF SessionTypes
<1>3. CASE ~Sign(s) /\ ~DropSession(s)
  <2>1. session' = session
    BY <1>3 DEF Step, Fetch, Search, Load, Clear, Activate, Update, ReadCount, PutCount, LockOut, Check,
       Renew, CheckSession, Serve, DropActive, Write, Sync, Invite, sessionVars
  <2> QED BY <1>3, <2>1 DEF SessionTypes
<1> QED BY <1>1, <1>2, <1>3

\* A request that goes on with requests of its user not overlapping knows what it has to.
LEMMA EndOn ==
  ASSUME EndInv, NEW s \in Slots, Step(s), ~Finish(s), Target(s) \notin mixed
  PROVE  /\ \/ session'[Target(s)] \/ account'[Target(s)].push = None
            \/ pc'[s] \in {"load", "write", "sync"} /\ Is(s, {"logout"})
         /\ pc'[s] \in {"clear", "count", "put", "lock_out"} \/ (pc'[s] = "write" /\ ~Is(s, {"logout"}))
              => session'[Target(s)] \/ obj'[s].push = None
         /\ pc'[s] \in {"activate", "update"} => session'[Target(s)]
         /\ pc'[s] \in {"drop_active", "drop_session"} /\ Is(s, {"delete"})
              => account'[Target(s)].push = None
<1> DEFINE u == Target(s)
<1>0. /\ Types /\ SessionTypes /\ Roads /\ Kept /\ pc[s] # "idle" /\ u \in Users
      /\ obj[s] \in Accounts /\ account \in [Users -> Accounts]
      /\ pc \in [Slots -> Points] /\ obj \in [Slots -> Accounts]
  BY StepShape, SlotFacts DEF EndInv, LockInv, Types, SlotTypes, FileTypes
<1>1. /\ session[u] \/ account[u].push = None \/ (pc[s] \in {"load", "write", "sync"} /\ Is(s, {"logout"}))
      /\ pc[s] \in {"clear", "count", "put", "lock_out"} \/ (pc[s] = "write" /\ ~Is(s, {"logout"}))
           => session[u] \/ obj[s].push = None
      /\ pc[s] \in {"activate", "update"} => session[u]
      /\ pc[s] \in {"drop_active", "drop_session"} /\ Is(s, {"delete"}) => account[u].push = None
  BY <1>0 DEF EndInv, Ends, Knows, Together
<1> HIDE DEF u
<1>2. CASE Sign(s)
  <2>1. session'[u] /\ pc'[s] \in {"activate", "update"}
    BY <1>0, <1>2, SessionStep DEF Sign, Continue, Goto, u
  <2> QED BY <2>1 DEF u
<1>3. CASE DropSession(s)
  <2>1. pc[s] = "drop_session" /\ pc'[s] = "load" /\ ~Is(s, {"delete"})
    BY <1>0, <1>3 DEF DropSession, At, Continue, Goto
  <2>2. Is(s, {"logout"})  BY <1>0, <2>1 DEF Roads, Is
  <2> QED BY <2>1, <2>2
<1>4. CASE Load(s)
  <2>1. /\ pc[s] = "load" /\ pc'[s] \in AfterLoad(s, account[u]) /\ pc'[s] # "end"
        /\ account' = account /\ session' = session
    BY <1>0, <1>4 DEF Load, At, Continue, Goto, sessionVars, u
  <2>2. pc'[s] \in {"clear", "count", "write", "invite"} /\ (Is(s, {"logout"}) => pc'[s] = "write")
    BY <2>1 DEF AfterLoad, Is
  <2>3. obj'[s] = account[u]  BY <1>0, <1>4, CopyStep DEF u
  <2> QED BY <1>1, <2>1, <2>2, <2>3 DEF u
<1>5. CASE Write(s)
  <2>1. /\ pc[s] = "write" /\ account[u].there /\ WriteFile(u, Changed(s)) /\ session' = session
        /\ pc'[s] = IF Is(s, {"logout", "reset"}) THEN "sync" ELSE "drop_active"
    BY <1>0, <1>5 DEF Write, At, Continue, Goto, sessionVars, u
  <2>2. account'[u] = Changed(s)  BY <1>0, <2>1 DEF WriteFile
  <2>3. /\ Changed(s).push = obj[s].push \/ Is(s, {"logout", "delete"})
        /\ Changed(s).push = None \/ ~Is(s, {"logout", "delete"})
    BY <1>0, EndWrites
  <2>4. pc'[s] \in {"sync", "drop_active"} /\ (Is(s, {"logout"}) => pc'[s] = "sync")
    BY <2>1 DEF Is
  <2>5. Is(s, {"delete"}) => Is(s, {"logout", "delete"}) /\ ~Is(s, {"logout"})  BY DEF Is
  <2>6. Is(s, {"logout", "delete"}) => Is(s, {"logout"}) \/ Is(s, {"delete"})  BY DEF Is
  <2> QED BY <1>1, <2>1, <2>2, <2>3, <2>4, <2>5, <2>6 DEF u
<1>6. CASE Clear(s)
  <2>1. pc[s] = "clear" /\ pc'[s] \in {"sign", "write"} /\ account' = account /\ session' = session
        /\ (pc'[s] = "write" => Is(s, {"profile"}))
    BY <1>0, <1>6 DEF Clear, At, Goto, sessionVars
  <2>2. obj'[s].push = obj[s].push
    <3>1. obj'[s] = obj[s] \/ obj'[s] = [obj[s] EXCEPT !.password = job[s].key, !.force = FALSE]
      BY <1>0, <1>6 DEF Clear
    <3>2. [obj[s] EXCEPT !.password = job[s].key, !.force = FALSE].push = obj[s].push
      BY <1>0, PushFields
    <3> QED BY <3>1, <3>2
  <2> QED BY <1>1, <2>1, <2>2 DEF u
<1>7. CASE ReadCount(s) \/ PutCount(s) \/ Activate(s)
  <2>1. /\ account' = account /\ session' = session /\ obj' = obj
        /\ \/ pc[s] = "count" /\ pc'[s] = "put"
           \/ pc[s] = "put" /\ pc'[s] = "lock_out"
           \/ pc[s] = "activate" /\ pc'[s] = "update"
    BY <1>0, <1>7 DEF ReadCount, PutCount, Activate, At, Continue, Goto, sessionVars
  <2> QED BY <1>1, <2>1 DEF u
<1>8. CASE Fetch(s) \/ Search(s) \/ Check(s) \/ Renew(s) \/ CheckSession(s) \/ DropActive(s)
  <2>1. /\ account' = account /\ session' = session
        /\ \/ pc[s] \in {"fetch", "search", "check", "renew", "session"}
              /\ pc'[s] \in {"load", "sign", "renew", "session", "inside"}
           \/ pc[s] = "session" /\ pc'[s] = "drop_active" /\ Is(s, {"logout"})
           \/ pc[s] = "drop_active" /\ pc'[s] = "drop_session"
    BY <1>0, <1>8 DEF Fetch, Search, Check, Renew, CheckSession, DropActive, At, Continue, Goto, sessionVars
  <2>2. Is(s, {"logout"}) => ~Is(s, {"delete"})  BY DEF Is
  <2> QED BY <1>1, <2>1, <2>2 DEF u
<1>9. CASE Sync(s)
  <2>1. /\ account' = account /\ session' = session /\ pc'[s] = "invite" /\ ~Is(s, {"logout"})
    BY <1>0, <1>9 DEF Sync, Continue, Goto, sessionVars
  <2> QED BY <1>1, <2>1 DEF u
<1> QED BY <1>2, <1>3, <1>4, <1>5, <1>6, <1>7, <1>8, <1>9 DEF Step, Update, LockOut, Serve, Invite

\* A request that is answered leaves its user together, if no other of that user was in
\* flight meanwhile or if it was a logout without company.
LEMMA EndDone ==
  ASSUME EndInv, NEW s \in Slots, Step(s), Finish(s), Target(s) \notin mixed'
  PROVE  session'[Target(s)] \/ account'[Target(s)].push = None
<1> DEFINE u == Target(s)
<1>0. /\ Types /\ SessionTypes /\ Roads /\ Kept /\ pc[s] # "idle" /\ u \in Users
      /\ obj[s] \in Accounts /\ account \in [Users -> Accounts]
      /\ pc \in [Slots -> Points] /\ pc'[s] = "idle"
  BY StepShape, SlotFacts DEF EndInv, LockInv, Types, SlotTypes, FileTypes, Finish
<1>1. \/ u \notin mixed
      \/ s \in alone /\ pc[s] \in {"load", "sync"} /\ Is(s, {"logout"})
  BY DEF Finish
<1>2. u \notin mixed =>
      /\ s \in alone
      /\ session[u] \/ account[u].push = None \/ (pc[s] \in {"load", "write", "sync"} /\ Is(s, {"logout"}))
      /\ pc[s] \in {"clear", "count", "put", "lock_out"} \/ (pc[s] = "write" /\ ~Is(s, {"logout"}))
           => session[u] \/ obj[s].push = None
      /\ pc[s] \in {"activate", "update"} => session[u]
      /\ pc[s] \in {"drop_active", "drop_session"} /\ Is(s, {"delete"}) => account[u].push = None
  BY <1>0 DEF EndInv, Ends, Knows, Together
<1>3. s \in alone /\ pc[s] = "sync" /\ Is(s, {"logout"}) => account[u].push = None
  BY DEF EndInv, Ends
<1>4. account[u].there \/ account[u].push = None  BY <1>0 DEF Kept
<1>5. ~Sign(s) /\ ~Clear(s) /\ ~Renew(s) /\ ~Activate(s)
  BY <1>0 DEF Sign, Clear, Renew, Activate, Continue, Goto, Points
<1> HIDE DEF u
<1>6. CASE Load(s)
  <2>1. /\ pc[s] = "load" /\ account' = account /\ session' = session
        /\ ~account[u].there \/ "end" \in AfterLoad(s, account[u])
    <3>1. /\ pc[s] = "load" /\ account' = account /\ session' = session
      BY <1>6 DEF Load, At, sessionVars
    <3>2. PICK p \in IF account[u].there THEN AfterLoad(s, account[u]) ELSE {"end"} :
            p # "end" => Continue(s, p)
      BY <1>6 DEF Load, u
    <3>3. p = "end"
      <4>1. \A a : AfterLoad(s, a) \subseteq {"clear", "count", "end", "write", "invite"}  BY DEF AfterLoad
      <4> QED BY <1>0, <3>2, <4>1 DEF Continue, Goto
    <3> QED BY <3>1, <3>2, <3>3
  <2>2. Is(s, {"logout"}) => account[u].push = None
    BY <1>4, <2>1 DEF AfterLoad, Is
  <2> QED BY <1>1, <1>2, <2>1, <2>2 DEF u
<1>7. CASE Sync(s)
  <2>1. /\ pc[s] = "sync" /\ account' = account /\ session' = session /\ Is(s, {"logout"})
    BY <1>0, <1>7 DEF Sync, At, sessionVars, Continue, Goto
  <2> QED BY <1>1, <1>2, <1>3, <2>1 DEF u
<1>8. CASE Update(s)
  <2>1. pc[s] = "update" /\ session' = session  BY <1>8 DEF Update, At, sessionVars
  <2> QED BY <1>1, <1>2, <2>1 DEF u
<1>9. CASE LockOut(s)
  <2>1. pc[s] = "lock_out" /\ session' = session  BY <1>9 DEF LockOut, At, sessionVars
  <2>2. account'[u] = account[u] \/ account'[u].push = obj[s].push
    BY <1>0, <2>1, EndWrites DEF u
  <2> QED BY <1>1, <1>2, <2>1, <2>2 DEF u
<1>10. CASE DropActive(s) \/ DropSession(s)
  <2>1. /\ account' = account
        /\ \/ pc[s] = "drop_active" /\ session' = session
           \/ pc[s] = "drop_session" /\ Is(s, {"delete"})
    BY <1>0, <1>10 DEF DropActive, DropSession, At, Continue, Goto, sessionVars
  <2> QED BY <1>1, <1>2, <2>1 DEF u
<1>11. CASE Write(s)
  <2>1. /\ pc[s] = "write" /\ session' = session
        /\ \/ Is(s, {"profile", "enable"})
           \/ ~account[u].there /\ account' = account
    BY <1>0, <1>11 DEF Write, At, sessionVars, Continue, Goto, Is, u
  <2>2. account'[u] = account[u] \/ account'[u] = Changed(s)
    BY <1>0, <2>1, EndWrites DEF u
  <2>3. Is(s, {"profile", "enable"}) => Changed(s).push = obj[s].push /\ ~Is(s, {"logout"})
    BY <1>0, EndWrites DEF Is
  <2> QED BY <1>1, <1>2, <1>4, <2>1, <2>2, <2>3 DEF u
<1>12. CASE Fetch(s) \/ Search(s) \/ ReadCount(s) \/ PutCount(s) \/ Check(s) \/ CheckSession(s)
            \/ Serve(s) \/ Invite(s)
  <2>1. /\ pc[s] \notin {"load", "write", "sync"} /\ account' = account /\ session' = session
    BY <1>12 DEF Fetch, Search, ReadCount, PutCount, Check, CheckSession, Serve, Invite, At, sessionVars
  <2> QED BY <1>1, <1>2, <2>1 DEF u
<1> QED BY <1>5, <1>6, <1>7, <1>8, <1>9, <1>10, <1>11, <1>12 DEF Step

\* Every step of a request keeps it.
LEMMA StepEnds ==
  ASSUME EndInv, NEW s \in Slots, Step(s)
  PROVE  Ends'
<1>0. /\ Types /\ SessionTypes /\ Company /\ Ends /\ pc[s] # "idle" /\ Others(s)
      /\ Target(s) \in Users /\ account \in [Users -> Accounts] /\ pc \in [Slots -> Points]
      /\ pc'[s] = "idle" \/ (Target(s)' = Target(s) /\ job'[s].kind = job[s].kind)
  BY StepShape, ShapeTypes, SlotFacts DEF EndInv, LockInv, Types, SlotTypes, FileTypes, Target
<1>1. \A v \in Users : v # Target(s) => account'[v] = account[v] /\ session'[v] = session[v]
  BY <1>0, EndWrites, SessionStep
<1>2. Finish(s) => /\ pc'[s] = "idle" /\ alone' = alone \ {s}
                   /\ mixed' = mixed \/ (mixed' = mixed \ {Target(s)} /\ s \in alone)
  BY <1>0 DEF Finish
<1>3. ~Finish(s) => pc'[s] # "idle" /\ alone' = alone /\ mixed' = mixed
  <2>1. ~Finish(s) => alone' = alone /\ mixed' = mixed
    BY DEF Step, Fetch, Search, Load, Clear, Sign, Activate, Update, ReadCount, PutCount, LockOut, Check,
       Renew, CheckSession, Serve, DropActive, DropSession, Write, Sync, Invite, Continue, companyVars
  <2> QED BY <1>0, <2>1, Path
<1>4. \A o \in Slots \ {s} : /\ pc'[o] = pc[o] /\ Target(o)' = Target(o) /\ job'[o] = job[o]
                             /\ obj'[o] = obj[o]
  BY <1>0 DEF Others, Target
<1>5. ASSUME NEW o \in Slots \ {s}, o \in alone
      PROVE  /\ account'[Target(o)] = account[Target(o)] /\ session'[Target(o)] = session[Target(o)]
             /\ Target(s) # Target(o)
  <2>1. pc[o] # "idle" /\ Target(s) # Target(o)  BY <1>0, <1>5 DEF Company
  <2> QED BY <1>0, <1>1, <2>1, SlotFacts
<1>6. ASSUME NEW o \in Slots, pc'[o] # "idle", Target(o)' \notin mixed'
      PROVE  o \in alone' /\ Knows(o)'
  <2>1. CASE o = s
    <3>1. ~Finish(s) /\ Target(s) \notin mixed /\ alone' = alone /\ s \in alone
      BY <1>0, <1>2, <1>3, <1>6, <2>1 DEF Ends
    <3>2. Target(s)' = Target(s) /\ (\A K : Is(s, K)' <=> Is(s, K))  BY <1>0, <1>6, <2>1 DEF Is
    <3> QED BY <2>1, <3>1, <3>2, EndOn DEF Knows, Together
  <2>2. CASE o # s
    <3>1. pc[o] # "idle" /\ Target(o) \notin mixed'  BY <1>4, <1>6, <2>2
    <3>2. Target(o) \notin mixed
      <4>1. s \in alone => Target(o) # Target(s)  BY <1>0, <2>2, <3>1 DEF Company
      <4> QED BY <1>2, <1>3, <3>1, <4>1
    <3>3. o \in alone /\ Knows(o)  BY <1>0, <3>1, <3>2 DEF Ends
    <3>4. account'[Target(o)] = account[Target(o)] /\ session'[Target(o)] = session[Target(o)]
      BY <1>5, <2>2, <3>3
    <3>5. o \in alone'  BY <1>2, <1>3, <2>2, <3>3
    <3> QED BY <1>4, <2>2, <3>3, <3>4, <3>5 DEF Knows, Together, Is
  <2> QED BY <2>1, <2>2
<1>7. ASSUME NEW o \in Slots, o \in alone', pc'[o] = "sync", job'[o].kind = "logout"
      PROVE  account'[Target(o)'].push = None
  <2>1. CASE o = s
    <3>1. ~Finish(s)  BY <1>2, <1>7, <2>1
    <3>2. CASE Write(s)
      <4>1. account[Target(s)].there /\ WriteFile(Target(s), Changed(s))
        BY <3>1, <3>2 DEF Write
      <4>2. account'[Target(s)] = Changed(s)  BY <1>0, <4>1 DEF WriteFile
      <4>3. Is(s, {"logout", "delete"})  BY <1>0, <1>7, <2>1 DEF Is
      <4> QED BY <1>0, <1>7, <2>1, <4>2, <4>3, EndWrites
    <3>3. CASE Load(s)
      <4>1. \A a : AfterLoad(s, a) \subseteq {"clear", "count", "end", "write", "invite"}  BY DEF AfterLoad
      <4> QED BY <1>0, <1>7, <2>1, <3>1, <3>3, <4>1 DEF Load, Continue, Goto
    <3>4. CASE ~Write(s) /\ ~Load(s)
      BY <1>0, <1>7, <2>1, <3>1, <3>4 DEF Step, Fetch, Search, Clear, Sign, Activate, Update, ReadCount,
         PutCount, LockOut, Check, Renew, CheckSession, Serve, DropActive, DropSession, Sync, Invite,
         Continue, Goto
    <3> QED BY <3>2, <3>3, <3>4
  <2>2. CASE o # s
    <3>1. o \in alone /\ pc[o] = "sync" /\ Is(o, {"logout"})
      BY <1>2, <1>3, <1>4, <1>7, <2>2 DEF Is
    <3>2. account[Target(o)].push = None  BY <1>0, <3>1 DEF Ends
    <3> QED BY <1>4, <1>5, <1>7, <2>2, <3>1, <3>2
  <2> QED BY <2>1, <2>2
<1>8. ASSUME NEW u \in Users, u \notin mixed', \A o \in Slots : pc'[o] # "idle" => Target(o)' # u
      PROVE  session'[u] \/ account'[u].push = None
  <2>1. CASE u = Target(s)
    <3>1. Finish(s)  BY <1>0, <1>3, <1>8, <2>1
    <3> QED BY <1>8, <2>1, <3>1, EndDone
  <2>2. CASE u # Target(s)
    <3>1. u \notin mixed  BY <1>2, <1>3, <1>8, <2>2
    <3>2. \A o \in Slots : pc[o] # "idle" => Target(o) # u  BY <1>4, <1>8, <2>2
    <3>3. Together(u)  BY <1>0, <3>1, <3>2 DEF Ends
    <3> QED BY <1>1, <2>2, <3>3 DEF Together
  <2> QED BY <2>1, <2>2
<1> QED BY <1>6, <1>7, <1>8 DEF Ends, Together, Is

\* A request that arrives finds its user together, or with company.
LEMMA ArriveEnds ==
  ASSUME EndInv, NEW s \in Slots, Arrive(s)
  PROVE  SessionTypes' /\ Roads' /\ Kept' /\ Ends'
<1>0. /\ Types /\ Company /\ Roads /\ Kept /\ Ends /\ pc[s] = "idle" /\ Others(s)
      /\ pc'[s] \in {"fetch", "search", "check", "session", "load"} /\ job'[s].user \in Users
      /\ UNCHANGED <<account, session>>
  BY ArriveShape DEF EndInv, LockInv, Arrive, sessionVars
<1> DEFINE u == job'[s].user
           others == {o \in Slots : pc[o] # "idle" /\ Target(o) = u}
<1>1. /\ job'[s].kind \in Kinds /\ pc'[s] = Entry(job'[s].kind)
      /\ others = {} => alone' = alone \cup {s} /\ mixed' = mixed
      /\ others # {} => alone' = alone \ others /\ mixed' = mixed \cup {u}
  BY <1>0, ArriveMeets
<1>2. \A o \in Slots : o \in others <=> pc[o] # "idle" /\ Target(o) = u  OBVIOUS
<1>3. \A o \in Slots \ {s} : /\ pc'[o] = pc[o] /\ Target(o)' = Target(o) /\ job'[o] = job[o]
                             /\ obj'[o] = obj[o]
  BY <1>0 DEF Others, Target
<1>4. Target(s)' = u /\ u \in Users  BY <1>0 DEF Target
<1> HIDE DEF u, others
<1>5. SessionTypes'  BY <1>0 DEF EndInv, SessionTypes
<1>6. Roads'
  <2>1. /\ pc'[s] = "fetch" => job'[s].kind = "invitation"
        /\ pc'[s] \in {"check", "session"} => job'[s].kind \in Bearers
        /\ pc'[s] = "load" => job'[s].kind \notin {"visit", "social"}
    BY <1>1 DEF Entry, Bearers
  <2> SUFFICES ASSUME NEW o \in Slots
               PROVE  /\ pc'[o] = "fetch" => job'[o].kind = "invitation"
                      /\ pc'[o] \in {"check", "renew", "session"} => job'[o].kind \in Bearers
                      /\ pc'[o] = "load" => job'[o].kind \notin {"visit", "social"}
                      /\ pc'[o] = "write" =>
                           job'[o].kind \in {"logout", "profile", "reset", "delete", "disable", "enable"}
                      /\ pc'[o] = "drop_active" => job'[o].kind \in {"logout", "delete", "disable"}
                      /\ pc'[o] = "drop_session" => job'[o].kind \in {"logout", "delete"}
    BY DEF Roads, Is
  <2>2. CASE o = s  BY <1>0, <2>1, <2>2
  <2>3. CASE o # s  BY <1>0, <1>3, <2>3 DEF Roads, Is
  <2> QED BY <2>2, <2>3
<1>7. Kept'  BY <1>0, <1>3 DEF Kept
<1>8. ASSUME NEW o \in Slots, pc'[o] # "idle", Target(o)' \notin mixed'
      PROVE  o \in alone' /\ Knows(o)'
  <2>1. CASE o = s
    <3>1. others = {} /\ u \notin mixed  BY <1>1, <1>4, <1>8, <2>1
    <3>2. Together(u)  BY <1>0, <1>2, <1>4, <3>1 DEF Ends
    <3> QED BY <1>0, <1>1, <1>4, <2>1, <3>1, <3>2 DEF Knows, Together
  <2>2. CASE o # s
    <3>1. pc[o] # "idle" /\ Target(o) \notin mixed /\ (others # {} => Target(o) # u)
      BY <1>1, <1>3, <1>8, <2>2
    <3>2. o \in alone /\ Knows(o)  BY <1>0, <3>1 DEF Ends
    <3>3. o \in alone'  BY <1>1, <1>2, <3>1, <3>2
    <3> QED BY <1>0, <1>3, <2>2, <3>2, <3>3 DEF Knows, Together, Is
  <2> QED BY <2>1, <2>2
<1>9. ASSUME NEW o \in Slots, o \in alone', pc'[o] = "sync", job'[o].kind = "logout"
      PROVE  account'[Target(o)'].push = None
  <2>1. o # s /\ o \in alone  BY <1>0, <1>1, <1>9 DEF Company
  <2>2. pc[o] = "sync" /\ Is(o, {"logout"})  BY <1>3, <1>9, <2>1 DEF Is
  <2> QED BY <1>0, <1>3, <2>1, <2>2 DEF Ends
<1>10. ASSUME NEW v \in Users, v \notin mixed', \A o \in Slots : pc'[o] # "idle" => Target(o)' # v
       PROVE  session'[v] \/ account'[v].push = None
  <2>1. v \notin mixed  BY <1>1, <1>10
  <2>2. \A o \in Slots : pc[o] # "idle" => Target(o) # v  BY <1>0, <1>3, <1>10
  <2> QED BY <1>0, <2>1, <2>2 DEF Ends, Together
<1> QED BY <1>5, <1>6, <1>7, <1>8, <1>9, <1>10 DEF Ends, Together, Is

\* Every step keeps it.
LEMMA NextEnd == EndInv /\ [Next]_vars => EndInv'
<1> SUFFICES ASSUME EndInv, [Next]_vars
             PROVE  SessionTypes' /\ Roads' /\ Kept' /\ Ends'
  BY NextLock DEF EndInv
<1>0. Types /\ Company /\ SessionTypes /\ Roads /\ Kept /\ Ends  BY DEF EndInv, LockInv
<1>1. CASE UNCHANGED vars
  <2>1. UNCHANGED <<pc, job, obj, account, session, alone, mixed>>
    BY <1>1 DEF vars, sessionVars, companyVars
  <2> QED BY <1>0, <2>1 DEF SessionTypes, Roads, Kept, Ends, Knows, Together, Target, Is
<1>2. ASSUME NEW s \in Slots, Step(s)  PROVE SessionTypes' /\ Roads' /\ Kept' /\ Ends'
  BY <1>0, <1>2, SessionStep, StepRoads, StepKept, StepEnds
<1>3. ASSUME NEW s \in Slots, Arrive(s)  PROVE SessionTypes' /\ Roads' /\ Kept' /\ Ends'
  BY <1>3, ArriveEnds
<1>4. ASSUME NEW u \in Users, Index(u) \/ Expire(u)  PROVE SessionTypes' /\ Roads' /\ Kept' /\ Ends'
  <2>1. /\ UNCHANGED <<pc, job, obj, account, alone>>
        /\ \/ session' = session /\ mixed' = mixed
           \/ session' = [session EXCEPT ![u] = FALSE] /\ mixed' = mixed \cup {u}
    BY <1>4 DEF Index, Expire, sessionVars, companyVars
  <2>2. SessionTypes' /\ \A v \in Users \ mixed' : session'[v] = session[v] /\ v \notin mixed
    BY <1>0, <2>1 DEF SessionTypes
  <2>3. \A s \in Slots : pc[s] # "idle" => Target(s) \in Users  BY <1>0, SlotFacts
  <2>4. Roads' /\ Kept'  BY <1>0, <2>1 DEF Roads, Kept, Is
  <2>5. ASSUME NEW s \in Slots, pc'[s] # "idle", Target(s)' \notin mixed'
        PROVE  s \in alone' /\ Knows(s)'
    <3>1. pc[s] # "idle" /\ Target(s)' = Target(s) /\ Target(s) \in Users \ mixed'
      BY <2>1, <2>3, <2>5 DEF Target
    <3>2. session'[Target(s)] = session[Target(s)] /\ s \in alone /\ Knows(s)
      BY <1>0, <2>2, <3>1 DEF Ends
    <3> QED BY <2>1, <3>1, <3>2 DEF Knows, Together, Is
  <2>6. \A v \in Users : v \notin mixed' /\ (\A s \in Slots : pc'[s] # "idle" => Target(s)' # v)
                          => Together(v)'
    BY <1>0, <2>1, <2>2 DEF Ends, Together, Target
  <2>7. \A s \in Slots : s \in alone' /\ pc'[s] = "sync" /\ Is(s, {"logout"})'
                          => account'[Target(s)'].push = None
    BY <1>0, <2>1 DEF Ends, Target, Is
  <2> QED BY <2>2, <2>4, <2>5, <2>6, <2>7 DEF Ends
<1>5. CASE Restart
  <2>1. /\ UNCHANGED <<account, session>> /\ alone' = {}
        /\ \A s \in Slots : pc'[s] = "idle"
        /\ mixed' = mixed \cup {job[s].user : s \in {x \in Slots : pc[x] # "idle"}}
    BY <1>5 DEF Restart, sessionVars
  <2>2. SessionTypes' /\ Roads' /\ Kept'  BY <1>0, <2>1 DEF SessionTypes, Roads, Kept
  <2>3. ASSUME NEW v \in Users, v \notin mixed'  PROVE session'[v] \/ account'[v].push = None
    <3>1. v \notin mixed /\ \A s \in Slots : pc[s] # "idle" => Target(s) # v  BY <2>1, <2>3 DEF Target
    <3> QED BY <1>0, <2>1, <3>1 DEF Ends, Together
  <2> QED BY <2>1, <2>2, <2>3 DEF Ends, Together
<1> QED BY <1>1, <1>2, <1>3, <1>4, <1>5 DEF Next

\* When a user has no session, notifications go nowhere, if requests of the user do not overlap.
THEOREM PushEndsWithSessionAlways == Spec => []PushEndsWithSession
<1>1. EndInv => PushEndsWithSession
  <2> SUFFICES ASSUME EndInv, NEW u \in Users, ~session[u], u \notin mixed,
                      \A s \in Slots : pc[s] # "idle" => Target(s) # u
               PROVE  account[u].push = None
    BY DEF PushEndsWithSession
  <2>1. Together(u)  BY DEF EndInv, Ends
  <2> QED BY <2>1 DEF Together
<1> QED BY <1>1, InitEnd, NextEnd, PTL DEF Spec
=============================================================================
