----------------------------- MODULE LockService -----------------------------
(***************************************************************************)
(* The edit lock of one entry as its clients may think of it: one atomic   *)
(* service that looks at the lock once for every request and replies to    *)
(* what it saw.  The lock is taken only while it is free and never passes  *)
(* from one user to another; it may end at any time.  A reply "extended"   *)
(* promises no more than that somebody held the lock.                      *)
(***************************************************************************)
CONSTANTS Users, NoUser, Calls
VARIABLES holder, client, reply

serviceVars == <<holder, client, reply>>

\* What a request may be told, given who holds the lock
Fits(c, r) ==
  \/ r \in {"locked", "cancelled"} /\ holder = client[c]
  \/ r = "extended"                /\ holder # NoUser
  \/ r = "pass"                    /\ holder \in {NoUser, client[c]}
  \/ r = "foreign"                 /\ holder \notin {NoUser, client[c]}
  \/ r = "gone"                    /\ holder = NoUser

Pending(c) == client[c] \in Users /\ reply[c] = "none"

Init ==
  /\ holder = NoUser
  /\ client = [c \in Calls |-> NoUser]
  /\ reply = [c \in Calls |-> "none"]

Send(c) ==
  /\ client[c] = NoUser
  /\ \E u \in Users : client' = [client EXCEPT ![c] = u]
  /\ UNCHANGED <<holder, reply>>

Take(c) ==
  /\ Pending(c)
  /\ holder = NoUser
  /\ holder' = client[c]
  /\ UNCHANGED <<client, reply>>

Reply(c) ==
  /\ Pending(c)
  /\ \E r \in {"locked", "extended", "cancelled", "pass", "foreign", "gone"} :
       Fits(c, r) /\ reply' = [reply EXCEPT ![c] = r]
  /\ UNCHANGED <<holder, client>>

End ==
  /\ holder' = NoUser
  /\ UNCHANGED <<client, reply>>

Next == End \/ \E c \in Calls : Send(c) \/ Take(c) \/ Reply(c)

Spec == Init /\ [][Next]_serviceVars
=============================================================================
