------------------------------- MODULE Session -------------------------------
(***************************************************************************)
(* Logins, sessions, the lock-out and what they write to the user's file.  *)
(* The token of a session is a JWT that nobody stores: Redis keeps, per    *)
(* user, a key that says there is a session and, if settings ask for one   *)
(* session per user, the hash of the token of that session.  The hash is   *)
(* bcrypt's, of the first 72 bytes, which are the same for every token of  *)
(* a user: which of them is presented makes no difference, and tokens are  *)
(* left out.  The number of failed logins is a Redis key too, while        *)
(* is_active and the push token are in the user's file, which every        *)
(* handler writes back whole, as it loaded it.  One action is what runs    *)
(* between two awaits.                                                     *)
(***************************************************************************)
EXTENDS Naturals, FiniteSets

CONSTANTS
  Users,
  Slots,        \* what the worker has in flight: one request each
  None,         \* no push token, no request
  Mixes,        \* what requests users may send: functions from Users to sets of kinds
  MaxFailed,    \* settings.max_failed_login_attempts
  MaxInvites,   \* bound on the invitations of a user
  MaxRequests,  \* bound on requests
  MaxFaults     \* bound on keys whose TTL runs out and on restarts of the worker

Kinds == {"login", "invitation", "social", "visit", "logout", "profile", "delete",
          "disable", "enable", "reset", "forgot"}

ASSUME MixAssumption == Mixes \subseteq [Users -> SUBSET Kinds]
ASSUME NoneAssumption == None \notin Users
ASSUME BoundAssumption ==
  MaxFailed \in Nat \ {0} /\ MaxInvites \in Nat /\ MaxRequests \in Nat /\ MaxFaults \in Nat

VARIABLES
  mix, oneSession,  \* what is sent here; settings.one_session_per_user
  account,          \* the user's file
  doc,              \* the user's document in the index, as social logins find it
  active, session,  \* the keys active_session:<user> and user_session:<user>
  attempts,         \* the key users:failed_login_attempts/<user>
  invites,          \* the keys users:login:invitation:<token>, per user
  shared,           \* the dict that is the default of process_user_login's user_updates
  issued,           \* users who have been answered a token
  pc, job,          \* where each request stands and what it is
  obj, count,       \* the user and the count it has read
  served, faults,
  ended, within,    \* history: users whose active session has ended since they last logged
                    \* in; of them, those who had a request between check and renewal then
  fails,            \* history: failed logins since the count was cleared
  outdated,         \* history: requests whose count a clear has overtaken
  uncleared,        \* history: users whose clear such a request has undone
  alone, streak,    \* history: requests without company; failures in a row
  mixed,            \* history: users whose requests overlapped since the last quiet logout
  provided          \* history: users who have logged in through a provider

settings == <<mix, oneSession>>
sessionVars == <<active, session, ended, within>>
failVars == <<attempts, fails, outdated, uncleared>>
countVars == <<served, faults>>
companyVars == <<alone, streak, mixed>>
vars == <<settings, account, doc, sessionVars, failVars, invites, shared, issued, pc, job,
          obj, count, countVars, companyVars, provided>>

Passwords == {"old", "new"}
Hashes == Passwords \cup {"rehashed"}
Accounts == [there : BOOLEAN, active : BOOLEAN, force : BOOLEAN, verified : BOOLEAN,
             password : Hashes, push : Users \cup {None}]
Gone == [there |-> FALSE, active |-> FALSE, force |-> FALSE, verified |-> FALSE,
         password |-> "old", push |-> None]
Fresh == [Gone EXCEPT !.there = TRUE, !.active = TRUE]

\* user: whom it is about; key: the password it sends; push: does it send the push
\* token of its device; invite: the invitation it carries, 0 for none
Jobs == [kind : Kinds, user : Users, key : Passwords, push : BOOLEAN, invite : 0..MaxInvites]

Points == {"idle", "fetch", "search", "load", "clear", "sign", "activate", "update",
           "count", "put", "lock_out", "check", "renew", "session", "inside",
           "drop_active", "drop_session", "write", "sync", "invite"}

TypeOK ==
  /\ mix \in Mixes /\ oneSession \in BOOLEAN
  /\ account \in [Users -> Accounts]
  /\ doc \in [Users -> Accounts]
  /\ active \in [Users -> BOOLEAN]
  /\ session \in [Users -> BOOLEAN]
  /\ attempts \in [Users -> Nat]
  /\ invites \in [Users -> SUBSET (1..MaxInvites)]
  /\ shared \in Users \cup {None}
  /\ issued \subseteq Users
  /\ pc \in [Slots -> Points]
  /\ job \in [Slots -> Jobs \cup {None}]
  /\ \A s \in Slots : pc[s] # "idle" => job[s] \in Jobs
  /\ obj \in [Slots -> Accounts]
  /\ count \in [Slots -> Nat]
  /\ served \in 0..MaxRequests /\ faults \in 0..MaxFaults
  /\ ended \subseteq Users /\ within \subseteq Users
  /\ fails \in [Users -> Nat] /\ outdated \subseteq Slots /\ uncleared \subseteq Users
  /\ alone \subseteq Slots /\ streak \in [Users -> Nat] /\ mixed \subseteq Users
  /\ provided \subseteq Users

\* The document matters only to users who log in through a provider.
Watched(u) == "social" \in mix[u]

Init ==
  /\ mix \in Mixes /\ oneSession \in BOOLEAN
  /\ account = [u \in Users |-> Fresh]
  /\ doc = [u \in Users |-> IF Watched(u) THEN Fresh ELSE Gone]
  /\ active = [u \in Users |-> FALSE] /\ session = active
  /\ attempts = [u \in Users |-> 0]
  /\ invites = [u \in Users |-> {}]
  /\ shared = None
  /\ issued = {}
  /\ pc = [s \in Slots |-> "idle"] /\ job = [s \in Slots |-> None]
  /\ obj = [s \in Slots |-> Gone] /\ count = [s \in Slots |-> 0]
  /\ served = 0 /\ faults = 0
  /\ ended = {} /\ within = {}
  /\ fails = [u \in Users |-> 0] /\ outdated = {} /\ uncleared = {}
  /\ alone = {} /\ streak = [u \in Users |-> 0] /\ mixed = {}
  /\ provided = {}

(***************************************************************************)
(* What the steps share                                                    *)
(***************************************************************************)
At(s, p) == pc[s] = p
Is(s, ks) == job[s].kind \in ks
Target(s) == job[s].user
Goto(s, p) == pc' = [pc EXCEPT ![s] = p]

WrongKey(s, a) == Is(s, {"invitation"}) \/ job[s].key # a.password

\* The request is answered.  A login that failed on its own makes the streak longer,
\* any other request ends it; a logout on its own sets things straight.
Finish(s) ==
  /\ pc' = [pc EXCEPT ![s] = "idle"]
  /\ job' = [job EXCEPT ![s] = None]
  /\ obj' = [obj EXCEPT ![s] = Gone]
  /\ count' = [count EXCEPT ![s] = 0]
  /\ alone' = alone \ {s}
  /\ streak' = [streak EXCEPT ![Target(s)] =
       IF s \in alone /\ Is(s, {"login"}) /\ obj[s].there /\ WrongKey(s, obj[s])
       THEN @ + 1 ELSE 0]
  /\ mixed' = IF s \in alone /\ pc[s] \in {"load", "sync"} /\ Is(s, {"logout"})
              THEN mixed \ {Target(s)} ELSE mixed
  /\ UNCHANGED <<settings, served>>

\* It goes on at point p.
Continue(s, p) ==
  /\ Goto(s, p)
  /\ UNCHANGED <<settings, served, companyVars>>

\* The key active_session is set.
SetActive(u) == active' = [active EXCEPT ![u] = TRUE]

\* It goes.
EndActive(u) ==
  /\ active' = [active EXCEPT ![u] = FALSE]
  /\ ended' = ended \cup {u}
  /\ within' = IF \E o \in Slots : At(o, "renew") /\ job[o].user = u
               THEN within \cup {u} ELSE within \ {u}

\* Fault: the count is left as it is.
ClearAttemptsNot(u) ==
  /\ UNCHANGED attempts
  /\ fails' = [fails EXCEPT ![u] = 0]
  /\ outdated' = outdated \cup {o \in Slots : At(o, "put") /\ job[o].user = u}
  /\ uncleared' = uncleared \ {u}

\* The key of the failed logins is deleted.
ClearAttempts(u) ==
  /\ attempts' = [attempts EXCEPT ![u] = 0]
  /\ fails' = [fails EXCEPT ![u] = 0]
  /\ outdated' = outdated \cup {o \in Slots : At(o, "put") /\ job[o].user = u}
  /\ uncleared' = uncleared \ {u}

(***************************************************************************)
(* A request arrives                                                       *)
(***************************************************************************)
Bearers == {"visit", "logout", "profile", "delete"}

Entry(k) == CASE k = "invitation" -> "fetch"
              [] k = "social" -> "search"
              [] k \in Bearers -> IF oneSession THEN "check" ELSE "session"
              [] OTHER -> "load"

\* What user u can send: a request of kind k
Sent(u, k) ==
  [kind : {k}, user : {u},
   key : IF k \in {"login", "profile"} THEN Passwords ELSE {"new"},
   push : IF k \in {"login", "social"} THEN BOOLEAN ELSE {FALSE},
   invite : IF k = "invitation" THEN 1..MaxInvites ELSE {0}]

Arrive(s) ==
  /\ At(s, "idle") /\ served < MaxRequests
  /\ \E u \in Users : \E k \in mix[u] : \E j \in Sent(u, k) :
       /\ k \in Bearers => u \in issued
       /\ job' = [job EXCEPT ![s] = j]
       /\ Goto(s, Entry(k))
       /\ LET others == {o \in Slots : pc[o] # "idle" /\ job[o].user = u} IN
            /\ alone' = IF others = {} THEN alone \cup {s} ELSE alone \ others
            /\ mixed' = IF others = {} THEN mixed ELSE mixed \cup {u}
            /\ streak' = IF others = {} THEN streak ELSE [streak EXCEPT ![u] = 0]
  /\ served' = served + 1
  /\ UNCHANGED <<settings, account, doc, sessionVars, failVars, invites, shared, issued,
                 obj, count, faults, provided>>

(***************************************************************************)
(* Logging in                                                              *)
(***************************************************************************)
\* fetch_invitation: the key is read and stays
Fetch(s) ==
  /\ At(s, "fetch")
  /\ IF job[s].invite \in invites[Target(s)]
     THEN Continue(s, "load") /\ UNCHANGED <<job, obj, count>>
     ELSE Finish(s)
  /\ UNCHANGED <<account, doc, sessionVars, failVars, invites, shared, issued, faults, provided>>

\* social_login: the user comes from the index, its hashed password hashed once more.
\* Whether it is active is not asked.  Without a document a user is made, who is
\* none of Users.
Search(s) ==
  /\ At(s, "search")
  /\ IF doc[Target(s)].there
     THEN /\ obj' = [obj EXCEPT ![s] = [doc[Target(s)] EXCEPT !.password = "rehashed"]]
          /\ Continue(s, "sign")
          /\ UNCHANGED <<job, count>>
     ELSE Finish(s)
  /\ UNCHANGED <<account, doc, sessionVars, failVars, invites, shared, issued, faults, provided>>

\* Where a request goes with the user it has loaded; "end" answers it.
AfterLoad(s, a) ==
  CASE Is(s, {"login", "invitation"}) ->
         IF a.active /\ (Is(s, {"invitation"}) \/ ~WrongKey(s, a)) THEN {"clear"}
         ELSE IF WrongKey(s, a) THEN {"count"} ELSE {"end"}
    [] Is(s, {"logout"}) -> IF a.push = None THEN {"end"} ELSE {"write"}
    [] Is(s, {"profile"}) -> {"clear", "end"}  \* old_password may be wrong
    [] Is(s, {"reset"}) -> IF a.force THEN {"invite"} ELSE {"write"}
    [] Is(s, {"forgot"}) -> {"invite"}
    [] OTHER -> {"write"}

\* db.load, which fails without the file
Load(s) ==
  /\ At(s, "load")
  /\ LET a == account[Target(s)] IN
       \E p \in IF a.there THEN AfterLoad(s, a) ELSE {"end"} :
         IF p = "end" THEN Finish(s)
         ELSE /\ obj' = [obj EXCEPT ![s] = a]
              /\ Continue(s, p)
              /\ UNCHANGED <<job, count>>
  /\ UNCHANGED <<account, doc, sessionVars, failVars, invites, shared, issued, faults, provided>>

\* clear_failed_password_attempts of a login, and the same in set_user_profile, which
\* takes the user from the record instead of the token.  The latter changes its copy.
Clear(s) ==
  /\ At(s, "clear")
  /\ \E v \in IF Is(s, {"profile"}) THEN Users ELSE {Target(s)} :
       /\ ClearAttempts(v)
       /\ streak' = [streak EXCEPT ![v] = 0]
  /\ IF Is(s, {"profile"})
     THEN /\ obj' = [obj EXCEPT ![s].password = job[s].key, ![s].force = FALSE]
          /\ Goto(s, "write")
     ELSE Goto(s, "sign") /\ UNCHANGED obj
  /\ UNCHANGED <<settings, account, doc, sessionVars, invites, shared, issued, job, count,
                 countVars, alone, mixed, provided>>

\* sign_jwt: the token is made, set_user_session
Sign(s) ==
  /\ At(s, "sign")
  /\ LET u == Target(s) IN
       /\ session' = [session EXCEPT ![u] = TRUE]
       /\ provided' = IF Is(s, {"social"}) THEN provided \cup {u} ELSE provided
  /\ Continue(s, IF oneSession THEN "activate" ELSE "update")
  /\ UNCHANGED <<account, doc, active, ended, within, failVars, invites, shared, issued, job,
                 obj, count, faults>>

\* sign_jwt: set_active_session
Activate(s) ==
  /\ At(s, "activate")
  /\ SetActive(Target(s))
  /\ ended' = ended \ {Target(s)} /\ within' = within \ {Target(s)}
  /\ Continue(s, "update")
  /\ UNCHANGED <<account, doc, session, failVars, invites, shared, issued, job, obj, count,
                 faults, provided>>

\* db.update: without the file it fails, else the whole of it is replaced.
WriteFile(u, a) ==
  account' = IF account[u].there THEN [account EXCEPT ![u] = a] ELSE account

\* The token is answered, if the user did not have to be written or could be.
Answer(s, writes) ==
  issued' = IF writes => account[Target(s)].there THEN issued \cup {Target(s)} ELSE issued

\* Fault: every login starts from the shared dict.
UpdateFromShared(s) ==
  /\ At(s, "update")
  /\ LET u == Target(s)
         push == IF job[s].push THEN u ELSE shared
     IN /\ shared' = push
        /\ IF push = None THEN UNCHANGED account
           ELSE WriteFile(u, [obj[s] EXCEPT !.push = push])
        /\ Answer(s, push # None)
  /\ Finish(s)
  /\ UNCHANGED <<doc, sessionVars, failVars, invites, faults, provided>>

\* The rest of process_user_login.  A social login hands over no user_updates: it fills
\* and writes the dict that all of them share.  An invitation verifies the address it
\* was sent to, if that is still the user's.
Update(s) ==
  /\ At(s, "update")
  /\ LET u == Target(s)
         sent == IF job[s].push THEN u ELSE None
         push == IF Is(s, {"social"}) /\ sent = None THEN shared ELSE sent
         base == IF push = None THEN obj[s] ELSE [obj[s] EXCEPT !.push = push]
     IN /\ shared' = IF Is(s, {"social"}) THEN push ELSE shared
        /\ IF Is(s, {"invitation"})
           THEN \E v \in {obj[s].verified, TRUE} :
                  WriteFile(u, [base EXCEPT !.force = TRUE, !.verified = v])
           ELSE IF push = None THEN UNCHANGED account ELSE WriteFile(u, base)
        /\ Answer(s, Is(s, {"invitation"}) \/ push # None)
  /\ Finish(s)
  /\ UNCHANGED <<doc, sessionVars, failVars, invites, faults, provided>>

(***************************************************************************)
(* handle_failed_login_attempt                                             *)
(***************************************************************************)
ReadCount(s) ==
  /\ At(s, "count")
  /\ LET u == Target(s) IN
       /\ fails' = [fails EXCEPT ![u] = @ + 1]
       /\ IF attempts[u] + 1 >= MaxFailed /\ ~obj[s].active
          THEN Finish(s)
          ELSE /\ count' = [count EXCEPT ![s] = attempts[u]]
               /\ Continue(s, "put")
               /\ UNCHANGED <<job, obj>>
  /\ UNCHANGED <<account, doc, sessionVars, attempts, outdated, uncleared, invites, shared,
                 issued, faults, provided>>

\* Fault: the user is locked out by the failure after the last one allowed.
PutCountOver(s) ==
  /\ At(s, "put")
  /\ LET u == Target(s) IN
       /\ attempts' = [attempts EXCEPT ![u] = count[s] + 1]
       /\ uncleared' = IF s \in outdated THEN uncleared \cup {u} ELSE uncleared
  /\ outdated' = outdated \ {s}
  /\ IF count[s] + 1 > MaxFailed
     THEN Continue(s, "lock_out") /\ UNCHANGED <<job, obj, count>>
     ELSE Finish(s)
  /\ UNCHANGED <<account, doc, sessionVars, fails, invites, shared, issued, faults, provided>>

PutCount(s) ==
  /\ At(s, "put")
  /\ LET u == Target(s) IN
       /\ attempts' = [attempts EXCEPT ![u] = count[s] + 1]
       /\ uncleared' = IF s \in outdated THEN uncleared \cup {u} ELSE uncleared
  /\ outdated' = outdated \ {s}
  /\ IF count[s] + 1 >= MaxFailed
     THEN Continue(s, "lock_out") /\ UNCHANGED <<job, obj, count>>
     ELSE Finish(s)
  /\ UNCHANGED <<account, doc, sessionVars, fails, invites, shared, issued, faults, provided>>

LockOut(s) ==
  /\ At(s, "lock_out")
  /\ WriteFile(Target(s), [obj[s] EXCEPT !.active = FALSE])
  /\ Finish(s)
  /\ UNCHANGED <<doc, sessionVars, failVars, invites, shared, issued, faults, provided>>

(***************************************************************************)
(* JWTBearer and what comes after it                                       *)
(***************************************************************************)
\* Fault: the key of the other kind of session is asked.
CheckUserSession(s) ==
  /\ At(s, "check")
  /\ IF session[Target(s)]
     THEN Continue(s, "renew") /\ UNCHANGED <<job, obj, count>>
     ELSE Finish(s)
  /\ UNCHANGED <<account, doc, sessionVars, failVars, invites, shared, issued, faults, provided>>

\* The token is verified against the hash in the key: it has the same 72 bytes as any other
\* token of the user, so that it is right if there is a key.
Check(s) ==
  /\ At(s, "check")
  /\ IF active[Target(s)]
     THEN Continue(s, "renew") /\ UNCHANGED <<job, obj, count>>
     ELSE Finish(s)
  /\ UNCHANGED <<account, doc, sessionVars, failVars, invites, shared, issued, faults, provided>>

\* The bearer's set_active_session
Renew(s) ==
  /\ At(s, "renew")
  /\ SetActive(Target(s))
  /\ Continue(s, "session")
  /\ UNCHANGED <<account, doc, session, ended, within, failVars, invites, shared, issued, job, obj, count,
                 faults, provided>>

\* Any session of the user will do.
CheckSession(s) ==
  /\ At(s, "session")
  /\ IF session[Target(s)]
     THEN /\ Continue(s, CASE Is(s, {"visit"}) -> "inside"
                           [] Is(s, {"logout"}) -> "drop_active"
                           [] OTHER -> "load")
          /\ UNCHANGED <<job, obj, count>>
     ELSE Finish(s)
  /\ UNCHANGED <<account, doc, sessionVars, failVars, invites, shared, issued, faults, provided>>

\* Whatever a request does that changes nothing here
Serve(s) ==
  /\ At(s, "inside")
  /\ Finish(s)
  /\ UNCHANGED <<account, doc, sessionVars, failVars, invites, shared, issued, faults, provided>>

\* remove_active_session: in logout, in delete_account, and in the update that
\* deactivates a user, which does nothing else to sessions
DropActive(s) ==
  /\ At(s, "drop_active")
  /\ EndActive(Target(s))
  /\ IF Is(s, {"disable"}) THEN Finish(s)
     ELSE Continue(s, "drop_session") /\ UNCHANGED <<job, obj, count>>
  /\ UNCHANGED <<account, doc, session, failVars, invites, shared, issued, faults, provided>>

DropSession(s) ==
  /\ At(s, "drop_session")
  /\ session' = [session EXCEPT ![Target(s)] = FALSE]
  /\ IF Is(s, {"delete"}) THEN Finish(s)
     ELSE Continue(s, "load") /\ UNCHANGED <<job, obj, count>>
  /\ UNCHANGED <<account, doc, active, ended, within, failVars, invites, shared, issued,
                 faults, provided>>

\* Fault: logging out keeps the push token.
ChangedKeepPush(s) ==
  CASE Is(s, {"reset"})   -> [obj[s] EXCEPT !.force = TRUE]
    [] Is(s, {"disable"}) -> [obj[s] EXCEPT !.active = FALSE]
    [] Is(s, {"enable"})  -> [obj[s] EXCEPT !.active = TRUE]
    [] Is(s, {"delete"})  -> Gone
    [] OTHER -> obj[s]

\* What each handler makes of the copy it loaded
Changed(s) ==
  CASE Is(s, {"logout"})  -> [obj[s] EXCEPT !.push = None]
    [] Is(s, {"reset"})   -> [obj[s] EXCEPT !.force = TRUE]
    [] Is(s, {"disable"}) -> [obj[s] EXCEPT !.active = FALSE]
    [] Is(s, {"enable"})  -> [obj[s] EXCEPT !.active = TRUE]
    [] Is(s, {"delete"})  -> Gone
    [] OTHER -> obj[s]

\* db.update or db.delete.  A profile may be refused here, its count being cleared.
Write(s) ==
  /\ At(s, "write")
  /\ \/ /\ account[Target(s)].there
        /\ WriteFile(Target(s), Changed(s))
        /\ IF Is(s, {"profile", "enable"}) THEN Finish(s)
           ELSE /\ obj' = [obj EXCEPT ![s] = Changed(s)]
                /\ Continue(s, IF Is(s, {"logout", "reset"}) THEN "sync" ELSE "drop_active")
                /\ UNCHANGED <<job, count>>
     \/ /\ ~account[Target(s)].there \/ Is(s, {"profile"})
        /\ Finish(s)
        /\ UNCHANGED account
  /\ UNCHANGED <<doc, sessionVars, failVars, invites, shared, issued, faults, provided>>

\* The end of internal_sys_update_model: save_meta_doc of the copy
Sync(s) ==
  /\ At(s, "sync")
  /\ doc' = IF Watched(Target(s)) THEN [doc EXCEPT ![Target(s)] = obj[s]] ELSE doc
  /\ IF Is(s, {"logout"}) THEN Finish(s)
     ELSE Continue(s, "invite") /\ UNCHANGED <<job, obj, count>>
  /\ UNCHANGED <<account, sessionVars, failVars, invites, shared, issued, faults, provided>>

\* store_user_invitation_token
StoreInvitation(u) ==
  \E i \in 1..MaxInvites \ invites[u] : invites' = [invites EXCEPT ![u] = @ \cup {i}]

\* The link that is sent to who has forgotten the password, and to who was reset, unless
\* the address is verified.
Invite(s) ==
  /\ At(s, "invite")
  /\ IF Is(s, {"reset"}) /\ obj[s].verified THEN UNCHANGED invites
     ELSE StoreInvitation(Target(s))
  /\ Finish(s)
  /\ UNCHANGED <<account, doc, sessionVars, failVars, shared, issued, faults, provided>>

(***************************************************************************)
(* What else happens                                                       *)
(***************************************************************************)
\* The hook of an update, or create_index, brings the document up to date.
Index(u) ==
  /\ Watched(u) /\ doc[u] # account[u]
  /\ doc' = [doc EXCEPT ![u] = account[u]]
  /\ UNCHANGED <<settings, account, sessionVars, failVars, invites, shared, issued, pc, job, obj,
                 count, countVars, companyVars, provided>>

\* session_inactivity_ttl runs out.
Expire(u) ==
  /\ faults < MaxFaults
  /\ faults' = faults + 1
  /\ \/ active[u] /\ EndActive(u) /\ UNCHANGED <<session, mixed>>
     \/ /\ session[u] /\ session' = [session EXCEPT ![u] = FALSE]
        /\ mixed' = mixed \cup {u}
        /\ UNCHANGED <<active, ended, within>>
  /\ UNCHANGED <<settings, account, doc, failVars, invites, shared, issued, pc, job, obj, count,
                 served, alone, streak, provided>>

\* The worker is restarted: its requests are gone, and the dict is empty again.
Restart ==
  /\ faults < MaxFaults
  /\ \E s \in Slots : pc[s] # "idle"
  /\ faults' = faults + 1
  /\ pc' = [s \in Slots |-> "idle"] /\ job' = [s \in Slots |-> None]
  /\ obj' = [s \in Slots |-> Gone] /\ count' = [s \in Slots |-> 0]
  /\ shared' = None
  /\ alone' = {} /\ outdated' = {}
  /\ LET broken == {job[s].user : s \in {x \in Slots : pc[x] # "idle"}} IN
       /\ mixed' = mixed \cup broken
       /\ streak' = [u \in Users |-> IF u \in broken THEN 0 ELSE streak[u]]
  /\ UNCHANGED <<settings, account, doc, sessionVars, attempts, fails, uncleared, invites, issued,
                 served, provided>>

Step(s) ==
  \/ Fetch(s) \/ Search(s) \/ Load(s) \/ Clear(s) \/ Sign(s) \/ Activate(s) \/ Update(s)
  \/ ReadCount(s) \/ PutCount(s) \/ LockOut(s)
  \/ Check(s) \/ Renew(s) \/ CheckSession(s) \/ Serve(s) \/ DropActive(s) \/ DropSession(s)
  \/ Write(s) \/ Sync(s) \/ Invite(s)

Next ==
  \/ \E s \in Slots : Arrive(s) \/ Step(s)
  \/ \E u \in Users : Index(u) \/ Expire(u)
  \/ Restart

Spec == Init /\ [][Next]_vars

(***************************************************************************)
(* Properties                                                              *)
(***************************************************************************)
\* With one session per user, a session that has ended -- by logout, deactivation, deletion
\* or time -- is not there again until the next login, whatever tokens are still about --
\* unless, when it ended, a request of the user was between the bearer's check and the
\* bearer's renewal.
EndedStaysEnded == oneSession => \A u \in ended \ within : ~active[u]

\* max_failed_login_attempts failures in a row, none of which had company and none of
\* which was followed by anything else, leave the user deactivated.
LockoutHolds == \A u \in Users : streak[u] >= MaxFailed => ~account[u].active

\* The count that locks a user out is not above the failures since it was cleared, unless
\* a clear fell between the read and the write of a failing login, which undid it.
AttemptsFair == \A u \in Users : u \notin uncleared => attempts[u] <= fails[u]

\* Notifications for a user go to a device of that user, unless both this user and the
\* owner of the device have logged in through a provider: no other login, logout or
\* update carries a push token from one user's file to another's.
PushHome ==
  \A u \in Users : account[u].push \notin {u, None} => {u, account[u].push} \subseteq provided

\* When a user has no session, notifications go nowhere: login and logout keep the key in
\* Redis and the field in the file together, if requests of the user do not overlap.
PushEndsWithSession ==
  \A u \in Users : /\ ~session[u] /\ u \notin mixed
                   /\ \A s \in Slots : pc[s] # "idle" => Target(s) # u
                   => account[u].push = None
=============================================================================
