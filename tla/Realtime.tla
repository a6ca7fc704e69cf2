------------------------------ MODULE Realtime ------------------------------
(***************************************************************************)
(* The WebSocket server of real-time updates.  A connection has a task     *)
(* that accepts it, registers it for its user and then reads its messages: *)
(* subscribe and unsubscribe.  A change of an entry makes a worker post    *)
(* the channels that the change may be of interest to, and a task sends    *)
(* the message to the subscribers of each, one after the other, walking a  *)
(* list that the other tasks change while it waits for a send.             *)
(*                                                                         *)
(* No name here is one of Campaign, so that a module can extend both.      *)
(***************************************************************************)
EXTENDS Naturals, FiniteSets, Sequences

Seqs == INSTANCE SequencesExt

CONSTANTS
  Users,
  Absent,          \* no user, no connection, no channel
  Sockets,       \* connections
  Schemas, Acts, \* schemas of entries and actions on them
  Subpaths,      \* paths of entries: sequences of names
  Wanted,        \* the channels that clients ask for
  Posts,         \* broadcasts
  MaxAsks        \* bound on the messages of clients

All == "__ALL__"

\* A client names what it is interested in, __ALL__ stands for what it leaves out.
Folders == UNION {{SubSeq(p, 1, n) : n \in 1..Len(p)} : p \in Subpaths}
Channels == [subpath : Folders, schema : Schemas \cup {All}, action : Acts \cup {All}]
Events == [subpath : Subpaths, schema : Schemas, action : Acts]

ASSUME NamesAssumption == Absent \notin Users \cup Sockets \cup Wanted
ASSUME ChannelAssumption == Wanted \subseteq Channels
ASSUME AsksAssumption == MaxAsks \in Nat
ASSUME UsersAssumption == IsFiniteSet(Users)

VARIABLES
  active,      \* active_connections: the connection of a user
  subs,        \* channels: the subscribers of a channel, in order
  owner,       \* whose connection it is
  place,       \* where the task of a connection stands
  alive,       \* the connections whose client is there
  asks,        \* messages of clients
  post,        \* where the task of a broadcast stands
  rest,        \* the channels it has still to go to
  chan, next,  \* the channel it is at, and the place in its list it comes to
  got,         \* history: how often a broadcast was sent on a connection
  steady,      \* history: connections that were subscribed when it began and still are
  skipped,     \* history: users whom it missed, since the list moved under it
  shadowed     \* history: connections of a user who had another at the same time

socketVars == <<active, owner, place, alive, asks, shadowed>>
walkVars == <<post, rest, chan, next, got>>
serverVars == <<socketVars, subs, walkVars, steady, skipped>>

Subscriptions(u) ==
  {p \in Wanted \X (1..Cardinality(Users)) : p[2] <= Len(subs[p[1]]) /\ subs[p[1]][p[2]] = u}

\* Beyond the types: a user has one subscription at most.
ServerTypeOK ==
  /\ active \in [Users -> Sockets \cup {Absent}]
  /\ subs \in [Wanted -> Seq(Users)]
  /\ \A u \in Users : Cardinality(Subscriptions(u)) <= 1
  /\ \A c \in Wanted : Len(subs[c]) <= Cardinality(Users)
  /\ owner \in [Sockets -> Users \cup {Absent}]
  /\ place \in [Sockets -> {"new", "accept", "hello", "loop", "end"}]
  /\ \A u \in Users : active[u] # Absent => owner[active[u]] = u
  /\ \A s \in Sockets : place[s] # "new" => owner[s] \in Users
  /\ alive \subseteq Sockets /\ shadowed \subseteq Sockets
  /\ asks \in 0..MaxAsks
  /\ post \in [Posts -> {"idle", "walk", "done", "failed"}]
  /\ rest \in [Posts -> SUBSET Wanted]
  /\ chan \in [Posts -> Wanted \cup {Absent}]
  /\ next \in [Posts -> 1..(Cardinality(Users) + 1)]
  /\ got \in [Posts -> [Sockets -> 0..2]]
  /\ steady \in [Posts -> SUBSET Sockets]
  /\ skipped \in [Posts -> SUBSET Users]

ServerInit ==
  /\ active = [u \in Users |-> Absent]
  /\ subs = [c \in Wanted |-> <<>>]
  /\ owner = [s \in Sockets |-> Absent] /\ place = [s \in Sockets |-> "new"]
  /\ alive = {} /\ shadowed = {} /\ asks = 0
  /\ post = [b \in Posts |-> "idle"] /\ rest = [b \in Posts |-> {}]
  /\ chan = [b \in Posts |-> Absent] /\ next = [b \in Posts |-> 1]
  /\ got = [b \in Posts |-> [s \in Sockets |-> 0]]
  /\ steady = [b \in Posts |-> {}] /\ skipped = [b \in Posts |-> {}]

(***************************************************************************)
(* Connections                                                             *)
(***************************************************************************)
\* The connections of user u are not what they were when the broadcasts began.
Unsettle(u) == steady' = [b \in Posts |-> {s \in steady[b] : owner[s] # u}]

Connect(s, u) ==
  /\ place[s] = "new"
  /\ owner' = [owner EXCEPT ![s] = u]
  /\ place' = [place EXCEPT ![s] = "accept"]
  /\ alive' = alive \cup {s}
  /\ LET same == {x \in Sockets : owner[x] = u /\ place[x] \notin {"new", "end"}}
     IN shadowed' = shadowed \cup same \cup (IF same = {} THEN {} ELSE {s})
  /\ UNCHANGED <<active, asks, subs, walkVars, steady, skipped>>

\* Fault: a connection is registered unless the user has one.
RegisterFirst(s) ==
  /\ place[s] = "accept"
  /\ active' = IF active[owner[s]] = Absent THEN [active EXCEPT ![owner[s]] = s] ELSE active
  /\ place' = [place EXCEPT ![s] = "hello"]
  /\ Unsettle(owner[s])
  /\ UNCHANGED <<owner, alive, asks, shadowed, subs, walkVars, skipped>>

\* The connection is accepted and takes the place of the one its user has.
Register(s) ==
  /\ place[s] = "accept"
  /\ active' = [active EXCEPT ![owner[s]] = s]
  /\ place' = [place EXCEPT ![s] = "hello"]
  /\ Unsettle(owner[s])
  /\ UNCHANGED <<owner, alive, asks, shadowed, subs, walkVars, skipped>>

\* The task goes on to read messages when it has confirmed the connection, if that does
\* not raise: it is not yet where a lost connection is caught.
Hello(s) ==
  /\ place[s] = "hello"
  /\ \E l \in {"loop", "end"} :
       /\ s \in alive => l = "loop"
       /\ place' = [place EXCEPT ![s] = l]
  /\ UNCHANGED <<active, owner, alive, asks, shadowed, subs, walkVars, steady, skipped>>

\* The client goes, or the network does.
Drop(s) ==
  /\ s \in alive
  /\ alive' = alive \ {s}
  /\ steady' = [b \in Posts |-> steady[b] \ {s}]
  /\ UNCHANGED <<active, owner, place, asks, shadowed, subs, walkVars, skipped>>

\* The task learns of it and removes what is registered for its user, whether it is this
\* connection or another one.  If there is nothing that raises, and the task ends as well.
\* The subscription stays.
Disconnect(s) ==
  /\ place[s] = "loop" /\ s \notin alive
  /\ active' = [active EXCEPT ![owner[s]] = Absent]
  /\ place' = [place EXCEPT ![s] = "end"]
  /\ Unsettle(owner[s])
  /\ UNCHANGED <<owner, alive, asks, shadowed, subs, walkVars, skipped>>

(***************************************************************************)
(* Messages of clients                                                     *)
(***************************************************************************)
\* A user leaves every list: list.remove takes the first place he has in it.
Without(u) == [c \in Wanted |-> Seqs!RemoveFirst(subs[c], u)]

\* Users whom broadcast b misses when u leaves a list that it walks: the one who comes
\* next moves to the place before.
Missed(b, u) ==
  IF chan[b] = Absent \/ post[b] # "walk" THEN {}
  ELSE LET list == subs[chan[b]]
       IN IF next[b] <= Len(list) /\ \E i \in 1..(next[b] - 1) : list[i] = u
          THEN {list[next[b]]} ELSE {}

\* What every message of a client does before it has an effect.  The task looks its user
\* up by its connection, and that raises if the connection is not registered any more: the
\* task ends, the server closes the connection.
Ask(s, known) ==
  /\ place[s] = "loop" /\ s \in alive /\ asks < MaxAsks
  /\ asks' = asks + 1
  /\ Unsettle(owner[s])
  /\ IF known
     THEN skipped' = [b \in Posts |-> skipped[b] \cup Missed(b, owner[s])] /\ UNCHANGED <<place, alive>>
     ELSE place' = [place EXCEPT ![s] = "end"] /\ alive' = alive \ {s} /\ UNCHANGED skipped
  /\ UNCHANGED <<active, owner, shadowed, walkVars>>

Registered(s) == active[owner[s]] = s

Subscribe(s, c) ==
  /\ Ask(s, Registered(s))
  /\ subs' = IF Registered(s) THEN [Without(owner[s]) EXCEPT ![c] = Append(@, owner[s])] ELSE subs

Unsubscribe(s) ==
  /\ Ask(s, Registered(s))
  /\ subs' = IF Registered(s) THEN Without(owner[s]) ELSE subs

\* A message that is not JSON raises too.
BadMessage(s) == Ask(s, FALSE) /\ UNCHANGED subs

(***************************************************************************)
(* Broadcasts                                                              *)
(***************************************************************************)
\* The channels an event is posted to: those of its folder and of the folders above it,
\* each with what the event has or __ALL__ in every place.
Named(e) ==
  [subpath : {SubSeq(e.subpath, 1, n) : n \in 1..Len(e.subpath)},
   schema : {e.schema, All}, action : {e.action, All}]

Post(b, e) ==
  /\ post[b] = "idle"
  /\ post' = [post EXCEPT ![b] = "walk"]
  /\ rest' = [rest EXCEPT ![b] = Named(e) \cap Wanted]
  /\ steady' = [steady EXCEPT ![b] = {s \in alive : place[s] = "loop" /\ Registered(s) /\
                  \E c \in Named(e) \cap Wanted : \E i \in DOMAIN subs[c] : subs[c][i] = owner[s]}]
  /\ UNCHANGED <<socketVars, subs, chan, next, got, skipped>>

\* Fault: the walk of a list ends at a subscriber who is not connected.
AheadConnected(c, from) ==
  {i \in from..Len(subs[c]) : \A j \in from..i : active[subs[c][j]] # Absent}

\* Who comes next in a list: subscribers who are not connected are gone over in passing.
Ahead(c, from) == {i \in from..Len(subs[c]) : active[subs[c][i]] # Absent}

Here(b) == IF chan[b] = Absent THEN {} ELSE Ahead(chan[b], next[b])

\* A message is sent; other tasks run until it is.  On a connection whose client is gone
\* it is lost, or the send raises and the broadcast is over.
SendTo(b, c, places) ==
  LET i == CHOOSE i \in places : \A j \in places : i <= j
      s == active[subs[c][i]]
  IN /\ chan' = [chan EXCEPT ![b] = c]
     /\ next' = [next EXCEPT ![b] = i + 1]
     /\ got' = IF s \in alive /\ got[b][s] < 2 THEN [got EXCEPT ![b][s] = @ + 1] ELSE got
     /\ \E l \in {"walk", "failed"} :
          /\ s \in alive => l = "walk"
          /\ post' = [post EXCEPT ![b] = l]

SendNext(b) ==
  /\ post[b] = "walk" /\ Here(b) # {}
  /\ SendTo(b, chan[b], Here(b))
  /\ UNCHANGED <<socketVars, subs, rest, steady, skipped>>

\* The channels come in the order of a set.  Those before c have nobody to send to.
SendFirst(b, c, before) ==
  /\ post[b] = "walk" /\ Here(b) = {}
  /\ c \in rest[b] /\ before \subseteq rest[b] \ {c}
  /\ \A d \in before : Ahead(d, 1) = {}
  /\ Ahead(c, 1) # {}
  /\ SendTo(b, c, Ahead(c, 1))
  /\ rest' = [rest EXCEPT ![b] = @ \ (before \cup {c})]
  /\ UNCHANGED <<socketVars, subs, steady, skipped>>

Finish(b) ==
  /\ post[b] = "walk" /\ Here(b) = {}
  /\ \A c \in rest[b] : Ahead(c, 1) = {}
  /\ post' = [post EXCEPT ![b] = "done"]
  /\ UNCHANGED <<socketVars, subs, rest, chan, next, got, steady, skipped>>

ServerNext ==
  \/ \E s \in Sockets :
       \/ \E u \in Users : Connect(s, u)
       \/ Register(s) \/ Hello(s) \/ Drop(s) \/ Disconnect(s)
       \/ \E c \in Wanted : Subscribe(s, c)
       \/ Unsubscribe(s) \/ BadMessage(s)
  \/ \E b \in Posts :
       \/ \E e \in Events : Post(b, e)
       \/ SendNext(b)
       \/ \E c \in rest[b] : \E before \in SUBSET (rest[b] \ {c}) : SendFirst(b, c, before)
       \/ Finish(b)

ServerSpec == ServerInit /\ [][ServerNext]_serverVars

(***************************************************************************)
(* Properties                                                              *)
(***************************************************************************)
\* A broadcast that comes to its end has gone once to every connection that was there,
\* registered and subscribed, from its beginning on -- but not to a user whom it missed,
\* because somebody before him in the list left it meanwhile.
Delivered ==
  \A b \in Posts : post[b] = "done" =>
    \A s \in steady[b] : got[b][s] = IF owner[s] \in skipped[b] THEN 0 ELSE 1

\* A connection whose messages are read is the registered one of its user, unless the user
\* had another connection at the same time: then one that ends takes the registration of
\* the other with it, and it hears nothing more although it is open.
Reachable ==
  \A s \in Sockets : place[s] = "loop" /\ s \notin shadowed => Registered(s)
=============================================================================
