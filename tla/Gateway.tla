------------------------------ MODULE Gateway ------------------------------
(***************************************************************************)
(* NotificationsGateway: which sockets are registered for which user while *)
(* sockets connect, are authenticated, send messages and go away, and whom *)
(* sendToUser reaches.                                                     *)
(*                                                                         *)
(* A handler runs to its next await.  Only handleConnection has one, the   *)
(* token check: the socket may close, and its messages are already         *)
(* dispatched, while the check is pending.  Of socket.io the model keeps   *)
(* what the gateway relies on: a closed socket is in no room and joins     *)
(* none, and emitting to a room reaches the sockets in it.                 *)
(***************************************************************************)
CONSTANTS
  Sockets,        \* socket ids, each used for one connection
  Users, Teams, Companies,
  CompanyOf,      \* companyId of a user's token, or NoCompany
  Notifications,  \* the notifications sendToUser is called with, each once
  Target,         \* in [Notifications -> Users]: notification.userId
  NoCompany,
  Undefined       \* payload.id: a token has a sub and no id

VARIABLES
  link,     \* the transport: none, up, dropped (closed during its check), down
  check,    \* the token check: none, pending, passed, failed
  user,     \* the sub of the socket's token
  known,    \* the keys of userSockets
  sockets,  \* the values of userSockets ({} where there is no key)
  rooms,    \* the rooms of each socket
  sent,     \* notifications sendToUser was called for
  inbox     \* what each socket received

vars == <<link, check, user, known, sockets, rooms, sent, inbox>>

Keys  == Users \cup {Undefined}

UserRoom(k)    == <<"user", k>>
TeamRoom(t)    == <<"team", t>>
CompanyRoom(c) == <<"company", c>>
Rooms == {UserRoom(k) : k \in Keys} \cup {TeamRoom(t) : t \in Teams}
         \cup {CompanyRoom(c) : c \in Companies}

Up(s) == link[s] = "up"

Init ==
  /\ link = [s \in Sockets |-> "none"]
  /\ check = [s \in Sockets |-> "none"]
  /\ user \in [Sockets -> Users]
  /\ known = {}
  /\ sockets = [k \in Keys |-> {}]
  /\ rooms = [s \in Sockets |-> {}]
  /\ sent = {}
  /\ inbox = [s \in Sockets |-> {}]

\* The map's entry for k gets the socket, and is created for it if need be.
AddSocket(k, s) ==
  /\ known' = known \cup {k}
  /\ sockets' = [sockets EXCEPT ![k] = @ \cup {s}]

\* client.join, which does nothing once the socket is closed.
Join(s, rs) == rooms' = [rooms EXCEPT ![s] = IF Up(s) THEN @ \cup rs ELSE @]

\* Mistaken variants, here and below: plausible slips for the properties to
\* notice.
Unregister_WholeUser(s) ==
  LET gone == {k \in Keys : s \in sockets[k]} IN
  /\ sockets' = [k \in Keys |-> IF k \in gone THEN {} ELSE sockets[k]]
  /\ known' = known \ gone

Unregister_FirstEntryOnly(s) ==
  /\ sockets' = [k \in Keys |-> IF k = Undefined THEN sockets[k] ELSE sockets[k] \ {s}]
  /\ known' = known \ {k \in Users : sockets[k] = {s}}

\* handleDisconnect: the socket leaves every entry, an empty entry leaves the map.
Unregister(s) ==
  /\ sockets' = [k \in Keys |-> sockets[k] \ {s}]
  /\ known' = known \ {k \in Keys : sockets[k] = {s}}

----------------------------------------------------------------------------
\* handleConnection up to the token check.
Connect(s) ==
  /\ link[s] = "none"
  /\ link' = [link EXCEPT ![s] = "up"]
  /\ check' = [check EXCEPT ![s] = "pending"]
  /\ UNCHANGED <<user, known, sockets, rooms, sent, inbox>>

\* No token in the handshake: the socket is closed at once.
ConnectWithoutToken(s) ==
  /\ link[s] = "none"
  /\ link' = [link EXCEPT ![s] = "down"]
  /\ UNCHANGED <<check, user, known, sockets, rooms, sent, inbox>>

\* The token is valid: register, whether or not the socket is still there.
Authenticate(s) ==
  /\ check[s] = "pending"
  /\ check' = [check EXCEPT ![s] = "passed"]
  /\ AddSocket(user[s], s)
  /\ Join(s, {UserRoom(user[s])}
             \cup {CompanyRoom(c) : c \in {CompanyOf[user[s]]} \ {NoCompany}})
  /\ UNCHANGED <<link, user, sent, inbox>>

\* It is not: disconnect, which runs handleDisconnect on an open socket.
Reject(s) ==
  /\ check[s] = "pending"
  /\ check' = [check EXCEPT ![s] = "failed"]
  /\ \/ /\ Up(s)
        /\ link' = [link EXCEPT ![s] = "down"]
        /\ rooms' = [rooms EXCEPT ![s] = {}]
        /\ Unregister(s)
     \/ /\ ~Up(s)
        /\ UNCHANGED <<link, known, sockets, rooms>>
  /\ UNCHANGED <<user, sent, inbox>>

\* The client goes away or its connection breaks.
Close(s) ==
  /\ Up(s)
  /\ link' = [link EXCEPT ![s] = IF check[s] = "pending" THEN "dropped" ELSE "down"]
  /\ rooms' = [rooms EXCEPT ![s] = {}]
  /\ Unregister(s)
  /\ UNCHANGED <<check, user, sent, inbox>>

\* A message is handled while the socket is open; before the check has passed
\* there is no client.user and it is answered with "Not authenticated".
MayAct(s) == Up(s) /\ check[s] = "passed"

\* 'register': under authenticatedUser.id, which is undefined.
Register(s) ==
  /\ MayAct(s)
  /\ AddSocket(Undefined, s)
  /\ Join(s, {UserRoom(Undefined)})
  /\ UNCHANGED <<link, check, user, sent, inbox>>

JoinTeam(s, t) ==
  /\ MayAct(s)
  /\ Join(s, {TeamRoom(t)})
  /\ UNCHANGED <<link, check, user, known, sockets, sent, inbox>>

LeaveTeam(s, t) ==
  /\ MayAct(s)
  /\ rooms' = [rooms EXCEPT ![s] = @ \ {TeamRoom(t)}]
  /\ UNCHANGED <<link, check, user, known, sockets, sent, inbox>>

JoinCompany(s, c) ==
  /\ MayAct(s)
  /\ Join(s, {CompanyRoom(c)})
  /\ UNCHANGED <<link, check, user, known, sockets, sent, inbox>>

IsUserConnected(u) == u \in known /\ sockets[u] # {}

SendToUser_Broadcast(n) ==
  /\ n \notin sent
  /\ sent' = sent \cup {n}
  /\ inbox' = [s \in Sockets |-> IF rooms[s] # {} THEN inbox[s] \cup {n} ELSE inbox[s]]
  /\ UNCHANGED <<link, check, user, known, sockets, rooms>>

\* The notification processor has stored the row and calls sendToUser.
SendToUser(n) ==
  LET u == Target[n] IN
  /\ n \notin sent
  /\ sent' = sent \cup {n}
  /\ inbox' = [s \in Sockets |->
                 IF IsUserConnected(u) /\ UserRoom(u) \in rooms[s]
                 THEN inbox[s] \cup {n} ELSE inbox[s]]
  /\ UNCHANGED <<link, check, user, known, sockets, rooms>>

\* The process restarts: the map is a field of the gateway object, and every
\* connection and every pending check is gone.
Restart ==
  /\ link' = [s \in Sockets |-> IF Up(s) THEN "down" ELSE link[s]]
  /\ check' = [s \in Sockets |-> IF check[s] = "pending" THEN "failed" ELSE check[s]]
  /\ known' = {}
  /\ sockets' = [k \in Keys |-> {}]
  /\ rooms' = [s \in Sockets |-> {}]
  /\ UNCHANGED <<user, sent, inbox>>

\* What clients do.
Traffic ==
  \E s \in Sockets :
       \/ Connect(s) \/ ConnectWithoutToken(s) \/ Authenticate(s) \/ Reject(s)
       \/ Close(s) \/ Register(s)
       \/ \E t \in Teams : JoinTeam(s, t) \/ LeaveTeam(s, t)
       \/ \E c \in Companies : JoinCompany(s, c)

Next ==
  \/ Traffic
  \/ \E n \in Notifications : SendToUser(n)
  \/ Restart

Spec == Init /\ [][Next]_vars

----------------------------------------------------------------------------
(* Properties *)

TypeOK ==
  /\ link \in [Sockets -> {"none", "up", "dropped", "down"}]
  /\ check \in [Sockets -> {"none", "pending", "passed", "failed"}]
  /\ user \in [Sockets -> Users]
  /\ known \subseteq Keys
  /\ sockets \in [Keys -> SUBSET Sockets]
  /\ rooms \in [Sockets -> SUBSET Rooms]
  /\ sent \subseteq Notifications
  /\ inbox \in [Sockets -> SUBSET Notifications]

Online(s) == Up(s) /\ check[s] = "passed"

\* A socket that is open and authenticated is registered for its user and in its
\* user's room, whatever the user's other sockets did meanwhile.
OnlineIsRegistered ==
  \A s \in Sockets :
    Online(s) => user[s] \in known /\ s \in sockets[user[s]] /\ UserRoom(user[s]) \in rooms[s]

\* A closed socket stays registered only if it closed while its token was being
\* checked, and then only under its own user.
GhostsDropped ==
  \A s \in Sockets, k \in Keys :
    s \in sockets[k] /\ ~Up(s) => link[s] = "dropped" /\ k = user[s]

PushReachesOnline ==
  \A n \in sent' \ sent, s \in Sockets :
    Online(s) /\ user[s] = Target[n] => n \in inbox'[s]

\* sendToUser reaches every socket of the user that is online then ...
ReachesOnline == [][PushReachesOnline]_vars

\* ... and never a socket of somebody else, whatever it registered or joined.
OnlyItsUser == \A s \in Sockets : \A n \in inbox[s] : Target[n] = user[s]
=============================================================================
