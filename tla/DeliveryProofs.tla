--------------------------- MODULE DeliveryProofs ---------------------------
(***************************************************************************)
(* Theorems about Delivery, and with it about the Gateway inside it, for   *)
(* any sockets, users, teams, companies, jobs and numbers of attempts.     *)
(***************************************************************************)
EXTENDS Delivery, FiniteSetTheorems, TLAPS

(* The gateway *)

\* A user's room holds open sockets of the user only.
OwnRooms ==
  \A s \in Sockets :
    /\ \A u \in Users : Hub!UserRoom(u) \in rooms[s] => u = user[s]
    /\ ~ Hub!Up(s) => rooms[s] = {}

\* The token of a socket is checked while the socket is open, or was closed meanwhile;
\* one that has not connected has received nothing.
Checks ==
  \A s \in Sockets :
    /\ check[s] = "pending" => link[s] \in {"up", "dropped"}
    /\ link[s] = "none" => inbox[s] = {}

HubInv ==
  /\ Hub!TypeOK /\ OwnRooms /\ Checks
  /\ Hub!GhostsDropped /\ Hub!OnlyItsUser /\ Hub!OnlineIsRegistered

(* The queue, the handler and the lists *)

Live == {"none", "ready", "running", "delayed"}

\* A handler that is under way is that of a running job; a job that may run again has
\* an attempt and a stall left.
Runs ==
  \A j \in Jobs :
    /\ step[j] # "idle" => stage[j] = "running"
    /\ stage[j] \in Live => tries[j] < Attempts /\ deaths[j] <= MaxStalls

\* What was pushed is stored; a handler about to push has stored its row, one about to
\* return has pushed it, and so has a job that is done.
Ordered ==
  /\ \A n \in sent : row[n] # "none"
  /\ \A j \in Jobs :
       /\ step[j] = "pushing" => row[Notice(j)] # "none"
       /\ step[j] = "returning" => Notice(j) \in sent
       /\ stage[j] = "done" => \E n \in sent : n[1] = j

\* A client that has listed is online since, and has what was pushed to its user.
Current ==
  \A s \in Sockets :
    listed[s] # NotYet =>
      /\ Hub!Online(s)
      /\ \A n \in sent : Addressee[n[1]] = user[s] => n \in listed[s] \cup inbox[s]

Told(s, j) == {n \in inbox[s] : n[1] = j}

\* The push of a run whose end was heard of, or still may be.
Heard(j) == IF step[j] = "returning" \/ stage[j] = "done" THEN 1 ELSE 0

\* An open socket got one push of a job per lost end, and one for the run that was
\* heard of; a restart that takes another run takes the socket as well.
Counted ==
  \A s \in Sockets, j \in Jobs :
    /\ Cardinality(Told(s, j)) <= lostEnds[j] + 1
    /\ Hub!Up(s) => Cardinality(Told(s, j)) <= lostEnds[j] + Heard(j)

Inv == TypeOK /\ HubInv /\ Runs /\ Ordered /\ Current /\ Counted

----------------------------------------------------------------------------
(* The gateway's steps *)

\* A user's room is nobody else's, and neither a team's nor a company's.
LEMMA RoomFacts ==
  /\ \A k, l : Hub!UserRoom(k) = Hub!UserRoom(l) => k = l
  /\ \A k, t : Hub!UserRoom(k) # Hub!TeamRoom(t) /\ Hub!UserRoom(k) # Hub!CompanyRoom(t)
  /\ \A k \in Hub!Keys : Hub!UserRoom(k) \in Hub!Rooms
  /\ \A t \in Teams : Hub!TeamRoom(t) \in Hub!Rooms
  /\ \A c \in Companies : Hub!CompanyRoom(c) \in Hub!Rooms
  /\ Users \subseteq Hub!Keys /\ Undefined \in Hub!Keys /\ Undefined \notin Users
  BY UndefinedAssumption
  DEF Hub!UserRoom, Hub!TeamRoom, Hub!CompanyRoom, Hub!Rooms, Hub!Keys

\* handleConnection: a new socket is in no room and no entry, so only its own state is
\* new.
LEMMA ConnectHub ==
  ASSUME HubInv, NEW s \in Sockets, Hub!Connect(s) \/ Hub!ConnectWithoutToken(s)
  PROVE  HubInv'
  <1>1. /\ UNCHANGED <<user, known, sockets, rooms, sent, inbox>>
        /\ link[s] = "none"
        /\ \/ link' = [link EXCEPT ![s] = "up"] /\ check' = [check EXCEPT ![s] = "pending"]
           \/ link' = [link EXCEPT ![s] = "down"] /\ check' = check
    BY DEF Hub!Connect, Hub!ConnectWithoutToken
  <1>2. \A t \in Sockets : t # s => link'[t] = link[t] /\ check'[t] = check[t]
    BY <1>1 DEF HubInv, Hub!TypeOK
  <1>3. /\ link'[s] \in {"up", "down"}
        /\ link'[s] = "up" => check'[s] = "pending"
        /\ check'[s] = "pending" => link'[s] = "up"
    BY <1>1 DEF HubInv, Hub!TypeOK, Checks
  <1>4. Hub!TypeOK'
    BY <1>1 DEF HubInv, Hub!TypeOK
  <1>5. \A k \in Hub!Keys : s \notin sockets[k]
    BY <1>1 DEF HubInv, Hub!GhostsDropped, Hub!Up
  <1>6. OwnRooms' /\ Checks' /\ Hub!OnlyItsUser' /\ Hub!OnlineIsRegistered'
    BY <1>1, <1>2, <1>3
    DEF HubInv, OwnRooms, Checks, Hub!Up, Hub!OnlyItsUser, Hub!OnlineIsRegistered, Hub!Online
  <1>7. Hub!GhostsDropped'
    BY <1>1, <1>2, <1>5 DEF HubInv, Hub!GhostsDropped, Hub!Up
  <1> QED
    BY <1>4, <1>6, <1>7 DEF HubInv

\* The continuation of checkToken: the socket joins its own user's room and entry,
\* open or not.
LEMMA AuthenticateHub ==
  ASSUME HubInv, NEW s \in Sockets, Hub!Authenticate(s)
  PROVE  HubInv'
  <1> DEFINE u == user[s]
             rs == {Hub!UserRoom(u)}
                   \cup {Hub!CompanyRoom(c) : c \in {CompanyOf[u]} \ {NoCompany}}
  <1>1. /\ UNCHANGED <<link, user, sent, inbox>>
        /\ check[s] = "pending" /\ check' = [check EXCEPT ![s] = "passed"]
        /\ known' = known \cup {u} /\ sockets' = [sockets EXCEPT ![u] = @ \cup {s}]
        /\ rooms' = [rooms EXCEPT ![s] = IF Hub!Up(s) THEN @ \cup rs ELSE @]
        /\ u \in Users /\ u \in Hub!Keys
    BY RoomFacts DEF Hub!Authenticate, Hub!AddSocket, Hub!Join, HubInv, Hub!TypeOK
  <1>2. /\ rs \subseteq Hub!Rooms /\ Hub!UserRoom(u) \in rs
        /\ \A v \in Users : Hub!UserRoom(v) \in rs => v = u
    BY <1>1, RoomFacts, CompanyAssumption
  <1> HIDE DEF rs
  <1>3. /\ \A t \in Sockets : rooms'[t] = IF t = s /\ Hub!Up(s) THEN rooms[s] \cup rs
                                          ELSE rooms[t]
        /\ \A t \in Sockets : check'[t] = IF t = s THEN "passed" ELSE check[t]
        /\ \A k \in Hub!Keys : sockets'[k] = IF k = u THEN sockets[u] \cup {s} ELSE sockets[k]
    BY <1>1 DEF HubInv, Hub!TypeOK
  <1>4. Hub!TypeOK'
    BY <1>1, <1>2, <1>3 DEF HubInv, Hub!TypeOK
  <1>5. OwnRooms' /\ Checks' /\ Hub!OnlyItsUser'
    BY <1>1, <1>2, <1>3 DEF HubInv, OwnRooms, Checks, Hub!Up, Hub!OnlyItsUser
  <1>6. Hub!GhostsDropped'
    BY <1>1, <1>3 DEF HubInv, Checks, Hub!GhostsDropped, Hub!Up
  <1>7. Hub!OnlineIsRegistered'
    BY <1>1, <1>2, <1>3 DEF HubInv, Hub!OnlineIsRegistered, Hub!Online, Hub!Up, Hub!TypeOK
  <1> QED
    BY <1>4, <1>5, <1>6, <1>7 DEF HubInv

\* A socket that goes leaves every entry and every room; the others keep theirs.
LEMMA UnregisterHub ==
  ASSUME HubInv, NEW s \in Sockets, Hub!Unregister(s), UNCHANGED <<user, sent, inbox>>,
         rooms' = [rooms EXCEPT ![s] = {}],
         link' \in [Sockets -> {"none", "up", "dropped", "down"}],
         check' \in [Sockets -> {"none", "pending", "passed", "failed"}],
         \A t \in Sockets : t # s => link'[t] = link[t] /\ check'[t] = check[t],
         link'[s] \in {"dropped", "down"}, check'[s] = "pending" => link'[s] = "dropped"
  PROVE  HubInv'
  <1>1. /\ \A k \in Hub!Keys : sockets'[k] = sockets[k] \ {s}
        /\ known' = known \ {k \in Hub!Keys : sockets[k] = {s}}
        /\ \A t \in Sockets : rooms'[t] = IF t = s THEN {} ELSE rooms[t]
    BY DEF Hub!Unregister, HubInv, Hub!TypeOK
  <1>2. Hub!TypeOK'
    BY DEF Hub!Unregister, HubInv, Hub!TypeOK
  <1>3. OwnRooms' /\ Checks' /\ Hub!OnlyItsUser' /\ Hub!GhostsDropped'
    BY <1>1 DEF HubInv, OwnRooms, Checks, Hub!Up, Hub!OnlyItsUser, Hub!GhostsDropped
  <1>4. Hub!OnlineIsRegistered'
    <2>1. \A t \in Sockets : user[t] \in Hub!Keys
      BY RoomFacts DEF HubInv, Hub!TypeOK
    <2> QED
      BY <1>1, <2>1 DEF HubInv, Hub!OnlineIsRegistered, Hub!Online, Hub!Up
  <1> QED
    BY <1>2, <1>3, <1>4 DEF HubInv

\* handleDisconnect: the socket leaves its rooms and whatever entry holds it.
LEMMA CloseHub ==
  ASSUME HubInv, NEW s \in Sockets, Hub!Close(s)
  PROVE  HubInv'
  <1>1. /\ Hub!Unregister(s) /\ UNCHANGED <<check, user, sent, inbox>>
        /\ rooms' = [rooms EXCEPT ![s] = {}]
        /\ link' = [link EXCEPT ![s] = IF check[s] = "pending" THEN "dropped" ELSE "down"]
    BY DEF Hub!Close
  <1>2. /\ link' \in [Sockets -> {"none", "up", "dropped", "down"}]
        /\ check' \in [Sockets -> {"none", "pending", "passed", "failed"}]
        /\ \A t \in Sockets : t # s => link'[t] = link[t] /\ check'[t] = check[t]
        /\ link'[s] \in {"dropped", "down"}
        /\ check'[s] = "pending" => link'[s] = "dropped"
    BY <1>1 DEF HubInv, Hub!TypeOK
  <1> QED
    BY <1>1, <1>2, UnregisterHub

\* A refused token disconnects the socket, which was in no room yet.
LEMMA RejectHub ==
  ASSUME HubInv, NEW s \in Sockets, Hub!Reject(s)
  PROVE  HubInv'
  <1>1. /\ check[s] = "pending" /\ check' = [check EXCEPT ![s] = "failed"]
        /\ UNCHANGED <<user, sent, inbox>>
    BY DEF Hub!Reject
  <1>2. /\ check' \in [Sockets -> {"none", "pending", "passed", "failed"}]
        /\ \A t \in Sockets : check'[t] = IF t = s THEN "failed" ELSE check[t]
    BY <1>1 DEF HubInv, Hub!TypeOK
  <1>3. CASE /\ link' = [link EXCEPT ![s] = "down"]
             /\ rooms' = [rooms EXCEPT ![s] = {}]
             /\ Hub!Unregister(s)
    <2>1. /\ link' \in [Sockets -> {"none", "up", "dropped", "down"}]
          /\ \A t \in Sockets : t # s => link'[t] = link[t]
          /\ link'[s] = "down"
      BY <1>3 DEF HubInv, Hub!TypeOK
    <2> QED
      BY <1>1, <1>2, <1>3, <2>1, UnregisterHub
  <1>4. CASE UNCHANGED <<link, known, sockets, rooms>>
    <2>1. Hub!TypeOK'
      BY <1>1, <1>2, <1>4 DEF HubInv, Hub!TypeOK
    <2>2. OwnRooms' /\ Checks' /\ Hub!OnlyItsUser' /\ Hub!GhostsDropped'
      BY <1>1, <1>2, <1>4
      DEF HubInv, OwnRooms, Checks, Hub!Up, Hub!OnlyItsUser, Hub!GhostsDropped
    <2>3. Hub!OnlineIsRegistered'
      BY <1>1, <1>2, <1>4 DEF HubInv, Hub!OnlineIsRegistered, Hub!Online, Hub!Up
    <2> QED
      BY <2>1, <2>2, <2>3 DEF HubInv
  <1> QED
    BY <1>3, <1>4 DEF Hub!Reject

\* 'register' adds an entry and a room that are no user's.
LEMMA RegisterHub ==
  ASSUME HubInv, NEW s \in Sockets, Hub!Register(s)
  PROVE  HubInv'
  <1> DEFINE room == Hub!UserRoom(Undefined)
  <1>1. /\ UNCHANGED <<link, check, user, sent, inbox>> /\ Hub!Up(s)
        /\ known' = known \cup {Undefined}
        /\ sockets' = [sockets EXCEPT ![Undefined] = @ \cup {s}]
        /\ rooms' = [rooms EXCEPT ![s] = @ \cup {room}]
    BY DEF Hub!Register, Hub!AddSocket, Hub!Join, Hub!MayAct
  <1>2. /\ room \in Hub!Rooms /\ Undefined \in Hub!Keys /\ Undefined \notin Users
        /\ \A v \in Users : Hub!UserRoom(v) # room
    BY RoomFacts
  <1> HIDE DEF room
  <1>3. /\ \A t \in Sockets : rooms'[t] = IF t = s THEN rooms[s] \cup {room} ELSE rooms[t]
        /\ \A k \in Hub!Keys :
             sockets'[k] = IF k = Undefined THEN sockets[k] \cup {s} ELSE sockets[k]
    BY <1>1 DEF HubInv, Hub!TypeOK
  <1>4. Hub!TypeOK'
    BY <1>1, <1>2 DEF HubInv, Hub!TypeOK
  <1>5. OwnRooms' /\ Checks' /\ Hub!OnlyItsUser'
    BY <1>1, <1>2, <1>3 DEF HubInv, OwnRooms, Checks, Hub!Up, Hub!OnlyItsUser
  <1>6. Hub!GhostsDropped'
    BY <1>1, <1>3 DEF HubInv, Hub!GhostsDropped, Hub!Up
  <1>7. Hub!OnlineIsRegistered'
    <2>1. \A t \in Sockets : user[t] \in Users /\ user[t] \in Hub!Keys
      BY RoomFacts DEF HubInv, Hub!TypeOK
    <2> QED
      BY <1>1, <1>2, <1>3, <2>1 DEF HubInv, Hub!OnlineIsRegistered, Hub!Online, Hub!Up
  <1> QED
    BY <1>4, <1>5, <1>6, <1>7 DEF HubInv

\* An open socket joins or leaves a room that is no user's.
LEMMA RoomHub ==
  ASSUME HubInv, NEW s \in Sockets, Hub!Up(s), NEW room \in Hub!Rooms,
         \A v \in Users : Hub!UserRoom(v) # room,
         \/ rooms' = [rooms EXCEPT ![s] = @ \cup {room}]
         \/ rooms' = [rooms EXCEPT ![s] = @ \ {room}],
         UNCHANGED <<link, check, user, known, sockets, sent, inbox>>
  PROVE  HubInv'
  <1>1. /\ Hub!TypeOK' /\ rooms'[s] \in {rooms[s] \cup {room}, rooms[s] \ {room}}
        /\ \A t \in Sockets : t # s => rooms'[t] = rooms[t]
    BY DEF HubInv, Hub!TypeOK
  <1>2. \A t \in Sockets, v \in Users :
          Hub!UserRoom(v) \in rooms'[t] <=> Hub!UserRoom(v) \in rooms[t]
    BY <1>1
  <1>3. OwnRooms' /\ Checks' /\ Hub!OnlyItsUser' /\ Hub!GhostsDropped'
    BY <1>1, <1>2 DEF HubInv, OwnRooms, Checks, Hub!Up, Hub!OnlyItsUser, Hub!GhostsDropped
  <1>4. Hub!OnlineIsRegistered'
    <2>1. \A t \in Sockets : user[t] \in Users
      BY DEF HubInv, Hub!TypeOK
    <2> QED
      BY <1>2, <2>1 DEF HubInv, Hub!OnlineIsRegistered, Hub!Online, Hub!Up
  <1> QED
    BY <1>1, <1>3, <1>4 DEF HubInv

\* No message of a client brings a socket into the room of another user.
LEMMA TrafficHub ==
  ASSUME HubInv, Hub!Traffic
  PROVE  HubInv'
  <1> PICK s \in Sockets :
        \/ Hub!Connect(s) \/ Hub!ConnectWithoutToken(s) \/ Hub!Authenticate(s)
        \/ Hub!Reject(s) \/ Hub!Close(s) \/ Hub!Register(s)
        \/ \E t \in Teams : Hub!JoinTeam(s, t) \/ Hub!LeaveTeam(s, t)
        \/ \E c \in Companies : Hub!JoinCompany(s, c)
    BY DEF Hub!Traffic
  <1>1. CASE \E t \in Teams : Hub!JoinTeam(s, t) \/ Hub!LeaveTeam(s, t)
    BY <1>1, RoomHub, RoomFacts DEF Hub!JoinTeam, Hub!LeaveTeam, Hub!MayAct, Hub!Join
  <1>2. CASE \E c \in Companies : Hub!JoinCompany(s, c)
    BY <1>2, RoomHub, RoomFacts DEF Hub!JoinCompany, Hub!MayAct, Hub!Join
  <1> QED
    BY <1>1, <1>2, ConnectHub, AuthenticateHub, RejectHub, CloseHub, RegisterHub

\* sendToUser delivers to the sockets in the user's room, and to all that are online.
LEMMA SendHub ==
  ASSUME HubInv, NEW n \in Notices, Hub!SendToUser(n)
  PROVE  /\ HubInv'
         /\ UNCHANGED <<link, check, user, known, sockets, rooms>>
         /\ n \notin sent /\ sent' = sent \cup {n}
         /\ \A s \in Sockets :
              /\ inbox'[s] = inbox[s] \/ (Hub!Up(s) /\ inbox'[s] = inbox[s] \cup {n})
              /\ Hub!Online(s) /\ user[s] = Addressee[n[1]] => n \in inbox'[s]
  <1> DEFINE u == Addressee[n[1]]
  <1>1. /\ UNCHANGED <<link, check, user, known, sockets, rooms>>
        /\ n \notin sent /\ sent' = sent \cup {n}
        /\ inbox' = [s \in Sockets |->
                       IF Hub!IsUserConnected(u) /\ Hub!UserRoom(u) \in rooms[s]
                       THEN inbox[s] \cup {n} ELSE inbox[s]]
    BY DEF Hub!SendToUser
  <1>2. u \in Users
    BY AddresseeAssumption DEF Notices
  <1>3. Hub!TypeOK'
    BY <1>1 DEF HubInv, Hub!TypeOK
  <1>4. \A s \in Sockets :
          /\ inbox'[s] = inbox[s] \/ (Hub!Up(s) /\ user[s] = u /\ inbox'[s] = inbox[s] \cup {n})
          /\ Hub!Online(s) /\ user[s] = u => n \in inbox'[s]
    BY <1>1, <1>2
    DEF HubInv, OwnRooms, Hub!OnlineIsRegistered, Hub!IsUserConnected, Hub!Up, Hub!Online
  <1>5. HubInv'
    <2>1. Hub!OnlyItsUser'
      BY <1>1, <1>4 DEF HubInv, Hub!OnlyItsUser
    <2>2. Checks'
      BY <1>1, <1>4 DEF HubInv, Checks, Hub!Up
    <2>3. OwnRooms' /\ Hub!GhostsDropped' /\ Hub!OnlineIsRegistered'
      BY <1>1 DEF HubInv, OwnRooms, Hub!Up, Hub!GhostsDropped, Hub!OnlineIsRegistered,
                  Hub!Online
    <2> QED
      BY <1>3, <2>1, <2>2, <2>3 DEF HubInv
  <1> QED
    BY <1>1, <1>4, <1>5

\* A restart empties registry and rooms together, and no socket stays open.
LEMMA RestartHub ==
  ASSUME HubInv, Hub!Restart
  PROVE  HubInv' /\ UNCHANGED <<user, sent, inbox>> /\ \A s \in Sockets : ~ Hub!Up(s)'
  <1>1. /\ UNCHANGED <<user, sent, inbox>>
        /\ \A s \in Sockets : /\ link'[s] = IF Hub!Up(s) THEN "down" ELSE link[s]
                              /\ check'[s] = IF check[s] = "pending" THEN "failed" ELSE check[s]
                              /\ rooms'[s] = {}
        /\ \A k \in Hub!Keys : sockets'[k] = {}
    BY DEF Hub!Restart
  <1>2. Hub!TypeOK'
    BY DEF Hub!Restart, HubInv, Hub!TypeOK
  <1>3. \A s \in Sockets : ~ Hub!Up(s)'
    BY <1>1 DEF Hub!Up
  <1>4. OwnRooms' /\ Checks' /\ Hub!OnlyItsUser' /\ Hub!GhostsDropped' /\ Hub!OnlineIsRegistered'
    BY <1>1, <1>3 DEF HubInv, OwnRooms, Checks, Hub!Up, Hub!OnlyItsUser, Hub!GhostsDropped,
                      Hub!OnlineIsRegistered, Hub!Online
  <1> QED
    BY <1>1, <1>2, <1>3, <1>4 DEF HubInv

\* What clients do sends nothing; a socket that is open was open or is new, and one that
\* was online and is open is online.
LEMMA TrafficEffect ==
  ASSUME HubInv, Hub!Traffic
  PROVE  /\ UNCHANGED <<user, sent, inbox>>
         /\ \A s \in Sockets :
              /\ link'[s] = "up" => link[s] \in {"up", "none"}
              /\ Hub!Online(s) /\ link'[s] = "up" => Hub!Online(s)'
  <1> PICK s \in Sockets :
        \/ Hub!Connect(s) \/ Hub!ConnectWithoutToken(s) \/ Hub!Authenticate(s)
        \/ Hub!Reject(s) \/ Hub!Close(s) \/ Hub!Register(s)
        \/ \E t \in Teams : Hub!JoinTeam(s, t) \/ Hub!LeaveTeam(s, t)
        \/ \E c \in Companies : Hub!JoinCompany(s, c)
    BY DEF Hub!Traffic
  <1>1. UNCHANGED <<user, sent, inbox>>
    BY DEF Hub!Connect, Hub!ConnectWithoutToken, Hub!Authenticate, Hub!Reject, Hub!Close,
       Hub!Register, Hub!JoinTeam, Hub!LeaveTeam, Hub!JoinCompany
  <1>2. CASE Hub!Connect(s) \/ Hub!ConnectWithoutToken(s)
    BY <1>1, <1>2 DEF Hub!Connect, Hub!ConnectWithoutToken, HubInv, Hub!TypeOK, Hub!Online, Hub!Up
  <1>3. CASE Hub!Authenticate(s) \/ Hub!Reject(s) \/ Hub!Close(s)
    BY <1>1, <1>3
    DEF Hub!Authenticate, Hub!Reject, Hub!Close, HubInv, Hub!TypeOK, Hub!Online, Hub!Up
  <1>4. CASE UNCHANGED <<link, check>>
    BY <1>1, <1>4 DEF Hub!Online, Hub!Up
  <1> QED
    BY <1>2, <1>3, <1>4 DEF Hub!Register, Hub!JoinTeam, Hub!LeaveTeam, Hub!JoinCompany

----------------------------------------------------------------------------
(* The queue's steps and the handler's *)

\* A step that leaves the gateway alone keeps what holds of it.
LEMMA HubSame ==
  ASSUME HubInv, UNCHANGED hub
  PROVE  HubInv' /\ UNCHANGED <<link, check, user, known, sockets, rooms, sent, inbox>>
  BY DEF hub, HubInv, Hub!TypeOK, OwnRooms, Checks, Hub!Up, Hub!OnlyItsUser,
         Hub!GhostsDropped, Hub!OnlineIsRegistered, Hub!Online

\* The row of a run that is under way is one of the job's.
LEMMA NoticeType ==
  ASSUME TypeOK, Runs, NEW j \in Jobs, step[j] # "idle"
  PROVE  Notice(j) \in Notices /\ Notice(j)[1] = j
  <1>1. tries[j] \in Nat /\ deaths[j] \in Nat /\ tries[j] < Attempts /\ deaths[j] <= MaxStalls
    BY DEF TypeOK, Runs, Live
  <1> QED
    BY <1>1, AttemptsAssumption DEF Notice, Notices, MaxRuns

\* A client gets finitely many notifications of a job.
LEMMA ToldFinite ==
  ASSUME NEW j \in Jobs, NEW S \in SUBSET Notices
  PROVE  IsFiniteSet({n \in S : n[1] = j})
  <1> DEFINE runs == {j} \X (1..MaxRuns)
             T == {n \in S : n[1] = j}
  <1>1. MaxRuns \in Int
    BY AttemptsAssumption DEF MaxRuns
  <1>2. IsFiniteSet(runs)
    <2>1. IsFiniteSet(1..MaxRuns)
      BY <1>1, FS_Interval
    <2>2. IsFiniteSet({j})
      BY FS_Singleton
    <2> QED
      BY <2>1, <2>2, FS_Product
  <1>3. T \in SUBSET runs
    BY DEF Notices
  <1> HIDE DEF runs, T
  <1>4. IsFiniteSet(T)
    BY <1>2, <1>3, FS_Subset
  <1> QED
    BY <1>4 DEF T

\* The part of a step that touches neither the gateway nor the lists.
LEMMA OffStage ==
  ASSUME Inv, UNCHANGED <<hub, listed>>, TypeOK', Runs', Ordered',
         \A j \in Jobs : /\ lostEnds[j] <= lostEnds'[j]
                         /\ lostEnds[j] + Heard(j) <= lostEnds'[j] + Heard(j)'
  PROVE  Inv'
  <1>1. HubInv' /\ UNCHANGED <<link, check, user, known, sockets, rooms, sent, inbox>>
    BY HubSame DEF Inv
  <1>2. Current'
    BY <1>1 DEF Inv, Current, Hub!Online, Hub!Up
  <1>3. Counted'
    <2> SUFFICES ASSUME NEW s \in Sockets, NEW j \in Jobs
                 PROVE  /\ Cardinality(Told(s, j)) <= lostEnds'[j] + 1
                        /\ Hub!Up(s) => Cardinality(Told(s, j)) <= lostEnds'[j] + Heard(j)'
      BY <1>1 DEF Counted, Told, Hub!Up
    <2>1. /\ Cardinality(Told(s, j)) \in Nat
          /\ lostEnds[j] \in Nat /\ lostEnds'[j] \in Nat
          /\ Heard(j) \in Nat /\ Heard(j)' \in Nat
      BY ToldFinite, FS_CardinalityType DEF Inv, TypeOK, Hub!TypeOK, HubInv, Told, Heard
    <2>2. /\ Cardinality(Told(s, j)) <= lostEnds[j] + 1
          /\ Hub!Up(s) => Cardinality(Told(s, j)) <= lostEnds[j] + Heard(j)
      BY DEF Inv, Counted
    <2> QED
      BY <2>1, <2>2
  <1> QED
    BY <1>1, <1>2, <1>3 DEF Inv

\* Adding, retrying and starting a job moves the job only; no handler is under way
\* yet.
LEMMA AddRetryStartInv ==
  ASSUME Inv, NEW j \in Jobs, AddJob(j) \/ Retry(j) \/ StartJob(j)
  PROVE  Inv'
  <1>1. /\ UNCHANGED <<hub, row, listed, lostEnds, tries, deaths>>
        /\ step[j] = "idle" /\ step'[j] \in {"idle", "inserting"}
        /\ step'[j] # "idle" => stage'[j] = "running"
        /\ stage[j] \in Live /\ stage[j] # "done" /\ stage'[j] \in {"ready", "running"}
        /\ stage' = [stage EXCEPT ![j] = stage'[j]]
        /\ step' = [step EXCEPT ![j] = step'[j]]
    <2>1. CASE AddJob(j) \/ Retry(j)
      <3>1. stage[j] # "running"
        BY <2>1 DEF AddJob, Retry, Pool!Put, Pool!Due, Pool!Moves
      <3>2. step[j] = "idle"
        BY <3>1 DEF Inv, Runs
      <3> QED
        BY <2>1, <3>2
        DEF AddJob, Retry, Pool!Put, Pool!Due, Pool!Moves, Live, Inv, TypeOK
    <2>2. CASE StartJob(j)
      BY <2>2 DEF StartJob, Pool!Start, Pool!Moves, Goto, Live, Inv, TypeOK
    <2> QED
      BY <2>1, <2>2
  <1>2. \A k \in Jobs : /\ k # j => stage'[k] = stage[k] /\ step'[k] = step[k]
                        /\ tries'[k] = tries[k] /\ deaths'[k] = deaths[k]
    BY <1>1 DEF Inv, TypeOK
  <1>3. TypeOK'
    BY <1>1, HubSame DEF Inv, HubInv, TypeOK, Steps, Pool!Stages
  <1>4. Runs'
    BY <1>1, <1>2 DEF Inv, Runs, Live
  <1>5. Ordered'
    <2>1. sent' = sent /\ row' = row
      BY <1>1, HubSame DEF Inv
    <2>2. \A k \in Jobs : Notice(k)' = Notice(k)
      BY <1>2 DEF Notice
    <2> QED
      BY <1>1, <1>2, <2>1, <2>2 DEF Inv, Ordered
  <1>6. \A k \in Jobs : Heard(k)' = Heard(k)
    BY <1>1, <1>2 DEF Heard
  <1>7. \A k \in Jobs : lostEnds'[k] = lostEnds[k] /\ lostEnds[k] \in Nat /\ Heard(k) \in Nat
    BY <1>1 DEF Inv, TypeOK, Heard
  <1> QED
    BY <1>1, <1>3, <1>4, <1>5, <1>6, <1>7, OffStage

\* The insert stores the row of the run, before anything is pushed.
LEMMA InsertInv ==
  ASSUME Inv, NEW j \in Jobs, Insert(j)
  PROVE  Inv'
  <1> DEFINE n == Notice(j)
  <1>1. /\ UNCHANGED <<hub, stage, tries, deaths, listed, lostEnds>>
        /\ step[j] = "inserting" /\ step' = [step EXCEPT ![j] = "pushing"]
        /\ row' = [row EXCEPT ![n] = "unread"]
        /\ n \in Notices
    BY NoticeType DEF Insert, Stores, Goto, pool, Inv
  <1>2. \A k \in Jobs : /\ Notice(k)' = Notice(k)
                        /\ step'[k] = IF k = j THEN "pushing" ELSE step[k]
    BY <1>1 DEF Notice, Inv, TypeOK
  <1>3. \A m \in Notices : row'[m] = IF m = n THEN "unread" ELSE row[m]
    BY <1>1 DEF Inv, TypeOK
  <1>4. TypeOK'
    BY <1>1, HubSame DEF Inv, HubInv, TypeOK, Steps
  <1>5. Runs'
    BY <1>1, <1>2 DEF Inv, Runs
  <1>6. Ordered'
    <2>1. sent' = sent /\ sent \subseteq Notices
      BY <1>1, HubSame DEF Inv, HubInv, Hub!TypeOK
    <2>2. \A m \in sent : row'[m] # "none"
      BY <1>3, <2>1 DEF Inv, Ordered
    <2>3. \A k \in Jobs : step'[k] = "pushing" => row'[Notice(k)] # "none"
      <3> SUFFICES ASSUME NEW k \in Jobs, step'[k] = "pushing"
                   PROVE  row'[Notice(k)] # "none"
        OBVIOUS
      <3>1. Notice(k) \in Notices
        BY <1>1, <1>2, NoticeType DEF Inv
      <3> QED
        BY <1>2, <1>3, <3>1 DEF Inv, Ordered
    <2> QED
      BY <1>1, <1>2, <2>1, <2>2, <2>3 DEF Inv, Ordered
  <1>7. \A k \in Jobs : /\ lostEnds'[k] = lostEnds[k] /\ lostEnds[k] \in Nat
                        /\ Heard(k)' = Heard(k) /\ Heard(k) \in Nat
    BY <1>1, <1>2 DEF Inv, TypeOK, Heard
  <1> QED
    BY <1>1, <1>4, <1>5, <1>6, <1>7, OffStage

\* An attempt that failed, or a worker that died, has one less left.
LEMMA FailOrDie ==
  ASSUME Inv, NEW j \in Jobs, step[j] # "idle", Pool!Fail(j) \/ Pool!Die(j),
         step' = [step EXCEPT ![j] = "idle"]
  PROVE  /\ stage' \in [Jobs -> Pool!Stages] /\ step' \in [Jobs -> Steps]
         /\ tries' \in [Jobs -> Nat] /\ deaths' \in [Jobs -> Nat]
         /\ Runs'
         /\ \A k \in Jobs : k # j =>
              /\ stage'[k] = stage[k] /\ step'[k] = step[k]
              /\ Notice(k)' = Notice(k) /\ Heard(k)' = Heard(k)
         /\ stage'[j] # "done" /\ step'[j] = "idle"
  <1>1. stage[j] = "running" /\ tries[j] \in Nat /\ deaths[j] \in Nat /\ Attempts \in Nat
        /\ MaxStalls \in Nat
    BY AttemptsAssumption DEF Inv, Runs, TypeOK
  <1>2. CASE Pool!Fail(j)
    <2>1. /\ tries' = [tries EXCEPT ![j] = @ + 1] /\ deaths' = deaths
          /\ stage' = [stage EXCEPT ![j] = stage'[j]]
          /\ \/ tries[j] + 1 < Attempts /\ stage'[j] = "delayed"
             \/ tries[j] + 1 >= Attempts /\ stage'[j] = "failed"
      BY <1>2 DEF Pool!Fail, Pool!Moves, Inv, TypeOK
    <2> QED
      BY <1>1, <2>1 DEF Inv, TypeOK, Runs, Live, Pool!Stages, Steps, Notice, Heard
  <1>3. CASE Pool!Die(j)
    <2>1. /\ deaths' = [deaths EXCEPT ![j] = @ + 1] /\ tries' = tries
          /\ stage' = [stage EXCEPT ![j] = stage'[j]]
          /\ \/ deaths[j] < MaxStalls /\ stage'[j] = "ready"
             \/ deaths[j] >= MaxStalls /\ stage'[j] = "failed"
      BY <1>3 DEF Pool!Die, Pool!Moves, Inv, TypeOK
    <2> QED
      BY <1>1, <2>1 DEF Inv, TypeOK, Runs, Live, Pool!Stages, Steps, Notice, Heard
  <1> QED
    BY <1>2, <1>3

\* A run that ends short of its job's end leaves its row, if it stored one, and no more.
LEMMA RunEnds ==
  ASSUME Inv, NEW j \in Jobs, step[j] # "idle", Pool!Fail(j) \/ Pool!Die(j),
         step' = [step EXCEPT ![j] = "idle"], sent' = sent,
         Stores(Notice(j)) \/ UNCHANGED row
  PROVE  Ordered' /\ row' \in [Notices -> {"none", "unread", "read"}]
  <1>1. /\ \A k \in Jobs : k # j =>
             /\ stage'[k] = stage[k] /\ step'[k] = step[k] /\ Notice(k)' = Notice(k)
        /\ stage'[j] # "done" /\ step'[j] = "idle"
    BY FailOrDie
  <1>2. Notice(j) \in Notices /\ sent \subseteq Notices
    BY NoticeType DEF Inv, HubInv, Hub!TypeOK
  <1>3. /\ row' \in [Notices -> {"none", "unread", "read"}]
        /\ \A m \in Notices : row[m] # "none" => row'[m] # "none"
    BY <1>2 DEF Stores, Inv, TypeOK
  <1>4. \A k \in Jobs : step[k] # "idle" => Notice(k) \in Notices
    BY NoticeType DEF Inv
  <1> QED
    BY <1>1, <1>2, <1>3, <1>4 DEF Inv, Ordered

\* A failed insert may leave its row; it pushes nothing and spends an attempt.
LEMMA InsertFailsInv ==
  ASSUME Inv, NEW j \in Jobs, InsertFails(j)
  PROVE  Inv'
  <1>1. /\ UNCHANGED <<hub, listed, lostEnds>>
        /\ step[j] = "inserting" /\ step' = [step EXCEPT ![j] = "idle"]
        /\ Stores(Notice(j)) \/ UNCHANGED row
        /\ Pool!Fail(j)
    BY DEF InsertFails, Goto
  <1>2. HubInv' /\ sent' = sent
    BY <1>1, HubSame DEF Inv
  <1>3. Ordered' /\ row' \in [Notices -> {"none", "unread", "read"}]
    BY <1>1, <1>2, RunEnds
  <1>4. TypeOK' /\ Runs'
    BY <1>1, <1>2, <1>3, FailOrDie DEF Inv, HubInv, TypeOK
  <1>5. \A k \in Jobs : Heard(k)' = Heard(k)
    <2>1. Heard(j) = 0 /\ Heard(j)' = 0
      BY <1>1, FailOrDie DEF Heard, Inv, Runs
    <2> QED
      BY <1>1, <2>1, FailOrDie
  <1>6. \A k \in Jobs : lostEnds'[k] = lostEnds[k] /\ lostEnds[k] \in Nat /\ Heard(k) \in Nat
    BY <1>1 DEF Inv, TypeOK, Heard
  <1> QED
    BY <1>1, <1>3, <1>4, <1>5, <1>6, OffStage

\* The end the queue hears of follows the push: the job is done and was told.
LEMMA EndJobInv ==
  ASSUME Inv, NEW j \in Jobs, EndJob(j)
  PROVE  Inv'
  <1>1. /\ UNCHANGED <<hub, row, listed, lostEnds, tries, deaths>>
        /\ step[j] = "returning" /\ step' = [step EXCEPT ![j] = "idle"]
        /\ stage' = [stage EXCEPT ![j] = "done"]
    BY DEF EndJob, Goto, Pool!Finish, Pool!Moves
  <1>2. \A k \in Jobs : /\ Notice(k)' = Notice(k)
                        /\ step'[k] = IF k = j THEN "idle" ELSE step[k]
                        /\ stage'[k] = IF k = j THEN "done" ELSE stage[k]
    BY <1>1 DEF Notice, Inv, TypeOK
  <1>3. TypeOK'
    BY <1>1, HubSame DEF Inv, HubInv, TypeOK, Steps, Pool!Stages
  <1>4. Runs'
    BY <1>1, <1>2 DEF Inv, Runs, Live
  <1>5. Ordered'
    <2>1. sent' = sent
      BY <1>1, HubSame DEF Inv
    <2>2. Notice(j) \in sent /\ Notice(j)[1] = j
      BY <1>1, NoticeType DEF Inv, Ordered
    <2> QED
      BY <1>1, <1>2, <2>1, <2>2 DEF Inv, Ordered
  <1>6. \A k \in Jobs : /\ lostEnds'[k] = lostEnds[k] /\ lostEnds[k] \in Nat
                        /\ Heard(k)' = Heard(k) /\ Heard(k) \in Nat
    BY <1>1, <1>2 DEF Inv, TypeOK, Heard
  <1> QED
    BY <1>1, <1>3, <1>4, <1>5, <1>6, OffStage

\* A lost end is counted, so that the next run may push once more.
LEMMA EndIsLostInv ==
  ASSUME Inv, NEW j \in Jobs, EndIsLost(j)
  PROVE  Inv'
  <1>1. /\ UNCHANGED <<hub, row, listed>>
        /\ step[j] = "returning" /\ step' = [step EXCEPT ![j] = "idle"]
        /\ lostEnds' = [lostEnds EXCEPT ![j] = @ + 1]
        /\ Pool!Die(j)
    BY DEF EndIsLost, Goto
  <1>2. HubInv' /\ sent' = sent
    BY <1>1, HubSame DEF Inv
  <1>3. Ordered' /\ row' \in [Notices -> {"none", "unread", "read"}]
    BY <1>1, <1>2, RunEnds
  <1>4. TypeOK' /\ Runs'
    <2>1. lostEnds' \in [Jobs -> Nat] /\ listed' = listed
      BY <1>1 DEF Inv, TypeOK
    <2>2. listed' \in [Sockets -> (SUBSET Notices) \cup {NotYet}]
      BY <2>1 DEF Inv, TypeOK
    <2> QED
      BY <1>1, <1>2, <1>3, <2>1, <2>2, FailOrDie DEF HubInv, TypeOK
  <1>5. \A k \in Jobs : k # j => Heard(k)' = Heard(k) /\ lostEnds'[k] = lostEnds[k]
    BY <1>1, FailOrDie DEF Inv, TypeOK
  <1>6. /\ \A k \in Jobs : lostEnds[k] \in Nat /\ Heard(k) \in {0, 1} /\ Heard(k)' \in {0, 1}
        /\ lostEnds'[j] = lostEnds[j] + 1
    BY <1>1 DEF Inv, TypeOK, Heard
  <1> QED
    BY <1>1, <1>3, <1>4, <1>5, <1>6, OffStage

----------------------------------------------------------------------------
(* The steps that touch the gateway or the lists *)

\* The push reaches every online socket of its user, so those that have listed stay up
\* to date.
LEMMA PushInv ==
  ASSUME Inv, NEW j \in Jobs, Push(j)
  PROVE  Inv'
  <1> DEFINE n == Notice(j)
  <1>1. /\ UNCHANGED <<stage, tries, deaths, row, listed, lostEnds>>
        /\ step[j] = "pushing" /\ step' = [step EXCEPT ![j] = "returning"]
        /\ Hub!SendToUser(n) /\ n \in Notices /\ n[1] = j
    BY NoticeType DEF Push, Goto, pool, Inv
  <1>2. /\ HubInv'
        /\ UNCHANGED <<link, check, user, known, sockets, rooms>>
        /\ n \notin sent /\ sent' = sent \cup {n}
        /\ \A s \in Sockets :
             /\ inbox'[s] = inbox[s] \/ (Hub!Up(s) /\ inbox'[s] = inbox[s] \cup {n})
             /\ Hub!Online(s) /\ user[s] = Addressee[n[1]] => n \in inbox'[s]
    BY <1>1, SendHub DEF Inv
  <1>3. \A k \in Jobs : /\ Notice(k)' = Notice(k)
                        /\ step'[k] = IF k = j THEN "returning" ELSE step[k]
    BY <1>1 DEF Notice, Inv, TypeOK
  <1>4. TypeOK'
    BY <1>1, <1>2 DEF Inv, HubInv, TypeOK, Steps
  <1>5. Runs'
    BY <1>1, <1>3 DEF Inv, Runs
  <1>6. Ordered'
    BY <1>1, <1>2, <1>3 DEF Inv, Ordered
  <1>7. Current'
    BY <1>1, <1>2 DEF Inv, Current, Hub!Online, Hub!Up
  <1>8. Counted'
    <2> SUFFICES ASSUME NEW s \in Sockets, NEW k \in Jobs
                 PROVE  /\ Cardinality(Told(s, k)') <= lostEnds[k] + 1
                        /\ Hub!Up(s) => Cardinality(Told(s, k)') <= lostEnds[k] + Heard(k)'
      BY <1>1, <1>2 DEF Counted, Hub!Up
    <2>1. IsFiniteSet(Told(s, k)) /\ Cardinality(Told(s, k)) \in Nat
      <3>1. inbox[s] \in SUBSET Notices
        BY DEF Inv, HubInv, Hub!TypeOK
      <3>2. IsFiniteSet(Told(s, k))
        BY <3>1, ToldFinite DEF Told
      <3> QED
        BY <3>2, FS_CardinalityType
    <2>2. /\ Cardinality(Told(s, k)) <= lostEnds[k] + 1
          /\ Hub!Up(s) => Cardinality(Told(s, k)) <= lostEnds[k] + Heard(k)
          /\ lostEnds[k] \in Nat
      BY DEF Inv, Counted, TypeOK
    <2>3. CASE Told(s, k)' = Told(s, k)
      <3>1. Heard(k) <= Heard(k)' /\ Heard(k) \in Nat /\ Heard(k)' \in Nat
        BY <1>1, <1>3 DEF Heard, Inv, Runs
      <3> QED
        BY <2>1, <2>2, <2>3, <3>1
    <2>4. CASE Told(s, k)' # Told(s, k)
      <3>1. Hub!Up(s) /\ inbox'[s] = inbox[s] \cup {n} /\ k = j
        BY <1>1, <1>2, <2>4 DEF Told
      <3>2. Told(s, k)' = Told(s, k) \cup {n}
        BY <1>1, <3>1 DEF Told
      <3>3. Cardinality(Told(s, k)') <= Cardinality(Told(s, k)) + 1
            /\ Cardinality(Told(s, k)') \in Nat
        BY <2>1, <3>2, FS_AddElement
      <3>4. Heard(k) = 0 /\ Heard(k)' = 1
        BY <1>1, <1>3, <3>1 DEF Heard, Inv, Runs
      <3> QED
        BY <2>1, <2>2, <3>1, <3>3, <3>4
    <2> QED
      BY <2>3, <2>4
  <1> QED
    BY <1>2, <1>4, <1>5, <1>6, <1>7, <1>8 DEF Inv

\* A restart takes the sockets with the runs: nobody is left who was told already.
LEMMA RestartInv ==
  ASSUME Inv, Restart
  PROVE  Inv'
  <1>1. /\ HubInv' /\ UNCHANGED <<user, sent, inbox, lostEnds>>
        /\ \A s \in Sockets : ~ Hub!Up(s)' /\ listed'[s] = NotYet
    BY RestartHub DEF Restart, Inv
  <1>2. Current' /\ Counted' /\ listed' \in [Sockets -> (SUBSET Notices) \cup {NotYet}]
    <2>1. listed' = [s \in Sockets |-> NotYet]
      BY DEF Restart
    <2> QED
      BY <1>1, <2>1 DEF Inv, Current, Counted, Told
  <1>3. CASE UNCHANGED <<pool, step, row>>
    <2>1. UNCHANGED <<stage, tries, deaths, step, row>>
      BY <1>3 DEF pool
    <2>2. TypeOK'
      BY <1>1, <1>2, <2>1 DEF Inv, HubInv, TypeOK
    <2>3. Runs' /\ Ordered'
      BY <1>1, <2>1 DEF Inv, Runs, Ordered, Notice
    <2> QED
      BY <1>1, <1>2, <2>2, <2>3 DEF Inv
  <1>4. ASSUME NEW j \in Jobs, step[j] # "idle", Pool!Die(j),
               step' = [step EXCEPT ![j] = "idle"],
               Stores(Notice(j)) \/ UNCHANGED row
        PROVE  Inv'
    <2>1. Ordered' /\ row' \in [Notices -> {"none", "unread", "read"}]
      BY <1>1, <1>4, RunEnds
    <2>2. TypeOK' /\ Runs'
      <3>1. lostEnds' \in [Jobs -> Nat]
        BY <1>1 DEF Inv, TypeOK
      <3> QED
        BY <1>1, <1>2, <1>4, <2>1, <3>1, FailOrDie DEF HubInv, TypeOK
    <2> QED
      BY <1>1, <1>2, <2>1, <2>2 DEF Inv
  <1> QED
    BY <1>3, <1>4 DEF Restart, Goto

\* What clients do moves no job, and who is not online any more has not listed.
LEMMA TrafficInv ==
  ASSUME Inv, Traffic
  PROVE  Inv'
  <1>1. /\ HubInv' /\ UNCHANGED <<user, sent, inbox, stage, tries, deaths, step, row, lostEnds>>
        /\ \A s \in Sockets :
             /\ link'[s] = "up" => link[s] \in {"up", "none"}
             /\ Hub!Online(s) /\ link'[s] = "up" => Hub!Online(s)'
             /\ listed'[s] = IF link'[s] = "up" THEN listed[s] ELSE NotYet
    BY TrafficHub, TrafficEffect DEF Traffic, pool, Kept, Inv
  <1>2. TypeOK'
    <2>1. listed' = [s \in Sockets |-> listed'[s]]
      BY DEF Traffic, Kept
    <2>2. \A s \in Sockets : listed'[s] \in (SUBSET Notices) \cup {NotYet}
      BY <1>1 DEF Inv, TypeOK
    <2>3. listed' \in [Sockets -> (SUBSET Notices) \cup {NotYet}]
      BY <2>1, <2>2
    <2> QED
      BY <1>1, <2>3 DEF Inv, HubInv, TypeOK
  <1>3. Runs' /\ Ordered'
    BY <1>1 DEF Inv, Runs, Ordered, Notice
  <1>4. Current'
    BY <1>1 DEF Inv, Current
  <1>5. Counted'
    <2> SUFFICES ASSUME NEW s \in Sockets, NEW j \in Jobs
                 PROVE  /\ Cardinality(Told(s, j)) <= lostEnds[j] + 1
                        /\ Hub!Up(s)' => Cardinality(Told(s, j)) <= lostEnds[j] + Heard(j)
      BY <1>1 DEF Counted, Told, Heard
    <2>1. CASE link[s] = "none"
      <3>1. Told(s, j) = {}
        BY <2>1 DEF Told, Inv, HubInv, Checks
      <3>2. Cardinality(Told(s, j)) = 0
        BY <3>1, FS_EmptySet
      <3>3. lostEnds[j] \in Nat /\ Heard(j) \in Nat
        BY DEF Inv, TypeOK, Heard
      <3> QED
        BY <3>2, <3>3
    <2>2. CASE link[s] # "none"
      BY <1>1, <2>2 DEF Inv, Counted, Hub!Up
    <2> QED
      BY <2>1, <2>2
  <1> QED
    BY <1>1, <1>2, <1>3, <1>4, <1>5 DEF Inv

\* The list holds every row, and with it all that was pushed.
LEMMA ListInv ==
  ASSUME Inv, NEW s \in Sockets, List(s)
  PROVE  Inv'
  <1>1. /\ HubInv'
        /\ UNCHANGED <<link, check, user, sent, inbox, stage, tries, deaths, step, row, lostEnds>>
        /\ listed' = [listed EXCEPT ![s] = RowsOf(user[s])] /\ Hub!Online(s)
    BY HubSame DEF List, pool, Inv
  <1>2. TypeOK'
    BY <1>1 DEF Inv, HubInv, TypeOK, RowsOf
  <1>3. Runs' /\ Ordered' /\ Counted'
    BY <1>1 DEF Inv, Runs, Ordered, Notice, Counted, Told, Heard, Hub!Up
  <1>4. \A n \in sent : Addressee[n[1]] = user[s] => n \in RowsOf(user[s])
    BY DEF Inv, Ordered, HubInv, Hub!TypeOK, RowsOf
  <1>5. \A t \in Sockets : listed'[t] = IF t = s THEN RowsOf(user[s]) ELSE listed[t]
    BY <1>1 DEF Inv, TypeOK
  <1>6. Current'
    BY <1>1, <1>4, <1>5 DEF Inv, Current, Hub!Online, Hub!Up
  <1> QED
    BY <1>1, <1>2, <1>3, <1>6 DEF Inv

\* Marking as read keeps the row.
LEMMA MarkAsReadInv ==
  ASSUME Inv, NEW s \in Sockets, NEW n \in Notices, MarkAsRead(s, n)
  PROVE  Inv'
  <1>1. /\ UNCHANGED <<hub, listed, stage, tries, deaths, step, lostEnds>>
        /\ row' = [row EXCEPT ![n] = "read"]
    BY DEF MarkAsRead, pool
  <1>2. HubInv' /\ sent' = sent /\ sent \subseteq Notices
    BY <1>1, HubSame DEF Inv, HubInv, Hub!TypeOK
  <1>3. TypeOK'
    BY <1>1, <1>2 DEF Inv, HubInv, TypeOK
  <1>4. \A m \in Notices : row[m] # "none" => row'[m] # "none"
    BY <1>1 DEF Inv, TypeOK
  <1>5. Ordered'
    <2>1. \A k \in Jobs : step[k] # "idle" => Notice(k) \in Notices
      BY NoticeType DEF Inv
    <2>2. \A k \in Jobs : Notice(k)' = Notice(k)
      BY <1>1 DEF Notice
    <2> QED
      BY <1>1, <1>2, <1>4, <2>1, <2>2 DEF Inv, Ordered
  <1>6. Runs'
    BY <1>1 DEF Inv, Runs
  <1>7. \A k \in Jobs : /\ lostEnds'[k] = lostEnds[k] /\ lostEnds[k] \in Nat
                        /\ Heard(k)' = Heard(k) /\ Heard(k) \in Nat
    BY <1>1 DEF Inv, TypeOK, Heard
  <1> QED
    BY <1>1, <1>3, <1>5, <1>6, <1>7, OffStage

\* At first nobody is connected and no job exists.
LEMMA InvInit == Init => Inv
  <1> SUFFICES ASSUME Init PROVE Inv
    OBVIOUS
  <1>1. HubInv
    <2>1. Hub!TypeOK
      BY DEF Init, Hub!Init, Hub!TypeOK
    <2>2. OwnRooms /\ Checks /\ Hub!OnlyItsUser
      BY DEF Init, Hub!Init, OwnRooms, Checks, Hub!OnlyItsUser
    <2>3. Hub!GhostsDropped /\ Hub!OnlineIsRegistered
      BY DEF Init, Hub!Init, Hub!GhostsDropped, Hub!OnlineIsRegistered, Hub!Online
    <2> QED
      BY <2>1, <2>2, <2>3 DEF HubInv
  <1>2. TypeOK
    BY <1>1 DEF Init, Pool!PoolInit, HubInv, TypeOK, Steps, Pool!Stages
  <1>3. Runs /\ Ordered /\ Current
    BY AttemptsAssumption DEF Init, Hub!Init, Pool!PoolInit, Runs, Live, Ordered, Current
  <1>4. Counted
    <2>1. \A s \in Sockets, j \in Jobs : Told(s, j) = {}
      BY DEF Init, Hub!Init, Told
    <2>2. \A s \in Sockets, j \in Jobs : Cardinality(Told(s, j)) = 0
      BY <2>1, FS_EmptySet
    <2>3. \A j \in Jobs : lostEnds[j] = 0 /\ Heard(j) = 0
      BY DEF Init, Pool!PoolInit, Heard
    <2> QED
      BY <2>2, <2>3 DEF Counted
  <1> QED
    BY <1>1, <1>2, <1>3, <1>4 DEF Inv

\* Every step of the composition preserves Inv.
LEMMA InvNext ==
  ASSUME Inv, [Next]_vars
  PROVE  Inv'
  <1>1. CASE UNCHANGED vars
    <2>1. /\ UNCHANGED <<hub, stage, tries, deaths, step, row, listed, lostEnds>>
      BY <1>1 DEF vars, pool
    <2>2. HubInv' /\ UNCHANGED <<link, check, user, known, sockets, rooms, sent, inbox>>
      BY <2>1, HubSame DEF Inv
    <2>3. TypeOK'
      BY <2>1, <2>2 DEF Inv, HubInv, TypeOK
    <2> QED
      BY <2>1, <2>2, <2>3 DEF Inv, Runs, Ordered, Notice, Current, Counted, Told, Heard,
         Hub!Online, Hub!Up
  <1>2. ASSUME NEW j \in Jobs,
               \/ AddJob(j) \/ Retry(j) \/ StartJob(j)
               \/ Insert(j) \/ InsertFails(j) \/ Push(j) \/ EndJob(j) \/ EndIsLost(j)
        PROVE  Inv'
    BY <1>2, AddRetryStartInv, InsertInv, InsertFailsInv, PushInv, EndJobInv, EndIsLostInv
  <1>3. CASE Restart \/ Traffic
    BY <1>3, RestartInv, TrafficInv
  <1>4. ASSUME NEW s \in Sockets,
               List(s) \/ \E n \in Notices : MarkAsRead(s, n)
        PROVE  Inv'
    BY <1>4, ListInv, MarkAsReadInv
  <1> QED
    BY <1>1, <1>2, <1>3, <1>4 DEF Next

\* Inv holds of every reachable state.
THEOREM InvHolds == Spec => []Inv
  BY InvInit, InvNext, PTL DEF Spec

----------------------------------------------------------------------------
(* What the clients see *)

\* The gateway, the queue and the rows keep their types; the numbering of a job's runs
\* stays within its attempts and stalls.
THEOREM TypeCorrect == Spec => []TypeOK
  <1>1. Inv => TypeOK
    BY DEF Inv
  <1> QED
    BY <1>1, InvHolds, PTL

\* A closed socket is registered only if it closed while its token was being checked,
\* so that handleDisconnect ran before handleConnection registered it, and then under
\* its own user: no other entry outlives its socket.
THEOREM GhostsDroppedHolds == Spec => []GhostsDropped
  <1>1. Inv => GhostsDropped
    BY DEF Inv, HubInv, GhostsDropped
  <1> QED
    BY <1>1, InvHolds, PTL

\* sendToUser never reaches a socket of somebody else, whatever it registered or joined.
THEOREM OnlyItsUserHolds == Spec => []OnlyItsUser
  <1>1. Inv => OnlyItsUser
    BY DEF Inv, HubInv, OnlyItsUser
  <1> QED
    BY <1>1, InvHolds, PTL

\* sendToUser reaches every socket of the user that is online at the push, whatever the
\* user's other sockets did to the entry they share.
THEOREM ReachesOnlineHolds == Spec => ReachesOnline
  <1>1. ASSUME Inv, [Next]_vars
        PROVE  \A n \in sent' \ sent, s \in Sockets :
                 Hub!Online(s) /\ user[s] = Addressee[n[1]] => n \in inbox'[s]
    <2>1. CASE \E j \in Jobs : Push(j)
      <3>1. PICK j \in Jobs : Push(j)
        BY <2>1
      <3>2. Hub!SendToUser(Notice(j)) /\ Notice(j) \in Notices
        BY <1>1, <3>1, NoticeType DEF Push, Inv
      <3> QED
        BY <1>1, <3>2, SendHub DEF Inv
    <2>2. CASE ~ \E j \in Jobs : Push(j)
      <3>1. UNCHANGED hub \/ Restart \/ Traffic
        BY <1>1, <2>2 DEF Next, vars, AddJob, Retry, StartJob, Insert, InsertFails, EndJob,
           EndIsLost, List, MarkAsRead
      <3>2. sent' = sent
        BY <1>1, <3>1, RestartHub, TrafficEffect DEF hub, Restart, Traffic, Inv
      <3> QED
        BY <3>2
    <2> QED
      BY <2>1, <2>2
  <1>2. ASSUME Inv, [Next]_vars
        PROVE  [Hub!PushReachesOnline]_Hub!vars
    <2>1. Inv'
      BY <1>2, InvNext
    <2>2. sent' \subseteq Notices
      BY <2>1 DEF Inv, HubInv, Hub!TypeOK
    <2> QED
      BY <1>1, <1>2, <2>2 DEF Hub!PushReachesOnline
  <1> QED
    BY <1>2, InvHolds, PTL DEF Spec, ReachesOnline, Hub!ReachesOnline

\* No gap between the list and the pushes: a client that is online since before it
\* listed has all that was pushed to its user, and a notification of every job done.
THEOREM NothingMissedHolds == Spec => []NothingMissed
  <1>1. ASSUME Inv
        PROVE  NothingMissed
    <2> SUFFICES ASSUME NEW s \in Sockets, Hub!Online(s), listed[s] # NotYet
                 PROVE  /\ \A n \in sent : Addressee[n[1]] = user[s] => n \in Shown(s)
                        /\ \A j \in Jobs : stage[j] = "done" /\ Addressee[j] = user[s] =>
                             \E n \in Shown(s) : n[1] = j
      BY DEF NothingMissed
    <2>1. \A n \in sent : Addressee[n[1]] = user[s] => n \in Shown(s)
      BY <1>1 DEF Inv, Current, Shown
    <2>2. \A j \in Jobs : stage[j] = "done" => \E n \in sent : n[1] = j
      BY <1>1 DEF Inv, Ordered
    <2> QED
      BY <2>1, <2>2
  <1> QED
    BY <1>1, InvHolds, PTL

\* A client is pushed a job once, and once more per end of a run the queue did not hear
\* of: neither a retry nor a restart repeats a push to it.
THEOREM ToldOnceHolds == Spec => []ToldOnce
  <1>1. Inv => ToldOnce
    BY DEF Inv, Counted, Told, ToldOnce
  <1> QED
    BY <1>1, InvHolds, PTL
=============================================================================
