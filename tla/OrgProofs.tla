----------------------------- MODULE OrgProofs -----------------------------
(***************************************************************************)
(* Theorems about Org, for any users, companies, teams, names, lists and   *)
(* number of requests in flight.                                           *)
(***************************************************************************)
EXTENDS Org, TLAPS

\* The user may be or become a member of the team: is of its company, is gone, or the
\* team was given to another company.
Fits(u, t) == company[u] \in {owner[t], "gone"} \/ t \in moved

\* Who is in a team exists, the team exists, and the two fit.
Placed ==
  \A u \in Users : teamOf[u] \in Teams =>
    u \in Existing /\ owner[teamOf[u]] # None /\ Fits(u, teamOf[u])

\* What a request checked before its first write is still so, or no longer matters:
\* users never change company, and companies of teams change in moved teams only.
Sound(q) ==
  /\ q.pc \in {"fill", "update", "join", "leave"} => owner[q.team] # None
  /\ q.pc = "team" => \A u \in q.list : company[u] \in {q.company, "gone"}
  /\ q.pc \in {"fill", "join"} => \A u \in q.list : Fits(u, q.team)
  /\ q.pc = "update" => \A u \in Listed(q.list) :
       IF q.company = None THEN Fits(u, q.team) ELSE company[u] \in {q.company, "gone"}
  /\ q.pc \in {"join", "leave"} => q.list # None

Pending == \A r \in Requests : Sound(req[r])

\* What a request that has the rows to itself may rely on besides.
Alone(q) ==
  /\ q.pc = "company" => \A c \in Companies : name[c] # q.name
  /\ q.pc = "fill" => \A u \in Users : teamOf[u] # q.team
  /\ q.pc = "leave" => teamOf = [u \in Users |-> IF u \in q.list \cap Existing
                                                THEN q.team ELSE wanted[u]]
  /\ q.pc = "delete" => \/ role[q.user] # "ADMIN"
                        \/ \E a \in Existing \ {q.user} : role[a] \in {"ADMIN", "MASTER"}

UniqueNames == \A c, d \in Companies : name[c] = name[d] /\ name[c] # None => c = d

\* As long as no two requests overlapped and none died.
Serial ==
  clean =>
    /\ \A q, r \in Requests : req[q] # Idle /\ req[r] # Idle => q = r
    /\ \A r \in Requests : Alone(req[r])
    /\ UniqueNames
    /\ (\A r \in Requests : req[r].pc # "leave") => teamOf = wanted

Inv == TypeOK /\ Placed /\ Pending /\ Serial

----------------------------------------------------------------------------
(* Requests *)

UpdateReq == [pc : {"update", "join", "leave"}, team : Teams,
              company : Companies \cup {None}, list : Lists \cup {None}]

\* The fields of a request, by where it is.
LEMMA ReqFields ==
  ASSUME NEW q \in ReqType
  PROVE  /\ q.pc = "idle" => q = Idle
         /\ q.pc = "company" => q.user \in Users /\ q.name \in CompanyNames
         /\ q.pc = "user" => q.user \in Users /\ q.company \in Companies /\ q.role \in GivenRoles
         /\ q.pc = "role" => q.user \in Users /\ q.role \in GivenRoles
         /\ q.pc = "delete" => q.user \in Users
         /\ q.pc = "team" => q.manager \in Users /\ q.company \in Companies /\ q.list \in Lists
         /\ q.pc = "fill" => q.team \in Teams /\ q.list \in Lists
         /\ q.pc \in {"update", "join", "leave"} => q \in UpdateReq
         /\ q # Idle => q.pc # "idle"
  <1>1. CASE q = Idle
    BY <1>1 DEF Idle
  <1>2. CASE q \in [pc : {"company"}, user : Users, name : CompanyNames]
    BY <1>2
  <1>3. CASE q \in [pc : {"user"}, user : Users, company : Companies, role : GivenRoles]
    BY <1>3
  <1>4. CASE q \in [pc : {"role"}, user : Users, role : GivenRoles]
    BY <1>4
  <1>5. CASE q \in [pc : {"delete"}, user : Users]
    BY <1>5
  <1>6. CASE q \in [pc : {"team"}, manager : Users, company : Companies, list : Lists]
    BY <1>6
  <1>7. CASE q \in [pc : {"fill"}, team : Teams, list : Lists]
    BY <1>7
  <1>8. CASE q \in UpdateReq
    BY <1>8 DEF UpdateReq
  <1> QED
    BY <1>1, <1>2, <1>3, <1>4, <1>5, <1>6, <1>7, <1>8 DEF ReqType, UpdateReq

\* Moving an update on keeps its fields.
LEMMA UpdateGoesOn ==
  ASSUME NEW q \in UpdateReq, NEW pc \in {"join", "leave"}
  PROVE  LET p == [q EXCEPT !.pc = pc] IN
           /\ p \in ReqType /\ p # Idle
           /\ p.pc = pc /\ p.team = q.team /\ p.list = q.list
  BY DEF UpdateReq, ReqType, Idle

(***************************************************************************)
(* What a write may do to rows that others rely on: companies of teams go  *)
(* on fitting or move, and nobody changes company.                         *)
(***************************************************************************)
RowsHold ==
  /\ \A t \in Teams : owner[t] # None =>
       owner'[t] # None /\ \A u \in Users : Fits(u, t) => Fits(u, t)'
  /\ \A u \in Users, c \in Companies :
       company[u] \in {c, "gone"} => company'[u] \in {c, "gone"}

\* What a request under way relies on survives every step that keeps the rows'
\* invariants.
LEMMA SoundHolds ==
  ASSUME RowsHold, NEW q \in ReqType, Sound(q)
  PROVE  Sound(q)'
  <1>1. CASE q.pc \in {"update", "join", "leave"}
    <2>1. /\ q.team \in Teams /\ q.list \in Lists \cup {None}
          /\ q.company \in Companies \cup {None}
      BY <1>1, ReqFields DEF UpdateReq
    <2>2. \A u \in Listed(q.list) : u \in Users
      BY <2>1, ListsAssumption DEF Listed
    <2>3. \A u \in q.list : q.pc = "join" => u \in Users
      BY <1>1, <2>2 DEF Sound, Listed
    <2> QED
      BY <1>1, <2>1, <2>2, <2>3 DEF Sound, RowsHold
  <1>2. CASE q.pc = "fill"
    <2>1. q.team \in Teams /\ q.list \subseteq Users
      BY <1>2, ReqFields, ListsAssumption
    <2> QED
      BY <1>2, <2>1 DEF Sound, RowsHold
  <1>3. CASE q.pc = "team"
    <2>1. q.company \in Companies /\ q.list \subseteq Users
      BY <1>3, ReqFields, ListsAssumption
    <2> QED
      BY <1>3, <2>1 DEF Sound, RowsHold
  <1>4. CASE q.pc \notin {"update", "join", "leave", "fill", "team"}
    BY <1>4 DEF Sound
  <1> QED
    BY <1>1, <1>2, <1>3, <1>4

\* A request moves on and the others wait.
LEMMA PendingStep ==
  ASSUME TypeOK, Pending, RowsHold, NEW r \in Requests, NEW q, Sound(q)',
         req' = [req EXCEPT ![r] = q]
  PROVE  Pending'
  <1>1. \A s \in Requests : req'[s] = IF s = r THEN q ELSE req[s]
    BY DEF TypeOK
  <1>2. ASSUME NEW s \in Requests
        PROVE  \E p : p = req'[s] /\ Sound(p)'
    <2>1. CASE s = r
      BY <1>1, <2>1
    <2>2. CASE s # r
      <3>1. PICK p \in ReqType : p = req[s] /\ Sound(p)
        BY DEF TypeOK, Pending
      <3>2. Sound(p)'
        BY <3>1, SoundHolds
      <3> QED
        BY <1>1, <2>2, <3>1, <3>2
    <2> QED
      BY <2>1, <2>2
  <1>3. ASSUME NEW s \in Requests
        PROVE  Sound(req[s])'
    <2>1. PICK p : p = req'[s] /\ Sound(p)'
      BY <1>2
    <2> QED
      BY <2>1 DEF Sound, Fits
  <1> QED
    BY <1>3 DEF Pending

\* A step of the one request in flight keeps Serial if it leaves names and teams as it
\* should.
LEMMA SerialStep ==
  ASSUME TypeOK, Serial, NEW r \in Requests, req[r] # Idle, NEW q,
         req' = [req EXCEPT ![r] = q], clean' => clean,
         clean' => UniqueNames' /\ Alone(q)' /\ (q.pc # "leave" => teamOf' = wanted')
  PROVE  Serial'
  <1> SUFFICES ASSUME clean'
               PROVE  /\ \A p, s \in Requests : req'[p] # Idle /\ req'[s] # Idle => p = s
                      /\ \A s \in Requests : Alone(req[s])'
                      /\ UniqueNames'
                      /\ (\A s \in Requests : req'[s].pc # "leave") => teamOf' = wanted'
    BY DEF Serial
  <1>1. \A s \in Requests : req'[s] = IF s = r THEN q ELSE Idle
    BY DEF TypeOK, Serial
  <1>2. ASSUME NEW s \in Requests
        PROVE  Alone(req[s])'
    <2>1. CASE s = r
      <3>1. req'[s] = q
        BY <1>1, <2>1
      <3> QED
        BY <3>1 DEF Alone, Existing
    <2>2. CASE s # r
      <3>1. req'[s] = Idle
        BY <1>1, <2>2
      <3> QED
        BY <3>1 DEF Alone, Idle
    <2> QED
      BY <2>1, <2>2
  <1>3. \A p, s \in Requests : req'[p] # Idle /\ req'[s] # Idle => p = s
    BY <1>1
  <1>4. (\A s \in Requests : req'[s].pc # "leave") => teamOf' = wanted'
    BY <1>1
  <1> QED
    BY <1>2, <1>3, <1>4

\* At first no request is in flight and what the rows say is consistent.
LEMMA InitInv == Init => Inv
  <1> SUFFICES ASSUME Init PROVE Inv
    OBVIOUS
  <1>0. \A u \in Users : teamOf[u] \notin Teams
    BY NoneAssumption DEF Init, Nobody
  <1>1. TypeOK
    <2>1. Idle \in ReqType
      BY DEF ReqType
    <2> QED
      BY <2>1 DEF Init, TypeOK, Nobody
  <1>2. Placed
    BY <1>0 DEF Placed
  <1>3. \A r \in Requests : req[r] = Idle
    BY DEF Init
  <1>4. Pending
    BY <1>3 DEF Pending, Sound, Idle
  <1>5. Serial
    BY <1>3 DEF Init, Serial, Alone, UniqueNames, Idle
  <1> QED
    BY <1>1, <1>2, <1>4, <1>5 DEF Inv

\* A new request: what it read is so, and what it will rely on when alone, too.
LEMMA BeginInv ==
  ASSUME Inv, NEW r \in Requests, NEW q \in ReqType, Begin(r, q), UNCHANGED <<rows, moved>>,
         q.pc # "leave", Sound(q), Alone(q)
  PROVE  Inv'
  <1>0. /\ UNCHANGED <<name, company, role, teamOf, owner, manager, moved>>
        /\ req[r] = Idle /\ req' = [req EXCEPT ![r] = q]
        /\ clean' = (clean /\ \A o \in Requests : req[o] = Idle)
        /\ wanted' = IF clean' THEN wanted ELSE Nobody
    BY DEF Begin, rows
  <1>1. TypeOK'
    <2>1. req' \in [Requests -> ReqType] /\ clean' \in BOOLEAN
      BY <1>0 DEF Inv, TypeOK
    <2>2. wanted' \in [Users -> Teams \cup {None}]
      BY <1>0 DEF Inv, TypeOK, Nobody
    <2> QED
      BY <1>0, <2>1, <2>2 DEF Inv, TypeOK
  <1>2. Placed'
    BY <1>0 DEF Inv, Placed, Existing, Fits
  <1>3. Pending'
    <2>1. RowsHold
      BY <1>0 DEF RowsHold, Fits
    <2>2. Sound(q)'
      BY <2>1, SoundHolds
    <2> QED
      BY <1>0, <2>1, <2>2, PendingStep DEF Inv
  <1>4. Serial'
    <2> SUFFICES ASSUME clean'
                 PROVE  /\ \A p, s \in Requests : req'[p] # Idle /\ req'[s] # Idle => p = s
                        /\ \A s \in Requests : Alone(req[s])'
                        /\ UniqueNames'
                        /\ teamOf' = wanted'
      BY DEF Serial
    <2>1. /\ clean /\ wanted' = wanted
          /\ \A s \in Requests : req'[s] = IF s = r THEN q ELSE Idle
      BY <1>0 DEF Inv, TypeOK
    <2>2. teamOf = wanted
      BY <1>0, <2>1 DEF Inv, Serial, Idle
    <2>3. UniqueNames'
      BY <1>0, <2>1 DEF Inv, Serial, UniqueNames
    <2>4. Alone(q)'
      BY <1>0, <2>1 DEF Alone, Existing
    <2>5. Alone(Idle)'
      BY DEF Alone, Idle
    <2>6. \A s \in Requests : Alone(req[s])'
      BY <2>1, <2>4, <2>5 DEF Alone, Existing
    <2> QED
      BY <1>0, <2>1, <2>2, <2>3, <2>6
  <1> QED
    BY <1>1, <1>2, <1>3, <1>4 DEF Inv

----------------------------------------------------------------------------
(* The first half of each request *)

\* A user who exists is of a company.
LEMMA ExistingCompany ==
  ASSUME TypeOK, NEW u \in Existing
  PROVE  u \in Users /\ company[u] \in Companies
  BY DEF Existing

\* A request arrives: its checks hold now, and it has the rows to itself or clean is
\* lost.
LEMMA ArrivesInv ==
  ASSUME Inv, NEW r \in Requests, Arrives(r)
  PROVE  Inv'
  <1>0. TypeOK
    BY DEF Inv
  <1>1. ASSUME NEW u \in Users, NEW n \in CompanyNames, CompanyBegin(r, u, n)
        PROVE  Inv'
    <2> DEFINE q == [pc |-> "company", user |-> u, name |-> n]
    <2>1. q \in ReqType
      BY DEF ReqType
    <2>2. Sound(q) /\ q.pc # "leave"
      BY DEF Sound
    <2>3. Alone(q)
      BY <1>1 DEF CompanyBegin, Alone
    <2>4. Begin(r, q) /\ UNCHANGED <<rows, moved>>
      BY <1>1 DEF CompanyBegin
    <2> QED
      BY ONLY Inv, r \in Requests, <2>1, <2>2, <2>3, <2>4, BeginInv
  <1>2. ASSUME NEW by \in Users, NEW u \in Users, NEW x \in GivenRoles, UserBegin(r, by, u, x)
        PROVE  Inv'
    <2>1. PICK c \in Companies : c = company[by]
      BY <1>0, <1>2, ExistingCompany DEF UserBegin, HasRole
    <2> DEFINE q == [pc |-> "user", user |-> u, company |-> c, role |-> x]
    <2>2. q \in ReqType
      BY DEF ReqType
    <2>3. Sound(q) /\ Alone(q) /\ q.pc # "leave"
      BY DEF Sound, Alone
    <2>4. Begin(r, q) /\ UNCHANGED <<rows, moved>>
      BY <1>2, <2>1 DEF UserBegin
    <2> QED
      BY ONLY Inv, r \in Requests, <2>2, <2>3, <2>4, BeginInv
  <1>3. ASSUME NEW by \in Users, NEW u \in Users, NEW x \in GivenRoles,
               UserUpdateBegin(r, by, u, x)
        PROVE  Inv'
    <2> DEFINE q == [pc |-> "role", user |-> u, role |-> x]
    <2>1. q \in ReqType
      BY DEF ReqType
    <2>2. Sound(q) /\ Alone(q) /\ q.pc # "leave"
      BY DEF Sound, Alone
    <2>3. Begin(r, q) /\ UNCHANGED <<rows, moved>>
      BY <1>3 DEF UserUpdateBegin
    <2> QED
      BY ONLY Inv, r \in Requests, <2>1, <2>2, <2>3, BeginInv
  \* Who may delete is of a role that leaves an ADMIN or a MASTER behind.
  <1>4. ASSUME NEW by \in Users, NEW u \in Users, DeleteBegin(r, by, u)
        PROVE  Inv'
    <2> DEFINE q == [pc |-> "delete", user |-> u]
    <2>1. q \in ReqType
      BY DEF ReqType
    <2>2. Sound(q) /\ q.pc # "leave"
      BY DEF Sound
    <2>3. /\ by \in Existing \ {u} /\ role[by] \in {"ADMIN", "MANAGER", "MASTER"}
          /\ role[by] = "MANAGER" => role[u] # "ADMIN"
      BY <1>4 DEF DeleteBegin, HasRole
    <2>4. Alone(q)
      BY <2>3 DEF Alone
    <2>5. Begin(r, q) /\ UNCHANGED <<rows, moved>>
      BY <1>4 DEF DeleteBegin
    <2> QED
      BY ONLY Inv, r \in Requests, <2>1, <2>2, <2>4, <2>5, BeginInv
  <1>5. ASSUME NEW by \in Users, NEW m \in Users, NEW list \in Lists, TeamBegin(r, by, m, list)
        PROVE  Inv'
    <2>1. PICK c \in Companies : c = company[by]
      BY <1>0, <1>5, ExistingCompany DEF TeamBegin, HasRole
    <2> DEFINE q == [pc |-> "team", manager |-> m, company |-> c, list |-> list]
    <2>2. q \in ReqType
      BY DEF ReqType
    <2>3. Alone(q) /\ q.pc # "leave"
      BY DEF Alone
    <2>4. Sound(q)
      BY <1>5, <2>1 DEF TeamBegin, AllOf, Sound
    <2>5. Begin(r, q) /\ UNCHANGED <<rows, moved>>
      BY <1>5, <2>1 DEF TeamBegin
    <2> QED
      BY ONLY Inv, r \in Requests, <2>2, <2>3, <2>4, <2>5, BeginInv
  <1>6. ASSUME NEW by \in Users, NEW t \in Teams, NEW c \in Companies \cup {None},
               NEW list \in Lists \cup {None}, UpdateBegin(r, by, t, c, list)
        PROVE  Inv'
    <2> DEFINE q == [pc |-> "update", team |-> t, company |-> c, list |-> list]
    <2>1. q \in ReqType
      BY DEF ReqType
    <2>2. Alone(q) /\ q.pc # "leave"
      BY DEF Alone
    <2>3. owner[t] # None /\ AllOf(Listed(list), IF c = None THEN owner[t] ELSE c)
      BY <1>6 DEF UpdateBegin
    <2>4. Sound(q)
      BY <2>3 DEF AllOf, Sound, Fits
    <2>5. Begin(r, q) /\ UNCHANGED <<rows, moved>>
      BY <1>6 DEF UpdateBegin
    <2> QED
      BY ONLY Inv, r \in Requests, <2>1, <2>2, <2>4, <2>5, BeginInv
  <1> QED
    BY <1>1, <1>2, <1>3, <1>4, <1>5, <1>6 DEF Arrives

----------------------------------------------------------------------------
(* The writes *)

\* A request that has the rows to itself.
LEMMA CleanFacts ==
  ASSUME TypeOK, Serial, clean, NEW r \in Requests, req[r] # Idle
  PROVE  /\ Alone(req[r]) /\ UniqueNames
         /\ req[r].pc # "leave" => teamOf = wanted
  <1>1. \A s \in Requests : s # r => req[s].pc # "leave"
    BY DEF Serial, Idle
  <1> QED
    BY <1>1 DEF Serial

\* What each write owes: types, the rows the others rely on, placed members, what the
\* request still relies on, and the serial facts.
LEMMA WriteInv ==
  ASSUME Inv, NEW r \in Requests, req[r] # Idle, NEW q \in ReqType,
         req' = [req EXCEPT ![r] = q], RowsHold, Placed', Sound(q)', clean' => clean,
         clean' => UniqueNames' /\ Alone(q)' /\ (q.pc # "leave" => teamOf' = wanted'),
         name' \in [Companies -> CompanyNames \cup {None}],
         company' \in [Users -> Companies \cup {"unborn", "gone"}],
         role' \in [Users -> GivenRoles \cup {"ADMIN", None}],
         teamOf' \in [Users -> Teams \cup {None}],
         owner' \in [Teams -> Companies \cup {None}],
         manager' \in [Teams -> Users \cup {None}],
         \A t \in Teams : owner'[t] = None <=> manager'[t] = None,
         moved' \subseteq Teams,
         wanted' \in [Users -> Teams \cup {None}],
         clean' \in BOOLEAN
  PROVE  Inv'
  <1>1. TypeOK'
    BY DEF Inv, TypeOK
  <1>2. Pending' /\ Serial'
    BY PendingStep, SerialStep DEF Inv
  <1> QED
    BY <1>1, <1>2 DEF Inv

\* An idle request relies on nothing.
LEMMA IdleFacts ==
  /\ Idle \in ReqType /\ Idle.pc = "idle"
  /\ Sound(Idle)' /\ Alone(Idle)'
  BY DEF Idle, ReqType, Sound, Alone

\* A user who appears in a company was in no team and on no list.
LEMMA BornHolds ==
  ASSUME TypeOK, Placed, NEW u \in Users, company[u] = "unborn", NEW c \in Companies,
         company' = [company EXCEPT ![u] = c], UNCHANGED <<teamOf, owner, moved>>
  PROVE  RowsHold /\ Placed'
  <1>1. \A v \in Users : company'[v] = IF v = u THEN c ELSE company[v]
    BY DEF TypeOK
  <1>2. \A v \in Users : company[v] # "unborn" => company'[v] = company[v]
    BY <1>1
  <1>3. "unborn" # "gone" /\ "unborn" \notin Companies
    BY NoneAssumption
  <1>4. RowsHold
    BY <1>2, <1>3 DEF RowsHold, Fits, TypeOK
  <1>5. Placed'
    BY <1>2, <1>3 DEF Placed, Existing, Fits
  <1> QED
    BY <1>4, <1>5

\* The transaction creates company and administrator in one step.
LEMMA CompanyCommitInv ==
  ASSUME Inv, NEW r \in Requests, CompanyCommit(r)
  PROVE  Inv'
  <1> DEFINE u == req[r].user
  <1>1. /\ TypeOK /\ Placed /\ req[r].pc = "company" /\ req[r] # Idle
        /\ u \in Users /\ req[r].name \in CompanyNames
        /\ req' = [req EXCEPT ![r] = Idle]
        /\ UNCHANGED <<teamOf, owner, manager, moved, wanted, clean>>
    BY ReqFields DEF Inv, TypeOK, CompanyCommit, End, Idle
  <1>2. clean => /\ \A d \in Companies : name[d] # req[r].name
                 /\ UniqueNames /\ teamOf = wanted
    BY <1>1, CleanFacts DEF Inv, Alone
  <1>3. CASE UNCHANGED <<name, company, role>>
    <2>1. RowsHold /\ Placed'
      BY <1>1, <1>3 DEF RowsHold, Fits, Placed, Existing
    <2>2. clean' => UniqueNames' /\ teamOf' = wanted'
      BY <1>1, <1>2, <1>3 DEF UniqueNames
    <2> QED
      BY <1>1, <1>3, <2>1, <2>2, IdleFacts, WriteInv DEF TypeOK
  <1>4. ASSUME NEW c \in Companies, name[c] = None, company[u] = "unborn",
               name' = [name EXCEPT ![c] = req[r].name],
               company' = [company EXCEPT ![u] = c],
               role' = [role EXCEPT ![u] = "ADMIN"]
        PROVE  Inv'
    <2> HIDE DEF u
    <2>1. RowsHold /\ Placed'
      BY <1>1, <1>4, BornHolds
    <2>2. clean' => UniqueNames' /\ teamOf' = wanted'
      BY <1>1, <1>2, <1>4 DEF UniqueNames, TypeOK
    <2>3. /\ name' \in [Companies -> CompanyNames \cup {None}]
          /\ company' \in [Users -> Companies \cup {"unborn", "gone"}]
          /\ role' \in [Users -> GivenRoles \cup {"ADMIN", None}]
      BY <1>1, <1>4 DEF TypeOK
    <2> QED
      BY <1>1, <2>1, <2>2, <2>3, IdleFacts, WriteInv DEF TypeOK
  <1> QED
    BY <1>3, <1>4 DEF CompanyCommit

\* A new user is in no team yet.
LEMMA UserInsertInv ==
  ASSUME Inv, NEW r \in Requests, UserInsert(r)
  PROVE  Inv'
  <1> DEFINE u == req[r].user
  <1>1. /\ TypeOK /\ Placed /\ req[r].pc = "user" /\ req[r] # Idle
        /\ u \in Users /\ req[r].company \in Companies /\ req[r].role \in GivenRoles
        /\ req' = [req EXCEPT ![r] = Idle]
        /\ UNCHANGED <<name, teamOf, owner, manager, moved, wanted, clean>>
    BY ReqFields DEF Inv, TypeOK, UserInsert, End, Idle
  <1>2. clean' => UniqueNames' /\ teamOf' = wanted'
    <2>1. clean => UniqueNames /\ teamOf = wanted
      BY <1>1, CleanFacts DEF Inv
    <2> QED
      BY <1>1, <2>1 DEF UniqueNames
  <1>3. CASE UNCHANGED <<company, role>>
    <2>1. RowsHold /\ Placed'
      BY <1>1, <1>3 DEF RowsHold, Fits, Placed, Existing
    <2> QED
      BY <1>1, <1>2, <1>3, <2>1, IdleFacts, WriteInv DEF TypeOK
  <1>4. ASSUME company[u] = "unborn",
               company' = [company EXCEPT ![u] = req[r].company],
               role' = [role EXCEPT ![u] = req[r].role]
        PROVE  Inv'
    <2> HIDE DEF u
    <2>1. RowsHold /\ Placed'
      BY <1>1, <1>4, BornHolds
    <2>2. /\ company' \in [Users -> Companies \cup {"unborn", "gone"}]
          /\ role' \in [Users -> GivenRoles \cup {"ADMIN", None}]
      BY <1>1, <1>4 DEF TypeOK
    <2> QED
      BY <1>1, <1>2, <2>1, <2>2, IdleFacts, WriteInv DEF TypeOK
  <1> QED
    BY <1>3, <1>4 DEF UserInsert

\* The write of a role moves nobody between teams.
LEMMA UserUpdateWriteInv ==
  ASSUME Inv, NEW r \in Requests, UserUpdateWrite(r)
  PROVE  Inv'
  <1>1. /\ TypeOK /\ Placed /\ req[r].pc = "role" /\ req[r] # Idle
        /\ req[r].user \in Users /\ req[r].role \in GivenRoles
        /\ req' = [req EXCEPT ![r] = Idle]
        /\ UNCHANGED <<name, company, teamOf, owner, manager, moved, wanted, clean>>
    BY ReqFields DEF Inv, TypeOK, UserUpdateWrite, End, Idle
  <1>2. role' \in [Users -> GivenRoles \cup {"ADMIN", None}]
    BY <1>1 DEF UserUpdateWrite, TypeOK
  <1>3. clean' => UniqueNames' /\ teamOf' = wanted'
    <2>1. clean => UniqueNames /\ teamOf = wanted
      BY <1>1, CleanFacts DEF Inv
    <2> QED
      BY <1>1, <2>1 DEF UniqueNames
  <1>4. RowsHold /\ Placed'
    BY <1>1 DEF RowsHold, Fits, Placed, Existing
  <1> QED
    BY <1>1, <1>2, <1>3, <1>4, IdleFacts, WriteInv DEF TypeOK

\* A deletion takes the user out of the team as well, and is refused to managers of
\* teams.
LEMMA DeleteWriteInv ==
  ASSUME Inv, NEW r \in Requests, DeleteWrite(r)
  PROVE  Inv'
  <1> DEFINE u == req[r].user
  <1>1. /\ TypeOK /\ Placed /\ req[r].pc = "delete" /\ req[r] # Idle
        /\ u \in Users
        /\ req' = [req EXCEPT ![r] = Idle]
        /\ UNCHANGED <<name, owner, manager, moved, clean>>
    BY ReqFields DEF Inv, TypeOK, DeleteWrite, End, Idle
  <1>2. clean => UniqueNames /\ teamOf = wanted
    BY <1>1, CleanFacts DEF Inv
  <1>3. CASE UNCHANGED <<company, role, teamOf, wanted>>
    <2>1. RowsHold /\ Placed'
      BY <1>1, <1>3 DEF RowsHold, Fits, Placed, Existing
    <2>2. clean' => UniqueNames' /\ teamOf' = wanted'
      BY <1>1, <1>2, <1>3 DEF UniqueNames
    <2> QED
      BY <1>1, <1>3, <2>1, <2>2, IdleFacts, WriteInv DEF TypeOK
  <1>4. ASSUME company' = [company EXCEPT ![u] = "gone"],
               role' = [role EXCEPT ![u] = None],
               teamOf' = [teamOf EXCEPT ![u] = None],
               wanted' = [wanted EXCEPT ![u] = None]
        PROVE  Inv'
    <2> HIDE DEF u
    <2>1. /\ \A v \in Users : company'[v] = IF v = u THEN "gone" ELSE company[v]
          /\ \A v \in Users : teamOf'[v] = IF v = u THEN None ELSE teamOf[v]
      BY <1>1, <1>4 DEF TypeOK
    <2>2. RowsHold
      BY <1>1, <2>1 DEF RowsHold, Fits
    <2>3. Placed'
      BY <1>1, <2>1, NoneAssumption DEF Placed, Existing, Fits
    <2>4. clean' => UniqueNames' /\ teamOf' = wanted'
      BY <1>1, <1>2, <1>4 DEF UniqueNames
    <2>5. /\ company' \in [Users -> Companies \cup {"unborn", "gone"}]
          /\ role' \in [Users -> GivenRoles \cup {"ADMIN", None}]
          /\ teamOf' \in [Users -> Teams \cup {None}]
          /\ wanted' \in [Users -> Teams \cup {None}]
      BY <1>1, <1>4 DEF TypeOK
    <2> QED
      BY <1>1, <2>2, <2>3, <2>4, <2>5, IdleFacts, WriteInv DEF TypeOK
  <1> QED
    BY <1>3, <1>4 DEF DeleteWrite

\* A new team has no members until it is filled.
LEMMA TeamInsertInv ==
  ASSUME Inv, NEW r \in Requests, TeamInsert(r)
  PROVE  Inv'
  <1>1. /\ TypeOK /\ Placed /\ Sound(req[r]) /\ req[r].pc = "team" /\ req[r] # Idle
        /\ req[r].manager \in Users /\ req[r].company \in Companies /\ req[r].list \in Lists
        /\ UNCHANGED <<name, company, role, teamOf, moved, wanted, clean>>
    BY ReqFields DEF Inv, Pending, TypeOK, TeamInsert, Idle
  <1>2. clean' => UniqueNames' /\ teamOf' = wanted'
    <2>1. clean => UniqueNames /\ teamOf = wanted
      BY <1>1, CleanFacts DEF Inv
    <2> QED
      BY <1>1, <2>1 DEF UniqueNames
  <1>3. CASE End(r) /\ UNCHANGED <<owner, manager>>
    <2>1. RowsHold /\ Placed'
      BY <1>1, <1>3 DEF RowsHold, Fits, Placed, Existing
    <2>2. req' = [req EXCEPT ![r] = Idle]
      BY <1>3 DEF End
    <2> QED
      BY <1>1, <1>2, <1>3, <2>1, <2>2, IdleFacts, WriteInv DEF TypeOK
  <1>4. ASSUME NEW t \in Teams, owner[t] = None,
               owner' = [owner EXCEPT ![t] = req[r].company],
               manager' = [manager EXCEPT ![t] = req[r].manager],
               IF req[r].list = {} THEN End(r)
               ELSE req' = [req EXCEPT ![r] = [pc |-> "fill", team |-> t, list |-> req[r].list]]
        PROVE  Inv'
    <2>1. \A s \in Teams : owner'[s] = IF s = t THEN req[r].company ELSE owner[s]
      BY <1>1, <1>4 DEF TypeOK
    <2>2. RowsHold
      BY <1>1, <1>4, <2>1 DEF RowsHold, Fits
    <2>3. Placed'
      BY <1>1, <1>4, <2>1 DEF Placed, Existing, Fits
    <2>4. \A u \in Users : teamOf[u] # t
      BY <1>1, <1>4 DEF Placed
    <2>5. /\ owner' \in [Teams -> Companies \cup {None}]
          /\ manager' \in [Teams -> Users \cup {None}]
          /\ \A s \in Teams : owner'[s] = None <=> manager'[s] = None
      BY <1>1, <1>4, NoneAssumption DEF TypeOK
    <2>6. CASE req[r].list = {}
      <3>1. req' = [req EXCEPT ![r] = Idle]
        BY <1>4, <2>6 DEF End
      <3> QED
        BY <1>1, <1>2, <2>2, <2>3, <2>5, <3>1, IdleFacts, WriteInv DEF TypeOK
    <2>7. CASE req[r].list # {}
      <3>1. PICK list \in Lists : list = req[r].list
        BY <1>1
      <3> DEFINE q == [pc |-> "fill", team |-> t, list |-> list]
      <3>2. req' = [req EXCEPT ![r] = q]
        BY <1>4, <2>7, <3>1
      <3>3. q \in ReqType /\ q.pc = "fill" /\ q.team = t /\ q.list = list
        BY DEF ReqType
      <3> HIDE DEF q
      <3>4. Sound(q)'
        <4>1. owner'[t] = req[r].company /\ owner'[t] # None
          BY <1>1, <2>1, NoneAssumption
        <4>2. \A u \in list : company'[u] \in {owner'[t], "gone"}
          BY <1>1, <3>1, <4>1 DEF Sound
        <4> QED
          BY <3>3, <4>1, <4>2 DEF Sound, Fits
      <3>5. Alone(q)'
        BY <1>1, <2>4, <3>3 DEF Alone
      <3> QED
        BY <1>1, <1>2, <2>2, <2>3, <2>5, <3>2, <3>3, <3>4, <3>5, WriteInv DEF TypeOK
    <2> QED
      BY <2>6, <2>7
  <1> QED
    BY <1>3, <1>4 DEF TeamInsert

\* Who joins is on the list, exists and fits.
LEMMA JoinPlaces ==
  ASSUME TypeOK, Placed, NEW t \in Teams, NEW list \in SUBSET Users,
         owner[t] # None, \A u \in list : Fits(u, t),
         teamOf' = [u \in Users |-> IF u \in list \cap Existing THEN t ELSE teamOf[u]],
         UNCHANGED <<company, owner, moved>>
  PROVE  RowsHold /\ Placed' /\ teamOf' \in [Users -> Teams \cup {None}]
  <1>1. RowsHold
    BY DEF RowsHold, Fits
  <1>2. ASSUME NEW u \in Users, teamOf'[u] \in Teams
        PROVE  u \in Existing /\ owner[teamOf'[u]] # None /\ Fits(u, teamOf'[u])
    BY <1>2 DEF Placed
  <1>3. Placed'
    BY <1>2 DEF Placed, Existing, Fits
  <1>4. teamOf' \in [Users -> Teams \cup {None}]
    BY DEF TypeOK
  <1> QED
    BY <1>1, <1>3, <1>4

\* Reassign gives users teams or none.
LEMMA ReassignTypes ==
  ASSUME TypeOK, NEW t \in Teams, NEW list, Reassign(t, list)
  PROVE  wanted' \in [Users -> Teams \cup {None}]
  BY DEF TypeOK, Reassign

\* Who is listed joins the new team, being of its company.
LEMMA TeamFillInv ==
  ASSUME Inv, NEW r \in Requests, TeamFill(r)
  PROVE  Inv'
  <1> DEFINE t == req[r].team
  <1> DEFINE list == req[r].list
  <1>1. /\ TypeOK /\ Placed /\ Sound(req[r]) /\ req[r].pc = "fill" /\ req[r] # Idle
        /\ t \in Teams /\ list \in SUBSET Users
        /\ req' = [req EXCEPT ![r] = Idle]
        /\ UNCHANGED <<name, company, role, owner, manager, moved, clean>>
        /\ teamOf' = [u \in Users |-> IF u \in list \cap Existing THEN t ELSE teamOf[u]]
        /\ Reassign(t, list \cap Existing)
    BY ReqFields, ListsAssumption DEF Inv, Pending, TypeOK, TeamFill, End, Idle
  <1>2. clean => UniqueNames /\ teamOf = wanted /\ \A u \in Users : teamOf[u] # t
    BY <1>1, CleanFacts DEF Inv, Alone
  <1>3. owner[t] # None /\ \A u \in list : Fits(u, t)
    BY <1>1 DEF Sound
  <1> HIDE DEF t, list
  <1>4. RowsHold /\ Placed' /\ teamOf' \in [Users -> Teams \cup {None}]
    BY <1>1, <1>3, JoinPlaces
  <1>5. wanted' \in [Users -> Teams \cup {None}]
    BY <1>1, ReassignTypes
  <1>6. clean' => UniqueNames' /\ teamOf' = wanted'
    <2> SUFFICES ASSUME clean PROVE UniqueNames' /\ teamOf' = wanted'
      BY <1>1
    <2>1. wanted' = [u \in Users |-> IF u \in list \cap Existing THEN t
                                    ELSE IF wanted[u] = t THEN None ELSE wanted[u]]
      BY <1>1 DEF Reassign
    <2>2. teamOf' = wanted'
      BY <1>1, <1>2, <2>1
    <2> QED
      BY <1>1, <1>2, <2>2 DEF UniqueNames
  <1> QED
    BY <1>1, <1>4, <1>5, <1>6, IdleFacts, WriteInv DEF TypeOK

\* The first write of a team's update: its company may change, and then it counts as
\* moved.
LEMMA UpdateTeamInv ==
  ASSUME Inv, NEW r \in Requests, UpdateTeam(r)
  PROVE  Inv'
  <1>1. PICK p \in UpdateReq : p = req[r]
    BY ReqFields DEF Inv, TypeOK, UpdateTeam
  <1> DEFINE t == p.team
  <1> DEFINE c == p.company
  <1>2. /\ TypeOK /\ Placed /\ Sound(p) /\ req[r].pc = "update" /\ p.pc = "update"
        /\ req[r] # Idle
        /\ t \in Teams /\ c \in Companies \cup {None} /\ p.list \in Lists \cup {None}
        /\ UNCHANGED <<name, company, role, teamOf, manager, wanted, clean>>
        /\ owner' = [owner EXCEPT ![t] = IF c = None THEN owner[t] ELSE c]
        /\ moved' = IF c \in {None, owner[t]} THEN moved ELSE moved \cup {t}
    BY <1>1 DEF Inv, Pending, UpdateTeam, Idle, UpdateReq
  <1>3. clean' => UniqueNames' /\ teamOf' = wanted'
    <2>1. clean => UniqueNames /\ teamOf = wanted
      BY <1>2, CleanFacts DEF Inv
    <2> QED
      BY <1>2, <2>1 DEF UniqueNames
  <1>4. /\ owner[t] # None /\ owner'[t] # None
        /\ owner'[t] = owner[t] \/ t \in moved'
        /\ \A s \in Teams : s # t => owner'[s] = owner[s]
        /\ moved \subseteq moved' /\ moved' \subseteq Teams
    <2> HIDE DEF t, c
    <2>1. owner[t] # None
      BY <1>2 DEF Sound, t
    <2>2. owner'[t] = IF c = None THEN owner[t] ELSE c
      BY <1>2 DEF TypeOK
    <2> QED
      BY <1>2, <2>1, <2>2 DEF TypeOK
  <1>5. RowsHold
    BY <1>2, <1>4 DEF RowsHold, Fits
  <1>6. Placed'
    BY <1>2, <1>4 DEF Placed, Existing, Fits
  <1>7. /\ owner' \in [Teams -> Companies \cup {None}]
        /\ \A s \in Teams : owner'[s] = None <=> manager'[s] = None
    BY <1>2, <1>4 DEF TypeOK
  <1>8. CASE p.list = None
    <2>1. req' = [req EXCEPT ![r] = Idle]
      BY <1>1, <1>8 DEF UpdateTeam, End
    <2> QED
      BY <1>2, <1>3, <1>4, <1>5, <1>6, <1>7, <2>1, IdleFacts, WriteInv DEF TypeOK
  <1>9. CASE p.list # None
    <2> DEFINE q == [p EXCEPT !.pc = "join"]
    <2>1. q \in ReqType /\ q.pc = "join" /\ q.team = t /\ q.list = p.list
      BY UpdateGoesOn
    <2>2. req' = [req EXCEPT ![r] = q]
      BY <1>1, <1>9 DEF UpdateTeam, Goto
    <2>3. \A u \in p.list : Fits(u, t)'
      <3>1. \A u \in p.list : IF c = None THEN Fits(u, t) ELSE company[u] \in {c, "gone"}
        BY <1>2, <1>9 DEF Sound, Listed
      <3>2. p.list \subseteq Users
        BY <1>2, <1>9, ListsAssumption
      <3>3. CASE c = None
        <4>1. \A u \in p.list : Fits(u, t)
          BY <3>1, <3>3
        <4> QED
          BY <1>2, <1>4, <3>2, <4>1 DEF Fits
      <3>4. CASE c # None
        <4>1. owner'[t] = c
          BY <1>2, <3>4 DEF TypeOK
        <4> QED
          BY <1>2, <3>1, <3>4, <4>1 DEF Fits
      <3> QED
        BY <3>3, <3>4
    <2> HIDE DEF q
    <2>4. Sound(q)'
      BY <1>4, <1>9, <2>1, <2>3 DEF Sound
    <2>5. Alone(q)'
      BY <2>1 DEF Alone
    <2> QED
      BY <1>2, <1>3, <1>4, <1>5, <1>6, <1>7, <2>1, <2>2, <2>4, <2>5, WriteInv DEF TypeOK
  <1> QED
    BY <1>8, <1>9

\* The second write: who is listed joins.
LEMMA UpdateJoinInv ==
  ASSUME Inv, NEW r \in Requests, UpdateJoin(r)
  PROVE  Inv'
  <1>1. PICK p \in UpdateReq : p = req[r]
    BY ReqFields DEF Inv, TypeOK, UpdateJoin
  <1> DEFINE t == p.team
  <1> DEFINE list == p.list
  <1> DEFINE q == [p EXCEPT !.pc = "leave"]
  <1>2. /\ TypeOK /\ Placed /\ Sound(p) /\ p.pc = "join" /\ req[r] # Idle
        /\ t \in Teams /\ list \in Lists \cup {None}
        /\ req' = [req EXCEPT ![r] = q]
        /\ UNCHANGED <<name, company, role, owner, manager, moved, wanted, clean>>
        /\ teamOf' = [u \in Users |-> IF u \in list \cap Existing THEN t ELSE teamOf[u]]
    BY <1>1 DEF Inv, Pending, UpdateJoin, Goto, Idle, UpdateReq
  <1>3. list # None /\ owner[t] # None /\ \A u \in list : Fits(u, t)
    BY <1>2 DEF Sound
  <1>4. list \in SUBSET Users
    BY <1>2, <1>3, ListsAssumption
  <1>5. q \in ReqType /\ q.pc = "leave" /\ q.team = t /\ q.list = list
    BY UpdateGoesOn
  <1>6. clean => UniqueNames /\ teamOf = wanted
    BY <1>1, <1>2, CleanFacts DEF Inv
  <1> HIDE DEF t, list, q
  <1>7. RowsHold /\ Placed' /\ teamOf' \in [Users -> Teams \cup {None}]
    BY <1>2, <1>3, <1>4, JoinPlaces
  <1>8. Sound(q)'
    BY <1>2, <1>3, <1>5 DEF Sound
  <1>9. clean' => UniqueNames' /\ Alone(q)'
    <2>1. clean => teamOf' = [u \in Users |-> IF u \in list \cap Existing THEN t ELSE wanted[u]]
      BY <1>2, <1>6
    <2>2. Existing' = Existing
      BY <1>2 DEF Existing
    <2> QED
      BY <1>2, <1>5, <1>6, <2>1, <2>2 DEF Alone, UniqueNames
  <1> QED
    BY <1>2, <1>5, <1>7, <1>8, <1>9, WriteInv DEF TypeOK

\* The third write: who is not listed leaves.
LEMMA UpdateLeaveInv ==
  ASSUME Inv, NEW r \in Requests, UpdateLeave(r)
  PROVE  Inv'
  <1>1. PICK p \in UpdateReq : p = req[r]
    BY ReqFields DEF Inv, TypeOK, UpdateLeave
  <1> DEFINE t == p.team
  <1> DEFINE list == p.list
  <1>2. /\ TypeOK /\ Placed /\ Sound(p) /\ p.pc = "leave" /\ req[r] # Idle
        /\ t \in Teams
        /\ req' = [req EXCEPT ![r] = Idle]
        /\ UNCHANGED <<name, company, role, owner, manager, moved, clean>>
        /\ teamOf' = [u \in Users |-> IF teamOf[u] = t /\ u \notin list THEN None ELSE teamOf[u]]
        /\ Reassign(t, list \cap Existing)
    BY <1>1 DEF Inv, Pending, UpdateLeave, End, Idle, UpdateReq
  <1>3. clean => /\ UniqueNames
                 /\ teamOf = [u \in Users |-> IF u \in list \cap Existing THEN t ELSE wanted[u]]
    BY <1>1, <1>2, CleanFacts DEF Inv, Alone
  <1> HIDE DEF t, list
  <1>4. RowsHold /\ Placed' /\ teamOf' \in [Users -> Teams \cup {None}]
    <2>1. RowsHold
      BY <1>2 DEF RowsHold, Fits
    <2>2. \A u \in Users : teamOf'[u] \in Teams => teamOf'[u] = teamOf[u]
      BY <1>2, NoneAssumption
    <2> QED
      BY <1>2, <2>1, <2>2 DEF Placed, Existing, Fits, TypeOK
  <1>5. wanted' \in [Users -> Teams \cup {None}]
    BY <1>2, ReassignTypes
  <1>6. clean' => UniqueNames' /\ teamOf' = wanted'
    <2> SUFFICES ASSUME clean PROVE UniqueNames' /\ teamOf' = wanted'
      BY <1>2
    <2>1. wanted' = [u \in Users |-> IF u \in list \cap Existing THEN t
                                    ELSE IF wanted[u] = t THEN None ELSE wanted[u]]
      BY <1>2 DEF Reassign
    <2>2. ASSUME NEW u \in Users
          PROVE  teamOf'[u] = wanted'[u]
      <3>1. CASE u \in list \cap Existing
        BY <1>2, <1>3, <2>1, <3>1
      <3>2. CASE u \notin list
        BY <1>2, <1>3, <2>1, <3>2
      <3>3. CASE u \in list /\ u \notin Existing
        <4>1. teamOf[u] = wanted[u] /\ teamOf[u] # t
          BY <1>2, <1>3, <3>3 DEF Placed
        <4> QED
          BY <1>2, <2>1, <3>3, <4>1
      <3> QED
        BY <3>1, <3>2, <3>3
    <2>3. teamOf' = wanted'
      BY <1>2, <2>1, <2>2
    <2> QED
      BY <1>2, <1>3, <2>3 DEF UniqueNames
  <1> QED
    BY <1>2, <1>4, <1>5, <1>6, IdleFacts, WriteInv DEF TypeOK

\* A request that dies half-way loses clean, and breaks nothing that holds without it.
LEMMA RequestDiesInv ==
  ASSUME Inv, NEW r \in Requests, RequestDies(r)
  PROVE  Inv'
  <1>1. /\ TypeOK /\ Placed /\ req[r] # Idle
        /\ req' = [req EXCEPT ![r] = Idle] /\ clean' = FALSE /\ wanted' = Nobody
        /\ UNCHANGED <<name, company, role, teamOf, owner, manager, moved>>
    BY DEF Inv, RequestDies, End, rows
  <1>2. RowsHold /\ Placed'
    BY <1>1 DEF RowsHold, Fits, Placed, Existing
  <1>3. wanted' \in [Users -> Teams \cup {None}]
    BY <1>1 DEF Nobody
  <1> QED
    BY <1>1, <1>2, <1>3, IdleFacts, WriteInv DEF TypeOK

\* Every step preserves Inv.
LEMMA InvNext ==
  ASSUME Inv, [Next]_vars
  PROVE  Inv'
  <1>1. ASSUME NEW r \in Requests, Arrives(r)
        PROVE  Inv'
    BY <1>1, ArrivesInv
  <1>2. ASSUME NEW r \in Requests, Continues(r)
        PROVE  Inv'
    BY <1>2, CompanyCommitInv, UserInsertInv, UserUpdateWriteInv, DeleteWriteInv,
       TeamInsertInv, TeamFillInv, UpdateTeamInv, UpdateJoinInv, UpdateLeaveInv,
       RequestDiesInv DEF Continues
  <1>3. CASE UNCHANGED vars
    BY <1>3 DEF vars, rows, Inv, TypeOK, Placed, Fits, Existing, Pending, Sound, Serial, Alone,
       UniqueNames
  <1> QED
    BY <1>1, <1>2, <1>3 DEF Next

----------------------------------------------------------------------------
(* What holds of the organisation *)

\* Inv holds of every reachable state, with any requests in flight.
THEOREM InvHolds == Spec => []Inv
  BY InitInv, InvNext, PTL DEF Spec

\* Rows, requests and histories have their types; a team has a company iff it has a manager.
THEOREM TypeCorrect == Spec => []TypeOK
  <1>1. Inv => TypeOK
    BY DEF Inv
  <1> QED
    BY <1>1, InvHolds, PTL

\* MembersInCompany: through every overlap and death of requests, who is in a team that was
\* not given away is of the team's company.
THEOREM MembersInCompanyHolds == Spec => []MembersInCompany
  <1>1. Inv => MembersInCompany
    BY NoneAssumption DEF Inv, Placed, Fits, MembersInCompany, Existing
  <1> QED
    BY <1>1, InvHolds, PTL

\* OneCompanyPerName: the service's own check suffices while requests do not overlap.
THEOREM OneCompanyPerNameHolds == Spec => []OneCompanyPerName
  <1>1. Inv => OneCompanyPerName
    BY DEF Inv, Serial, UniqueNames, OneCompanyPerName
  <1> QED
    BY <1>1, InvHolds, PTL

\* MembersAsListed: while requests do not overlap, the writes of creations and updates
\* leave exactly the teams that the lists so far ask for.
THEOREM MembersAsListedHolds == Spec => []MembersAsListed
  <1>1. Inv => MembersAsListed
    BY DEF Inv, Serial, MembersAsListed, Idle
  <1> QED
    BY <1>1, InvHolds, PTL

\* A user who appears takes nobody's role away.
LEMMA BornLeavesAdmins ==
  ASSUME TypeOK, NEW u \in Users, company[u] = "unborn",
         NEW c \in Companies, NEW x, company' = [company EXCEPT ![u] = c],
         role' = [role EXCEPT ![u] = x], Having({"ADMIN"}) # {}
  PROVE  Having({"ADMIN", "MASTER"})' # {}
  <1>1. PICK a \in Existing : role[a] = "ADMIN"
    BY DEF Having
  <1>2. a \in Users /\ a # u
    BY NoneAssumption DEF Existing
  <1>3. company'[a] = company[a] /\ role'[a] = role[a]
    BY <1>2 DEF TypeOK
  <1>4. a \in Existing' /\ role'[a] \in {"ADMIN", "MASTER"}
    BY <1>1, <1>3 DEF Existing
  <1> QED
    BY <1>4 DEF Having

\* AdminRemains: while requests do not overlap, whoever may delete is not who is deleted
\* and, unless an ADMIN or MASTER, may delete no ADMIN; so of all companies together
\* deletions leave one ADMIN or a MASTER.
THEOREM AdminRemainsHolds == Spec => AdminRemains
  <1>1. ASSUME Inv, [Next]_vars, clean', Having({"ADMIN"}) # {}, Existing' # Existing
        PROVE  Having({"ADMIN", "MASTER"})' # {}
    <2>0. TypeOK
      BY <1>1 DEF Inv
    <2>1. company' # company
      BY <1>1 DEF Existing
    <2>2. PICK r \in Requests : CompanyCommit(r) \/ UserInsert(r) \/ DeleteWrite(r)
      <3>1. ASSUME NEW r \in Requests, Arrives(r)
            PROVE  company' = company
        BY <3>1 DEF Arrives, rows, CompanyBegin, UserBegin, UserUpdateBegin, DeleteBegin,
           TeamBegin, UpdateBegin
      <3>2. ASSUME NEW r \in Requests, Continues(r)
            PROVE  CompanyCommit(r) \/ UserInsert(r) \/ DeleteWrite(r) \/ company' = company
        BY <3>2 DEF Continues, rows, UserUpdateWrite, TeamInsert, TeamFill, UpdateTeam,
           UpdateJoin, UpdateLeave, RequestDies
      <3> QED
        BY <1>1, <2>1, <3>1, <3>2 DEF Next, vars, rows
    <2>3. req[r] \in ReqType
      BY <2>0 DEF TypeOK
    <2>4. CASE CompanyCommit(r)
      <3>1. /\ req[r].user \in Users /\ company[req[r].user] = "unborn"
            /\ role' = [role EXCEPT ![req[r].user] = "ADMIN"]
            /\ \E c \in Companies : company' = [company EXCEPT ![req[r].user] = c]
        BY <2>1, <2>3, <2>4, ReqFields DEF CompanyCommit
      <3> QED
        BY <1>1, <2>0, <3>1, BornLeavesAdmins
    <2>5. CASE UserInsert(r)
      <3>1. /\ req[r].user \in Users /\ company[req[r].user] = "unborn"
            /\ role' = [role EXCEPT ![req[r].user] = req[r].role]
            /\ req[r].company \in Companies
            /\ company' = [company EXCEPT ![req[r].user] = req[r].company]
        BY <2>1, <2>3, <2>5, ReqFields DEF UserInsert
      <3> QED
        BY <1>1, <2>0, <3>1, BornLeavesAdmins
    <2>6. CASE DeleteWrite(r)
      <3> DEFINE u == req[r].user
      <3>1. /\ u \in Users /\ req[r].pc = "delete" /\ req[r] # Idle /\ clean
            /\ company' = [company EXCEPT ![u] = "gone"]
            /\ role' = [role EXCEPT ![u] = None]
        BY <1>1, <2>1, <2>3, <2>6, ReqFields DEF DeleteWrite, Idle
      <3>2. role[u] # "ADMIN" \/ \E a \in Existing \ {u} : role[a] \in {"ADMIN", "MASTER"}
        BY <1>1, <2>0, <3>1, CleanFacts DEF Inv, Alone
      <3>3. PICK a \in Existing \ {u} : role[a] \in {"ADMIN", "MASTER"}
        <4>1. PICK b \in Existing : role[b] = "ADMIN"
          BY <1>1 DEF Having
        <4> QED
          BY <3>2, <4>1
      <3>4. a \in Users /\ a # u
        BY <3>3 DEF Existing
      <3>5. company'[a] = company[a] /\ role'[a] = role[a]
        BY <2>0, <3>1, <3>4 DEF TypeOK
      <3>6. a \in Existing'
        BY <3>3, <3>5 DEF Existing
      <3> QED
        BY <3>3, <3>5, <3>6 DEF Having
    <2> QED
      BY <2>2, <2>4, <2>5, <2>6
  <1>2. Inv /\ [Next]_vars =>
          [clean' /\ Having({"ADMIN"}) # {} /\ Existing' # Existing
             => Having({"ADMIN", "MASTER"})' # {}]_vars
    BY <1>1
  <1> QED
    BY <1>2, InvHolds, PTL DEF Spec, AdminRemains
============================================================================
