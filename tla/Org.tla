-------------------------------- MODULE Org --------------------------------
(***************************************************************************)
(* Companies, users and teams: who belongs where.  The services check in   *)
(* some statements and write in others; only the creation of a company is  *)
(* a transaction.                                                          *)
(*                                                                         *)
(* A user stands for an e-mail address, which is used once: the address of *)
(* a deleted user is not signed up again, since ids are never reused.      *)
(* Names, passwords and changes of address do not appear; an update that   *)
(* is refused for its address is refused.                                  *)
(***************************************************************************)
EXTENDS Naturals

CONSTANTS
  Users, Companies, Teams,
  CompanyNames,
  Lists,       \* bound: the member lists requests carry
  GivenRoles,  \* bound: the roles requests carry
  Requests,    \* requests in flight at once
  None         \* no row, no team, no list, no name

Roles == {"MASTER", "ADMIN", "MANAGER", "EMPLOYEE"}

ASSUME RolesAssumption == GivenRoles \subseteq Roles
ASSUME ListsAssumption == Lists \subseteq SUBSET Users
ASSUME NoneAssumption ==
  /\ None \notin Companies \cup Teams \cup CompanyNames \cup Users
  /\ {"unborn", "gone"} \cap Companies = {}

VARIABLES
  name,       \* of each company
  company,    \* of each user
  role,       \* of each user
  teamOf,     \* users.teamId
  owner,      \* teams.companyId
  manager,    \* teams.managerId
  req,        \* the requests in flight
  moved,      \* teams that were given another company (history)
  wanted,     \* while clean, the team each user has by the lists so far (history)
  clean       \* no two requests overlapped and none died on its way (history)

rows == <<name, company, role, teamOf, owner, manager>>
vars == <<rows, req, moved, wanted, clean>>

\* "unborn" and "gone" are not rows.
Existing == {u \in Users : company[u] \in Companies}
Members(t) == {u \in Existing : teamOf[u] = t}

Nobody == [u \in Users |-> None]

Idle == [pc |-> "idle"]

Init ==
  /\ name = [c \in Companies |-> None]
  /\ company = [u \in Users |-> "unborn"]
  /\ role = Nobody
  /\ teamOf = Nobody
  /\ owner = [t \in Teams |-> None]
  /\ manager = [t \in Teams |-> None]
  /\ req = [r \in Requests |-> Idle]
  /\ moved = {}
  /\ wanted = Nobody
  /\ clean = TRUE

----------------------------------------------------------------------------
(* Requests *)

Begin(r, record) ==
  /\ req[r] = Idle
  /\ req' = [req EXCEPT ![r] = record]
  /\ clean' = (clean /\ \A o \in Requests : req[o] = Idle)
  /\ wanted' = IF clean' THEN wanted ELSE Nobody

Goto(r, pc) == req' = [req EXCEPT ![r].pc = pc]
End(r)      == req' = [req EXCEPT ![r] = Idle]

\* RolesGuard: a MASTER passes every one.
HasRole(u, roles) == u \in Existing /\ role[u] \in roles \cup {"MASTER"}

\* The lists: all exist and are of one company.
AllOf(list, c) == \A u \in list : u \in Existing /\ company[u] = c

Listed(list) == IF list = None THEN {} ELSE list

\* The team of everybody once t has exactly the members of the list.
Reassign(t, list) ==
  wanted' = IF ~clean THEN wanted
            ELSE [u \in Users |-> IF u \in list THEN t
                                  ELSE IF wanted[u] = t THEN None ELSE wanted[u]]

----------------------------------------------------------------------------
(* Companies *)

\* Mistaken variants (here and below), which the code does not have: they show
\* that a property notices a slip in the operation that follows.
CompanyBegin_Unchecked(r, u, n) ==
  /\ company[u] = "unborn"
  /\ Begin(r, [pc |-> "company", user |-> u, name |-> n])
  /\ UNCHANGED <<rows, moved>>

\* CompanyCreateService: neither the address nor the name is in use.
CompanyBegin(r, u, n) ==
  /\ company[u] = "unborn"
  /\ n \notin {name[c] : c \in Companies}
  /\ Begin(r, [pc |-> "company", user |-> u, name |-> n])
  /\ UNCHANGED <<rows, moved>>

\* Its transaction; the unique address decides between two.
CompanyCommit(r) ==
  /\ req[r].pc = "company"
  /\ \/ /\ company[req[r].user] = "unborn"
        /\ \E c \in Companies :
             /\ name[c] = None
             /\ name' = [name EXCEPT ![c] = req[r].name]
             /\ company' = [company EXCEPT ![req[r].user] = c]
             /\ role' = [role EXCEPT ![req[r].user] = "ADMIN"]
     \/ /\ company[req[r].user] # "unborn"
        /\ UNCHANGED <<name, company, role>>
  /\ End(r)
  /\ UNCHANGED <<teamOf, owner, manager, moved, wanted, clean>>

----------------------------------------------------------------------------
(* Users *)

\* UserCreateService: the address is not in use, the company is the creator's.
UserBegin(r, by, u, x) ==
  /\ HasRole(by, {"ADMIN", "MANAGER"})
  /\ company[u] = "unborn"
  /\ Begin(r, [pc |-> "user", user |-> u, company |-> company[by], role |-> x])
  /\ UNCHANGED <<rows, moved>>

\* The insert, unless the unique address refuses it.
UserInsert(r) ==
  /\ req[r].pc = "user"
  /\ LET u == req[r].user IN
       IF company[u] = "unborn"
       THEN /\ company' = [company EXCEPT ![u] = req[r].company]
            /\ role' = [role EXCEPT ![u] = req[r].role]
       ELSE UNCHANGED <<company, role>>
  /\ End(r)
  /\ UNCHANGED <<name, teamOf, owner, manager, moved, wanted, clean>>

\* UserUpdateService up to its write: a manager only in the own company, and does
\* not give the role ADMIN.
UserUpdateBegin(r, by, u, x) ==
  /\ HasRole(by, {"ADMIN", "MANAGER"})
  /\ u \in Existing
  /\ role[by] = "MANAGER" => company[u] = company[by] /\ x # "ADMIN"
  /\ Begin(r, [pc |-> "role", user |-> u, role |-> x])
  /\ UNCHANGED <<rows, moved>>

\* The write; the row may be gone, or its new address taken.
UserUpdateWrite(r) ==
  /\ req[r].pc = "role"
  /\ \/ /\ req[r].user \in Existing
        /\ role' = [role EXCEPT ![req[r].user] = req[r].role]
     \/ UNCHANGED role
  /\ End(r)
  /\ UNCHANGED <<name, company, teamOf, owner, manager, moved, wanted, clean>>

DeleteBegin_Oneself(r, by, u) ==
  /\ HasRole(by, {"ADMIN", "MANAGER"}) /\ u \in Existing
  /\ role[by] = "MANAGER" => company[u] = company[by] /\ role[u] # "ADMIN"
  /\ Begin(r, [pc |-> "delete", user |-> u])
  /\ UNCHANGED <<rows, moved>>

\* UserDeleteService up to its write: not oneself, a manager only in the own company
\* and no ADMIN.
DeleteBegin(r, by, u) ==
  /\ HasRole(by, {"ADMIN", "MANAGER"}) /\ u \in Existing \ {by}
  /\ role[by] = "MANAGER" => company[u] = company[by] /\ role[u] # "ADMIN"
  /\ Begin(r, [pc |-> "delete", user |-> u])
  /\ UNCHANGED <<rows, moved>>

\* The write; the row may be gone, and a foreign key holds the managers of teams.
DeleteWrite(r) ==
  /\ req[r].pc = "delete"
  /\ LET u == req[r].user IN
       IF u \in Existing /\ \A t \in Teams : manager[t] # u
       THEN /\ company' = [company EXCEPT ![u] = "gone"]
            /\ role' = [role EXCEPT ![u] = None]
            /\ teamOf' = [teamOf EXCEPT ![u] = None]
            /\ wanted' = [wanted EXCEPT ![u] = None]
       ELSE UNCHANGED <<company, role, teamOf, wanted>>
  /\ End(r)
  /\ UNCHANGED <<name, owner, manager, moved, clean>>

----------------------------------------------------------------------------
(* Teams *)

\* TeamCreateService up to the insert.  The manager is not looked up.
TeamBegin(r, by, m, list) ==
  /\ HasRole(by, {"ADMIN"})
  /\ AllOf(list, company[by])
  /\ Begin(r, [pc |-> "team", manager |-> m, company |-> company[by], list |-> list])
  /\ UNCHANGED <<rows, moved>>

\* The insert; the foreign key refuses a manager who is not there.
TeamInsert(r) ==
  /\ req[r].pc = "team"
  /\ \/ /\ req[r].manager \in Existing
        /\ \E t \in Teams :
             /\ owner[t] = None
             /\ owner' = [owner EXCEPT ![t] = req[r].company]
             /\ manager' = [manager EXCEPT ![t] = req[r].manager]
             /\ IF req[r].list = {} THEN End(r)
                ELSE req' = [req EXCEPT ![r] =
                       [pc |-> "fill", team |-> t, list |-> req[r].list]]
     \/ /\ req[r].manager \notin Existing
        /\ End(r)
        /\ UNCHANGED <<owner, manager>>
  /\ UNCHANGED <<name, company, role, teamOf, moved, wanted, clean>>

\* updateMany of the members of a new team.
TeamFill(r) ==
  /\ req[r].pc = "fill"
  /\ teamOf' = [u \in Users |-> IF u \in req[r].list \cap Existing THEN req[r].team ELSE teamOf[u]]
  /\ Reassign(req[r].team, req[r].list \cap Existing)
  /\ End(r)
  /\ UNCHANGED <<name, company, role, owner, manager, moved, clean>>

UpdateBegin_AnyMembers(r, by, t, c, list) ==
  /\ HasRole(by, {"ADMIN", "MANAGER"})
  /\ owner[t] # None
  /\ c # None => name[c] # None
  /\ role[by] = "MANAGER" => owner[t] = company[by] /\ c \in {None, owner[t]}
  /\ Listed(list) \subseteq Existing
  /\ Begin(r, [pc |-> "update", team |-> t, company |-> c, list |-> list])
  /\ UNCHANGED <<rows, moved>>

\* TeamUpdateService up to the first write.  c is the new company or None, list the
\* new members or None.
UpdateBegin(r, by, t, c, list) ==
  /\ HasRole(by, {"ADMIN", "MANAGER"})
  /\ owner[t] # None
  /\ c # None => name[c] # None
  /\ role[by] = "MANAGER" => owner[t] = company[by] /\ c \in {None, owner[t]}
  /\ AllOf(Listed(list), IF c = None THEN owner[t] ELSE c)
  /\ Begin(r, [pc |-> "update", team |-> t, company |-> c, list |-> list])
  /\ UNCHANGED <<rows, moved>>

\* Its three writes.
UpdateTeam(r) ==
  /\ req[r].pc = "update"
  /\ LET t == req[r].team  c == req[r].company IN
       /\ owner' = [owner EXCEPT ![t] = IF c = None THEN @ ELSE c]
       /\ moved' = IF c \in {None, owner[t]} THEN moved ELSE moved \cup {t}
  /\ IF req[r].list = None THEN End(r) ELSE Goto(r, "join")
  /\ UNCHANGED <<name, company, role, teamOf, manager, wanted, clean>>

UpdateJoin(r) ==
  /\ req[r].pc = "join"
  /\ teamOf' = [u \in Users |-> IF u \in req[r].list \cap Existing THEN req[r].team ELSE teamOf[u]]
  /\ Goto(r, "leave")
  /\ UNCHANGED <<name, company, role, owner, manager, moved, wanted, clean>>

UpdateLeave_Nobody(r) ==
  /\ req[r].pc = "leave"
  /\ Reassign(req[r].team, req[r].list \cap Existing)
  /\ End(r)
  /\ UNCHANGED <<rows, moved, clean>>

UpdateLeave(r) ==
  /\ req[r].pc = "leave"
  /\ teamOf' = [u \in Users |-> IF teamOf[u] = req[r].team /\ u \notin req[r].list
                                THEN None ELSE teamOf[u]]
  /\ Reassign(req[r].team, req[r].list \cap Existing)
  /\ End(r)
  /\ UNCHANGED <<name, company, role, owner, manager, moved, clean>>

\* A statement fails or the process dies: what was written stays.
RequestDies(r) ==
  /\ req[r] # Idle
  /\ End(r)
  /\ clean' = FALSE
  /\ wanted' = Nobody
  /\ UNCHANGED <<rows, moved>>

----------------------------------------------------------------------------
Arrives(r) ==
  /\ req[r] = Idle
  /\ \/ \E u \in Users, n \in CompanyNames : CompanyBegin(r, u, n)
     \/ \E by, u \in Users, x \in GivenRoles : UserBegin(r, by, u, x) \/ UserUpdateBegin(r, by, u, x)
     \/ \E by, u \in Users : DeleteBegin(r, by, u)
     \/ \E by, m \in Users, list \in Lists : TeamBegin(r, by, m, list)
     \/ \E by \in Users, t \in Teams, c \in Companies \cup {None}, list \in Lists \cup {None} :
          UpdateBegin(r, by, t, c, list)

Continues(r) ==
  \/ CompanyCommit(r)
  \/ UserInsert(r) \/ UserUpdateWrite(r) \/ DeleteWrite(r)
  \/ TeamInsert(r) \/ TeamFill(r)
  \/ UpdateTeam(r) \/ UpdateJoin(r) \/ UpdateLeave(r)
  \/ RequestDies(r)

Next == \E r \in Requests : Arrives(r) \/ Continues(r)

Spec == Init /\ [][Next]_vars

----------------------------------------------------------------------------
(* Properties *)

ReqType ==
  {Idle}
  \cup [pc : {"company"}, user : Users, name : CompanyNames]
  \cup [pc : {"user"}, user : Users, company : Companies, role : GivenRoles]
  \cup [pc : {"role"}, user : Users, role : GivenRoles]
  \cup [pc : {"delete"}, user : Users]
  \cup [pc : {"team"}, manager : Users, company : Companies, list : Lists]
  \cup [pc : {"fill"}, team : Teams, list : Lists]
  \cup [pc : {"update", "join", "leave"}, team : Teams,
        company : Companies \cup {None}, list : Lists \cup {None}]

TypeOK ==
  /\ name \in [Companies -> CompanyNames \cup {None}]
  /\ company \in [Users -> Companies \cup {"unborn", "gone"}]
  /\ role \in [Users -> GivenRoles \cup {"ADMIN", None}]
  /\ teamOf \in [Users -> Teams \cup {None}]
  /\ owner \in [Teams -> Companies \cup {None}]
  /\ manager \in [Teams -> Users \cup {None}]
  /\ \A t \in Teams : owner[t] = None <=> manager[t] = None
  /\ req \in [Requests -> ReqType]
  /\ moved \subseteq Teams
  /\ wanted \in [Users -> Teams \cup {None}]
  /\ clean \in BOOLEAN

\* CompanyCreateService, "Company name already in use": no two companies have one
\* name as long as requests do not overlap (the column has no unique index).
OneCompanyPerName ==
  clean => \A c, d \in Companies : name[c] = name[d] /\ name[c] # None => c = d

\* "All members must belong to the same company as the team": through every overlap
\* and death, for every team that was not given to another company.
MembersInCompany ==
  \A u \in Existing : teamOf[u] \in Teams \ moved => company[u] = owner[teamOf[u]]

\* Between requests that do not overlap, the members of each team are those of the
\* last list given for it, less the ones other lists have taken since.
MembersAsListed == clean /\ (\A r \in Requests : req[r] = Idle) => teamOf = wanted

Having(roles) == {u \in Existing : role[u] \in roles}

\* "You cannot delete yourself", "Managers cannot delete ADMIN users": as long as
\* requests do not overlap, no deletion takes the last ADMIN of all companies, unless a
\* MASTER stays.  A single company may lose its only one, to an ADMIN of another or by
\* a change of role.
AdminRemains ==
  [][clean' /\ Having({"ADMIN"}) # {} /\ Existing' # Existing
       => Having({"ADMIN", "MASTER"})' # {}]_vars
=============================================================================
