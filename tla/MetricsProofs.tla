---------------------------- MODULE MetricsProofs ----------------------------
(***************************************************************************)
(* Theorems about Metrics, for any tasks, teams, users and priorities, any *)
(* order of the queries and any number of writes between them, each of any *)
(* number of rows: how far the numbers of one report can be apart.         *)
(***************************************************************************)
EXTENDS Metrics, FiniteSetTheorems, TLAPS

(* What the invariant speaks of *)

\* What other requests do.
Write ==
  \/ \E t \in Tasks : ChangeTask(t)
  \/ \E g \in Teams : MoveTeam(g)
  \/ \E U \in SUBSET Users : ChangeTeam(U)
  \/ \E u \in Users : DeleteUser(u)

\* The tasks a number counts, at this moment.
Counted == [k \in Numbers |-> {t \in Scope : Where(k, t)}]

\* A number as it was read, or as it would be read now: reading it does not change it.
Value == [k \in Numbers |-> IF report[k] = NotRead THEN Cardinality(Counted[k]) ELSE report[k]]

\* The same for the direct reports of a manager,
CountedOf == [k \in StaffKeys |-> StaffTasks(k)]
ValueOf ==
  [k \in StaffKeys |-> IF tally[k] = NotRead THEN Cardinality(CountedOf[k]) ELSE tally[k]]
OldOf(u) == {t \in query.old : TeamOf[t] = MyTeam /\ Assignee[t] = u}

\* and for the size of the team.
Members == IF report["members"] = NotRead THEN Cardinality(member) ELSE report["members"]
Ahead == {u \in member : Done(u) > Done(caller)}

\* Without a status in the query: a task has one status, so a changed row moves the shown
\* statuses together by no more than one beyond what it moves the total.
Statuses ==
  query.status = NoFilter =>
    /\ Value["PENDING"] + Value["IN_PROGRESS"] + Value["COMPLETED"] <= Value["total"] + changes
    /\ Value["overdue"] + Value["COMPLETED"] <= Value["total"] + changes

\* What a direct report has completed was assigned in the period or before it.
Rates ==
  \A u \in Users :
    ValueOf[<<"completed", u>>]
      <= ValueOf[<<"assigned", u>>] + changes + Cardinality(OldOf(u))

\* A place among the members is no farther back than there were members.
Ranks ==
  role = "EMPLOYEE" =>
    /\ changes = 0 => caller \in member
    /\ report["rank"] = NotRead => Cardinality(member) <= Members + changes
    /\ report["rank"] # NotRead =>
         /\ report["rank"] <= Members + changes
         /\ report["rank"] = 0 => changes > 0
         /\ changes = 0 => Cardinality(Ahead) < report["rank"]

\* A function of numbers as pairs, one for each thing it counts.
Pairs(f, S) == UNION {{x} \X (1..f[x]) : x \in S}

\* The numbers of the priorities, added up: those that are read, and the tasks of those
\* that are not.  They move with the total.
ReadOnes == {p \in Priorities : report[p] # NotRead}
Open == {t \in Scope : /\ Matches(task[t].status, query.status)
                       /\ report[task[t].priority] = NotRead}
ByPriority == Cardinality(Pairs(report, ReadOnes)) + Cardinality(Open)

Sums == query.priority = NoFilter => Near(ByPriority, Value["total"])

Inv == TypeOK /\ Statuses /\ Rates /\ Ranks /\ Sums

----------------------------------------------------------------------------
(* Counting *)

\* A set that grows and shrinks by elements of X only.
LEMMA Turn ==
  ASSUME NEW A, NEW B, NEW X, IsFiniteSet(A), IsFiniteSet(X), A \ X = B \ X
  PROVE  /\ IsFiniteSet(B) /\ Cardinality(A) \in Nat /\ Cardinality(B) \in Nat
         /\ Cardinality(B) + Cardinality(A \cap X) = Cardinality(A) + Cardinality(B \cap X)
  <1> DEFINE C == A \ X
             D == A \cap X
             E == B \cap X
  <1>1. /\ A = C \cup D /\ B = C \cup E /\ C \cap D = {} /\ C \cap E = {}
        /\ C \in SUBSET A /\ D \in SUBSET X /\ E \in SUBSET X
    OBVIOUS
  <1> HIDE DEF C, D, E
  <1>2. IsFiniteSet(C) /\ IsFiniteSet(D) /\ IsFiniteSet(E)
    BY <1>1, FS_Subset
  <1>3. Cardinality(C) \in Nat /\ Cardinality(D) \in Nat /\ Cardinality(E) \in Nat
    BY <1>2, FS_CardinalityType
  <1>4. Cardinality(C \cap D) = 0 /\ Cardinality(C \cap E) = 0
    BY <1>1, FS_EmptySet
  <1>5. Cardinality(C \cup D) = Cardinality(C) + Cardinality(D) - Cardinality(C \cap D)
    BY <1>2, FS_Union
  <1>6. /\ IsFiniteSet(C \cup E)
        /\ Cardinality(C \cup E) = Cardinality(C) + Cardinality(E) - Cardinality(C \cap E)
    BY <1>2, FS_Union
  <1>7. /\ Cardinality(A) = Cardinality(C) + Cardinality(D)
        /\ IsFiniteSet(B) /\ Cardinality(B) = Cardinality(C) + Cardinality(E)
    BY <1>1, <1>3, <1>4, <1>5, <1>6
  <1> QED
    BY <1>3, <1>7 DEF D, E

\* A part of X is no larger than X.
LEMMA PartOf ==
  ASSUME NEW X, IsFiniteSet(X), NEW A
  PROVE  /\ IsFiniteSet(A \cap X) /\ Cardinality(A \cap X) \in 0..Cardinality(X)
         /\ Cardinality(X) \in Nat
  <1>1. A \cap X \in SUBSET X
    OBVIOUS
  <1>2. IsFiniteSet(A \cap X) /\ Cardinality(A \cap X) <= Cardinality(X)
    BY <1>1, FS_Subset
  <1> QED
    BY <1>2, FS_CardinalityType

\* Sets that are apart in a finite set have together no more elements than it has.
LEMMA Apart ==
  ASSUME NEW S, IsFiniteSet(S), NEW A \in SUBSET S, NEW B \in SUBSET S, A \cap B = {}
  PROVE  /\ Cardinality(A) + Cardinality(B) <= Cardinality(S)
         /\ Cardinality(A \cup B) = Cardinality(A) + Cardinality(B)
         /\ Cardinality(A) \in Nat /\ Cardinality(B) \in Nat /\ Cardinality(S) \in Nat
  <1>1. IsFiniteSet(A) /\ IsFiniteSet(B) /\ A \cup B \in SUBSET S
    BY FS_Subset
  <1>2. Cardinality(A \cup B) = Cardinality(A) + Cardinality(B) - Cardinality(A \cap B)
    BY <1>1, FS_Union
  <1>3. Cardinality(A \cap B) = 0
    BY FS_EmptySet
  <1>4. Cardinality(A \cup B) <= Cardinality(S)
    BY <1>1, FS_Subset
  <1>5. Cardinality(A) \in Nat /\ Cardinality(B) \in Nat /\ Cardinality(S) \in Nat
    BY <1>1, FS_CardinalityType
  <1> QED
    BY <1>2, <1>3, <1>4, <1>5

----------------------------------------------------------------------------
(* Sums *)

\* Of each thing there are as many pairs as its number says.
LEMMA PairsAre ==
  ASSUME NEW S, IsFiniteSet(S), NEW f, \A x \in S : f[x] \in Nat
  PROVE  /\ IsFiniteSet(Pairs(f, S)) /\ Cardinality(Pairs(f, S)) \in Nat
         /\ \A x \in S : Cardinality(Pairs(f, S)) = f[x] + Cardinality(Pairs(f, S \ {x}))
  <1>1. ASSUME NEW x \in S
        PROVE  IsFiniteSet({x} \X (1..f[x])) /\ Cardinality({x} \X (1..f[x])) = f[x]
    <2>1. f[x] \in Nat /\ 1 \in Int /\ f[x] \in Int /\ (1 > f[x] => f[x] = 0) /\ f[x] - 1 + 1 = f[x]
      OBVIOUS
    <2>2. IsFiniteSet(1..f[x]) /\ Cardinality(1..f[x]) = f[x]
      BY <2>1, FS_Interval
    <2>3. IsFiniteSet({x}) /\ Cardinality({x}) = 1
      BY FS_Singleton
    <2>4. Cardinality({x} \X (1..f[x])) = 1 * f[x] /\ IsFiniteSet({x} \X (1..f[x]))
      BY <2>2, <2>3, FS_Product
    <2> QED
      BY <2>1, <2>4
  <1>2. ASSUME NEW T \in SUBSET S
        PROVE  IsFiniteSet(Pairs(f, T))
    <2> DEFINE g == [x \in T |-> {x} \X (1..f[x])]
               Blocks == {{x} \X (1..f[x]) : x \in T}
    <2>1. g \in Surjection(T, Blocks)
      BY DEF Surjection
    <2>2. IsFiniteSet(T)
      BY FS_Subset
    <2>3. IsFiniteSet(Blocks)
      <3> HIDE DEF g, Blocks
      <3> QED BY <2>1, <2>2, FS_Surjection
    <2>4. \A B \in Blocks : IsFiniteSet(B)
      BY <1>1
    <2> QED
      BY <2>3, <2>4, FS_UNION DEF Pairs
  <1>3. ASSUME NEW x \in S
        PROVE  Cardinality(Pairs(f, S)) = f[x] + Cardinality(Pairs(f, S \ {x}))
    <2> DEFINE A == Pairs(f, S \ {x})
               B == {x} \X (1..f[x])
    <2>1. Pairs(f, S) = A \cup B /\ A \cap B = {}
      BY DEF Pairs
    <2>2. IsFiniteSet(A) /\ IsFiniteSet(B) /\ Cardinality(B) = f[x] /\ f[x] \in Nat
      BY <1>1, <1>2
    <2> HIDE DEF A, B
    <2>3. /\ Cardinality(A \cup B) = Cardinality(A) + Cardinality(B) - Cardinality(A \cap B)
      BY <2>2, FS_Union
    <2>4. Cardinality(A) \in Nat /\ Cardinality(A \cap B) = 0
      BY <2>1, <2>2, FS_CardinalityType, FS_EmptySet
    <2>5. Cardinality(A \cup B) = f[x] + Cardinality(A)
      BY <2>2, <2>3, <2>4
    <2> QED
      BY <2>1, <2>5 DEF A
  <1>4. Cardinality(Pairs(f, S)) \in Nat
    BY <1>2, FS_CardinalityType
  <1> QED
    BY <1>2, <1>3, <1>4

\* The fold that adds up a function counts its pairs.  The fold is a function that is defined
\* by its own values on smaller sets, and the count satisfies the same equation.
LEMMA SumIs ==
  ASSUME NEW S, IsFiniteSet(S), NEW f, \A x \in S : f[x] \in Nat
  PROVE  FoldFunctionOnSet(+, 0, f, S) = Cardinality(Pairs(f, S))
  <1> DEFINE w == [s \in SUBSET S |-> Cardinality(Pairs(f, s))]
             pick(s) == CHOOSE x \in s : TRUE
             iter == CHOOSE h : h = [s \in SUBSET S |->
                       IF s = {} THEN 0 ELSE f[pick(s)] + h[s \ {pick(s)}]]
  <1>1. w = [s \in SUBSET S |-> IF s = {} THEN 0 ELSE f[pick(s)] + w[s \ {pick(s)}]]
    <2> SUFFICES ASSUME NEW s \in SUBSET S
                 PROVE  w[s] = IF s = {} THEN 0 ELSE f[pick(s)] + w[s \ {pick(s)}]
      OBVIOUS
    <2>1. CASE s = {}
      BY <2>1, FS_EmptySet DEF Pairs
    <2>2. CASE s # {}
      <3>1. pick(s) \in s
        BY <2>2
      <3>2. IsFiniteSet(s) /\ \A x \in s : f[x] \in Nat
        BY FS_Subset
      <3> DEFINE x == pick(s)
      <3>3. x \in s
        BY <3>1
      <3> HIDE DEF x
      <3>4. Cardinality(Pairs(f, s)) = f[x] + Cardinality(Pairs(f, s \ {x}))
        BY <3>2, <3>3, PairsAre
      <3>5. w[s] = f[x] + w[s \ {x}]
        BY <3>4
      <3> QED
        BY <2>2, <3>5 DEF x
    <2> QED
      BY <2>1, <2>2
  <1> HIDE DEF w
  <1>2. iter = [s \in SUBSET S |-> IF s = {} THEN 0 ELSE f[pick(s)] + iter[s \ {pick(s)}]]
    BY <1>1
  <1>3. FoldFunctionOnSet(+, 0, f, S) = iter[S]
    BY DEF FoldFunctionOnSet, MapThenFoldSet
  <1> HIDE DEF iter
  <1> DEFINE Bad == {s \in SUBSET S : iter[s] # w[s]}
  <1>4. ASSUME Bad # {} PROVE FALSE
    <2>1. Bad \subseteq FiniteSubsetsOf(S)
      BY FS_Subset DEF FiniteSubsetsOf
    <2>2. PICK s \in Bad : \A u \in Bad : ~ (<<u, s>> \in StrictSubsetOrdering(S))
      <3> HIDE DEF Bad
      <3> QED BY <1>4, <2>1, FS_StrictSubsetOrderingWellFounded, WFMin
    <2> DEFINE x == pick(s)
    <2>3. s # {} => x \in s
      OBVIOUS
    <2>4. s \in SUBSET S /\ iter[s] = (IF s = {} THEN 0 ELSE f[x] + iter[s \ {x}])
          /\ w[s] = (IF s = {} THEN 0 ELSE f[x] + w[s \ {x}])
      BY <1>1, <1>2
    <2> HIDE DEF x
    <2>5. s # {} /\ iter[s \ {x}] # w[s \ {x}]
      BY <2>4
    <2>6. s \ {x} \in Bad /\ <<s \ {x}, s>> \in StrictSubsetOrdering(S)
      BY <2>3, <2>4, <2>5 DEF StrictSubsetOrdering
    <2> QED
      BY <2>2, <2>6
  <1>5. iter[S] = w[S]
    BY <1>4
  <1> QED
    BY <1>3, <1>5 DEF w

----------------------------------------------------------------------------
(* What the values are *)

\* Every query counts tasks of a finite set.
LEMMA CountedFacts ==
  /\ \A k \in Numbers : /\ Counted[k] \subseteq Tasks /\ IsFiniteSet(Counted[k])
                        /\ Cardinality(Counted[k]) \in 0..Cardinality(Tasks)
                        /\ Cardinality(Counted[k]) = Number(k)
  /\ \A k \in StaffKeys : /\ CountedOf[k] \subseteq Tasks /\ IsFiniteSet(CountedOf[k])
                          /\ Cardinality(CountedOf[k]) \in 0..Cardinality(Tasks)
  /\ Cardinality(Tasks) \in Nat
  <1>1. ASSUME NEW S \in SUBSET Tasks
        PROVE  IsFiniteSet(S) /\ Cardinality(S) \in 0..Cardinality(Tasks)
    BY TasksAssumption, FS_Subset, FS_CardinalityType
  <1>2. \A k \in Numbers : Counted[k] \subseteq Tasks /\ Number(k) = Cardinality(Counted[k])
    BY DEF Counted, Number, Scope
  <1>3. \A k \in StaffKeys : CountedOf[k] \subseteq Tasks
    BY DEF CountedOf, StaffTasks
  <1>4. Cardinality(Tasks) \in Nat
    BY TasksAssumption, FS_CardinalityType
  <1> QED
    BY <1>1, <1>2, <1>3, <1>4

\* The members of a team are finitely many.
LEMMA MemberFacts ==
  ASSUME TypeOK
  PROVE  /\ IsFiniteSet(member)
         /\ Cardinality(member) \in 0..Cardinality(Users) /\ Cardinality(Users) \in Nat
  <1>1. member \subseteq Users
    BY DEF TypeOK
  <1> QED
    BY <1>1, UsersAssumption, FS_Subset, FS_CardinalityType

\* What the keys are called.
LEMMA KeyFacts ==
  /\ \A k \in {"PENDING", "IN_PROGRESS", "COMPLETED", "total", "overdue"} : k \in Numbers
  /\ Priorities \subseteq Numbers
  /\ \A k \in Numbers : k # "rank" /\ k # "members"
  /\ \A u \in Users : <<"assigned", u>> \in StaffKeys /\ <<"completed", u>> \in StaffKeys
  BY PrioritiesAssumption DEF Numbers, Shown, StaffKeys

\* Read or not, the values are numbers.
LEMMA ValueFacts ==
  ASSUME TypeOK
  PROVE  /\ \A k \in Numbers : Value[k] \in Nat
         /\ \A k \in StaffKeys : ValueOf[k] \in Nat
         /\ Members \in Nat /\ changes \in Nat
  <1>1. ASSUME NEW k \in Numbers PROVE Value[k] \in Nat
    <2>1. report[k] = NotRead \/ report[k] \in Nat
      BY CountedFacts, MemberFacts DEF TypeOK
    <2> QED
      BY <2>1, CountedFacts DEF Value
  <1>2. ASSUME NEW k \in StaffKeys PROVE ValueOf[k] \in Nat
    <2>1. tally[k] = NotRead \/ tally[k] \in Nat
      BY CountedFacts DEF TypeOK
    <2> QED
      BY <2>1, CountedFacts DEF ValueOf
  <1>3. Members \in Nat
    <2>1. report["members"] = NotRead \/ report["members"] \in Nat
      BY CountedFacts, MemberFacts DEF TypeOK, RankKeys
    <2> QED
      BY <2>1, MemberFacts DEF Members
  <1>4. changes \in Nat
    BY DEF TypeOK
  <1> QED
    BY <1>1, <1>2, <1>3, <1>4

\* A place in the team is one of its places, and behind those who completed more.
LEMMA RankFacts ==
  ASSUME TypeOK, NEW n \in Rank
  PROVE  /\ n \in Nat /\ n <= Cardinality(member)
         /\ caller \in member => Cardinality(Ahead) < n
  <1> DEFINE level == {u \in member : Done(u) = Done(caller)}
  <1>1. /\ Cardinality(Ahead) + Cardinality(level) <= Cardinality(member)
        /\ Cardinality(Ahead) \in Nat /\ Cardinality(level) \in Nat /\ Cardinality(member) \in Nat
    <2>1. \A u \in member : Done(u) \in Nat
      <3>1. ASSUME NEW u PROVE Done(u) \in Nat
        <4>1. {t \in Tasks : Assigned(t) = u /\ task[t].status = "COMPLETED"} \in SUBSET Tasks
          OBVIOUS
        <4> QED
          BY <4>1, TasksAssumption, FS_Subset, FS_CardinalityType DEF Done
      <3> QED
        BY <3>1
    <2>2. \A u \in member : ~(Done(u) > Done(caller) /\ Done(u) = Done(caller))
      <3>1. Done(caller) \in Nat
        <4>1. {t \in Tasks : Assigned(t) = caller /\ task[t].status = "COMPLETED"} \in SUBSET Tasks
          OBVIOUS
        <4> QED
          BY <4>1, TasksAssumption, FS_Subset, FS_CardinalityType DEF Done
      <3> QED
        BY <2>1, <3>1
    <2>3. Ahead \in SUBSET member /\ level \in SUBSET member /\ Ahead \cap level = {}
      BY <2>2 DEF Ahead
    <2> HIDE DEF level
    <2> QED
      BY <2>3, MemberFacts, Apart
  <1>2. CASE caller \notin member
    BY <1>1, <1>2 DEF Rank
  <1>3. CASE caller \in member
    <2>1. n \in (Cardinality(Ahead) + 1)..(Cardinality(Ahead) + Cardinality(level))
      BY <1>3 DEF Rank, Ahead
    <2> HIDE DEF level
    <2> QED
      BY <1>1, <2>1
  <1> QED
    BY <1>2, <1>3

----------------------------------------------------------------------------
(* The variables have their types *)

\* The report is asked for.
LEMMA TypeInit == Init => TypeOK
  <1> SUFFICES ASSUME Init PROVE TypeOK
    OBVIOUS
  <1>1. report \in [Numbers \cup RankKeys ->
                  {NotRead} \cup 0..(Cardinality(Tasks) + Cardinality(Users))]
    BY DEF Init
  <1>2. tally \in [StaffKeys -> {NotRead} \cup 0..Cardinality(Tasks)]
    BY DEF Init
  <1> QED
    BY <1>1, <1>2, TasksAssumption DEF Init, TypeOK

\* One write changes finitely many rows.
LEMMA TouchedAreFinite ==
  /\ \A g \in Teams : TasksOf(g) \subseteq Tasks /\ IsFiniteSet(TasksOf(g))
  /\ \A u \in Users : /\ TasksLeft(u) \subseteq Tasks /\ IsFiniteSet(TasksLeft(u))
                        /\ IsFiniteSet(TasksLeft(u) \cup {u})
  <1>1. /\ \A g \in Teams : TasksOf(g) \in SUBSET Tasks
        /\ \A u \in Users : TasksLeft(u) \in SUBSET Tasks
    BY DEF TasksOf, TasksLeft
  <1> QED
    BY <1>1, TasksAssumption, FS_Subset, FS_AddElement

\* Every step keeps the types.
LEMMA TypeNext ==
  ASSUME TypeOK, [Next]_vars
  PROVE  TypeOK'
  <1>1. CASE UNCHANGED vars
    BY <1>1 DEF TypeOK, vars
  <1>2. ASSUME NEW k \in Numbers, ReadNumber(k) PROVE TypeOK'
    <2>1. report' = [report EXCEPT ![k] = Number(k)]
      BY <1>2 DEF ReadNumber, Read
    <2>2. Number(k) \in 0..(Cardinality(Tasks) + Cardinality(Users))
      BY CountedFacts, MemberFacts
    <2>3. report' \in [Numbers \cup RankKeys ->
                  {NotRead} \cup 0..(Cardinality(Tasks) + Cardinality(Users))]
      BY <2>1, <2>2 DEF TypeOK
    <2> QED
      BY <1>2, <2>3 DEF TypeOK, ReadNumber, Read, data, asked
  <1>3. CASE ReadRank
    <2>1. PICK n \in Rank : report' = [report EXCEPT !["rank"] = n]
      BY <1>3 DEF ReadRank, Read
    <2>2. n \in 0..(Cardinality(Tasks) + Cardinality(Users))
      BY RankFacts, CountedFacts, MemberFacts
    <2>3. report' \in [Numbers \cup RankKeys ->
                  {NotRead} \cup 0..(Cardinality(Tasks) + Cardinality(Users))]
      BY <2>1, <2>2 DEF TypeOK
    <2> QED
      BY <1>3, <2>3 DEF TypeOK, ReadRank, Read, data, asked
  <1>4. CASE ReadMembers
    <2>1. report' = [report EXCEPT !["members"] = Cardinality(member)]
      BY <1>4 DEF ReadMembers, Read
    <2>2. Cardinality(member) \in 0..(Cardinality(Tasks) + Cardinality(Users))
      BY CountedFacts, MemberFacts
    <2>3. report' \in [Numbers \cup RankKeys ->
                  {NotRead} \cup 0..(Cardinality(Tasks) + Cardinality(Users))]
      BY <2>1, <2>2 DEF TypeOK
    <2> QED
      BY <1>4, <2>3 DEF TypeOK, ReadMembers, Read, data, asked
  <1>5. CASE ReadStaff
    BY <1>5 DEF TypeOK, ReadStaff, data, asked
  <1>6. ASSUME NEW k \in StaffKeys, ReadStaffTasks(k) PROVE TypeOK'
    <2>1. tally' = [tally EXCEPT ![k] = Cardinality(CountedOf[k])]
      BY <1>6 DEF ReadStaffTasks, CountedOf
    <2>2. tally' \in [StaffKeys -> {NotRead} \cup 0..Cardinality(Tasks)]
      BY <2>1, CountedFacts DEF TypeOK
    <2> QED
      BY <1>6, <2>2 DEF TypeOK, ReadStaffTasks, data, asked
  <1>7. ASSUME NEW rows, IsFiniteSet(rows), Change(rows)
        PROVE  changes' \in Nat
    BY <1>7, FS_CardinalityType DEF TypeOK, Change
  <1>8. ASSUME NEW t \in Tasks, ChangeTask(t) PROVE TypeOK'
    <2>1. task' \in [Tasks -> Rows \cup {Absent}]
      BY <1>8, TasksAssumption DEF TypeOK, ChangeTask
    <2>2. changes' \in Nat
      BY <1>7, <1>8, FS_Singleton DEF ChangeTask
    <2> QED
      BY <1>8, <2>1, <2>2 DEF TypeOK, ChangeTask, Change, asked
  <1>9. ASSUME NEW g \in Teams, MoveTeam(g) PROVE TypeOK'
    <2>1. company' \subseteq Teams
      BY <1>9 DEF TypeOK, MoveTeam
    <2>2. changes' \in Nat
      BY <1>7, <1>9, TouchedAreFinite DEF MoveTeam
    <2> QED
      BY <1>9, <2>1, <2>2 DEF TypeOK, MoveTeam, Change, asked
  <1>10. ASSUME NEW U \in SUBSET Users, ChangeTeam(U) PROVE TypeOK'
    <2>1. member' \subseteq users
      BY <1>10 DEF TypeOK, ChangeTeam
    <2>2. changes' \in Nat
      BY <1>7, <1>10, UsersAssumption, FS_Subset DEF ChangeTeam
    <2> QED
      BY <1>10, <2>1, <2>2 DEF TypeOK, ChangeTeam, Change, asked
  <1>11. ASSUME NEW u \in Users, DeleteUser(u) PROVE TypeOK'
    <2>1. users' \subseteq Users /\ member' \subseteq users'
      BY <1>11 DEF TypeOK, DeleteUser
    <2>2. changes' \in Nat
      BY <1>7, <1>11, TouchedAreFinite DEF DeleteUser
    <2> QED
      BY <1>11, <2>1, <2>2 DEF TypeOK, DeleteUser, Change, asked
  <1> QED
    BY <1>1, <1>2, <1>3, <1>4, <1>5, <1>6, <1>8, <1>9, <1>10, <1>11 DEF Next

\* The numbers of a report are counts of tasks and people, and no more than there are.
THEOREM TypeCorrect == Spec => []TypeOK
  BY TypeInit, TypeNext, PTL DEF Spec

----------------------------------------------------------------------------
(* How the values change *)

\* Neither the row of a task nor where it is counted changes.
Untouched(t) ==
  /\ task'[t] = task[t]
  /\ t \in Scope' <=> t \in Scope
  /\ \A k \in StaffKeys : t \in StaffTasks(k)' <=> t \in StaffTasks(k)

\* A write touches some tasks and some users, and changes counts them: no other task joins
\* or leaves what is counted, and no other user the team.
LEMMA Touches ==
  ASSUME TypeOK, TypeOK', Write
  PROVE  /\ UNCHANGED <<role, caller, query, report, staff, tally>>
         /\ role = "EMPLOYEE" => changes' > changes
         /\ \E X \in SUBSET Tasks :
              /\ changes' >= changes + Cardinality(X)
              /\ \A t \in Tasks \ X : Untouched(t)
         /\ \E Y \in SUBSET Users :
              /\ changes' >= changes + Cardinality(Y)
              /\ member' \ Y = member \ Y
  <1> DEFINE Goal ==
         /\ UNCHANGED <<role, caller, query, report, staff, tally>>
         /\ role = "EMPLOYEE" => changes' > changes
         /\ \E X \in SUBSET Tasks :
              /\ changes' >= changes + Cardinality(X)
              /\ \A t \in Tasks \ X : Untouched(t)
         /\ \E Y \in SUBSET Users :
              /\ changes' >= changes + Cardinality(Y)
              /\ member' \ Y = member \ Y
  <1>0. /\ changes \in Nat /\ changes' \in Nat
        /\ Cardinality({}) = 0 /\ {} \in SUBSET Users /\ {} \in SUBSET Tasks
    BY FS_EmptySet DEF TypeOK
  <1>1. ASSUME NEW t \in Tasks, ChangeTask(t) PROVE Goal
    <2>1. /\ changes' = changes + Cardinality({t}) /\ Cardinality({t}) = 1
          /\ UNCHANGED <<role, caller, query, report, staff, tally, users, company, member>>
      BY <1>1, FS_Singleton DEF ChangeTask, Change, asked
    <2>2. \A s \in Tasks \ {t} : Untouched(s)
      <3>1. \A s \in Tasks \ {t} : task'[s] = task[s]
        BY <1>1 DEF ChangeTask, TypeOK
      <3> QED
        BY <2>1, <3>1 DEF Untouched, Scope, StaffTasks, Assigned
    <2>3. \E X \in SUBSET Tasks :
              /\ changes' >= changes + Cardinality(X)
              /\ \A s \in Tasks \ X : Untouched(s)
      <3> WITNESS {t} \in SUBSET Tasks
      <3> QED
        BY <1>0, <2>1, <2>2
    <2>4. changes' >= changes + Cardinality({}) /\ member' \ {} = member \ {}
      BY <1>0, <2>1
    <2> QED
      BY <1>0, <2>1, <2>3, <2>4
  <1>2. ASSUME NEW g \in Teams, MoveTeam(g) PROVE Goal
    <2>1. /\ changes' = changes + Cardinality(TasksOf(g)) /\ role = "ADMIN"
          /\ UNCHANGED <<role, caller, query, report, staff, tally, task, users, member>>
          /\ \A h \in Teams : h # g => (h \in company' <=> h \in company)
      BY <1>2 DEF MoveTeam, Change, asked
    <2>2. Cardinality(TasksOf(g)) \in Nat /\ TasksOf(g) \in SUBSET Tasks
      BY TouchedAreFinite, FS_CardinalityType
    <2>3. \A t \in Tasks \ TasksOf(g) : Untouched(t)
      BY <2>1, TeamsAssumption DEF Untouched, Scope, StaffTasks, Assigned, TasksOf
    <2>4. \E X \in SUBSET Tasks :
              /\ changes' >= changes + Cardinality(X)
              /\ \A t \in Tasks \ X : Untouched(t)
      BY <1>0, <2>1, <2>2, <2>3
    <2>5. changes' >= changes + Cardinality({}) /\ member' \ {} = member \ {}
      BY <1>0, <2>1, <2>2
    <2> QED
      BY <1>0, <2>1, <2>4, <2>5
  <1>3. ASSUME NEW U \in SUBSET Users, ChangeTeam(U) PROVE Goal
    <2>1. /\ changes' = changes + Cardinality(U) /\ U # {}
          /\ UNCHANGED <<role, caller, query, report, staff, tally, task, users, company>>
          /\ member' \ U = member \ U
      BY <1>3 DEF ChangeTeam, Change, asked
    <2>2. Cardinality(U) \in Nat /\ Cardinality(U) # 0
      BY <2>1, UsersAssumption, FS_Subset, FS_CardinalityType, FS_EmptySet
    <2>3. \A t \in Tasks : Untouched(t)
      BY <2>1 DEF Untouched, Scope, StaffTasks, Assigned
    <2>4. changes' > changes /\ changes' >= changes + Cardinality(U)
          /\ changes' >= changes + Cardinality({})
      BY <1>0, <2>1, <2>2
    <2> QED
      BY <1>0, <2>1, <2>3, <2>4
  <1>4. ASSUME NEW u \in Users, DeleteUser(u) PROVE Goal
    <2> DEFINE X == TasksLeft(u)
               W == X \cup {u}
    <2>1. /\ changes' = changes + Cardinality(W) /\ u \in users /\ users' = users \ {u}
          /\ UNCHANGED <<role, caller, query, report, staff, tally, task, company>>
          /\ member' \ {u} = member \ {u}
      BY <1>4 DEF DeleteUser, Change, asked
    <2>2. /\ X \in SUBSET Tasks /\ IsFiniteSet(W) /\ X \in SUBSET W /\ {u} \in SUBSET W
      BY TouchedAreFinite
    <2>3. \A t \in Tasks \ X : Untouched(t)
      <3>1. ASSUME NEW t \in Tasks \ X, task[t] # Absent
            PROVE  Assigned(t)' = Assigned(t)
        BY <2>1, <3>1 DEF Assigned, TasksLeft
      <3> QED
        BY <2>1, <3>1 DEF Untouched, Scope, StaffTasks
    <2> HIDE DEF X, W
    <2>4. /\ Cardinality(X) <= Cardinality(W) /\ Cardinality({u}) <= Cardinality(W)
          /\ Cardinality({u}) = 1 /\ Cardinality(W) \in Nat /\ Cardinality(X) \in Nat
      BY <2>2, FS_Subset, FS_Singleton, FS_CardinalityType
    <2>5. /\ changes' >= changes + Cardinality(X) /\ changes' >= changes + Cardinality({u})
          /\ changes' > changes
      BY <1>0, <2>1, <2>4
    <2> QED
      BY <2>1, <2>2, <2>3, <2>5
  <1> QED
    BY <1>1, <1>2, <1>3, <1>4 DEF Write

\* What a write does to a count: it grows and shrinks by touched tasks, if it is not read.
Turned(a, b, v, w, X) ==
  /\ Cardinality(a \cap X) \in 0..Cardinality(X) /\ Cardinality(b \cap X) \in 0..Cardinality(X)
  /\ v \in Nat /\ w \in Nat
  /\ w = v \/ w + Cardinality(a \cap X) = v + Cardinality(b \cap X)

LEMMA ValueIsTurned ==
  ASSUME NEW A, NEW B, NEW X, IsFiniteSet(A), IsFiniteSet(X), A \ X = B \ X,
         NEW v \in Nat, NEW w, w = v \/ (v = Cardinality(A) /\ w = Cardinality(B))
  PROVE  Turned(A, B, v, w, X)
  <1>1. /\ Cardinality(A) \in Nat /\ Cardinality(B) \in Nat
        /\ Cardinality(B) + Cardinality(A \cap X) = Cardinality(A) + Cardinality(B \cap X)
    BY Turn
  <1>2. /\ Cardinality(A \cap X) \in 0..Cardinality(X)
        /\ Cardinality(B \cap X) \in 0..Cardinality(X)
    BY PartOf
  <1> QED
    BY <1>1, <1>2 DEF Turned

\* A touched task joins or leaves what is counted, and a value that is not read yet
\* moves with it.
LEMMA ValueTurns ==
  ASSUME TypeOK, TypeOK', Write
  PROVE  /\ UNCHANGED <<role, caller, query, report, staff, tally>>
         /\ changes \in Nat /\ changes' \in Nat
         /\ \E X \in SUBSET Tasks :
              /\ IsFiniteSet(X) /\ Cardinality(X) \in Nat
              /\ changes' >= changes + Cardinality(X)
              /\ Scope \ X = Scope' \ X
              /\ \A t \in Tasks \ X : task'[t] = task[t]
              /\ \A k \in Numbers : Turned(Counted[k], Counted'[k], Value[k], Value'[k], X)
              /\ \A k \in StaffKeys :
                   Turned(CountedOf[k], CountedOf'[k], ValueOf[k], ValueOf'[k], X)
  <1>1. PICK X \in SUBSET Tasks : /\ changes' >= changes + Cardinality(X)
                                  /\ \A t \in Tasks \ X : Untouched(t)
    BY Touches
  <1>2. UNCHANGED <<role, caller, query, report, staff, tally>> /\ changes \in Nat /\ changes' \in Nat
    BY Touches DEF TypeOK
  <1>3. IsFiniteSet(X) /\ Cardinality(X) \in Nat
    BY TasksAssumption, FS_Subset, FS_CardinalityType
  <1>4. Scope \ X = Scope' \ X /\ \A t \in Tasks \ X : task'[t] = task[t]
    <2>1. Scope \subseteq Tasks /\ Scope' \subseteq Tasks
      BY DEF Scope
    <2> QED
      BY <1>1, <2>1 DEF Untouched
  <1>5. ASSUME NEW k \in Numbers
        PROVE  Turned(Counted[k], Counted'[k], Value[k], Value'[k], X)
    <2> DEFINE A == Counted[k]
               B == Counted'[k]
    <2>1. A \ X = B \ X
      <3>1. A = {t \in Scope : Where(k, t)} /\ B = {t \in Scope' : Where(k, t)'}
        BY DEF Counted
      <3>2. \A t \in Tasks \ X : Where(k, t)' <=> Where(k, t)
        BY <1>2, <1>4 DEF Where, Matches
      <3>3. Scope \subseteq Tasks /\ Scope' \subseteq Tasks
        BY DEF Scope
      <3> QED
        BY <1>4, <3>1, <3>2, <3>3
    <2>2. IsFiniteSet(A)
      BY CountedFacts
    <2>3. /\ Value[k] = IF report[k] = NotRead THEN Cardinality(A) ELSE report[k]
          /\ Value'[k] = IF report[k] = NotRead THEN Cardinality(B) ELSE report[k]
          /\ Value[k] \in Nat
      BY <1>2, ValueFacts DEF Value
    <2> HIDE DEF A, B
    <2>4. Turned(A, B, Value[k], Value'[k], X)
      BY <1>3, <2>1, <2>2, <2>3, ValueIsTurned
    <2> QED
      BY <2>4 DEF A, B
  <1>6. ASSUME NEW k \in StaffKeys
        PROVE  Turned(CountedOf[k], CountedOf'[k], ValueOf[k], ValueOf'[k], X)
    <2> DEFINE A == CountedOf[k]
               B == CountedOf'[k]
    <2>1. A \ X = B \ X
      <3>1. A = StaffTasks(k) /\ B = StaffTasks(k)' /\ A \subseteq Tasks /\ B \subseteq Tasks
        BY DEF CountedOf, StaffTasks
      <3> HIDE DEF A, B
      <3> QED
        BY <1>1, <3>1 DEF Untouched
    <2>2. IsFiniteSet(A)
      BY CountedFacts
    <2>3. /\ ValueOf[k] = IF tally[k] = NotRead THEN Cardinality(A) ELSE tally[k]
          /\ ValueOf'[k] = IF tally[k] = NotRead THEN Cardinality(B) ELSE tally[k]
          /\ ValueOf[k] \in Nat
      BY <1>2, ValueFacts DEF ValueOf
    <2> HIDE DEF A, B
    <2>4. Turned(A, B, ValueOf[k], ValueOf'[k], X)
      BY <1>3, <2>1, <2>2, <2>3, ValueIsTurned
    <2> QED
      BY <2>4 DEF A, B
  <1> QED
    BY <1>1, <1>2, <1>3, <1>4, <1>5, <1>6

\* No other step moves a value: the answer to a query is the value it had.
LEMMA ValuesStay ==
  ASSUME TypeOK, [Next]_vars, ~Write
  PROVE  /\ Value' = Value /\ ValueOf' = ValueOf
         /\ UNCHANGED <<task, users, company, member, role, caller, query, changes>>
  <1> DEFINE Same == UNCHANGED <<task, users, company, member, role, caller, query, changes>>
  <1>0. ASSUME Same
        PROVE  Counted' = Counted /\ CountedOf' = CountedOf
    BY <1>0 DEF Counted, CountedOf, Scope, Where, Matches, StaffTasks, Assigned
  <1>1. CASE UNCHANGED vars
    BY <1>0, <1>1 DEF Value, ValueOf, vars
  <1>2. ASSUME NEW k \in Numbers, ReadNumber(k)
        PROVE  Value' = Value /\ ValueOf' = ValueOf /\ Same
    <2>1. /\ Same /\ tally' = tally /\ report[k] = NotRead
          /\ report' = [report EXCEPT ![k] = Cardinality(Counted[k])]
      BY <1>2, CountedFacts DEF ReadNumber, Read, data, asked
    <2>2. Cardinality(Counted[k]) # NotRead
      BY CountedFacts, NotReadAssumption
    <2>3. \A j \in Numbers :
            (IF report'[j] = NotRead THEN Cardinality(Counted[j]) ELSE report'[j])
              = IF report[j] = NotRead THEN Cardinality(Counted[j]) ELSE report[j]
      BY <2>1, <2>2 DEF TypeOK
    <2> QED
      BY <1>0, <2>1, <2>3 DEF Value, ValueOf
  <1>3. ASSUME ReadRank \/ ReadMembers
        PROVE  Value' = Value /\ ValueOf' = ValueOf /\ Same
    <2>1. /\ Same /\ tally' = tally
          /\ \A j \in Numbers : report'[j] = report[j]
      BY <1>3, KeyFacts DEF ReadRank, ReadMembers, Read, TypeOK, data, asked
    <2> QED
      BY <1>0, <2>1 DEF Value, ValueOf
  <1>4. ASSUME ReadStaff
        PROVE  Value' = Value /\ ValueOf' = ValueOf /\ Same
    <2>1. Same /\ tally' = tally /\ report' = report
      BY <1>4 DEF ReadStaff, data, asked
    <2> QED
      BY <1>0, <2>1 DEF Value, ValueOf
  <1>5. ASSUME NEW k \in StaffKeys, ReadStaffTasks(k)
        PROVE  Value' = Value /\ ValueOf' = ValueOf /\ Same
    <2>1. /\ Same /\ report' = report /\ tally[k] = NotRead
          /\ tally' = [tally EXCEPT ![k] = Cardinality(CountedOf[k])]
      BY <1>5 DEF ReadStaffTasks, CountedOf, data, asked
    <2>2. Cardinality(CountedOf[k]) # NotRead
      BY CountedFacts, NotReadAssumption
    <2>3. \A j \in StaffKeys :
            (IF tally'[j] = NotRead THEN Cardinality(CountedOf[j]) ELSE tally'[j])
              = IF tally[j] = NotRead THEN Cardinality(CountedOf[j]) ELSE tally[j]
      BY <2>1, <2>2 DEF TypeOK
    <2> QED
      BY <1>0, <2>1, <2>3 DEF Value, ValueOf
  <1>6. UNCHANGED vars => Same
    BY DEF vars
  <1> QED
    BY <1>1, <1>2, <1>3, <1>4, <1>5, <1>6 DEF Next, Write

----------------------------------------------------------------------------
(* The shown statuses and the total *)

\* At first: tasks of different statuses are different tasks of the total.
LEMMA StatusesInit ==
  ASSUME Init
  PROVE  Statuses
  <1> SUFFICES ASSUME query.status = NoFilter
               PROVE  /\ Value["PENDING"] + Value["IN_PROGRESS"] + Value["COMPLETED"]
                           <= Value["total"] + changes
                      /\ Value["overdue"] + Value["COMPLETED"] <= Value["total"] + changes
    BY DEF Statuses
  <1>1. changes = 0 /\ \A k \in Numbers : Value[k] = Cardinality(Counted[k])
    BY DEF Init, Value
  <1> DEFINE T == Counted["total"]
             P == Counted["PENDING"]
             I == Counted["IN_PROGRESS"]
             C == Counted["COMPLETED"]
             O == Counted["overdue"]
  <1>2. /\ P \in SUBSET T /\ I \in SUBSET T /\ C \in SUBSET T /\ O \in SUBSET T
        /\ P \cap I = {} /\ (P \cup I) \cap C = {} /\ O \cap C = {}
    BY PrioritiesAssumption DEF Counted, Where, Matches, Numbers, Shown, TaskStatus
  <1>3. IsFiniteSet(T)
    BY KeyFacts, CountedFacts
  <1>4. /\ Value["PENDING"] = Cardinality(P) /\ Value["IN_PROGRESS"] = Cardinality(I)
        /\ Value["COMPLETED"] = Cardinality(C) /\ Value["overdue"] = Cardinality(O)
        /\ Value["total"] = Cardinality(T)
    BY <1>1, KeyFacts
  <1> HIDE DEF T, P, I, C, O
  <1>5. /\ Cardinality(P \cup I) = Cardinality(P) + Cardinality(I)
        /\ Cardinality(P) \in Nat /\ Cardinality(I) \in Nat
    BY <1>2, <1>3, Apart
  <1>6. /\ Cardinality(P \cup I) + Cardinality(C) <= Cardinality(T)
        /\ Cardinality(C) \in Nat /\ Cardinality(T) \in Nat
    <2>1. P \cup I \in SUBSET T
      BY <1>2
    <2> QED
      BY <1>2, <1>3, <2>1, Apart
  <1>7. Cardinality(O) + Cardinality(C) <= Cardinality(T) /\ Cardinality(O) \in Nat
    BY <1>2, <1>3, Apart
  <1> QED
    BY <1>1, <1>4, <1>5, <1>6, <1>7

\* A changed task has one status before and one after, and each counts in the total.
LEMMA StatusesTurn ==
  ASSUME TypeOK, TypeOK', Statuses, Write
  PROVE  Statuses'
  <1>1. query' = query /\ changes \in Nat /\ changes' \in Nat
    BY ValueTurns
  <1> SUFFICES ASSUME query.status = NoFilter
               PROVE  /\ Value'["PENDING"] + Value'["IN_PROGRESS"] + Value'["COMPLETED"]
                           <= Value'["total"] + changes'
                      /\ Value'["overdue"] + Value'["COMPLETED"] <= Value'["total"] + changes'
    BY <1>1 DEF Statuses
  <1>2. PICK X \in SUBSET Tasks :
          /\ IsFiniteSet(X) /\ Cardinality(X) \in Nat
          /\ changes' >= changes + Cardinality(X)
          /\ \A k \in Numbers : Turned(Counted[k], Counted'[k], Value[k], Value'[k], X)
    BY ValueTurns
  <1> DEFINE T == Counted'["total"] \cap X
             P == Counted'["PENDING"] \cap X
             I == Counted'["IN_PROGRESS"] \cap X
             C == Counted'["COMPLETED"] \cap X
             O == Counted'["overdue"] \cap X
             was(k) == Cardinality(Counted[k] \cap X)
             N == Cardinality(X)
  <1>3. /\ P \in SUBSET T /\ I \in SUBSET T /\ C \in SUBSET T /\ O \in SUBSET T
        /\ P \cap I = {} /\ (P \cup I) \cap C = {} /\ O \cap C = {}
    BY <1>1, PrioritiesAssumption DEF Counted, Where, Matches, Numbers, Shown, TaskStatus
  <1>4. \A k \in {"PENDING", "IN_PROGRESS", "COMPLETED", "total", "overdue"} :
          /\ Value[k] \in Nat /\ Value'[k] \in Nat /\ was(k) \in 0..N
          /\ Value'[k] = Value[k] \/ Value'[k] + was(k) = Value[k] + Cardinality(Counted'[k] \cap X)
    BY <1>2, KeyFacts DEF Turned
  <1>5. IsFiniteSet(T) /\ Cardinality(T) \in 0..N
    BY <1>2, PartOf
  <1>6. /\ Value["PENDING"] + Value["IN_PROGRESS"] + Value["COMPLETED"] <= Value["total"] + changes
        /\ Value["overdue"] + Value["COMPLETED"] <= Value["total"] + changes
    BY DEF Statuses
  <1>7. /\ \/ Value'["PENDING"] = Value["PENDING"]
           \/ Value'["PENDING"] + was("PENDING") = Value["PENDING"] + Cardinality(P)
        /\ \/ Value'["IN_PROGRESS"] = Value["IN_PROGRESS"]
           \/ Value'["IN_PROGRESS"] + was("IN_PROGRESS") = Value["IN_PROGRESS"] + Cardinality(I)
        /\ \/ Value'["COMPLETED"] = Value["COMPLETED"]
           \/ Value'["COMPLETED"] + was("COMPLETED") = Value["COMPLETED"] + Cardinality(C)
        /\ \/ Value'["overdue"] = Value["overdue"]
           \/ Value'["overdue"] + was("overdue") = Value["overdue"] + Cardinality(O)
        /\ \/ Value'["total"] = Value["total"]
           \/ Value'["total"] + was("total") = Value["total"] + Cardinality(T)
    BY <1>4
  <1> HIDE DEF T, P, I, C, O, was
  <1>8. /\ Cardinality(P \cup I) = Cardinality(P) + Cardinality(I)
        /\ Cardinality(P) \in Nat /\ Cardinality(I) \in Nat
    <2>1. IsFiniteSet(T) /\ P \in SUBSET T /\ I \in SUBSET T /\ P \cap I = {}
      BY <1>3, <1>5
    <2> QED
      BY ONLY <2>1, Apart
  <1>9. Cardinality(P \cup I) + Cardinality(C) <= Cardinality(T) /\ Cardinality(C) \in Nat
    <2>1. P \cup I \in SUBSET T
      BY <1>3
    <2> QED
      BY <1>3, <1>5, <2>1, Apart
  <1>10. Cardinality(O) + Cardinality(C) <= Cardinality(T) /\ Cardinality(O) \in Nat
    BY <1>3, <1>5, Apart
  <1> DEFINE p == Cardinality(P)
             i == Cardinality(I)
             c == Cardinality(C)
             o == Cardinality(O)
             n == Cardinality(T)
  <1>11. /\ p \in Nat /\ i \in Nat /\ c \in Nat /\ o \in Nat /\ n \in 0..N
         /\ p + i + c <= n /\ o + c <= n /\ N \in Nat /\ changes' >= changes + N
    BY <1>2, <1>5, <1>8, <1>9, <1>10
  <1> HIDE DEF p, i, c, o, n, N
  <1>12. /\ Value'["PENDING"] <= Value["PENDING"] + p
         /\ Value'["IN_PROGRESS"] <= Value["IN_PROGRESS"] + i
         /\ Value'["COMPLETED"] <= Value["COMPLETED"] + c
         /\ Value'["overdue"] <= Value["overdue"] + o
         /\ Value'["total"] + N >= Value["total"] + n
    BY <1>4, <1>7, <1>11 DEF p, i, c, o, n
  <1> QED
    BY <1>1, <1>4, <1>6, <1>11, <1>12

----------------------------------------------------------------------------
(* The rate of a direct report *)

\* There are finitely many old tasks.
LEMMA OldAreFinite ==
  ASSUME query \in Queries, NEW u
  PROVE  IsFiniteSet(OldOf(u))
  <1>1. query.old \in SUBSET Tasks
    BY QueriesAssumption
  <1>2. OldOf(u) \in SUBSET Tasks
    BY <1>1 DEF OldOf
  <1> QED
    BY <1>2, TasksAssumption, FS_Subset

\* What is completed was created in the period, and then is assigned, or before it.
LEMMA RatesInit ==
  ASSUME Init
  PROVE  Rates
  <1> SUFFICES ASSUME NEW u \in Users
               PROVE  ValueOf[<<"completed", u>>]
                        <= ValueOf[<<"assigned", u>>] + changes + Cardinality(OldOf(u))
    BY DEF Rates
  <1>1. changes = 0 /\ \A k \in StaffKeys : ValueOf[k] = Cardinality(CountedOf[k])
    BY DEF Init, ValueOf
  <1> DEFINE A == CountedOf[<<"assigned", u>>]
             C == CountedOf[<<"completed", u>>]
             Old == OldOf(u)
  <1>2. C \in SUBSET (A \cup Old)
    BY KeyFacts, UsersAssumption DEF CountedOf, StaffTasks, OldOf, Assigned
  <1>3. IsFiniteSet(A) /\ IsFiniteSet(Old)
    BY KeyFacts, CountedFacts, OldAreFinite DEF Init
  <1>4. ValueOf[<<"assigned", u>>] = Cardinality(A) /\ ValueOf[<<"completed", u>>] = Cardinality(C)
    BY <1>1, KeyFacts
  <1> HIDE DEF A, C, Old
  <1>5. /\ IsFiniteSet(A \cup Old)
        /\ Cardinality(A \cup Old) = Cardinality(A) + Cardinality(Old) - Cardinality(A \cap Old)
    BY <1>3, FS_Union
  <1>6. Cardinality(C) <= Cardinality(A \cup Old) /\ IsFiniteSet(C)
    BY <1>2, <1>5, FS_Subset
  <1>7. IsFiniteSet(A \cap Old)
    BY <1>3, FS_Intersection
  <1>8. /\ Cardinality(A) \in Nat /\ Cardinality(Old) \in Nat /\ Cardinality(C) \in Nat
        /\ Cardinality(A \cap Old) \in Nat
    BY <1>3, <1>6, <1>7, FS_CardinalityType
  <1>9. Cardinality(C) <= Cardinality(A) + 0 + Cardinality(Old)
    BY <1>5, <1>6, <1>8
  <1> QED
    BY <1>1, <1>4, <1>9 DEF Old

\* A task that leaves the assigned ones is deleted or nobody's, and is not completed either.
LEMMA RatesTurn ==
  ASSUME TypeOK, TypeOK', Rates, Write
  PROVE  Rates'
  <1>1. query' = query /\ changes \in Nat /\ changes' \in Nat
    BY ValueTurns
  <1> SUFFICES ASSUME NEW u \in Users
               PROVE  ValueOf'[<<"completed", u>>]
                        <= ValueOf'[<<"assigned", u>>] + changes' + Cardinality(OldOf(u))
    BY <1>1 DEF Rates, OldOf
  <1>2. PICK X \in SUBSET Tasks :
          /\ IsFiniteSet(X) /\ Cardinality(X) \in Nat
          /\ changes' >= changes + Cardinality(X)
          /\ \A k \in StaffKeys : Turned(CountedOf[k], CountedOf'[k], ValueOf[k], ValueOf'[k], X)
    BY ValueTurns
  <1> DEFINE a == <<"assigned", u>>
             c == <<"completed", u>>
             old == Cardinality(OldOf(u))
             A == CountedOf[a] \cap X
             B == CountedOf'[a] \cap X
             C == CountedOf[c] \cap X
             D == CountedOf'[c] \cap X
             N == Cardinality(X)
  <1>3. D \cap A \in SUBSET B
    BY <1>1, KeyFacts DEF CountedOf, StaffTasks
  <1>4. /\ ValueOf[a] \in Nat /\ ValueOf'[a] \in Nat
        /\ ValueOf[c] \in Nat /\ ValueOf'[c] \in Nat
        /\ Cardinality(A) \in 0..N /\ Cardinality(B) \in 0..N
        /\ Cardinality(C) \in 0..N /\ Cardinality(D) \in 0..N
        /\ ValueOf'[a] = ValueOf[a] \/ ValueOf'[a] + Cardinality(A) = ValueOf[a] + Cardinality(B)
        /\ ValueOf'[c] = ValueOf[c] \/ ValueOf'[c] + Cardinality(C) = ValueOf[c] + Cardinality(D)
    BY <1>2, KeyFacts DEF Turned
  <1>5. ValueOf[c] <= ValueOf[a] + changes + old
    BY DEF Rates
  <1>6. old \in Nat
    BY OldAreFinite, FS_CardinalityType DEF TypeOK
  <1>7. /\ IsFiniteSet(A) /\ IsFiniteSet(B) /\ IsFiniteSet(D)
        /\ A \in SUBSET X /\ B \in SUBSET X /\ D \in SUBSET X
    BY <1>2, FS_Subset
  <1> HIDE DEF a, c, old, A, B, C, D
  <1>8. Cardinality(D) + Cardinality(A) <= N + Cardinality(B)
    <2>1. Cardinality(D \cup A) = Cardinality(D) + Cardinality(A) - Cardinality(D \cap A)
      BY <1>7, FS_Union
    <2>2. Cardinality(D \cup A) <= N /\ IsFiniteSet(D \cup A)
      <3>1. D \cup A \in SUBSET X
        BY <1>7
      <3> QED
        BY <1>2, <3>1, FS_Subset
    <2>3. Cardinality(D \cap A) <= Cardinality(B) /\ IsFiniteSet(D \cap A)
      BY <1>3, <1>7, FS_Subset
    <2>4. /\ Cardinality(D \cap A) \in Nat /\ Cardinality(D \cup A) \in Nat
          /\ Cardinality(A) \in Nat /\ Cardinality(B) \in Nat /\ Cardinality(D) \in Nat
      BY <1>7, <2>2, <2>3, FS_CardinalityType
    <2> QED
      BY <1>2, <2>1, <2>2, <2>3, <2>4
  <1>9. N \in Nat /\ changes' >= changes + N
    BY <1>2
  <1> HIDE DEF N
  <1>10. ValueOf'[c] <= ValueOf'[a] + changes' + old
    BY <1>1, <1>4, <1>5, <1>6, <1>8, <1>9
  <1> QED
    BY <1>10 DEF a, c, old

----------------------------------------------------------------------------
(* The place of an employee *)

\* At first nothing was read, and an employee is a member.
LEMMA RanksInit ==
  ASSUME Init
  PROVE  Ranks
  <1>1. TypeOK
    BY TypeInit
  <1>2. /\ report["rank"] = NotRead /\ report["members"] = NotRead /\ changes = 0
        /\ role = "EMPLOYEE" => caller \in member
    BY DEF Init, RankKeys
  <1>3. Cardinality(member) \in Nat
    BY <1>1, MemberFacts
  <1> QED
    BY <1>2, <1>3 DEF Ranks, Members

\* Those who completed more are counted alike while no task and no member changes.
LEMMA AheadStays ==
  ASSUME UNCHANGED <<task, users, member, caller>>
  PROVE  Ahead' = Ahead
  BY DEF Ahead, Done, Assigned

\* The rank is read from the members of one moment and their number from another.
LEMMA RanksRead ==
  ASSUME TypeOK, Ranks, [Next]_vars, ~Write
  PROVE  Ranks'
  <1>0. /\ changes \in Nat /\ Cardinality(member) \in Nat /\ Members \in Nat
        /\ report["rank"] = NotRead \/ report["rank"] \in Nat
    <2>1. report["rank"] = NotRead \/ report["rank"] \in Nat
      BY CountedFacts, MemberFacts DEF TypeOK, RankKeys
    <2> QED
      BY <2>1, ValueFacts, MemberFacts
  <1>1. /\ UNCHANGED <<member, role, caller, changes>> /\ Ahead' = Ahead
    BY ValuesStay, AheadStays
  <1>2. CASE UNCHANGED report
    BY <1>1, <1>2 DEF Ranks, Members
  <1>3. ASSUME NEW k \in Numbers, ReadNumber(k) PROVE Ranks'
    <2>1. report'["rank"] = report["rank"] /\ report'["members"] = report["members"]
      BY <1>3, KeyFacts DEF ReadNumber, Read, TypeOK, RankKeys
    <2> QED
      BY <1>1, <2>1 DEF Ranks, Members
  <1>4. CASE ReadRank
    <2>1. PICK n \in Rank : report' = [report EXCEPT !["rank"] = n]
      BY <1>4 DEF ReadRank, Read
    <2>2. /\ report'["rank"] = n /\ report'["members"] = report["members"]
          /\ report["rank"] = NotRead
      BY <1>4, <2>1 DEF ReadRank, Read, TypeOK, RankKeys
    <2>3. /\ n \in Nat /\ n <= Cardinality(member)
          /\ caller \in member => Cardinality(Ahead) < n
      BY RankFacts
    <2>4. caller \in member => n > 0
      <3>1. Ahead \in SUBSET member
        BY DEF Ahead
      <3>2. Cardinality(Ahead) \in Nat
        BY <3>1, MemberFacts, FS_Subset, FS_CardinalityType
      <3> QED
        BY <2>3, <3>2
    <2>5. Members' = Members
      BY <1>1, <2>2 DEF Members
    <2>6. role = "EMPLOYEE" =>
            /\ changes = 0 => caller \in member
            /\ Cardinality(member) <= Members + changes
      BY <2>2 DEF Ranks
    <2>7. n # NotRead
      BY <2>3, NotReadAssumption
    <2> QED
      BY <1>0, <1>1, <2>2, <2>3, <2>4, <2>5, <2>6, <2>7 DEF Ranks
  <1>5. CASE ReadMembers
    <2>1. /\ report'["rank"] = report["rank"] /\ report'["members"] = Cardinality(member)
          /\ report["members"] = NotRead
      BY <1>5 DEF ReadMembers, Read, TypeOK, RankKeys
    <2>2. Members' = Members
      BY <1>0, <1>1, <2>1, NotReadAssumption DEF Members
    <2> QED
      BY <1>1, <2>1, <2>2 DEF Ranks
  <1> QED
    BY <1>2, <1>3, <1>4, <1>5 DEF Next, Write, ReadStaff, ReadStaffTasks, vars

\* As many people join or leave the team as rows change.
LEMMA RanksTurn ==
  ASSUME TypeOK, TypeOK', Ranks, Write
  PROVE  Ranks'
  <1>1. /\ UNCHANGED <<role, report>>
        /\ role = "EMPLOYEE" => changes' > changes
        /\ changes \in Nat /\ changes' \in Nat
    BY Touches DEF TypeOK
  <1>2. PICK Y \in SUBSET Users :
          changes' >= changes + Cardinality(Y) /\ member' \ Y = member \ Y
    BY Touches
  <1> DEFINE N == Cardinality(Y)
             m == Cardinality(member)
             n == Cardinality(member')
  <1>3. /\ N \in Nat /\ m \in Nat /\ n \in Nat
        /\ n <= m + N /\ m <= n + N
    <2>1. IsFiniteSet(Y) /\ IsFiniteSet(member) /\ member \ Y = member' \ Y
      BY <1>2, MemberFacts, UsersAssumption, FS_Subset
    <2>2. /\ Cardinality(member') + Cardinality(member \cap Y)
               = Cardinality(member) + Cardinality(member' \cap Y)
      BY ONLY <2>1, Turn
    <2>3. Cardinality(member) \in Nat /\ Cardinality(member') \in Nat
      BY ONLY <2>1, Turn
    <2>4. /\ Cardinality(member \cap Y) \in 0..Cardinality(Y)
          /\ Cardinality(member' \cap Y) \in 0..Cardinality(Y)
          /\ Cardinality(Y) \in Nat
      BY <2>1, PartOf
    <2> QED
      BY <2>2, <2>3, <2>4
  <1>4. /\ report["members"] = NotRead => Members = m /\ Members' = n
        /\ report["members"] # NotRead => Members' = Members
    BY <1>1 DEF Members
  <1>5. Members \in Nat /\ (report["rank"] = NotRead \/ report["rank"] \in Nat)
    BY ValueFacts, CountedFacts, MemberFacts DEF TypeOK, RankKeys
  <1> DEFINE later == changes'
             M == Members'
  <1>6. later \in Nat /\ later >= changes + N /\ (role = "EMPLOYEE" => later > 0)
    BY <1>1, <1>2, <1>3
  <1>7. role = "EMPLOYEE" =>
          /\ report["rank"] = NotRead => m <= Members + changes
          /\ report["rank"] # NotRead => report["rank"] <= Members + changes
    BY DEF Ranks
  <1> HIDE DEF N, m, n, later, M
  <1>8. /\ report["members"] = NotRead => Members = m /\ M = n
        /\ report["members"] # NotRead => M = Members
    BY <1>4 DEF M
  <1>9. M \in Nat /\ M + N >= Members
    BY <1>3, <1>5, <1>8
  <1>10. role = "EMPLOYEE" /\ report["rank"] = NotRead => n <= M + later
    BY <1>1, <1>3, <1>5, <1>6, <1>7, <1>8, <1>9
  <1>11. role = "EMPLOYEE" /\ report["rank"] # NotRead => report["rank"] <= M + later
    BY <1>1, <1>3, <1>5, <1>6, <1>7, <1>9
  <1> QED
    BY <1>1, <1>6, <1>10, <1>11 DEF Ranks, M, n, later

----------------------------------------------------------------------------
(* The priorities and the total *)

\* The tasks not yet counted by priority are some of the total's; those of one priority are
\* what its query counts.
LEMMA OpenFacts ==
  ASSUME TypeOK
  PROVE  /\ Open \subseteq Tasks /\ IsFiniteSet(Open) /\ Cardinality(Open) \in Nat
         /\ query.priority = NoFilter => Open \subseteq Counted["total"]
         /\ \A p \in Priorities : report[p] = NotRead =>
              Counted[p] = {t \in Open : task[t].priority = p}
         /\ IsFiniteSet(ReadOnes) /\ \A p \in ReadOnes : report[p] \in Nat
         /\ Cardinality(Pairs(report, ReadOnes)) \in Nat
  <1>1. Open \in SUBSET Tasks
    BY DEF Open, Scope
  <1>2. IsFiniteSet(Open) /\ Cardinality(Open) \in Nat
    BY <1>1, TasksAssumption, FS_Subset, FS_CardinalityType
  <1>3. query.priority = NoFilter => Open \subseteq Counted["total"]
    BY PrioritiesAssumption DEF Open, Counted, Where, Matches, Numbers, Shown, TaskStatus
  <1>4. ASSUME NEW p \in Priorities, report[p] = NotRead
        PROVE  Counted[p] = {t \in Open : task[t].priority = p}
    BY <1>4, PrioritiesAssumption DEF Open, Counted, Where, Numbers, Shown, TaskStatus
  <1>5. IsFiniteSet(ReadOnes) /\ \A p \in ReadOnes : report[p] \in Nat
    <2>1. ReadOnes \in SUBSET Priorities
      BY DEF ReadOnes
    <2>2. \A p \in ReadOnes : report[p] \in Nat
      BY CountedFacts, MemberFacts, KeyFacts DEF ReadOnes, TypeOK
    <2> QED
      BY <2>1, <2>2, PrioritiesAssumption, FS_Subset
  <1>6. Cardinality(Pairs(report, ReadOnes)) \in Nat
    BY <1>5, PairsAre
  <1> QED
    BY <1>1, <1>2, <1>3, <1>4, <1>5, <1>6

\* At first every task of the total is of a priority that is not read.
LEMMA SumsInit ==
  ASSUME Init
  PROVE  Sums
  <1> SUFFICES ASSUME query.priority = NoFilter
               PROVE  Near(ByPriority, Value["total"])
    BY DEF Sums
  <1>1. changes = 0 /\ Value["total"] = Cardinality(Counted["total"])
    BY KeyFacts DEF Init, Value
  <1>2. ReadOnes = {}
    BY KeyFacts DEF Init, ReadOnes
  <1>3. Cardinality(Pairs(report, ReadOnes)) = 0
    BY <1>2, FS_EmptySet DEF Pairs
  <1>4. Open = Counted["total"]
    <2>1. \A t \in Scope : task[t].priority \in Priorities
      BY TasksAssumption DEF Init, Scope, Rows
    <2>2. \A p \in Priorities : report[p] = NotRead
      BY KeyFacts DEF Init
    <2> QED
      BY <2>1, <2>2, PrioritiesAssumption
         DEF Open, Counted, Where, Matches, Numbers, Shown, TaskStatus
  <1>5. Cardinality(Open) \in Nat
    BY TypeInit, OpenFacts
  <1>6. ByPriority = Value["total"] /\ ByPriority \in Nat
    BY <1>1, <1>3, <1>4, <1>5 DEF ByPriority
  <1> QED
    BY <1>1, <1>6 DEF Near

\* A priority that is read takes its tasks along: what they add up to is the same.
LEMMA SumsRead ==
  ASSUME TypeOK, TypeOK', Sums, [Next]_vars, ~Write
  PROVE  Sums'
  <1>1. Value' = Value /\ UNCHANGED <<task, users, company, member, role, caller, query, changes>>
    BY ValuesStay
  <1>2. Scope' = Scope /\ Counted' = Counted
    BY <1>1 DEF Counted, Scope, Where, Matches, Assigned
  <1>3. ByPriority' = ByPriority
    <2>1. CASE \A p \in Priorities : report'[p] = report[p]
      <3>1. ReadOnes' = ReadOnes /\ Pairs(report', ReadOnes) = Pairs(report, ReadOnes)
        BY <2>1 DEF ReadOnes, Pairs
      <3>2. Open' = Open
        <4>1. \A t \in Scope : task[t].priority \in Priorities
          BY DEF TypeOK, Scope, Rows
        <4> QED
          BY <1>1, <1>2, <2>1, <4>1 DEF Open, Matches
      <3> QED
        BY <3>1, <3>2 DEF ByPriority
    <2>2. ASSUME NEW p \in Priorities, ReadNumber(p)
          PROVE  ByPriority' = ByPriority
      <3>1. /\ report[p] = NotRead /\ report'[p] = Cardinality(Counted[p])
            /\ \A q \in Priorities : q # p => report'[q] = report[q]
            /\ report'[p] # NotRead
        BY <2>2, KeyFacts, CountedFacts, NotReadAssumption DEF ReadNumber, Read, TypeOK
      <3>2. ReadOnes' = ReadOnes \cup {p} /\ p \notin ReadOnes
        BY <3>1 DEF ReadOnes
      <3> DEFINE f == report'
                 S == ReadOnes'
      <3>3. IsFiniteSet(S) /\ (\A q \in S : f[q] \in Nat) /\ p \in S /\ S \ {p} = ReadOnes
        <4>1. IsFiniteSet(ReadOnes) /\ \A q \in ReadOnes : q \in Priorities /\ report[q] \in Nat
          BY OpenFacts DEF ReadOnes
        <4>2. Cardinality(Counted[p]) \in Nat
          BY KeyFacts, CountedFacts
        <4>3. IsFiniteSet(ReadOnes \cup {p})
          BY <4>1, FS_AddElement
        <4> QED
          BY <3>1, <3>2, <4>1, <4>2, <4>3
      <3>4. Pairs(f, ReadOnes) = Pairs(report, ReadOnes)
        BY <3>1, <3>2 DEF Pairs, ReadOnes
      <3> HIDE DEF f, S
      <3>5. Cardinality(Pairs(f, S)) = f[p] + Cardinality(Pairs(f, S \ {p}))
        BY <3>3, PairsAre
      <3>6. /\ Open' \in SUBSET Open /\ Counted[p] \in SUBSET Open
            /\ Open' \cap Counted[p] = {} /\ Open = Open' \cup Counted[p]
        <4>1. Counted[p] = {t \in Open : task[t].priority = p}
          BY <3>1, OpenFacts
        <4>2. \A t \in Scope : task[t].priority \in Priorities
          BY DEF TypeOK, Scope, Rows
        <4>3. Open' = {t \in Open : task[t].priority # p}
          BY <1>1, <1>2, <3>1, <4>2 DEF Open, Matches
        <4> QED
          BY <4>1, <4>3
      <3> DEFINE A == Open'
                 B == Counted[p]
      <3>7. IsFiniteSet(Open) /\ A \in SUBSET Open /\ B \in SUBSET Open /\ A \cap B = {}
            /\ Open = A \cup B
        BY <3>6, OpenFacts
      <3> HIDE DEF A, B
      <3>8. Cardinality(Open) = Cardinality(A) + Cardinality(B)
        <4>1. Cardinality(A \cup B) = Cardinality(A) + Cardinality(B)
          BY ONLY <3>7, Apart
        <4> QED
          BY <3>7, <4>1
      <3>9. Cardinality(A) \in Nat /\ Cardinality(B) \in Nat
        BY ONLY <3>7, Apart
      <3>10. f[p] = Cardinality(B)
        BY <3>1 DEF f, B
      <3>11. Cardinality(Pairs(f, S)) = Cardinality(B) + Cardinality(Pairs(report, ReadOnes))
        BY <3>3, <3>4, <3>5, <3>10
      <3> DEFINE r == Cardinality(Pairs(report, ReadOnes))
      <3>12. r \in Nat
        BY OpenFacts
      <3> HIDE DEF r
      <3>13. Cardinality(B) + r + Cardinality(A) = r + Cardinality(Open)
        BY <3>8, <3>9, <3>12
      <3> QED
        BY <3>11, <3>13 DEF ByPriority, A, f, S, r
    <2>3. ASSUME ~(\E p \in Priorities : ReadNumber(p))
          PROVE  \A p \in Priorities : report'[p] = report[p]
      BY <2>3, KeyFacts DEF Next, Write, ReadNumber, ReadRank, ReadMembers, ReadStaff,
         ReadStaffTasks, Read, TypeOK, vars
    <2> QED
      BY <2>1, <2>2, <2>3
  <1> QED
    BY <1>1, <1>3 DEF Sums, Near

\* A changed task has one priority before and one after, and each counts in the total.
LEMMA SumsTurn ==
  ASSUME TypeOK, TypeOK', Sums, Write
  PROVE  Sums'
  <1>1. query' = query /\ report' = report /\ changes \in Nat /\ changes' \in Nat
    BY ValueTurns
  <1> SUFFICES ASSUME query.priority = NoFilter
               PROVE  /\ ByPriority' <= Value'["total"] + changes'
                      /\ Value'["total"] <= ByPriority' + changes'
    BY <1>1 DEF Sums, Near
  <1>2. PICK X \in SUBSET Tasks :
          /\ IsFiniteSet(X) /\ Cardinality(X) \in Nat
          /\ changes' >= changes + Cardinality(X)
          /\ Scope \ X = Scope' \ X /\ \A t \in Tasks \ X : task'[t] = task[t]
          /\ \A k \in Numbers : Turned(Counted[k], Counted'[k], Value[k], Value'[k], X)
    BY ValueTurns
  <1> DEFINE A == Open
             B == Open'
             T == Counted["total"]
             U == Counted'["total"]
             r == Cardinality(Pairs(report, ReadOnes))
             v == Value["total"]
             w == Value'["total"]
             N == Cardinality(X)
             later == changes'
  <1>3. /\ ByPriority = r + Cardinality(A) /\ ByPriority' = r + Cardinality(B)
        /\ r \in Nat /\ IsFiniteSet(A)
    BY <1>1, OpenFacts DEF ByPriority, ReadOnes
  <1>4. A \ X = B \ X
    <2>1. Scope \subseteq Tasks /\ Scope' \subseteq Tasks
      BY DEF Scope
    <2> QED
      BY <1>1, <1>2, <2>1 DEF Open, Matches
  <1>5. A \cap X \in SUBSET (T \cap X) /\ B \cap X \in SUBSET (U \cap X)
    <2>1. A \subseteq T
      BY OpenFacts
    <2>2. B \subseteq U
      BY <1>1, PrioritiesAssumption DEF Open, Counted, Where, Matches, Numbers, Shown, TaskStatus
    <2> QED
      BY <2>1, <2>2
  <1>6. /\ v \in Nat /\ w \in Nat
        /\ Cardinality(T \cap X) \in 0..N /\ Cardinality(U \cap X) \in 0..N
        /\ w = v \/ w + Cardinality(T \cap X) = v + Cardinality(U \cap X)
    BY <1>2, KeyFacts DEF Turned
  <1>7. ByPriority <= v + changes /\ v <= ByPriority + changes
    BY DEF Sums, Near
  <1>8. N \in Nat /\ later \in Nat /\ later >= changes + N
    BY <1>1, <1>2
  <1> HIDE DEF A, B, T, U, r, v, w, N, later
  <1>9. /\ Cardinality(A) \in Nat /\ Cardinality(B) \in Nat
        /\ Cardinality(B) + Cardinality(A \cap X) = Cardinality(A) + Cardinality(B \cap X)
    <2>1. IsFiniteSet(A) /\ IsFiniteSet(X) /\ A \ X = B \ X
      BY <1>2, <1>3, <1>4
    <2>2. Cardinality(B) + Cardinality(A \cap X) = Cardinality(A) + Cardinality(B \cap X)
      BY ONLY <2>1, Turn
    <2>3. Cardinality(A) \in Nat /\ Cardinality(B) \in Nat
      BY ONLY <2>1, Turn
    <2> QED
      BY <2>2, <2>3
  <1>10. /\ Cardinality(A \cap X) <= Cardinality(T \cap X)
         /\ Cardinality(B \cap X) <= Cardinality(U \cap X)
         /\ Cardinality(A \cap X) \in Nat /\ Cardinality(B \cap X) \in Nat
    <2>1. IsFiniteSet(T \cap X) /\ IsFiniteSet(U \cap X)
      BY <1>2, PartOf
    <2> QED
      BY <1>5, <2>1, FS_Subset, FS_CardinalityType
  <1> DEFINE s == r + Cardinality(B)
  <1>11. s <= w + later /\ w <= s + later
    BY <1>1, <1>3, <1>6, <1>7, <1>8, <1>9, <1>10
  <1> HIDE DEF s
  <1>12. ByPriority' = s
    BY <1>3 DEF s
  <1> QED
    BY <1>11, <1>12 DEF w, later

----------------------------------------------------------------------------
(* Inv is inductive *)

\* Nothing is read yet.
LEMMA InvInit == Init => Inv
  BY TypeInit, StatusesInit, RatesInit, RanksInit, SumsInit DEF Inv

\* Reading moves no value, and a write moves each by rows that it changes.
LEMMA InvNext ==
  ASSUME Inv, [Next]_vars
  PROVE  Inv'
  <1>1. TypeOK /\ TypeOK'
    BY TypeNext DEF Inv
  <1>2. CASE Write
    BY <1>1, <1>2, StatusesTurn, RatesTurn, RanksTurn, SumsTurn DEF Inv
  <1>3. CASE ~Write
    <2>1. /\ Value' = Value /\ ValueOf' = ValueOf /\ query' = query /\ changes' = changes
      BY <1>1, <1>3, ValuesStay
    <2>2. Statuses' /\ Rates'
      BY <2>1 DEF Inv, Statuses, Rates, OldOf
    <2>3. Ranks' /\ Sums'
      BY <1>1, <1>3, RanksRead, SumsRead DEF Inv
    <2> QED
      BY <1>1, <2>2, <2>3 DEF Inv
  <1> QED
    BY <1>2, <1>3

\* Inv holds of every reachable state, however many rows are changed.
THEOREM InvHolds == Spec => []Inv
  BY InvInit, InvNext, PTL DEF Spec

----------------------------------------------------------------------------
(* What a report shows *)

\* A value that was read is the number in the report.
LEMMA Shows ==
  ASSUME NumbersRead, NEW k \in Numbers
  PROVE  Value[k] = report[k]
  BY DEF NumbersRead, Value

\* StatusesFit: the counts of the shown statuses, and those of the overdue and the
\* completed tasks, exceed the total by no more than the rows changed meanwhile.
THEOREM StatusesFitHolds == Spec => []StatusesFit
  <1>1. Inv => StatusesFit
    BY KeyFacts, Shows DEF Inv, Statuses, StatusesFit
  <1> QED
    BY <1>1, InvHolds, PTL

\* PrioritiesFit: for any number of priorities, their counts add up to the total, up to
\* the rows changed meanwhile.
THEOREM PrioritiesFitHolds == Spec => []PrioritiesFit
  <1>1. ASSUME Inv PROVE PrioritiesFit
    <2> SUFFICES ASSUME NumbersRead, query.priority = NoFilter
                 PROVE  Near(FoldFunctionOnSet(+, 0, report, Priorities), report["total"])
      BY DEF PrioritiesFit
    <2>1. TypeOK
      BY <1>1 DEF Inv
    <2>2. ReadOnes = Priorities
      BY KeyFacts DEF NumbersRead, ReadOnes
    <2>3. FoldFunctionOnSet(+, 0, report, Priorities) = Cardinality(Pairs(report, Priorities))
      <3>1. \A p \in Priorities : report[p] \in Nat
        BY <2>1, <2>2, OpenFacts
      <3> QED
        BY <3>1, PrioritiesAssumption, SumIs
    <2>4. Cardinality(Open) = 0
      <3>1. \A t \in Scope : task[t].priority \in Priorities
        BY <2>1 DEF TypeOK, Scope, Rows
      <3>2. Open = {}
        BY <3>1, KeyFacts DEF Open, NumbersRead
      <3> QED
        BY <3>2, FS_EmptySet
    <2>5. FoldFunctionOnSet(+, 0, report, Priorities) = ByPriority
      <3> DEFINE s == Cardinality(Pairs(report, Priorities))
      <3>1. s \in Nat /\ ByPriority = s + 0
        BY <2>1, <2>2, <2>4, OpenFacts DEF ByPriority
      <3> HIDE DEF s
      <3>2. ByPriority = s
        BY <3>1
      <3> QED
        BY <2>3, <3>2 DEF s
    <2>6. Near(ByPriority, report["total"])
      BY <1>1, KeyFacts, Shows DEF Inv, Sums
    <2> QED
      BY <2>5, <2>6
  <1>2. Inv => PrioritiesFit
    BY <1>1
  <1> QED
    BY <1>2, InvHolds, PTL

\* RankFits: the rank and the size of the team come from two moments, and are apart by
\* no more than the rows changed between them; and when none is, the rank is behind all
\* those who have completed more.
THEOREM RankFitsHolds == Spec => []RankFits
  <1>1. ASSUME Inv PROVE RankFits
    <2> SUFFICES ASSUME RankIsDue, Complete
                 PROVE  /\ report["rank"] <= report["members"] + changes
                        /\ report["rank"] = 0 => changes > 0
                        /\ changes = 0 => Cardinality(Ahead) < report["rank"]
      BY DEF RankFits, Ahead
    <2>1. role = "EMPLOYEE" /\ report["rank"] # NotRead /\ report["members"] # NotRead
      BY DEF RankIsDue, Complete, Keys, RankKeys
    <2> QED
      BY <1>1, <2>1 DEF Inv, Ranks, Members
  <1>2. Inv => RankFits
    BY <1>1
  <1> QED
    BY <1>2, InvHolds, PTL

\* RatesFit: a direct report has completed no more than was assigned in the period, the
\* old tasks and the rows changed between the two counts apart.
THEOREM RatesFitHolds == Spec => []RatesFit
  <1>1. ASSUME Inv PROVE RatesFit
    <2> SUFFICES ASSUME StaffIsDue, Complete, NEW u \in staff
                 PROVE  tally[<<"completed", u>>]
                          <= tally[<<"assigned", u>>] + changes + Cardinality(OldOf(u))
      BY DEF RatesFit, OldOf
    <2>1. u \in Users
      BY <1>1 DEF Inv, TypeOK, StaffIsDue
    <2>2. \A k \in {<<"completed", u>>, <<"assigned", u>>} : ValueOf[k] = tally[k]
      <3>1. \A k \in {<<"completed", u>>, <<"assigned", u>>} : k \in StaffKeys /\ k[2] = u
        BY <2>1 DEF StaffKeys
      <3> QED
        BY <3>1 DEF StaffIsDue, Complete, ValueOf
    <2> QED
      BY <1>1, <2>1, <2>2 DEF Inv, Rates
  <1>2. Inv => RatesFit
    BY <1>1
  <1> QED
    BY <1>2, InvHolds, PTL
=============================================================================
