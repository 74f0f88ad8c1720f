--------------------------- MODULE SessionsProofs ---------------------------
(***************************************************************************)
(* Theorems about Sessions, for any users, requests, lives of tokens and   *)
(* length of the clock.                                                    *)
(***************************************************************************)
EXTENDS Sessions, FiniteSetTheorems, TLAPS

\* A set of numbers that is not empty has a least one.
LEMMA LeastNumber ==
  ASSUME NEW S \in SUBSET Nat, S # {}
  PROVE  \E n \in S : \A m \in S : n <= m
  <1> DEFINE Below == {0..n : n \in S}
  <1>1. Below \subseteq FiniteSubsetsOf(Nat) /\ Below # {}
    <2>1. \A n \in Nat : IsFiniteSet(0..n) /\ 0..n \subseteq Nat
      BY FS_Interval
    <2> QED
      BY <2>1 DEF FiniteSubsetsOf
  <1>2. PICK X \in Below : \A Y \in Below : ~ (<<Y, X>> \in StrictSubsetOrdering(Nat))
    <2> HIDE DEF Below
    <2> QED BY <1>1, FS_StrictSubsetOrderingWellFounded, WFMin
  <1>3. PICK n \in S : X = 0..n
    OBVIOUS
  <1>4. \A m \in S : ~ (m < n)
    <2> SUFFICES ASSUME NEW m \in S, m < n PROVE FALSE
      OBVIOUS
    <2>1. 0..m \subseteq X /\ 0..m # X /\ 0..m \in Below
      BY <1>3
    <2>2. X \subseteq Nat /\ 0..m \subseteq Nat /\ X \in SUBSET Nat
      BY <1>3
    <2>3. <<0..m, X>> \in StrictSubsetOrdering(Nat)
      BY <2>1, <2>2 DEF StrictSubsetOrdering
    <2> QED
      BY <1>2, <2>1, <2>3
  <1> QED
    BY <1>4

----------------------------------------------------------------------------
(* The inductive invariant *)

Active(r) == req[r].pc \notin {"idle", "done", "error"}

Consumed == {"revoked", "gone"}

\* What a request holds.  A token it is about to replace has been consumed.
Holds(r) ==
  /\ Active(r) => req[r].user \in Users
  /\ req[r].pc \in {"looking", "wiping", "revoking"} => req[r].old \in Tokens
  /\ Active(r) /\ req[r].old # NoToken =>
       Owner(req[r].old) = req[r].user /\ row[req[r].old] # "none"
  /\ req[r].pc \in {"signing", "storing"} /\ req[r].old # NoToken =>
       row[req[r].old] \in Consumed
  /\ req[r].pc = "storing" =>
       /\ req[r].new \in Tokens
       /\ Owner(req[r].new) = req[r].user /\ req[r].new[2] <= now
       /\ req[r].old # NoToken => req[r].old[2] <= req[r].new[2]

Carries == \A r \in Requests : Holds(r)

\* A token and the one it came from: same user, later second, consumed.
Lineage ==
  \A k \in Tokens : parent[k] # NoToken =>
    /\ row[k] # "none"
    /\ row[parent[k]] \in Consumed
    /\ Owner(parent[k]) = Owner(k) /\ parent[k][2] < k[2]

\* Rows are written no earlier than their second, and go with their user.
Rows ==
  \A k \in Tokens :
    /\ row[k] # "none" => k[2] <= now
    /\ row[k] = "gone" => Owner(k) \notin users

\* Before any overlap a user has one request at most under way, ...
Lone ==
  serial =>
    \A r, q \in Requests :
      Active(r) /\ Active(q) /\ req[r].user = req[q].user => r = q

\* ... it refreshes a token nothing has been refreshed from and no logout ended, ...
Unspent ==
  serial =>
    \A r \in Requests :
      /\ req[r].pc = "revoking" => row[req[r].old] \in {"live", "gone"}
      /\ req[r].pc \in {"signing", "storing"} /\ req[r].old # NoToken =>
           req[r].old \notin ended /\ \A k \in Tokens : parent[k] # req[r].old

\* ... so that a token has one successor at most, and those of an ended one are ended.
Chains ==
  serial =>
    /\ \A k, m \in Tokens : parent[k] # NoToken /\ parent[k] = parent[m] => k = m
    /\ \A k \in Tokens : parent[k] \in ended => k \in ended
    /\ \A k \in ended : row[k] \in Consumed

Inv ==
  /\ TypeOK /\ Carries /\ Lineage /\ Rows /\ NoSessionWithoutUser
  /\ Lone /\ Unspent /\ Chains

\* A token is the pair of its user and its second.
LEMMA TokenFacts ==
  /\ NoToken \notin Tokens /\ NoUser \notin Users
  /\ \A k \in Tokens : Owner(k) \in Users /\ k[2] \in 0..MaxTime
  /\ \A u \in Users, n \in 0..MaxTime :
       <<u, n>> \in Tokens /\ Owner(<<u, n>>) = u /\ <<u, n>>[2] = n
  /\ MaxTime \in Nat
  /\ \A k, m \in Tokens : Owner(k) = Owner(m) /\ k[2] = m[2] => k = m
  <1>1. \A k \in Tokens : k = <<k[1], k[2]>>
    BY DEF Tokens
  <1> QED
    BY <1>1, NamesAssumption, ClockAssumption DEF Tokens, Owner

\* At first no token was signed.
LEMMA InvInit == Init => Inv
  BY TokenFacts DEF Init, Inv, TypeOK, Carries, Holds, Lineage, Rows, NoSessionWithoutUser, Lone,
     Unspent, Chains, Active, Issued, States

\* What a request holds stays true while it waits: rows only grow older.
LEMMA HoldsKept ==
  ASSUME Inv, NEW q \in Requests, req'[q] = req[q], now \in Nat, now' \in Nat, now <= now',
         \A k \in Tokens : row[k] # "none" => row'[k] # "none",
         \A k \in Tokens : row[k] \in Consumed => row'[k] \in Consumed
  PROVE  Holds(q)'
  <1>1. /\ Holds(q) /\ req[q].old \in Tokens \cup {NoToken}
    BY DEF Inv, Carries, TypeOK
  <1>2. req[q].new \in Tokens => req[q].new[2] \in Nat
    BY TokenFacts
  <1> QED
    BY <1>1, <1>2 DEF Holds, Active

----------------------------------------------------------------------------
(* The steps *)

\* A request enters: the token it presents is its user's and has a row.
LEMMA BeginInv ==
  ASSUME Inv, NEW r \in Requests, NEW u \in Users, NEW pc \in {"looking", "signing", "clearing"},
         NEW old \in Tokens \cup {NoToken},
         pc = "looking" => old \in Tokens,
         old # NoToken => pc = "looking" /\ Owner(old) = u /\ row[old] # "none",
         Begin(r, u, pc, old),
         UNCHANGED <<now, users, row, expiry, parent, ended>>
  PROVE  Inv'
  <1> DEFINE new == [pc |-> pc, user |-> u, old |-> old, new |-> NoToken]
  <1>1. req' = [req EXCEPT ![r] = new] /\ serial' = (serial /\ ~InService(u))
    BY DEF Begin
  <1>2. /\ new \in [pc : States, user : Users \cup {NoUser},
                    old : Tokens \cup {NoToken}, new : Tokens \cup {NoToken}]
        /\ new.pc = pc /\ new.user = u /\ new.old = old
    BY DEF States
  <1> HIDE DEF new
  <1>3. \A q \in Requests : req'[q] = IF q = r THEN new ELSE req[q]
    BY <1>1 DEF Inv, TypeOK
  <1>4. TypeOK'
    BY <1>1, <1>2 DEF Inv, TypeOK
  <1>5. Carries'
    BY <1>2, <1>3 DEF Inv, Carries, Holds, Active
  <1>6. Lineage' /\ Rows' /\ NoSessionWithoutUser'
    BY DEF Inv, Lineage, Rows, NoSessionWithoutUser, Issued
  <1>7. serial' => serial /\ \A q \in Requests : Active(q) => req[q].user # u
    BY <1>1 DEF InService, Active
  <1>8. Lone'
    BY <1>2, <1>3, <1>7 DEF Inv, Lone, Active
  <1>9. Unspent' /\ Chains'
    BY <1>2, <1>3, <1>7 DEF Inv, Unspent, Chains
  <1> QED
    BY <1>4, <1>5, <1>6, <1>8, <1>9 DEF Inv

\* A request ends, and so does what the invariant says of it.
LEMMA EndInv ==
  ASSUME Inv, NEW r \in Requests, NEW pc \in {"done", "error"}, Goto(r, pc),
         UNCHANGED <<now, users, row, expiry, parent, ended>>
  PROVE  Inv'
  <1>1. \A q \in Requests :
          req'[q] = IF q = r THEN [req[r] EXCEPT !.pc = pc] ELSE req[q]
    BY DEF Goto, Inv, TypeOK
  <1>2. TypeOK' /\ serial' = serial
    BY DEF Goto, Inv, TypeOK, States
  <1>3. \A q \in Requests : q # r => req'[q] = req[q]
    BY <1>1
  <1>4. req'[r].pc = pc
    BY <1>1 DEF Inv, TypeOK
  <1>5. Carries' /\ Lone' /\ Unspent'
    BY <1>2, <1>3, <1>4 DEF Inv, Carries, Holds, Lone, Unspent, Active
  <1>6. Lineage' /\ Rows' /\ NoSessionWithoutUser' /\ Chains'
    BY <1>2 DEF Inv, Lineage, Rows, NoSessionWithoutUser, Issued, Chains
  <1> QED
    BY <1>2, <1>5, <1>6 DEF Inv

\* validateRefreshToken only reads: the token is live, or its reuse is noticed.
LEMMA ValidateInv ==
  ASSUME Inv, NEW r \in Requests, Validate(r)
  PROVE  Inv'
  <1> DEFINE k == req[r].old
  <1>1. PICK pc \in {"error", "wiping", "revoking"} :
          /\ Goto(r, pc) /\ req[r].pc = "looking"
          /\ pc = "revoking" => row[k] = "live"
          /\ UNCHANGED <<now, users, row, expiry, parent, ended>>
    BY DEF Validate, Issued
  <1>2. /\ \A q \in Requests : q # r => req'[q] = req[q]
        /\ req'[r].pc = pc /\ req'[r].old = k /\ req'[r].user = req[r].user
        /\ TypeOK' /\ serial' = serial
    BY <1>1 DEF Goto, Inv, TypeOK, States
  <1>3. Carries'
    BY <1>1, <1>2 DEF Inv, Carries, Holds, Active
  <1>4. Lone'
    BY <1>1, <1>2 DEF Inv, Lone, Active
  <1>5. Unspent'
    BY <1>1, <1>2 DEF Inv, Unspent
  <1>6. Lineage' /\ Rows' /\ NoSessionWithoutUser' /\ Chains'
    BY <1>1, <1>2 DEF Inv, Lineage, Rows, NoSessionWithoutUser, Issued, Chains
  <1> QED
    BY <1>2, <1>3, <1>4, <1>5, <1>6 DEF Inv

\* Revoking a user's live tokens touches neither what is consumed nor what is new.
LEMMA RevokeAllFacts ==
  ASSUME TypeOK, NEW u, RevokeAll(u)
  PROVE  /\ row' \in [Tokens -> {"none", "live", "revoked", "gone"}]
         /\ \A k \in Tokens :
             row'[k] # row[k] => Owner(k) = u /\ row[k] = "live" /\ row'[k] = "revoked"
         /\ \A k \in Tokens : Owner(k) = u => row'[k] # "live"
  BY DEF RevokeAll, TypeOK

\* What an only request knows of its token stays true while others change what
\* is not its user's.
LEMMA UnspentKept ==
  ASSUME Inv, NEW r \in Requests, serial' => serial, ~ Active(r)',
         \A q \in Requests : q # r => req'[q] = req[q],
         parent' = parent,
         \A q \in Requests : serial /\ q # r /\ Active(q) =>
           \A k \in Tokens : Owner(k) = req[q].user =>
             /\ row'[k] = row[k]
             /\ k \in ended' => k \in ended
  PROVE  Unspent'
  <1> SUFFICES ASSUME serial, NEW q \in Requests, q # r, Active(q)
               PROVE  /\ req[q].pc = "revoking" => row'[req[q].old] \in {"live", "gone"}
                      /\ req[q].pc \in {"signing", "storing"} /\ req[q].old # NoToken =>
                           /\ req[q].old \notin ended'
                           /\ \A k \in Tokens : parent[k] # req[q].old
    BY DEF Unspent, Active
  <1>1. req[q].old \in Tokens => Owner(req[q].old) = req[q].user
    BY TokenFacts DEF Inv, Carries, Holds
  <1>2. req[q].old \in Tokens \cup {NoToken}
    BY DEF Inv, TypeOK
  <1>3. req[q].pc = "revoking" => req[q].old \in Tokens
    BY DEF Inv, Carries, Holds
  <1> QED
    BY <1>1, <1>2, <1>3 DEF Inv, Unspent

\* Reuse detection revokes every live token of the user.
LEMMA WipeInv ==
  ASSUME Inv, NEW r \in Requests, Wipe(r)
  PROVE  Inv'
  <1> DEFINE u == req[r].user
  <1>1. /\ \A q \in Requests : q # r => req'[q] = req[q]
        /\ req'[r].pc = "error" /\ req[r].pc = "wiping" /\ serial' = serial
        /\ TypeOK'
    BY RevokeAllFacts DEF Wipe, Goto, Inv, TypeOK, States
  <1>2. UNCHANGED <<now, users, expiry, parent, ended>>
    BY DEF Wipe
  <1>3. /\ \A k \in Tokens :
             row'[k] # row[k] => Owner(k) = u /\ row[k] = "live" /\ row'[k] = "revoked"
    BY RevokeAllFacts DEF Wipe, Inv
  <1>4. Carries'
    <2>1. \A q \in Requests : q # r => Holds(q)'
      BY <1>1, <1>2, <1>3, HoldsKept DEF Inv, TypeOK, Consumed
    <2> QED
      BY <1>1, <2>1 DEF Carries, Holds, Active
  <1>5. Lineage' /\ Rows' /\ NoSessionWithoutUser'
    BY <1>2, <1>3 DEF Inv, Lineage, Rows, NoSessionWithoutUser, Issued, Consumed, TypeOK
  <1>6. Lone'
    BY <1>1 DEF Inv, Lone, Active
  <1>7. Chains'
    BY <1>1, <1>2, <1>3 DEF Inv, Chains, Consumed, TypeOK
  <1>8. Unspent'
    <2>1. ASSUME serial, NEW q \in Requests, q # r, Active(q)
          PROVE  req[q].user # u
      BY <1>1, <2>1 DEF Inv, Lone, Active
    <2>2. ~ Active(r)'
      BY <1>1 DEF Active
    <2>3. \A q \in Requests : serial /\ q # r /\ Active(q) =>
            \A k \in Tokens : Owner(k) = req[q].user => row'[k] = row[k]
      BY <1>3, <2>1
    <2> QED
      BY <1>1, <1>2, <2>2, <2>3, UnspentKept
  <1> QED
    BY <1>1, <1>4, <1>5, <1>6, <1>7, <1>8 DEF Inv

\* A logout ends the tokens that have a row, and with them all that came from them.
LEMMA ClearAllInv ==
  ASSUME Inv, NEW r \in Requests, ClearAll(r)
  PROVE  Inv'
  <1> DEFINE u == req[r].user
             Closed == {k \in Tokens : Owner(k) = u /\ Issued(k)}
  <1>1. /\ \A q \in Requests : q # r => req'[q] = req[q]
        /\ req'[r].pc = "done" /\ req[r].pc = "clearing" /\ serial' = serial
        /\ TypeOK' /\ ended' = ended \cup Closed
        /\ UNCHANGED <<now, users, expiry, parent>>
    BY RevokeAllFacts DEF ClearAll, Goto, Inv, TypeOK, States
  <1>2. /\ \A k \in Tokens :
             row'[k] # row[k] => Owner(k) = u /\ row[k] = "live" /\ row'[k] = "revoked"
        /\ \A k \in Tokens : Owner(k) = u => row'[k] # "live"
    BY RevokeAllFacts DEF ClearAll, Inv
  <1>3. Carries'
    <2>1. \A q \in Requests : q # r => Holds(q)'
      BY <1>1, <1>2, HoldsKept DEF Inv, TypeOK, Consumed
    <2> QED
      BY <1>1, <2>1 DEF Carries, Holds, Active
  <1>4. Lineage' /\ Rows' /\ NoSessionWithoutUser'
    BY <1>1, <1>2 DEF Inv, Lineage, Rows, NoSessionWithoutUser, Issued, Consumed, TypeOK
  <1>5. Lone'
    BY <1>1 DEF Inv, Lone, Active
  <1>6. ASSUME serial, NEW q \in Requests, q # r, Active(q)
        PROVE  req[q].user # u
    BY <1>1, <1>6 DEF Inv, Lone, Active
  <1>7. Unspent'
    <2>1. ~ Active(r)'
      BY <1>1 DEF Active
    <2>2. \A q \in Requests : serial /\ q # r /\ Active(q) =>
            \A k \in Tokens : Owner(k) = req[q].user =>
              row'[k] = row[k] /\ k \notin Closed
      BY <1>2, <1>6
    <2> QED
      BY <1>1, <2>1, <2>2, UnspentKept
  <1>8. Chains'
    <2>1. \A k \in Closed : row'[k] \in Consumed
      BY <1>2 DEF Issued, Consumed
    <2>2. \A k \in Tokens : parent[k] \in Closed => k \in Closed
      <3> SUFFICES ASSUME NEW k \in Tokens, parent[k] \in Closed PROVE k \in Closed
        OBVIOUS
      <3>1. parent[k] # NoToken
        BY TokenFacts
      <3>2. Owner(k) = u /\ row[k] # "none" /\ Owner(k) \in users
        BY <3>1 DEF Inv, Lineage, NoSessionWithoutUser
      <3> QED
        BY <3>2 DEF Inv, TypeOK, Rows, Issued
    <2> QED
      BY <1>1, <1>2, <2>1, <2>2 DEF Inv, Chains, Consumed, TypeOK
  <1> QED
    BY <1>1, <1>3, <1>4, <1>5, <1>7, <1>8 DEF Inv

\* The refreshed token is consumed before its successor is signed.
LEMMA RevokeInv ==
  ASSUME Inv, NEW r \in Requests, Revoke(r)
  PROVE  Inv'
  <1> DEFINE k == req[r].old
  <1>1. /\ UNCHANGED <<now, users, expiry, parent, ended, serial>>
        /\ req[r].pc = "revoking" /\ k \in Tokens
        /\ Owner(k) = req[r].user
    BY TokenFacts DEF Revoke, Goto, Inv, Carries, Holds, Active
  <1>2. CASE ~Issued(k)
    <2>1. Goto(r, "error") /\ UNCHANGED row
      BY <1>2 DEF Revoke
    <2> QED
      BY <1>1, <2>1, EndInv
  <1>3. CASE Issued(k)
    <2>1. /\ \A q \in Requests : q # r => req'[q] = req[q]
          /\ req'[r].pc = "signing" /\ req'[r].old = k /\ req'[r].user = req[r].user
          /\ TypeOK'
          /\ row' = [row EXCEPT ![k] = "revoked"]
      BY <1>1, <1>3 DEF Revoke, Goto, Inv, TypeOK, States
    <2>2. \A m \in Tokens : row'[m] = IF m = k THEN "revoked" ELSE row[m]
      BY <2>1 DEF Inv, TypeOK
    <2>3. Carries'
      <3>1. \A q \in Requests : q # r => Holds(q)'
        BY <1>1, <2>1, <2>2, HoldsKept DEF Inv, TypeOK, Consumed
      <3>2. Holds(r)'
        BY <1>1, <2>1, <2>2 DEF Holds, Active, Consumed, Inv, Carries
      <3> QED
        BY <3>1, <3>2 DEF Carries
    <2>4. Lineage' /\ Rows' /\ NoSessionWithoutUser'
      BY <1>1, <1>3, <2>2
      DEF Inv, Lineage, Rows, NoSessionWithoutUser, Issued, Consumed, TypeOK
    <2>5. Lone'
      BY <1>1, <2>1 DEF Inv, Lone, Active
    <2>6. Unspent'
      <3> SUFFICES ASSUME serial, NEW q \in Requests
                   PROVE  /\ req'[q].pc = "revoking" => row'[req'[q].old] \in {"live", "gone"}
                          /\ req'[q].pc \in {"signing", "storing"} /\ req'[q].old # NoToken =>
                               /\ req'[q].old \notin ended
                               /\ \A m \in Tokens : parent[m] # req'[q].old
        BY <1>1 DEF Unspent
      <3>1. CASE q = r
        <4>1. row[k] = "live"
          BY <1>1, <1>3 DEF Inv, Unspent, Issued
        <4>2. k \notin ended /\ \A m \in Tokens : parent[m] # k
          BY <1>1, <4>1, TokenFacts DEF Inv, Chains, Lineage, Consumed
        <4> QED
          BY <2>1, <3>1, <4>2
      <3>2. CASE q # r
        <4>1. Active(q) => req[q].user # req[r].user
          BY <1>1, <3>2 DEF Inv, Lone, Active
        <4>2. req[q].pc = "revoking" => req[q].old \in Tokens /\ req[q].old # k
          BY <1>1, <4>1, TokenFacts DEF Inv, Carries, Holds, Active
        <4> QED
          BY <2>1, <2>2, <3>2, <4>2 DEF Inv, Unspent
      <3> QED
        BY <3>1, <3>2
    <2>7. Chains'
      BY <1>1, <2>2 DEF Inv, Chains, Consumed, TypeOK
    <2> QED
      BY <2>1, <2>3, <2>4, <2>5, <2>6, <2>7 DEF Inv
  <1> QED
    BY <1>2, <1>3

\* A token is signed in the current second, no earlier than the one it replaces.
LEMMA SignInv ==
  ASSUME Inv, NEW r \in Requests, Sign(r)
  PROVE  Inv'
  <1> DEFINE k == req[r].old
             m == <<req[r].user, now>>
  <1>1. /\ UNCHANGED <<now, users, row, expiry, parent, ended, serial>>
        /\ req[r].pc = "signing" /\ req[r].user \in Users
        /\ k # NoToken => k \in Tokens /\ Owner(k) = req[r].user /\ row[k] \in Consumed
        /\ m \in Tokens /\ Owner(m) = req[r].user /\ m[2] = now
    BY TokenFacts DEF Sign, Goto, Inv, TypeOK, Carries, Holds, Active
  <1>2. CASE Goto(r, "error")
    BY <1>1, <1>2, EndInv
  <1>3. CASE req' = [req EXCEPT ![r].pc = "storing", ![r].new = m]
    <2>1. /\ \A q \in Requests : q # r => req'[q] = req[q]
          /\ req'[r].pc = "storing" /\ req'[r].old = k /\ req'[r].user = req[r].user
          /\ req'[r].new = m
          /\ TypeOK'
      BY <1>1, <1>3 DEF Inv, TypeOK, States
    <2>2. Carries'
      <3>1. \A q \in Requests : q # r => Holds(q)'
        BY <1>1, <2>1, HoldsKept DEF Inv, TypeOK, Consumed
      <3>2. k # NoToken => k[2] <= now
        BY <1>1 DEF Inv, Rows, Consumed
      <3>3. Holds(r)'
        <4> HIDE DEF m
        <4> QED
          BY <1>1, <2>1, <3>2, ClockAssumption DEF Holds, Active, Consumed, Inv, TypeOK
      <3> QED
        BY <3>1, <3>3 DEF Carries
    <2>3. Lone' /\ Unspent'
      BY <1>1, <2>1 DEF Inv, Lone, Unspent, Active
    <2>4. Lineage' /\ Rows' /\ NoSessionWithoutUser' /\ Chains'
      BY <1>1 DEF Inv, Lineage, Rows, NoSessionWithoutUser, Issued, Chains
    <2> QED
      BY <2>1, <2>2, <2>3, <2>4 DEF Inv
  <1> QED
    BY <1>2, <1>3 DEF Sign

\* The insert is refused if the string exists or the user is gone; otherwise the token
\* gets its parent.
LEMMA StoreInv ==
  ASSUME Inv, NEW r \in Requests, Store(r)
  PROVE  Inv'
  <1> DEFINE k == req[r].new
             old == req[r].old
  <1>1. /\ UNCHANGED <<now, users, ended, serial>>
        /\ req[r].pc = "storing" /\ k \in Tokens /\ Owner(k) = req[r].user /\ k[2] <= now
        /\ old \in Tokens \cup {NoToken}
        /\ old # NoToken =>
             old \in Tokens /\ Owner(old) = Owner(k) /\ row[old] \in Consumed /\ old[2] <= k[2]
    BY DEF Store, Goto, Inv, TypeOK, Carries, Holds, Active
  <1>2. CASE Goto(r, "error") /\ UNCHANGED <<row, expiry, parent>>
    BY <1>1, <1>2, EndInv
  <1>3. CASE /\ ~Issued(k) /\ Owner(k) \in users
             /\ row' = [row EXCEPT ![k] = "live"]
             /\ expiry' = [expiry EXCEPT ![k] = now + RowLife]
             /\ parent' = [parent EXCEPT ![k] = old]
             /\ Goto(r, "done")
    <2>1. row[k] = "none" /\ parent[k] = NoToken /\ \A m \in Tokens : parent[m] # k
      <3>1. row[k] = "none"
        BY <1>1, <1>3 DEF Inv, TypeOK, Rows, Issued
      <3> QED
        BY <1>1, <3>1, TokenFacts DEF Inv, Lineage, Consumed
    <2>2. /\ \A q \in Requests : q # r => req'[q] = req[q]
          /\ req'[r].pc = "done"
          /\ TypeOK'
      BY <1>1, <1>3, ClockAssumption DEF Goto, Inv, TypeOK, States
    <2>3. \A m \in Tokens : /\ row'[m] = IF m = k THEN "live" ELSE row[m]
                            /\ parent'[m] = IF m = k THEN old ELSE parent[m]
      BY <1>3 DEF Inv, TypeOK
    <2>4. Carries'
      <3>1. \A q \in Requests : q # r => Holds(q)'
        BY <1>1, <2>1, <2>2, <2>3, HoldsKept DEF Inv, TypeOK, Consumed
      <3> QED
        BY <2>2, <3>1 DEF Carries, Holds, Active
    <2>5. Lineage'
      <3>1. old # NoToken => old[2] < k[2] /\ old # k
        BY <1>1, <2>1, TokenFacts DEF Consumed
      <3> QED
        <4> SUFFICES ASSUME NEW m \in Tokens, parent'[m] # NoToken
                     PROVE  /\ row'[m] # "none"
                            /\ row'[parent'[m]] \in Consumed
                            /\ Owner(parent'[m]) = Owner(m) /\ parent'[m][2] < m[2]
          BY DEF Lineage
        <4>1. CASE m = k
          BY <1>1, <2>3, <3>1, <4>1
        <4>2. CASE m # k
          BY <1>1, <2>1, <2>3, <4>2 DEF Inv, TypeOK, Lineage
        <4> QED
          BY <4>1, <4>2
    <2>6. Rows' /\ NoSessionWithoutUser'
      BY <1>1, <1>3, <2>3 DEF Inv, Rows, NoSessionWithoutUser, Issued
    <2>7. Lone'
      BY <1>1, <2>2 DEF Inv, Lone, Active
    <2>8. Unspent'
      <3> SUFFICES ASSUME serial, NEW q \in Requests, q # r, Active(q)
                   PROVE  /\ req[q].pc = "revoking" => row'[req[q].old] \in {"live", "gone"}
                          /\ req[q].pc \in {"signing", "storing"} /\ req[q].old # NoToken =>
                               /\ req[q].old \notin ended
                               /\ \A m \in Tokens : parent'[m] # req[q].old
        BY <1>1, <2>2 DEF Unspent, Active
      <3>1. req[q].user # req[r].user
        BY <1>1 DEF Inv, Lone, Active
      <3>2. /\ req[q].pc = "revoking" => req[q].old \in Tokens
            /\ req[q].old # NoToken => Owner(req[q].old) = req[q].user
        BY DEF Inv, Carries, Holds
      <3>3. req[q].old \notin {k, old} \ {NoToken}
        BY <1>1, <3>1, <3>2, TokenFacts
      <3> QED
        BY <1>1, <2>3, <3>2, <3>3, TokenFacts DEF Inv, Unspent
    <2>9. Chains'
      <3>1. serial /\ old # NoToken => old \notin ended /\ \A m \in Tokens : parent[m] # old
        BY <1>1 DEF Inv, Unspent
      <3>2. serial => k \notin ended
        BY <2>1 DEF Inv, Chains, Consumed
      <3>3. NoToken \notin ended
        BY TokenFacts DEF Inv, TypeOK
      <3> QED
        <4>1. ended \subseteq Tokens
          BY DEF Inv, TypeOK
        <4>2. serial => \A m \in ended : row'[m] \in Consumed
          BY <2>3, <3>2, <4>1 DEF Inv, Chains
        <4>3. serial => \A m \in Tokens : parent'[m] \in ended => m \in ended
          BY <1>1, <2>3, <3>1, <3>3 DEF Inv, Chains
        <4>4. serial => \A m, n \in Tokens :
                          parent'[m] # NoToken /\ parent'[m] = parent'[n] => m = n
          BY <1>1, <2>3, <3>1 DEF Inv, Chains
        <4> QED
          BY <1>1, <4>2, <4>3, <4>4 DEF Chains
    <2> QED
      BY <2>2, <2>4, <2>5, <2>6, <2>7, <2>8, <2>9 DEF Inv
  <1> QED
    BY <1>2, <1>3 DEF Store

\* The cascade removes every row of the user, whatever requests still hold.
LEMMA DeleteUserInv ==
  ASSUME Inv, NEW u \in Users, DeleteUser(u)
  PROVE  Inv'
  <1>1. /\ UNCHANGED <<now, expiry, parent, ended, req, serial>>
        /\ users' = users \ {u}
        /\ \A k \in Tokens : row'[k] = IF Owner(k) = u /\ Issued(k) THEN "gone" ELSE row[k]
        /\ TypeOK'
    BY DEF DeleteUser, Inv, TypeOK
  <1>2. Carries'
    <2>1. \A q \in Requests : Holds(q)'
      BY <1>1, HoldsKept DEF Inv, TypeOK, Consumed, Issued
    <2> QED
      BY <2>1 DEF Carries
  <1>3. Lineage' /\ Rows' /\ NoSessionWithoutUser'
    BY <1>1 DEF Inv, Lineage, Rows, NoSessionWithoutUser, Issued, Consumed, TypeOK
  <1>4. Lone'
    BY <1>1 DEF Inv, Lone, Active
  <1>5. Unspent'
    BY <1>1 DEF Inv, Unspent, Carries, Holds, Issued
  <1>6. Chains'
    BY <1>1 DEF Inv, Chains, Consumed, TypeOK, Issued
  <1> QED
    BY <1>1, <1>2, <1>3, <1>4, <1>5, <1>6 DEF Inv

\* Time passes: nothing but the clock changes.
LEMMA TickInv ==
  ASSUME Inv, Tick
  PROVE  Inv'
  <1>1. /\ UNCHANGED <<users, row, expiry, parent, ended, req, serial>>
        /\ now \in Nat /\ now' \in Nat /\ now <= now'
        /\ TypeOK'
    BY ClockAssumption DEF Tick, Inv, TypeOK
  <1>2. Carries'
    <2>1. \A q \in Requests : Holds(q)'
      BY <1>1, HoldsKept
    <2> QED
      BY <2>1 DEF Carries
  <1>3. Rows'
    BY <1>1, TokenFacts DEF Inv, Rows
  <1>4. Lineage' /\ NoSessionWithoutUser' /\ Lone' /\ Unspent' /\ Chains'
    BY <1>1 DEF Inv, Lineage, NoSessionWithoutUser, Issued, Lone, Active, Unspent, Chains
  <1> QED
    BY <1>1, <1>2, <1>3, <1>4 DEF Inv

\* Every step preserves Inv.
LEMMA InvNext ==
  ASSUME Inv, [Next]_vars
  PROVE  Inv'
  <1>1. ASSUME NEW r \in Requests, NEW u \in Users, SignIn(r, u)
        PROVE  Inv'
    BY <1>1, BeginInv DEF SignIn
  <1>2. ASSUME NEW r \in Requests, NEW u \in Users, Logout(r, u)
        PROVE  Inv'
    BY <1>2, BeginInv DEF Logout
  <1>3. ASSUME NEW r \in Requests, NEW k \in Tokens, PresentToken(r, k)
        PROVE  Inv'
    BY <1>3, BeginInv, TokenFacts DEF PresentToken, Issued
  <1>4. ASSUME NEW r \in Requests, Serve(r)
        PROVE  Inv'
    BY <1>4, ValidateInv, WipeInv, RevokeInv, SignInv, StoreInv, ClearAllInv DEF Serve
  <1>5. ASSUME NEW r \in Requests, RequestDies(r)
        PROVE  Inv'
    BY <1>5, EndInv DEF RequestDies
  <1>6. ASSUME NEW u \in Users, DeleteUser(u)
        PROVE  Inv'
    BY <1>6, DeleteUserInv
  <1>7. CASE Tick
    BY <1>7, TickInv
  <1>8. CASE UNCHANGED vars
    BY <1>8 DEF vars, Inv, TypeOK, Carries, Holds, Lineage, Rows, NoSessionWithoutUser,
       Issued, Lone, Active, Unspent, Chains
  <1> QED
    BY <1>1, <1>2, <1>3, <1>4, <1>5, <1>6, <1>7, <1>8 DEF Next

\* Inv holds of every reachable state.
THEOREM InvHolds == Spec => []Inv
  <1> QED
    BY InvInit, InvNext, PTL DEF Spec

----------------------------------------------------------------------------
(* Rows and rotation *)

\* The variables have their types: what validateRefreshToken, refresh and logout write
\* are rows of the table.
THEOREM TypeCorrect == Spec => []TypeOK
  <1>1. Inv => TypeOK
    BY DEF Inv
  <1> QED
    BY <1>1, InvHolds, PTL

\* No token outlives its user: the insert that follows the read of the user is refused
\* once the user is deleted, and the deletion takes along what was there.
THEOREM NoSessionWithoutUserHolds == Spec => []NoSessionWithoutUser
  <1>1. Inv => NoSessionWithoutUser
    BY DEF Inv
  <1> QED
    BY <1>1, InvHolds, PTL

\* A usable token that came out of a refresh has consumed the one it came from, through
\* any overlap of refreshes, reuse detection, logouts and deletions.
THEOREM RotationConsumesHolds == Spec => []RotationConsumes
  <1>1. ASSUME Inv
        PROVE  RotationConsumes
    <2> SUFFICES ASSUME NEW k \in Tokens, row[k] = "live", parent[k] # NoToken
                 PROVE  row[parent[k]] = "revoked"
      BY DEF RotationConsumes
    <2>1. Owner(k) \in users
      BY <1>1 DEF Inv, NoSessionWithoutUser, Issued
    <2>2. /\ parent[k] \in Tokens /\ Owner(parent[k]) = Owner(k)
          /\ row[parent[k]] \in Consumed
      BY <1>1 DEF Inv, TypeOK, Lineage
    <2> QED
      BY <1>1, <2>1, <2>2 DEF Inv, Rows, Consumed
  <1> QED
    BY <1>1, InvHolds, PTL

\* What a request writes over a row that is revoked leaves it revoked; only the
\* deletion of its user takes it.
LEMMA RevokedStays ==
  ASSUME Inv, [Next]_vars, NEW k \in Tokens, row[k] = "revoked"
  PROVE  row'[k] \in {"revoked", "gone"}
  <1>1. ASSUME NEW r \in Requests, Serve(r)
        PROVE  row'[k] = "revoked"
    <2>1. CASE Wipe(r) \/ ClearAll(r)
      BY <2>1 DEF Wipe, ClearAll, RevokeAll
    <2>2. CASE Revoke(r)
      BY <2>2 DEF Revoke, Inv, TypeOK
    <2>3. CASE Store(r)
      BY <2>3 DEF Store, Inv, TypeOK, Issued
    <2>4. CASE Validate(r) \/ Sign(r)
      BY <2>4 DEF Validate, Sign
    <2> QED
      BY <1>1, <2>1, <2>2, <2>3, <2>4 DEF Serve
  <1>2. ASSUME NEW u \in Users, DeleteUser(u)
        PROVE  row'[k] \in {"revoked", "gone"}
    BY <1>2 DEF DeleteUser
  <1>3. CASE UNCHANGED row
    BY <1>3
  <1> QED
    BY <1>1, <1>2, <1>3
    DEF Next, vars, SignIn, Logout, PresentToken, RequestDies, Tick

\* A revoked token stays revoked until its user goes, although two tokens of one second
\* are the same token.
THEOREM NeverRevivedHolds == Spec => NeverRevived
  <1>1. ASSUME Inv, [Next]_vars
        PROVE  [\A k \in Tokens : row[k] = "revoked" => row'[k] \in {"revoked", "gone"}]_vars
    BY <1>1, RevokedStays
  <1> QED
    BY <1>1, InvHolds, PTL DEF Spec, NeverRevived

----------------------------------------------------------------------------
(* Chains of refreshes *)

\* Ancestors is what its equation says: the least sets closed under parent satisfy it.
LEMMA AncestorsIs ==
  \A k \in Tokens :
    Ancestors[k] = IF parent[k] \in Tokens THEN {k} \cup Ancestors[parent[k]] ELSE {k}
  <1> DEFINE IsClosed(S) == \A x \in S : parent[x] \in Tokens => parent[x] \in S
             least == [k \in Tokens |->
                         {m \in Tokens :
                            \A S \in SUBSET Tokens : k \in S /\ IsClosed(S) => m \in S}]
             step(k) == IF parent[k] \in Tokens THEN {k} \cup least[parent[k]] ELSE {k}
  <1>1. ASSUME NEW k \in Tokens
        PROVE  least[k] = step(k)
    <2>1. step(k) \subseteq least[k]
      OBVIOUS
    <2>2. step(k) \in SUBSET Tokens /\ k \in step(k)
      OBVIOUS
    <2>3. IsClosed(step(k))
      <3>1. ASSUME NEW p \in Tokens
            PROVE  IsClosed(least[p]) /\ p \in least[p]
        OBVIOUS
      <3> QED
        BY <3>1
    <2>4. least[k] \subseteq step(k)
      BY <2>2, <2>3
    <2> QED
      BY <2>1, <2>4
  <1>2. least = [k \in Tokens |->
                   IF parent[k] \in Tokens THEN {k} \cup least[parent[k]] ELSE {k}]
    BY <1>1
  <1> HIDE DEF least
  <1>3. Ancestors = [k \in Tokens |->
                       IF parent[k] \in Tokens THEN {k} \cup Ancestors[parent[k]] ELSE {k}]
    BY <1>2 DEF Ancestors
  <1> QED
    BY <1>3

\* Induction along refreshes: a set of tokens has one whose parent is not in it.
LEMMA FirstOfChain ==
  ASSUME Inv, NEW B \in SUBSET Tokens, B # {}
  PROVE  \E k \in B : parent[k] \notin B
  <1> DEFINE Times == {k[2] : k \in B}
  <1>1. Times \in SUBSET Nat /\ Times # {}
    BY TokenFacts
  <1>2. PICK n \in Times : \A m \in Times : n <= m
    <2> HIDE DEF Times
    <2> QED
      BY <1>1, LeastNumber
  <1>3. PICK k \in B : k[2] = n
    OBVIOUS
  <1>4. ASSUME parent[k] \in B
        PROVE  FALSE
    <2>1. parent[k][2] < k[2] /\ parent[k][2] \in Times /\ k[2] \in Times
      BY <1>4, TokenFacts DEF Inv, Lineage
    <2> HIDE DEF Times
    <2>2. k[2] <= parent[k][2] /\ k[2] \in Nat /\ parent[k][2] \in Nat
      BY <1>1, <1>2, <1>3, <2>1
    <2> QED
      BY <2>1, <2>2
  <1> QED
    BY <1>4

\* An ancestor is the token itself or the parent of another ancestor.
LEMMA AncestorHasChild ==
  ASSUME Inv, NEW k \in Tokens, NEW a \in Ancestors[k], a # k
  PROVE  \E c \in Tokens : c \in Ancestors[k] /\ parent[c] = a
  <1> DEFINE Good(x) == \A b \in Ancestors[x] :
                          b = x \/ \E c \in Tokens : c \in Ancestors[x] /\ parent[c] = b
             Bad == {x \in Tokens : ~Good(x)}
  <1>1. Bad = {}
    <2> SUFFICES ASSUME Bad # {} PROVE FALSE
      OBVIOUS
    <2>1. PICK x \in Bad : parent[x] \notin Bad
      BY FirstOfChain
    <2>2. parent[x] \in Tokens => Good(parent[x])
      BY <2>1
    <2>3. Good(x)
      <3> SUFFICES ASSUME NEW b \in Ancestors[x], b # x
                   PROVE  \E c \in Tokens : c \in Ancestors[x] /\ parent[c] = b
        OBVIOUS
      <3>1. /\ x \in Tokens /\ parent[x] \in Tokens /\ b \in Ancestors[parent[x]]
            /\ x \in Ancestors[x] /\ Ancestors[parent[x]] \subseteq Ancestors[x]
        BY AncestorsIs
      <3>2. CASE b = parent[x]
        BY <3>1, <3>2
      <3>3. CASE b # parent[x]
        BY <2>2, <3>1, <3>3
      <3> QED
        BY <3>2, <3>3
    <2> QED
      BY <2>3
  <1> QED
    BY <1>1

\* While no two requests of a user overlap, what descends from an ended token is ended.
LEMMA EndedGoesDown ==
  ASSUME Inv, serial, NEW k \in Tokens, NEW a \in Ancestors[k], a \in ended
  PROVE  k \in ended
  <1> DEFINE Bad == {x \in Tokens : x \notin ended /\ \E b \in Ancestors[x] : b \in ended}
  <1>1. Bad = {}
    <2> SUFFICES ASSUME Bad # {} PROVE FALSE
      OBVIOUS
    <2>1. PICK x \in Bad : parent[x] \notin Bad
      BY FirstOfChain
    <2>2. PICK b \in Ancestors[x] : b \in ended
      OBVIOUS
    <2>3. parent[x] \in Tokens /\ b \in Ancestors[parent[x]]
      BY <2>2, AncestorsIs
    <2>4. parent[x] \in ended
      BY <2>1, <2>2, <2>3
    <2> QED
      BY <2>4 DEF Inv, Chains
  <1> QED
    BY <1>1

\* While no two requests of a user overlap, of two tokens with a common ancestor one
\* descends from the other.
LEMMA ChainsDoNotFork ==
  ASSUME Inv, serial, NEW k \in Tokens, NEW m \in Tokens,
         Ancestors[k] \cap Ancestors[m] # {}
  PROVE  k \in Ancestors[m] \/ m \in Ancestors[k]
  <1> DEFINE Bad == {x \in Tokens : /\ Ancestors[k] \cap Ancestors[x] # {}
                                    /\ k \notin Ancestors[x] /\ x \notin Ancestors[k]}
  <1>1. Bad = {}
    <2> SUFFICES ASSUME Bad # {} PROVE FALSE
      OBVIOUS
    <2>1. PICK x \in Bad : parent[x] \notin Bad
      BY FirstOfChain
    <2>2. PICK a \in Ancestors[k] : a \in Ancestors[x]
      OBVIOUS
    <2>3. /\ parent[x] \in Tokens /\ a \in Ancestors[parent[x]]
          /\ Ancestors[parent[x]] \subseteq Ancestors[x]
      BY <2>2, AncestorsIs
    <2>4. parent[x] \in Ancestors[k] /\ parent[x] # k
      <3>1. parent[x] \in Ancestors[parent[x]]
        BY <2>3, AncestorsIs
      <3> QED
        BY <2>1, <2>2, <2>3, <3>1
    <2>5. PICK c \in Tokens : c \in Ancestors[k] /\ parent[c] = parent[x]
      BY <2>4, AncestorHasChild
    <2>6. c = x
      BY <2>3, <2>5, TokenFacts DEF Inv, Chains
    <2> QED
      BY <2>5, <2>6
  <1> QED
    BY <1>1

\* Without overlaps each sign-in has one usable token at most: of two with a common
\* ancestor one would have been refreshed into the other, and is consumed.
THEOREM OneTokenPerSignInHolds == Spec => []OneTokenPerSignIn
  <1>1. ASSUME Inv
        PROVE  OneTokenPerSignIn
    <2> SUFFICES ASSUME serial, NEW k \in Tokens, NEW m \in Tokens, k # m,
                        row[k] = "live", row[m] = "live",
                        Ancestors[k] \cap Ancestors[m] # {}
                 PROVE  FALSE
      BY DEF OneTokenPerSignIn
    <2>1. \E c \in Tokens : parent[c] \in {k, m}
      BY <1>1, ChainsDoNotFork, AncestorHasChild
    <2> QED
      BY <1>1, <2>1, TokenFacts DEF Inv, Lineage, Consumed
  <1> QED
    BY <1>1, InvHolds, PTL

\* Without overlaps a logout ends every session of before: no usable token descends
\* from one that existed when its user logged out.
THEOREM LogoutEndsSessionsHolds == Spec => []LogoutEndsSessions
  <1>1. ASSUME Inv
        PROVE  LogoutEndsSessions
    <2> SUFFICES ASSUME serial, NEW k \in Tokens, row[k] = "live",
                        NEW a \in Ancestors[k], a \in ended
                 PROVE  FALSE
      BY DEF LogoutEndsSessions
    <2>1. k \in ended
      BY <1>1, EndedGoesDown
    <2> QED
      BY <1>1, <2>1 DEF Inv, Chains, Consumed
  <1> QED
    BY <1>1, InvHolds, PTL
=============================================================================
