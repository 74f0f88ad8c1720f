------------------------------ MODULE Sessions ------------------------------
(***************************************************************************)
(* Sign-in, refresh and logout: the rows of refresh_tokens.                *)
(*                                                                         *)
(* A refresh token is a JWT over the user's data and the second it was     *)
(* signed in, so a token is identified by its user and that second, while  *)
(* the user's address, role and company, which it carries too, are taken   *)
(* to stay.  (When they change within the second, the code signs another   *)
(* token where the model has a collision.)  The table holds one row per    *)
(* token (unique hash).  Every database call is a step of its own, and     *)
(* requests of one user overlap freely.                                    *)
(***************************************************************************)
EXTENDS Naturals, FiniteSets

CONSTANTS
  Users,       \* users that exist when the model starts
  Requests,    \* HTTP requests, each served once
  MaxTime,     \* seconds the model's clock counts to
  JwtLife,     \* JWT_REFRESH_EXPIRES_IN
  RowLife,     \* the 7 days generateAuthResponse adds by hand
  Faults,      \* a request may die at a database call
  NoUser, NoToken

ASSUME ClockAssumption ==
  MaxTime \in Nat /\ JwtLife \in Nat \ {0} /\ RowLife \in Nat \ {0}
ASSUME FlagAssumption == Faults \in BOOLEAN

Tokens == Users \X (0..MaxTime)

ASSUME NamesAssumption == NoToken \notin Tokens /\ NoUser \notin Users

VARIABLES
  now,     \* the clock, in seconds
  users,   \* rows of the users table
  row,     \* per token: no row, or a row that is live or revoked
  expiry,  \* expiresAt of each row
  parent,  \* the token a row was refreshed from (history)
  ended,   \* the tokens that existed when their user logged out (history)
  req,     \* the requests
  serial   \* no two requests of one user have overlapped so far (history)

vars == <<now, users, row, expiry, parent, ended, req, serial>>

Owner(k) == k[1]

Issued(k) == row[k] \in {"live", "revoked"}

States == {"idle", "looking", "wiping", "revoking", "signing", "storing",
           "clearing", "done", "error"}

InService(u) == \E q \in Requests : req[q].pc \notin {"idle", "done", "error"}
                                    /\ req[q].user = u

----------------------------------------------------------------------------
Init ==
  /\ now = 0
  /\ users = Users
  /\ row = [k \in Tokens |-> "none"]
  /\ expiry = [k \in Tokens |-> 0]
  /\ parent = [k \in Tokens |-> NoToken]
  /\ ended = {}
  /\ req = [r \in Requests |->
              [pc |-> "idle", user |-> NoUser, old |-> NoToken, new |-> NoToken]]
  /\ serial = TRUE

Begin(r, u, pc, old) ==
  /\ req[r].pc = "idle"
  /\ req' = [req EXCEPT ![r] = [pc |-> pc, user |-> u, old |-> old, new |-> NoToken]]
  /\ serial' = (serial /\ ~InService(u))

Goto(r, pc) == req' = [req EXCEPT ![r].pc = pc] /\ UNCHANGED serial

\* signIn: the user is found and the password matches.
SignIn(r, u) ==
  /\ u \in users
  /\ Begin(r, u, "signing", NoToken)
  /\ UNCHANGED <<now, users, row, expiry, parent, ended>>

\* POST /auth/refresh reaches JwtRefreshStrategy with a token that was handed
\* out and whose own expiry has not passed.
PresentToken(r, k) ==
  /\ Issued(k)
  /\ now < k[2] + JwtLife
  /\ Begin(r, Owner(k), "looking", k)
  /\ UNCHANGED <<now, users, row, expiry, parent, ended>>

\* Mistaken variants, here and below: plausible slips for the properties to
\* notice.
Validate_RevokedPasses(r) ==
  /\ req[r].pc = "looking"
  /\ LET k == req[r].old IN
       Goto(r, IF Issued(k) /\ expiry[k] >= now THEN "revoking" ELSE "error")
  /\ UNCHANGED <<now, users, row, expiry, parent, ended>>

\* validateRefreshToken: the row decides.
Validate(r) ==
  /\ req[r].pc = "looking"
  /\ LET k == req[r].old IN
       Goto(r, IF ~Issued(k) THEN "error"
               ELSE IF row[k] = "revoked" THEN "wiping"
               ELSE IF expiry[k] < now THEN "error"
               ELSE "revoking")
  /\ UNCHANGED <<now, users, row, expiry, parent, ended>>

RevokeAll(u) ==
  row' = [k \in Tokens |-> IF Owner(k) = u /\ row[k] = "live" THEN "revoked" ELSE row[k]]

\* Reuse detection: revoke every live token of the user, answer Forbidden.
Wipe(r) ==
  /\ req[r].pc = "wiping"
  /\ RevokeAll(req[r].user)
  /\ Goto(r, "error")
  /\ UNCHANGED <<now, users, expiry, parent, ended>>

Revoke_Skipped(r) ==
  /\ req[r].pc = "revoking"
  /\ Goto(r, "signing")
  /\ UNCHANGED <<now, users, row, expiry, parent, ended>>

\* refresh: mark the consumed token; the row may have gone with its user.
Revoke(r) ==
  /\ req[r].pc = "revoking"
  /\ LET k == req[r].old IN
       \/ /\ Issued(k)
          /\ row' = [row EXCEPT ![k] = "revoked"]
          /\ Goto(r, "signing")
       \/ /\ ~Issued(k)
          /\ Goto(r, "error")
          /\ UNCHANGED row
  /\ UNCHANGED <<now, users, expiry, parent, ended>>

\* The user is read again (in signIn it was read before) and the pair is signed.
Sign(r) ==
  /\ req[r].pc = "signing"
  /\ \/ /\ req[r].user \in users \/ req[r].old = NoToken
        /\ req' = [req EXCEPT ![r].pc = "storing", ![r].new = <<req[r].user, now>>]
        /\ UNCHANGED serial
     \/ /\ req[r].user \notin users /\ req[r].old # NoToken
        /\ Goto(r, "error")
  /\ UNCHANGED <<now, users, row, expiry, parent, ended>>

Store_Upsert(r) ==
  /\ req[r].pc = "storing"
  /\ LET k == req[r].new IN
       /\ row' = [row EXCEPT ![k] = "live"]
       /\ expiry' = [expiry EXCEPT ![k] = now + RowLife]
       /\ parent' = [parent EXCEPT ![k] = req[r].old]
  /\ Goto(r, "done")
  /\ UNCHANGED <<now, users, ended>>

\* refreshToken.create: the hash is unique and the user must exist.
Store(r) ==
  /\ req[r].pc = "storing"
  /\ LET k == req[r].new IN
       \/ /\ ~Issued(k) /\ Owner(k) \in users
          /\ row' = [row EXCEPT ![k] = "live"]
          /\ expiry' = [expiry EXCEPT ![k] = now + RowLife]
          /\ parent' = [parent EXCEPT ![k] = req[r].old]
          /\ Goto(r, "done")
       \/ /\ Issued(k) \/ Owner(k) \notin users
          /\ Goto(r, "error")
          /\ UNCHANGED <<row, expiry, parent>>
  /\ UNCHANGED <<now, users, ended>>

\* POST /auth/logout, behind JwtAuthGuard, which finds the user.
Logout(r, u) ==
  /\ u \in users
  /\ Begin(r, u, "clearing", NoToken)
  /\ UNCHANGED <<now, users, row, expiry, parent, ended>>

ClearAll(r) ==
  /\ req[r].pc = "clearing"
  /\ RevokeAll(req[r].user)
  /\ ended' = ended \cup {k \in Tokens : Owner(k) = req[r].user /\ Issued(k)}
  /\ Goto(r, "done")
  /\ UNCHANGED <<now, users, expiry, parent>>

\* A database call fails or the process dies: what was written stays.
RequestDies(r) ==
  /\ Faults
  /\ req[r].pc \notin {"idle", "done", "error"}
  /\ Goto(r, "error")
  /\ UNCHANGED <<now, users, row, expiry, parent, ended>>

DeleteUser_KeepsTokens(u) ==
  /\ u \in users
  /\ users' = users \ {u}
  /\ UNCHANGED <<now, row, expiry, parent, ended, req, serial>>

\* Deleting a user takes the tokens along (onDelete: Cascade).
DeleteUser(u) ==
  /\ u \in users
  /\ users' = users \ {u}
  /\ row' = [k \in Tokens |-> IF Owner(k) = u /\ Issued(k) THEN "gone" ELSE row[k]]
  /\ UNCHANGED <<now, expiry, parent, ended, req, serial>>

Tick ==
  /\ now < MaxTime
  /\ now' = now + 1
  /\ UNCHANGED <<users, row, expiry, parent, ended, req, serial>>

Serve(r) ==
  \/ Validate(r) \/ Wipe(r) \/ Revoke(r) \/ Sign(r) \/ Store(r) \/ ClearAll(r)

Next ==
  \/ \E r \in Requests :
       \/ \E u \in Users : SignIn(r, u) \/ Logout(r, u)
       \/ \E k \in Tokens : PresentToken(r, k)
       \/ Serve(r)
       \/ RequestDies(r)
  \/ \E u \in Users : DeleteUser(u)
  \/ Tick

Spec == Init /\ [][Next]_vars

----------------------------------------------------------------------------
(* Properties *)

TypeOK ==
  /\ now \in 0..MaxTime
  /\ users \subseteq Users
  /\ row \in [Tokens -> {"none", "live", "revoked", "gone"}]
  /\ expiry \in [Tokens -> Nat]
  /\ parent \in [Tokens -> Tokens \cup {NoToken}]
  /\ ended \subseteq Tokens
  /\ req \in [Requests -> [pc : States, user : Users \cup {NoUser},
                           old : Tokens \cup {NoToken}, new : Tokens \cup {NoToken}]]
  /\ serial \in BOOLEAN

\* A token that came out of a refresh has consumed the one it was refreshed
\* from: no interleaving of refreshes, logouts and reuse leaves both usable.
RotationConsumes ==
  \A k \in Tokens : row[k] = "live" /\ parent[k] # NoToken => row[parent[k]] = "revoked"

\* A revoked token stays revoked until its user is deleted, although tokens of
\* one second share a value.
NeverRevived ==
  [][\A k \in Tokens : row[k] = "revoked" => row'[k] \in {"revoked", "gone"}]_vars

\* A deleted user has no session, not even one that was being opened meanwhile.
NoSessionWithoutUser == \A k \in Tokens : Issued(k) => Owner(k) \in users

\* The tokens a token descends from, back to its sign-in.
Ancestors[k \in Tokens] ==
  IF parent[k] \in Tokens THEN {k} \cup Ancestors[parent[k]] ELSE {k}

\* As long as requests of a user do not overlap, each sign-in leaves at most one
\* usable token, through retries, reuse detection and deaths.
OneTokenPerSignIn ==
  serial =>
    \A k, m \in Tokens :
      row[k] = "live" /\ row[m] = "live" /\ Ancestors[k] \cap Ancestors[m] # {} => k = m

\* Without overlaps a logout ends every session of before: nothing that descends
\* from a token of before the logout is usable after it.
LogoutEndsSessions ==
  serial => \A k \in Tokens : row[k] = "live" => Ancestors[k] \cap ended = {}
=============================================================================
