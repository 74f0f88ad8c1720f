------------------------------- MODULE MCOrg -------------------------------
(***************************************************************************)
(* Org for TLC: two users who may come to be ADMIN or MANAGER.             *)
(***************************************************************************)
EXTENDS Org, TLC

CONSTANTS ann, max, r1, r2, c1, c2, n1, n2, t1, t2

SomeLists == {S \in SUBSET Users : \A u, v \in S : u = v}

Alike == Permutations({r1, r2}) \cup Permutations({c1, c2}) \cup Permutations({n1, n2})
           \cup Permutations({t1, t2}) \cup Permutations({ann, max})
=============================================================================
