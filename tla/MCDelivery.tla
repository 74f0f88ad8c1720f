---------------------------- MODULE MCDelivery -----------------------------
(***************************************************************************)
(* Delivery for TLC: two sockets, two users (one without a company), one   *)
(* job, which may run three times.                                         *)
(***************************************************************************)
EXTENDS Delivery, TLC

CONSTANTS u1, u2, j1, c1

Firm       == u1 :> c1 @@ u2 :> NoCompany
Addressees == j1 :> u1

SocketSymmetry == Permutations(Sockets)
=============================================================================
