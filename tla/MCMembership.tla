---------------------------- MODULE MCMembership ----------------------------
(* Instances of Membership for model checking.                             *)
EXTENDS Membership, TLC

CONSTANTS u1, u2, u3, k1, x1, r1, r2

(* Requests, and the users of Verified, are interchangeable.               *)
Alike == Permutations(Verified) \cup Permutations(Requests)
=============================================================================
