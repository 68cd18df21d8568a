---------------------------- MODULE MCMembership ----------------------------
(* Small instances of the membership requests for TLC. *)
EXTENDS Membership, TLC

CONSTANTS u1, u2, u3

\* Requests, and users other than the founder, are alike.
Symmetry == Permutations(Requests) \cup Permutations(Users \ {Founder})
=============================================================================
