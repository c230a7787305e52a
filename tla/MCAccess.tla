------------------------------ MODULE MCAccess ------------------------------
(* Two users, one of them or both administrators, on devices of one make. *)
EXTENDS Access, TLC

CONSTANTS a, b

MCUsers == {a, b}

\* One administrator and one user who is not registered yet.
MCStart == a :> [role |-> "ADMIN", status |-> "ACTIVE"] @@
           b :> [role |-> "USER", status |-> "ABSENT"]

\* Two administrators.
MCTwoAdmins == [u \in Users |-> [role |-> "ADMIN", status |-> "ACTIVE"]]

Symmetry == Permutations(Reqs) \cup Permutations(Sids)
=============================================================================
