---------------------------- MODULE MCScheduled ----------------------------
(* One scheduled payment of a few slots, executed by overlapping runs. *)
EXTENDS Scheduled, TLC

MCRows == {Wallet, Funding, Schedule} \cup Slots

Symmetry == Permutations(Reqs) \cup Permutations(Edits)
=============================================================================
