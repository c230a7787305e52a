------------------------------ MODULE MCWallet ------------------------------
(* All services on shared rows, on small instances, for TLC. *)
EXTENDS Wallet, Books, TLC

CONSTANTS u1, u2, e1, e2, g1

MCUsers == {u1, u2}
MCGoals == {g1}
MCRows == Users \cup Envs \cup Goals
MCOwner == [h \in Holders |-> u1]
MCOpening == [p \in Pots |-> IF p = u1 THEN 2 ELSE 0]
MCTarget == g1 :> 2

\* Every wallet and every open envelope and goal can pay.
MCAllFunded == [p \in Pots |-> IF p \in Users \cup Opened THEN 1 ELSE 0]

\* Two days in every month.
MCMonthOf == [d \in 0 .. MaxDay |-> d \div 2]

\* Of each kind one request a day and two in a month.
MCTightLimits == [k \in SpendKinds |-> [per \in Periods |-> IF per = "day" THEN 1 ELSE 2]]
MCAdjustable == {<<u1, "withdraw", "day">>}

MCLimits == [k \in SpendKinds |-> [per \in Periods |-> 3]]

\* Requests are interchangeable: only equality of their identities is used.
Symmetry == Permutations(Reqs)
=============================================================================
