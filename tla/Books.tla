------------------------------- MODULE Books --------------------------------
(***************************************************************************)
(* What the services that extend Ledger promise about money, stated once   *)
(* for all of them: the books balance, and the transactions of many        *)
(* statements implement the indivisible moves of module Bank.              *)
(***************************************************************************)
EXTENDS Ledger, FiniteSets, Functions

CONSTANT NoMove     \* a request that has not moved money

Total(S) == SumFunctionOnSet([r \in Reqs |-> op[r].amount], S)

Paid(p) == {r \in Reqs : pc[r] = "ok" /\ op[r].from = p}
Received(p) == {r \in Reqs : pc[r] = "ok" /\ op[r].to = p}

(***************************************************************************)
(* Every wallet, envelope and goal holds exactly its opening balance plus  *)
(* what the acknowledged requests put in minus what they took out: no      *)
(* update is lost or applied twice whatever the interleaving of the        *)
(* statements, and a request that was rejected or aborted left no trace    *)
(* (transactions.service.ts, envelopes.service.ts, goals.service.ts).      *)
(***************************************************************************)
BooksBalance ==
    \A p \in Pots : funds[p] = Opening[p] + Total(Received(p)) - Total(Paid(p))

\* The acknowledged requests that brought money into a set of rows from
\* elsewhere, and those that took money out of it.
Into(S) == {r \in Reqs : pc[r] = "ok" /\ op[r].to \in S /\ op[r].from \notin S}
OutOf(S) == {r \in Reqs : pc[r] = "ok" /\ op[r].from \in S /\ op[r].to \notin S}

(***************************************************************************)
(* No money is made or lost: any rows together, such as all rows or those  *)
(* of one user, hold what they held at the start, plus what acknowledged   *)
(* requests brought in from other rows or the outside, minus what they     *)
(* took out.  What a user moves between the wallet, the envelopes and the  *)
(* goals leaves the user as rich as before (transferInTx, moveFunds).      *)
(***************************************************************************)
MoneyIsConserved ==
    \A S \in SUBSET Pots : IsFiniteSet(S) =>
        SumFunctionOnSet(funds, S) =
        SumFunctionOnSet(Opening, S) + Total(Into(S)) - Total(OutOf(S))

\* The move a request has made, as module Bank sees it.
Settled == [r \in Reqs |->
    IF pc[r] = "ok" THEN [from |-> op[r].from, to |-> op[r].to, amount |-> op[r].amount]
                    ELSE NoMove]

Atomic == INSTANCE Bank WITH settled <- Settled

(***************************************************************************)
(* The statements of concurrent transactions add up to indivisible moves:  *)
(* each step of the backend is a move of Bank or leaves the money alone.   *)
(***************************************************************************)
MovesAreAtomic == Atomic!Spec

Commits(r) == pc[r] # "ok" /\ pc'[r] = "ok"

(***************************************************************************)
(* Money leaves a wallet, an envelope or a goal only by a request of its   *)
(* owner, and reaches an envelope or a goal only by a request of its owner *)
(* (the ownership checks of withdraw, transferInTx, moveFunds and cancel). *)
(***************************************************************************)
OnlyOwnersMove ==
    [][\A p \in Pots :
          funds'[p] < funds[p] \/ (p \in Holders /\ funds'[p] # funds[p]) =>
             \E r \in Reqs : Commits(r) /\ op[r].user = OwnerOf(p)]_ledgerVars

\* What a user has in all, over the wallet, the envelopes and the goals.
RowsOf(u) == {p \in Pots : OwnerOf(p) = u}
Wealth(u) == SumFunctionOnSet(funds, RowsOf(u))

(***************************************************************************)
(* A user becomes poorer only by a withdrawal or a transfer of their own,  *)
(* and richer only by a deposit or a transfer to their wallet: setting     *)
(* money aside, saving it, taking it back and cancelling leave every user  *)
(* as rich as before, whatever runs at the same time (moveFunds, cancel).  *)
(***************************************************************************)
WealthIsMovedBySpends ==
    [][\A u \in Users : IsFiniteSet(RowsOf(u)) =>
          /\ Wealth(u)' < Wealth(u) =>
                \E r \in Reqs : Commits(r) /\ op[r].user = u /\ op[r].kind \in SpendKinds
          /\ Wealth(u)' > Wealth(u) =>
                \E r \in Reqs : Commits(r) /\ op[r].to = u
                                 /\ op[r].kind \in {"transfer", "deposit"}]_ledgerVars
=============================================================================
