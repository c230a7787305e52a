------------------------------- MODULE Wallet -------------------------------
(***************************************************************************)
(* The services that share the money rows, together: spending, deposits,   *)
(* envelopes and goals of the same users run concurrently against the same *)
(* wallets.                                                                *)
(***************************************************************************)
EXTENDS Transactions, Envelopes, Goals

WalletInit == TransactionsInit

\* A step of a service that knows nothing of the limits.
EnvelopesOrGoals(r) == EnvelopesStep(r) \/ GoalsStep(r)

WalletStep(r) ==
    \/ TransactionsStep(r)
    \/ EnvelopesOrGoals(r) /\ UNCHANGED limitVars

WalletNext ==
    \/ \E r \in Reqs :
          \/ BeginTransaction(r)
          \/ (BeginEnvelope(r) \/ BeginGoal(r)) /\ UNCHANGED limitVars
          \/ WalletStep(r)
          \/ AbortTransaction(r)
    \/ (\E e \in Envs : CreateEnvelope(e)) /\ UNCHANGED limitVars
    \/ (\E g \in Goals : CreateGoal(g)) /\ UNCHANGED limitVars
    \/ SetLimit
    \/ Midnight

WalletDone == AllAnswered /\ UNCHANGED transactionsVars

WalletSpec == WalletInit /\ [][WalletNext \/ WalletDone]_transactionsVars

\* Properties -------------------------------------------------------------

(***************************************************************************)
(* A withdrawal or a transfer is never paid from an envelope that has been *)
(* cancelled: the conditional UPDATE tests the status under the row lock,  *)
(* and the cancellation waits for that lock until the spend has committed  *)
(* (withdraw and transferInTx against EnvelopesService.cancel).            *)
(***************************************************************************)
SpendsOnlyFromActive ==
    [][\A r \in Reqs :
          /\ pc[r] # "ok" /\ pc'[r] = "ok"
          /\ op[r].kind \in SpendKinds
          /\ op[r].from \in Envs
          => status[op[r].from] = "ACTIVE"]_transactionsVars

\* What a request has debited belongs to the user who asks; a request of
\* the envelopes or goals has found that out before its debit, and what it
\* credits is a row of the same user.
UsesOwnRows(r) ==
    pc[r] \in {"credit", "record", "commit"} \/ (pc[r] = "debit" /\ ~Spending(r)) =>
        /\ op[r].from \in Pots => OwnerOf(op[r].from) = op[r].user
        /\ op[r].kind \in EnvKinds \cup GoalKinds /\ op[r].to \in Pots =>
              OwnerOf(op[r].to) = op[r].user

\* An envelope that has been debited stays active until the commit.
PaysFromActive(r) ==
    /\ Spending(r) /\ pc[r] \in {"credit", "record", "commit"}
    /\ op[r].from \in Envs
    => status[op[r].from] = "ACTIVE"

\* What a cancellation has read under the lock is what the goal holds, and
\* the goal is still active.
ReturnsAll(r) ==
    op[r].kind = "cancelGoal" /\ pc[r] \in {"credit", "commit"} =>
        /\ locks[op[r].from] = r
        /\ funds[op[r].from] = op[r].amount
        /\ status[op[r].from] = "ACTIVE"

(***************************************************************************)
(* Why SpendsOnlyFromActive, CancelReturnsEverything and OnlyOwnersMove    *)
(* hold, and inductive together with LedgerInv.                            *)
(***************************************************************************)
HoldersInv == \A r \in Reqs : UsesOwnRows(r) /\ PaysFromActive(r) /\ ReturnsAll(r)

\* The kinds of request that lock the user's wallet before anything else.
WalletFirst == {"withdraw", "deposit", "allocate", "cancelEnvelope", "contribute"}

\* What they wait for; the others are left out of account.
WalletFirstWant == [r \in Reqs |-> IF op[r].kind \in WalletFirst THEN Want[r] ELSE NoPot]

(***************************************************************************)
(* Spends, allocations and contributions lock the user's wallet before the *)
(* envelope or the goal, so among themselves they never wait in a circle;  *)
(* a cycle that PostgreSQL has to break takes a release, a goal            *)
(* cancellation or a transfer, which also locks the recipient's wallet.    *)
(***************************************************************************)
NoWaitCycle == \A r \in Reqs : ~InWaitCycle(WalletFirstWant, r)

(***************************************************************************)
(* A cancelled envelope or goal holds no money: the tests "rejects         *)
(* cancelling an envelope with remaining balance" and "returns saved funds *)
(* to the wallet when a goal is cancelled" expect so, and nothing can be   *)
(* released from it any more.  The code breaks it: an allocation or a      *)
(* contribution that read the status before the cancellation still commits *)
(* its credit, which repeats no condition on the status.                   *)
(***************************************************************************)
CancelledIsEmpty == \A h \in Holders : status[h] = "CANCELLED" => funds[h] = 0

(***************************************************************************)
(* Every accepted request is answered, whatever services it competes with: *)
(* transactions that wait for each other's rows are broken up by           *)
(* PostgreSQL, and nobody waits for ever.  Only the progress of a          *)
(* transaction and the deadlock detector are assumed fair; the five-second *)
(* timeout of Prisma is not needed.                                        *)
(***************************************************************************)
WalletFairness ==
    \A r \in Reqs : /\ WF_transactionsVars(WalletStep(r))
                    /\ WF_transactionsVars(DeadlockVictim(r) /\ ForgetReads(r))

FairWalletSpec == WalletSpec /\ WalletFairness

EveryWalletRequestAnswered == \A r \in Reqs : Running(r) ~> Answered(r)
=============================================================================
