---------------------------- MODULE Transactions ----------------------------
(***************************************************************************)
(* TransactionsService (withdraw, transferToUser, deposit) together with   *)
(* SpendingLimitsService, whose check runs inside the same transaction.    *)
(*                                                                         *)
(* A withdrawal or a transfer is paid from the user's wallet or from one   *)
(* of the user's envelopes.  In both cases the transaction starts with     *)
(*     SELECT id FROM "Wallet" WHERE "userId" = ... FOR UPDATE             *)
(* so that the spending of one user is serialised: the usage it adds up    *)
(* cannot grow before its own Transaction row is committed.                *)
(*                                                                         *)
(* Transaction rows matter to the limits only through the sums over a      *)
(* day and over a month, by createdAt; used keeps these sums.  createdAt   *)
(* is taken when the row is inserted, some time after the limit check      *)
(* read the clock, and midnight may fall in between.                       *)
(***************************************************************************)
EXTENDS Ledger

CONSTANTS
    MaxDay,         \* the clock stops there: a bound
    MonthOf,        \* the month each day is in
    DefaultLimits,  \* DEFAULT_SPENDING_LIMITS
    LimitValues,    \* what a user may set a limit to
    Adjustable      \* the limits that are ever changed: a bound

Periods == {"day", "month"}

Days == 0 .. MaxDay

\* The period of the day d: spendingLimitPeriodStart as an index.
PeriodAt(per, d) == IF per = "day" THEN d ELSE MonthOf[d]

ASSUME TransactionsAssumption ==
    /\ MaxDay \in Nat
    /\ MonthOf \in [Days -> Days]
    /\ \A d, e \in Days : d <= e => MonthOf[d] <= MonthOf[e]
    /\ DefaultLimits \in [SpendKinds -> [Periods -> Nat]]
    /\ LimitValues \subseteq Nat

VARIABLES
    used,       \* sum of the user's rows of a kind created in a day or month
    maxAmount,  \* the limits in force: overrides, else the defaults
    peak,       \* history: the largest value each limit ever had
    day,        \* the clock, as the server's calendar day
    cap,        \* the limits the request's transaction has read
    stamp       \* createdAt of the Transaction row the request inserts

limitVars == <<used, maxAmount, peak, day, cap, stamp>>
transactionsVars == <<locks, funds, status, pc, op,
                      used, maxAmount, peak, day, cap, stamp>>

NoCap == [per \in Periods |-> 0]

TransactionsTypeOK ==
    /\ LedgerTypeOK
    /\ used \in [Users -> [SpendKinds -> [Periods -> [Days -> Nat]]]]
    /\ maxAmount \in [Users -> [SpendKinds -> [Periods -> Nat]]]
    /\ peak \in [Users -> [SpendKinds -> [Periods -> Nat]]]
    /\ day \in Days
    /\ cap \in [Reqs -> [Periods -> Nat]]
    /\ stamp \in [Reqs -> Days]

LimitsInit ==
    /\ used = [u \in Users |-> [k \in SpendKinds |->
                  [per \in Periods |-> [d \in Days |-> 0]]]]
    /\ maxAmount = [u \in Users |-> DefaultLimits]
    /\ peak = [u \in Users |-> DefaultLimits]
    /\ day = 0
    /\ cap = [r \in Reqs |-> NoCap]
    /\ stamp = [r \in Reqs |-> 0]

TransactionsInit == LedgerInit /\ LimitsInit

Spending(r) == op[r].kind \in SpendKinds

\* Requests ---------------------------------------------------------------

\* POST wallets/withdraw, from the wallet or, with envelopeId, an envelope.
BeginWithdraw(r) ==
    \E u \in Users, a \in Amounts : \E src \in {u} \cup Envs :
        /\ Begin(r, [kind |-> "withdraw", user |-> u, from |-> src,
                     to |-> NoPot, amount |-> a], "limits")
        /\ UNCHANGED limitVars

\* POST wallets/transfer; a transfer to oneself is refused before any write.
BeginTransfer(r) ==
    \E u \in Users, a \in Amounts :
        \E src \in {u} \cup Envs, v \in Users \ {u} :
            /\ Begin(r, [kind |-> "transfer", user |-> u, from |-> src,
                         to |-> v, amount |-> a], "limits")
            /\ UNCHANGED limitVars

\* A deposit only credits the wallet.
BeginDeposit(r) ==
    \E u \in Users, a \in Amounts :
        /\ Begin(r, [kind |-> "deposit", user |-> u, from |-> NoPot,
                     to |-> u, amount |-> a], "credit")
        /\ UNCHANGED limitVars

\* Statements of the transaction ------------------------------------------

\* Variant: the wallet is not locked before the limits are checked.
CheckWithoutLock(r) ==
    /\ Spending(r) /\ pc[r] = "limits"
    /\ cap' = [cap EXCEPT ![r] = maxAmount[op[r].user][op[r].kind]]
    /\ Goto(r, "usage")
    /\ UNCHANGED <<locks, funds, status, op, used, maxAmount, peak, day, stamp>>

\* assertWithinLimitsInTx: SELECT ... FOR UPDATE, then read the overrides.
LockForLimits(r) ==
    /\ Spending(r) /\ pc[r] = "limits"
    /\ Take(r, op[r].user)
    /\ cap' = [cap EXCEPT ![r] = maxAmount[op[r].user][op[r].kind]]
    /\ Goto(r, "usage")
    /\ UNCHANGED <<funds, status, op, used, maxAmount, peak, day, stamp>>

\* used + amount <= maxAmount in the day and in the month of the clock.
WithinLimits(r) ==
    \A per \in Periods :
        used[op[r].user][op[r].kind][per][PeriodAt(per, day)] + op[r].amount
            <= cap[r][per]

\* assertWithinLimitsInTx: read the clock, add up the usage, compare.
CheckLimits(r) ==
    /\ Spending(r) /\ pc[r] = "usage"
    /\ \/ /\ WithinLimits(r)
          /\ Goto(r, "debit")
          /\ UNCHANGED <<locks, funds, status, op>>
       \/ /\ ~WithinLimits(r)
          /\ Reject(r)
    /\ cap' = [cap EXCEPT ![r] = NoCap]
    /\ UNCHANGED <<used, maxAmount, peak, day, stamp>>

\* The money leaves the wallet or the envelope.
DebitFunding(r) ==
    /\ Spending(r)
    /\ Debit(r, CanFund(op[r]), IF op[r].to = NoPot THEN "record" ELSE "credit")
    /\ UNCHANGED limitVars

\* The money reaches the recipient's (for a deposit, the user's) wallet.
CreditRecipient(r) ==
    /\ op[r].kind \in {"transfer", "deposit"}
    /\ Credit(r, IF Spending(r) THEN "record" ELSE "commit")
    /\ UNCHANGED limitVars

\* INSERT of the WITHDRAWAL or TRANSFER_OUT row, with createdAt = now.
Record(r) ==
    /\ Spending(r) /\ pc[r] = "record"
    /\ stamp' = [stamp EXCEPT ![r] = day]
    /\ Goto(r, "commit")
    /\ UNCHANGED <<locks, funds, status, op, used, maxAmount, peak, day, cap>>

\* The committed row counts in the day and in the month of its createdAt.
AddUsage(r) ==
    used' = [used EXCEPT ![op[r].user][op[r].kind] =
        [per \in Periods |-> [d \in Days |->
            @[per][d] + (IF d = PeriodAt(per, stamp[r]) THEN op[r].amount ELSE 0)]]]

CommitTransaction(r) ==
    /\ op[r].kind \in SpendKinds \cup {"deposit"}
    /\ Commit(r)
    /\ IF Spending(r) THEN AddUsage(r) ELSE UNCHANGED used
    /\ stamp' = [stamp EXCEPT ![r] = 0]
    /\ UNCHANGED <<status, maxAmount, peak, day, cap>>

\* What the transaction had read is gone with it.
ForgetReads(r) ==
    /\ cap' = [cap EXCEPT ![r] = NoCap]
    /\ stamp' = [stamp EXCEPT ![r] = 0]
    /\ UNCHANGED <<used, maxAmount, peak, day>>

AbortTransaction(r) == Abort(r) /\ ForgetReads(r)

\* PUT security/limits: an upsert outside any transaction and without a lock
\* that the limit check would wait for.
UpdateLimit(u, k, per, max) ==
    /\ max # maxAmount[u][k][per]
    /\ maxAmount' = [maxAmount EXCEPT ![u][k][per] = max]
    /\ peak' = [peak EXCEPT ![u][k][per] = IF max > @ THEN max ELSE @]
    /\ UNCHANGED <<locks, funds, status, pc, op, used, day, cap, stamp>>

\* Midnight in the time zone of the limits.
Midnight ==
    /\ day < MaxDay
    /\ day' = day + 1
    /\ UNCHANGED <<locks, funds, status, pc, op, used, maxAmount, peak, cap, stamp>>

TransactionsStep(r) ==
    \/ LockForLimits(r)
    \/ CheckLimits(r)
    \/ DebitFunding(r)
    \/ CreditRecipient(r)
    \/ Record(r)
    \/ CommitTransaction(r)

BeginTransaction(r) == BeginWithdraw(r) \/ BeginTransfer(r) \/ BeginDeposit(r)

SetLimit ==
    \E u \in Users, k \in SpendKinds, per \in Periods, max \in LimitValues :
        <<u, k, per>> \in Adjustable /\ UpdateLimit(u, k, per, max)

TransactionsNext ==
    \/ \E r \in Reqs : BeginTransaction(r) \/ TransactionsStep(r) \/ AbortTransaction(r)
    \/ SetLimit
    \/ Midnight

TransactionsDone == AllAnswered /\ UNCHANGED transactionsVars

TransactionsSpec == TransactionsInit /\ [][TransactionsNext \/ TransactionsDone]_transactionsVars

\* Properties -------------------------------------------------------------

(***************************************************************************)
(* Whatever a user's withdrawals and transfers do concurrently, whenever   *)
(* midnight falls and however the limits are changed meanwhile, what is    *)
(* recorded for a day or a month never exceeds the largest limit that was  *)
(* in force (assertWithinLimitsInTx, and the inserts that follow it).      *)
(***************************************************************************)
UsageWithinLimits ==
    \A u \in Users, k \in SpendKinds, per \in Periods, d \in Days :
        used[u][k][per][d] <= peak[u][k][per]

\* The user of a spend that has passed FOR UPDATE has the wallet locked.
SpendSerialised(r) ==
    Spending(r) /\ pc[r] \in {"usage", "debit", "credit", "record", "commit"} =>
        locks[op[r].user] = r

\* The limits a transaction has read were in force.
CapWasInForce(r) ==
    Spending(r) /\ pc[r] = "usage" =>
        \A per \in Periods : cap[r][per] <= peak[op[r].user][op[r].kind][per]

\* What is recorded by the time the request inserts its row leaves room for
\* the request in the period the row will count in.
RoomFor(r, d) ==
    \A per \in Periods :
        used[op[r].user][op[r].kind][per][PeriodAt(per, d)] + op[r].amount
            <= peak[op[r].user][op[r].kind][per]

RoomKept(r) ==
    /\ Spending(r) /\ pc[r] \in {"debit", "credit", "record"} => RoomFor(r, day)
    /\ Spending(r) /\ pc[r] = "commit" => RoomFor(r, stamp[r])

\* No row counts in a period that has not begun.
NothingInTheFuture ==
    \A u \in Users, k \in SpendKinds, per \in Periods, d \in Days :
        d > PeriodAt(per, day) => used[u][k][per][d] = 0

(***************************************************************************)
(* Why UsageWithinLimits holds, and inductive: between the check and the   *)
(* commit the wallet of the user is locked, so the usage does not grow;    *)
(* and when midnight falls in between, the new period is empty.            *)
(***************************************************************************)
LimitsInv ==
    /\ TransactionsTypeOK
    /\ UsageWithinLimits
    /\ NothingInTheFuture
    /\ \A u \in Users, k \in SpendKinds, per \in Periods :
          maxAmount[u][k][per] <= peak[u][k][per]
    /\ \A r \in Reqs :
          /\ SpendSerialised(r)
          /\ CapWasInForce(r)
          /\ RoomKept(r)
          /\ stamp[r] <= day
=============================================================================
