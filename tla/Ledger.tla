------------------------------- MODULE Ledger -------------------------------
(***************************************************************************)
(* The rows that hold money -- wallets, envelopes and goals -- and the     *)
(* database transactions that move it.  Every money operation of the       *)
(* backend is one interactive transaction of the same few statements:      *)
(*                                                                         *)
(*   debit   a conditional UPDATE of the row the money leaves, whose WHERE *)
(*           says that enough money is there;                              *)
(*   credit  an UPDATE of the row the money goes to;                       *)
(*   commit  the INSERT of the Transaction row (and of the movement row),  *)
(*           then COMMIT.                                                  *)
(*                                                                         *)
(* Each UPDATE keeps its row locked until the end.  The variables are the  *)
(* committed contents of the database: a transaction's own writes are      *)
(* applied when it commits, which nobody can tell apart because the rows   *)
(* it wrote are locked until then.  The services add the statements of     *)
(* their own (reads, limit checks, status changes) in the modules that     *)
(* extend this one.                                                        *)
(*                                                                         *)
(* A request runs once: an element of Reqs is one HTTP call, and Reqs      *)
(* bounds how many calls a behaviour contains.                             *)
(***************************************************************************)
EXTENDS Integers, RowLocks

CONSTANTS
    Users,      \* the users; a user also stands for the user's wallet row
    Envs,       \* envelope rows
    Goals,      \* goal rows
    Owner,      \* the user each envelope and goal belongs to
    Opened,     \* the envelopes and goals that exist at the start
    Opening,    \* the money in every row at the start
    NoPot,      \* stands for the outside world: a deposit comes from it
    Amounts,    \* the amounts a request may ask for
    Kinds       \* the kinds of request that are made

Holders == Envs \cup Goals      \* rows with a status
Pots == Users \cup Holders      \* rows with money

\* The user whose money a row holds.
OwnerOf(p) == IF p \in Users THEN p ELSE Owner[p]

SpendKinds == {"withdraw", "transfer"}
EnvKinds == {"allocate", "release", "cancelEnvelope"}
GoalKinds == {"contribute", "releaseGoal", "cancelGoal"}
AllKinds == SpendKinds \cup {"deposit"} \cup EnvKinds \cup GoalKinds

ASSUME LedgerAssumption ==
    /\ Rows = Pots
    /\ NoPot \notin Pots
    /\ Users \cap Holders = {}
    /\ Envs \cap Goals = {}
    /\ Owner \in [Holders -> Users]
    /\ Opened \subseteq Holders
    /\ Opening \in [Pots -> Nat]
    /\ \A h \in Holders \ Opened : Opening[h] = 0
    /\ Amounts \subseteq Nat \ {0}
    /\ Kinds \subseteq AllKinds

VARIABLES
    funds,      \* Wallet.balance, Envelope.allocatedAmount, Goal.savedAmount
    status,     \* Envelope.status, Goal.status
    pc,         \* the statement each request executes next, or its answer
    op          \* what each request was asked to do

ledgerVars == <<locks, funds, status, pc, op>>

Statuses == {"ABSENT", "ACTIVE", "COMPLETED", "CANCELLED"}

Steps == {"limits", "usage", "read", "debit", "credit", "record", "commit"}
Answers == {"ok", "rejected", "aborted"}

Ops == [kind : AllKinds \cup {"none"}, user : Users \cup {NoPot},
        from : Pots \cup {NoPot}, to : Pots \cup {NoPot}, amount : Nat]

NoOp == [kind |-> "none", user |-> NoPot, from |-> NoPot, to |-> NoPot, amount |-> 0]

LedgerTypeOK ==
    /\ LocksTypeOK
    /\ funds \in [Pots -> Nat]
    /\ status \in [Holders -> Statuses]
    /\ pc \in [Reqs -> {"new"} \cup Steps \cup Answers]
    /\ op \in [Reqs -> Ops]

LedgerInit ==
    /\ locks = NoLocks
    /\ funds = Opening
    /\ status = [h \in Holders |-> IF h \in Opened THEN "ACTIVE" ELSE "ABSENT"]
    /\ pc = [r \in Reqs |-> "new"]
    /\ op = [r \in Reqs |-> NoOp]

Running(r) == pc[r] \in Steps
Answered(r) == pc[r] \in Answers

Goto(r, step) == pc' = [pc EXCEPT ![r] = step]

\* A request arrives.
Begin(r, o, first) ==
    /\ pc[r] = "new"
    /\ o.kind \in Kinds
    /\ op' = [op EXCEPT ![r] = o]
    /\ Goto(r, first)
    /\ UNCHANGED <<locks, funds, status>>

\* Variant: the rejected transaction is left open.
RejectKeepsLocks(r) ==
    /\ Goto(r, "rejected")
    /\ UNCHANGED <<locks, funds, status, op>>

\* The handler throws: the transaction rolls back and the client sees a 4xx.
Reject(r) ==
    /\ Goto(r, "rejected")
    /\ ReleaseAll(r)
    /\ UNCHANGED <<funds, status, op>>

\* Variant: the UPDATE has no WHERE on the amount.
CoversAnything(p, o) == TRUE

\* The row holds enough money for the request.
Covers(p, o) == funds[p] >= o.amount

\* Variant: the WHERE of the UPDATE does not say status: 'ACTIVE'.
CanFundAnyStatus(o) ==
    o.kind \in SpendKinds /\ o.from \in Envs => Owner[o.from] = o.user

\* An envelope pays for a withdrawal or a transfer of its owner only, and
\* only while it is active.
CanFund(o) ==
    o.kind \in SpendKinds /\ o.from \in Envs =>
        Owner[o.from] = o.user /\ status[o.from] = "ACTIVE"

\* Variant: the UPDATE runs outside the transaction.
DebitAutocommit(r, cond, next) ==
    /\ pc[r] = "debit"
    /\ cond /\ Covers(op[r].from, op[r])
    /\ Free(r, op[r].from)
    /\ funds' = [funds EXCEPT ![op[r].from] = @ - op[r].amount]
    /\ Goto(r, next)
    /\ UNCHANGED <<locks, status, op>>

(***************************************************************************)
(* UPDATE ... SET x = x - amount WHERE x >= amount AND cond.  A row whose  *)
(* committed version does not satisfy the condition is skipped without     *)
(* waiting for its lock (count = 0, and the handler throws); one that does *)
(* is locked first and tested again under the lock.                        *)
(***************************************************************************)
Debit(r, cond, next) ==
    LET o == op[r] IN
    /\ pc[r] = "debit"
    /\ \/ /\ cond /\ Covers(o.from, o)
          /\ Take(r, o.from)
          /\ Goto(r, next)
          /\ UNCHANGED <<funds, status, op>>
       \/ /\ ~(cond /\ Covers(o.from, o))
          /\ Reject(r)

\* UPDATE ... SET x = x + amount WHERE id = ...
Credit(r, next) ==
    /\ pc[r] = "credit"
    /\ Take(r, op[r].to)
    /\ Goto(r, next)
    /\ UNCHANGED <<funds, status, op>>

\* What the rows hold once the operation o has taken effect.
Moved(o) ==
    [p \in Pots |-> funds[p] + (IF p = o.to THEN o.amount ELSE 0)
                             - (IF p = o.from THEN o.amount ELSE 0)]

\* COMMIT: the writes of the transaction become visible and its locks go.
Commit(r) ==
    /\ pc[r] = "commit"
    /\ funds' = Moved(op[r])
    /\ ReleaseAll(r)
    /\ Goto(r, "ok")
    /\ UNCHANGED op

(***************************************************************************)
(* The transaction rolls back without the handler asking for it: Prisma    *)
(* closes an interactive transaction after five seconds, the process or    *)
(* its connection dies.                                                    *)
(***************************************************************************)
Abort(r) ==
    /\ Running(r)
    /\ Goto(r, "aborted")
    /\ ReleaseAll(r)
    /\ UNCHANGED <<funds, status, op>>

\* The row whose lock the request's next statement asks for.
Want == [r \in Reqs |->
    CASE pc[r] = "limits" -> op[r].user
      [] pc[r] = "debit" /\ CanFund(op[r]) /\ Covers(op[r].from, op[r]) -> op[r].from
      [] pc[r] = "credit" -> op[r].to
      [] pc[r] = "read" /\ op[r].kind = "cancelGoal" -> op[r].from
      [] pc[r] = "commit" /\ op[r].kind = "cancelEnvelope" -> op[r].from
      [] OTHER -> NoPot]

\* PostgreSQL aborts a transaction that finds itself on a cycle of waits.
DeadlockVictim(r) == InWaitCycle(Want, r) /\ Abort(r)

\* Every request that was made has its answer: the system may stop here.
AllAnswered == \A r \in Reqs : Answered(r)

\* Invariants -------------------------------------------------------------

\* Which rows a request of each kind moves money between.
WellFormed(o) ==
    /\ o.kind \in SpendKinds =>
          /\ o.user \in Users
          /\ o.from \in {o.user} \cup Envs
          /\ o.to \in Users \cup {NoPot}
          /\ o.amount > 0
    /\ o.kind = "withdraw" => o.to = NoPot
    /\ o.kind = "deposit" => o.from = NoPot /\ o.to \in Users
    /\ o.kind = "allocate" => o.from \in Users /\ o.from = o.user /\ o.to \in Envs
    /\ o.kind = "release" => o.from \in Envs /\ o.to \in Users /\ o.to = o.user
    /\ o.kind = "cancelEnvelope" => o.from \in Envs /\ o.to = NoPot /\ o.amount = 0
    /\ o.kind = "contribute" =>
          o.from \in Users /\ o.from = o.user /\ o.to \in Goals /\ o.amount > 0
    /\ o.kind \in {"releaseGoal", "cancelGoal"} =>
          o.from \in Goals /\ o.to \in Users /\ o.to = o.user
    /\ o.kind = "none" => o.amount = 0

\* A transaction that is past its debit still has the row, and the money.
DebitSecured(r) ==
    pc[r] \in {"credit", "record", "commit"} /\ op[r].from \in Pots /\ op[r].amount > 0 =>
        locks[op[r].from] = r /\ Covers(op[r].from, op[r])

\* A transaction that is past its credit still has the row.
CreditSecured(r) ==
    pc[r] \in {"record", "commit"} /\ op[r].to \in Pots /\ op[r].amount > 0 =>
        locks[op[r].to] = r

(***************************************************************************)
(* What makes the balances safe, and inductive: the WHERE of the debit     *)
(* stays true until the commit because the row stays locked, and so does   *)
(* the row of the credit (the statements of transferInTx and moveFunds).   *)
(***************************************************************************)
LedgerInv ==
    /\ LedgerTypeOK
    /\ \A r \in Reqs : WellFormed(op[r]) /\ DebitSecured(r) /\ CreditSecured(r)

=============================================================================
