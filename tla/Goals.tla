------------------------------- MODULE Goals --------------------------------
(***************************************************************************)
(* GoalsService: a user saves wallet money towards a goal, takes it back,  *)
(* and cancels the goal, which returns what was saved.  A contribution     *)
(* that reaches the target completes the goal.                             *)
(*                                                                         *)
(* cancel locks the goal before it reads it (FOR UPDATE); moveFunds reads  *)
(* it without a lock, and its writes repeat no condition on the status.    *)
(***************************************************************************)
EXTENDS Ledger

CONSTANT Target     \* Goal.targetAmount

\* A goal that is open at the start has not reached its target.
ASSUME GoalsAssumption ==
    /\ Target \in [Goals -> Nat \ {0}]
    /\ \A g \in Goals : Opening[g] < Target[g]

\* Requests ---------------------------------------------------------------

\* POST goals: the new row is active and nothing is saved.
CreateGoal(g) ==
    /\ g \in Goals
    /\ status[g] = "ABSENT"
    /\ status' = [status EXCEPT ![g] = "ACTIVE"]
    /\ UNCHANGED <<locks, funds, pc, op>>

BeginContribute(r) ==
    \E u \in Users, g \in Goals, a \in Amounts :
        Begin(r, [kind |-> "contribute", user |-> u, from |-> u, to |-> g,
                  amount |-> a], "read")

BeginReleaseGoal(r) ==
    \E u \in Users, g \in Goals, a \in Amounts :
        Begin(r, [kind |-> "releaseGoal", user |-> u, from |-> g, to |-> u,
                  amount |-> a], "read")

\* The amount a cancellation returns is known when it has read the goal.
BeginCancelGoal(r) ==
    \E u \in Users, g \in Goals :
        Begin(r, [kind |-> "cancelGoal", user |-> u, from |-> g, to |-> u,
                  amount |-> 0], "read")

Goal(r) == IF op[r].kind = "contribute" THEN op[r].to ELSE op[r].from

\* Statements -------------------------------------------------------------

\* The checks moveFunds makes on the goal it has read.
GoalAccepts(r) ==
    LET g == Goal(r) IN
    /\ Owner[g] = op[r].user
    /\ CASE op[r].kind = "contribute" -> status[g] = "ACTIVE"
         [] op[r].kind = "releaseGoal" ->
                status[g] \in {"ACTIVE", "COMPLETED"} /\ Covers(g, op[r])

\* moveFunds reads the goal without a lock.
ReadGoal(r) ==
    /\ pc[r] = "read"
    /\ op[r].kind \in {"contribute", "releaseGoal"}
    /\ \/ /\ GoalAccepts(r)
          /\ Goto(r, "debit")
          /\ UNCHANGED <<locks, funds, status, op>>
       \/ /\ ~GoalAccepts(r)
          /\ Reject(r)

\* CONTRIBUTE debits the wallet, RELEASE the goal, whatever its status.
DebitForGoal(r) ==
    /\ op[r].kind \in {"contribute", "releaseGoal"}
    /\ Debit(r, TRUE, "credit")

\* CONTRIBUTE credits the goal, whatever its status, RELEASE the wallet.
CreditForGoal(r) ==
    /\ op[r].kind \in GoalKinds
    /\ Credit(r, "commit")

\* Variant: cancel reads the goal without FOR UPDATE.
ReadGoalForCancel(r) ==
    LET g == Goal(r) IN
    /\ pc[r] = "read"
    /\ op[r].kind = "cancelGoal"
    /\ Owner[g] = op[r].user
    /\ status[g] = "ACTIVE"
    /\ op' = [op EXCEPT ![r].amount = funds[g]]
    /\ Goto(r, IF funds[g] > 0 THEN "credit" ELSE "commit")
    /\ UNCHANGED <<locks, funds, status>>

\* cancel: SELECT ... FOR UPDATE WHERE id = ... AND "userId" = ..., then the
\* checks and the amount, under the lock.  With nothing saved the wallet is
\* left alone and the only write left is that of the status.
LockGoalForCancel(r) ==
    LET g == Goal(r) IN
    /\ pc[r] = "read"
    /\ op[r].kind = "cancelGoal"
    /\ \/ /\ Owner[g] = op[r].user
          /\ Take(r, g)
          /\ status[g] = "ACTIVE"
          /\ op' = [op EXCEPT ![r].amount = funds[g]]
          /\ Goto(r, IF funds[g] > 0 THEN "credit" ELSE "commit")
          /\ UNCHANGED <<funds, status>>
       \/ /\ Owner[g] = op[r].user
          /\ Free(r, g)
          /\ status[g] # "ACTIVE"
          /\ Reject(r)
       \/ /\ Owner[g] # op[r].user
          /\ Reject(r)

\* The status the goal has once the request commits.  A contribution sees
\* the saved amount after its own increment, under the lock it still holds.
StatusAfter(r) ==
    LET g == Goal(r) IN
    CASE op[r].kind = "cancelGoal" -> "CANCELLED"
      [] op[r].kind = "contribute" /\ Moved(op[r])[g] >= Target[g] -> "COMPLETED"
      [] OTHER -> status[g]

CommitGoalMove(r) ==
    /\ op[r].kind \in GoalKinds
    /\ Commit(r)
    /\ status' = [status EXCEPT ![Goal(r)] = StatusAfter(r)]

GoalsStep(r) ==
    \/ ReadGoal(r)
    \/ DebitForGoal(r)
    \/ CreditForGoal(r)
    \/ LockGoalForCancel(r)
    \/ CommitGoalMove(r)

BeginGoal(r) == BeginContribute(r) \/ BeginReleaseGoal(r) \/ BeginCancelGoal(r)

\* Properties -------------------------------------------------------------

(***************************************************************************)
(* cancel returns everything that was saved: at the moment a goal becomes  *)
(* CANCELLED it is empty, whatever contributions and releases run at the   *)
(* same time (the FOR UPDATE that cancel starts with).                     *)
(***************************************************************************)
CancelReturnsEverything ==
    [][\A g \in Goals :
          status[g] # "CANCELLED" /\ status'[g] = "CANCELLED" => funds'[g] = 0]_ledgerVars

(***************************************************************************)
(* A goal that reaches its target is completed, and for good: contributions*)
(* that overlap and reach it only together do not leave it active (the     *)
(* amount that is compared is the one the increment returns), and a        *)
(* cancellation that runs at the same time does not undo the completion    *)
(* (it has locked the goal before it looks at the status).                 *)
(***************************************************************************)
TargetCompletesForGood ==
    [][\A g \in Goals :
          /\ status[g] = "COMPLETED" => status'[g] = "COMPLETED"
          /\ status'[g] = "ACTIVE" => funds'[g] < Target[g]]_ledgerVars
=============================================================================
