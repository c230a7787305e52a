---------------------------- MODULE HoldersProofs ----------------------------
(***************************************************************************)
(* Who pays, and from which envelopes and goals: a request pays from its   *)
(* owner's rows, a spend only from an active envelope; a cancellation of a *)
(* goal returns all of it, and a goal that reaches its target is completed *)
(* for good; and the composed services implement module Bank, for every    *)
(* number of users, envelopes, goals and requests.                         *)
(***************************************************************************)
EXTENDS WalletProofs, Books, Sums

(***************************************************************************)
(* A row that another transaction has locked keeps its money and stays     *)
(* active, whatever statement r executes.                                  *)
(***************************************************************************)
HeldRowsKept(r) ==
    \A q \in Reqs \ {r}, p \in Pots : locks[p] = q =>
        /\ funds'[p] = funds[p]
        /\ p \in Holders /\ status[p] = "ACTIVE" => status'[p] = "ACTIVE"

LEMMA CommitKeepsHeldFunds ==
    ASSUME LedgerInv, NEW r \in Reqs, Commit(r),
           NEW q \in Reqs \ {r}, NEW p \in Pots, locks[p] = q
    PROVE  funds'[p] = funds[p]
<1>1. op[r] \in Ops /\ pc[r] = "commit" /\ funds[p] \in Nat
  BY DEF LedgerInv, LedgerTypeOK, Commit
<1>2. op[r].amount > 0 => p # op[r].from /\ p # op[r].to
  BY <1>1 DEF LedgerInv, DebitSecured, CreditSecured
<1>3. op[r].amount \in Nat
  BY <1>1 DEF Ops
<1>4. funds'[p] = funds[p] + (IF p = op[r].to THEN op[r].amount ELSE 0)
                           - (IF p = op[r].from THEN op[r].amount ELSE 0)
  BY DEF Commit, Moved
<1>5. QED
  BY <1>1, <1>2, <1>3, <1>4

LEMMA StepKeepsHeldRows ==
    ASSUME LedgerInv, HoldersInv, NEW r \in Reqs,
           TransactionsStep(r) \/ EnvelopesStep(r) \/ GoalsStep(r)
    PROVE  HeldRowsKept(r)
<1>1. CASE TransactionsStep(r)
  <2>1. CASE CommitTransaction(r)
    BY <2>1, CommitKeepsHeldFunds DEF CommitTransaction, HeldRowsKept
  <2>2. CASE ~CommitTransaction(r)
    BY <1>1, <2>2
       DEF TransactionsStep, HeldRowsKept, LockForLimits, CheckLimits, DebitFunding,
           CreditRecipient, Record, Debit, Credit, Reject
  <2>3. QED  BY <2>1, <2>2
<1>2. CASE EnvelopesStep(r)
  <2>1. CASE CommitEnvelopeMove(r)
    BY <2>1, CommitKeepsHeldFunds DEF CommitEnvelopeMove, HeldRowsKept
  <2>2. CASE CloseEnvelope(r)
    <3>1. \A q \in Reqs \ {r}, p \in Pots : locks[p] = q => p # op[r].from
      BY <2>2, NoReqAssumption DEF CloseEnvelope, Free
    <3>2. \A p \in Holders : p # op[r].from => status'[p] = status[p]
      BY <2>2 DEF CloseEnvelope, LedgerInv, LedgerTypeOK, Holders
    <3>3. Commit(r)
      BY <2>2 DEF CloseEnvelope
    <3>4. QED
      BY <3>1, <3>2, <3>3, CommitKeepsHeldFunds DEF HeldRowsKept
  <2>3. CASE ReadEnvelope(r) \/ DebitForEnvelope(r) \/ CreditForEnvelope(r)
    BY <2>3
       DEF HeldRowsKept, ReadEnvelope, DebitForEnvelope, CreditForEnvelope, Debit, Credit,
           Reject
  <2>4. QED  BY <1>2, <2>1, <2>2, <2>3 DEF EnvelopesStep
<1>3. CASE GoalsStep(r)
  <2>1. CASE CommitGoalMove(r)
    <3>1. Commit(r) /\ op[r].kind \in GoalKinds /\ WellFormed(op[r]) /\ LedgerTypeOK
      BY <2>1 DEF CommitGoalMove, LedgerInv
    <3>2. ASSUME NEW q \in Reqs \ {r}, NEW p \in Holders, locks[p] = q
          PROVE  status'[p] = status[p]
      <4>1. CASE op[r].kind = "releaseGoal"
        BY <2>1, <3>1, <4>1 DEF CommitGoalMove, StatusAfter, LedgerTypeOK
      <4>2. CASE op[r].kind = "contribute"
        <5>1. locks[op[r].to] = r /\ Goal(r) = op[r].to
          BY <3>1, <4>2 DEF LedgerInv, CreditSecured, WellFormed, Commit, Goal, Pots, Holders
        <5>2. QED  BY <2>1, <3>1, <3>2, <5>1 DEF CommitGoalMove, LedgerTypeOK
      <4>3. CASE op[r].kind = "cancelGoal"
        <5>1. locks[op[r].from] = r /\ Goal(r) = op[r].from
          BY <3>1, <4>3 DEF HoldersInv, ReturnsAll, Commit, Goal
        <5>2. QED  BY <2>1, <3>1, <3>2, <5>1 DEF CommitGoalMove, LedgerTypeOK
      <4>4. QED  BY <3>1, <4>1, <4>2, <4>3 DEF GoalKinds
    <3>3. QED
      BY <3>1, <3>2, CommitKeepsHeldFunds DEF HeldRowsKept
  <2>2. CASE ~CommitGoalMove(r)
    BY <1>3, <2>2
       DEF GoalsStep, HeldRowsKept, ReadGoal, DebitForGoal, CreditForGoal,
           LockGoalForCancel, Debit, Credit, Reject
  <2>3. QED  BY <2>1, <2>2
<1>4. QED
  BY <1>1, <1>2, <1>3

(***************************************************************************)
(* Rows that are held keep for the others what HoldersInv says of them.    *)
(***************************************************************************)
LEMMA OthersKeepHolders ==
    ASSUME LedgerInv, HoldersInv, NEW r \in Reqs, OthersKept(r), HeldRowsKept(r),
           NEW q \in Reqs \ {r}
    PROVE  UsesOwnRows(q)' /\ PaysFromActive(q)' /\ ReturnsAll(q)'
<1>1. /\ pc'[q] = pc[q] /\ op'[q] = op[q]
      /\ UsesOwnRows(q) /\ PaysFromActive(q) /\ ReturnsAll(q) /\ WellFormed(op[q])
  BY DEF OthersKept, HoldersInv, LedgerInv
<1>2. UsesOwnRows(q)'
  BY <1>1 DEF UsesOwnRows, OwnerOf, Spending
<1>3. PaysFromActive(q)'
  <2> SUFFICES ASSUME Spending(q), pc[q] \in {"credit", "record", "commit"}, op[q].from \in Envs
               PROVE  status'[op[q].from] = "ACTIVE"
    BY <1>1 DEF PaysFromActive, Spending
  <2>1. op[q].from \in Pots /\ op[q].amount > 0
    BY <1>1 DEF WellFormed, Spending, Pots, Holders
  <2>2. locks[op[q].from] = q
    BY <2>1 DEF LedgerInv, DebitSecured
  <2>3. status[op[q].from] = "ACTIVE"
    BY <1>1 DEF PaysFromActive
  <2>4. QED  BY <2>1, <2>2, <2>3 DEF HeldRowsKept, Holders
<1>4. ReturnsAll(q)'
  <2> SUFFICES ASSUME op[q].kind = "cancelGoal", pc[q] \in {"credit", "commit"}
               PROVE  /\ locks'[op[q].from] = q
                      /\ funds'[op[q].from] = op[q].amount
                      /\ status'[op[q].from] = "ACTIVE"
    BY <1>1 DEF ReturnsAll
  <2>1. /\ op[q].from \in Pots /\ op[q].from \in Holders /\ locks[op[q].from] = q
        /\ funds[op[q].from] = op[q].amount /\ status[op[q].from] = "ACTIVE"
    BY <1>1 DEF ReturnsAll, WellFormed, Pots, Holders
  <2>2. QED
    BY <2>1, LedgerAssumption DEF OthersKept, HeldRowsKept
<1>5. QED
  BY <1>2, <1>3, <1>4

(***************************************************************************)
(* Each service keeps for the request whose statement it executes what     *)
(* HoldersInv says of it.                                                  *)
(***************************************************************************)
HoldersKept(r) == UsesOwnRows(r)' /\ PaysFromActive(r)' /\ ReturnsAll(r)'

LEMMA EndKeepsHolders ==
    ASSUME NEW r \in Reqs, pc'[r] \in Answers \cup {"limits", "read"}
    PROVE  HoldersKept(r)
  BY DEF HoldersKept, UsesOwnRows, PaysFromActive, ReturnsAll, Answers

LEMMA RejectEnds ==
    ASSUME LedgerInv, NEW r \in Reqs, Reject(r) \/ Abort(r) \/ Commit(r)
    PROVE  HoldersKept(r)
  BY EndKeepsHolders DEF Reject, Abort, Commit, Goto, Answers, LedgerInv, LedgerTypeOK

LEMMA BeginKeepsHolders ==
    ASSUME LedgerInv, NEW r \in Reqs,
           BeginTransaction(r) \/ BeginEnvelope(r) \/ BeginGoal(r)
    PROVE  HoldersKept(r)
<1>1. CASE BeginDeposit(r)
  <2>1. op'[r].from = NoPot /\ op'[r].kind = "deposit"
    BY <1>1 DEF BeginDeposit, Begin, LedgerInv, LedgerTypeOK
  <2>2. QED
    BY <2>1, LedgerAssumption
       DEF HoldersKept, UsesOwnRows, PaysFromActive, ReturnsAll, Spending, SpendKinds,
           EnvKinds, GoalKinds
<1>2. CASE ~BeginDeposit(r)
  <2>1. pc'[r] \in {"limits", "read"}
    BY <1>2
       DEF BeginTransaction, BeginWithdraw, BeginTransfer, BeginEnvelope, BeginAllocate,
           BeginRelease, BeginCancelEnvelope, BeginGoal, BeginContribute,
           BeginReleaseGoal, BeginCancelGoal, Begin, Goto, LedgerInv, LedgerTypeOK
  <2>2. QED  BY <2>1, EndKeepsHolders
<1>3. QED  BY <1>1, <1>2

LEMMA TransactionsStepKeepsHolders ==
    ASSUME LedgerInv, HoldersInv, NEW r \in Reqs, TransactionsStep(r)
    PROVE  HoldersKept(r)
<1>1. LedgerTypeOK /\ WellFormed(op[r])
      /\ UsesOwnRows(r) /\ PaysFromActive(r) /\ ReturnsAll(r)
  BY DEF LedgerInv, HoldersInv
<1>2. CASE LockForLimits(r) \/ (CheckLimits(r) /\ ~Reject(r))
  BY <1>1, <1>2
     DEF LockForLimits, CheckLimits, Goto, LedgerTypeOK, HoldersKept, UsesOwnRows,
         PaysFromActive, ReturnsAll, Spending, SpendKinds
<1>3. CASE (CheckLimits(r) \/ DebitFunding(r)) /\ Reject(r)
  BY <1>3, RejectEnds
<1>4. CASE DebitFunding(r) /\ ~Reject(r)
  <2>1. /\ CanFund(op[r]) /\ Spending(r) /\ op' = op /\ status' = status
        /\ pc'[r] \in {"credit", "record"}
    BY <1>1, <1>4 DEF DebitFunding, Debit, Goto, LedgerTypeOK
  <2>2. op[r].from \in {op[r].user} \cup Envs /\ op[r].user \in Users
    BY <1>1, <2>1 DEF WellFormed, Spending
  <2>3. QED
    BY <2>1, <2>2, LedgerAssumption
       DEF CanFund, HoldersKept, UsesOwnRows, PaysFromActive, ReturnsAll, Spending,
           SpendKinds, EnvKinds, GoalKinds, OwnerOf, Holders
<1>5. CASE CreditRecipient(r) \/ Record(r)
  <2>1. /\ op' = op /\ status' = status /\ pc[r] \in {"credit", "record"}
        /\ pc'[r] \in {"record", "commit"}
        /\ op[r].kind \in SpendKinds \cup {"deposit"}
    BY <1>1, <1>5
       DEF CreditRecipient, Record, Credit, Goto, LedgerTypeOK, Spending, SpendKinds
  <2>2. QED
    BY <1>1, <2>1
       DEF HoldersKept, UsesOwnRows, PaysFromActive, ReturnsAll, Spending, SpendKinds, OwnerOf
<1>6. CASE CommitTransaction(r)
  BY <1>6, RejectEnds DEF CommitTransaction
<1>7. QED
  BY <1>2, <1>3, <1>4, <1>5, <1>6 DEF TransactionsStep

LEMMA EnvelopesStepKeepsHolders ==
    ASSUME LedgerInv, HoldersInv, NEW r \in Reqs, EnvelopesStep(r)
    PROVE  HoldersKept(r)
<1>1. LedgerTypeOK /\ WellFormed(op[r]) /\ UsesOwnRows(r) /\ op[r].kind \in EnvKinds
  BY EnvelopesKeepOthers DEF LedgerInv, HoldersInv
<1>2. CASE ReadEnvelope(r) /\ ~Reject(r)
  <2>1. op' = op /\ Owner[Envelope(r)] = op[r].user
    BY <1>1, <1>2 DEF ReadEnvelope, EnvelopeAccepts
  <2>2. /\ op[r].from \in Pots => OwnerOf(op[r].from) = op[r].user
        /\ op[r].to \in Pots => OwnerOf(op[r].to) = op[r].user
    BY <1>1, <2>1, LedgerAssumption
       DEF Envelope, WellFormed, EnvKinds, OwnerOf, Pots, Holders
  <2>3. QED
    BY <1>1, <2>1, <2>2
       DEF HoldersKept, UsesOwnRows, PaysFromActive, ReturnsAll, Spending, EnvKinds,
           SpendKinds, OwnerOf
<1>3. CASE (ReadEnvelope(r) \/ DebitForEnvelope(r)) /\ Reject(r)
  BY <1>3, RejectEnds
<1>4. CASE CreditForEnvelope(r) \/ (DebitForEnvelope(r) /\ ~Reject(r))
  <2>1. op' = op /\ (pc[r] = "debit" \/ pc[r] = "credit")
    BY <1>4 DEF DebitForEnvelope, CreditForEnvelope, Debit, Credit
  <2>2. QED
    BY <1>1, <2>1
       DEF HoldersKept, UsesOwnRows, PaysFromActive, ReturnsAll, Spending, EnvKinds,
           SpendKinds, OwnerOf
<1>5. CASE CommitEnvelopeMove(r) \/ CloseEnvelope(r)
  BY <1>5, RejectEnds DEF CommitEnvelopeMove, CloseEnvelope
<1>6. QED
  BY <1>2, <1>3, <1>4, <1>5 DEF EnvelopesStep

LEMMA GoalsStepKeepsHolders ==
    ASSUME LedgerInv, HoldersInv, NEW r \in Reqs, GoalsStep(r)
    PROVE  HoldersKept(r)
<1>1. /\ LedgerTypeOK /\ WellFormed(op[r]) /\ UsesOwnRows(r) /\ ReturnsAll(r)
      /\ op[r] \in Ops /\ op[r].kind \in GoalKinds /\ op'[r].kind = op[r].kind
  BY GoalsKeepOthers DEF LedgerInv, HoldersInv, LedgerTypeOK
<1>2. CASE ReadGoal(r) /\ ~Reject(r)
  <2>1. /\ op' = op /\ pc'[r] = "debit" /\ Owner[Goal(r)] = op[r].user
        /\ op[r].kind \in {"contribute", "releaseGoal"}
    BY <1>1, <1>2 DEF ReadGoal, GoalAccepts, Goto, LedgerTypeOK
  <2>2. /\ op[r].from \in Pots => OwnerOf(op[r].from) = op[r].user
        /\ op[r].to \in Pots => OwnerOf(op[r].to) = op[r].user
    BY <1>1, <2>1, LedgerAssumption DEF Goal, WellFormed, OwnerOf, Pots, Holders
  <2>3. QED
    BY <2>1, <2>2
       DEF HoldersKept, UsesOwnRows, PaysFromActive, ReturnsAll, Spending, SpendKinds, OwnerOf
<1>3. CASE (ReadGoal(r) \/ DebitForGoal(r) \/ LockGoalForCancel(r)) /\ Reject(r)
  BY <1>3, RejectEnds
<1>4. CASE DebitForGoal(r) /\ ~Reject(r)
  BY <1>1, <1>4
     DEF DebitForGoal, Debit, HoldersKept, UsesOwnRows, PaysFromActive, ReturnsAll,
         Spending, SpendKinds, OwnerOf
<1>5. CASE CreditForGoal(r)
  <2>1. /\ op' = op /\ funds' = funds /\ status' = status /\ pc[r] = "credit"
        /\ \A y \in Rows : locks[y] = r => locks'[y] = r
    BY <1>1, <1>5, TakeKeepsOthers DEF CreditForGoal, Credit, LedgerTypeOK
  <2>2. op[r].from \in Rows
    BY <1>1, <2>1, LedgerAssumption DEF WellFormed, GoalKinds, Pots, Holders
  <2>3. QED
    BY <1>1, <2>1, <2>2
       DEF HoldersKept, UsesOwnRows, PaysFromActive, ReturnsAll, Spending, GoalKinds,
           SpendKinds, OwnerOf
<1>6. CASE LockGoalForCancel(r) /\ ~Reject(r)
  <2>1. /\ op[r].kind = "cancelGoal" /\ Owner[op[r].from] = op[r].user
        /\ Take(r, op[r].from) /\ funds' = funds
        /\ status' = status /\ status[op[r].from] = "ACTIVE"
        /\ op' = [op EXCEPT ![r].amount = funds[op[r].from]]
    BY <1>1, <1>6 DEF LockGoalForCancel, Goal
  <2>2. /\ op[r].from \in Goals /\ op[r].from \in Rows
        /\ op[r].to = op[r].user /\ op[r].to \in Users
    BY <1>1, <2>1, LedgerAssumption DEF WellFormed, Pots, Holders
  <2>3. /\ op'[r].from = op[r].from /\ op'[r].user = op[r].user
        /\ op'[r].amount = funds[op[r].from] /\ op'[r].kind = "cancelGoal"
        /\ op'[r].to = op[r].to
    BY <1>1, <2>1 DEF LedgerTypeOK, Ops
  <2>4. locks'[op[r].from] = r
    BY <1>1, <2>1, <2>2, TakeKeepsOthers DEF LedgerTypeOK
  <2>5. OwnerOf(op[r].from) = op[r].user /\ OwnerOf(op[r].to) = op[r].user
    BY <2>1, <2>2, LedgerAssumption DEF OwnerOf, Holders
  <2>6. QED
    BY <2>1, <2>3, <2>4, <2>5
       DEF HoldersKept, UsesOwnRows, PaysFromActive, ReturnsAll, Spending, SpendKinds, OwnerOf
<1>7. CASE CommitGoalMove(r)
  BY <1>7, RejectEnds DEF CommitGoalMove
<1>8. QED
  BY <1>2, <1>3, <1>4, <1>5, <1>6, <1>7 DEF GoalsStep

LEMMA NextKeepsHolders ==
    ASSUME LedgerInv, HoldersInv, [WalletNext \/ WalletDone]_transactionsVars
    PROVE  HoldersInv'
<1>1. LedgerTypeOK
  BY DEF LedgerInv
<1>2. ASSUME NEW r \in Reqs, OthersKept(r), HeldRowsKept(r), HoldersKept(r)
      PROVE  HoldersInv'
  BY <1>2, OthersKeepHolders DEF HoldersInv, HoldersKept
<1>3. ASSUME NEW r \in Reqs, WalletStep(r)
      PROVE  HoldersInv'
  <2>1. OthersKept(r)
    <3>1. CASE TransactionsStep(r)
      <4>1. CASE LockForLimits(r)
        BY <1>1, <4>1, TakeKeepsOthers DEF LockForLimits, OthersKept, Goto, LedgerTypeOK
      <4>2. CASE CheckLimits(r)
        <5>1. CASE Reject(r)
          BY <1>1, <5>1, EndsKeepOthers
        <5>2. CASE ~Reject(r)
          BY <1>1, <4>2, <5>2 DEF CheckLimits, OthersKept, Goto, LedgerTypeOK
        <5>3. QED  BY <5>1, <5>2
      <4>3. CASE DebitFunding(r) \/ CreditRecipient(r)
        BY <1>1, <4>3, UpdatesKeepOthers DEF DebitFunding, CreditRecipient
      <4>4. CASE Record(r)
        BY <1>1, <4>4 DEF Record, OthersKept, Goto, LedgerTypeOK
      <4>5. CASE CommitTransaction(r)
        BY <1>1, <4>5, EndsKeepOthers DEF CommitTransaction
      <4>6. QED  BY <3>1, <4>1, <4>2, <4>3, <4>4, <4>5 DEF TransactionsStep
    <3>2. QED
      BY <1>1, <1>3, <3>1, EnvelopesKeepOthers, GoalsKeepOthers
         DEF WalletStep, EnvelopesOrGoals
  <2>2. HeldRowsKept(r) /\ HoldersKept(r)
    BY <1>3, StepKeepsHeldRows, TransactionsStepKeepsHolders, EnvelopesStepKeepsHolders,
       GoalsStepKeepsHolders
       DEF WalletStep, EnvelopesOrGoals
  <2>3. QED  BY <1>2, <2>1, <2>2
<1>4. ASSUME NEW r \in Reqs, AbortTransaction(r)
      PROVE  HoldersInv'
  <2>1. OthersKept(r) /\ HoldersKept(r)
    BY <1>1, <1>4, EndsKeepOthers, RejectEnds DEF AbortTransaction
  <2>2. HeldRowsKept(r)
    BY <1>4 DEF AbortTransaction, Abort, HeldRowsKept
  <2>3. QED  BY <1>2, <2>1, <2>2
<1>5. ASSUME NEW r \in Reqs, BeginTransaction(r) \/ BeginEnvelope(r) \/ BeginGoal(r)
      PROVE  HoldersInv'
  <2>1. HeldRowsKept(r)
    BY <1>5
       DEF HeldRowsKept, BeginTransaction, BeginWithdraw, BeginTransfer, BeginDeposit,
           BeginEnvelope, BeginAllocate, BeginRelease, BeginCancelEnvelope, BeginGoal,
           BeginContribute, BeginReleaseGoal, BeginCancelGoal, Begin
  <2>2. QED
    BY <1>1, <1>2, <1>5, <2>1, BeginsKeepOthers, BeginKeepsHolders
<1>6. ASSUME UNCHANGED <<locks, funds, pc, op>>,
             \A h \in Holders : status[h] = "ACTIVE" => status'[h] = "ACTIVE"
      PROVE  HoldersInv'
  <2>1. \A q \in Reqs : op[q].kind = "cancelGoal" => op[q].from \in Holders
    BY DEF LedgerInv, WellFormed, Holders
  <2>2. QED
    BY <1>6, <2>1
       DEF HoldersInv, UsesOwnRows, PaysFromActive, ReturnsAll, Spending, OwnerOf, Holders
<1>7. CASE SetLimit \/ Midnight \/ UNCHANGED transactionsVars
  <2>1. UNCHANGED <<locks, funds, status, pc, op>>
    BY <1>7, LimitsTouchNoMoney DEF Midnight, transactionsVars
  <2>2. QED  BY <1>6, <2>1
<1>8. CASE (\E e \in Envs : CreateEnvelope(e)) \/ (\E g \in Goals : CreateGoal(g))
  <2>1. PICK h \in Holders : status' = [status EXCEPT ![h] = "ACTIVE"]
                             /\ UNCHANGED <<locks, funds, pc, op>>
    BY <1>8 DEF CreateEnvelope, CreateGoal, Holders
  <2>2. QED
    BY <1>1, <1>6, <2>1 DEF LedgerTypeOK, Holders
<1>9. QED
  BY <1>3, <1>4, <1>5, <1>7, <1>8 DEF WalletNext, WalletDone

(***************************************************************************)
(* The invariant of the rows that hold money.                              *)
(***************************************************************************)
LEMMA HoldersAreSafe == WalletSpec => [](LedgerInv /\ HoldersInv)
<1>1. WalletInit => LedgerInv /\ HoldersInv
  BY InitIsSafe
     DEF WalletInit, TransactionsInit, LedgerInit, HoldersInv, UsesOwnRows,
         PaysFromActive, ReturnsAll
<1>2. LedgerInv /\ HoldersInv /\ [WalletNext \/ WalletDone]_transactionsVars
      => (LedgerInv /\ HoldersInv)'
  BY NextKeepsLedger, NextKeepsHolders
<1>3. QED
  BY <1>1, <1>2, PTL DEF WalletSpec

(***************************************************************************)
(* Only a commit answers "ok", and only a cancellation cancels a goal.     *)
(***************************************************************************)
LEMMA OnlyCommitAnswers ==
    ASSUME LedgerInv, [WalletNext \/ WalletDone]_transactionsVars,
           NEW r \in Reqs, pc[r] # "ok", pc'[r] = "ok"
    PROVE  Commit(r)
<1>1. pc' # pc /\ LedgerTypeOK
  BY DEF LedgerInv
<1>2. ASSUME NEW q \in Reqs, WalletStep(q)
      PROVE  Commit(r)
  <2>1. CASE Commit(q)
    BY <1>1, <2>1 DEF Commit, Goto, LedgerTypeOK
  <2>2. CASE ~Commit(q)
    <3>1. \/ pc' = pc
          \/ \E step \in Steps \cup {"rejected"} : pc' = [pc EXCEPT ![q] = step]
      BY <1>2, <2>2
         DEF WalletStep, EnvelopesOrGoals, TransactionsStep, EnvelopesStep, GoalsStep,
             LockForLimits, CheckLimits, DebitFunding, CreditRecipient, Record,
             CommitTransaction, ReadEnvelope, DebitForEnvelope, CreditForEnvelope,
             CommitEnvelopeMove, CloseEnvelope, ReadGoal, DebitForGoal, CreditForGoal,
             LockGoalForCancel, CommitGoalMove, Debit, Credit, Reject, Goto, Steps
    <3>2. QED  BY <1>1, <3>1 DEF LedgerTypeOK, Steps
  <2>3. QED  BY <2>1, <2>2
<1>3. ASSUME NEW q \in Reqs,
             BeginTransaction(q) \/ BeginEnvelope(q) \/ BeginGoal(q) \/ AbortTransaction(q)
      PROVE  FALSE
  BY <1>1, <1>3
     DEF BeginTransaction, BeginWithdraw, BeginTransfer, BeginDeposit,
         BeginEnvelope, BeginAllocate, BeginRelease, BeginCancelEnvelope, BeginGoal,
         BeginContribute, BeginReleaseGoal, BeginCancelGoal, Begin, AbortTransaction, Abort,
         Goto, LedgerTypeOK
<1>4. QED
  BY <1>1, <1>2, <1>3, LimitsTouchNoMoney
     DEF WalletNext, WalletDone, Midnight, CreateEnvelope, CreateGoal, transactionsVars

(***************************************************************************)
(* A withdrawal or a transfer is never paid from a cancelled envelope.     *)
(***************************************************************************)
THEOREM SpendsAreFromActive == WalletSpec => SpendsOnlyFromActive
<1> DEFINE FromActive == \A r \in Reqs :
               /\ pc[r] # "ok" /\ pc'[r] = "ok"
               /\ op[r].kind \in SpendKinds
               /\ op[r].from \in Envs
               => status[op[r].from] = "ACTIVE"
<1>1. LedgerInv /\ HoldersInv /\ [WalletNext \/ WalletDone]_transactionsVars
      => [FromActive]_transactionsVars
  <2> SUFFICES ASSUME LedgerInv, HoldersInv, [WalletNext \/ WalletDone]_transactionsVars,
                      NEW r \in Reqs, pc[r] # "ok", pc'[r] = "ok",
                      op[r].kind \in SpendKinds, op[r].from \in Envs
               PROVE  status[op[r].from] = "ACTIVE"
    OBVIOUS
  <2>1. pc[r] = "commit"
    BY OnlyCommitAnswers DEF Commit
  <2>2. QED
    BY <2>1 DEF HoldersInv, PaysFromActive, Spending
<1>2. QED
  BY <1>1, HoldersAreSafe, PTL DEF WalletSpec, SpendsOnlyFromActive

(***************************************************************************)
(* A goal is empty at the moment it becomes CANCELLED.                     *)
(***************************************************************************)
THEOREM CancellationsReturnEverything == WalletSpec => CancelReturnsEverything
<1> DEFINE Emptied == \A g \in Goals :
               status[g] # "CANCELLED" /\ status'[g] = "CANCELLED" => funds'[g] = 0
<1>1. LedgerInv /\ HoldersInv /\ [WalletNext \/ WalletDone]_transactionsVars
      => [Emptied]_ledgerVars
  <2> SUFFICES ASSUME LedgerInv, HoldersInv, [WalletNext \/ WalletDone]_transactionsVars,
                      NEW g \in Goals, status[g] # "CANCELLED", status'[g] = "CANCELLED"
               PROVE  funds'[g] = 0
    OBVIOUS
  <2>1. LedgerTypeOK /\ g \in Holders /\ g \in Pots /\ g \notin Envs /\ g \notin Users
    BY LedgerAssumption DEF LedgerInv, Holders, Pots
  <2>2. PICK r \in Reqs : CommitGoalMove(r) \/ CloseEnvelope(r)
    BY <2>1, LimitsTouchNoMoney
       DEF WalletNext, WalletDone, WalletStep, EnvelopesOrGoals, TransactionsStep,
           EnvelopesStep, GoalsStep, LockForLimits, CheckLimits, DebitFunding,
           CreditRecipient, Record, CommitTransaction, ReadEnvelope, DebitForEnvelope,
           CreditForEnvelope, CommitEnvelopeMove, ReadGoal, DebitForGoal, CreditForGoal,
           LockGoalForCancel, Debit, Credit, Reject, BeginTransaction, BeginWithdraw,
           BeginTransfer, BeginDeposit, BeginEnvelope, BeginAllocate, BeginRelease,
           BeginCancelEnvelope, BeginGoal, BeginContribute, BeginReleaseGoal,
           BeginCancelGoal, Begin, AbortTransaction, Abort, Midnight,
           CreateEnvelope, CreateGoal, transactionsVars, LedgerTypeOK
  <2>3. WellFormed(op[r]) /\ ReturnsAll(r) /\ op[r] \in Ops
    BY DEF LedgerInv, HoldersInv, LedgerTypeOK
  <2>4. CommitGoalMove(r)
    BY <2>1, <2>2, <2>3 DEF CloseEnvelope, WellFormed, LedgerTypeOK
  <2>5. Goal(r) = g /\ op[r].kind = "cancelGoal"
    BY <2>1, <2>4 DEF CommitGoalMove, StatusAfter, LedgerTypeOK
  <2>6. op[r].from = g /\ op[r].to \in Users /\ funds[g] = op[r].amount /\ funds[g] \in Nat
    BY <2>1, <2>3, <2>4, <2>5
       DEF Goal, WellFormed, ReturnsAll, CommitGoalMove, Commit, LedgerTypeOK
  <2>7. funds'[g] = funds[g] + 0 - funds[g]
    BY <2>1, <2>4, <2>6 DEF CommitGoalMove, Commit, Moved
  <2>8. QED  BY <2>6, <2>7
<1>2. QED
  BY <1>1, HoldersAreSafe, PTL DEF WalletSpec, CancelReturnsEverything

(***************************************************************************)
(* What a step does to a goal: it commits a request about this goal, opens *)
(* it, or leaves its status alone and never adds to its money.             *)
(***************************************************************************)
LEMMA OnlyItsRequestsChangeAGoal ==
    ASSUME LedgerInv, WalletNext \/ WalletDone, NEW g \in Goals
    PROVE  \/ \E r \in Reqs : CommitGoalMove(r) /\ Goal(r) = g
           \/ CreateGoal(g)
           \/ status'[g] = status[g] /\ funds'[g] <= funds[g]
<1>1. LedgerTypeOK /\ g \in Holders /\ g \in Pots /\ g \notin Envs /\ g \notin Users
  BY LedgerAssumption DEF LedgerInv, Holders, Pots
<1>2. funds[g] \in Nat
  BY <1>1 DEF LedgerTypeOK
<1>3. ASSUME NEW r \in Reqs, Commit(r), op[r].to # g
      PROVE  funds'[g] <= funds[g]
  <2>1. op[r].amount \in Nat
    BY <1>1 DEF LedgerTypeOK, Ops
  <2>2. funds'[g] = funds[g] + 0 - (IF g = op[r].from THEN op[r].amount ELSE 0)
    BY <1>1, <1>3 DEF Commit, Moved
  <2>3. QED  BY <1>2, <2>1, <2>2
<1>4. ASSUME NEW r \in Reqs, CommitTransaction(r) \/ CommitEnvelopeMove(r) \/ CloseEnvelope(r)
      PROVE  status'[g] = status[g] /\ funds'[g] <= funds[g]
  <2>1. Commit(r) /\ WellFormed(op[r])
    BY <1>4 DEF CommitTransaction, CommitEnvelopeMove, CloseEnvelope, LedgerInv
  <2>2. op[r].to # g
    BY <1>1, <1>4, <2>1, LedgerAssumption
       DEF CommitTransaction, CommitEnvelopeMove, CloseEnvelope, WellFormed, SpendKinds
  <2>3. status'[g] = status[g]
    BY <1>1, <1>4, <2>1
       DEF CommitTransaction, CommitEnvelopeMove, CloseEnvelope, WellFormed, LedgerTypeOK
  <2>4. QED  BY <1>3, <2>1, <2>2, <2>3
<1>5. ASSUME NEW r \in Reqs, CommitGoalMove(r), Goal(r) # g
      PROVE  status'[g] = status[g] /\ funds'[g] <= funds[g]
  <2>1. Commit(r) /\ WellFormed(op[r]) /\ op[r].kind \in GoalKinds
    BY <1>5 DEF CommitGoalMove, LedgerInv
  <2>2. op[r].to # g
    BY <1>1, <1>5, <2>1 DEF WellFormed, GoalKinds, Goal
  <2>3. status'[g] = status[g]
    BY <1>1, <1>5 DEF CommitGoalMove, LedgerTypeOK
  <2>4. QED  BY <1>3, <2>1, <2>2, <2>3
<1>6. CASE \E r \in Reqs : \/ CommitTransaction(r) \/ CommitEnvelopeMove(r)
                          \/ CloseEnvelope(r) \/ CommitGoalMove(r)
  BY <1>4, <1>5, <1>6
<1>7. CASE \E h \in Goals : CreateGoal(h)
  <2>1. PICK h \in Goals : CreateGoal(h)
    BY <1>7
  <2>2. funds' = funds /\ (h # g => status'[g] = status[g])
    BY <1>1, <2>1 DEF CreateGoal, LedgerTypeOK
  <2>3. QED  BY <1>2, <2>1, <2>2
<1>8. CASE /\ ~(\E r \in Reqs : \/ CommitTransaction(r) \/ CommitEnvelopeMove(r)
                               \/ CloseEnvelope(r) \/ CommitGoalMove(r))
           /\ ~(\E h \in Goals : CreateGoal(h))
  <2>1. funds' = funds /\ status'[g] = status[g]
    BY <1>1, <1>8, LimitsTouchNoMoney
       DEF WalletNext, WalletDone, WalletStep, EnvelopesOrGoals, TransactionsStep,
           EnvelopesStep, GoalsStep, LockForLimits, CheckLimits, DebitFunding,
           CreditRecipient, Record, ReadEnvelope, DebitForEnvelope,
           CreditForEnvelope, ReadGoal, DebitForGoal, CreditForGoal,
           LockGoalForCancel, Debit, Credit, Reject, BeginTransaction, BeginWithdraw,
           BeginTransfer, BeginDeposit, BeginEnvelope, BeginAllocate, BeginRelease,
           BeginCancelEnvelope, BeginGoal, BeginContribute, BeginReleaseGoal,
           BeginCancelGoal, Begin, AbortTransaction, Abort, Midnight,
           CreateEnvelope, transactionsVars, LedgerTypeOK
  <2>2. QED  BY <1>2, <2>1
<1>9. QED
  BY <1>6, <1>7, <1>8

(***************************************************************************)
(* A goal that is still open to contributions has not reached its target.  *)
(***************************************************************************)
UnderTarget ==
    \A g \in Goals : status[g] \in {"ABSENT", "ACTIVE"} => funds[g] < Target[g]

LEMMA NextKeepsUnderTarget ==
    ASSUME LedgerInv, HoldersInv, UnderTarget, [WalletNext \/ WalletDone]_transactionsVars
    PROVE  UnderTarget'
<1> SUFFICES ASSUME NEW g \in Goals, status'[g] \in {"ABSENT", "ACTIVE"}
             PROVE  funds'[g] < Target[g]
  BY DEF UnderTarget
<1>1. /\ LedgerTypeOK /\ LedgerInv' /\ g \in Holders /\ g \in Pots /\ g \notin Users
      /\ funds[g] \in Nat /\ funds'[g] \in Nat /\ Target[g] \in Nat
  BY LedgerAssumption, GoalsAssumption, NextKeepsLedger
     DEF LedgerInv, LedgerTypeOK, Holders, Pots
<1>2. CASE UNCHANGED transactionsVars
  BY <1>2, LimitsTouchNoMoney DEF UnderTarget, transactionsVars
<1>3. CASE CreateGoal(g)
  BY <1>3 DEF CreateGoal, UnderTarget
<1>4. CASE status'[g] = status[g] /\ funds'[g] <= funds[g]
  BY <1>1, <1>4 DEF UnderTarget
<1>5. ASSUME NEW r \in Reqs, CommitGoalMove(r), Goal(r) = g
      PROVE  funds'[g] < Target[g]
  <2>1. /\ WellFormed(op[r]) /\ op[r].kind \in GoalKinds /\ op[r].amount \in Nat
        /\ funds' = Moved(op[r]) /\ status'[g] = StatusAfter(r)
    BY <1>1, <1>5 DEF CommitGoalMove, Commit, LedgerInv, LedgerTypeOK, Ops
  <2>2. op[r].kind # "cancelGoal"
    BY <2>1 DEF StatusAfter
  <2>3. CASE op[r].kind = "contribute"
    <3>1. ~(Moved(op[r])[g] >= Target[g])
      BY <1>5, <2>1, <2>3 DEF StatusAfter
    <3>2. QED  BY <1>1, <2>1, <3>1
  <2>4. CASE op[r].kind = "releaseGoal"
    <3>1. status[g] = status'[g] /\ op[r].from = g /\ op[r].to # g
      BY <1>1, <1>5, <2>1, <2>4 DEF StatusAfter, Goal, WellFormed
    <3>2. funds'[g] = funds[g] + 0 - op[r].amount
      BY <1>1, <2>1, <3>1 DEF Moved
    <3>3. QED  BY <1>1, <2>1, <3>1, <3>2 DEF UnderTarget
  <2>5. QED  BY <2>1, <2>2, <2>3, <2>4 DEF GoalKinds
<1>6. QED
  BY <1>2, <1>3, <1>4, <1>5, OnlyItsRequestsChangeAGoal

(***************************************************************************)
(* Reaching the target completes a goal, and nothing undoes it: the        *)
(* invariant says that an open goal is under its target, and the lock of a *)
(* cancellation (ReturnsAll) keeps the goal active until it commits.       *)
(***************************************************************************)
THEOREM TargetsCompleteForGood == WalletSpec => TargetCompletesForGood
<1> DEFINE Kept == \A g \in Goals :
               /\ status[g] = "COMPLETED" => status'[g] = "COMPLETED"
               /\ status'[g] = "ACTIVE" => funds'[g] < Target[g]
<1>1. WalletInit => UnderTarget
  BY GoalsAssumption DEF WalletInit, TransactionsInit, LedgerInit, UnderTarget
<1>2. LedgerInv /\ HoldersInv /\ UnderTarget /\ [WalletNext \/ WalletDone]_transactionsVars
      => UnderTarget'
  BY NextKeepsUnderTarget
<1>3. LedgerInv /\ HoldersInv /\ UnderTarget' /\ [WalletNext \/ WalletDone]_transactionsVars
      => [Kept]_ledgerVars
  <2> SUFFICES ASSUME LedgerInv, HoldersInv, WalletNext \/ WalletDone,
                      NEW g \in Goals, status[g] = "COMPLETED"
               PROVE  status'[g] = "COMPLETED"
    BY DEF UnderTarget, transactionsVars
  <2>1. CASE CreateGoal(g)
    BY <2>1 DEF CreateGoal
  <2>2. ASSUME NEW r \in Reqs, CommitGoalMove(r), Goal(r) = g
        PROVE  status'[g] = "COMPLETED"
    <3>1. status'[g] = StatusAfter(r) /\ op[r].kind \in GoalKinds /\ pc[r] = "commit"
      BY <2>2 DEF CommitGoalMove, Commit, LedgerInv, LedgerTypeOK, Holders
    <3>2. op[r].kind # "cancelGoal"
      BY <2>2, <3>1 DEF HoldersInv, ReturnsAll, Goal
    <3>3. QED  BY <2>2, <3>1, <3>2 DEF StatusAfter
  <2>3. QED
    BY <2>1, <2>2, OnlyItsRequestsChangeAGoal
<1>4. QED
  BY <1>1, <1>2, <1>3, HoldersAreSafe, PTL DEF WalletSpec, TargetCompletesForGood

(***************************************************************************)
(* A step of the services is a COMMIT, or it touches neither the money nor *)
(* the requests that have been carried out.                                *)
(***************************************************************************)
Quiet ==
    /\ funds' = funds
    /\ \A q \in Reqs : /\ pc'[q] = "ok" <=> pc[q] = "ok"
                       /\ pc[q] = "ok" => op'[q] = op[q]

LEMMA StepCommitsOrIsQuiet ==
    ASSUME LedgerInv, [WalletNext \/ WalletDone]_transactionsVars
    PROVE  Quiet \/ \E r \in Reqs : Commit(r)
<1>1. LedgerTypeOK
  BY DEF LedgerInv
<1> SUFFICES ASSUME \A r \in Reqs : ~Commit(r)
             PROVE  Quiet
  OBVIOUS
<1>2. funds' = funds
  BY LimitsTouchNoMoney
     DEF WalletNext, WalletDone, WalletStep, EnvelopesOrGoals, TransactionsStep,
         EnvelopesStep, GoalsStep, LockForLimits, CheckLimits, DebitFunding,
         CreditRecipient, Record, CommitTransaction, ReadEnvelope, DebitForEnvelope,
         CreditForEnvelope, CommitEnvelopeMove, CloseEnvelope, ReadGoal, DebitForGoal,
         CreditForGoal, LockGoalForCancel, CommitGoalMove, Debit, Credit, Reject,
         BeginTransaction, BeginWithdraw, BeginTransfer, BeginDeposit, BeginEnvelope,
         BeginAllocate, BeginRelease, BeginCancelEnvelope, BeginGoal, BeginContribute,
         BeginReleaseGoal, BeginCancelGoal, Begin, AbortTransaction, Abort, Midnight, CreateEnvelope, CreateGoal, transactionsVars
<1>3. ASSUME NEW q \in Reqs, pc[q] = "ok"
      PROVE  pc'[q] = "ok" /\ op'[q] = op[q]
  BY <1>1, <1>3, LimitsTouchNoMoney
     DEF WalletNext, WalletDone, WalletStep, EnvelopesOrGoals, TransactionsStep,
         EnvelopesStep, GoalsStep, LockForLimits, CheckLimits, DebitFunding,
         CreditRecipient, Record, CommitTransaction, ReadEnvelope, DebitForEnvelope,
         CreditForEnvelope, CommitEnvelopeMove, CloseEnvelope, ReadGoal, DebitForGoal,
         CreditForGoal, LockGoalForCancel, CommitGoalMove, Debit, Credit, Reject,
         BeginTransaction, BeginWithdraw, BeginTransfer, BeginDeposit, BeginEnvelope,
         BeginAllocate, BeginRelease, BeginCancelEnvelope, BeginGoal, BeginContribute,
         BeginReleaseGoal, BeginCancelGoal, Begin, AbortTransaction, Abort, Running, Steps,
         Midnight, CreateEnvelope, CreateGoal, transactionsVars, Goto, LedgerTypeOK
<1>4. QED
  BY <1>2, <1>3, OnlyCommitAnswers DEF Quiet

(***************************************************************************)
(* A COMMIT answers its request and leaves what the others have moved.     *)
(***************************************************************************)
LEMMA CommitAnswers ==
    ASSUME LedgerInv, NEW r \in Reqs, Commit(r)
    PROVE  /\ op' = op /\ pc[r] # "ok" /\ pc' = [pc EXCEPT ![r] = "ok"]
           /\ op[r] \in Ops /\ pc \in [Reqs -> {"new"} \cup Steps \cup Answers]
  BY DEF LedgerInv, LedgerTypeOK, Commit, Goto

(***************************************************************************)
(* Every behaviour of the services is a behaviour of Bank: each COMMIT is  *)
(* one indivisible move that the row could pay for, and nothing else moves *)
(* money.                                                                  *)
(***************************************************************************)
THEOREM ServicesImplementBank == WalletSpec => MovesAreAtomic
<1>1. WalletInit => Atomic!Init
  BY DEF WalletInit, TransactionsInit, LedgerInit, Atomic!Init, Settled
<1>2. LedgerInv /\ [WalletNext \/ WalletDone]_transactionsVars => [Atomic!Next]_(Atomic!vars)
  <2> SUFFICES ASSUME LedgerInv, [WalletNext \/ WalletDone]_transactionsVars
               PROVE  [Atomic!Next]_(Atomic!vars)
    OBVIOUS
  <2>1. CASE Quiet
    <3>1. Settled' = Settled
      BY <2>1 DEF Quiet, Settled
    <3>2. QED  BY <2>1, <3>1 DEF Quiet, Atomic!vars
  <2>2. ASSUME NEW r \in Reqs, Commit(r)
        PROVE  Atomic!Next
    <3> DEFINE m == [from |-> op[r].from, to |-> op[r].to, amount |-> op[r].amount]
    <3>1. /\ op' = op /\ pc[r] # "ok" /\ pc' = [pc EXCEPT ![r] = "ok"]
          /\ op[r] \in Ops /\ pc \in [Reqs -> {"new"} \cup Steps \cup Answers]
      BY <2>2, CommitAnswers
    <3>2. Settled[r] = NoMove /\ Settled' = [Settled EXCEPT ![r] = m]
      BY <3>1 DEF Settled
    <3>3. Settled'[r] = m
      BY <3>2 DEF Settled
    <3>4. m \in Atomic!Moves
      BY <3>1 DEF Ops, Atomic!Moves
    <3>5. m.from \in Pots => funds[m.from] >= m.amount
      <4>1. CASE op[r].amount > 0
        BY <2>2, <4>1 DEF LedgerInv, DebitSecured, Covers, Commit
      <4>2. CASE op[r].amount = 0
        BY <4>2 DEF LedgerInv, LedgerTypeOK
      <4>3. QED  BY <3>1, <4>1, <4>2 DEF Ops
    <3>6. funds' = [p \in Pots |-> funds[p] + (IF p = m.to THEN m.amount ELSE 0)
                                            - (IF p = m.from THEN m.amount ELSE 0)]
      BY <2>2 DEF Commit, Moved
    <3>7. Atomic!Settle(r, m)
      BY <3>2, <3>4, <3>5, <3>6 DEF Atomic!Settle
    <3>8. QED  BY <3>3, <3>7 DEF Atomic!Next
  <2>3. QED
    BY <2>1, <2>2, StepCommitsOrIsQuiet
<1>3. QED
  BY <1>1, <1>2, WalletIsSafe, PTL DEF WalletSpec, MovesAreAtomic, Atomic!Spec

(***************************************************************************)
(* Money leaves a row, and reaches an envelope or a goal, only by a        *)
(* request of the owner.                                                   *)
(***************************************************************************)
THEOREM MoneyLeavesByItsOwner == WalletSpec => OnlyOwnersMove
<1> DEFINE ByOwner == \A p \in Pots :
               funds'[p] < funds[p] \/ (p \in Holders /\ funds'[p] # funds[p]) =>
                  \E r \in Reqs : Commits(r) /\ op[r].user = OwnerOf(p)
<1>1. LedgerInv /\ HoldersInv /\ [WalletNext \/ WalletDone]_transactionsVars
      => [ByOwner]_ledgerVars
  <2> SUFFICES ASSUME LedgerInv, HoldersInv, [WalletNext \/ WalletDone]_transactionsVars,
                      NEW p \in Pots,
                      funds'[p] < funds[p] \/ (p \in Holders /\ funds'[p] # funds[p])
               PROVE  \E r \in Reqs : Commits(r) /\ op[r].user = OwnerOf(p)
    OBVIOUS
  <2>1. funds[p] \in Nat
    BY DEF LedgerInv, LedgerTypeOK
  <2>2. PICK r \in Reqs : Commit(r)
    BY <2>1, StepCommitsOrIsQuiet DEF Quiet
  <2>3. /\ pc[r] = "commit" /\ op[r] \in Ops /\ Commits(r)
        /\ WellFormed(op[r]) /\ UsesOwnRows(r)
    BY <2>2, CommitAnswers DEF Commit, Commits, LedgerInv, HoldersInv
  <2>4. funds'[p] = funds[p] + (IF p = op[r].to THEN op[r].amount ELSE 0)
                             - (IF p = op[r].from THEN op[r].amount ELSE 0)
    BY <2>2 DEF Commit, Moved
  <2>5. CASE p = op[r].from
    BY <2>3, <2>5 DEF UsesOwnRows
  <2>6. CASE p # op[r].from
    <3>1. p \in Holders /\ p = op[r].to /\ op[r].amount > 0
      BY <2>1, <2>3, <2>4, <2>6 DEF Ops
    <3>2. op[r].kind \in EnvKinds \cup GoalKinds
      BY <2>3, <3>1, LedgerAssumption DEF WellFormed, Ops, AllKinds, Pots
    <3>3. QED  BY <2>3, <3>1, <3>2 DEF UsesOwnRows
  <2>7. QED  BY <2>5, <2>6
<1>2. QED
  BY <1>1, HoldersAreSafe, PTL DEF WalletSpec, OnlyOwnersMove

(***************************************************************************)
(* The requests that have moved money are finitely many, however many can  *)
(* arrive: what has been paid and received are sums.                       *)
(***************************************************************************)
Acknowledged == {r \in Reqs : pc[r] = "ok"}

BooksInv == IsFiniteSet(Acknowledged) /\ BooksBalance

Amount == [r \in Reqs |-> op[r].amount]

\* What a finite set of requests has moved is a number, and one more request
\* adds its amount.
LEMMA AmountsAddUp ==
    ASSUME LedgerTypeOK, NEW S \in SUBSET Reqs, IsFiniteSet(S)
    PROVE  /\ SumFunctionOnSet(Amount, S) \in Int
           /\ \A r \in Reqs \ S :
                 SumFunctionOnSet(Amount, S \cup {r}) =
                 SumFunctionOnSet(Amount, S) + op[r].amount
<1>1. \A r \in Reqs : Amount[r] = op[r].amount /\ Amount[r] \in Int
  BY DEF LedgerTypeOK, Ops, Amount
<1>2. SumFunctionOnSet(Amount, S) \in Int
  BY <1>1, SumType
<1>3. ASSUME NEW r \in Reqs \ S
      PROVE  SumFunctionOnSet(Amount, S \cup {r}) =
             SumFunctionOnSet(Amount, S) + op[r].amount
  <2>1. \A q \in S \cup {r} : Amount[q] \in Int
    BY <1>1
  <2>2. SumFunctionOnSet(Amount, S \cup {r}) = SumFunctionOnSet(Amount, S) + Amount[r]
    BY <2>1, SumWith
  <2>3. QED  BY <1>1, <2>2
<1>4. QED  BY <1>2, <1>3

LEMMA CommitKeepsBooks ==
    ASSUME LedgerInv, BooksInv, NEW r \in Reqs, Commit(r)
    PROVE  BooksInv'
<1>1. /\ op' = op /\ pc[r] # "ok" /\ pc' = [pc EXCEPT ![r] = "ok"]
      /\ op[r] \in Ops /\ pc \in [Reqs -> {"new"} \cup Steps \cup Answers]
  BY CommitAnswers
<1>2. Acknowledged' = Acknowledged \cup {r} /\ Amount' = Amount
  BY <1>1 DEF Acknowledged, Amount
<1>3. IsFiniteSet(Acknowledged) /\ IsFiniteSet(Acknowledged')
  BY <1>2, FS_AddElement DEF BooksInv
<1>4. ASSUME NEW p \in Pots
      PROVE  (funds[p] = Opening[p] + Total(Received(p)) - Total(Paid(p)))'
  <2>1. /\ IsFiniteSet(Received(p)) /\ IsFiniteSet(Paid(p))
        /\ Received(p) \in SUBSET Reqs /\ Paid(p) \in SUBSET Reqs
        /\ r \notin Received(p) /\ r \notin Paid(p)
    <3>1. Received(p) \subseteq Acknowledged /\ Paid(p) \subseteq Acknowledged
      BY DEF Received, Paid, Acknowledged
    <3>2. QED
      BY <1>1, <1>3, <3>1, FS_Subset DEF Acknowledged
  <2>2. /\ Received(p)' = IF op[r].to = p THEN Received(p) \cup {r} ELSE Received(p)
        /\ Paid(p)' = IF op[r].from = p THEN Paid(p) \cup {r} ELSE Paid(p)
    BY <1>1 DEF Received, Paid
  <2>3. /\ Total(Received(p)) = SumFunctionOnSet(Amount, Received(p))
        /\ Total(Paid(p)) = SumFunctionOnSet(Amount, Paid(p))
        /\ Total(Received(p))' = SumFunctionOnSet(Amount, Received(p)')
        /\ Total(Paid(p))' = SumFunctionOnSet(Amount, Paid(p)')
    BY <1>2 DEF Total, Amount
  <2>4. LedgerTypeOK /\ op[r].amount \in Int /\ Opening[p] \in Int
    BY <1>1, LedgerAssumption DEF LedgerInv, Ops
  <2>5. /\ Total(Received(p)) \in Int
        /\ Total(Received(p))' = Total(Received(p)) +
                                 (IF p = op[r].to THEN op[r].amount ELSE 0)
    BY <2>1, <2>2, <2>3, <2>4, AmountsAddUp
  <2>6. /\ Total(Paid(p)) \in Int
        /\ Total(Paid(p))' = Total(Paid(p)) +
                             (IF p = op[r].from THEN op[r].amount ELSE 0)
    BY <2>1, <2>2, <2>3, <2>4, AmountsAddUp
  <2>7. funds[p] = Opening[p] + Total(Received(p)) - Total(Paid(p))
    BY DEF BooksInv, BooksBalance
  <2>8. funds'[p] = funds[p] + (IF p = op[r].to THEN op[r].amount ELSE 0)
                             - (IF p = op[r].from THEN op[r].amount ELSE 0)
    BY DEF Commit, Moved
  <2>9. QED  BY <2>4, <2>5, <2>6, <2>7, <2>8
<1>5. QED
  BY <1>3, <1>4 DEF BooksInv, BooksBalance

LEMMA QuietKeepsBooks ==
    ASSUME LedgerTypeOK, BooksInv, Quiet
    PROVE  BooksInv'
<1>1. Acknowledged' = Acknowledged
  BY DEF Quiet, Acknowledged
<1>2. ASSUME NEW p \in Pots
      PROVE  (funds[p] = Opening[p] + Total(Received(p)) - Total(Paid(p)))'
  <2>1. Received(p)' = Received(p) /\ Paid(p)' = Paid(p)
    BY DEF Quiet, Received, Paid
  <2>2. IsFiniteSet(Received(p)) /\ IsFiniteSet(Paid(p))
    <3>1. Received(p) \subseteq Acknowledged /\ Paid(p) \subseteq Acknowledged
      BY DEF Received, Paid, Acknowledged
    <3>2. QED  BY <3>1, FS_Subset DEF BooksInv
  <2>3. \A q \in Received(p) \cup Paid(p) : Amount[q] = Amount'[q]
    BY DEF Quiet, Received, Paid, Amount
  <2>4. /\ Total(Received(p)) = SumFunctionOnSet(Amount, Received(p))
        /\ Total(Paid(p)) = SumFunctionOnSet(Amount, Paid(p))
        /\ Total(Received(p))' = SumFunctionOnSet(Amount', Received(p)')
        /\ Total(Paid(p))' = SumFunctionOnSet(Amount', Paid(p)')
    BY DEF Total, Amount
  <2>5. Total(Received(p))' = Total(Received(p)) /\ Total(Paid(p))' = Total(Paid(p))
    BY <2>1, <2>2, <2>3, <2>4, SumOfSameValues
  <2>6. QED  BY <2>5 DEF Quiet, BooksInv, BooksBalance
<1>3. QED
  BY <1>1, <1>2 DEF BooksInv, BooksBalance

(***************************************************************************)
(* Every wallet, envelope and goal holds its opening balance, plus what    *)
(* the acknowledged requests put in, minus what they took out, whatever    *)
(* the interleaving of the statements of the services.                     *)
(***************************************************************************)
THEOREM BooksAlwaysBalance == WalletSpec => []BooksBalance
<1>1. WalletInit => BooksInv
  <2> SUFFICES ASSUME WalletInit PROVE BooksInv
    OBVIOUS
  <2>1. pc = [r \in Reqs |-> "new"] /\ funds = Opening
    BY DEF WalletInit, TransactionsInit, LedgerInit
  <2>2. Acknowledged = {} /\ \A p \in Pots : Received(p) = {} /\ Paid(p) = {}
    BY <2>1 DEF Acknowledged, Received, Paid
  <2>3. \A p \in Pots : Total(Received(p)) = 0 /\ Total(Paid(p)) = 0
    BY <2>2, SumOfNone DEF Total
  <2>4. \A p \in Pots : Opening[p] \in Int
    BY LedgerAssumption
  <2>5. QED
    BY <2>1, <2>2, <2>3, <2>4, FS_EmptySet DEF BooksInv, BooksBalance
<1>2. LedgerInv /\ BooksInv /\ [WalletNext \/ WalletDone]_transactionsVars => BooksInv'
  BY StepCommitsOrIsQuiet, CommitKeepsBooks, QuietKeepsBooks DEF LedgerInv
<1>3. BooksInv => BooksBalance
  BY DEF BooksInv
<1>4. QED
  BY <1>1, <1>2, <1>3, WalletIsSafe, PTL DEF WalletSpec

(***************************************************************************)
(* A COMMIT moves its amount into the row of the credit and out of the row *)
(* of the debit, if they are among the rows that are added up.             *)
(***************************************************************************)
LEMMA CommitMovesSum ==
    ASSUME LedgerTypeOK, NEW r \in Reqs, op[r] \in Ops, Commit(r),
           NEW S \in SUBSET Pots, IsFiniteSet(S)
    PROVE  /\ SumFunctionOnSet(funds, S) \in Int
           /\ SumFunctionOnSet(funds', S) =
              SumFunctionOnSet(funds, S) + (IF op[r].to \in S THEN op[r].amount ELSE 0)
                                         - (IF op[r].from \in S THEN op[r].amount ELSE 0)
<1>1. /\ op[r].amount \in Int
      /\ \A p \in S : funds[p] \in Int
  BY DEF LedgerTypeOK, Ops
<1>2. AmountMoves(funds, funds', S, op[r].to, op[r].from, op[r].amount)
  BY DEF Commit, Moved, AmountMoves
<1>3. QED  BY <1>1, <1>2, SumMoves

ConservedInv == IsFiniteSet(Acknowledged) /\ MoneyIsConserved

LEMMA CommitKeepsConserved ==
    ASSUME LedgerInv, ConservedInv, NEW r \in Reqs, Commit(r)
    PROVE  ConservedInv'
<1>1. /\ op' = op /\ pc[r] # "ok" /\ pc' = [pc EXCEPT ![r] = "ok"]
      /\ op[r] \in Ops /\ pc \in [Reqs -> {"new"} \cup Steps \cup Answers]
      /\ LedgerTypeOK
  BY CommitAnswers DEF LedgerInv
<1>2. Acknowledged' = Acknowledged \cup {r} /\ Amount' = Amount
  BY <1>1 DEF Acknowledged, Amount
<1>3. IsFiniteSet(Acknowledged) /\ IsFiniteSet(Acknowledged')
  BY <1>2, FS_AddElement DEF ConservedInv
<1>4. ASSUME NEW S \in SUBSET Pots, IsFiniteSet(S)
      PROVE  (SumFunctionOnSet(funds, S) =
              SumFunctionOnSet(Opening, S) + Total(Into(S)) - Total(OutOf(S)))'
  <2>1. /\ IsFiniteSet(Into(S)) /\ IsFiniteSet(OutOf(S))
        /\ Into(S) \in SUBSET Reqs /\ OutOf(S) \in SUBSET Reqs
        /\ r \notin Into(S) /\ r \notin OutOf(S)
    <3>1. Into(S) \subseteq Acknowledged /\ OutOf(S) \subseteq Acknowledged
      BY DEF Into, OutOf, Acknowledged
    <3>2. QED
      BY <1>1, <1>3, <3>1, FS_Subset DEF Acknowledged
  <2>2. /\ Into(S)' = IF op[r].to \in S /\ op[r].from \notin S
                      THEN Into(S) \cup {r} ELSE Into(S)
        /\ OutOf(S)' = IF op[r].from \in S /\ op[r].to \notin S
                       THEN OutOf(S) \cup {r} ELSE OutOf(S)
    BY <1>1 DEF Into, OutOf
  <2>3. /\ Total(Into(S)) = SumFunctionOnSet(Amount, Into(S))
        /\ Total(OutOf(S)) = SumFunctionOnSet(Amount, OutOf(S))
        /\ Total(Into(S))' = SumFunctionOnSet(Amount, Into(S)')
        /\ Total(OutOf(S))' = SumFunctionOnSet(Amount, OutOf(S)')
    BY <1>2 DEF Total, Amount
  <2>4. op[r].amount \in Int
    BY <1>1 DEF Ops
  <2>5. /\ Total(Into(S)) \in Int
        /\ Total(Into(S))' = Total(Into(S)) +
              (IF op[r].to \in S /\ op[r].from \notin S THEN op[r].amount ELSE 0)
    BY <1>1, <2>1, <2>2, <2>3, <2>4, AmountsAddUp
  <2>6. /\ Total(OutOf(S)) \in Int
        /\ Total(OutOf(S))' = Total(OutOf(S)) +
              (IF op[r].from \in S /\ op[r].to \notin S THEN op[r].amount ELSE 0)
    BY <1>1, <2>1, <2>2, <2>3, <2>4, AmountsAddUp
  <2>7. SumFunctionOnSet(funds, S) =
        SumFunctionOnSet(Opening, S) + Total(Into(S)) - Total(OutOf(S))
    BY <1>4 DEF ConservedInv, MoneyIsConserved
  <2>8. /\ SumFunctionOnSet(funds, S) \in Int
        /\ SumFunctionOnSet(funds', S) =
           SumFunctionOnSet(funds, S) + (IF op[r].to \in S THEN op[r].amount ELSE 0)
                                      - (IF op[r].from \in S THEN op[r].amount ELSE 0)
    BY <1>1, <1>4, CommitMovesSum
  <2>9. SumFunctionOnSet(Opening, S) \in Int
    <3>1. \A p \in S : Opening[p] \in Int
      BY LedgerAssumption
    <3>2. QED  BY <1>4, <3>1, SumType
  <2>10. SumFunctionOnSet(funds', S) =
         SumFunctionOnSet(Opening, S) + Total(Into(S))' - Total(OutOf(S))'
    BY <2>4, <2>5, <2>6, <2>7, <2>8, <2>9
  <2>11. QED  BY <2>10
<1>5. QED
  BY <1>3, <1>4 DEF ConservedInv, MoneyIsConserved

LEMMA QuietKeepsConserved ==
    ASSUME LedgerTypeOK, ConservedInv, Quiet
    PROVE  ConservedInv'
<1>1. Acknowledged' = Acknowledged /\ funds' = funds
  BY DEF Quiet, Acknowledged
<1>2. ASSUME NEW S
      PROVE  Total(Into(S))' = Total(Into(S)) /\ Total(OutOf(S))' = Total(OutOf(S))
  <2>1. Into(S)' = Into(S) /\ OutOf(S)' = OutOf(S)
    BY DEF Quiet, Into, OutOf
  <2>2. IsFiniteSet(Into(S)) /\ IsFiniteSet(OutOf(S))
    <3>1. Into(S) \subseteq Acknowledged /\ OutOf(S) \subseteq Acknowledged
      BY DEF Into, OutOf, Acknowledged
    <3>2. QED  BY <3>1, FS_Subset DEF ConservedInv
  <2>3. \A q \in Into(S) \cup OutOf(S) : Amount[q] = Amount'[q]
    BY DEF Quiet, Into, OutOf, Amount
  <2>4. /\ Total(Into(S)) = SumFunctionOnSet(Amount, Into(S))
        /\ Total(OutOf(S)) = SumFunctionOnSet(Amount, OutOf(S))
        /\ Total(Into(S))' = SumFunctionOnSet(Amount', Into(S)')
        /\ Total(OutOf(S))' = SumFunctionOnSet(Amount', OutOf(S)')
    BY DEF Total, Amount
  <2>5. QED  BY <2>1, <2>2, <2>3, <2>4, SumOfSameValues
<1>3. QED
  BY <1>1, <1>2 DEF ConservedInv, MoneyIsConserved

(***************************************************************************)
(* No money is made or lost by the services: any finite set of rows holds  *)
(* what it held at the start, plus what came in, minus what went out; what *)
(* moves inside it changes nothing (transferInTx, moveFunds, cancel).      *)
(***************************************************************************)
THEOREM MoneyIsNeverMade == WalletSpec => []MoneyIsConserved
<1>1. WalletInit => ConservedInv
  <2> SUFFICES ASSUME WalletInit PROVE ConservedInv
    OBVIOUS
  <2>1. pc = [r \in Reqs |-> "new"] /\ funds = Opening
    BY DEF WalletInit, TransactionsInit, LedgerInit
  <2>2. Acknowledged = {} /\ \A S : Into(S) = {} /\ OutOf(S) = {}
    BY <2>1 DEF Acknowledged, Into, OutOf
  <2>3. \A S : Total(Into(S)) = 0 /\ Total(OutOf(S)) = 0
    BY <2>2, SumOfNone DEF Total
  <2>4. \A S \in SUBSET Pots : IsFiniteSet(S) => SumFunctionOnSet(Opening, S) \in Int
    <3>1. \A p \in Pots : Opening[p] \in Int
      BY LedgerAssumption
    <3>2. QED  BY <3>1, SumType
  <2>5. QED
    BY <2>1, <2>2, <2>3, <2>4, FS_EmptySet DEF ConservedInv, MoneyIsConserved
<1>2. LedgerInv /\ ConservedInv /\ [WalletNext \/ WalletDone]_transactionsVars
      => ConservedInv'
  BY StepCommitsOrIsQuiet, CommitKeepsConserved, QuietKeepsConserved DEF LedgerInv
<1>3. ConservedInv => MoneyIsConserved
  BY DEF ConservedInv
<1>4. QED
  BY <1>1, <1>2, <1>3, WalletIsSafe, PTL DEF WalletSpec

(***************************************************************************)
(* Users become poorer only by what they spend, and richer only by         *)
(* deposits and transfers to their wallets: the operations of envelopes    *)
(* and goals leave everybody as rich as before (moveFunds, cancel).        *)
(***************************************************************************)
THEOREM SettingAsideKeepsWealth == WalletSpec => WealthIsMovedBySpends
<1> DEFINE Spends == \A u \in Users : IsFiniteSet(RowsOf(u)) =>
             /\ Wealth(u)' < Wealth(u) =>
                   \E r \in Reqs : Commits(r) /\ op[r].user = u /\ op[r].kind \in SpendKinds
             /\ Wealth(u)' > Wealth(u) =>
                   \E r \in Reqs : Commits(r) /\ op[r].to = u
                                    /\ op[r].kind \in {"transfer", "deposit"}
<1>1. LedgerInv /\ HoldersInv /\ [WalletNext \/ WalletDone]_transactionsVars
      => [Spends]_ledgerVars
  <2> SUFFICES ASSUME LedgerInv, HoldersInv, [WalletNext \/ WalletDone]_transactionsVars,
                      NEW u \in Users, IsFiniteSet(RowsOf(u))
               PROVE  /\ Wealth(u)' < Wealth(u) =>
                            \E r \in Reqs : Commits(r) /\ op[r].user = u
                                             /\ op[r].kind \in SpendKinds
                      /\ Wealth(u)' > Wealth(u) =>
                            \E r \in Reqs : Commits(r) /\ op[r].to = u
                                             /\ op[r].kind \in {"transfer", "deposit"}
    OBVIOUS
  <2> DEFINE S == RowsOf(u)
  <2>1. LedgerTypeOK /\ S \in SUBSET Pots /\ IsFiniteSet(S)
    BY DEF LedgerInv, RowsOf
  <2>2. CASE funds' = funds
    <3>1. Wealth(u)' = Wealth(u) /\ Wealth(u) \in Int
      <4>1. \A p \in S : funds[p] \in Int
        BY <2>1 DEF LedgerTypeOK
      <4>2. QED  BY <2>1, <2>2, <4>1, SumType DEF Wealth, RowsOf, OwnerOf
    <3>2. QED  BY <3>1
  <2>3. CASE funds' # funds
    <3>1. PICK r \in Reqs : Commit(r)
      BY <2>3, StepCommitsOrIsQuiet DEF Quiet
    <3>2. /\ pc[r] = "commit" /\ op[r] \in Ops /\ Commits(r)
          /\ WellFormed(op[r]) /\ UsesOwnRows(r)
      BY <3>1, CommitAnswers DEF Commit, Commits, LedgerInv, HoldersInv
    <3> DEFINE o == op[r]
    <3>3. /\ Wealth(u) \in Int
          /\ Wealth(u)' = Wealth(u) + (IF o.to \in S THEN o.amount ELSE 0)
                                    - (IF o.from \in S THEN o.amount ELSE 0)
      <4>1. Wealth(u) = SumFunctionOnSet(funds, S) /\ Wealth(u)' = SumFunctionOnSet(funds', S)
        BY DEF Wealth, RowsOf, OwnerOf
      <4>2. QED  BY <2>1, <3>1, <3>2, <4>1, CommitMovesSum
    <3>4. o.amount \in Nat /\ NoPot \notin S /\ NoPot \notin Pots
      BY <2>1, <3>2, LedgerAssumption DEF Ops
    <3>5. \/ o.amount = 0
          \/ o.kind \in SpendKinds \cup {"deposit"}
          \/ o.from \in S <=> o.to \in S
      BY <3>2, <3>4
         DEF WellFormed, UsesOwnRows, RowsOf, Ops, AllKinds, EnvKinds, GoalKinds, Pots, Holders
    <3>6. CASE Wealth(u)' < Wealth(u)
      <4>1. o.from \in S /\ o.to \notin S /\ o.amount > 0
        BY <3>3, <3>4, <3>6
      <4>2. o.user = u
        BY <3>2, <4>1 DEF UsesOwnRows, RowsOf
      <4>3. o.kind \in SpendKinds
        BY <3>2, <3>4, <3>5, <4>1 DEF WellFormed
      <4>4. ~(Wealth(u)' > Wealth(u))
        BY <3>3, <3>4, <3>6
      <4>5. QED  BY <3>2, <4>2, <4>3, <4>4, Zenon
    <3>7. CASE Wealth(u)' > Wealth(u)
      <4>1. o.to \in S /\ o.from \notin S /\ o.amount > 0
        BY <3>3, <3>4, <3>7
      <4>2. o.kind \in {"transfer", "deposit"}
        BY <3>2, <3>4, <3>5, <4>1 DEF WellFormed, SpendKinds
      <4>3. o.to \in Users
        BY <3>2, <3>4, <4>1, <4>2 DEF WellFormed, SpendKinds
      <4>4. o.to = u
        BY <4>1, <4>3 DEF RowsOf, OwnerOf
      <4>5. ~(Wealth(u)' < Wealth(u))
        BY <3>3, <3>4, <3>7
      <4>6. QED  BY <3>2, <4>2, <4>4, <4>5, Zenon
    <3>8. QED  BY <3>3, <3>6, <3>7
  <2>4. QED  BY <2>2, <2>3
<1>2. QED
  BY <1>1, HoldersAreSafe, PTL DEF WalletSpec, WealthIsMovedBySpends
=============================================================================
