---------------------------- MODULE WalletProofs ----------------------------
(***************************************************************************)
(* Safety of the money rows, when the spends, deposits, envelopes and      *)
(* goals of all users run concurrently, for every number of users,         *)
(* envelopes, goals and requests.  The first lemmas say that each          *)
(* statement of a money transaction preserves LedgerInv, whichever service *)
(* executes it; the others go through the actions of the services.  The    *)
(* last part is about the order in which requests take their locks.        *)
(***************************************************************************)
EXTENDS Wallet, TLAPS

(***************************************************************************)
(* The locks of the other transactions survive ReleaseAll(r) and Take.     *)
(***************************************************************************)
LEMMA ReleaseKeepsOthers ==
    ASSUME LocksTypeOK, NEW r \in Reqs, ReleaseAll(r)
    PROVE  /\ LocksTypeOK'
           /\ \A q \in Reqs \ {r}, x \in Rows : locks[x] = q => locks'[x] = q
  BY NoReqAssumption DEF ReleaseAll, LocksTypeOK

LEMMA TakeKeepsOthers ==
    ASSUME LocksTypeOK, NEW r \in Reqs, NEW x, Take(r, x)
    PROVE  /\ LocksTypeOK'
           /\ \A q \in Reqs, y \in Rows : locks[y] = q => locks'[y] = q
           /\ x \in Rows => locks'[x] = r
  BY NoReqAssumption DEF Take, Free, LocksTypeOK

(***************************************************************************)
(* A request arrives: it has neither debited nor credited anything yet.    *)
(***************************************************************************)
LEMMA BeginKeepsInv ==
    ASSUME LedgerInv, NEW r \in Reqs, NEW o \in Ops, WellFormed(o),
           NEW first \in {"limits", "read", "credit"}, first = "credit" => o.from = NoPot,
           Begin(r, o, first)
    PROVE  LedgerInv'
<1>1. op' \in [Reqs -> Ops] /\ pc' \in [Reqs -> {"new"} \cup Steps \cup Answers]
  BY DEF LedgerInv, LedgerTypeOK, Begin, Goto, Steps
<1>2. LedgerTypeOK'
  BY <1>1 DEF LedgerInv, LedgerTypeOK, LocksTypeOK, Begin
<1>3. ASSUME NEW q \in Reqs
      PROVE  (WellFormed(op[q]) /\ DebitSecured(q) /\ CreditSecured(q))'
  <2>1. CASE q = r
    BY <2>1, LedgerAssumption
       DEF LedgerInv, LedgerTypeOK, Begin, Goto, WellFormed, DebitSecured, CreditSecured
  <2>2. CASE q # r
    BY <2>2 DEF LedgerInv, LedgerTypeOK, Begin, Goto, WellFormed, DebitSecured,
                CreditSecured, Covers
  <2>3. QED  BY <2>1, <2>2
<1>4. QED  BY <1>2, <1>3 DEF LedgerInv

(***************************************************************************)
(* A transaction that ends without effect leaves the others their locks.   *)
(***************************************************************************)
LEMMA RollbackKeepsInv ==
    ASSUME LedgerInv, NEW r \in Reqs, NEW answer \in {"rejected", "aborted"},
           Goto(r, answer), ReleaseAll(r), UNCHANGED <<funds, status, op>>
    PROVE  LedgerInv'
<1>1. LocksTypeOK' /\ \A q \in Reqs \ {r}, x \in Rows : locks[x] = q => locks'[x] = q
  BY ReleaseKeepsOthers DEF LedgerInv, LedgerTypeOK
<1>2. LedgerTypeOK'
  BY <1>1 DEF LedgerInv, LedgerTypeOK, Goto, Answers
<1>3. ASSUME NEW q \in Reqs
      PROVE  (WellFormed(op[q]) /\ DebitSecured(q) /\ CreditSecured(q))'
  <2>1. CASE q = r
    BY <2>1 DEF LedgerInv, LedgerTypeOK, Goto, WellFormed, DebitSecured, CreditSecured
  <2>2. CASE q # r
    BY <1>1, <2>2, LedgerAssumption
       DEF LedgerInv, LedgerTypeOK, Goto, WellFormed, DebitSecured, CreditSecured, Covers
  <2>3. QED  BY <2>1, <2>2
<1>4. QED  BY <1>2, <1>3 DEF LedgerInv

LEMMA RejectKeepsInv ==
    ASSUME LedgerInv, NEW r \in Reqs, Reject(r)
    PROVE  LedgerInv'
  BY RollbackKeepsInv DEF Reject

LEMMA AbortKeepsInv ==
    ASSUME LedgerInv, NEW r \in Reqs, Abort(r)
    PROVE  LedgerInv'
  BY RollbackKeepsInv DEF Abort

(***************************************************************************)
(* A statement that moves the request on without touching any row.         *)
(***************************************************************************)
LEMMA GotoKeepsInv ==
    ASSUME LedgerInv, NEW r \in Reqs, NEW step \in {"usage", "debit"},
           Goto(r, step), UNCHANGED <<locks, funds, status, op>>
    PROVE  LedgerInv'
<1>1. LedgerTypeOK'
  BY DEF LedgerInv, LedgerTypeOK, LocksTypeOK, Goto, Steps
<1>2. ASSUME NEW q \in Reqs
      PROVE  (WellFormed(op[q]) /\ DebitSecured(q) /\ CreditSecured(q))'
  BY DEF LedgerInv, LedgerTypeOK, Goto, WellFormed, DebitSecured, CreditSecured, Covers
<1>3. QED  BY <1>1, <1>2 DEF LedgerInv

(***************************************************************************)
(* The debit: the row is locked and covers the amount, or nothing happens. *)
(***************************************************************************)
LEMMA DebitKeepsInv ==
    ASSUME LedgerInv, NEW r \in Reqs, NEW cond \in BOOLEAN,
           NEW next \in {"credit", "record"}, next = "record" => op[r].to = NoPot,
           Debit(r, cond, next)
    PROVE  LedgerInv'
<1>1. CASE Reject(r)
  BY <1>1, RejectKeepsInv
<1>2. CASE /\ Covers(op[r].from, op[r])
           /\ Take(r, op[r].from)
           /\ Goto(r, next)
           /\ UNCHANGED <<funds, status, op>>
  <2>1. /\ LocksTypeOK'
        /\ \A q \in Reqs, y \in Rows : locks[y] = q => locks'[y] = q
        /\ op[r].from \in Rows => locks'[op[r].from] = r
    BY <1>2, TakeKeepsOthers DEF LedgerInv, LedgerTypeOK
  <2>2. LedgerTypeOK'
    BY <1>2, <2>1 DEF LedgerInv, LedgerTypeOK, Goto, Steps
  <2>3. ASSUME NEW q \in Reqs
        PROVE  (WellFormed(op[q]) /\ DebitSecured(q) /\ CreditSecured(q))'
    <3>1. CASE q = r
      BY <1>2, <2>1, <3>1, LedgerAssumption
         DEF LedgerInv, LedgerTypeOK, Goto, WellFormed, DebitSecured, CreditSecured, Covers
    <3>2. CASE q # r
      BY <1>2, <2>1, <3>2, LedgerAssumption
         DEF LedgerInv, LedgerTypeOK, Goto, WellFormed, DebitSecured, CreditSecured, Covers
    <3>3. QED  BY <3>1, <3>2
  <2>4. QED  BY <2>2, <2>3 DEF LedgerInv
<1>3. QED  BY <1>1, <1>2 DEF Debit

(***************************************************************************)
(* The credit locks its row; the debit, if there was one, stays secured.   *)
(***************************************************************************)
LEMMA CreditKeepsInv ==
    ASSUME LedgerInv, NEW r \in Reqs, NEW next \in {"record", "commit"}, Credit(r, next)
    PROVE  LedgerInv'
<1>1. /\ LocksTypeOK'
      /\ \A q \in Reqs, y \in Rows : locks[y] = q => locks'[y] = q
      /\ op[r].to \in Rows => locks'[op[r].to] = r
  BY TakeKeepsOthers DEF LedgerInv, LedgerTypeOK, Credit
<1>2. LedgerTypeOK'
  BY <1>1 DEF LedgerInv, LedgerTypeOK, Credit, Goto, Steps
<1>3. ASSUME NEW q \in Reqs
      PROVE  (WellFormed(op[q]) /\ DebitSecured(q) /\ CreditSecured(q))'
  <2>1. CASE q = r
    BY <1>1, <2>1, LedgerAssumption
       DEF LedgerInv, LedgerTypeOK, Credit, Goto, WellFormed, DebitSecured, CreditSecured, Covers
  <2>2. CASE q # r
    BY <1>1, <2>2, LedgerAssumption
       DEF LedgerInv, LedgerTypeOK, Credit, Goto, WellFormed, DebitSecured, CreditSecured, Covers
  <2>3. QED  BY <2>1, <2>2
<1>4. QED  BY <1>2, <1>3 DEF LedgerInv

(***************************************************************************)
(* The commit takes no more from a row than the row holds, and a row that  *)
(* another transaction has debited is not the row it takes money from.     *)
(***************************************************************************)
LEMMA CommitKeepsInv ==
    ASSUME LedgerInv, NEW r \in Reqs, Commit(r), status' \in [Holders -> Statuses]
    PROVE  LedgerInv'
<1> DEFINE o == op[r]
<1>1. o \in Ops /\ pc[r] = "commit"
  BY DEF LedgerInv, LedgerTypeOK, Commit
<1>2. o.from \in Pots /\ o.amount > 0 => locks[o.from] = r /\ funds[o.from] >= o.amount
  BY <1>1 DEF LedgerInv, DebitSecured, Covers
<1>3. \A p \in Pots : /\ funds'[p] = funds[p] + (IF p = o.to THEN o.amount ELSE 0)
                                              - (IF p = o.from THEN o.amount ELSE 0)
                      /\ funds'[p] \in Nat
                      /\ (p # o.from \/ o.amount = 0) => funds'[p] >= funds[p]
  BY <1>1, <1>2 DEF LedgerInv, LedgerTypeOK, Commit, Moved, Ops
<1>4. funds' \in [Pots -> Nat]
  BY <1>3 DEF Commit, Moved
<1>5. LocksTypeOK' /\ \A q \in Reqs \ {r}, x \in Rows : locks[x] = q => locks'[x] = q
  BY ReleaseKeepsOthers DEF LedgerInv, LedgerTypeOK, Commit
<1>6. LedgerTypeOK'
  BY <1>4, <1>5 DEF LedgerInv, LedgerTypeOK, Commit, Goto, Answers
<1>7. ASSUME NEW q \in Reqs
      PROVE  (WellFormed(op[q]) /\ DebitSecured(q) /\ CreditSecured(q))'
  <2>1. CASE q = r
    BY <2>1 DEF LedgerInv, LedgerTypeOK, Commit, Goto, WellFormed, DebitSecured, CreditSecured
  <2>2. CASE q # r
    <3>1. pc'[q] = pc[q] /\ op'[q] = op[q] /\ op[q] \in Ops
      BY <2>2 DEF LedgerInv, LedgerTypeOK, Commit, Goto
    <3>2. WellFormed(op[q])' /\ CreditSecured(q)'
      BY <1>5, <2>2, <3>1, LedgerAssumption
         DEF LedgerInv, WellFormed, CreditSecured
    <3>3. DebitSecured(q)'
      <4> SUFFICES ASSUME pc[q] \in {"credit", "record", "commit"},
                          op[q].from \in Pots, op[q].amount > 0
                   PROVE  locks'[op[q].from] = q /\ funds'[op[q].from] >= op[q].amount
        BY <3>1 DEF DebitSecured, Covers
      <4>1. locks[op[q].from] = q /\ funds[op[q].from] >= op[q].amount
        BY DEF LedgerInv, DebitSecured, Covers
      <4>2. op[q].from # o.from \/ o.amount = 0
        BY <1>1, <1>2, <2>2, <4>1 DEF Ops
      <4>3. funds'[op[q].from] >= funds[op[q].from]
        BY <1>3, <4>2
      <4>4. funds[op[q].from] \in Nat /\ funds'[op[q].from] \in Nat /\ op[q].amount \in Nat
        BY <1>4, <3>1 DEF LedgerInv, LedgerTypeOK, Ops
      <4>5. QED
        BY <1>5, <2>2, <4>1, <4>3, <4>4, LedgerAssumption
    <3>4. QED  BY <3>2, <3>3
  <2>3. QED  BY <2>1, <2>2
<1>8. QED  BY <1>6, <1>7 DEF LedgerInv

(***************************************************************************)
(* The opening balances are safe.                                          *)
(***************************************************************************)
LEMMA InitIsSafe == LedgerInit => LedgerInv
<1> SUFFICES ASSUME LedgerInit PROVE LedgerInv
  OBVIOUS
<1>1. LedgerTypeOK
  BY LedgerAssumption DEF LedgerInit, LedgerTypeOK, LocksTypeOK, NoLocks, Ops, NoOp, Statuses
<1>2. ASSUME NEW q \in Reqs
      PROVE  WellFormed(op[q]) /\ DebitSecured(q) /\ CreditSecured(q)
  BY DEF LedgerInit, NoOp, WellFormed, DebitSecured, CreditSecured, SpendKinds
<1>3. QED  BY <1>1, <1>2 DEF LedgerInv

(***************************************************************************)
(* Every step of the composed services preserves LedgerInv.                *)
(***************************************************************************)
LEMMA BeginsKeepLedger ==
    ASSUME LedgerInv, NEW r \in Reqs,
           BeginTransaction(r) \/ BeginEnvelope(r) \/ BeginGoal(r)
    PROVE  LedgerInv'
<1> USE LedgerAssumption
<1>1. CASE BeginWithdraw(r)
  BY <1>1, BeginKeepsInv DEF BeginWithdraw, Ops, WellFormed, AllKinds, SpendKinds, Pots, Holders
<1>2. CASE BeginTransfer(r)
  BY <1>2, BeginKeepsInv DEF BeginTransfer, Ops, WellFormed, AllKinds, SpendKinds, Pots, Holders
<1>3. CASE BeginDeposit(r)
  BY <1>3, BeginKeepsInv DEF BeginDeposit, Ops, WellFormed, AllKinds, SpendKinds, Pots
<1>4. CASE BeginAllocate(r)
  BY <1>4, BeginKeepsInv
     DEF BeginAllocate, Ops, WellFormed, AllKinds, SpendKinds, EnvKinds, Pots, Holders
<1>5. CASE BeginRelease(r)
  BY <1>5, BeginKeepsInv
     DEF BeginRelease, Ops, WellFormed, AllKinds, SpendKinds, EnvKinds, Pots, Holders
<1>6. CASE BeginCancelEnvelope(r)
  BY <1>6, BeginKeepsInv
     DEF BeginCancelEnvelope, Ops, WellFormed, AllKinds, SpendKinds, EnvKinds, Pots, Holders
<1>7. CASE BeginContribute(r)
  BY <1>7, BeginKeepsInv
     DEF BeginContribute, Ops, WellFormed, AllKinds, SpendKinds, GoalKinds, Pots, Holders
<1>8. CASE BeginReleaseGoal(r)
  BY <1>8, BeginKeepsInv
     DEF BeginReleaseGoal, Ops, WellFormed, AllKinds, SpendKinds, GoalKinds, Pots, Holders
<1>9. CASE BeginCancelGoal(r)
  BY <1>9, BeginKeepsInv
     DEF BeginCancelGoal, Ops, WellFormed, AllKinds, SpendKinds, GoalKinds, Pots, Holders
<1>10. QED
  BY <1>1, <1>2, <1>3, <1>4, <1>5, <1>6, <1>7, <1>8, <1>9
     DEF BeginTransaction, BeginEnvelope, BeginGoal

LEMMA TransactionsStepKeepsLedger ==
    ASSUME LedgerInv, NEW r \in Reqs, TransactionsStep(r)
    PROVE  LedgerInv'
<1>1. CASE LockForLimits(r)
  <2>1. /\ LocksTypeOK'
        /\ \A q \in Reqs, y \in Rows : locks[y] = q => locks'[y] = q
    BY <1>1, TakeKeepsOthers DEF LockForLimits, LedgerInv, LedgerTypeOK
  <2>2. LedgerTypeOK'
    BY <1>1, <2>1 DEF LockForLimits, LedgerInv, LedgerTypeOK, Goto, Steps
  <2>3. ASSUME NEW q \in Reqs
        PROVE  (WellFormed(op[q]) /\ DebitSecured(q) /\ CreditSecured(q))'
    BY <1>1, <2>1, LedgerAssumption
       DEF LockForLimits, LedgerInv, LedgerTypeOK, Goto, WellFormed, DebitSecured,
           CreditSecured, Covers
  <2>4. QED  BY <2>2, <2>3 DEF LedgerInv
<1>2. CASE CheckLimits(r)
  BY <1>2, GotoKeepsInv, RejectKeepsInv DEF CheckLimits
<1>3. CASE DebitFunding(r)
  BY <1>3, DebitKeepsInv DEF DebitFunding, CanFund
<1>4. CASE CreditRecipient(r)
  BY <1>4, CreditKeepsInv DEF CreditRecipient
<1>5. CASE Record(r)
  <2>1. LedgerTypeOK'
    BY <1>5 DEF Record, LedgerInv, LedgerTypeOK, LocksTypeOK, Goto, Steps
  <2>2. ASSUME NEW q \in Reqs
        PROVE  (WellFormed(op[q]) /\ DebitSecured(q) /\ CreditSecured(q))'
    BY <1>5
       DEF Record, LedgerInv, LedgerTypeOK, Goto, WellFormed, DebitSecured,
           CreditSecured, Covers
  <2>3. QED  BY <2>1, <2>2 DEF LedgerInv
<1>6. CASE CommitTransaction(r)
  BY <1>6, CommitKeepsInv DEF CommitTransaction, LedgerInv, LedgerTypeOK
<1>7. QED
  BY <1>1, <1>2, <1>3, <1>4, <1>5, <1>6 DEF TransactionsStep

LEMMA EnvelopesStepKeepsLedger ==
    ASSUME LedgerInv, NEW r \in Reqs, EnvelopesStep(r)
    PROVE  LedgerInv'
<1>1. CASE ReadEnvelope(r)
  <2>1. CASE Reject(r)
    BY <2>1, RejectKeepsInv
  <2>2. CASE op[r].kind # "cancelEnvelope" /\ ~Reject(r)
    BY <1>1, <2>2, GotoKeepsInv DEF ReadEnvelope
  <2>3. CASE op[r].kind = "cancelEnvelope" /\ ~Reject(r)
    <3>1. op[r].amount = 0 /\ Goto(r, "commit") /\ UNCHANGED <<locks, funds, status, op>>
      BY <1>1, <2>3 DEF ReadEnvelope, LedgerInv, WellFormed
    <3>2. LedgerTypeOK'
      BY <3>1 DEF LedgerInv, LedgerTypeOK, LocksTypeOK, Goto, Steps
    <3>3. ASSUME NEW q \in Reqs
          PROVE  (WellFormed(op[q]) /\ DebitSecured(q) /\ CreditSecured(q))'
      BY <3>1
         DEF LedgerInv, LedgerTypeOK, Goto, WellFormed, DebitSecured, CreditSecured, Covers
    <3>4. QED  BY <3>2, <3>3 DEF LedgerInv
  <2>4. QED  BY <2>1, <2>2, <2>3
<1>2. CASE DebitForEnvelope(r)
  BY <1>2, DebitKeepsInv DEF DebitForEnvelope
<1>3. CASE CreditForEnvelope(r)
  BY <1>3, CreditKeepsInv DEF CreditForEnvelope
<1>4. CASE CommitEnvelopeMove(r)
  BY <1>4, CommitKeepsInv DEF CommitEnvelopeMove, LedgerInv, LedgerTypeOK
<1>5. CASE CloseEnvelope(r)
  BY <1>5, CommitKeepsInv DEF CloseEnvelope, LedgerInv, LedgerTypeOK, Statuses
<1>6. QED
  BY <1>1, <1>2, <1>3, <1>4, <1>5 DEF EnvelopesStep

LEMMA GoalsStepKeepsLedger ==
    ASSUME LedgerInv, NEW r \in Reqs, GoalsStep(r)
    PROVE  LedgerInv'
<1>1. CASE ReadGoal(r)
  BY <1>1, GotoKeepsInv, RejectKeepsInv DEF ReadGoal
<1>2. CASE DebitForGoal(r)
  BY <1>2, DebitKeepsInv DEF DebitForGoal
<1>3. CASE CreditForGoal(r)
  BY <1>3, CreditKeepsInv DEF CreditForGoal
<1>4. CASE LockGoalForCancel(r)
  <2>1. CASE Reject(r)
    BY <2>1, RejectKeepsInv
  <2>2. CASE /\ op[r].kind = "cancelGoal"
             /\ pc[r] = "read"
             /\ Take(r, op[r].from)
             /\ op' = [op EXCEPT ![r].amount = funds[op[r].from]]
             /\ Goto(r, IF funds[op[r].from] > 0 THEN "credit" ELSE "commit")
             /\ UNCHANGED <<funds, status>>
    <3>1. /\ op[r].from \in Goals /\ op[r].to \in Users /\ op[r] \in Ops
          /\ op[r].to = op[r].user
      BY <2>2 DEF LedgerInv, LedgerTypeOK, WellFormed
    <3>2. funds[op[r].from] \in Nat
      BY <3>1 DEF LedgerInv, LedgerTypeOK, Pots, Holders
    <3>3. /\ LocksTypeOK'
          /\ \A q \in Reqs, y \in Rows : locks[y] = q => locks'[y] = q
          /\ op[r].from \in Rows => locks'[op[r].from] = r
      BY <2>2, TakeKeepsOthers DEF LedgerInv, LedgerTypeOK
    <3>4. /\ op'[r] = [op[r] EXCEPT !.amount = funds[op[r].from]]
          /\ op'[r] \in Ops
          /\ \A q \in Reqs \ {r} : op'[q] = op[q]
          /\ op' \in [Reqs -> Ops]
      BY <2>2, <3>1, <3>2 DEF LedgerInv, LedgerTypeOK, Ops
    <3>5. LedgerTypeOK'
      BY <2>2, <3>3, <3>4 DEF LedgerInv, LedgerTypeOK, Goto, Steps
    <3>6. ASSUME NEW q \in Reqs
          PROVE  (WellFormed(op[q]) /\ DebitSecured(q) /\ CreditSecured(q))'
      <4>1. CASE q = r
        <5>1. WellFormed(op[q])'
          BY <2>2, <3>1, <3>4, <4>1 DEF WellFormed, Ops, SpendKinds
        <5>2. DebitSecured(q)' /\ (CreditSecured(q))'
          BY <2>2, <3>1, <3>2, <3>3, <3>4, <4>1, LedgerAssumption
             DEF LedgerInv, LedgerTypeOK, DebitSecured, CreditSecured, Covers, Goto, Ops
        <5>3. QED  BY <5>1, <5>2
      <4>2. CASE q # r
        BY <2>2, <3>3, <3>4, <4>2, LedgerAssumption
           DEF LedgerInv, LedgerTypeOK, Goto, WellFormed, DebitSecured, CreditSecured, Covers
      <4>3. QED  BY <4>1, <4>2
    <3>7. QED  BY <3>5, <3>6 DEF LedgerInv
  <2>3. QED  BY <1>4, <2>1, <2>2 DEF LockGoalForCancel, Goal
<1>5. CASE CommitGoalMove(r)
  BY <1>5, CommitKeepsInv
     DEF CommitGoalMove, StatusAfter, LedgerInv, LedgerTypeOK, Statuses
<1>6. QED
  BY <1>1, <1>2, <1>3, <1>4, <1>5 DEF GoalsStep

(***************************************************************************)
(* A change of a limit touches neither the money nor the requests.         *)
(***************************************************************************)
LEMMA LimitsTouchNoMoney == SetLimit => UNCHANGED <<locks, funds, status, pc, op>>
<1> SUFFICES ASSUME SetLimit PROVE UNCHANGED <<locks, funds, status, pc, op>>
  OBVIOUS
<1>1. PICK u \in Users, k \in SpendKinds, per \in Periods, max \in LimitValues :
          UpdateLimit(u, k, per, max)
  BY DEF SetLimit
<1>2. QED
  BY <1>1 DEF UpdateLimit

LEMMA NextKeepsLedger ==
    ASSUME LedgerInv, [WalletNext \/ WalletDone]_transactionsVars
    PROVE  LedgerInv'
<1>1. ASSUME NEW r \in Reqs, WalletStep(r)
      PROVE  LedgerInv'
  BY <1>1, TransactionsStepKeepsLedger, EnvelopesStepKeepsLedger, GoalsStepKeepsLedger
     DEF WalletStep, EnvelopesOrGoals
<1>2. ASSUME UNCHANGED <<locks, funds, pc, op>>, status' \in [Holders -> Statuses]
      PROVE  LedgerInv'
  BY <1>2 DEF LedgerInv, LedgerTypeOK, LocksTypeOK, WellFormed, DebitSecured,
              CreditSecured, Covers
<1>3. CASE SetLimit \/ Midnight \/ UNCHANGED transactionsVars
  <2>1. UNCHANGED <<locks, funds, pc, op, status>>
    BY <1>3, LimitsTouchNoMoney DEF Midnight, transactionsVars
  <2>2. QED  BY <1>2, <2>1 DEF LedgerInv, LedgerTypeOK
<1>4. CASE (\E e \in Envs : CreateEnvelope(e)) \/ (\E g \in Goals : CreateGoal(g))
  BY <1>2, <1>4
     DEF CreateEnvelope, CreateGoal, LedgerInv, LedgerTypeOK, Statuses
<1>5. QED
  BY <1>1, <1>3, <1>4, BeginsKeepLedger, AbortKeepsInv
     DEF WalletNext, WalletDone, AbortTransaction

(***************************************************************************)
(* The balances are natural numbers in every reachable state, and what a   *)
(* transaction has debited or credited stays locked, and covered, until it *)
(* ends: no balance of a wallet, an envelope or a goal is ever overdrawn.  *)
(***************************************************************************)
THEOREM WalletIsSafe == WalletSpec => []LedgerInv
<1>1. WalletInit => LedgerInv
  BY InitIsSafe DEF WalletInit, TransactionsInit
<1>2. LedgerInv /\ [WalletNext \/ WalletDone]_transactionsVars => LedgerInv'
  BY NextKeepsLedger
<1>3. QED
  BY <1>1, <1>2, PTL DEF WalletSpec

(***************************************************************************)
(* What a statement of r leaves alone: the other requests, and their       *)
(* locks.                                                                  *)
(***************************************************************************)
OthersKept(r) ==
    /\ \A q \in Reqs \ {r} : pc'[q] = pc[q] /\ op'[q] = op[q]
    /\ \A q \in Reqs \ {r}, x \in Rows : locks[x] = q => locks'[x] = q

LEMMA EndsKeepOthers ==
    ASSUME LedgerTypeOK, NEW r \in Reqs, Reject(r) \/ Abort(r) \/ Commit(r)
    PROVE  OthersKept(r) /\ op' = op
  BY ReleaseKeepsOthers
     DEF OthersKept, Reject, Abort, Commit, Goto, LedgerTypeOK

LEMMA UpdatesKeepOthers ==
    ASSUME LedgerTypeOK, NEW r \in Reqs, NEW cond, NEW next,
           Debit(r, cond, next) \/ Credit(r, next)
    PROVE  OthersKept(r) /\ op' = op
<1>1. CASE Reject(r)
  BY <1>1, EndsKeepOthers
<1>2. CASE (Take(r, op[r].from) \/ Take(r, op[r].to)) /\ Goto(r, next) /\ op' = op
  BY <1>2, TakeKeepsOthers DEF OthersKept, Goto, LedgerTypeOK
<1>3. QED
  BY <1>1, <1>2 DEF Debit, Credit

LEMMA EnvelopesKeepOthers ==
    ASSUME LedgerTypeOK, NEW r \in Reqs, EnvelopesStep(r)
    PROVE  OthersKept(r) /\ op' = op /\ op[r].kind \in EnvKinds
<1>1. CASE ReadEnvelope(r)
  <2>1. CASE Reject(r)
    BY <1>1, <2>1, EndsKeepOthers DEF ReadEnvelope
  <2>2. CASE ~Reject(r)
    BY <1>1, <2>2 DEF ReadEnvelope, OthersKept, Goto, LedgerTypeOK
  <2>3. QED  BY <2>1, <2>2
<1>2. CASE DebitForEnvelope(r) \/ CreditForEnvelope(r)
  BY <1>2, UpdatesKeepOthers DEF DebitForEnvelope, CreditForEnvelope, EnvKinds
<1>3. CASE CommitEnvelopeMove(r) \/ CloseEnvelope(r)
  BY <1>3, EndsKeepOthers DEF CommitEnvelopeMove, CloseEnvelope, EnvKinds
<1>4. QED
  BY <1>1, <1>2, <1>3 DEF EnvelopesStep

LEMMA GoalsKeepOthers ==
    ASSUME LedgerTypeOK, NEW r \in Reqs, GoalsStep(r)
    PROVE  /\ OthersKept(r)
           /\ op[r].kind \in GoalKinds /\ op'[r].kind = op[r].kind
<1>1. CASE ReadGoal(r)
  <2>1. CASE Reject(r)
    BY <1>1, <2>1, EndsKeepOthers DEF ReadGoal, GoalKinds
  <2>2. CASE ~Reject(r)
    BY <1>1, <2>2 DEF ReadGoal, OthersKept, Goto, LedgerTypeOK, GoalKinds
  <2>3. QED  BY <2>1, <2>2
<1>2. CASE DebitForGoal(r) \/ CreditForGoal(r)
  BY <1>2, UpdatesKeepOthers DEF DebitForGoal, CreditForGoal, GoalKinds
<1>3. CASE CommitGoalMove(r)
  BY <1>3, EndsKeepOthers DEF CommitGoalMove
<1>4. CASE LockGoalForCancel(r)
  <2>1. CASE Reject(r)
    BY <1>4, <2>1, EndsKeepOthers DEF LockGoalForCancel, GoalKinds
  <2>2. CASE /\ op[r].kind = "cancelGoal"
             /\ Take(r, Goal(r))
             /\ op' = [op EXCEPT ![r].amount = funds[Goal(r)]]
             /\ Goto(r, IF funds[Goal(r)] > 0 THEN "credit" ELSE "commit")
    BY <2>2, TakeKeepsOthers DEF OthersKept, Goto, LedgerTypeOK, Ops, GoalKinds
  <2>3. QED  BY <1>4, <2>1, <2>2 DEF LockGoalForCancel
<1>5. QED
  BY <1>1, <1>2, <1>3, <1>4 DEF GoalsStep

LEMMA BeginsKeepOthers ==
    ASSUME LedgerTypeOK, NEW r \in Reqs,
           BeginTransaction(r) \/ BeginEnvelope(r) \/ BeginGoal(r)
    PROVE  /\ OthersKept(r)
           /\ \/ op'[r].kind \notin SpendKinds
              \/ pc'[r] = "limits"
<1>1. /\ \E o : op' = [op EXCEPT ![r] = o]
      /\ \E first : pc' = [pc EXCEPT ![r] = first]
      /\ locks' = locks
      /\ op'[r].kind \notin SpendKinds \/ pc'[r] = "limits"
  <2>1. CASE BeginTransaction(r)
    BY <2>1 DEF BeginTransaction, BeginWithdraw, BeginTransfer, BeginDeposit, Begin, Goto,
                SpendKinds, LedgerTypeOK
  <2>2. CASE BeginEnvelope(r)
    BY <2>2 DEF BeginEnvelope, BeginAllocate, BeginRelease, BeginCancelEnvelope, Begin,
                Goto, SpendKinds, LedgerTypeOK
  <2>3. CASE BeginGoal(r)
    BY <2>3 DEF BeginGoal, BeginContribute, BeginReleaseGoal, BeginCancelGoal, Begin,
                Goto, SpendKinds, LedgerTypeOK
  <2>4. QED  BY <2>1, <2>2, <2>3
<1>2. QED
  BY <1>1 DEF OthersKept, LedgerTypeOK
(***************************************************************************)
(* Which locks the requests of WalletFirst have when they ask for another. *)
(***************************************************************************)
HoldsNothing(r) == \A x \in Rows : locks[x] # r
HoldsWallets(r) == \A x \in Rows : locks[x] = r => x \in Users

SpendInOrder(r) ==
    op[r].kind = "withdraw" =>
        /\ op[r].to = NoPot
        /\ pc[r] \notin {"read", "credit"}
        /\ pc[r] = "limits" => HoldsNothing(r)
        /\ pc[r] \in {"usage", "debit"} => HoldsWallets(r) /\ locks[op[r].user] = r

DepositInOrder(r) ==
    op[r].kind = "deposit" =>
        /\ pc[r] \notin {"limits", "read", "debit"}
        /\ pc[r] = "credit" => HoldsNothing(r)

MoveInOrder(r) ==
    op[r].kind \in {"allocate", "contribute"} =>
        /\ pc[r] # "limits"
        /\ pc[r] \in {"read", "debit"} => HoldsNothing(r)
        /\ pc[r] = "credit" => HoldsWallets(r)

CancelInOrder(r) ==
    op[r].kind = "cancelEnvelope" =>
        /\ pc[r] \notin {"limits", "debit", "credit"}
        /\ pc[r] \in {"read", "commit"} => HoldsNothing(r)

InOrder(r) ==
    /\ pc[r] = "new" => HoldsNothing(r)
    /\ SpendInOrder(r)
    /\ DepositInOrder(r)
    /\ MoveInOrder(r)
    /\ CancelInOrder(r)

OrderInv == LedgerInv /\ \A r \in Reqs : InOrder(r)

(***************************************************************************)
(* The locks a step may take or give up are those of its own request, so   *)
(* the order of all other requests is kept.                                *)
(***************************************************************************)
LocksOf(r) == locks' = locks \/ ReleaseAll(r) \/ \E x : Take(r, x)

LEMMA OthersGainNothing ==
    ASSUME LedgerTypeOK, NEW r \in Reqs, LocksOf(r), NEW q \in Reqs \ {r}, NEW x \in Rows,
           locks'[x] = q
    PROVE  locks[x] = q
  BY NoReqAssumption DEF LocksOf, ReleaseAll, Take, LedgerTypeOK, LocksTypeOK

LEMMA OthersStayInOrder ==
    ASSUME OrderInv, NEW r \in Reqs, OthersKept(r), LocksOf(r), NEW q \in Reqs \ {r}
    PROVE  InOrder(q)'
<1>1. pc'[q] = pc[q] /\ op'[q] = op[q]
  BY DEF OthersKept
<1>2. /\ HoldsNothing(q) => HoldsNothing(q)'
      /\ HoldsWallets(q) => HoldsWallets(q)'
  BY OthersGainNothing DEF OrderInv, LedgerInv, HoldsNothing, HoldsWallets
<1>3. op[q].kind = "withdraw" /\ locks[op[q].user] = q => locks'[op[q].user] = q
  BY LedgerAssumption
     DEF OthersKept, OrderInv, LedgerInv, WellFormed, SpendKinds, Pots
<1>4. InOrder(q)
  BY DEF OrderInv
<1>5. SpendInOrder(q)' /\ DepositInOrder(q)'
  BY <1>1, <1>2, <1>3, <1>4 DEF InOrder, SpendInOrder, DepositInOrder
<1>6. MoveInOrder(q)' /\ CancelInOrder(q)'
  BY <1>1, <1>2, <1>4 DEF InOrder, MoveInOrder, CancelInOrder
<1>7. pc'[q] = "new" => HoldsNothing(q)'
  BY <1>1, <1>2, <1>4 DEF InOrder
<1>8. QED
  BY <1>5, <1>6, <1>7 DEF InOrder

(***************************************************************************)
(* A request that has ended asks for no lock any more.                     *)
(***************************************************************************)
LEMMA EndIsInOrder ==
    ASSUME OrderInv, NEW r \in Reqs, pc'[r] \in Answers,
           op'[r].kind = op[r].kind, op'[r].to = op[r].to
    PROVE  InOrder(r)'
  BY DEF OrderInv, InOrder, SpendInOrder, DepositInOrder, MoveInOrder, CancelInOrder, Answers

LEMMA EndsStayInOrder ==
    ASSUME OrderInv, NEW r \in Reqs, Reject(r) \/ Abort(r) \/ Commit(r), NEW q \in Reqs
    PROVE  InOrder(q)'
<1>1. OthersKept(r) /\ op' = op
  BY EndsKeepOthers DEF OrderInv, LedgerInv
<1>2. LocksOf(r)
  BY DEF LocksOf, Reject, Abort, Commit
<1>3. pc'[r] \in Answers
  BY DEF Reject, Abort, Commit, Goto, Answers, OrderInv, LedgerInv, LedgerTypeOK
<1>4. QED
  BY <1>1, <1>2, <1>3, OthersStayInOrder, EndIsInOrder

(***************************************************************************)
(* A new request holds nothing.                                            *)
(***************************************************************************)
LEMMA BeginsStayInOrder ==
    ASSUME OrderInv, NEW r \in Reqs,
           BeginTransaction(r) \/ BeginEnvelope(r) \/ BeginGoal(r), NEW q \in Reqs
    PROVE  InOrder(q)'
<1>1. pc[r] = "new" /\ locks' = locks /\ OthersKept(r)
  <2>1. OthersKept(r)
    BY BeginsKeepOthers DEF OrderInv, LedgerInv
  <2>2. pc[r] = "new" /\ locks' = locks
    BY DEF BeginTransaction, BeginEnvelope, BeginGoal, BeginWithdraw, BeginTransfer,
           BeginDeposit, BeginAllocate, BeginRelease, BeginCancelEnvelope, BeginContribute,
           BeginReleaseGoal, BeginCancelGoal, Begin
  <2>3. QED  BY <2>1, <2>2
<1>2. HoldsNothing(r)'
  BY <1>1 DEF OrderInv, InOrder, HoldsNothing
<1>3. CASE q # r
  BY <1>1, <1>3, OthersStayInOrder DEF LocksOf
<1>4. CASE q = r
  <2>1. CASE BeginTransaction(r)
    BY <1>2, <1>4, <2>1
       DEF BeginTransaction, BeginWithdraw, BeginTransfer, BeginDeposit, Begin, Goto,
           OrderInv, LedgerInv, LedgerTypeOK, InOrder, SpendInOrder, DepositInOrder,
           MoveInOrder, CancelInOrder
  <2>2. CASE BeginEnvelope(r)
    BY <1>2, <1>4, <2>2
       DEF BeginEnvelope, BeginAllocate, BeginRelease, BeginCancelEnvelope, Begin, Goto,
           OrderInv, LedgerInv, LedgerTypeOK, InOrder, SpendInOrder, DepositInOrder,
           MoveInOrder, CancelInOrder
  <2>3. CASE BeginGoal(r)
    BY <1>2, <1>4, <2>3
       DEF BeginGoal, BeginContribute, BeginReleaseGoal, BeginCancelGoal, Begin, Goto,
           OrderInv, LedgerInv, LedgerTypeOK, InOrder, SpendInOrder, DepositInOrder,
           MoveInOrder, CancelInOrder
  <2>4. QED  BY <2>1, <2>2, <2>3
<1>5. QED  BY <1>3, <1>4

(***************************************************************************)
(* The statements of a spend, a deposit, a move, and a cancellation.       *)
(***************************************************************************)
LEMMA TransactionsStayInOrder ==
    ASSUME OrderInv, NEW r \in Reqs, TransactionsStep(r), NEW q \in Reqs
    PROVE  InOrder(q)'
<1> USE DEF OrderInv, LedgerInv
<1>0. LedgerTypeOK /\ InOrder(r) /\ WellFormed(op[r])
  OBVIOUS
<1>1. CASE LockForLimits(r)
  <2>1. OthersKept(r) /\ LocksOf(r)
    BY <1>0, <1>1, TakeKeepsOthers
       DEF LockForLimits, OthersKept, LocksOf, Goto, LedgerTypeOK
  <2>2. CASE q # r
    BY <2>1, <2>2, OthersStayInOrder
  <2>3. InOrder(r)'
    <3>1. /\ pc[r] = "limits" /\ pc'[r] = "usage" /\ op' = op
          /\ op[r].kind \in SpendKinds /\ op[r].user \in Users /\ op[r].user \in Rows
          /\ Take(r, op[r].user)
      BY <1>0, <1>1, LedgerAssumption
         DEF LockForLimits, Spending, Goto, LedgerTypeOK, WellFormed, Pots
    <3>2. locks'[op[r].user] = r /\ \A x \in Rows \ {op[r].user} : locks'[x] = locks[x]
      BY <1>0, <3>1 DEF Take, LedgerTypeOK, LocksTypeOK
    <3>3. SpendInOrder(r)'
      BY <1>0, <3>1, <3>2 DEF InOrder, SpendInOrder, HoldsNothing, HoldsWallets
    <3>4. QED
      BY <3>1, <3>3 DEF InOrder, DepositInOrder, MoveInOrder, CancelInOrder, SpendKinds
  <2>4. QED  BY <2>2, <2>3
<1>2. CASE CheckLimits(r)
  <2>1. CASE Reject(r)
    BY <2>1, EndsStayInOrder
  <2>2. CASE ~Reject(r)
    <3>1. /\ pc[r] = "usage" /\ Goto(r, "debit") /\ UNCHANGED <<locks, op>>
          /\ op[r].kind \in SpendKinds
      BY <1>2, <2>2 DEF CheckLimits, Spending
    <3>2. OthersKept(r) /\ LocksOf(r) /\ pc'[r] = "debit"
      BY <1>0, <3>1 DEF OthersKept, LocksOf, Goto, LedgerTypeOK
    <3>3. InOrder(r)'
      BY <1>0, <3>1, <3>2
         DEF InOrder, SpendInOrder, DepositInOrder, MoveInOrder, CancelInOrder, SpendKinds,
             HoldsWallets
    <3>4. QED  BY <3>2, <3>3, OthersStayInOrder
  <2>3. QED  BY <2>1, <2>2
<1>3. CASE DebitFunding(r)
  <2>1. CASE Reject(r)
    BY <2>1, EndsStayInOrder
  <2>2. CASE ~Reject(r)
    <3>1. /\ Take(r, op[r].from) /\ op' = op /\ op[r].kind \in SpendKinds
          /\ Goto(r, IF op[r].to = NoPot THEN "record" ELSE "credit")
          /\ OthersKept(r)
      BY <1>0, <1>3, <2>2, UpdatesKeepOthers DEF DebitFunding, Debit, Spending
    <3>2. InOrder(r)'
      BY <1>0, <3>1
         DEF InOrder, SpendInOrder, DepositInOrder, MoveInOrder, CancelInOrder, SpendKinds,
             Goto, LedgerTypeOK
    <3>3. QED  BY <3>1, <3>2, OthersStayInOrder DEF LocksOf
  <2>3. QED  BY <2>1, <2>2
<1>4. CASE CreditRecipient(r)
  <2>1. /\ Take(r, op[r].to) /\ op' = op /\ op[r].kind \in {"transfer", "deposit"}
        /\ pc'[r] \in {"record", "commit"}
        /\ OthersKept(r)
    BY <1>0, <1>4, UpdatesKeepOthers DEF CreditRecipient, Credit, Goto, LedgerTypeOK
  <2>2. InOrder(r)'
    BY <2>1 DEF InOrder, SpendInOrder, DepositInOrder, MoveInOrder, CancelInOrder
  <2>3. QED  BY <2>1, <2>2, OthersStayInOrder DEF LocksOf
<1>5. CASE Record(r)
  <2>1. /\ UNCHANGED <<locks, op>> /\ op[r].kind \in SpendKinds /\ pc'[r] = "commit"
        /\ OthersKept(r)
    BY <1>0, <1>5 DEF Record, Spending, OthersKept, Goto, LedgerTypeOK
  <2>2. InOrder(r)'
    BY <1>0, <2>1
       DEF InOrder, SpendInOrder, DepositInOrder, MoveInOrder, CancelInOrder, SpendKinds
  <2>3. QED  BY <2>1, <2>2, OthersStayInOrder DEF LocksOf
<1>6. CASE CommitTransaction(r)
  BY <1>6, EndsStayInOrder DEF CommitTransaction
<1>7. QED
  BY <1>1, <1>2, <1>3, <1>4, <1>5, <1>6 DEF TransactionsStep

(***************************************************************************)
(* The debit and the credit of a move; what it takes first is a wallet.    *)
(***************************************************************************)
LEMMA MovesStayInOrder ==
    ASSUME OrderInv, NEW r \in Reqs, op[r].kind \in EnvKinds \cup GoalKinds,
           NEW cond \in BOOLEAN,
           Debit(r, cond, "credit") \/ Credit(r, "commit"), NEW q \in Reqs
    PROVE  InOrder(q)'
<1> USE DEF OrderInv, LedgerInv
<1>0. LedgerTypeOK /\ InOrder(r) /\ WellFormed(op[r])
  OBVIOUS
<1>1. CASE Reject(r)
  BY <1>1, EndsStayInOrder
<1>2. CASE ~Reject(r)
  <2>1. OthersKept(r) /\ op' = op
    BY <1>0, UpdatesKeepOthers
  <2>2. LocksOf(r)
    BY <1>2 DEF Debit, Credit, LocksOf
  <2>3. CASE pc[r] = "debit"
    <3>1. Take(r, op[r].from) /\ pc'[r] = "credit"
      BY <1>0, <1>2, <2>3 DEF Debit, Credit, Goto, LedgerTypeOK
    <3>2. \A x \in Rows : locks'[x] = r => locks[x] = r \/ x = op[r].from
      BY <1>0, <3>1 DEF Take, LedgerTypeOK, LocksTypeOK
    <3>3. MoveInOrder(r)'
      BY <1>0, <2>1, <2>3, <3>1, <3>2
         DEF InOrder, MoveInOrder, WellFormed, HoldsNothing, HoldsWallets
    <3>4. QED
      BY <1>0, <2>1, <2>2, <2>3, <3>1, <3>3, OthersStayInOrder
         DEF InOrder, SpendInOrder, DepositInOrder, CancelInOrder, EnvKinds, GoalKinds
  <2>4. CASE pc[r] # "debit"
    <3>1. pc[r] = "credit" /\ pc'[r] = "commit"
      BY <1>0, <2>4 DEF Debit, Credit, Goto, LedgerTypeOK
    <3>2. InOrder(r)'
      BY <1>0, <2>1, <3>1
         DEF InOrder, SpendInOrder, DepositInOrder, MoveInOrder, CancelInOrder, EnvKinds,
             GoalKinds
    <3>3. QED  BY <2>1, <2>2, <3>2, OthersStayInOrder
  <2>5. QED  BY <2>3, <2>4
<1>3. QED  BY <1>1, <1>2

LEMMA ReadsStayInOrder ==
    ASSUME OrderInv, NEW r \in Reqs, pc[r] = "read", op[r].kind \in EnvKinds \cup GoalKinds,
           NEW step \in {"debit", "commit"}, Goto(r, step), UNCHANGED <<locks, op>>,
           op[r].kind = "cancelEnvelope" <=> step = "commit", NEW q \in Reqs
    PROVE  InOrder(q)'
<1>1. LedgerTypeOK /\ InOrder(r)
  BY DEF OrderInv, LedgerInv
<1>2. OthersKept(r) /\ LocksOf(r) /\ pc'[r] = step
  BY <1>1 DEF OthersKept, LocksOf, Goto, LedgerTypeOK
<1>3. HoldsNothing(r) => HoldsNothing(r)'
  BY DEF HoldsNothing
<1>4. InOrder(r)'
  BY <1>1, <1>2, <1>3
     DEF InOrder, SpendInOrder, DepositInOrder, MoveInOrder, CancelInOrder, EnvKinds, GoalKinds
<1>5. QED  BY <1>2, <1>4, OthersStayInOrder

LEMMA EnvelopesStayInOrder ==
    ASSUME OrderInv, NEW r \in Reqs, EnvelopesStep(r), NEW q \in Reqs
    PROVE  InOrder(q)'
<1>1. CASE Reject(r)
  BY <1>1, EndsStayInOrder
<1>2. CASE ReadEnvelope(r) /\ ~Reject(r)
  BY <1>2, ReadsStayInOrder DEF ReadEnvelope
<1>3. CASE DebitForEnvelope(r)
  BY <1>3, MovesStayInOrder DEF DebitForEnvelope, EnvKinds
<1>4. CASE CreditForEnvelope(r)
  BY <1>4, MovesStayInOrder DEF CreditForEnvelope, EnvKinds
<1>5. CASE CommitEnvelopeMove(r) \/ CloseEnvelope(r)
  BY <1>5, EndsStayInOrder DEF CommitEnvelopeMove, CloseEnvelope
<1>6. QED
  BY <1>1, <1>2, <1>3, <1>4, <1>5 DEF EnvelopesStep

LEMMA GoalsStayInOrder ==
    ASSUME OrderInv, NEW r \in Reqs, GoalsStep(r), NEW q \in Reqs
    PROVE  InOrder(q)'
<1>1. CASE Reject(r)
  BY <1>1, EndsStayInOrder
<1>2. CASE ReadGoal(r) /\ ~Reject(r)
  BY <1>2, ReadsStayInOrder DEF ReadGoal, GoalKinds
<1>3. CASE DebitForGoal(r)
  BY <1>3, MovesStayInOrder DEF DebitForGoal, GoalKinds
<1>4. CASE CreditForGoal(r)
  BY <1>4, MovesStayInOrder DEF CreditForGoal
<1>5. CASE CommitGoalMove(r)
  BY <1>5, EndsStayInOrder DEF CommitGoalMove
<1>6. CASE LockGoalForCancel(r) /\ ~Reject(r)
  <2>1. OthersKept(r) /\ op'[r].kind = "cancelGoal"
    BY <1>6, GoalsKeepOthers DEF OrderInv, LedgerInv, LockGoalForCancel, GoalsStep
  <2>2. LocksOf(r) /\ pc'[r] \in {"credit", "commit"}
    BY <1>6 DEF LockGoalForCancel, LocksOf, Goto, OrderInv, LedgerInv, LedgerTypeOK
  <2>3. InOrder(r)'
    BY <2>1, <2>2 DEF InOrder, SpendInOrder, DepositInOrder, MoveInOrder, CancelInOrder
  <2>4. QED  BY <2>1, <2>2, <2>3, OthersStayInOrder
<1>7. QED
  BY <1>1, <1>2, <1>3, <1>4, <1>5, <1>6 DEF GoalsStep

LEMMA NextKeepsOrder ==
    ASSUME OrderInv, [WalletNext \/ WalletDone]_transactionsVars
    PROVE  OrderInv'
<1>1. LedgerInv'
  BY NextKeepsLedger DEF OrderInv
<1>2. ASSUME NEW q \in Reqs
      PROVE  InOrder(q)'
  <2>1. ASSUME NEW r \in Reqs, WalletStep(r)
        PROVE  InOrder(q)'
    BY <2>1, TransactionsStayInOrder, EnvelopesStayInOrder, GoalsStayInOrder
       DEF WalletStep, EnvelopesOrGoals
  <2>2. ASSUME NEW r \in Reqs, AbortTransaction(r)
        PROVE  InOrder(q)'
    BY <2>2, EndsStayInOrder DEF AbortTransaction
  <2>3. CASE UNCHANGED <<locks, pc, op>>
    BY <2>3 DEF OrderInv, InOrder, SpendInOrder, DepositInOrder, MoveInOrder, CancelInOrder,
                HoldsNothing, HoldsWallets
  <2>4. CASE \/ SetLimit \/ Midnight \/ UNCHANGED transactionsVars
             \/ \E e \in Envs : CreateEnvelope(e)
             \/ \E g \in Goals : CreateGoal(g)
    BY <2>3, <2>4, LimitsTouchNoMoney
       DEF Midnight, transactionsVars, CreateEnvelope, CreateGoal
  <2>5. QED
    BY <2>1, <2>2, <2>4, BeginsStayInOrder DEF WalletNext, WalletDone
<1>3. QED  BY <1>1, <1>2 DEF OrderInv

(***************************************************************************)
(* Whoever is on a circle of waits has a lock already.  Among requests of  *)
(* WalletFirst that is a wallet, its own one; so the one that waits for it *)
(* asks for a wallet, which is the first thing it locks: nobody waits for  *)
(* that one.                                                               *)
(***************************************************************************)
LEMMA OrderForbidsCycles == OrderInv => NoWaitCycle
<1>1. ASSUME OrderInv, NEW a \in Reqs, WalletFirstWant[a] \in Rows, ~HoldsNothing(a)
      PROVE  /\ HoldsWallets(a)
             /\ WalletFirstWant[a] \in Users => locks[WalletFirstWant[a]] = a
  <2> USE LedgerAssumption
  <2>1. op[a].kind \in WalletFirst /\ WalletFirstWant[a] = Want[a]
    BY <1>1 DEF WalletFirstWant
  <2>2. InOrder(a) /\ WellFormed(op[a])
    BY <1>1 DEF OrderInv, LedgerInv
  <2>3. CASE op[a].kind = "withdraw"
    BY <1>1, <2>1, <2>2, <2>3
       DEF InOrder, SpendInOrder, WellFormed, SpendKinds, Want, Pots, Holders
  <2>4. CASE op[a].kind = "deposit"
    BY <1>1, <2>1, <2>2, <2>4 DEF InOrder, DepositInOrder, Want
  <2>5. CASE op[a].kind \in {"allocate", "contribute"}
    BY <1>1, <2>1, <2>2, <2>5
       DEF InOrder, MoveInOrder, WellFormed, Want, Holders
  <2>6. CASE op[a].kind = "cancelEnvelope"
    BY <1>1, <2>1, <2>2, <2>6 DEF InOrder, CancelInOrder, Want
  <2>7. QED
    BY <2>1, <2>3, <2>4, <2>5, <2>6 DEF WalletFirst
<1>2. SUFFICES ASSUME OrderInv, NEW r \in Reqs, InWaitCycle(WalletFirstWant, r)
               PROVE  FALSE
  BY Zenon DEF NoWaitCycle
<1>3. PICK S \in SUBSET Reqs :
          /\ r \in S
          /\ \A a \in S : \E b \in S : WaitsFor(WalletFirstWant, a, b)
          /\ \A b \in S : \E a \in S : WaitsFor(WalletFirstWant, a, b)
  BY <1>2 DEF InWaitCycle
<1>4. \A a \in S : a \in Reqs /\ WalletFirstWant[a] \in Rows /\ ~HoldsNothing(a)
  BY <1>3 DEF WaitsFor, HoldsNothing
<1>5. PICK a \in S : WaitsFor(WalletFirstWant, a, r)
  BY <1>3
<1>6. WalletFirstWant[a] \in Users
  BY <1>1, <1>2, <1>3, <1>4, <1>5 DEF WaitsFor, HoldsWallets
<1>7. locks[WalletFirstWant[a]] = a
  BY <1>1, <1>2, <1>4, <1>5, <1>6
<1>8. QED
  BY <1>5, <1>7 DEF WaitsFor

(***************************************************************************)
(* Requests that lock the wallet first never wait in a circle, however     *)
(* many they are and whatever the releases, transfers and cancellations of *)
(* goals among them do (NoWaitCycle).                                      *)
(***************************************************************************)
THEOREM WalletFirstNeverDeadlocks == WalletSpec => []NoWaitCycle
<1>1. WalletInit => OrderInv
  <2> SUFFICES ASSUME WalletInit PROVE OrderInv
    OBVIOUS
  <2>1. LedgerInv
    BY InitIsSafe DEF WalletInit, TransactionsInit
  <2>2. ASSUME NEW r \in Reqs PROVE InOrder(r)
    BY NoReqAssumption
       DEF WalletInit, TransactionsInit, LedgerInit, NoLocks, NoOp, InOrder, SpendInOrder,
           DepositInOrder, MoveInOrder, CancelInOrder, HoldsNothing
  <2>3. QED  BY <2>1, <2>2 DEF OrderInv
<1>2. OrderInv /\ [WalletNext \/ WalletDone]_transactionsVars => OrderInv'
  BY NextKeepsOrder
<1>3. QED
  BY <1>1, <1>2, OrderForbidsCycles, PTL DEF WalletSpec

(***************************************************************************)
(* The spending limits.  From FOR UPDATE to COMMIT the wallet row          *)
(* serialises the user's spends, so what CheckLimits found stays true;     *)
(* when midnight passes before the row is inserted, the row counts in a    *)
(* period in which nothing has been recorded yet.                          *)
(***************************************************************************)

(***************************************************************************)
(* Every day is in a period, and the periods follow each other.            *)
(***************************************************************************)
LEMMA PeriodsAreDays == \A per \in Periods, d \in Days : PeriodAt(per, d) \in Days
  BY TransactionsAssumption DEF PeriodAt, Periods

LEMMA PeriodsGrow ==
    ASSUME NEW per \in Periods, NEW d \in Days, NEW e \in Days, d <= e
    PROVE  PeriodAt(per, d) <= PeriodAt(per, e)
  BY TransactionsAssumption DEF PeriodAt, Periods

(***************************************************************************)
(* A statement of r that leaves the usage, the limits and the clock alone  *)
(* keeps LimitsInv if it keeps what LimitsInv says of r.                   *)
(***************************************************************************)
LEMMA StatementKeepsLimits ==
    ASSUME LimitsInv, LedgerTypeOK', NEW r \in Reqs,
           \A q \in Reqs \ {r} : /\ pc'[q] = pc[q] /\ op'[q] = op[q]
                                 /\ cap'[q] = cap[q] /\ stamp'[q] = stamp[q],
           \A q \in Reqs \ {r}, x \in Rows : locks[x] = q => locks'[x] = q,
           UNCHANGED <<used, maxAmount, peak, day>>,
           cap' \in [Reqs -> [Periods -> Nat]], stamp' \in [Reqs -> Days],
           SpendSerialised(r)', CapWasInForce(r)', RoomKept(r)', stamp'[r] <= day,
           \A q \in Reqs : Spending(q) => op[q].user \in Users
    PROVE  LimitsInv'
<1>1. TransactionsTypeOK' /\ UsageWithinLimits' /\ NothingInTheFuture'
  BY DEF LimitsInv, TransactionsTypeOK, UsageWithinLimits, NothingInTheFuture, PeriodAt
<1>2. ASSUME NEW q \in Reqs \ {r}
      PROVE  /\ SpendSerialised(q)'
             /\ CapWasInForce(q)'
             /\ RoomKept(q)'
             /\ stamp'[q] <= day'
  <2>1. /\ pc'[q] = pc[q] /\ op'[q] = op[q] /\ cap'[q] = cap[q] /\ stamp'[q] = stamp[q]
        /\ SpendSerialised(q) /\ CapWasInForce(q) /\ RoomKept(q) /\ stamp[q] <= day
    BY DEF LimitsInv
  <2>2. SpendSerialised(q)'
    BY <2>1, LedgerAssumption DEF SpendSerialised, Spending, Pots
  <2>3. CapWasInForce(q)' /\ RoomKept(q)'
    BY <2>1 DEF CapWasInForce, RoomKept, RoomFor, Spending, PeriodAt
  <2>4. QED  BY <2>1, <2>2, <2>3
<1>3. QED
  BY <1>1, <1>2 DEF LimitsInv

LEMMA SpendersAreUsers ==
    ASSUME LedgerInv
    PROVE  \A q \in Reqs : Spending(q) => op[q].user \in Users /\ op[q].amount > 0
  BY DEF LedgerInv, WellFormed, Spending

(***************************************************************************)
(* A request that arrives, aborts, is rejected or belongs to a service     *)
(* without limits.                                                         *)
(***************************************************************************)
LEMMA OtherStatementKeepsLimits ==
    ASSUME LedgerInv, LimitsInv, LedgerTypeOK', NEW r \in Reqs,
           \A q \in Reqs \ {r} : /\ pc'[q] = pc[q] /\ op'[q] = op[q]
                                 /\ cap'[q] = cap[q] /\ stamp'[q] = stamp[q],
           \A q \in Reqs \ {r}, x \in Rows : locks[x] = q => locks'[x] = q,
           UNCHANGED <<used, maxAmount, peak, day>>,
           cap'[r] \in {cap[r], NoCap}, stamp'[r] \in {stamp[r], 0},
           cap' \in [Reqs -> [Periods -> Nat]], stamp' \in [Reqs -> Days],
           \/ op'[r].kind \notin SpendKinds
           \/ pc'[r] \in Answers \cup {"limits"}
    PROVE  LimitsInv'
<1>1. SpendSerialised(r)' /\ CapWasInForce(r)' /\ RoomKept(r)'
  BY DEF SpendSerialised, CapWasInForce, RoomKept, Spending, Answers
<1>2. stamp'[r] <= day
  BY DEF LimitsInv, TransactionsTypeOK, Days
<1>3. QED
  BY <1>1, <1>2, StatementKeepsLimits, SpendersAreUsers

(***************************************************************************)
(* The statements of a spend, one by one.                                  *)
(***************************************************************************)
LEMMA SpendKeepsLimits ==
    ASSUME LedgerInv, LimitsInv, LedgerTypeOK', NEW r \in Reqs, Spending(r),
           LockForLimits(r) \/ CheckLimits(r) \/ DebitFunding(r) \/ CreditRecipient(r)
               \/ Record(r)
    PROVE  LimitsInv'
<1> DEFINE u == op[r].user
           k == op[r].kind
<1>1. LedgerTypeOK /\ LocksTypeOK /\ TransactionsTypeOK
  BY DEF LedgerInv, LedgerTypeOK, LimitsInv
<1>2. u \in Users /\ u \in Rows /\ k \in SpendKinds /\ op[r] \in Ops
  BY <1>1, SpendersAreUsers, LedgerAssumption DEF Spending, Pots, LedgerTypeOK
<1>3. SpendSerialised(r) /\ CapWasInForce(r) /\ RoomKept(r) /\ stamp[r] <= day
  BY DEF LimitsInv
<1>4. CASE CheckLimits(r) /\ Reject(r)
  <2>1. OthersKept(r) /\ pc'[r] = "rejected"
    BY <1>1, <1>4, EndsKeepOthers DEF Reject, Goto, LedgerTypeOK
  <2>2. cap' = [cap EXCEPT ![r] = NoCap] /\ UNCHANGED <<used, maxAmount, peak, day, stamp>>
    BY <1>4 DEF CheckLimits
  <2>3. QED
    BY <1>1, <2>1, <2>2, OtherStatementKeepsLimits
       DEF OthersKept, Answers, TransactionsTypeOK, NoCap
<1>5. CASE DebitFunding(r) /\ Reject(r)
  <2>1. OthersKept(r) /\ pc'[r] = "rejected"
    BY <1>1, <1>5, EndsKeepOthers DEF Reject, Goto, LedgerTypeOK
  <2>2. QED
    BY <1>1, <1>5, <2>1, OtherStatementKeepsLimits
       DEF OthersKept, Answers, TransactionsTypeOK, DebitFunding, limitVars
<1>6. CASE LockForLimits(r)
  <2>1. OthersKept(r) /\ pc'[r] = "usage" /\ locks'[u] = r
    BY <1>1, <1>2, <1>6, TakeKeepsOthers DEF LockForLimits, OthersKept, Goto, LedgerTypeOK
  <2>2. /\ cap' \in [Reqs -> [Periods -> Nat]]
        /\ cap'[r] = maxAmount[u][k]
        /\ \A q \in Reqs \ {r} : cap'[q] = cap[q]
        /\ op' = op /\ UNCHANGED <<used, maxAmount, peak, day, stamp>>
    BY <1>1, <1>2, <1>6 DEF LockForLimits, TransactionsTypeOK
  <2>3. SpendSerialised(r)' /\ CapWasInForce(r)' /\ RoomKept(r)'
    BY <1>2, <2>1, <2>2 DEF SpendSerialised, CapWasInForce, RoomKept, LimitsInv
  <2>4. QED
    BY <1>1, <1>3, <2>1, <2>2, <2>3, StatementKeepsLimits, SpendersAreUsers
       DEF OthersKept, TransactionsTypeOK
<1>7. CASE CheckLimits(r) /\ ~Reject(r)
  <2>1. /\ OthersKept(r) /\ pc[r] = "usage" /\ pc'[r] = "debit" /\ locks' = locks
        /\ op' = op /\ WithinLimits(r)
        /\ cap' = [cap EXCEPT ![r] = NoCap] /\ UNCHANGED <<used, maxAmount, peak, day, stamp>>
    BY <1>1, <1>7 DEF CheckLimits, OthersKept, Goto, LedgerTypeOK
  <2>2. ASSUME NEW per \in Periods
        PROVE  used[u][k][per][PeriodAt(per, day)] + op[r].amount <= peak[u][k][per]
    <3>1. cap[r][per] <= peak[u][k][per] /\ cap[r][per] \in Nat /\ peak[u][k][per] \in Nat
      BY <1>1, <1>2, <1>3, <2>1 DEF CapWasInForce, Spending, TransactionsTypeOK
    <3>2. PeriodAt(per, day) \in Days
      BY <1>1, PeriodsAreDays DEF TransactionsTypeOK
    <3>3. used[u][k][per][PeriodAt(per, day)] \in Nat /\ op[r].amount \in Nat
      BY <1>1, <1>2, <3>2 DEF TransactionsTypeOK, Ops
    <3>4. QED  BY <2>1, <3>1, <3>3 DEF WithinLimits
  <2>3. RoomKept(r)'
    BY <2>1, <2>2 DEF RoomKept, RoomFor, PeriodAt
  <2>4. SpendSerialised(r)' /\ CapWasInForce(r)'
    BY <1>3, <2>1 DEF SpendSerialised, CapWasInForce, Spending
  <2>5. QED
    BY <1>1, <1>3, <2>1, <2>3, <2>4, StatementKeepsLimits, SpendersAreUsers
       DEF OthersKept, TransactionsTypeOK, NoCap
<1>8. CASE CreditRecipient(r) \/ (DebitFunding(r) /\ ~Reject(r))
  <2>1. /\ OthersKept(r) /\ op' = op
        /\ pc[r] \in {"debit", "credit"} /\ pc'[r] \in {"credit", "record"}
        /\ UNCHANGED <<used, maxAmount, peak, day, cap, stamp>>
    BY <1>1, <1>8, UpdatesKeepOthers
       DEF DebitFunding, CreditRecipient, Debit, Credit, Goto, LedgerTypeOK, limitVars
  <2>2. locks'[u] = r
    BY <1>1, <1>2, <1>3, <1>8, <2>1, TakeKeepsOthers
       DEF DebitFunding, CreditRecipient, Debit, Credit, SpendSerialised
  <2>3. SpendSerialised(r)' /\ CapWasInForce(r)' /\ RoomKept(r)'
    BY <1>3, <2>1, <2>2
       DEF SpendSerialised, CapWasInForce, RoomKept, RoomFor, PeriodAt, Spending
  <2>4. QED
    BY <1>1, <1>3, <2>1, <2>3, StatementKeepsLimits, SpendersAreUsers
       DEF OthersKept, TransactionsTypeOK
<1>9. CASE Record(r)
  <2>1. /\ OthersKept(r) /\ op' = op /\ locks' = locks
        /\ pc[r] = "record" /\ pc'[r] = "commit" /\ stamp'[r] = day
        /\ \A q \in Reqs \ {r} : stamp'[q] = stamp[q]
        /\ stamp' \in [Reqs -> Days] /\ day \in Days
        /\ UNCHANGED <<used, maxAmount, peak, day, cap>>
    BY <1>1, <1>9 DEF Record, OthersKept, Goto, LedgerTypeOK, TransactionsTypeOK
  <2>2. SpendSerialised(r)' /\ CapWasInForce(r)' /\ RoomKept(r)'
    BY <1>3, <2>1 DEF SpendSerialised, CapWasInForce, RoomKept, RoomFor, PeriodAt, Spending
  <2>3. stamp'[r] <= day
    BY <2>1 DEF Days
  <2>4. QED
    BY <1>1, <2>1, <2>2, <2>3, StatementKeepsLimits, SpendersAreUsers
       DEF OthersKept, TransactionsTypeOK
<1>10. QED
  BY <1>4, <1>5, <1>6, <1>7, <1>8, <1>9

(***************************************************************************)
(* COMMIT adds the amount to the day and the month of the row.  RoomKept   *)
(* says that there is room, and nobody else is spending for this user.     *)
(***************************************************************************)
LEMMA CommitKeepsLimits ==
    ASSUME LedgerInv, LimitsInv, LedgerTypeOK', NEW r \in Reqs, Spending(r),
           CommitTransaction(r)
    PROVE  LimitsInv'
<1> DEFINE u == op[r].user
           k == op[r].kind
           a == op[r].amount
<1>1. LedgerTypeOK /\ LocksTypeOK /\ TransactionsTypeOK
  BY DEF LedgerInv, LedgerTypeOK, LimitsInv
<1>2. u \in Users /\ u \in Rows /\ k \in SpendKinds /\ a \in Nat
  BY <1>1, SpendersAreUsers, LedgerAssumption DEF Spending, Pots, LedgerTypeOK, Ops
<1>3. /\ OthersKept(r) /\ op' = op /\ pc[r] = "commit" /\ pc'[r] = "ok"
      /\ UNCHANGED <<maxAmount, peak, day, cap>>
      /\ stamp' \in [Reqs -> Days] /\ stamp'[r] = 0 /\ 0 \in Days
      /\ \A q \in Reqs \ {r} : stamp'[q] = stamp[q]
  <2>1. OthersKept(r) /\ op' = op /\ pc[r] = "commit" /\ pc'[r] = "ok"
    BY <1>1, EndsKeepOthers DEF CommitTransaction, Commit, Goto, LedgerTypeOK
  <2>2. 0 \in Days
    BY TransactionsAssumption DEF Days
  <2>3. QED
    BY <1>1, <2>1, <2>2 DEF CommitTransaction, TransactionsTypeOK
<1>4. stamp[r] \in Days /\ day \in Days /\ stamp[r] <= day /\ RoomFor(r, stamp[r])
      /\ locks[u] = r
  BY <1>1, <1>3 DEF LimitsInv, TransactionsTypeOK, RoomKept, SpendSerialised
<1>5. \A v \in Users, j \in SpendKinds, per \in Periods, d \in Days :
          used'[v][j][per][d] = used[v][j][per][d] +
              (IF v = u /\ j = k /\ d = PeriodAt(per, stamp[r]) THEN a ELSE 0)
  <2> SUFFICES ASSUME NEW v \in Users, NEW j \in SpendKinds, NEW per \in Periods, NEW d \in Days
               PROVE  used'[v][j][per][d] = used[v][j][per][d] +
                          (IF v = u /\ j = k /\ d = PeriodAt(per, stamp[r]) THEN a ELSE 0)
    OBVIOUS
  <2>1. used[v][j][per][d] \in Nat
    BY <1>1 DEF TransactionsTypeOK
  <2>2. CASE v = u /\ j = k
    BY <1>1, <1>2, <2>1, <2>2 DEF CommitTransaction, AddUsage, TransactionsTypeOK
  <2>3. CASE ~(v = u /\ j = k)
    BY <1>1, <1>2, <2>1, <2>3 DEF CommitTransaction, AddUsage, TransactionsTypeOK
  <2>4. QED  BY <2>2, <2>3
<1>6. used' \in [Users -> [SpendKinds -> [Periods -> [Days -> Nat]]]]
  <2> DEFINE sums == [per \in Periods |-> [d \in Days |->
                  used[u][k][per][d] + (IF d = PeriodAt(per, stamp[r]) THEN a ELSE 0)]]
  <2>1. sums \in [Periods -> [Days -> Nat]]
    BY <1>1, <1>2 DEF TransactionsTypeOK
  <2>2. used' = [used EXCEPT ![u][k] = sums]
    BY DEF CommitTransaction, AddUsage
  <2>3. QED
    BY <1>1, <1>2, <2>1, <2>2 DEF TransactionsTypeOK
<1>7. \A v \in Users, j \in SpendKinds, per \in Periods, d \in Days :
          used[v][j][per][d] \in Nat
  BY <1>1 DEF TransactionsTypeOK
<1>8. UsageWithinLimits'
  <2> SUFFICES ASSUME NEW v \in Users, NEW j \in SpendKinds, NEW per \in Periods, NEW d \in Days
               PROVE  used'[v][j][per][d] <= peak[v][j][per]
    BY <1>3 DEF UsageWithinLimits
  <2>1. CASE v = u /\ j = k /\ d = PeriodAt(per, stamp[r])
    BY <1>4, <1>5, <2>1 DEF RoomFor
  <2>2. CASE ~(v = u /\ j = k /\ d = PeriodAt(per, stamp[r]))
    BY <1>5, <1>7, <2>2 DEF UsageWithinLimits, LimitsInv
  <2>3. QED  BY <2>1, <2>2
<1>9. NothingInTheFuture'
  <2> SUFFICES ASSUME NEW v \in Users, NEW j \in SpendKinds, NEW per \in Periods, NEW d \in Days,
                      d > PeriodAt(per, day)
               PROVE  used'[v][j][per][d] = 0
    BY <1>3 DEF NothingInTheFuture, PeriodAt
  <2>1. PeriodAt(per, stamp[r]) <= PeriodAt(per, day) /\ PeriodAt(per, day) \in Days
        /\ PeriodAt(per, stamp[r]) \in Days
    BY <1>4, PeriodsGrow, PeriodsAreDays
  <2>2. d # PeriodAt(per, stamp[r])
    BY <2>1, TransactionsAssumption DEF Days
  <2>3. used[v][j][per][d] = 0
    BY DEF NothingInTheFuture, LimitsInv
  <2>4. QED  BY <1>5, <2>2, <2>3
<1>10. ASSUME NEW q \in Reqs
       PROVE  /\ SpendSerialised(q)' /\ CapWasInForce(q)' /\ RoomKept(q)'
              /\ stamp'[q] <= day
  <2>1. CASE q = r
    BY <1>3, <1>4, <2>1 DEF SpendSerialised, CapWasInForce, RoomKept, Days
  <2>2. CASE q # r
    <3>1. /\ pc'[q] = pc[q] /\ op'[q] = op[q] /\ cap'[q] = cap[q] /\ stamp'[q] = stamp[q]
          /\ SpendSerialised(q) /\ CapWasInForce(q) /\ RoomKept(q) /\ stamp[q] <= day
      BY <1>3, <2>2 DEF LimitsInv, OthersKept
    <3>2. SpendSerialised(q)' /\ CapWasInForce(q)'
      BY <1>3, <2>2, <3>1, SpendersAreUsers, LedgerAssumption
         DEF SpendSerialised, CapWasInForce, Spending, OthersKept, Pots
    <3>3. ASSUME Spending(q), pc[q] \in {"debit", "credit", "record", "commit"},
                 NEW e \in Days
          PROVE  RoomFor(q, e)' = RoomFor(q, e)
      <4>1. op[q].user \in Users /\ op[q].user # u /\ op[q].kind \in SpendKinds
        BY <1>4, <2>2, <3>1, <3>3, SpendersAreUsers DEF SpendSerialised, Spending
      <4>2. \A per \in Periods : PeriodAt(per, e) \in Days
        BY PeriodsAreDays
      <4>3. \A per \in Periods : used'[op[q].user][op[q].kind][per][PeriodAt(per, e)]
                                  = used[op[q].user][op[q].kind][per][PeriodAt(per, e)]
        BY <1>5, <1>7, <4>1, <4>2
      <4>4. QED  BY <1>3, <4>3 DEF RoomFor, PeriodAt
    <3>4. RoomKept(q)'
      BY <1>1, <1>3, <1>4, <3>1, <3>3 DEF RoomKept, Spending, TransactionsTypeOK
    <3>5. QED  BY <3>1, <3>2, <3>4
  <2>3. QED  BY <2>1, <2>2
<1>11. QED
  BY <1>1, <1>3, <1>6, <1>8, <1>9, <1>10 DEF LimitsInv, TransactionsTypeOK

(***************************************************************************)
(* A limit that is changed leaves the largest value it ever had no lower.  *)
(***************************************************************************)
LEMMA SetLimitKeepsLimits ==
    ASSUME LedgerInv, LimitsInv, LedgerTypeOK', SetLimit
    PROVE  LimitsInv'
<1>1. PICK u \in Users, k \in SpendKinds, per \in Periods, max \in LimitValues :
          UpdateLimit(u, k, per, max)
  BY DEF SetLimit
<1>2. max \in Nat /\ TransactionsTypeOK
  BY TransactionsAssumption DEF LimitsInv
<1>3. UNCHANGED <<locks, pc, op, used, day, cap, stamp>>
  BY <1>1 DEF UpdateLimit
<1>4. TransactionsTypeOK'
  BY <1>1, <1>2, <1>3 DEF UpdateLimit, TransactionsTypeOK
<1>5. \A v \in Users, j \in SpendKinds, p \in Periods :
          /\ peak[v][j][p] <= peak'[v][j][p]
          /\ maxAmount'[v][j][p] <= peak'[v][j][p]
  BY <1>1, <1>2 DEF UpdateLimit, TransactionsTypeOK, LimitsInv
<1>6. \A v \in Users, j \in SpendKinds, p \in Periods :
          peak[v][j][p] \in Nat /\ peak'[v][j][p] \in Nat
  BY <1>2, <1>4 DEF TransactionsTypeOK
<1>7. UsageWithinLimits' /\ NothingInTheFuture'
  <2>1. \A v \in Users, j \in SpendKinds, p \in Periods, d \in Days : used[v][j][p][d] \in Nat
    BY <1>2 DEF TransactionsTypeOK
  <2>2. UsageWithinLimits'
    BY <1>3, <1>5, <1>6, <2>1 DEF LimitsInv, UsageWithinLimits
  <2>3. NothingInTheFuture'
    BY <1>3 DEF LimitsInv, NothingInTheFuture, PeriodAt
  <2>4. QED  BY <2>2, <2>3
<1>8. ASSUME NEW q \in Reqs
      PROVE  SpendSerialised(q)' /\ CapWasInForce(q)' /\ RoomKept(q)' /\ stamp'[q] <= day'
  <2>1. SpendSerialised(q) /\ CapWasInForce(q) /\ RoomKept(q) /\ stamp[q] <= day
    BY DEF LimitsInv
  <2>2. Spending(q) => op[q].user \in Users /\ op[q].kind \in SpendKinds /\ op[q].amount \in Nat
    BY SpendersAreUsers DEF Spending, LedgerInv, LedgerTypeOK, Ops
  <2>3. SpendSerialised(q)'
    BY <1>3, <2>1 DEF SpendSerialised, Spending
  <2>4. CapWasInForce(q)'
    <3>1. \A p \in Periods : cap[q][p] \in Nat
      BY <1>2 DEF TransactionsTypeOK
    <3>2. QED
      BY <1>3, <1>5, <1>6, <2>1, <2>2, <3>1 DEF CapWasInForce, Spending
  <2>5. ASSUME Spending(q), NEW e \in Days, RoomFor(q, e)
        PROVE  RoomFor(q, e)'
    <3>1. \A p \in Periods : used[op[q].user][op[q].kind][p][PeriodAt(p, e)] \in Nat
      BY <1>2, <2>2, <2>5, PeriodsAreDays DEF TransactionsTypeOK
    <3>2. QED
      BY <1>3, <1>5, <1>6, <2>2, <2>5, <3>1 DEF RoomFor, PeriodAt
  <2>6. RoomKept(q)'
    BY <1>2, <1>3, <2>1, <2>5 DEF RoomKept, Spending, TransactionsTypeOK
  <2>7. QED  BY <1>3, <2>1, <2>3, <2>4, <2>6
<1>9. QED
  BY <1>4, <1>5, <1>7, <1>8 DEF LimitsInv

(***************************************************************************)
(* At midnight either the period goes on, or an empty one begins: a spend  *)
(* that had room yesterday has room today.                                 *)
(***************************************************************************)
LEMMA MidnightKeepsLimits ==
    ASSUME LedgerInv, LimitsInv, LedgerTypeOK', Midnight
    PROVE  LimitsInv'
<1>1. /\ day \in Days /\ day' \in Days /\ day <= day'
      /\ UNCHANGED <<locks, pc, op, used, maxAmount, peak, cap, stamp>>
      /\ TransactionsTypeOK
  <2>1. TransactionsTypeOK
    BY DEF LimitsInv
  <2>2. day \in 0 .. MaxDay
    BY <2>1 DEF TransactionsTypeOK, Days
  <2>3. day' \in Days /\ day <= day'
    BY <2>2, TransactionsAssumption DEF Midnight, Days
  <2>4. QED
    BY <2>1, <2>2, <2>3 DEF Midnight, Days
<1>2. TransactionsTypeOK' /\ UsageWithinLimits'
  BY <1>1 DEF TransactionsTypeOK, LimitsInv, UsageWithinLimits
<1>3. \A per \in Periods : /\ PeriodAt(per, day) <= PeriodAt(per, day')
                           /\ PeriodAt(per, day) \in Days /\ PeriodAt(per, day') \in Days
  BY <1>1, PeriodsGrow, PeriodsAreDays
<1>4. NothingInTheFuture'
  <2> SUFFICES ASSUME NEW u \in Users, NEW k \in SpendKinds, NEW per \in Periods,
                      NEW d \in Days, d > PeriodAt(per, day')
               PROVE  used[u][k][per][d] = 0
    BY <1>1 DEF NothingInTheFuture
  <2>1. d > PeriodAt(per, day)
    BY <1>3, TransactionsAssumption DEF Days
  <2>2. QED  BY <2>1 DEF NothingInTheFuture, LimitsInv
<1>5. ASSUME NEW q \in Reqs
      PROVE  SpendSerialised(q)' /\ CapWasInForce(q)' /\ RoomKept(q)' /\ stamp'[q] <= day'
  <2>1. /\ SpendSerialised(q) /\ CapWasInForce(q) /\ RoomKept(q)
        /\ stamp[q] \in Days /\ stamp[q] <= day
    BY <1>1 DEF LimitsInv, TransactionsTypeOK
  <2>2. SpendSerialised(q)' /\ CapWasInForce(q)'
    BY <1>1, <2>1 DEF SpendSerialised, CapWasInForce, Spending
  <2>3. ASSUME Spending(q), RoomFor(q, day)
        PROVE  RoomFor(q, day')
    <3> SUFFICES ASSUME NEW per \in Periods
                 PROVE  used[op[q].user][op[q].kind][per][PeriodAt(per, day')] + op[q].amount
                            <= peak[op[q].user][op[q].kind][per]
      BY DEF RoomFor
    <3>1. /\ op[q].user \in Users /\ op[q].kind \in SpendKinds /\ op[q].amount \in Nat
          /\ used[op[q].user][op[q].kind][per][PeriodAt(per, day)] + op[q].amount
                 <= peak[op[q].user][op[q].kind][per]
      BY <2>3, SpendersAreUsers DEF Spending, LedgerInv, LedgerTypeOK, Ops, RoomFor
    <3>2. /\ used[op[q].user][op[q].kind][per][PeriodAt(per, day)] \in Nat
          /\ peak[op[q].user][op[q].kind][per] \in Nat
      BY <1>1, <1>3, <3>1 DEF TransactionsTypeOK
    <3>3. CASE PeriodAt(per, day') = PeriodAt(per, day)
      BY <3>1, <3>3
    <3>4. CASE PeriodAt(per, day') # PeriodAt(per, day)
      <4>1. PeriodAt(per, day') > PeriodAt(per, day)
        BY <1>3, <3>4, TransactionsAssumption DEF Days
      <4>2. used[op[q].user][op[q].kind][per][PeriodAt(per, day')] = 0
        BY <1>3, <3>1, <4>1 DEF NothingInTheFuture, LimitsInv
      <4>3. QED  BY <3>1, <3>2, <4>2
    <3>5. QED  BY <3>3, <3>4
  <2>4. RoomFor(q, day)' = RoomFor(q, day') /\ RoomFor(q, stamp[q])' = RoomFor(q, stamp[q])
    BY <1>1 DEF RoomFor, PeriodAt
  <2>5. RoomKept(q)'
    BY <1>1, <2>1, <2>3, <2>4 DEF RoomKept, Spending
  <2>6. stamp'[q] <= day'
    BY <1>1, <2>1, TransactionsAssumption DEF Days
  <2>7. QED  BY <2>2, <2>5, <2>6
<1>6. QED
  BY <1>1, <1>2, <1>4, <1>5 DEF LimitsInv

(***************************************************************************)
(* Every step of the composed services preserves LimitsInv.                *)
(***************************************************************************)
LEMMA NextKeepsLimits ==
    ASSUME LedgerInv, LimitsInv, [WalletNext \/ WalletDone]_transactionsVars
    PROVE  LimitsInv'
<1>1. LedgerTypeOK /\ LedgerTypeOK' /\ TransactionsTypeOK
  BY NextKeepsLedger DEF LedgerInv, LimitsInv
<1>2. ASSUME NEW r \in Reqs, OthersKept(r), UNCHANGED limitVars,
             op'[r].kind \notin SpendKinds \/ pc'[r] = "limits"
      PROVE  LimitsInv'
  BY <1>1, <1>2, OtherStatementKeepsLimits
     DEF OthersKept, limitVars, TransactionsTypeOK
<1>3. ASSUME NEW r \in Reqs, AbortTransaction(r)
      PROVE  LimitsInv'
  <2>1. OthersKept(r) /\ pc'[r] = "aborted"
    BY <1>1, <1>3, EndsKeepOthers DEF AbortTransaction, Abort, Goto, LedgerTypeOK
  <2>2. 0 \in Days
    BY TransactionsAssumption DEF Days
  <2>3. /\ cap' = [cap EXCEPT ![r] = NoCap] /\ stamp' = [stamp EXCEPT ![r] = 0]
        /\ UNCHANGED <<used, maxAmount, peak, day>>
    BY <1>3 DEF AbortTransaction, ForgetReads
  <2>4. /\ cap' \in [Reqs -> [Periods -> Nat]] /\ stamp' \in [Reqs -> Days]
        /\ cap'[r] = NoCap /\ stamp'[r] = 0
        /\ \A q \in Reqs \ {r} : cap'[q] = cap[q] /\ stamp'[q] = stamp[q]
    BY <1>1, <2>2, <2>3 DEF TransactionsTypeOK, NoCap
  <2>5. QED
    BY <2>1, <2>3, <2>4, <1>1, OtherStatementKeepsLimits DEF OthersKept, Answers
<1>4. ASSUME NEW r \in Reqs, ~Spending(r), TransactionsStep(r)
      PROVE  LimitsInv'
  <2>1. CASE CreditRecipient(r)
    <3>1. OthersKept(r) /\ op' = op
      BY <1>1, <2>1, UpdatesKeepOthers DEF CreditRecipient
    <3>2. QED
      BY <1>2, <1>4, <2>1, <3>1 DEF CreditRecipient, Spending
  <2>2. CASE CommitTransaction(r)
    <3>1. OthersKept(r) /\ op' = op
      BY <1>1, <2>2, EndsKeepOthers DEF CommitTransaction
    <3>2. 0 \in Days
      BY TransactionsAssumption DEF Days
    <3>3. /\ stamp' \in [Reqs -> Days] /\ stamp'[r] = 0
          /\ \A q \in Reqs \ {r} : stamp'[q] = stamp[q]
          /\ UNCHANGED <<used, maxAmount, peak, day, cap>>
      BY <1>1, <1>4, <2>2, <3>2 DEF CommitTransaction, TransactionsTypeOK
    <3>4. QED
      BY <1>1, <1>4, <3>1, <3>3, OtherStatementKeepsLimits
         DEF OthersKept, Spending, TransactionsTypeOK
  <2>3. CASE LockForLimits(r) \/ CheckLimits(r) \/ Record(r)
    BY <1>4, <2>3 DEF LockForLimits, CheckLimits, Record
  <2>4. CASE DebitFunding(r)
    BY <1>4, <2>4 DEF DebitFunding
  <2>5. QED
    BY <1>4, <2>1, <2>2, <2>3, <2>4 DEF TransactionsStep
<1>5. ASSUME NEW r \in Reqs, WalletStep(r)
      PROVE  LimitsInv'
  <2>1. CASE TransactionsStep(r) /\ Spending(r)
    BY <1>1, <2>1, SpendKeepsLimits, CommitKeepsLimits DEF TransactionsStep
  <2>2. CASE TransactionsStep(r) /\ ~Spending(r)
    BY <1>4, <2>2
  <2>3. CASE EnvelopesStep(r) /\ UNCHANGED limitVars
    BY <1>1, <1>2, <2>3, EnvelopesKeepOthers DEF EnvKinds, SpendKinds
  <2>4. CASE GoalsStep(r) /\ UNCHANGED limitVars
    BY <1>1, <1>2, <2>4, GoalsKeepOthers DEF GoalKinds, SpendKinds
  <2>5. QED
    BY <1>5, <2>1, <2>2, <2>3, <2>4 DEF WalletStep, EnvelopesOrGoals
<1>6. ASSUME NEW r \in Reqs,
             \/ BeginTransaction(r)
             \/ (BeginEnvelope(r) \/ BeginGoal(r)) /\ UNCHANGED limitVars
      PROVE  LimitsInv'
  <2>1. UNCHANGED limitVars
    BY <1>6 DEF BeginTransaction, BeginWithdraw, BeginTransfer, BeginDeposit
  <2>2. QED
    BY <1>1, <1>2, <1>6, <2>1, BeginsKeepOthers
<1>7. ASSUME UNCHANGED <<locks, pc, op>>, UNCHANGED limitVars
      PROVE  LimitsInv'
  <2>1. TransactionsTypeOK' /\ UsageWithinLimits' /\ NothingInTheFuture'
    BY <1>1, <1>7 DEF limitVars, LimitsInv, TransactionsTypeOK, UsageWithinLimits,
                      NothingInTheFuture, PeriodAt
  <2>2. \A u \in Users, k \in SpendKinds, per \in Periods :
            maxAmount'[u][k][per] <= peak'[u][k][per]
    BY <1>1, <1>7 DEF limitVars, LimitsInv
  <2>3. ASSUME NEW r \in Reqs
        PROVE  /\ SpendSerialised(r)' /\ CapWasInForce(r)'
               /\ RoomKept(r)' /\ stamp'[r] <= day'
    <3>1. SpendSerialised(r) /\ CapWasInForce(r) /\ RoomKept(r) /\ stamp[r] <= day
      BY <1>1 DEF LimitsInv
    <3>2. QED
      BY <1>7, <3>1 DEF limitVars, SpendSerialised, CapWasInForce, RoomKept, RoomFor,
                        Spending, PeriodAt
  <2>4. QED
    BY <2>1, <2>2, <2>3 DEF LimitsInv
<1>8. QED
  BY <1>1, <1>3, <1>5, <1>6, <1>7, SetLimitKeepsLimits, MidnightKeepsLimits
     DEF WalletNext, WalletDone, CreateEnvelope, CreateGoal, transactionsVars, limitVars

LEMMA NoUsageIsWithinLimits == WalletInit => LimitsInv
<1> SUFFICES ASSUME WalletInit
             PROVE  LimitsInv
  OBVIOUS
<1>1. 0 \in Days /\ LedgerTypeOK
  BY TransactionsAssumption, InitIsSafe
     DEF Days, WalletInit, TransactionsInit, LedgerInv
<1>2. TransactionsTypeOK
  BY <1>1, TransactionsAssumption
     DEF WalletInit, TransactionsInit, LimitsInit, TransactionsTypeOK, NoCap
<1>3. \A u \in Users, k \in SpendKinds, per \in Periods :
          /\ peak[u][k][per] \in Nat
          /\ maxAmount[u][k][per] = peak[u][k][per]
          /\ \A d \in Days : used[u][k][per][d] = 0
  BY <1>1, TransactionsAssumption DEF WalletInit, TransactionsInit, LimitsInit
<1>4. UsageWithinLimits /\ NothingInTheFuture
  BY <1>3 DEF UsageWithinLimits, NothingInTheFuture
<1>5. \A r \in Reqs : pc[r] = "new" /\ stamp[r] = 0 /\ day = 0
  BY DEF WalletInit, TransactionsInit, LimitsInit, LedgerInit
<1>6. QED
  BY <1>2, <1>3, <1>4, <1>5
     DEF LimitsInv, SpendSerialised, CapWasInForce, RoomKept

(***************************************************************************)
(* What is recorded for a user, a kind and a period never exceeds the      *)
(* largest limit that was in force, whatever runs concurrently.            *)
(***************************************************************************)
THEOREM WalletKeepsLimits == WalletSpec => []UsageWithinLimits
<1>1. WalletInit => LedgerInv /\ LimitsInv
  BY InitIsSafe, NoUsageIsWithinLimits DEF WalletInit, TransactionsInit
<1>2. /\ LedgerInv /\ LimitsInv
      /\ [WalletNext \/ WalletDone]_transactionsVars
      => (LedgerInv /\ LimitsInv)'
  BY NextKeepsLedger, NextKeepsLimits
<1>3. LimitsInv => UsageWithinLimits
  BY DEF LimitsInv
<1>4. QED
  BY <1>1, <1>2, <1>3, PTL DEF WalletSpec

(***************************************************************************)
(* Limits, what is used of them, and what requests carry keep their types. *)
(***************************************************************************)
THEOREM TransactionTypesHold == WalletSpec => []TransactionsTypeOK
<1>1. WalletInit => LedgerInv /\ LimitsInv
  BY InitIsSafe, NoUsageIsWithinLimits DEF WalletInit, TransactionsInit
<1>2. /\ LedgerInv /\ LimitsInv
      /\ [WalletNext \/ WalletDone]_transactionsVars
      => (LedgerInv /\ LimitsInv)'
  BY NextKeepsLedger, NextKeepsLimits
<1>3. LimitsInv => TransactionsTypeOK
  BY DEF LimitsInv
<1>4. QED
  BY <1>1, <1>2, <1>3, PTL DEF WalletSpec

(***************************************************************************)
(* TransactionsService alone is a part of the whole: the theorem holds for *)
(* the specification that the runs of Transactions check.                  *)
(***************************************************************************)
THEOREM TransactionsKeepLimits == TransactionsSpec => []UsageWithinLimits
<1>1. TransactionsNext => WalletNext
  BY DEF TransactionsNext, WalletNext, WalletStep
<1>2. TransactionsInit /\ [][TransactionsNext \/ TransactionsDone]_transactionsVars
      => WalletInit /\ [][WalletNext \/ WalletDone]_transactionsVars
  <2>1. [TransactionsNext \/ TransactionsDone]_transactionsVars
        => [WalletNext \/ WalletDone]_transactionsVars
    BY <1>1 DEF TransactionsDone, WalletDone
  <2>2. TransactionsInit => WalletInit
    BY DEF WalletInit
  <2>3. QED  BY <2>1, <2>2, PTL
<1>3. QED
  BY <1>2, WalletKeepsLimits, PTL DEF TransactionsSpec, WalletSpec
=============================================================================
