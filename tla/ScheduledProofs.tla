-------------------------- MODULE ScheduledProofs --------------------------
(***************************************************************************)
(* No scheduled slot is paid twice, skipped or paid ahead of its time, and *)
(* the schedule never goes back, for any number of overlapping runs,       *)
(* requests of the owner, slots and aborted transactions.                  *)
(***************************************************************************)
EXTENDS Scheduled, Sums, TLAPS

(***************************************************************************)
(* A run that is past the limit check has the wallet to itself.            *)
(***************************************************************************)
Serial == {"debit", "record", "succeed", "fail", "advance", "commit"}
Working == {"slot", "insert", "limits"} \cup Serial

\* What a run has read is not ahead of the schedule or of the clock.
SlotKnown(r) ==
    /\ pc[r] # "idle" => sched.status # "ABSENT" /\ now[r] <= clock
    /\ pc[r] \in Working => slot[r] \in Slots /\ slot[r] <= now[r] /\ slot[r] <= sched.next

\* The wallet is locked from the limit check on, and the row that pays from
\* the debit on, while what it holds covers the amount.
Secured(r) ==
    /\ pc[r] \in Serial => locks[Wallet] = r
    /\ pc[r] = "record" \/ sent[r] => locks[Funding] = r /\ Covers

\* A transfer that is not committed yet is the first one of its slot, and
\* only such a transfer is marked as a success.
FirstTransfer(r) ==
    /\ sent[r] => paid[slot[r]] = 0 /\ pc[r] \in {"succeed", "advance", "commit"}
    /\ pc[r] = "succeed" \/ mark[r] = "SUCCESS" => sent[r]
    /\ pc[r] \in {"advance", "commit"} => mark[r] # "NONE"

RunInv(r) == SlotKnown(r) /\ Secured(r) /\ FirstTransfer(r)

(***************************************************************************)
(* The inductive invariant.                                                *)
(***************************************************************************)
ScheduledInv ==
    /\ ScheduledTypeOK
    /\ sched.status = "ABSENT" => sched.next = 1
    /\ PaidAtMostOnce
    /\ PaidInOrder
    /\ SuccessIsPaid
    /\ \A r \in Reqs : RunInv(r)

LEMMA ReleaseKeepsOthers ==
    ASSUME LocksTypeOK, NEW r \in Reqs, ReleaseAll(r)
    PROVE  /\ LocksTypeOK'
           /\ \A q \in Reqs \ {r}, x \in Rows : locks[x] = q => locks'[x] = q
  BY NoReqAssumption DEF ReleaseAll, LocksTypeOK

LEMMA TakeKeepsOthers ==
    ASSUME LocksTypeOK, NEW r \in Reqs, NEW x, Take(r, x)
    PROVE  /\ LocksTypeOK'
           /\ \A q \in Reqs, y \in Rows : locks[y] = q => locks'[y] = q
           /\ x \in Rows => locks'[x] = r
  BY NoReqAssumption DEF Take, Free, LocksTypeOK

LEMMA WalletRowsExist ==
    Wallet \in Rows /\ Funding \in Rows /\ Schedule \in Rows /\ Slots \subseteq Rows
  BY ScheduledAssumption

(***************************************************************************)
(* What a step must leave alone for run q to be as safe as before.         *)
(***************************************************************************)
Undisturbed(q) ==
    /\ pc'[q] = pc[q] /\ now'[q] = now[q] /\ slot'[q] = slot[q]
    /\ mark'[q] = mark[q] /\ sent'[q] = sent[q]
    /\ clock' >= clock /\ sched'.next >= sched.next
    /\ sched.status # "ABSENT" => sched'.status # "ABSENT"
    /\ locks[Wallet] = q => locks'[Wallet] = q /\ paid' = paid
    /\ locks[Funding] = q => locks'[Funding] = q /\ balance' = balance

LEMMA UndisturbedStaysSafe ==
    ASSUME ScheduledTypeOK, ScheduledTypeOK', NEW q \in Reqs, RunInv(q), Undisturbed(q)
    PROVE  RunInv(q)'
<1>1. SlotKnown(q)'
  BY DEF RunInv, SlotKnown, Undisturbed, ScheduledTypeOK, Schedules, Slots, Working, Serial
<1>2. Secured(q)'
  BY DEF RunInv, Secured, Undisturbed, Covers
<1>3. FirstTransfer(q)'
  BY DEF RunInv, Secured, FirstTransfer, Undisturbed, Serial
<1>4. QED  BY <1>1, <1>2, <1>3 DEF RunInv

LEMMA InitIsSafe == ScheduledInit => ScheduledInv
<1> SUFFICES ASSUME ScheduledInit PROVE ScheduledInv
  OBVIOUS
<1>1. ScheduledTypeOK
  <2>1. sched \in Schedules
    BY ScheduledAssumption DEF ScheduledInit, Schedules
  <2>2. QED
    BY <2>1, ScheduledAssumption DEF ScheduledInit, ScheduledTypeOK, LocksTypeOK, NoLocks, Slots
<1>2. \A r \in Reqs : RunInv(r)
  BY DEF ScheduledInit, RunInv, SlotKnown, Secured, FirstTransfer, Working, Serial
<1>3. PaidAtMostOnce /\ PaidInOrder /\ SuccessIsPaid
  BY DEF ScheduledInit, PaidAtMostOnce, PaidInOrder, SuccessIsPaid, Slots
<1>4. QED
  BY <1>1, <1>2, <1>3 DEF ScheduledInv, ScheduledInit

(***************************************************************************)
(* The owner, the administrator and the clock.                             *)
(***************************************************************************)
LEMMA OthersKeepInv ==
    ASSUME ScheduledInv,
           \/ \E once \in BOOLEAN, end \in 1 .. MaxSlot + 1 : Create(once, end)
           \/ \E e \in Edits : \/ \E to \in {"PAUSED", "ACTIVE", "CANCELLED"} :
                                       ReadForEdit(e, to)
                               \/ WriteEdit(e)
           \/ OtherTransaction \/ SetEnabled \/ Tick
    PROVE  ScheduledInv' /\ sched'.next >= sched.next
<1>1. /\ sched' \in Schedules /\ sched'.next = sched.next
      /\ sched'.status = "ABSENT" => sched.status = "ABSENT"
  <2>1. ASSUME NEW once \in BOOLEAN, NEW end \in 1 .. MaxSlot + 1, Create(once, end)
        PROVE  sched' \in Schedules /\ sched'.next = sched.next /\ sched'.status # "ABSENT"
    BY <2>1, ScheduledAssumption DEF Create, Schedules, ScheduledInv, ScheduledTypeOK
  <2>2. ASSUME NEW e \in Edits, WriteEdit(e)
        PROVE  sched' \in Schedules /\ sched'.next = sched.next /\ sched'.status # "ABSENT"
    BY <2>2 DEF WriteEdit, Schedules, ScheduledInv, ScheduledTypeOK, Terminal
  <2>3. CASE UNCHANGED sched
    BY <2>3 DEF ScheduledInv, ScheduledTypeOK
  <2>4. QED
    BY <2>1, <2>2, <2>3 DEF ReadForEdit, OtherTransaction, SetEnabled, Tick
<1>2. /\ edit' \in [Edits -> {"none", "ACTIVE", "PAUSED", "CANCELLED"}]
      /\ clock' \in 0 .. MaxSlot /\ clock' >= clock
  BY ScheduledAssumption
     DEF Create, ReadForEdit, WriteEdit, OtherTransaction, SetEnabled, Tick, ScheduledInv,
         ScheduledTypeOK
<1>3. enabled' \in BOOLEAN
  BY Zenon DEF Create, ReadForEdit, WriteEdit, OtherTransaction, SetEnabled, Tick, ScheduledInv,
         ScheduledTypeOK
<1>4. balance' \in Nat /\ \A q \in Reqs : locks[Funding] = q => balance' = balance
  <2>1. CASE OtherTransaction
    BY <2>1, NoReqAssumption, ScheduledAssumption DEF OtherTransaction
  <2>2. CASE UNCHANGED balance
    BY <2>2 DEF ScheduledInv, ScheduledTypeOK
  <2>3. QED
    BY <2>1, <2>2 DEF Create, ReadForEdit, WriteEdit, SetEnabled, Tick
<1>5. UNCHANGED <<locks, exec, paid, runVars, aborts>>
  BY DEF Create, ReadForEdit, WriteEdit, OtherTransaction, SetEnabled, Tick
<1>6. ScheduledTypeOK'
  BY <1>1, <1>2, <1>3, <1>4, <1>5 DEF ScheduledInv, ScheduledTypeOK, LocksTypeOK, runVars
<1>7. ASSUME NEW q \in Reqs
      PROVE  RunInv(q)'
  <2>1. Undisturbed(q)
    BY <1>1, <1>2, <1>4, <1>5 DEF Undisturbed, runVars, ScheduledInv, ScheduledTypeOK, Schedules
  <2>2. QED  BY <1>6, <2>1, UndisturbedStaysSafe DEF ScheduledInv
<1>8. (PaidAtMostOnce /\ PaidInOrder /\ SuccessIsPaid)'
  BY <1>1, <1>2, <1>5
     DEF ScheduledInv, ScheduledTypeOK, PaidAtMostOnce, PaidInOrder, SuccessIsPaid, Slots
<1>9. QED
  BY <1>1, <1>6, <1>7, <1>8 DEF ScheduledInv, ScheduledTypeOK, Schedules


(***************************************************************************)
(* A run that ends without effect gives its locks back.                    *)
(***************************************************************************)
LEMMA EndingKeepsInv ==
    ASSUME ScheduledInv, NEW r \in Reqs, EndRun(r),
           UNCHANGED <<sched, exec, paid, balance, enabled, clock, edit>>,
           aborts' \in 0 .. MaxAborts
    PROVE  ScheduledInv'
<1>1. LocksTypeOK' /\ \A q \in Reqs \ {r}, x \in Rows : locks[x] = q => locks'[x] = q
  BY ReleaseKeepsOthers DEF ScheduledInv, ScheduledTypeOK, EndRun
<1>2. ScheduledTypeOK'
  <2>1. sent' \in [Reqs -> BOOLEAN]
    BY Zenon DEF ScheduledInv, ScheduledTypeOK, EndRun
  <2>2. enabled' \in BOOLEAN
    BY DEF ScheduledInv, ScheduledTypeOK
  <2>3. QED
    BY <1>1, <2>1, <2>2, ScheduledAssumption
       DEF ScheduledInv, ScheduledTypeOK, EndRun, Goto
<1>3. ASSUME NEW q \in Reqs
      PROVE  RunInv(q)'
  <2>1. CASE q = r
    BY <2>1 DEF ScheduledInv, ScheduledTypeOK, EndRun, Goto, RunInv, SlotKnown, Secured,
                FirstTransfer, Working, Serial
  <2>2. CASE q # r
    <3>1. Undisturbed(q)
      BY <1>1, <2>2, WalletRowsExist
         DEF Undisturbed, EndRun, Goto, ScheduledInv, ScheduledTypeOK, Schedules
    <3>2. QED  BY <1>2, <3>1, UndisturbedStaysSafe DEF ScheduledInv
  <2>3. QED  BY <2>1, <2>2
<1>4. QED
  BY <1>2, <1>3 DEF ScheduledInv, PaidAtMostOnce, PaidInOrder, SuccessIsPaid

(***************************************************************************)
(* A statement that changes only what its run knows, and locks rows, does  *)
(* not disturb the other runs.                                             *)
(***************************************************************************)
LEMMA StatementKeepsInv ==
    ASSUME ScheduledInv, NEW r \in Reqs, ScheduledTypeOK',
           \A q \in Reqs, x \in Rows : locks[x] = q => locks'[x] = q,
           \A q \in Reqs \ {r} : /\ pc'[q] = pc[q] /\ now'[q] = now[q] /\ slot'[q] = slot[q]
                                 /\ mark'[q] = mark[q] /\ sent'[q] = sent[q],
           UNCHANGED <<sched, exec, paid, balance, clock>>,
           RunInv(r)'
    PROVE  ScheduledInv'
<1>1. ASSUME NEW q \in Reqs \ {r}
      PROVE  RunInv(q)'
  <2>1. Undisturbed(q)
    BY WalletRowsExist DEF Undisturbed, ScheduledInv, ScheduledTypeOK, Schedules
  <2>2. QED  BY <2>1, UndisturbedStaysSafe DEF ScheduledInv
<1>2. QED
  BY <1>1 DEF ScheduledInv, PaidAtMostOnce, PaidInOrder, SuccessIsPaid

(***************************************************************************)
(* The statements of a run, up to its COMMIT.                              *)
(***************************************************************************)
LEMMA StartKeepsInv ==
    ASSUME ScheduledInv, NEW r \in Reqs, StartRun(r) \/ ReadSchedule(r) \/ ReadExecution(r)
    PROVE  ScheduledInv'
<1>1. CASE LeaveAlone(r)
  BY <1>1, EndingKeepsInv DEF LeaveAlone, ScheduledInv, ScheduledTypeOK
<1>2. CASE ~LeaveAlone(r)
  <2>1. UNCHANGED <<locks, sched, exec, paid, balance, enabled, clock, mark, sent, edit, aborts>>
    BY <1>2 DEF StartRun, ReadSchedule, ReadExecution
  <2>2. RunInv(r) /\ sched.next \in 1 .. MaxSlot + 1 /\ MaxSlot \in Nat /\ now[r] \in 0 .. MaxSlot
    BY ScheduledAssumption DEF ScheduledInv, ScheduledTypeOK, Schedules
  <2>3. /\ \E step \in {"read", "slot", "limits", "insert"} : pc' = [pc EXCEPT ![r] = step]
        /\ now' \in [Reqs -> 0 .. MaxSlot] /\ slot' \in [Reqs -> 0 .. MaxSlot]
        /\ \A q \in Reqs \ {r} : now'[q] = now[q] /\ slot'[q] = slot[q]
        /\ RunInv(r)'
    <3>1. CASE StartRun(r)
      BY <3>1 DEF StartRun, Goto, ScheduledInv, ScheduledTypeOK, RunInv, SlotKnown, Secured,
                  FirstTransfer, Working, Serial
    <3>2. CASE ReadSchedule(r)
      <4>1. /\ pc[r] = "read" /\ now' = now
            /\ sched.status = "ACTIVE" /\ sched.next <= now[r]
            /\ slot' = [slot EXCEPT ![r] = sched.next] /\ pc' = [pc EXCEPT ![r] = "slot"]
        BY <1>2, <3>2 DEF ReadSchedule, Goto
      <4>2. sched.next \in Slots /\ sched.next \in 0 .. MaxSlot
        BY <2>2, <4>1 DEF Slots
      <4>3. slot' \in [Reqs -> 0 .. MaxSlot] /\ slot'[r] = sched.next /\ pc'[r] = "slot"
        BY <4>1, <4>2 DEF ScheduledInv, ScheduledTypeOK
      <4>4. SlotKnown(r)'
        BY <2>1, <2>2, <4>1, <4>2, <4>3 DEF RunInv, SlotKnown, Working, Serial
      <4>5. Secured(r)' /\ FirstTransfer(r)'
        BY <2>1, <2>2, <4>1, <4>3 DEF RunInv, Secured, FirstTransfer, Serial
      <4>6. QED
        BY <4>1, <4>3, <4>4, <4>5 DEF RunInv, ScheduledInv, ScheduledTypeOK
    <3>3. CASE ReadExecution(r)
      <4>1. /\ pc[r] = "slot" /\ now' = now /\ slot' = slot
            /\ \E step \in {"limits", "insert"} : pc' = [pc EXCEPT ![r] = step]
        BY <1>2, <3>3 DEF ReadExecution, Goto
      <4>2. RunInv(r)'
        BY <2>1, <2>2, <4>1
           DEF ScheduledInv, ScheduledTypeOK, RunInv, SlotKnown, Secured, FirstTransfer, Working,
               Serial
      <4>3. QED
        BY <4>1, <4>2 DEF ScheduledInv, ScheduledTypeOK
    <3>4. QED  BY <3>1, <3>2, <3>3
  <2>4. ScheduledTypeOK'
    <3>1. pc' \in [Reqs -> {"idle", "read", "slot", "insert", "limits", "debit", "record",
                            "succeed", "fail", "advance", "commit"}]
      BY <2>3 DEF ScheduledInv, ScheduledTypeOK
    <3>2. enabled' \in BOOLEAN /\ sent' \in [Reqs -> BOOLEAN]
      BY <2>1 DEF ScheduledInv, ScheduledTypeOK
    <3>3. /\ UNCHANGED <<locks, sched, exec, paid, balance, clock, mark, edit, aborts>>
          /\ now' \in [Reqs -> 0 .. MaxSlot] /\ slot' \in [Reqs -> 0 .. MaxSlot]
      BY <2>1, <2>3
    <3>4. QED
      BY <3>1, <3>2, <3>3 DEF ScheduledInv, ScheduledTypeOK, LocksTypeOK
  <2>5. \A q \in Reqs \ {r} : /\ pc'[q] = pc[q] /\ now'[q] = now[q] /\ slot'[q] = slot[q]
                             /\ mark'[q] = mark[q] /\ sent'[q] = sent[q]
    <3>1. PICK step \in {"read", "slot", "limits", "insert"} : pc' = [pc EXCEPT ![r] = step]
      BY <2>3
    <3>2. pc \in [Reqs -> {"idle", "read"} \cup Working]
      BY DEF ScheduledInv, ScheduledTypeOK, Working, Serial
    <3>3. QED  BY <2>1, <2>3, <3>1, <3>2
  <2>6. QED
    BY <2>1, <2>3, <2>4, <2>5, StatementKeepsInv
<1>3. QED  BY <1>1, <1>2

LEMMA LockingKeepsInv ==
    ASSUME ScheduledInv, NEW r \in Reqs, NEW x \in Rows, NEW step \in Working,
           pc[r] \in Working, Take(r, x) \/ UNCHANGED locks, Goto(r, step),
           UNCHANGED <<sched, exec, paid, balance, enabled, clock, now, slot, edit, aborts>>,
           mark' \in [Reqs -> {"NONE", "FAILED", "SUCCESS"}],
           sent' \in [Reqs -> BOOLEAN],
           \A q \in Reqs \ {r} : mark'[q] = mark[q] /\ sent'[q] = sent[q],
           Secured(r)', FirstTransfer(r)'
    PROVE  ScheduledInv'
<1>1. LocksTypeOK' /\ \A q \in Reqs, y \in Rows : locks[y] = q => locks'[y] = q
  BY TakeKeepsOthers DEF ScheduledInv, ScheduledTypeOK, LocksTypeOK
<1>2. ScheduledTypeOK'
  BY <1>1 DEF ScheduledInv, ScheduledTypeOK, Goto, Working, Serial
<1>3. SlotKnown(r)'
  BY DEF ScheduledInv, ScheduledTypeOK, Goto, RunInv, SlotKnown, Working, Serial
<1>4. QED
  BY <1>1, <1>2, <1>3, StatementKeepsInv DEF ScheduledInv, ScheduledTypeOK, Goto, RunInv

LEMMA StatementsKeepInv ==
    ASSUME ScheduledInv, NEW r \in Reqs,
           \/ InsertExecution(r) \/ CheckLimits(r) \/ DebitFunding(r)
           \/ RecordTransfer(r) \/ MarkExecution(r) \/ Advance(r)
    PROVE  ScheduledInv'
<1> USE WalletRowsExist DEF Working, Serial
<1>t. /\ LocksTypeOK /\ pc \in [Reqs -> {"idle", "read"} \cup Working]
      /\ mark \in [Reqs -> {"NONE", "FAILED", "SUCCESS"}] /\ sent \in [Reqs -> BOOLEAN]
      /\ RunInv(r)
  BY DEF ScheduledInv, ScheduledTypeOK
<1>0. CASE LeaveAlone(r)
  BY <1>0, EndingKeepsInv DEF LeaveAlone, ScheduledInv, ScheduledTypeOK
<1>1. CASE InsertExecution(r) /\ ~LeaveAlone(r)
  <2>1. slot[r] \in Rows /\ Take(r, slot[r])
    BY <1>1, <1>t DEF InsertExecution, RunInv, SlotKnown
  <2>2. Secured(r)' /\ FirstTransfer(r)'
    BY <1>1, <1>t DEF InsertExecution, Goto, RunInv, Secured, FirstTransfer
  <2>3. QED
    BY <1>1, <1>t, <2>1, <2>2, LockingKeepsInv DEF InsertExecution
<1>2. CASE CheckLimits(r)
  <2>1. locks'[Wallet] = r
    BY <1>2, <1>t, TakeKeepsOthers DEF CheckLimits
  <2>2. Secured(r)' /\ FirstTransfer(r)'
    BY <1>2, <1>t, <2>1 DEF CheckLimits, Goto, RunInv, Secured, FirstTransfer
  <2>3. QED
    BY <1>2, <1>t, <2>2, LockingKeepsInv DEF CheckLimits
<1>3. CASE DebitFunding(r)
  <2>1. /\ locks'[Wallet] = r
        /\ pc'[r] = "record" => locks'[Funding] = r /\ Covers
        /\ pc'[r] \in {"record", "fail"}
    BY <1>3, <1>t, TakeKeepsOthers DEF DebitFunding, Goto, RunInv, Secured
  <2>2. Secured(r)' /\ FirstTransfer(r)'
    BY <1>3, <1>t, <2>1 DEF DebitFunding, Goto, RunInv, Secured, FirstTransfer, Covers
  <2>3. QED
    BY <1>3, <1>t, <2>2, LockingKeepsInv DEF DebitFunding
<1>4. CASE RecordTransfer(r) /\ ~LeaveAlone(r)
  <2>1. sent' \in [Reqs -> BOOLEAN]
    BY <1>4, <1>t, Zenon DEF RecordTransfer
  <2>2. Secured(r)' /\ FirstTransfer(r)'
    BY <1>4, <1>t DEF RecordTransfer, Goto, RunInv, Secured, FirstTransfer, Covers
  <2>3. QED
    BY <1>4, <1>t, <2>1, <2>2, LockingKeepsInv DEF RecordTransfer
<1>5. CASE MarkExecution(r)
  <2>1. slot[r] \in Rows
    BY <1>5, <1>t DEF MarkExecution, RunInv, SlotKnown
  <2>2. \A y \in Rows : locks[y] = r => locks'[y] = r
    BY <1>5, <1>t, <2>1, TakeKeepsOthers DEF MarkExecution
  <2>3. Secured(r)'
    BY <1>5, <1>t, <2>2 DEF MarkExecution, Goto, RunInv, Secured, Covers
  <2>4. FirstTransfer(r)'
    BY <1>5, <1>t DEF MarkExecution, Goto, RunInv, FirstTransfer
  <2>5. QED
    BY <1>5, <1>t, <2>1, <2>3, <2>4, LockingKeepsInv DEF MarkExecution
<1>6. CASE Advance(r)
  <2>1. \A y \in Rows : locks[y] = r => locks'[y] = r
    BY <1>6, <1>t, TakeKeepsOthers DEF Advance
  <2>2. Secured(r)' /\ FirstTransfer(r)'
    BY <1>6, <1>t, <2>1 DEF Advance, Goto, RunInv, Secured, FirstTransfer, Covers
  <2>3. QED
    BY <1>6, <1>t, <2>2, LockingKeepsInv DEF Advance
<1>7. QED
  BY <1>0, <1>1, <1>2, <1>3, <1>4, <1>5, <1>6

(***************************************************************************)
(* COMMIT: the run alone has the wallet, so no other run is about to pay.  *)
(***************************************************************************)
LEMMA CommitKeepsInv ==
    ASSUME ScheduledInv, NEW r \in Reqs, CommitRun(r)
    PROVE  ScheduledInv' /\ sched'.next >= sched.next
<1> DEFINE k == slot[r]
<1>t. /\ ScheduledTypeOK /\ RunInv(r) /\ LocksTypeOK /\ pc[r] = "commit"
      /\ k \in Slots /\ paid \in [Slots -> Nat] /\ sched \in Schedules
  BY DEF ScheduledInv, ScheduledTypeOK, RunInv, SlotKnown, CommitRun, Working, Serial
<1>1. /\ locks[Wallet] = r /\ mark[r] \in {"FAILED", "SUCCESS"}
      /\ mark[r] = "SUCCESS" => sent[r]
      /\ sent[r] => paid[k] = 0 /\ locks[Funding] = r /\ balance >= Amount
      /\ k <= sched.next /\ k <= clock
  BY <1>t
     DEF RunInv, SlotKnown, Secured, FirstTransfer, Covers, ScheduledTypeOK, Working, Serial, Slots
<1>2. sent[r] => k = sched.next
  BY <1>t, <1>1 DEF ScheduledInv, PaidInOrder, Schedules, Slots
<1>3. /\ sched' \in Schedules
      /\ sched'.next = sched.next \/ (mark[r] = "SUCCESS" /\ sched'.next = k + 1)
      /\ sched'.status = "ABSENT" => sched'.next = 1
  <2>1. sched.status # "ABSENT"
    BY <1>t DEF RunInv, SlotKnown
  <2>2. CASE sched' = sched
    BY <1>t, <2>1, <2>2
  <2>3. CASE sched' = [sched EXCEPT !.status = "FAILED"]
             \/ sched' = [sched EXCEPT !.status = "COMPLETED"]
    BY <1>t, <2>3 DEF Schedules, Terminal
  <2>4. CASE mark[r] = "SUCCESS" /\ sched' = [sched EXCEPT !.next = k + 1]
    <3>1. k + 1 \in 1 .. MaxSlot + 1
      BY <1>t, ScheduledAssumption DEF Slots
    <3>2. QED
      BY <1>t, <2>1, <2>4, <3>1 DEF Schedules
  <2>5. QED
    BY <1>1, <2>2, <2>3, <2>4 DEF CommitRun, Advanced
<1>4. /\ paid' = [paid EXCEPT ![k] = IF sent[r] THEN @ + 1 ELSE @]
      /\ exec' = [exec EXCEPT ![k] = mark[r]]
      /\ balance' = IF sent[r] THEN balance - Amount ELSE balance
  BY DEF CommitRun
<1>5. sched'.next >= sched.next /\ sched.next \in 1 .. MaxSlot + 1
  BY <1>t, <1>1, <1>2, <1>3, ScheduledAssumption DEF Schedules, Slots
<1>6. LocksTypeOK' /\ \A q \in Reqs \ {r}, x \in Rows : locks[x] = q => locks'[x] = q
  BY <1>t, ReleaseKeepsOthers DEF CommitRun, EndRun
<1>7. ScheduledTypeOK'
  <2>1. sent' \in [Reqs -> BOOLEAN]
    BY <1>t, Zenon DEF CommitRun, EndRun, ScheduledTypeOK
  <2>2. balance' \in Nat
    BY <1>t, <1>1, <1>4, ScheduledAssumption DEF ScheduledTypeOK
  <2>3. paid' \in [Slots -> Nat]
    BY <1>t, <1>4
  <2>4. exec' \in [Slots -> {"NONE", "FAILED", "SUCCESS"}]
    BY <1>t, <1>1, <1>4 DEF ScheduledTypeOK
  <2>5. UNCHANGED <<enabled, clock, edit, aborts>> /\ EndRun(r)
    BY DEF CommitRun
  <2>6. QED
    BY <1>3, <1>6, <1>t, <2>1, <2>2, <2>3, <2>4, <2>5, ScheduledAssumption
       DEF ScheduledTypeOK, EndRun, Goto
<1>8. PaidAtMostOnce'
  BY <1>t, <1>1, <1>4 DEF ScheduledInv, PaidAtMostOnce, Slots
<1>9. SuccessIsPaid'
  BY <1>t, <1>1, <1>4 DEF ScheduledInv, ScheduledTypeOK, SuccessIsPaid, Slots
<1>10. PaidInOrder'
  <2>1. clock' = clock /\ clock \in 0 .. MaxSlot
    BY <1>t DEF CommitRun, ScheduledTypeOK
  <2>2. ASSUME NEW j \in Slots
        PROVE  /\ j < sched'.next => paid'[j] > 0
               /\ paid'[j] > 0 => j <= sched'.next /\ j <= clock'
    <3>1. /\ j < sched.next => paid[j] > 0
          /\ paid[j] > 0 => j <= sched.next /\ j <= clock
      BY DEF ScheduledInv, PaidInOrder
    <3>2. CASE sent[r]
      BY <1>t, <1>1, <1>2, <1>3, <1>4, <1>5, <2>1, <3>1, <3>2 DEF Slots
    <3>3. CASE ~sent[r]
      BY <1>t, <1>1, <1>3, <1>4, <1>5, <2>1, <3>1, <3>3 DEF Slots
    <3>4. QED  BY <3>2, <3>3
  <2>3. QED  BY <2>2 DEF PaidInOrder
<1>11. ASSUME NEW q \in Reqs
       PROVE  RunInv(q)'
  <2>1. CASE q = r
    BY <1>t, <2>1 DEF ScheduledTypeOK, CommitRun, EndRun, Goto, RunInv, SlotKnown, Secured,
                FirstTransfer, Working, Serial
  <2>2. CASE q # r
    <3>1. locks[Wallet] # q
      BY <1>1, <2>2
    <3>2. locks[Funding] = q => balance' = balance
      BY <1>1, <1>4, <2>2
    <3>3. sched.status # "ABSENT" => sched'.status # "ABSENT"
      BY <1>t, <1>1 DEF CommitRun, Advanced, Schedules
    <3>4. Undisturbed(q)
      BY <1>t, <1>5, <1>6, <2>2, <3>1, <3>2, <3>3, WalletRowsExist
         DEF Undisturbed, CommitRun, EndRun, Goto, ScheduledTypeOK
    <3>5. QED  BY <1>7, <3>4, UndisturbedStaysSafe DEF ScheduledInv
  <2>3. QED  BY <2>1, <2>2
<1>12. QED
  BY <1>3, <1>5, <1>7, <1>8, <1>9, <1>10, <1>11 DEF ScheduledInv

LEMMA NextKeepsInv ==
    ASSUME ScheduledInv, [ScheduledNext]_scheduledVars
    PROVE  ScheduledInv' /\ sched'.next >= sched.next
<1>t. sched.next \in 1 .. MaxSlot + 1 /\ sched.next >= sched.next
  BY DEF ScheduledInv, ScheduledTypeOK, Schedules
<1>1. CASE UNCHANGED scheduledVars
  <2>1. UNCHANGED <<locks, sched, exec, paid, balance, enabled, clock, pc, now, slot, mark, sent,
                    edit, aborts>>
    BY <1>1 DEF scheduledVars, runVars
  <2>2. ScheduledTypeOK'
    BY <2>1 DEF ScheduledInv, ScheduledTypeOK, LocksTypeOK
  <2>3. \A q \in Reqs : RunInv(q)'
    BY <2>1 DEF ScheduledInv, RunInv, SlotKnown, Secured, FirstTransfer, Covers
  <2>4. QED
    BY <1>t, <2>1, <2>2, <2>3 DEF ScheduledInv, PaidAtMostOnce, PaidInOrder, SuccessIsPaid
<1>2. ASSUME NEW r \in Reqs, AbortRun(r)
      PROVE  ScheduledInv' /\ sched'.next >= sched.next
  <2>1. aborts' \in 0 .. MaxAborts /\ EndRun(r)
        /\ UNCHANGED <<sched, exec, paid, balance, enabled, clock, edit>>
    BY <1>2, ScheduledAssumption DEF AbortRun, ScheduledInv, ScheduledTypeOK
  <2>2. QED  BY <1>t, <2>1, EndingKeepsInv
<1>3. ASSUME NEW r \in Reqs, StartRun(r) \/ ReadSchedule(r) \/ ReadExecution(r)
      PROVE  ScheduledInv' /\ sched'.next >= sched.next
  <2>1. sched' = sched
    BY <1>3 DEF StartRun, ReadSchedule, ReadExecution, LeaveAlone
  <2>2. QED  BY <1>t, <1>3, <2>1, StartKeepsInv
<1>4. ASSUME NEW r \in Reqs,
             \/ InsertExecution(r) \/ CheckLimits(r) \/ DebitFunding(r)
             \/ RecordTransfer(r) \/ MarkExecution(r) \/ Advance(r)
      PROVE  ScheduledInv' /\ sched'.next >= sched.next
  <2>1. sched' = sched
    BY <1>4 DEF InsertExecution, CheckLimits, DebitFunding, RecordTransfer, MarkExecution,
                Advance, LeaveAlone
  <2>2. QED  BY <1>t, <1>4, <2>1, StatementsKeepInv
<1>5. QED
  BY <1>1, <1>2, <1>3, <1>4, CommitKeepsInv, OthersKeepInv DEF ScheduledNext, RunStep

(***************************************************************************)
(* The rows of a scheduled payment always agree with each other, and a run *)
(* at work has locked, and read, what it is about to change.               *)
(***************************************************************************)
THEOREM ScheduledIsSafe == ScheduledSpec => []ScheduledInv
<1>1. ScheduledInit => ScheduledInv
  BY InitIsSafe
<1>2. ScheduledInv /\ [ScheduledNext]_scheduledVars => ScheduledInv'
  BY NextKeepsInv
<1>3. QED
  BY <1>1, <1>2, PTL DEF ScheduledSpec

(***************************************************************************)
(* Every value stays within its type; the funding row is never overdrawn.  *)
(***************************************************************************)
THEOREM ScheduledTypesHold == ScheduledSpec => []ScheduledTypeOK
<1>1. ScheduledInv => ScheduledTypeOK
  BY DEF ScheduledInv
<1>2. QED
  BY <1>1, ScheduledIsSafe, PTL

(***************************************************************************)
(* No slot is paid twice (the unique execution of a transfer).             *)
(***************************************************************************)
THEOREM SlotsArePaidOnce == ScheduledSpec => []PaidAtMostOnce
<1>1. ScheduledInv => PaidAtMostOnce
  BY DEF ScheduledInv
<1>2. QED
  BY <1>1, ScheduledIsSafe, PTL

(***************************************************************************)
(* What is paid is what lies before nextExecutionAt, and the last slot of  *)
(* a completed schedule (advanceSchedule).                                 *)
(***************************************************************************)
THEOREM SlotsArePaidInOrder == ScheduledSpec => []PaidInOrder
<1>1. ScheduledInv => PaidInOrder
  BY DEF ScheduledInv
<1>2. QED
  BY <1>1, ScheduledIsSafe, PTL

(***************************************************************************)
(* An execution shown as SUCCESS has its transfer.                         *)
(***************************************************************************)
THEOREM SuccessesArePaid == ScheduledSpec => []SuccessIsPaid
<1>1. ScheduledInv => SuccessIsPaid
  BY DEF ScheduledInv
<1>2. QED
  BY <1>1, ScheduledIsSafe, PTL

(***************************************************************************)
(* A slow run never sets nextExecutionAt back (advanceSchedule).           *)
(***************************************************************************)
THEOREM SchedulesMoveForward == ScheduledSpec => ScheduleMovesForward
<1>1. ScheduledInv /\ [ScheduledNext]_scheduledVars
      => [sched'.next >= sched.next]_scheduledVars
  BY NextKeepsInv
<1>2. QED
  BY <1>1, ScheduledIsSafe, PTL DEF ScheduledSpec, ScheduleMovesForward

(***************************************************************************)
(* A run that commits a transfer is a payment of the standing order, one   *)
(* that commits none changes nothing of it.                                *)
(***************************************************************************)
LEMMA CommitPaysOrStutters ==
    ASSUME ScheduledInv, NEW r \in Reqs, CommitRun(r)
    PROVE  (\E k \in Slots : Order!Pay(k)) \/ UNCHANGED Order!vars
<1> DEFINE k == slot[r]
<1>1. /\ ScheduledTypeOK /\ RunInv(r) /\ pc[r] = "commit"
      /\ k \in Slots /\ paid \in [Slots -> Nat] /\ sched \in Schedules
      /\ k <= sched.next /\ k <= clock
  BY DEF ScheduledInv, ScheduledTypeOK, RunInv, SlotKnown, CommitRun, Working, Serial
<1>2. /\ mark[r] \in {"FAILED", "SUCCESS"}
      /\ mark[r] = "SUCCESS" => sent[r]
      /\ sent[r] => paid[k] = 0 /\ balance >= Amount
  BY <1>1 DEF RunInv, Secured, FirstTransfer, Covers, ScheduledTypeOK
<1>3. /\ paid' = [paid EXCEPT ![k] = IF sent[r] THEN @ + 1 ELSE @]
      /\ balance' = IF sent[r] THEN balance - Amount ELSE balance
      /\ sched' = Advanced(r) /\ clock' = clock
  BY DEF CommitRun
<1>4. /\ sched'.next = sched.next \/ sched'.next = k + 1
      /\ mark[r] = "FAILED" => sched'.next = sched.next
  <2>1. \A status : [sched EXCEPT !.status = status].next = sched.next
    BY <1>1 DEF Schedules
  <2>2. [sched EXCEPT !.next = k + 1].next = k + 1
    BY <1>1 DEF Schedules
  <2>3. QED
    BY <1>3, <2>1, <2>2 DEF Advanced
<1> HIDE DEF k
<1>5. CASE sent[r]
  <2>1. k = sched.next
    BY <1>1, <1>2, <1>5 DEF ScheduledInv, PaidInOrder, Schedules, Slots
  <2>2. paid' = [paid EXCEPT ![k] = 1]
    BY <1>1, <1>2, <1>3, <1>5
  <2>3. Order!Pay(k)
    BY <1>1, <1>2, <1>3, <1>4, <1>5, <2>1, <2>2 DEF Order!Pay
  <2>4. QED  BY <1>1, <2>3
<1>6. CASE ~sent[r]
  <2>1. paid' = paid
    BY <1>1, <1>3, <1>6
  <2>2. sched'.next = sched.next
    BY <1>2, <1>4, <1>6
  <2>3. QED  BY <1>3, <1>6, <2>1, <2>2 DEF Order!vars
<1>7. QED  BY <1>5, <1>6

(***************************************************************************)
(* Every step is a step of the standing order or leaves it alone.          *)
(***************************************************************************)
LEMMA StepsOfOrder ==
    ASSUME ScheduledInv, [ScheduledNext]_scheduledVars
    PROVE  [Order!Next]_(Order!vars)
<1>t. sched \in Schedules
  BY DEF ScheduledInv, ScheduledTypeOK
<1>1. CASE UNCHANGED <<clock, sched, paid, balance>>
  BY <1>1 DEF Order!vars
<1>2. ASSUME NEW once \in BOOLEAN, NEW end \in 1 .. MaxSlot + 1, Create(once, end)
      PROVE  UNCHANGED Order!vars
  BY <1>2 DEF Create, ScheduledInv, Order!vars
<1>3. ASSUME NEW e \in Edits, WriteEdit(e)
      PROVE  UNCHANGED Order!vars
  BY <1>t, <1>3 DEF WriteEdit, Schedules, Order!vars
<1>4. CASE OtherTransaction
  <2>1. balance' \in Nat
    BY <1>4, ScheduledAssumption DEF OtherTransaction
  <2>2. QED  BY <1>4, <2>1 DEF OtherTransaction, Order!Next, Order!Spend
<1>5. CASE Tick
  BY <1>5 DEF Tick, Order!Next, Order!Tick
<1>6. ASSUME NEW r \in Reqs, CommitRun(r)
      PROVE  [Order!Next]_(Order!vars)
  BY <1>6, CommitPaysOrStutters DEF Order!Next
<1>7. QED
  <2>1. CASE UNCHANGED scheduledVars
    BY <1>1, <2>1 DEF scheduledVars
  <2>2. ASSUME NEW r \in Reqs, StartRun(r) \/ RunStep(r) \/ AbortRun(r), ~CommitRun(r)
        PROVE  UNCHANGED <<clock, sched, paid, balance>>
    BY <2>2
       DEF StartRun, RunStep, AbortRun, ReadSchedule, ReadExecution, InsertExecution, CheckLimits,
           DebitFunding, RecordTransfer, MarkExecution, Advance, LeaveAlone
  <2>3. CASE SetEnabled \/ \E e \in Edits, to \in {"PAUSED", "ACTIVE", "CANCELLED"} :
                               ReadForEdit(e, to)
    BY <1>1, <2>3 DEF SetEnabled, ReadForEdit
  <2>4. QED
    BY <1>1, <1>2, <1>3, <1>4, <1>5, <1>6, <2>1, <2>2, <2>3 DEF ScheduledNext, RunStep

(***************************************************************************)
(* Overlapping runs, their retries and aborts, the owner and the           *)
(* administrator together implement a standing order that pays each slot   *)
(* in its turn in one step (processSinglePayment).                         *)
(***************************************************************************)
THEOREM ScheduledImplementsOrder == ScheduledSpec => InstalmentsAreAtomic
<1>1. ScheduledInit => Order!Init
  BY DEF ScheduledInit, Order!Init
<1>2. ScheduledInv /\ [ScheduledNext]_scheduledVars => [Order!Next]_(Order!vars)
  BY StepsOfOrder
<1>3. QED
  BY <1>1, <1>2, ScheduledIsSafe, PTL DEF ScheduledSpec, InstalmentsAreAtomic, Order!Spec

(***************************************************************************)
(* A run that goes on has found its slot not paid, and what it found is    *)
(* still so as long as there is no other run.                              *)
(***************************************************************************)
RecordHolds(r) ==
    /\ PaidIsRecorded
    /\ pc[r] \in Working \ {"slot"} => exec[slot[r]] # "SUCCESS"
    /\ sent[r] /\ pc[r] \in {"advance", "commit"} => mark[r] = "SUCCESS"

LEMMA RunKeepsRecord ==
    ASSUME ScheduledInv, NEW r, Reqs = {r}, RecordHolds(r),
           StartRun(r) \/ RunStep(r) \/ AbortRun(r)
    PROVE  RecordHolds(r)'
<1>t. /\ pc \in [Reqs -> {"idle", "read"} \cup Working] /\ sent \in [Reqs -> BOOLEAN]
      /\ mark \in [Reqs -> {"NONE", "FAILED", "SUCCESS"}]
      /\ exec \in [Slots -> {"NONE", "FAILED", "SUCCESS"}] /\ paid \in [Slots -> Nat]
      /\ RunInv(r) /\ r \in Reqs
  BY DEF ScheduledInv, ScheduledTypeOK, Working, Serial
<1>1. CASE UNCHANGED <<exec, paid>> /\ EndRun(r)
  <2>1. pc'[r] = "idle"
    BY <1>t, <1>1 DEF EndRun, Goto
  <2>2. QED
    BY <1>1, <2>1 DEF RecordHolds, PaidIsRecorded, Working, Serial
<1>2. CASE StartRun(r) \/ ReadSchedule(r) \/ ReadExecution(r)
  <2>1. CASE LeaveAlone(r)
    BY <1>1, <2>1 DEF LeaveAlone
  <2>2. CASE ~LeaveAlone(r)
    <3>1. UNCHANGED <<exec, paid, mark, sent>>
      BY <1>2, <2>2 DEF StartRun, ReadSchedule, ReadExecution
    <3>2. pc'[r] \in {"read", "slot", "limits", "insert"}
      BY <1>2, <1>t, <2>2 DEF StartRun, ReadSchedule, ReadExecution, Goto
    <3>3. pc'[r] \in {"limits", "insert"} => slot' = slot /\ exec[slot[r]] # "SUCCESS"
      BY <1>2, <1>t, <2>2 DEF StartRun, ReadSchedule, ReadExecution, Goto
    <3>4. QED
      BY <3>1, <3>2, <3>3 DEF RecordHolds, PaidIsRecorded, Working, Serial
  <2>3. QED  BY <2>1, <2>2
<1>3. CASE InsertExecution(r) \/ CheckLimits(r) \/ DebitFunding(r) \/ RecordTransfer(r)
  <2>1. CASE LeaveAlone(r)
    BY <1>1, <2>1 DEF LeaveAlone
  <2>2. CASE ~LeaveAlone(r)
    <3>1. UNCHANGED <<exec, paid, slot>>
      BY <1>3, <2>2 DEF InsertExecution, CheckLimits, DebitFunding, RecordTransfer
    <3>2. /\ pc[r] \in {"insert", "limits", "debit", "record"}
          /\ pc'[r] \in {"limits", "debit", "record", "fail", "succeed"}
      BY <1>3, <1>t, <2>2 DEF InsertExecution, CheckLimits, DebitFunding, RecordTransfer, Goto
    <3>3. QED
      BY <3>1, <3>2 DEF RecordHolds, PaidIsRecorded, Working, Serial
  <2>3. QED  BY <2>1, <2>2
<1>4. CASE MarkExecution(r)
  <2>1. /\ UNCHANGED <<exec, paid, slot, sent>> /\ pc[r] \in {"succeed", "fail"}
        /\ pc'[r] \in {"advance", "commit"}
        /\ pc[r] = "succeed" => mark'[r] = "SUCCESS"
    BY <1>4, <1>t DEF MarkExecution, Goto
  <2>2. sent[r] => pc[r] = "succeed"
    BY <1>t, <2>1 DEF RunInv, FirstTransfer
  <2>3. QED
    BY <2>1, <2>2 DEF RecordHolds, PaidIsRecorded, Working, Serial
<1>5. CASE Advance(r)
  <2>1. UNCHANGED <<exec, paid, slot, sent, mark>> /\ pc[r] = "advance" /\ pc'[r] = "commit"
    BY <1>5, <1>t DEF Advance, Goto
  <2>2. QED
    BY <2>1 DEF RecordHolds, PaidIsRecorded, Working, Serial
<1>6. CASE CommitRun(r)
  <2>1. /\ pc[r] = "commit" /\ pc'[r] = "idle" /\ slot[r] \in Slots
        /\ exec' = [exec EXCEPT ![slot[r]] = mark[r]]
        /\ paid' = [paid EXCEPT ![slot[r]] = IF sent[r] THEN @ + 1 ELSE @]
    BY <1>6, <1>t DEF CommitRun, EndRun, Goto, RunInv, SlotKnown, Working, Serial
  <2>2. ASSUME NEW k \in Slots, paid'[k] > 0
        PROVE  exec'[k] = "SUCCESS"
    <3>1. CASE k # slot[r]
      BY <1>t, <2>1, <2>2, <3>1 DEF RecordHolds, PaidIsRecorded
    <3>2. CASE k = slot[r] /\ sent[r]
      BY <1>t, <2>1, <3>2 DEF RecordHolds
    <3>3. CASE k = slot[r] /\ ~sent[r]
      BY <1>t, <2>1, <2>2, <3>3 DEF RecordHolds, PaidIsRecorded, Working, Serial
    <3>4. QED  BY <3>1, <3>2, <3>3
  <2>3. QED
    BY <2>1, <2>2 DEF RecordHolds, PaidIsRecorded, Working, Serial
<1>7. CASE AbortRun(r)
  BY <1>1, <1>7 DEF AbortRun
<1>8. QED  BY <1>2, <1>3, <1>4, <1>5, <1>6, <1>7 DEF RunStep

(***************************************************************************)
(* As long as no run starts before the previous one has ended, a slot that *)
(* has been paid is shown as SUCCESS: the violation needs runs that        *)
(* overlap (ScheduledPaymentsScheduler, processSinglePayment).             *)
(***************************************************************************)
THEOREM RecordsAreTrueOneAtATime ==
    ASSUME NEW r, Reqs = {r}
    PROVE  ScheduledSpec => []PaidIsRecorded
<1>1. ScheduledInit => RecordHolds(r)
  BY DEF ScheduledInit, RecordHolds, PaidIsRecorded, Working, Serial, Slots
<1>2. ScheduledInv /\ RecordHolds(r) /\ [ScheduledNext]_scheduledVars => RecordHolds(r)'
  <2> SUFFICES ASSUME ScheduledInv, RecordHolds(r), [ScheduledNext]_scheduledVars
               PROVE  RecordHolds(r)'
    OBVIOUS
  <2>1. CASE UNCHANGED <<exec, paid, runVars>>
    BY <2>1 DEF RecordHolds, PaidIsRecorded, runVars
  <2>2. CASE UNCHANGED scheduledVars
    BY <2>1, <2>2 DEF scheduledVars
  <2>3. CASE \E q \in Reqs : StartRun(q) \/ RunStep(q) \/ AbortRun(q)
    BY <2>3, RunKeepsRecord
  <2>4. CASE \/ \E once \in BOOLEAN, end \in 1 .. MaxSlot + 1 : Create(once, end)
             \/ \E e \in Edits : \/ \E to \in {"PAUSED", "ACTIVE", "CANCELLED"} :
                                         ReadForEdit(e, to)
                                 \/ WriteEdit(e)
             \/ OtherTransaction \/ SetEnabled \/ Tick
    BY <2>1, <2>4 DEF Create, ReadForEdit, WriteEdit, OtherTransaction, SetEnabled, Tick
  <2>5. QED
    BY <2>2, <2>3, <2>4 DEF ScheduledNext
<1>3. RecordHolds(r) => PaidIsRecorded
  BY DEF RecordHolds
<1>4. QED
  BY <1>1, <1>2, <1>3, ScheduledIsSafe, PTL DEF ScheduledSpec

(***************************************************************************)
(* The calendar.  A month has 28 to 31 days, and the days before a month   *)
(* are those before the one that precedes it and the days of that one.     *)
(***************************************************************************)
LEMMA MonthsHave28To31Days == \A m \in Int : DaysIn(m) \in 28 .. 31
  BY DEF DaysIn

LEMMA DaysBeforeNextMonth ==
    ASSUME NEW m \in 0 .. 2 * MaxMonth - 1
    PROVE  /\ DaysBefore[m] \in Int
           /\ DaysBefore[m + 1] = DaysBefore[m] + DaysIn(m)
<1> DEFINE S == 0 .. m - 1
<1>1. /\ MaxMonth \in Nat /\ m \in 0 .. 2 * MaxMonth /\ m + 1 \in 0 .. 2 * MaxMonth
      /\ m + 1 - 1 = m
  BY CalendarAssumption
<1>2. S \cup {m} = 0 .. m /\ m \notin S
  <2>1. m \in Nat
    BY <1>1
  <2>2. \A k : k \in 0 .. m <=> k \in 0 .. m - 1 \/ k = m
    BY <2>1
  <2>3. m \notin S /\ \A k : k \in S \cup {m} <=> k \in 0 .. m
    BY <2>1, <2>2
  <2>4. QED
    <3> DEFINE I == 0 .. m
    <3> HIDE DEF S, I
    <3>1. \A k : k \in S \cup {m} <=> k \in I
      BY <2>3 DEF I
    <3>2. S \cup {m} = I
      BY <3>1
    <3>3. QED  BY <2>3, <3>2 DEF I
<1>3. IsFiniteSet(S)
  <2> DEFINE last == m - 1
  <2>1. last \in Int
    BY <1>1
  <2>2. IsFiniteSet(0 .. last)
    <3> HIDE DEF last
    <3> QED  BY <2>1, FS_Interval
  <2>3. QED  BY <2>2
<1>4. \A k \in S \cup {m} : MonthLengths[k] \in Int
  BY <1>1, <1>2, MonthsHave28To31Days DEF MonthLengths
<1>5. DaysBefore[m] = SumFunctionOnSet(MonthLengths, S)
  BY <1>1 DEF DaysBefore
<1>6. DaysBefore[m + 1] = SumFunctionOnSet(MonthLengths, S \cup {m})
  <2>1. DaysBefore[m + 1] = SumFunctionOnSet(MonthLengths, 0 .. m + 1 - 1)
    BY <1>1 DEF DaysBefore
  <2>2. 0 .. m + 1 - 1 = 0 .. m
    BY <1>1
  <2> HIDE DEF S
  <2>3. QED  BY <1>2, <2>1, <2>2
<1>7. MonthLengths[m] = DaysIn(m)
  BY <1>1 DEF MonthLengths
<1> HIDE DEF S
<1>8. SumFunctionOnSet(MonthLengths, S) \in Int
  BY <1>3, <1>4, SumType
<1>9. SumFunctionOnSet(MonthLengths, S \cup {m}) =
      SumFunctionOnSet(MonthLengths, S) + MonthLengths[m]
  BY <1>2, <1>3, <1>4, SumWith
<1>10. QED  BY <1>5, <1>6, <1>7, <1>8, <1>9

(***************************************************************************)
(* One week on is seven days on, and a day of this month or of the next.   *)
(***************************************************************************)
LEMMA WeeksAreSevenDays ==
    ASSUME NEW m \in 0 .. 2 * MaxMonth - 1, NEW t \in DatesIn(m)
    PROVE  /\ NextWeek(t) \in DatesIn(m) \cup DatesIn(m + 1)
           /\ DayNumber(t) \in Int
           /\ DayNumber(NextWeek(t)) = DayNumber(t) + 7
<1>1. /\ m \in Int /\ m + 1 \in Int
      /\ DaysIn(m) \in 28 .. 31 /\ DaysIn(m + 1) \in 28 .. 31
  BY CalendarAssumption, MonthsHave28To31Days
<1>2. PICK d \in 1 .. DaysIn(m) : t = [month |-> m, day |-> d]
  BY DEF DatesIn
<1>3. DaysBefore[m] \in Int /\ DaysBefore[m + 1] = DaysBefore[m] + DaysIn(m)
  BY DaysBeforeNextMonth
<1>4. d \in Int /\ t.month = m /\ t.day = d
  BY <1>1, <1>2
<1>5. CASE d + 7 <= DaysIn(m)
  <2>1. NextWeek(t) = [month |-> m, day |-> d + 7]
    BY <1>1, <1>2, <1>4, <1>5 DEF NextWeek, DateOf
  <2>2. d + 7 \in 1 .. DaysIn(m)
    BY <1>1, <1>2, <1>5
  <2>3. NextWeek(t) \in DatesIn(m)
    BY <2>1, <2>2 DEF DatesIn
  <2>4. QED  BY <1>3, <1>4, <2>1, <2>3 DEF DayNumber
<1>6. CASE d + 7 > DaysIn(m)
  <2>1. NextWeek(t) = [month |-> m + 1, day |-> d + 7 - DaysIn(m)]
    BY <1>1, <1>2, <1>4, <1>6 DEF NextWeek, DateOf
  <2>2. d + 7 - DaysIn(m) \in 1 .. DaysIn(m + 1)
    BY <1>1, <1>2, <1>6
  <2>3. NextWeek(t) \in DatesIn(m + 1)
    BY <2>1, <2>2 DEF DatesIn
  <2>4. QED  BY <1>1, <1>3, <1>4, <2>1, <2>3 DEF DayNumber
<1>7. QED  BY <1>1, <1>4, <1>5, <1>6

(***************************************************************************)
(* One month on is a day of the next month, and not a later one.           *)
(***************************************************************************)
LEMMA MonthsAreNotMissed ==
    ASSUME NEW m \in Nat, NEW t \in DatesIn(m)
    PROVE  NextMonth(t) \in DatesIn(m + 1) /\ NextMonth(t).day <= t.day
<1>1. m + 1 \in Int /\ DaysIn(m) \in 28 .. 31 /\ DaysIn(m + 1) \in 28 .. 31
  BY MonthsHave28To31Days
<1>2. PICK d \in 1 .. DaysIn(m) : t = [month |-> m, day |-> d]
  BY DEF DatesIn
<1>3. d \in Int /\ d >= 1 /\ t.month = m /\ t.day = d
  BY <1>1, <1>2
<1> DEFINE moved == DateOf(m + 1, d)
<1>4. CASE d <= DaysIn(m + 1)
  <2>1. moved = [month |-> m + 1, day |-> d]
    BY <1>1, <1>3, <1>4 DEF DateOf
  <2>2. NextMonth(t) = [month |-> m + 1, day |-> d]
    BY <1>3, <2>1 DEF NextMonth
  <2>3. d \in 1 .. DaysIn(m + 1)
    BY <1>1, <1>3, <1>4
  <2>4. QED  BY <1>3, <2>2, <2>3 DEF DatesIn
<1>5. CASE d > DaysIn(m + 1)
  <2>1. moved = [month |-> m + 1 + 1, day |-> d - DaysIn(m + 1)]
    BY <1>1, <1>3, <1>5 DEF DateOf
  <2>2. moved.day # d
    BY <1>1, <1>3, <2>1
  <2>3. m + 1 + 1 - 1 = m + 1
    OBVIOUS
  <2>4. DateOf(m + 1 + 1, 0) = [month |-> m + 1, day |-> DaysIn(m + 1)]
    BY <2>3 DEF DateOf
  <2>5. NextMonth(t) = [month |-> m + 1, day |-> DaysIn(m + 1)]
    BY <1>3, <2>1, <2>2, <2>4 DEF NextMonth
  <2>6. DaysIn(m + 1) \in 1 .. DaysIn(m + 1)
    BY <1>1
  <2>7. QED  BY <1>1, <1>3, <1>5, <2>5, <2>6 DEF DatesIn
<1>6. QED  BY <1>1, <1>3, <1>4, <1>5

(***************************************************************************)
(* The dates of a schedule, one from another.  The function exists because *)
(* it does up to every date, which is shown by counting up to MaxMonth.    *)
(***************************************************************************)
DateFrom(frequency, start, date, n) ==
    IF n = 0 THEN start ELSE ComputeNextExecutionAt(date[n - 1], frequency)

LEMMA DatesExist ==
    ASSUME NEW frequency, NEW start, NEW last \in Nat
    PROVE  \E date : date = [n \in 0 .. last |-> DateFrom(frequency, start, date, n)]
<1> DEFINE P == {k \in 0 .. last : \E date :
                     date = [n \in 0 .. k |-> DateFrom(frequency, start, date, n)]}
<1>1. 0 \in P
  <2> DEFINE date == [n \in 0 .. 0 |-> start]
  <2>1. date = [n \in 0 .. 0 |-> DateFrom(frequency, start, date, n)]
    BY DEF DateFrom
  <2> HIDE DEF date
  <2>2. QED  BY <2>1
<1>2. ASSUME NEW k \in 0 .. last - 1, k \in P PROVE k + 1 \in P
  <2>1. PICK date : date = [n \in 0 .. k |-> DateFrom(frequency, start, date, n)]
    BY <1>2
  <2> DEFINE more == [n \in 0 .. k + 1 |-> DateFrom(frequency, start, date, n)]
  <2>2. \A n \in 0 .. k : more[n] = date[n]
    <3>1. \A n \in 0 .. k : n \in 0 .. k + 1
      OBVIOUS
    <3>2. \A n \in 0 .. k : date[n] = DateFrom(frequency, start, date, n)
      BY <2>1
    <3>3. QED  BY <3>1, <3>2
  <2>3. ASSUME NEW n \in 0 .. k + 1
        PROVE  more[n] = DateFrom(frequency, start, more, n)
    <3>1. n # 0 => n - 1 \in 0 .. k
      OBVIOUS
    <3>2. more[n] = DateFrom(frequency, start, date, n)
      OBVIOUS
    <3> HIDE DEF more
    <3>3. QED  BY <2>2, <3>1, <3>2 DEF DateFrom
  <2>4. more = [n \in 0 .. k + 1 |-> more[n]]
    OBVIOUS
  <2> HIDE DEF more
  <2>5. more = [n \in 0 .. k + 1 |-> DateFrom(frequency, start, more, n)]
    BY <2>3, <2>4
  <2>6. k + 1 \in 0 .. last
    OBVIOUS
  <2>7. QED  BY <2>5, <2>6
<1>3. last \in P
  <2> HIDE DEF P
  <2> QED  BY <1>1, <1>2, CountingUp
<1>4. QED  BY <1>3

LEMMA DatesFollow ==
    ASSUME NEW frequency, NEW start, NEW n \in 0 .. MaxMonth
    PROVE  DatesOf(frequency, start)[n] =
           DateFrom(frequency, start, DatesOf(frequency, start), n)
<1> DEFINE Dates == CHOOSE date :
               date = [k \in 0 .. MaxMonth |-> DateFrom(frequency, start, date, k)]
<1>1. DatesOf(frequency, start) = Dates
  BY DEF DatesOf, DateFrom
<1>2. Dates = [k \in 0 .. MaxMonth |-> DateFrom(frequency, start, Dates, k)]
  BY CalendarAssumption, DatesExist
<1> HIDE DEF Dates
<1>3. Dates[n] = DateFrom(frequency, start, Dates, n)
  BY <1>2
<1>4. QED  BY <1>1, <1>3

LEMMA DatesOneByOne ==
    ASSUME NEW start
    PROVE  /\ \A frequency : DatesOf(frequency, start)[0] = start
           /\ \A n \in 1 .. MaxMonth :
                 /\ DatesOf("WEEKLY", start)[n] = NextWeek(DatesOf("WEEKLY", start)[n - 1])
                 /\ DatesOf("MONTHLY", start)[n] = NextMonth(DatesOf("MONTHLY", start)[n - 1])
<1>1. \A frequency, n : n \in 0 .. MaxMonth =>
          DatesOf(frequency, start)[n] =
          DateFrom(frequency, start, DatesOf(frequency, start), n)
  BY DatesFollow
<1>2. 0 \in 0 .. MaxMonth /\ \A n \in 1 .. MaxMonth : n \in 0 .. MaxMonth /\ n # 0
  BY CalendarAssumption
<1>3. \A frequency : DatesOf(frequency, start)[0] = start
  BY <1>1, <1>2 DEF DateFrom
<1>4. ASSUME NEW n \in 1 .. MaxMonth
      PROVE  /\ DatesOf("WEEKLY", start)[n] = NextWeek(DatesOf("WEEKLY", start)[n - 1])
             /\ DatesOf("MONTHLY", start)[n] = NextMonth(DatesOf("MONTHLY", start)[n - 1])
  <2>1. \A frequency, date :
            DateFrom(frequency, start, date, n) =
            ComputeNextExecutionAt(date[n - 1], frequency)
    BY <1>2 DEF DateFrom
  <2>2. \A t : /\ ComputeNextExecutionAt(t, "WEEKLY") = NextWeek(t)
               /\ ComputeNextExecutionAt(t, "MONTHLY") = NextMonth(t)
    BY DEF ComputeNextExecutionAt
  <2>3. QED  BY <1>1, <1>2, <2>1, <2>2
<1>5. QED  BY <1>3, <1>4

(***************************************************************************)
(* Date n of a weekly schedule is n weeks after its start.                 *)
(***************************************************************************)
LEMMA WeeklyDatesAreRegular ==
    ASSUME NEW start \in StartDates
    PROVE  \A n \in 0 .. MaxMonth :
               DayNumber(DatesOf("WEEKLY", start)[n]) = DayNumber(start) + 7 * n
<1> DEFINE date == DatesOf("WEEKLY", start)
           P == {n \in 0 .. MaxMonth :
                    /\ \E m \in 0 .. start.month + n : date[n] \in DatesIn(m)
                    /\ DayNumber(date[n]) = DayNumber(start) + 7 * n}
<1>1. PICK first \in 0 .. MaxMonth : start \in DatesIn(first)
  BY CalendarAssumption DEF StartDates
<1>2. start.month = first /\ MaxMonth \in Nat
  BY <1>1, CalendarAssumption DEF DatesIn
<1>3. DayNumber(start) \in Int
  <2>1. CASE MaxMonth > 0
    <3>1. first \in 0 .. 2 * MaxMonth - 1
      BY <1>2, <2>1
    <3>2. QED  BY <1>1, <3>1, WeeksAreSevenDays
  <2>2. CASE MaxMonth = 0
    <3>1. first = 0 /\ start.day \in Int
      BY <1>1, <1>2, <2>2, MonthsHave28To31Days DEF DatesIn
    <3>2. DaysBefore[0] = 0
      <4>1. 0 \in 0 .. 2 * MaxMonth /\ 0 .. 0 - 1 = {}
        BY <1>2
      <4>2. QED  BY <4>1, SumOfNone DEF DaysBefore
    <3>3. QED  BY <1>2, <3>1, <3>2 DEF DayNumber
  <2>3. QED  BY <1>2, <2>1, <2>2
<1>4. 0 \in P
  <2>1. date[0] = start
    BY DatesOneByOne
  <2>2. 0 \in 0 .. MaxMonth /\ first \in 0 .. start.month + 0
    BY <1>1, <1>2
  <2> HIDE DEF date
  <2>3. DayNumber(date[0]) = DayNumber(start) + 7 * 0
    BY <1>3, <2>1
  <2>4. QED  BY <1>1, <2>1, <2>2, <2>3
<1>5. ASSUME NEW n \in 0 .. MaxMonth - 1, n \in P
      PROVE  n + 1 \in P
  <2>1. PICK m \in 0 .. start.month + n : date[n] \in DatesIn(m)
    BY <1>5
  <2>2. /\ m \in 0 .. 2 * MaxMonth - 1 /\ n + 1 \in 1 .. MaxMonth
        /\ {m, m + 1} \subseteq 0 .. start.month + (n + 1)
        /\ n + 1 - 1 = n
    BY <1>2, <1>1
  <2>3. date[n + 1] = NextWeek(date[n])
    BY <2>2, DatesOneByOne
  <2>4. DayNumber(date[n]) = DayNumber(start) + 7 * n
    BY <1>5
  <2> HIDE DEF date
  <2>5. \E k \in 0 .. start.month + (n + 1) : date[n + 1] \in DatesIn(k)
    BY <2>1, <2>2, <2>3, WeeksAreSevenDays
  <2>6. DayNumber(date[n + 1]) = DayNumber(date[n]) + 7
    BY <2>1, <2>2, <2>3, WeeksAreSevenDays
  <2>7. DayNumber(date[n + 1]) = DayNumber(start) + 7 * (n + 1)
    BY <1>3, <2>4, <2>6
  <2>8. QED  BY <2>2, <2>5, <2>7
<1>6. \A n \in 0 .. MaxMonth : n \in P
  <2> HIDE DEF P
  <2> QED  BY <1>2, <1>4, <1>5, CountingUp
<1>7. QED  BY <1>6

(***************************************************************************)
(* Date n of a monthly schedule is in the n-th month after its start, and  *)
(* not later in it than the first one.                                     *)
(***************************************************************************)
LEMMA MonthlyDatesAreRegular ==
    ASSUME NEW start \in StartDates
    PROVE  \A n \in 0 .. MaxMonth :
               /\ DatesOf("MONTHLY", start)[n] \in DatesIn(start.month + n)
               /\ DatesOf("MONTHLY", start)[n].day <= start.day
<1> DEFINE date == DatesOf("MONTHLY", start)
           P == {n \in 0 .. MaxMonth : /\ date[n] \in DatesIn(start.month + n)
                                       /\ date[n].day <= start.day}
<1>1. PICK first \in 0 .. MaxMonth : start \in DatesIn(first)
  BY CalendarAssumption DEF StartDates
<1>2. /\ start.month = first /\ first \in Nat /\ MaxMonth \in Nat
      /\ start.day \in 1 .. DaysIn(first)
  BY <1>1, CalendarAssumption DEF DatesIn
<1>3. 0 \in P
  <2>1. date[0] = start
    BY DatesOneByOne
  <2>2. 0 \in 0 .. MaxMonth /\ start.month + 0 = first /\ start.day <= start.day
    BY <1>2, MonthsHave28To31Days
  <2> HIDE DEF date
  <2>3. QED  BY <1>1, <2>1, <2>2
<1>4. ASSUME NEW n \in 0 .. MaxMonth - 1, n \in P
      PROVE  n + 1 \in P
  <2> DEFINE m == start.month + n
  <2>1. /\ m \in Nat /\ n + 1 \in 1 .. MaxMonth /\ m + 1 = start.month + (n + 1)
        /\ n + 1 - 1 = n
    BY <1>2
  <2>2. date[n + 1] = NextMonth(date[n])
    BY <2>1, DatesOneByOne
  <2>3. date[n] \in DatesIn(m) /\ date[n].day <= start.day
    BY <1>4
  <2> HIDE DEF date, m
  <2>4. date[n + 1] \in DatesIn(m + 1) /\ date[n + 1].day <= date[n].day
    BY <2>1, <2>2, <2>3, MonthsAreNotMissed
  <2>5. date[n + 1].day \in Int /\ date[n].day \in Int
    <3>1. \A k, t : t \in DatesIn(k) => t.day \in 1 .. DaysIn(k)
      BY DEF DatesIn
    <3>2. QED  BY <2>3, <2>4, <3>1
  <2>6. date[n + 1].day <= start.day
    BY <1>2, <2>3, <2>4, <2>5, MonthsHave28To31Days
  <2>7. QED  BY <2>1, <2>4, <2>6
<1>5. \A n \in 0 .. MaxMonth : n \in P
  <2> HIDE DEF P
  <2> QED  BY <1>2, <1>3, <1>4, CountingUp
<1>6. QED  BY <1>5

(***************************************************************************)
(* The dates of every schedule are regular, from any start, for any number *)
(* of months, across leap years.                                           *)
(***************************************************************************)
THEOREM SlotsKeepRegular == ScheduledSpec => []SlotsAreRegular
<1>1. ASSUME NEW start \in StartDates PROVE Regular(start)
  <2>1. 1 .. MaxMonth \subseteq 0 .. MaxMonth
    BY CalendarAssumption
  <2>2. QED
    BY <2>1, WeeklyDatesAreRegular, MonthlyDatesAreRegular DEF Regular
<1>2. SlotsAreRegular
  BY <1>1 DEF SlotsAreRegular, RegularDates
<1>3. QED
  BY <1>2, PTL
=============================================================================
