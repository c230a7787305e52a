----------------------------- MODULE Scheduled -----------------------------
(***************************************************************************)
(* ScheduledPaymentsService: one scheduled payment, the runs of the        *)
(* scheduler that execute it and the requests of its owner that pause,     *)
(* resume and cancel it.                                                   *)
(*                                                                         *)
(* Every minute the scheduler selects the due payments and executes each   *)
(* in a transaction of its own.  Nothing keeps a run from starting while   *)
(* the previous one is still at work, so several transactions may execute  *)
(* the same payment; they meet at the unique index of the execution row,   *)
(* at the payer's wallet, and at the unique index that lets an execution   *)
(* have only one transfer.                                                 *)
(*                                                                         *)
(* The dates of a schedule are numbered: slot k is its k-th date (module   *)
(* Calendar says which day that is).  At most 100 due payments are taken   *)
(* at a time; here is one, which is always among them.                     *)
(***************************************************************************)
EXTENDS Integers, RowLocks, Calendar

CONSTANTS
    Wallet,         \* the row of the owner's wallet
    Funding,        \* the row that pays: the wallet or an envelope
    Schedule,       \* the row of the scheduled payment
    Amount,         \* ScheduledPayment.amount
    Edits,          \* requests of the owner that change the status
    MaxSlot,        \* the clock stops at this slot: a bound
    MaxBalance,     \* the owner saves up to this: a bound
    MaxAborts       \* how many transactions are aborted: a bound

Slots == 1 .. MaxSlot           \* also the rows of their executions

ASSUME ScheduledAssumption ==
    /\ Rows = {Wallet, Funding, Schedule} \cup Slots
    /\ Schedule \notin {Wallet, Funding} \cup Slots
    /\ {Wallet, Funding} \cap Slots = {}
    /\ Amount \in Nat \ {0}
    /\ {MaxSlot, MaxBalance, MaxAborts} \subseteq Nat

VARIABLES
    sched,      \* the ScheduledPayment row
    exec,       \* ScheduledPaymentExecution.status of each slot
    paid,       \* how many TRANSFER_OUT rows each slot has
    balance,    \* the money in the funding row
    enabled,    \* is the owner's account ACTIVE?
    clock,      \* the last slot that is due
    pc,         \* the next statement of each run
    now,        \* the clock each run was started with
    slot,       \* the slot it executes
    mark,       \* what it has written into the execution row
    sent,       \* has it inserted the transfer?
    edit,       \* what each owner's request is about to write
    aborts      \* how many transactions have been aborted

runVars == <<pc, now, slot, mark, sent>>
scheduledVars == <<locks, sched, exec, paid, balance, enabled, clock, runVars, edit, aborts>>

Terminal == {"COMPLETED", "CANCELLED", "FAILED"}

Schedules == [status : {"ABSENT", "ACTIVE", "PAUSED"} \cup Terminal,
              next : 1 .. MaxSlot + 1, once : BOOLEAN, end : 1 .. MaxSlot + 1]

ScheduledTypeOK ==
    /\ LocksTypeOK
    /\ sched \in Schedules
    /\ exec \in [Slots -> {"NONE", "FAILED", "SUCCESS"}]
    /\ paid \in [Slots -> Nat]
    /\ balance \in Nat
    /\ enabled \in BOOLEAN
    /\ clock \in 0 .. MaxSlot
    /\ pc \in [Reqs -> {"idle", "read", "slot", "insert", "limits", "debit", "record",
                        "succeed", "fail", "advance", "commit"}]
    /\ now \in [Reqs -> 0 .. MaxSlot]
    /\ slot \in [Reqs -> 0 .. MaxSlot]
    /\ mark \in [Reqs -> {"NONE", "FAILED", "SUCCESS"}]
    /\ sent \in [Reqs -> BOOLEAN]
    /\ edit \in [Edits -> {"none", "ACTIVE", "PAUSED", "CANCELLED"}]
    /\ aborts \in 0 .. MaxAborts

ScheduledInit ==
    /\ locks = NoLocks
    /\ sched = [status |-> "ABSENT", next |-> 1, once |-> TRUE, end |-> 1]
    /\ exec = [k \in Slots |-> "NONE"]
    /\ paid = [k \in Slots |-> 0]
    /\ balance = 0
    /\ enabled = TRUE
    /\ clock = 0
    /\ pc = [r \in Reqs |-> "idle"]
    /\ now = [r \in Reqs |-> 0]
    /\ slot = [r \in Reqs |-> 0]
    /\ mark = [r \in Reqs |-> "NONE"]
    /\ sent = [r \in Reqs |-> FALSE]
    /\ edit = [e \in Edits |-> "none"]
    /\ aborts = 0

\* The owner --------------------------------------------------------------

\* POST scheduled-payments: starting with slot 1, without an end when end
\* is the slot after the last one.
Create(once, end) ==
    /\ sched.status = "ABSENT"
    /\ sched' = [status |-> "ACTIVE", next |-> 1, once |-> once, end |-> end]
    /\ UNCHANGED <<locks, exec, paid, balance, enabled, clock, runVars, edit, aborts>>

\* The status each request asks for, and where it may come from.
Allowed(to) == CASE to = "PAUSED" -> {"ACTIVE"}
                 [] to = "ACTIVE" -> {"PAUSED"}
                 [] to = "CANCELLED" -> {"ACTIVE", "PAUSED"}

\* pause, resume and cancel read the row first; a status that does not
\* allow the change is refused.
ReadForEdit(e, to) ==
    /\ edit[e] = "none"
    /\ sched.status \in Allowed(to)
    /\ edit' = [edit EXCEPT ![e] = to]
    /\ UNCHANGED <<locks, sched, exec, paid, balance, enabled, clock, runVars, aborts>>

\* ... and then UPDATE ... SET status = ... WHERE id = ..., whatever the
\* status is by then.
WriteEdit(e) ==
    /\ edit[e] # "none"
    /\ locks[Schedule] = NoReq
    /\ sched' = [sched EXCEPT !.status = edit[e]]
    /\ edit' = [edit EXCEPT ![e] = "none"]
    /\ UNCHANGED <<locks, exec, paid, balance, enabled, clock, runVars, aborts>>

\* The owner's other transactions (Wallet) change what the funding holds.
OtherTransaction ==
    /\ locks[Wallet] = NoReq /\ locks[Funding] = NoReq
    /\ balance' \in {balance - 1, balance + 1} \cap 0 .. MaxBalance
    /\ UNCHANGED <<locks, sched, exec, paid, enabled, clock, runVars, edit, aborts>>

\* An administrator disables or enables the owner's account (AdminService).
SetEnabled ==
    /\ enabled' = ~enabled
    /\ UNCHANGED <<locks, sched, exec, paid, balance, clock, runVars, edit, aborts>>

\* Time passes until the next slot is due.
Tick ==
    /\ clock < MaxSlot
    /\ clock' = clock + 1
    /\ UNCHANGED <<locks, sched, exec, paid, balance, enabled, runVars, edit, aborts>>

\* A run ------------------------------------------------------------------

Goto(r, step) == pc' = [pc EXCEPT ![r] = step]

\* What a run knows ends with its transaction.
EndRun(r) ==
    /\ Goto(r, "idle")
    /\ now' = [now EXCEPT ![r] = 0]
    /\ slot' = [slot EXCEPT ![r] = 0]
    /\ mark' = [mark EXCEPT ![r] = "NONE"]
    /\ sent' = [sent EXCEPT ![r] = FALSE]
    /\ ReleaseAll(r)

\* The transaction ends without having written anything.
LeaveAlone(r) ==
    /\ EndRun(r)
    /\ UNCHANGED <<sched, exec, paid, balance, enabled, clock, edit, aborts>>

\* Variant: a payment is due after its date only.
StartAfterDue(r) ==
    /\ pc[r] = "idle"
    /\ sched.status = "ACTIVE" /\ enabled
    /\ sched.next < clock
    /\ now' = [now EXCEPT ![r] = clock]
    /\ Goto(r, "read")
    /\ UNCHANGED <<locks, sched, exec, paid, balance, enabled, clock, slot, mark, sent,
                   edit, aborts>>

\* processDuePayments selects the payment: ACTIVE, due, its owner enabled.
StartRun(r) ==
    /\ pc[r] = "idle"
    /\ sched.status = "ACTIVE" /\ enabled
    /\ sched.next <= clock
    /\ now' = [now EXCEPT ![r] = clock]
    /\ Goto(r, "read")
    /\ UNCHANGED <<locks, sched, exec, paid, balance, enabled, clock, slot, mark, sent,
                   edit, aborts>>

\* processSinglePayment reads the payment again, in its transaction.
ReadSchedule(r) ==
    /\ pc[r] = "read"
    /\ \/ /\ sched.status = "ACTIVE" /\ enabled /\ sched.next <= now[r]
          /\ slot' = [slot EXCEPT ![r] = sched.next]
          /\ Goto(r, "slot")
          /\ UNCHANGED <<locks, sched, exec, paid, balance, enabled, clock, now, mark,
                         sent, edit, aborts>>
       \/ /\ ~(sched.status = "ACTIVE" /\ enabled /\ sched.next <= now[r])
          /\ LeaveAlone(r)

\* The execution of the slot: done, to be retried, or none yet.
ReadExecution(r) ==
    /\ pc[r] = "slot"
    /\ \/ exec[slot[r]] = "SUCCESS" /\ LeaveAlone(r)
       \/ /\ exec[slot[r]] # "SUCCESS"
          /\ Goto(r, IF exec[slot[r]] = "FAILED" THEN "limits" ELSE "insert")
          /\ UNCHANGED <<locks, sched, exec, paid, balance, enabled, clock, now, slot,
                         mark, sent, edit, aborts>>

(***************************************************************************)
(* INSERT of the execution as FAILED.  It waits for another uncommitted    *)
(* execution of the slot.  When the slot has one, P2002 is thrown and      *)
(* caught, but PostgreSQL has aborted the transaction: the SELECT of the   *)
(* catch block throws as well, and the run has done nothing.               *)
(***************************************************************************)
InsertExecution(r) ==
    /\ pc[r] = "insert"
    /\ Free(r, slot[r])
    /\ \/ /\ exec[slot[r]] = "NONE"
          /\ Take(r, slot[r])
          /\ mark' = [mark EXCEPT ![r] = "FAILED"]
          /\ Goto(r, "limits")
          /\ UNCHANGED <<sched, exec, paid, balance, enabled, clock, now, slot, sent,
                         edit, aborts>>
       \/ exec[slot[r]] # "NONE" /\ LeaveAlone(r)

\* assertWithinLimitsInTx locks the wallet; the limits allow the transfer or
\* not.  "Wallet not found" and "Envelope is not active" fail alike.
CheckLimits(r) ==
    /\ pc[r] = "limits"
    /\ Take(r, Wallet)
    /\ Goto(r, "debit") \/ Goto(r, "fail")
    /\ UNCHANGED <<sched, exec, paid, balance, enabled, clock, now, slot, mark, sent,
                   edit, aborts>>

\* Variant: the UPDATE has no WHERE on the amount.
CoversAnything == TRUE

\* The funding row holds the amount.
Covers == balance >= Amount

\* Variant: the result of transferInTx is not tested.
DebitIgnoringResult(r) ==
    /\ pc[r] = "debit"
    /\ Take(r, Funding)
    /\ Goto(r, IF Covers THEN "record" ELSE "succeed")
    /\ UNCHANGED <<sched, exec, paid, balance, enabled, clock, now, slot, mark, sent,
                   edit, aborts>>

\* transferInTx: the conditional UPDATE of the funding row.
DebitFunding(r) ==
    /\ pc[r] = "debit"
    /\ \/ Covers /\ Take(r, Funding) /\ Goto(r, "record")
       \/ ~Covers /\ Goto(r, "fail") /\ UNCHANGED locks
    /\ UNCHANGED <<sched, exec, paid, balance, enabled, clock, now, slot, mark, sent,
                   edit, aborts>>

\* Variant: Transaction.scheduledPaymentExecutionId is not unique.
RecordAgain(r) ==
    /\ pc[r] = "record"
    /\ sent' = [sent EXCEPT ![r] = TRUE]
    /\ Goto(r, "succeed")
    /\ UNCHANGED <<locks, sched, exec, paid, balance, enabled, clock, now, slot, mark,
                   edit, aborts>>

\* transferInTx: INSERT of the transfer, whose scheduledPaymentExecutionId
\* is unique.  A second one throws, and everything is rolled back.
RecordTransfer(r) ==
    /\ pc[r] = "record"
    /\ \/ /\ paid[slot[r]] = 0
          /\ sent' = [sent EXCEPT ![r] = TRUE]
          /\ Goto(r, "succeed")
          /\ UNCHANGED <<locks, sched, exec, paid, balance, enabled, clock, now, slot,
                         mark, edit, aborts>>
       \/ paid[slot[r]] > 0 /\ LeaveAlone(r)

\* UPDATE of the execution: SUCCESS after the transfer, else FAILED.
MarkExecution(r) ==
    /\ pc[r] \in {"succeed", "fail"}
    /\ Take(r, slot[r])
    /\ mark' = [mark EXCEPT ![r] = IF pc[r] = "succeed" THEN "SUCCESS" ELSE "FAILED"]
    /\ Goto(r, IF pc[r] = "succeed" \/ sched.once THEN "advance" ELSE "commit")
    /\ UNCHANGED <<sched, exec, paid, balance, enabled, clock, now, slot, sent, edit,
                   aborts>>

\* advanceSchedule: the UPDATE locks the row of the payment.
Advance(r) ==
    /\ pc[r] = "advance"
    /\ Take(r, Schedule)
    /\ Goto(r, "commit")
    /\ UNCHANGED <<sched, exec, paid, balance, enabled, clock, now, slot, mark, sent,
                   edit, aborts>>

\* Variant: the schedule moves on after a failure as well.
AdvancedAnyway(r) ==
    CASE sched.once /\ mark[r] = "FAILED" -> [sched EXCEPT !.status = "FAILED"]
      [] sched.once \/ slot[r] + 1 > sched.end -> [sched EXCEPT !.status = "COMPLETED"]
      [] OTHER -> [sched EXCEPT !.next = slot[r] + 1]

\* The payment as the run leaves it; neither status nor date is tested.
Advanced(r) ==
    CASE mark[r] = "FAILED" -> IF sched.once THEN [sched EXCEPT !.status = "FAILED"]
                                             ELSE sched
      [] mark[r] = "SUCCESS" /\ (sched.once \/ slot[r] + 1 > sched.end) ->
            [sched EXCEPT !.status = "COMPLETED"]
      [] OTHER -> [sched EXCEPT !.next = slot[r] + 1]

CommitRun(r) ==
    /\ pc[r] = "commit"
    /\ exec' = [exec EXCEPT ![slot[r]] = mark[r]]
    /\ paid' = [paid EXCEPT ![slot[r]] = IF sent[r] THEN @ + 1 ELSE @]
    /\ balance' = IF sent[r] THEN balance - Amount ELSE balance
    /\ sched' = Advanced(r)
    /\ EndRun(r)
    /\ UNCHANGED <<enabled, clock, edit, aborts>>

\* The transaction times out, is a deadlock victim, or the process dies:
\* the next run of the scheduler tries again.
AbortRun(r) ==
    /\ pc[r] # "idle"
    /\ aborts < MaxAborts
    /\ aborts' = aborts + 1
    /\ EndRun(r)
    /\ UNCHANGED <<sched, exec, paid, balance, enabled, clock, edit>>

RunStep(r) ==
    \/ ReadSchedule(r)
    \/ ReadExecution(r)
    \/ InsertExecution(r)
    \/ CheckLimits(r)
    \/ DebitFunding(r)
    \/ RecordTransfer(r)
    \/ MarkExecution(r)
    \/ Advance(r)
    \/ CommitRun(r)

ScheduledNext ==
    \/ \E once \in BOOLEAN, end \in 1 .. MaxSlot + 1 : Create(once, end)
    \/ \E e \in Edits : \/ \E to \in {"PAUSED", "ACTIVE", "CANCELLED"} : ReadForEdit(e, to)
                        \/ WriteEdit(e)
    \/ OtherTransaction
    \/ SetEnabled
    \/ Tick
    \/ \E r \in Reqs : StartRun(r) \/ RunStep(r) \/ AbortRun(r)

ScheduledSpec == ScheduledInit /\ [][ScheduledNext]_scheduledVars

\* Properties -------------------------------------------------------------

(***************************************************************************)
(* No slot is paid twice, whatever runs overlap on it, fail, are aborted   *)
(* and retried (the unique scheduledPaymentExecutionId of Transaction).    *)
(***************************************************************************)
PaidAtMostOnce == \A k \in Slots : paid[k] <= 1

(***************************************************************************)
(* The schedule passes a slot only when it has been paid, and pays none    *)
(* ahead of its time: what is paid is what lies before nextExecutionAt,    *)
(* and the last slot of a schedule that has completed (advanceSchedule).   *)
(***************************************************************************)
PaidInOrder ==
    \A k \in Slots : /\ k < sched.next => paid[k] > 0
                     /\ paid[k] > 0 => k <= sched.next /\ k <= clock

(***************************************************************************)
(* An execution shown to the owner as SUCCESS has its transfer.            *)
(***************************************************************************)
SuccessIsPaid == \A k \in Slots : exec[k] = "SUCCESS" => paid[k] = 1

(***************************************************************************)
(* A slow run never sets nextExecutionAt back to a date that a faster one  *)
(* has passed already.                                                     *)
(***************************************************************************)
ScheduleMovesForward == [][sched'.next >= sched.next]_scheduledVars

Order == INSTANCE StandingOrder WITH next <- sched.next

(***************************************************************************)
(* The statements of all runs, of the owner and of the administrator add   *)
(* up to a standing order: each slot in its turn is paid in one step, with *)
(* its transfer and the passing of the turn, and with money that is there  *)
(* at that moment.                                                         *)
(***************************************************************************)
InstalmentsAreAtomic == Order!Spec

(***************************************************************************)
(* The slots of a schedule are regular, whatever date it starts on: weekly *)
(* ones are seven days apart, in leap years too, and monthly ones miss no  *)
(* month because it is short and take none twice (computeNextExecutionAt). *)
(***************************************************************************)
SlotsAreRegular == sched.status # "ABSENT" => RegularDates

(***************************************************************************)
(* A slot that has been paid is shown as SUCCESS.  (The test "executes a   *)
(* due scheduled payment once and records execution history".)             *)
(***************************************************************************)
PaidIsRecorded == \A k \in Slots : paid[k] > 0 => exec[k] = "SUCCESS"

(***************************************************************************)
(* A payment its owner has cancelled stays cancelled.  (pause and resume   *)
(* refuse any status but ACTIVE and PAUSED.)                               *)
(***************************************************************************)
CancelledIsFinal ==
    [][sched.status = "CANCELLED" => sched'.status = "CANCELLED"]_scheduledVars

(***************************************************************************)
(* A due slot is attempted, unless the payment is paused or ended or its   *)
(* owner disabled: runs that were aborted are made up for by the next      *)
(* ones.  The timer of the scheduler never stops while the process is up,  *)
(* and statements wait only for other transactions, which end.             *)
(***************************************************************************)
ScheduledFairness ==
    /\ WF_scheduledVars(\E r \in Reqs : StartRun(r))
    /\ \A r \in Reqs : WF_scheduledVars(RunStep(r))

FairScheduledSpec == ScheduledSpec /\ ScheduledFairness

Eligible(k) == sched.status = "ACTIVE" /\ enabled /\ sched.next = k /\ k <= clock

DueSlotIsAttempted == \A k \in Slots : Eligible(k) ~> (exec[k] # "NONE" \/ ~Eligible(k))
=============================================================================
