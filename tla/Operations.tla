----------------------------- MODULE Operations -----------------------------
(***************************************************************************)
(* What surrounds the transaction of a payment: the throttle of            *)
(* SecurityService before it, and after it the notification, the           *)
(* destination that FinancialDestinationsService remembers, and the record *)
(* of a failure, which is written while the request is answered already    *)
(* and ends in a report.  The owner's own requests on the destinations     *)
(* overlap with all of that.                                               *)
(*                                                                         *)
(* Every statement is a transaction of its own, except that of the payment *)
(* (Transactions), which here commits, refuses or throws.  All requests    *)
(* are of one user.  Who receives the money is left out: a withdrawal and  *)
(* a transfer differ in what follows a notification that fails.            *)
(***************************************************************************)
EXTENDS Integers, FiniteSets

CONSTANTS
    Dests,          \* (userId, type, identifierHash) of a destination
    Ids,            \* ids of rows; as many are ever inserted: a bound
    Reqs,           \* the requests that are handled at a time
    Nothing,        \* stands for the id of a row that does not exist
    MaxFailed,      \* MAX_FAILED_OPERATIONS_PER_HOUR
    Scenarios       \* the kinds of request that occur together: a bound

Payments == {"withdraw", "transfer"}
Kinds == Payments \cup {"save", "rename", "delete"}

ASSUME OperationsAssumption ==
    /\ Nothing \notin Ids \cup Dests
    /\ "own" \notin Reqs
    /\ IsFiniteSet(Reqs)
    /\ MaxFailed \in Nat \ {0}
    /\ Scenarios \subseteq SUBSET Kinds

VARIABLES
    row,        \* the FinancialDestination rows
    used,       \* ids that were given to a row
    failed,     \* FAILED_TRANSFER and FAILED_WITHDRAWAL events of the last hour
    reported,   \* history: a SUSPICIOUS_ACTIVITY event was written meanwhile
    lost,       \* history: the process died before it was written
    stage,      \* the next statement of each request
    job,        \* what the request is, and the row it has read
    answer,     \* what the client was told
    kinds       \* the kinds of request that occur

abuseVars == <<failed, reported, lost>>
destVars == <<row, used>>
operationsVars == <<destVars, abuseVars, stage, job, answer, kinds>>

Rows == [id : Ids \cup {Nothing}, saved : BOOLEAN, label : {"own"} \cup Reqs]
NoRow == [id |-> Nothing, saved |-> FALSE, label |-> "own"]

NoJob == [kind |-> "none", dest |-> Nothing, seen |-> NoRow, paid |-> FALSE,
          overlapped |-> FALSE]

\* overlapped (history): another request has changed the destination meanwhile.
Jobs == [kind : Kinds \cup {"none"}, dest : Dests \cup {Nothing}, seen : Rows,
         paid : BOOLEAN, overlapped : BOOLEAN]

OperationsTypeOK ==
    /\ row \in [Dests -> Rows]
    /\ {row[d].id : d \in Dests} \subseteq used \cup {Nothing}
    /\ used \subseteq Ids
    /\ failed \in Nat
    /\ reported \in BOOLEAN
    /\ lost \in BOOLEAN
    /\ stage \in [Reqs -> {"idle", "allowed", "pay", "tell", "find", "write",
                           "record", "count", "report"}]
    /\ job \in [Reqs -> Jobs]
    /\ answer \in [Reqs -> {"none", "ok", "error"}]
    /\ \A r \in Reqs : stage[r] \in {"record", "count", "report"} => ~job[r].paid
    /\ kinds \in Scenarios

OperationsInit ==
    /\ row = [d \in Dests |-> NoRow]
    /\ used = {}
    /\ failed = 0
    /\ reported = FALSE
    /\ lost = FALSE
    /\ stage = [r \in Reqs |-> "idle"]
    /\ job = [r \in Reqs |-> NoJob]
    /\ answer = [r \in Reqs |-> "none"]
    /\ kinds \in Scenarios

To(r, next) == stage' = [stage EXCEPT ![r] = next]

\* The client is told a; next is what the server does after that.
Tell(r, a, next) ==
    /\ answer' = [answer EXCEPT ![r] = a]
    /\ To(r, next)

BeginOperation(r, kind, d) ==
    /\ stage[r] = "idle"
    /\ kind \in kinds
    /\ job' = [job EXCEPT ![r] = [NoJob EXCEPT !.kind = kind, !.dest = d]]
    /\ Tell(r, "none", IF kind \in Payments THEN "allowed" ELSE "find")
    /\ UNCHANGED <<destVars, abuseVars, kinds>>

\* Variant: if (count > MAX_FAILED_OPERATIONS_PER_HOUR).
AssertOneMoreAllowed(r) ==
    /\ stage[r] = "allowed"
    /\ IF failed > MaxFailed
       THEN Tell(r, "error", "idle")
       ELSE To(r, "pay") /\ UNCHANGED answer
    /\ UNCHANGED <<destVars, abuseVars, job, kinds>>

\* assertOperationAllowed counts the failures of the last hour.  That
\* refusal is not one of them.
AssertAllowed(r) ==
    /\ stage[r] = "allowed"
    /\ IF failed >= MaxFailed
       THEN Tell(r, "error", "idle")
       ELSE To(r, "pay") /\ UNCHANGED answer
    /\ UNCHANGED <<destVars, abuseVars, job, kinds>>

\* The transaction commits; or refuses, for lack of money or by a limit,
\* which is no abuse; or for another reason, which is recorded after the
\* answer.
Pay(r) ==
    /\ stage[r] = "pay"
    /\ \/ /\ To(r, "tell")
          /\ job' = [job EXCEPT ![r].paid = TRUE]
          /\ UNCHANGED answer
       \/ Tell(r, "error", "idle") /\ UNCHANGED job
       \/ Tell(r, "error", "record") /\ UNCHANGED job
    /\ UNCHANGED <<destVars, abuseVars, kinds>>

\* Variant: the try around what follows the transaction is missing.
OutcomeUncaught(r) == "error"

\* What a request says whose statement throws: what follows the transaction
\* of a payment is in a try whose catch is empty.
Outcome(r) == IF job[r].paid THEN "ok" ELSE "error"

\* A request is done; if it has changed a destination, that overlaps with
\* whatever else is being done to it.
Finish(r, a) ==
    /\ Tell(r, a, "idle")
    /\ job' = [q \in Reqs |->
          CASE q = r -> [job[r] EXCEPT !.seen = NoRow, !.overlapped = FALSE]
            [] /\ q # r /\ stage[q] # "idle" /\ job[q].dest = job[r].dest
               /\ row'[job[r].dest] # row[job[r].dest] -> [job[q] EXCEPT !.overlapped = TRUE]
            [] OTHER -> job[q]]

\* Variant: without a try of its own, a failure ends in the outer catch.
NotifyUncaught(r) ==
    /\ stage[r] = "tell"
    /\ UNCHANGED <<destVars, abuseVars, job, kinds>>
    /\ \/ To(r, "find") /\ UNCHANGED answer
       \/ Tell(r, "error", "record")

\* The notification is written, or fails, which ends what a transfer does
\* after its transaction and not what a withdrawal does.
Notify(r) ==
    /\ stage[r] = "tell"
    /\ UNCHANGED <<destVars, abuseVars, kinds>>
    /\ \/ To(r, "find") /\ UNCHANGED <<job, answer>>
       \/ job[r].kind = "transfer" /\ Finish(r, Outcome(r))

\* upsertDestination finds the row; updateSavedLabel and deleteSaved need
\* one that is saved.
Find(r) ==
    LET d == job[r].dest IN
    /\ stage[r] = "find"
    /\ UNCHANGED <<destVars, abuseVars, kinds>>
    /\ IF job[r].kind \in {"rename", "delete"} /\ ~row[d].saved
       THEN Finish(r, "error")
       ELSE To(r, "write") /\ job' = [job EXCEPT ![r].seen = row[d]] /\ UNCHANGED answer

\* INSERT, which the unique index refuses when there is a row by now.
Create(r) ==
    LET d == job[r].dest
        save == job[r].kind = "save"
    IN  /\ stage[r] = "write"
        /\ job[r].kind \in Payments \cup {"save"}
        /\ job[r].seen = NoRow
        /\ IF row[d] = NoRow
           THEN /\ \E i \in Ids \ used :
                      /\ row' = [row EXCEPT ![d] = [id |-> i, saved |-> save,
                                     label |-> IF save THEN r ELSE "own"]]
                      /\ used' = used \cup {i}
                /\ Finish(r, "ok")
           ELSE UNCHANGED destVars /\ Finish(r, Outcome(r))
    /\ UNCHANGED <<abuseVars, kinds>>

\* Variant: isSaved: options?.isSaved ?? false.
UpsertedUnsaved(r) ==
    IF job[r].kind = "save"
    THEN [job[r].seen EXCEPT !.saved = TRUE, !.label = r]
    ELSE [job[r].seen EXCEPT !.saved = FALSE]

\* What the UPDATE of upsertDestination makes of the row that was found: all
\* its columns are written again, with what was read of them.
Upserted(r) ==
    IF job[r].kind = "save"
    THEN [job[r].seen EXCEPT !.saved = TRUE, !.label = r]
    ELSE job[r].seen

\* UPDATE or DELETE by the id that was found, which throws when that row is
\* there no more.
Change(r) ==
    LET d == job[r].dest IN
    /\ stage[r] = "write"
    /\ job[r].seen # NoRow
    /\ IF row[d].id = job[r].seen.id
       THEN /\ row' = [row EXCEPT ![d] =
                  CASE job[r].kind = "rename" -> [row[d] EXCEPT !.label = r]
                    [] job[r].kind = "delete" -> NoRow
                    [] OTHER -> Upserted(r)]
            /\ Finish(r, "ok")
       ELSE UNCHANGED row /\ Finish(r, Outcome(r))
    /\ UNCHANGED <<used, abuseVars, kinds>>

\* Any other statement before the answer throws, or the lookup of the
\* recipient refuses.
ThrowOperation(r) ==
    /\ stage[r] \in {"allowed", "pay", "find", "write"}
    /\ UNCHANGED <<destVars, abuseVars, kinds>>
    /\ Finish(r, Outcome(r))

\* Variant: the failures are counted before the new one is written.
CountThenRecord(r) ==
    /\ stage[r] = "record"
    /\ failed' = failed + 1
    /\ To(r, IF failed >= MaxFailed THEN "report" ELSE "idle")
    /\ UNCHANGED <<destVars, reported, lost, job, answer, kinds>>

\* recordFailedWithdrawal, recordFailedTransfer: the event ...
RecordFailed(r) ==
    /\ stage[r] = "record"
    /\ failed' = failed + 1
    /\ To(r, "count")
    /\ UNCHANGED <<destVars, reported, lost, job, answer, kinds>>

\* ... and assertNotAbusive, which counts ...
CountFailed(r) ==
    /\ stage[r] = "count"
    /\ To(r, IF failed >= MaxFailed THEN "report" ELSE "idle")
    /\ UNCHANGED <<destVars, abuseVars, job, answer, kinds>>

\* ... and writes SUSPICIOUS_ACTIVITY.
Report(r) ==
    /\ stage[r] = "report"
    /\ To(r, "idle")
    /\ reported' = (failed >= MaxFailed)
    /\ UNCHANGED <<destVars, failed, lost, job, answer, kinds>>

\* An event is older than FAILED_OPERATION_WINDOW_MS.
EventExpires ==
    /\ failed > 0
    /\ failed' = failed - 1
    /\ reported' = (reported /\ failed' >= MaxFailed)
    /\ lost' = (lost /\ failed' >= MaxFailed)
    /\ UNCHANGED <<destVars, stage, job, answer, kinds>>

\* The process dies, not least of a statement that nobody waits for: such a
\* promise has no catch, and the process no handler of its rejection.
Die ==
    /\ stage' = [r \in Reqs |-> "idle"]
    /\ job' = [r \in Reqs |-> NoJob]
    /\ answer' = [r \in Reqs |-> "none"]
    /\ lost' = (lost \/ (failed >= MaxFailed /\ ~reported))
    /\ UNCHANGED <<destVars, failed, reported, kinds>>

OperationsNext ==
    \/ \E r \in Reqs :
          \/ \E kind \in Kinds, d \in Dests : BeginOperation(r, kind, d)
          \/ AssertAllowed(r) \/ Pay(r) \/ Notify(r)
          \/ Find(r) \/ Create(r) \/ Change(r)
          \/ ThrowOperation(r)
          \/ RecordFailed(r) \/ CountFailed(r) \/ Report(r)
    \/ EventExpires
    \/ Die

OperationsSpec == OperationsInit /\ [][OperationsNext]_operationsVars

\* Properties -------------------------------------------------------------

(***************************************************************************)
(* However many payments are handled at a time, the failures of an hour    *)
(* exceed the maximum by no more than the requests that had passed         *)
(* assertOperationAllowed before the last one was written.                 *)
(***************************************************************************)
FailuresBounded == failed <= MaxFailed - 1 + Cardinality(Reqs)

(***************************************************************************)
(* Once an hour has as many failures as are allowed, the suspicion is      *)
(* written, or about to be written by a request that goes on after its     *)
(* answer, also when overlapping failures are all inserted before they are *)
(* counted (assertNotAbusive).  A process that dies in between loses it:   *)
(* every further attempt is refused without being recorded.                *)
(***************************************************************************)
AbuseIsReported ==
    failed >= MaxFailed =>
        reported \/ lost \/ \E r \in Reqs : stage[r] \in {"count", "report"}

(***************************************************************************)
(* A payment whose transaction has committed is confirmed, whatever fails  *)
(* after it, and no other is: the user must not pay again.                 *)
(***************************************************************************)
PaidIsConfirmed ==
    \A r \in Reqs : job[r].kind \in Payments /\ answer[r] # "none" =>
                        (answer[r] = "ok") = job[r].paid

(***************************************************************************)
(* A payment to a destination leaves it saved and named as it was when the *)
(* payment began, although upsertDestination writes every column back; only *)
(* one that overlaps with a change of the same row may undo it.            *)
(***************************************************************************)
PaymentsKeepDestinations ==
    [][\A d \in Dests :
          row[d] # NoRow /\ row'[d].id = row[d].id /\ row'[d] # row[d] =>
              \E r \in Reqs : /\ stage[r] = "write" /\ stage'[r] = "idle"
                              /\ job[r].kind \in Payments => job[r].overlapped]_operationsVars
=============================================================================
