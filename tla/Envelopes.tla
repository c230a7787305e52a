----------------------------- MODULE Envelopes ------------------------------
(***************************************************************************)
(* EnvelopesService: a user sets wallet money aside in an envelope, takes  *)
(* it back, and cancels the envelope when it is empty.                     *)
(*                                                                         *)
(* moveFunds reads the envelope without a lock before it writes; cancel    *)
(* is not even a transaction: it reads the envelope, decides, and writes   *)
(* the status with a second statement that repeats none of the conditions. *)
(***************************************************************************)
EXTENDS Ledger

\* Requests ---------------------------------------------------------------

\* POST envelopes: the new row is active and empty.
CreateEnvelope(e) ==
    /\ e \in Envs
    /\ status[e] = "ABSENT"
    /\ status' = [status EXCEPT ![e] = "ACTIVE"]
    /\ UNCHANGED <<locks, funds, pc, op>>

BeginAllocate(r) ==
    \E u \in Users, e \in Envs, a \in Amounts :
        Begin(r, [kind |-> "allocate", user |-> u, from |-> u, to |-> e,
                  amount |-> a], "read")

BeginRelease(r) ==
    \E u \in Users, e \in Envs, a \in Amounts :
        Begin(r, [kind |-> "release", user |-> u, from |-> e, to |-> u,
                  amount |-> a], "read")

BeginCancelEnvelope(r) ==
    \E u \in Users, e \in Envs :
        Begin(r, [kind |-> "cancelEnvelope", user |-> u, from |-> e, to |-> NoPot,
                  amount |-> 0], "read")

\* The envelope the request is about.
Envelope(r) == IF op[r].kind = "allocate" THEN op[r].to ELSE op[r].from

\* Statements -------------------------------------------------------------

\* Variant: findFirst({ id }), without the user.
EnvelopeAcceptsAnyone(r) ==
    LET e == Envelope(r) IN
    /\ status[e] = "ACTIVE"
    /\ CASE op[r].kind = "allocate" -> TRUE
         [] op[r].kind = "release" -> Covers(e, op[r])
         [] op[r].kind = "cancelEnvelope" -> funds[e] = 0

\* findFirst({ id, userId }) and the checks on the row it returned.
EnvelopeAccepts(r) ==
    LET e == Envelope(r) IN
    /\ Owner[e] = op[r].user
    /\ status[e] = "ACTIVE"
    /\ CASE op[r].kind = "allocate" -> TRUE
         [] op[r].kind = "release" -> Covers(e, op[r])
         [] op[r].kind = "cancelEnvelope" -> funds[e] = 0

\* Variant: the row is read with FOR UPDATE, before the wallet is locked.
ReadEnvelopeForUpdate(r) ==
    /\ pc[r] = "read"
    /\ op[r].kind \in EnvKinds
    /\ EnvelopeAccepts(r)
    /\ Take(r, Envelope(r))
    /\ Goto(r, IF op[r].kind = "cancelEnvelope" THEN "commit" ELSE "debit")
    /\ UNCHANGED <<funds, status, op>>

\* The row is read without a lock: it may change before the next statement.
ReadEnvelope(r) ==
    /\ pc[r] = "read"
    /\ op[r].kind \in EnvKinds
    /\ \/ /\ EnvelopeAccepts(r)
          /\ Goto(r, IF op[r].kind = "cancelEnvelope" THEN "commit" ELSE "debit")
          /\ UNCHANGED <<locks, funds, status, op>>
       \/ /\ ~EnvelopeAccepts(r)
          /\ Reject(r)

\* ALLOCATE debits the wallet, RELEASE the envelope, whatever its status.
DebitForEnvelope(r) ==
    /\ op[r].kind \in {"allocate", "release"}
    /\ Debit(r, TRUE, "credit")

\* ALLOCATE credits the envelope, whatever its status, RELEASE the wallet.
CreditForEnvelope(r) ==
    /\ op[r].kind \in {"allocate", "release"}
    /\ Credit(r, "commit")

CommitEnvelopeMove(r) ==
    /\ op[r].kind \in {"allocate", "release"}
    /\ Commit(r)
    /\ UNCHANGED status

\* UPDATE ... SET status = 'CANCELLED' WHERE id = ..., a statement on its own.
CloseEnvelope(r) ==
    /\ op[r].kind = "cancelEnvelope"
    /\ Free(r, op[r].from)
    /\ Commit(r)
    /\ status' = [status EXCEPT ![op[r].from] = "CANCELLED"]

EnvelopesStep(r) ==
    \/ ReadEnvelope(r)
    \/ DebitForEnvelope(r)
    \/ CreditForEnvelope(r)
    \/ CommitEnvelopeMove(r)
    \/ CloseEnvelope(r)

BeginEnvelope(r) == BeginAllocate(r) \/ BeginRelease(r) \/ BeginCancelEnvelope(r)
=============================================================================
