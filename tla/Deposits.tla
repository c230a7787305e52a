------------------------------ MODULE Deposits ------------------------------
(***************************************************************************)
(* PaymentsService: a wallet is topped up through the ZarinPal gateway.    *)
(*                                                                         *)
(* createDeposit inserts a PENDING payment, asks the gateway for an        *)
(* authority, stores it and sends the user to the gateway.  The gateway    *)
(* sends the browser back to handleCallback, which verifies the payment    *)
(* with the gateway and settles it: PENDING -> PAID, the wallet's          *)
(* increment and the DEPOSIT row are one transaction.                      *)
(*                                                                         *)
(* The gateway is external: all that is known of it is what the service    *)
(* relies on.  Its answers may be late or lost, the user may reload the    *)
(* callback page any number of times and in several tabs, and the backend  *)
(* may die between any two steps.                                          *)
(***************************************************************************)
EXTENDS Integers, FiniteSets, Functions, RowLocks

CONSTANTS
    Payments,       \* payment rows; each stands for its authority too
    Amount,         \* Payment.amount
    Wallet,         \* the row of the wallet that is topped up
    NoPayment,      \* what an idle handler is about
    Early,          \* the payments whose callback page the user may open with
                    \* Status=OK before the gateway sends the browser there
    MaxAborts       \* how often a handler dies or loses its answer: a bound

ASSUME DepositsAssumption ==
    /\ Rows = Payments \cup {Wallet}
    /\ Wallet \notin Payments
    /\ NoPayment \notin Payments
    /\ Amount \in [Payments -> Nat \ {0}]
    /\ Early \subseteq Payments
    /\ MaxAborts \in Nat

VARIABLES
    payment,    \* Payment.status
    stored,     \* is the authority stored in the row?
    balance,    \* Wallet.balance
    rows,       \* how many DEPOSIT transactions each payment has
    createPc,   \* where createDeposit is
    linked,     \* has the user received the gateway's URL?
    gateway,    \* external: the gateway's view of the authority
    pc,         \* where each handleCallback is
    about,      \* the payment it is about
    code,       \* the gateway's answer to its verification
    aborts      \* how many handlers have died

depositsVars == <<locks, payment, stored, balance, rows, createPc, linked, gateway,
                  pc, about, code, aborts>>

Codes == {"none", "100", "101", "other"}

\* Requests of the browser are the Reqs of RowLocks.
DepositsTypeOK ==
    /\ LocksTypeOK
    /\ payment \in [Payments -> {"ABSENT", "PENDING", "PAID", "FAILED"}]
    /\ stored \in [Payments -> BOOLEAN]
    /\ balance \in Nat
    /\ rows \in [Payments -> Nat]
    /\ createPc \in [Payments -> {"new", "request", "store", "respond", "fail", "done"}]
    /\ linked \in [Payments -> BOOLEAN]
    /\ gateway \in [Payments -> {"unknown", "open", "paid", "verified"}]
    /\ pc \in [Reqs -> {"idle", "verify", "answer", "reject", "settle", "credit", "commit"}]
    /\ about \in [Reqs -> Payments \cup {NoPayment}]
    /\ code \in [Reqs -> Codes]
    /\ aborts \in 0 .. MaxAborts

DepositsInit ==
    /\ locks = NoLocks
    /\ payment = [p \in Payments |-> "ABSENT"]
    /\ stored = [p \in Payments |-> FALSE]
    /\ balance = 0
    /\ rows = [p \in Payments |-> 0]
    /\ createPc = [p \in Payments |-> "new"]
    /\ linked = [p \in Payments |-> FALSE]
    /\ gateway = [p \in Payments |-> "unknown"]
    /\ pc = [c \in Reqs |-> "idle"]
    /\ about = [c \in Reqs |-> NoPayment]
    /\ code = [c \in Reqs |-> "none"]
    /\ aborts = 0

\* createDeposit ----------------------------------------------------------

CreateGoto(p, step) == createPc' = [createPc EXCEPT ![p] = step]

\* POST wallets/deposit: the row is inserted before the gateway is asked.
CreateDeposit(p) ==
    /\ createPc[p] = "new"
    /\ payment' = [payment EXCEPT ![p] = "PENDING"]
    /\ CreateGoto(p, "request")
    /\ UNCHANGED <<locks, stored, balance, rows, linked, gateway, pc, about, code, aborts>>

\* External: the gateway receives requestPayment and opens an authority.
GatewayOpens(p) ==
    /\ createPc[p] = "request"
    /\ gateway[p] = "unknown"
    /\ gateway' = [gateway EXCEPT ![p] = "open"]
    /\ UNCHANGED <<locks, payment, stored, balance, rows, createPc, linked, pc, about,
                   code, aborts>>

\* requestPayment returns the authority, or throws: it was refused, the
\* gateway was not reached, or its answer was lost.
RequestReturns(p) ==
    /\ createPc[p] = "request"
    /\ \/ gateway[p] = "open" /\ CreateGoto(p, "store")
       \/ CreateGoto(p, "fail")
    /\ UNCHANGED <<locks, payment, stored, balance, rows, linked, gateway, pc, about,
                   code, aborts>>

\* The UPDATE that stores the authority; when it throws, it may have been
\* applied all the same.
StoreAuthority(p) ==
    /\ createPc[p] = "store"
    /\ \/ stored' = [stored EXCEPT ![p] = TRUE] /\ CreateGoto(p, "respond")
       \/ stored' \in {stored, [stored EXCEPT ![p] = TRUE]} /\ CreateGoto(p, "fail")
    /\ UNCHANGED <<locks, payment, balance, rows, linked, gateway, pc, about, code, aborts>>

\* The user receives the URL of the gateway's page.
Respond(p) ==
    /\ createPc[p] = "respond"
    /\ linked' = [linked EXCEPT ![p] = TRUE]
    /\ CreateGoto(p, "done")
    /\ UNCHANGED <<locks, payment, stored, balance, rows, gateway, pc, about, code, aborts>>

\* The catch block: UPDATE ... SET status = 'FAILED' WHERE id = ..., whatever
\* the status is by then.
FailDeposit(p) ==
    /\ createPc[p] = "fail"
    /\ locks[p] = NoReq
    /\ payment' = [payment EXCEPT ![p] = "FAILED"]
    /\ CreateGoto(p, "done")
    /\ UNCHANGED <<locks, stored, balance, rows, linked, gateway, pc, about, code, aborts>>

\* The process dies: what it has written stays.
CreateDies(p) ==
    /\ createPc[p] \in {"request", "store", "respond", "fail"}
    /\ aborts < MaxAborts
    /\ aborts' = aborts + 1
    /\ CreateGoto(p, "done")
    /\ UNCHANGED <<locks, payment, stored, balance, rows, linked, gateway, pc, about, code>>

\* The user ---------------------------------------------------------------

\* External: the user pays on the gateway's page.
UserPays(p) ==
    /\ linked[p]
    /\ gateway[p] = "open"
    /\ gateway' = [gateway EXCEPT ![p] = "paid"]
    /\ UNCHANGED <<locks, payment, stored, balance, rows, createPc, linked, pc, about,
                   code, aborts>>

\* handleCallback ---------------------------------------------------------

Goto(c, step) == pc' = [pc EXCEPT ![c] = step]

Answer(c) ==
    /\ Goto(c, "idle")
    /\ about' = [about EXCEPT ![c] = NoPayment]
    /\ code' = [code EXCEPT ![c] = "none"]

\* The gateway redirects with Status=OK once the money is there.
MayComeBack(p) == linked[p] /\ (p \in Early \/ gateway[p] \in {"paid", "verified"})

\* GET deposit/callback with Status=OK: a payment that is PENDING goes on to
\* its verification; PAID, FAILED and unknown ones are answered at once, and
\* so is every other Status, without a write.
Callback(c, p) ==
    /\ pc[c] = "idle"
    /\ MayComeBack(p)
    /\ stored[p] /\ payment[p] = "PENDING"
    /\ about' = [about EXCEPT ![c] = p]
    /\ Goto(c, "verify")
    /\ UNCHANGED <<locks, payment, stored, balance, rows, createPc, linked, gateway, code,
                   aborts>>

\* External: the gateway receives verifyPayment.  The first verification of
\* a paid authority yields 100, every later one 101.
GatewayVerifies(c) ==
    LET p == about[c] IN
    /\ pc[c] = "verify"
    /\ code' = [code EXCEPT ![c] = CASE gateway[p] = "paid" -> "100"
                                     [] gateway[p] = "verified" -> "101"
                                     [] OTHER -> "other"]
    /\ gateway' = [gateway EXCEPT ![p] = IF @ = "paid" THEN "verified" ELSE @]
    /\ Goto(c, "answer")
    /\ UNCHANGED <<locks, payment, stored, balance, rows, createPc, linked, about, aborts>>

\* Variant: code 101 is taken for a failure.
OnlyCode100Settles(c) ==
    /\ pc[c] = "answer"
    /\ Goto(c, IF code[c] = "100" THEN "settle" ELSE "reject")
    /\ UNCHANGED <<locks, payment, stored, balance, rows, createPc, linked, gateway, about,
                   code, aborts>>

\* The answer is taken up: 100 and 101 settle, any other code rejects.
TakeCode(c) ==
    /\ pc[c] = "answer"
    /\ Goto(c, IF code[c] \in {"100", "101"} THEN "settle" ELSE "reject")
    /\ UNCHANGED <<locks, payment, stored, balance, rows, createPc, linked, gateway, about,
                   code, aborts>>

\* Variant: the UPDATE does not test that the payment is PENDING.
MarkFailedAnyway(c) ==
    /\ pc[c] = "reject"
    /\ Free(c, about[c])
    /\ payment' = [payment EXCEPT ![about[c]] = "FAILED"]
    /\ Answer(c)
    /\ UNCHANGED <<locks, stored, balance, rows, createPc, linked, gateway, aborts>>

\* UPDATE ... SET status = 'FAILED' WHERE id = ... AND status = 'PENDING'.
MarkFailed(c) ==
    LET p == about[c] IN
    /\ pc[c] = "reject"
    /\ payment[p] = "PENDING" => Free(c, p)
    /\ payment' = [payment EXCEPT ![p] = IF @ = "PENDING" THEN "FAILED" ELSE @]
    /\ Answer(c)
    /\ UNCHANGED <<locks, stored, balance, rows, createPc, linked, gateway, aborts>>

\* Variant: the payment is not claimed with WHERE status = 'PENDING'.
ClaimAnyway(c) ==
    /\ pc[c] = "settle"
    /\ Take(c, about[c])
    /\ Goto(c, "credit")
    /\ UNCHANGED <<payment, stored, balance, rows, createPc, linked, gateway, about, code,
                   aborts>>

\* settleVerifiedPayment starts with UPDATE ... SET status = 'PAID' WHERE
\* authority = ... AND status = 'PENDING'; a payment that is not PENDING is
\* answered as already verified, or refused.
Claim(c) ==
    LET p == about[c] IN
    /\ pc[c] = "settle"
    /\ \/ /\ payment[p] = "PENDING"
          /\ Take(c, p)
          /\ Goto(c, "credit")
          /\ UNCHANGED <<about, code>>
       \/ /\ payment[p] # "PENDING"
          /\ Answer(c)
          /\ UNCHANGED locks
    /\ UNCHANGED <<payment, stored, balance, rows, createPc, linked, gateway, aborts>>

\* UPDATE "Wallet" SET balance = balance + amount, then the DEPOSIT row.
CreditWallet(c) ==
    /\ pc[c] = "credit"
    /\ Take(c, Wallet)
    /\ Goto(c, "commit")
    /\ UNCHANGED <<payment, stored, balance, rows, createPc, linked, gateway, about, code,
                   aborts>>

\* COMMIT of the settlement.
Settle(c) ==
    LET p == about[c] IN
    /\ pc[c] = "commit"
    /\ payment' = [payment EXCEPT ![p] = "PAID"]
    /\ balance' = balance + Amount[p]
    /\ rows' = [rows EXCEPT ![p] = @ + 1]
    /\ ReleaseAll(c)
    /\ Answer(c)
    /\ UNCHANGED <<stored, createPc, linked, gateway, aborts>>

\* Variant: the wallet is credited outside the transaction.
DieAfterCredit(c) ==
    /\ pc[c] # "idle"
    /\ aborts < MaxAborts
    /\ aborts' = aborts + 1
    /\ ReleaseAll(c)
    /\ Answer(c)
    /\ rows' = [rows EXCEPT ![about[c]] = IF pc[c] = "commit" THEN @ + 1 ELSE @]
    /\ UNCHANGED <<payment, stored, balance, createPc, linked, gateway>>

\* The process dies, the gateway's answer is lost or has no code, or the
\* transaction is rolled back: nothing is written, the user sees an error.
CallbackDies(c) ==
    /\ pc[c] # "idle"
    /\ aborts < MaxAborts
    /\ aborts' = aborts + 1
    /\ ReleaseAll(c)
    /\ Answer(c)
    /\ UNCHANGED <<payment, stored, balance, rows, createPc, linked, gateway>>

CreateStep(p) == RequestReturns(p) \/ StoreAuthority(p) \/ Respond(p) \/ FailDeposit(p)

CallbackStep(c) ==
    \/ GatewayVerifies(c)
    \/ TakeCode(c)
    \/ MarkFailed(c)
    \/ Claim(c)
    \/ CreditWallet(c)
    \/ Settle(c)

DepositsNext ==
    \/ \E p \in Payments : \/ CreateDeposit(p) \/ GatewayOpens(p) \/ CreateStep(p)
                           \/ CreateDies(p) \/ UserPays(p)
    \/ \E c \in Reqs : \/ \E p \in Payments : Callback(c, p)
                       \/ CallbackStep(c) \/ CallbackDies(c)

\* Every payment is settled, failed or left by the user: the system may stop.
DepositsDone ==
    /\ \A p \in Payments : createPc[p] = "done"
    /\ \A c \in Reqs : pc[c] = "idle"
    /\ UNCHANGED depositsVars

DepositsSpec == DepositsInit /\ [][DepositsNext \/ DepositsDone]_depositsVars

\* Properties -------------------------------------------------------------

Credited == {p \in Payments : payment[p] = "PAID"}

OneRowEach == \A p \in Payments : rows[p] = (IF payment[p] = "PAID" THEN 1 ELSE 0)
WalletAddsUp == balance = SumFunctionOnSet(Amount, Credited)

(***************************************************************************)
(* The wallet is credited atomically and only once: a payment has its one  *)
(* DEPOSIT row exactly when it is PAID, and the wallet holds what the PAID *)
(* payments add up to, whatever callbacks race, die and are repeated       *)
(* (settleVerifiedPayment; README.md, "Wallet credit must happen           *)
(* atomically and only once").                                             *)
(***************************************************************************)
CreditedOnce == OneRowEach /\ WalletAddsUp

(***************************************************************************)
(* Nothing is credited that the gateway has not verified.                  *)
(***************************************************************************)
CreditedIfVerified ==
    \A p \in Payments : rows[p] > 0 => gateway[p] = "verified"

(***************************************************************************)
(* PAID is final: neither the late rejection of another callback nor the   *)
(* catch block of createDeposit, whose UPDATE repeats no condition, takes  *)
(* it back.                                                                *)
(***************************************************************************)
PaidIsFinal ==
    [][\A p \in Payments : payment[p] = "PAID" => payment'[p] = "PAID"]_depositsVars

Verified == {p \in Payments : gateway[p] = "verified"}

TopUp == INSTANCE Account WITH verified <- Verified, credited <- Credited

(***************************************************************************)
(* The statements of createDeposit and of all callbacks add up to an       *)
(* account that is credited in one step, with what was verified before,    *)
(* and never debited.                                                      *)
(***************************************************************************)
CreditsAreAtomic == TopUp!Spec

(***************************************************************************)
(* Money that has reached the gateway can still be credited: the payment   *)
(* is PENDING with its authority stored, or it is PAID.  Not so for the    *)
(* payments in Early: a callback that is verified before the user pays,    *)
(* and whose answer is late, marks the payment FAILED for good.            *)
(***************************************************************************)
PaidMoneyIsCreditable ==
    \A p \in Payments \ Early : gateway[p] \in {"paid", "verified"} =>
        stored[p] /\ payment[p] \in {"PENDING", "PAID"}

\* A callback that settles has the payment to itself.
ClaimHeld(c) ==
    pc[c] \in {"credit", "commit"} =>
        locks[about[c]] = c /\ payment[about[c]] = "PENDING"

\* A callback settles only what the gateway has verified.
VerifiedFirst(c) ==
    /\ pc[c] # "idle" => about[c] \in Payments
    /\ \/ pc[c] \in {"settle", "credit", "commit"}
       \/ pc[c] = "answer" /\ code[c] \in {"100", "101"}
       => gateway[about[c]] = "verified"

\* The user pays only after createDeposit has returned.
ReturnedFirst(p) ==
    /\ gateway[p] \in {"paid", "verified"} => linked[p]
    /\ linked[p] => createPc[p] = "done"

(***************************************************************************)
(* Why CreditedOnce, CreditedIfVerified and PaidIsFinal hold, and          *)
(* inductive: a payment is claimed by one callback at a time and leaves    *)
(* PENDING once, and createDeposit has ended before the user can pay.      *)
(***************************************************************************)
DepositsInv ==
    /\ DepositsTypeOK
    /\ IsFiniteSet(Credited)
    /\ CreditedOnce
    /\ CreditedIfVerified
    /\ \A c \in Reqs : ClaimHeld(c) /\ VerifiedFirst(c)
    /\ \A p \in Payments : ReturnedFirst(p)

(***************************************************************************)
(* A paid deposit is credited as long as the user comes back: whatever     *)
(* died after the money was taken, a later callback finds the payment      *)
(* PENDING, is told 101 by the gateway and settles it.                     *)
(***************************************************************************)
DepositsFairness ==
    /\ \A c \in Reqs : WF_depositsVars(CallbackStep(c))
    /\ \A p \in Payments : WF_depositsVars(\E c \in Reqs : Callback(c, p))

FairDepositsSpec == DepositsSpec /\ DepositsFairness

PaidIsCredited ==
    \A p \in Payments \ Early : gateway[p] = "paid" ~> payment[p] = "PAID"
=============================================================================
