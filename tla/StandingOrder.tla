---------------------------- MODULE StandingOrder ----------------------------
(***************************************************************************)
(* What ScheduledPaymentsService promises, without runs, retries or locks: *)
(* at the dates of a schedule, one after the other and not before they     *)
(* are due, the amount leaves the row that pays, once for each date and in *)
(* one indivisible step with its transfer, and only if it is there.        *)
(***************************************************************************)
EXTENDS Integers

CONSTANTS Slots, Amount

VARIABLES
    clock,      \* the last slot that is due
    next,       \* the slot whose turn it is
    paid,       \* how many transfers each slot has
    balance     \* the money in the row that pays

vars == <<clock, next, paid, balance>>

Init ==
    /\ clock = 0
    /\ next = 1
    /\ paid = [k \in Slots |-> 0]
    /\ balance = 0

Tick ==
    /\ clock' = clock + 1
    /\ UNCHANGED <<next, paid, balance>>

\* What else the owner does with the money.
Spend ==
    /\ balance' \in Nat
    /\ UNCHANGED <<clock, next, paid>>

\* The turn stays with the last slot of a schedule.
Pay(k) ==
    /\ k = next /\ k <= clock
    /\ paid[k] = 0
    /\ balance >= Amount
    /\ balance' = balance - Amount
    /\ paid' = [paid EXCEPT ![k] = 1]
    /\ next' \in {k, k + 1}
    /\ UNCHANGED clock

Next == Tick \/ Spend \/ \E k \in Slots : Pay(k)

Spec == Init /\ [][Next]_vars
=============================================================================
