------------------------------- MODULE Account -------------------------------
(***************************************************************************)
(* What PaymentsService promises about a wallet that is topped up, without *)
(* callbacks, locks or an authority: the gateway verifies payments, and a  *)
(* payment that it has verified is credited with its amount at most once,  *)
(* in one indivisible step that nothing takes back.                        *)
(***************************************************************************)
EXTENDS Integers

CONSTANTS Payments, Amount

VARIABLES
    balance,    \* the money in the wallet
    verified,   \* the payments the gateway has verified
    credited    \* the payments that are in the balance

vars == <<balance, verified, credited>>

Init == balance = 0 /\ verified = {} /\ credited = {}

Verify(p) ==
    /\ verified' = verified \cup {p}
    /\ UNCHANGED <<balance, credited>>

Credit(p) ==
    /\ p \in verified \ credited
    /\ credited' = credited \cup {p}
    /\ balance' = balance + Amount[p]
    /\ UNCHANGED verified

Next == \E p \in Payments : Verify(p) \/ Credit(p)

Spec == Init /\ [][Next]_vars
=============================================================================
