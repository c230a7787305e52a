-------------------------------- MODULE Bank --------------------------------
(***************************************************************************)
(* What the money operations of the backend promise, without statements,   *)
(* locks or transactions: each request moves its amount from one pot to    *)
(* another in one indivisible step, at most once, and never takes more     *)
(* from a pot than the pot holds.  NoPot is the world outside: a deposit   *)
(* comes from it and a withdrawal goes to it.                              *)
(***************************************************************************)
EXTENDS Integers

CONSTANTS Pots, NoPot, Opening, Reqs, NoMove

VARIABLES
    funds,      \* the money in each pot
    settled     \* the move each request has made, or NoMove

vars == <<funds, settled>>

Moves == [from : Pots \cup {NoPot}, to : Pots \cup {NoPot}, amount : Nat]

TypeOK ==
    /\ funds \in [Pots -> Nat]
    /\ settled \in [Reqs -> Moves \cup {NoMove}]

Init ==
    /\ funds = Opening
    /\ settled = [r \in Reqs |-> NoMove]

\* Request r makes the move m.
Settle(r, m) ==
    /\ settled[r] = NoMove
    /\ m \in Moves
    /\ m.from \in Pots => funds[m.from] >= m.amount
    /\ settled' = [settled EXCEPT ![r] = m]
    /\ funds' = [p \in Pots |-> funds[p] + (IF p = m.to THEN m.amount ELSE 0)
                                         - (IF p = m.from THEN m.amount ELSE 0)]

\* The move is any move: which one, the next state tells.
Next == \E r \in Reqs : Settle(r, settled'[r])

Spec == Init /\ [][Next]_vars
=============================================================================
