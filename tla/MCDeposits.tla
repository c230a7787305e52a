----------------------------- MODULE MCDeposits -----------------------------
(***************************************************************************)
(* Two payments into one wallet, and two browser tabs that open the        *)
(* callback page as often as they like.                                    *)
(***************************************************************************)
EXTENDS Deposits, TLC

CONSTANTS p1, p2

MCPayments == {p1, p2}
MCRows == {p1, p2, Wallet}
MCAmount == p1 :> 1 @@ p2 :> 2
=============================================================================
