----------------------------- MODULE MCBrowser -----------------------------
(* Two tabs and one user, two requests at a time, lists of a few rows. *)
EXTENDS Browser

\* The limiter payments opens its window together with deposit, user before
\* both; a window of user is the longest.
MCTtl == [l \in Limiters |-> CASE l \in {"burst", "payments"} -> 2
                               [] l = "user" -> 5
                               [] OTHER -> 3]
MCLimit == [l \in Limiters |-> 1]
=============================================================================
