----------------------------- MODULE MCSession -----------------------------
(* Two tabs and two logins of one user, for TLC. *)
EXTENDS Session
=============================================================================
