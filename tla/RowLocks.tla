------------------------------ MODULE RowLocks ------------------------------
(***************************************************************************)
(* The part of PostgreSQL that every interactive transaction of the        *)
(* backend leans on: exclusive row locks held from the first UPDATE or     *)
(* SELECT ... FOR UPDATE of a row until the transaction ends, and the      *)
(* detection of a cycle of waiting transactions.  The backend runs at the  *)
(* default isolation level, READ COMMITTED, and takes no other lock.       *)
(*                                                                         *)
(* FOR UPDATE and the lock of an UPDATE conflict with each other and with  *)
(* themselves, so one exclusive mode is enough.  The weaker FOR KEY SHARE  *)
(* lock of a foreign-key check never adds a wait here: the backend always  *)
(* inserts a Transaction row after it has locked the wallet, envelope or   *)
(* goal the row refers to.                                                 *)
(***************************************************************************)
CONSTANTS
    Reqs,   \* the requests, each running at most one database transaction
    Rows,   \* the rows that are ever locked
    NoReq   \* owner of a row nobody has locked

ASSUME NoReqAssumption == NoReq \notin Reqs

VARIABLE locks  \* the transaction that has locked each row

LocksTypeOK == locks \in [Rows -> Reqs \cup {NoReq}]

NoLocks == [x \in Rows |-> NoReq]

\* A transaction never waits for a lock it already has.
Free(r, x) == locks[x] \in {NoReq, r}

Take(r, x) ==
    /\ Free(r, x)
    /\ locks' = [locks EXCEPT ![x] = r]

\* COMMIT and ROLLBACK release every lock of the transaction at once.
ReleaseAll(r) == locks' = [x \in Rows |-> IF locks[x] = r THEN NoReq ELSE locks[x]]

(***************************************************************************)
(* want[r] is the row r asks for, or a value outside Rows when it asks for *)
(* none.  PostgreSQL's deadlock check starts from a waiting transaction    *)
(* and aborts it when it finds itself on a cycle.  A transaction waits for *)
(* one lock at a time, so a set of transactions in which each waits for a  *)
(* member, and each is waited for by a member, consists of such cycles.    *)
(***************************************************************************)
WaitsFor(want, r, q) ==
    /\ r # q
    /\ want[r] \in Rows
    /\ locks[want[r]] = q

InWaitCycle(want, r) ==
    \E S \in SUBSET Reqs :
        /\ r \in S
        /\ \A a \in S : \E b \in S : WaitsFor(want, a, b)
        /\ \A b \in S : \E a \in S : WaitsFor(want, a, b)
=============================================================================
