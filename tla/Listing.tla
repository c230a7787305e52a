------------------------------- MODULE Listing -------------------------------
(***************************************************************************)
(* Lists that are read a page at a time while rows arrive and leave: the   *)
(* list queries of the backend, each with two statements, the rows of the  *)
(* page and how many there are in all, and the readers in the frontend:    *)
(* getAllTransactions, exportHistory and a user who pages through a table. *)
(*                                                                         *)
(* A row is its place in the order of creation; every list shows the       *)
(* newest first.  Filters choose the rows that are there at all.           *)
(***************************************************************************)
EXTENDS Integers, FiniteSets

CONSTANTS
    PageSize,       \* rows of a page
    MaxPages,       \* pages exportHistory asks for
    MaxRows         \* rows that are ever created: a bound

ASSUME ListingAssumption ==
    /\ PageSize \in Nat \ {0}
    /\ MaxPages \in Nat \ {0}
    /\ MaxRows \in Nat

\* The list queries: which of the two statements may come first, and whether
\* a row can leave the list, because its filter is by a status that changes.
\* With $transaction each statement still sees what was committed before it.
History == [first |-> {"rows"}, leaves |-> FALSE]
NotificationsList == [first |-> {"rows"}, leaves |-> FALSE]
SecurityEvents == [first |-> {"rows"}, leaves |-> FALSE]
ListUsers == [first |-> {"rows", "count"}, leaves |-> TRUE]
ListTransactions == [first |-> {"rows", "count"}, leaves |-> FALSE]
ListPayments == [first |-> {"rows", "count"}, leaves |-> TRUE]
ListSecurityEvents == [first |-> {"rows", "count"}, leaves |-> FALSE]
ListAuditLogs == [first |-> {"rows", "count"}, leaves |-> FALSE]

Lists == {History, NotificationsList, SecurityEvents, ListUsers, ListTransactions,
          ListPayments, ListSecurityEvents, ListAuditLogs}

VARIABLES
    list,       \* the list that is read
    reader,     \* who reads it
    rows,       \* the rows of the list
    born,       \* rows that were ever created
    start,      \* rows when the reading began
    query,      \* the page that is asked for, and what its statements have seen
    got,        \* rows that have arrived
    len,        \* how many have arrived, those that came twice counted twice
    reading     \* not over yet

listingVars == <<list, reader, rows, born, start, query, got, len, reading>>

Rows == 1 .. MaxRows
Unread == -1
Ask(p) == [page |-> p, rows |-> {}, seen |-> FALSE, total |-> Unread]

ListingTypeOK ==
    /\ list \in Lists
    /\ reader \in {"all", "export", "walk"}
    /\ rows \subseteq 1 .. born /\ born \in 0 .. MaxRows
    /\ start \subseteq 1 .. born
    /\ got \subseteq 1 .. born
    /\ len \in Nat /\ Cardinality(got) <= len
    /\ query.page \in Nat \ {0} /\ query.rows \subseteq Rows
    /\ query.total \in Nat \cup {Unread}

ListingInit ==
    /\ list \in Lists
    /\ reader \in IF list = History THEN {"all", "export", "walk"} ELSE {"walk"}
    /\ born \in 0 .. MaxRows
    /\ rows = 1 .. born
    /\ start = rows
    /\ query = Ask(1)
    /\ got = {} /\ len = 0
    /\ reading = TRUE

Insert ==
    /\ born < MaxRows
    /\ born' = born + 1
    /\ rows' = rows \cup {born'}
    /\ UNCHANGED <<list, reader, start, query, got, len, reading>>

\* An account is enabled or disabled, a payment is settled.
Leave ==
    /\ list.leaves
    /\ \E r \in rows : rows' = rows \ {r}
    /\ UNCHANGED <<list, reader, born, start, query, got, len, reading>>

\* skip and take.
Page(p) ==
    {r \in rows : Cardinality({s \in rows : s > r}) \in (p - 1) * PageSize .. p * PageSize - 1}

ReadRows ==
    /\ reading /\ ~query.seen
    /\ query.total = Unread => "rows" \in list.first
    /\ query' = [query EXCEPT !.rows = Page(query.page), !.seen = TRUE]
    /\ UNCHANGED <<list, reader, rows, born, start, got, len, reading>>

\* Variant: the statements in the other order.
CountRowsFirst ==
    /\ reading /\ query.total = Unread
    /\ query' = [query EXCEPT !.total = Cardinality(rows)]
    /\ UNCHANGED <<list, reader, rows, born, start, got, len, reading>>

CountRows ==
    /\ reading /\ query.total = Unread
    /\ ~query.seen => "count" \in list.first
    /\ query' = [query EXCEPT !.total = Cardinality(rows)]
    /\ UNCHANGED <<list, reader, rows, born, start, got, len, reading>>

Answered == query.seen /\ query.total # Unread

\* Variant: the rows of the last page are counted only.
LengthOfPage == Cardinality(query.rows)

Length == len + Cardinality(query.rows)

\* The loops of getAllTransactions and of exportHistory, and the button for
\* the next page, which is there while the page is not the last.
AllGoOn == Length < query.total
ExportGoesOn ==
    /\ query.rows # {}
    /\ Length < query.total
    /\ query.page < MaxPages
WalkGoesOn == query.page * PageSize < query.total

GoesOn == CASE reader = "all" -> AllGoOn
            [] reader = "export" -> ExportGoesOn
            [] reader = "walk" -> WalkGoesOn

\* Pages beyond the rows that can be there look like the first of them.
NextPage(p) == IF p * PageSize > MaxRows THEN p ELSE p + 1

ReceivePage ==
    /\ reading /\ Answered
    /\ got' = got \cup query.rows
    /\ len' = Length
    /\ reading' = GoesOn
    /\ query' = Ask(IF GoesOn THEN NextPage(query.page) ELSE query.page)
    /\ UNCHANGED <<list, reader, rows, born, start>>

ListingNext == Insert \/ Leave \/ ReadRows \/ CountRows \/ ReceivePage

ListingSpec == ListingInit /\ [][ListingNext]_listingVars

\* Properties -------------------------------------------------------------

(***************************************************************************)
(* Who reads a list to its end has seen every row that was there at the    *)
(* beginning, whatever is created between the pages, and between the       *)
(* statements of a page: if rows do not leave, if the rows of a page are   *)
(* read before they are counted (list, listForUser, listEvents), and but   *)
(* for an export that was cut off at MaxPages.                             *)
(***************************************************************************)
ListMissesNothing ==
    (/\ ~reading
     /\ list.first = {"rows"} /\ ~list.leaves
     /\ ~(reader = "export" /\ query.page = MaxPages))
    => start \subseteq got
=============================================================================
