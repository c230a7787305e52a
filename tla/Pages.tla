-------------------------------- MODULE Pages --------------------------------
(***************************************************************************)
(* A page of the frontend that shows what the backend answers: it loads    *)
(* when it is opened and when a filter or a page number is chosen, it may  *)
(* send changes and load again after them, and answers arrive in any order.*)
(*                                                                         *)
(* All pages are one machine; a record says what each of them does.  Of    *)
(* the data it matters which choice it is for and how many of the page's   *)
(* own changes it includes.  The language never changes, and a guest does  *)
(* not become a user, while a page is open.                                *)
(***************************************************************************)
EXTENDS Integers

CONSTANTS
    Choices,        \* filters and page numbers, as one
    First,          \* the choice a page opens with
    LoadSlots,      \* loads that are under way at a time: a bound
    ChangeSlots     \* changes the page ever sends: a bound

ASSUME PagesAssumption ==
    /\ First \in Choices
    /\ LoadSlots \subseteq Nat /\ ChangeSlots \subseteq Nat

\* The pages --------------------------------------------------------------

(***************************************************************************)
(* does    what the user can do: choose; send a change after which the     *)
(*         page loads again (reload), or one whose answer is put into the  *)
(*         rows (patch); ask again after a failure (retry)                 *)
(* offers  of these, what the page offers while it is loading              *)
(* latest  an answer is dropped once another load has begun (a cancelled   *)
(*         flag, a load id)                                                *)
(* twice   a choice of a filter loads the old page number of the new       *)
(*         filter and then its first page                                  *)
(* waits   a choice is loaded after a pause                                *)
(* polls   loads by a timer or an event, too                               *)
(* alone   no change is sent while another is under way, or before there   *)
(*         are rows; and after them the page has no button to ask again    *)
(* wipes   the rows are removed when the user becomes a guest              *)
(* fails   what may become of a load that fails: an error that is shown;   *)
(*         empty rows, as if there were none (an error swallowed by a      *)
(*         catch or by allSettled; demo rows after a 401); or the rows are *)
(*         kept, and the user is not told                                  *)
(***************************************************************************)
Plain == [does |-> {}, offers |-> {}, latest |-> FALSE, twice |-> FALSE, waits |-> FALSE,
          polls |-> FALSE, alone |-> FALSE, wipes |-> FALSE, fails |-> {"shown"}]

Swallowing == [Plain EXCEPT !.fails = {"empty"}]
Loaded == [Plain EXCEPT !.latest = TRUE]
Filtered == [Loaded EXCEPT !.does = {"choose"}, !.offers = {"choose"}]
Collection ==
    [Plain EXCEPT !.does = {"reload", "retry"}, !.wipes = TRUE, !.fails = {"shown", "empty"}]
Detail == [Plain EXCEPT !.does = {"reload", "patch", "retry"}, !.alone = TRUE]

HistoryPage ==
    [Filtered EXCEPT !.does = {"choose", "retry"}, !.waits = TRUE, !.wipes = TRUE,
                     !.fails = {"shown", "empty"}]
HomePage == [Swallowing EXCEPT !.latest = TRUE, !.wipes = TRUE]
StatisticsPage == [Swallowing EXCEPT !.latest = TRUE, !.wipes = TRUE]
GoalsPage == Collection
EnvelopesPage == Collection
ScheduledPaymentsPage == [Collection EXCEPT !.fails = {"shown", "kept"}]
DestinationsPage ==
    [Collection EXCEPT !.does = {"reload"}, !.wipes = FALSE, !.fails = {"shown", "kept"}]
GoalDetailPage == Detail
EnvelopeDetailPage == Detail
ScheduledPaymentDetailPage == [Detail EXCEPT !.does = {"reload", "retry"}]
NotificationsPage ==
    [Plain EXCEPT !.does = {"choose", "patch", "retry"}, !.twice = TRUE, !.wipes = TRUE,
                  !.fails = {"shown", "kept"}]
NotificationBell ==
    [Plain EXCEPT !.does = {"patch"}, !.offers = {"patch"}, !.polls = TRUE,
                  !.fails = {"empty", "kept"}]
SecurityPage ==
    [Plain EXCEPT !.does = {"choose", "reload"}, !.offers = {"choose", "reload"},
                  !.wipes = TRUE, !.fails = {"shown", "kept"}]
ProfilePage == Swallowing
WithdrawPage == Swallowing
FundingSourceSelect == Swallowing
SendPage == Swallowing
\* The limits are loaded again when the form is sent, and after its error.
SendConfirmLists == [Swallowing EXCEPT !.polls = TRUE, !.fails = {"empty", "kept"}]
WithdrawFormLists == SendConfirmLists
WalletBalance ==
    [Plain EXCEPT !.does = {"reload"}, !.offers = {"reload"}, !.polls = TRUE, !.wipes = TRUE,
                  !.fails = {"shown", "empty", "kept"}]
AdminDashboardPage ==
    [Plain EXCEPT !.does = {"reload"}, !.offers = {"reload"}, !.fails = {"shown", "kept"}]
AdminUsersPage == [Filtered EXCEPT !.does = {"choose", "reload"}]
AdminUserDetailPage == [Plain EXCEPT !.does = {"reload"}, !.offers = {"reload"}]
AdminTransactionsPage == Filtered
AdminPaymentsPage == Filtered
AdminWithdrawalsPage == Filtered
AdminSecurityPage == [Filtered EXCEPT !.fails = {"shown", "empty"}]
AdminAuditPage == Filtered
AdminPaymentDetailPage == Loaded
AdminTransactionDetailPage == Loaded
AdminGate == Loaded

AllPages == {
    HistoryPage, HomePage, StatisticsPage, GoalsPage, EnvelopesPage,
    ScheduledPaymentsPage, DestinationsPage, GoalDetailPage, EnvelopeDetailPage,
    ScheduledPaymentDetailPage, NotificationsPage, NotificationBell, SecurityPage,
    ProfilePage, WithdrawPage, FundingSourceSelect, SendConfirmLists, SendPage,
    WithdrawFormLists, WalletBalance, AdminDashboardPage, AdminUsersPage, AdminUserDetailPage,
    AdminTransactionsPage, AdminPaymentsPage, AdminWithdrawalsPage, AdminSecurityPage,
    AdminAuditPage, AdminPaymentDetailPage, AdminTransactionDetailPage, AdminGate}

\* The machine ------------------------------------------------------------

VARIABLES
    page,       \* the page that is open
    guest,      \* useUser says unauthenticated
    choice,     \* the filter and page number that are chosen
    due,        \* the timer of a page that waits
    loading,    \* the page is shown as loading
    loads,      \* requests for the data
    changes,    \* the page's own changes
    served,     \* how many changes the backend has made
    acked,      \* the last of them whose answer has arrived
    view        \* what is shown: rows of a choice, blank if there are none;
                \* an error (failed); history: a failure that is not shown

pageVars == <<page, guest, choice, due, loading, loads, changes, served, acked, view>>

NoLoad == [at |-> "none", choice |-> First, has |-> 0, latest |-> FALSE]
NoChange == [at |-> "none", how |-> "patch", nr |-> 0]
Blank == [choice |-> First, has |-> 0, failed |-> FALSE, hidden |-> FALSE, blank |-> TRUE]
RowsOf(l) == [choice |-> l.choice, has |-> l.has, failed |-> FALSE, hidden |-> FALSE, blank |-> FALSE]

PagesTypeOK ==
    /\ page \in AllPages
    /\ guest \in BOOLEAN /\ due \in BOOLEAN /\ loading \in BOOLEAN
    /\ choice \in Choices
    /\ loads \in [LoadSlots -> [at : {"none", "server", "back"}, choice : Choices,
                                has : Nat, latest : BOOLEAN]]
    /\ changes \in [ChangeSlots -> [at : {"none", "server", "back", "over"},
                                    how : {"reload", "patch"}, nr : Nat]]
    /\ acked \in 0 .. served
    /\ view.choice \in Choices /\ view.has \in 0 .. served

\* The loads when one for choice c begins, in a slot that is free.  Those
\* before it are out of date.
Begun(ls, c) ==
    LET free == CHOOSE s \in LoadSlots : ls[s].at = "none"
    IN  [s \in LoadSlots |-> IF s = free
            THEN [at |-> "server", choice |-> c, has |-> 0, latest |-> TRUE]
            ELSE [ls[s] EXCEPT !.latest = FALSE]]

Free(n) == \E S \in SUBSET LoadSlots :
              (\A s \in S : loads[s].at = "none") /\ \E s \in S : n = 1 \/ S # {s}

PagesInit ==
    /\ page \in AllPages
    /\ guest = FALSE
    /\ choice = First
    /\ due = page.waits
    /\ loading = TRUE
    /\ loads = IF page.waits THEN [s \in LoadSlots |-> NoLoad]
                             ELSE Begun([s \in LoadSlots |-> NoLoad], First)
    /\ changes = [k \in ChangeSlots |-> NoChange]
    /\ served = 0 /\ acked = 0
    /\ view = Blank

Offers(what) == what \in page.does /\ (loading => what \in page.offers)

\* A filter, a page number: the effect of the page runs, or both effects.
Choose(c) ==
    /\ Offers("choose") /\ ~guest
    /\ c # choice
    /\ choice' = c
    /\ \/ /\ page.waits
          /\ due' = TRUE
          /\ UNCHANGED <<loading, loads>>
       \/ /\ ~page.waits /\ Free(1)
          /\ loading' = TRUE
          /\ loads' = Begun(loads, c)
          /\ UNCHANGED due
       \/ /\ page.twice /\ Free(2)
          /\ \E old \in Choices \ {c} : loads' = Begun(Begun(loads, old), c)
          /\ loading' = TRUE
          /\ UNCHANGED due
    /\ UNCHANGED <<page, guest, changes, served, acked, view>>

LoadAgain ==
    /\ Free(1)
    /\ loading' = TRUE
    /\ loads' = Begun(loads, choice)
    /\ UNCHANGED <<page, guest, choice, changes, served, acked, view>>

TimerFires == due /\ due' = FALSE /\ LoadAgain

\* The retry button; the interval of 30 s, the end of a cooldown, a form
\* that is sent.
Retry ==
    /\ \/ /\ "retry" \in page.does /\ view.failed /\ ~loading
          /\ page.alone => view.blank
       \/ page.polls
    /\ ~guest
    /\ UNCHANGED due
    /\ LoadAgain

LoadServed(s) ==
    /\ loads[s].at = "server"
    /\ loads' = [loads EXCEPT ![s].at = "back", ![s].has = served]
    /\ UNCHANGED <<page, guest, choice, due, loading, changes, served, acked, view>>

\* Variant: the answer is shown whatever has begun since.
LoadAnsweredUnchecked(s) ==
    /\ loads[s].at = "back"
    /\ loads' = [loads EXCEPT ![s] = NoLoad]
    /\ view' = RowsOf(loads[s])
    /\ loading' = FALSE
    /\ UNCHANGED <<page, guest, choice, due, changes, served, acked>>

LoadAnswered(s) ==
    /\ loads[s].at = "back"
    /\ loads' = [loads EXCEPT ![s] = NoLoad]
    /\ \/ /\ page.latest /\ ~loads[s].latest
          /\ UNCHANGED <<loading, view>>
       \/ /\ page.latest => loads[s].latest
          /\ view' = RowsOf(loads[s])
          /\ loading' = FALSE
    /\ UNCHANGED <<page, guest, choice, due, changes, served, acked>>

\* What the page makes of a failure.
Failed(how) ==
    CASE how = "shown" -> [view EXCEPT !.failed = TRUE]
      [] how = "empty" -> [Blank EXCEPT !.hidden = TRUE]
      [] how = "kept" -> [view EXCEPT !.hidden = TRUE]

\* An error, a 401 or no answer; it, too, may be out of date.
LoadFails(s) ==
    /\ loads[s].at # "none"
    /\ loads' = [loads EXCEPT ![s] = NoLoad]
    /\ \/ /\ page.latest /\ ~loads[s].latest
          /\ UNCHANGED <<loading, view>>
       \/ /\ page.latest => loads[s].latest
          /\ \E how \in page.fails : view' = Failed(how)
          /\ loading' = FALSE
    /\ UNCHANGED <<page, guest, choice, due, changes, served, acked>>

UnderWay == \E k \in ChangeSlots : changes[k].at \in {"server", "back"}
Unsent(k) == \A j \in ChangeSlots : changes[j].at = "none" <=> k <= j

SendChange(k) ==
    /\ ~guest
    /\ page.alone => ~UnderWay /\ ~view.blank
    /\ Unsent(k)
    /\ \E how \in {"reload", "patch"} :
          /\ Offers(how)
          /\ changes' = [changes EXCEPT ![k] = [at |-> "server", how |-> how, nr |-> 0]]
    /\ UNCHANGED <<page, guest, choice, due, loading, loads, served, acked, view>>

ChangeServed(k) ==
    /\ changes[k].at = "server"
    /\ served' = served + 1
    /\ changes' = [changes EXCEPT ![k].at = "back", ![k].nr = served']
    /\ UNCHANGED <<page, guest, choice, due, loading, loads, acked, view>>

Later(m, n) == IF m < n THEN n ELSE m

\* Its answer; a guest's page is not loaded again.
ChangeAnswered(k) ==
    /\ changes[k].at = "back"
    /\ changes' = [changes EXCEPT ![k].at = "over"]
    /\ acked' = Later(acked, changes[k].nr)
    /\ \/ /\ changes[k].how = "patch"
          /\ view' = [view EXCEPT !.has = Later(@, changes[k].nr)]
          /\ UNCHANGED <<loading, loads>>
       \/ /\ changes[k].how = "reload" /\ ~guest /\ Free(1)
          /\ loads' = Begun(loads, choice)
          /\ loading' = TRUE
          /\ UNCHANGED view
       \/ /\ changes[k].how = "reload" /\ guest
          /\ UNCHANGED <<loading, loads, view>>
    /\ UNCHANGED <<page, guest, choice, due, served>>

\* An error, or no answer: nothing is loaded.
ChangeFails(k) ==
    /\ changes[k].at \in {"server", "back"}
    /\ changes' = [changes EXCEPT ![k].at = "over"]
    /\ UNCHANGED <<page, guest, choice, due, loading, loads, served, acked, view>>

\* The user signs out, or the session ends (Session): the effect runs, and
\* so does its clean-up.
BecomeGuest ==
    /\ ~guest
    /\ guest' = TRUE
    /\ due' = FALSE
    /\ loading' = FALSE
    /\ loads' = [s \in LoadSlots |-> [loads[s] EXCEPT !.latest = FALSE]]
    /\ view' = IF page.wipes THEN Blank ELSE view
    /\ UNCHANGED <<page, choice, changes, served, acked>>

PagesNext ==
    \/ \E c \in Choices : Choose(c)
    \/ TimerFires
    \/ Retry
    \/ \E s \in LoadSlots : LoadServed(s) \/ LoadAnswered(s) \/ LoadFails(s)
    \/ \E k \in ChangeSlots : SendChange(k) \/ ChangeServed(k) \/ ChangeAnswered(k) \/ ChangeFails(k)
    \/ BecomeGuest

PagesSpec == PagesInit /\ [][PagesNext]_pageVars

\* Properties -------------------------------------------------------------

AtRest == ~due /\ ~UnderWay /\ \A s \in LoadSlots : loads[s].at = "none"

\* Pages that cannot be overtaken by an answer of their own: they drop what
\* is out of date, or offer nothing while they load or change something.
\* The other pages with a filter or changes are not protected.
Orderly ==
    \/ page.latest
    \/ /\ page.offers = {} /\ ~page.twice /\ ~page.polls
       /\ page.alone \/ page.does \cap {"reload", "patch"} = {}

(***************************************************************************)
(* When nothing is under way any more, a page never shows what has been    *)
(* overtaken: it shows the data of the choice that was made last, with     *)
(* every change of its own that was acknowledged, although answers         *)
(* overtake each other; or, after a load that failed, an error, or no rows *)
(* at all on a page that swallows the failure.  And a page that drops old  *)
(* answers and wipes its rows shows no rows to a guest, although a load    *)
(* was under way when the user left.                                       *)
(***************************************************************************)
NewestIsShown ==
    Orderly /\ AtRest =>
        IF guest THEN page.latest /\ page.wipes => view = Blank
        ELSE \/ view.failed
             \/ view.hidden /\ view.blank
             \/ view.choice = choice /\ view.has >= acked
=============================================================================
