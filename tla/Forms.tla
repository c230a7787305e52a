-------------------------------- MODULE Forms --------------------------------
(***************************************************************************)
(* A form of the frontend that asks the backend for something that must    *)
(* not happen twice.  The backend has no key by which it would recognise a *)
(* request that is repeated, so all that stands between the user and a     *)
(* second payment is the form's own lock (loading, which disables its      *)
(* button), while answers take their time or are lost, the session changes *)
(* and a rate limit comes and goes.                                        *)
(*                                                                         *)
(* The lock is state of the component: a form that is closed or left and   *)
(* opened again is another one, without the lock, although the handler of  *)
(* the first still waits for its answer.                                   *)
(*                                                                         *)
(* All forms are one machine; a record says what each of them does.        *)
(***************************************************************************)
EXTENDS Integers, FiniteSets

CONSTANTS
    Tries,          \* the submissions, in their order: a bound
    MaxBlocks,      \* rate limits that come and go meanwhile: a bound
    MaxVisits       \* how often the form is opened: a bound

ASSUME FormsAssumption ==
    /\ Tries \subseteq Nat /\ IsFiniteSet(Tries)
    /\ MaxBlocks \in Nat /\ MaxVisits \in Nat \ {0}

(***************************************************************************)
(* checks    requests the form awaits before the one that counts: limits,  *)
(*           the balance or the envelope, the recipient                    *)
(* member    only a user sends it                                          *)
(* limited   not sent while its action is cooling down                     *)
(* releases  the lock ends with the answer (finally), before the next page *)
(*           is there; otherwise only an error ends it                     *)
(* unlocks   the end of a cooldown ends the lock, too                      *)
(* stays     there is no next page                                         *)
(***************************************************************************)
Form == [checks |-> 0, member |-> TRUE, limited |-> TRUE, releases |-> TRUE,
         unlocks |-> FALSE, stays |-> FALSE]

WithdrawForm == [Form EXCEPT !.checks = 2]
ConfirmContent == [Form EXCEPT !.checks = 2]
DepositForm == [Form EXCEPT !.releases = FALSE]
ScheduledPaymentForm == [Form EXCEPT !.checks = 1]
CreateGoalForm == [Form EXCEPT !.limited = FALSE]
CreateEnvelopeForm == [Form EXCEPT !.limited = FALSE]
DestinationForm == [Form EXCEPT !.limited = FALSE, !.stays = TRUE]
LoginPage == [Form EXCEPT !.member = FALSE, !.releases = FALSE, !.unlocks = TRUE]
RegisterPage == LoginPage

AllForms == {WithdrawForm, ConfirmContent, DepositForm, ScheduledPaymentForm, CreateGoalForm,
             CreateEnvelopeForm, DestinationForm, LoginPage, RegisterPage}

VARIABLES
    form,       \* the form that is open
    signedIn,   \* useUser says ready
    blocked,    \* useRateLimitAction says blocked
    blocks,     \* rate limits so far
    visit,      \* how often the form has been opened
    locked,     \* loading of the form that is open: the lock
    try,        \* the submissions: the visit, and the checks they have left
    excuses,    \* history: errors this visit has shown, locks a cooldown ended
    heading,    \* the next page was asked for
    gone        \* another page is there, or the form is closed

formVars == <<form, signedIn, blocked, blocks, visit, locked, try, excuses, heading, gone>>

Idle == [at |-> "none", left |-> 0, visit |-> 0]

FormsTypeOK ==
    /\ form \in AllForms
    /\ signedIn \in BOOLEAN /\ blocked \in BOOLEAN /\ locked \in BOOLEAN
    /\ heading \in BOOLEAN /\ gone \in BOOLEAN
    /\ blocks \in 0 .. MaxBlocks /\ visit \in 1 .. MaxVisits
    /\ try \in [Tries -> [at : {"none", "check", "server", "late", "done", "refused",
                                "did", "over"},
                          left : 0 .. 2, visit : 0 .. MaxVisits]]
    /\ excuses \in Nat

FormsInit ==
    /\ form \in AllForms
    /\ signedIn \in BOOLEAN
    /\ blocked = FALSE /\ blocks = 0
    /\ visit = 1
    /\ locked = FALSE
    /\ try = [r \in Tries |-> Idle]
    /\ excuses = 0
    /\ heading = FALSE /\ gone = FALSE

\* handleSubmit, up to its first await.
Submit(r) ==
    /\ ~gone /\ ~locked
    /\ \A q \in Tries : try[q].at = "none" <=> r <= q
    /\ form.member => signedIn
    /\ form.limited => ~blocked
    /\ locked' = TRUE
    /\ try' = [try EXCEPT ![r] = [at |-> IF form.checks = 0 THEN "server" ELSE "check",
                                  left |-> form.checks, visit |-> visit]]
    /\ UNCHANGED <<form, signedIn, blocked, blocks, visit, excuses, heading, gone>>

\* Also when the form has been left: the handler goes on.
CheckPasses(r) ==
    /\ try[r].at = "check"
    /\ try' = [try EXCEPT ![r].at = IF try[r].left = 1 THEN "server" ELSE "check",
                          ![r].left = @ - 1]
    /\ UNCHANGED <<form, signedIn, blocked, blocks, visit, locked, excuses, heading, gone>>

\* The form whose handler this is, if it is still the one that is open,
\* shows an error and can be sent again.
ShowError(r) ==
    /\ locked' = (locked /\ try[r].visit # visit)
    /\ excuses' = IF try[r].visit = visit THEN excuses + 1 ELSE excuses
    /\ UNCHANGED <<form, signedIn, blocked, blocks, visit, heading, gone>>

\* A check finds something, or fails itself.
CheckFails(r) ==
    /\ try[r].at = "check"
    /\ try' = [try EXCEPT ![r].at = "over"]
    /\ ShowError(r)

\* The backend does it, or refuses to; also when nobody waits any more.
Served(r) ==
    /\ try[r].at = "server"
    /\ \E answer \in {"done", "refused"} : try' = [try EXCEPT ![r].at = answer]
    /\ UNCHANGED <<form, signedIn, blocked, blocks, visit, locked, excuses, heading, gone>>

ServedLate(r) ==
    /\ try[r].at = "late"
    /\ \E end \in {"did", "over"} : try' = [try EXCEPT ![r].at = end]
    /\ UNCHANGED <<form, signedIn, blocked, blocks, visit, locked, excuses, heading, gone>>

\* Variant: finally { setLoading(false) } in every form.
SucceedsReleasing(r) ==
    /\ try[r].at = "done"
    /\ try' = [try EXCEPT ![r].at = "did"]
    /\ heading' = (heading \/ ~form.stays)
    /\ locked' = (locked /\ try[r].visit # visit)
    /\ UNCHANGED <<form, signedIn, blocked, blocks, visit, excuses, gone>>

\* A success: router.push or location.assign, wherever the user is by then.
Succeeds(r) ==
    /\ try[r].at = "done"
    /\ try' = [try EXCEPT ![r].at = "did"]
    /\ heading' = (heading \/ ~form.stays)
    /\ locked' = (locked /\ ~(form.releases /\ try[r].visit = visit))
    /\ UNCHANGED <<form, signedIn, blocked, blocks, visit, excuses, gone>>

\* An error; or the answer is lost, before or after the request was served.
Fails(r) ==
    /\ try[r].at \in {"server", "done", "refused"}
    /\ try' = [try EXCEPT ![r].at = CASE @ = "server" -> "late"
                                     [] @ = "done" -> "did"
                                     [] @ = "refused" -> "over"]
    /\ ShowError(r)

\* A 429 of this or of another request of the tab (Cooldowns).
BlockBegins ==
    /\ ~blocked /\ blocks < MaxBlocks
    /\ blocked' = TRUE /\ blocks' = blocks + 1
    /\ UNCHANGED <<form, signedIn, visit, locked, try, excuses, heading, gone>>

\* The effect that waits for wasBlocked.
BlockEnds ==
    /\ blocked
    /\ blocked' = FALSE
    /\ locked' = (locked /\ ~form.unlocks)
    /\ excuses' = IF form.unlocks /\ locked THEN excuses + 1 ELSE excuses
    /\ UNCHANGED <<form, signedIn, blocks, visit, try, heading, gone>>

\* The session ends, or a probe finds it again (Session).
SessionChanges ==
    /\ signedIn' = ~signedIn
    /\ UNCHANGED <<form, blocked, blocks, visit, locked, try, excuses, heading, gone>>

NextPageLoads ==
    /\ heading
    /\ heading' = FALSE /\ gone' = TRUE
    /\ UNCHANGED <<form, signedIn, blocked, blocks, visit, locked, try, excuses>>

\* The user closes the modal, or goes to another page.
LeaveForm ==
    /\ ~gone
    /\ gone' = TRUE
    /\ UNCHANGED <<form, signedIn, blocked, blocks, visit, locked, try, excuses, heading>>

\* The form is mounted again, with the state it starts with.
OpenAnew ==
    /\ gone /\ visit < MaxVisits
    /\ gone' = FALSE /\ visit' = visit + 1
    /\ locked' = FALSE /\ excuses' = 0
    /\ UNCHANGED <<form, signedIn, blocked, blocks, try, heading>>

\* The exception: the browser has kept the page, with the state it had.
GoBack ==
    /\ gone
    /\ gone' = FALSE
    /\ UNCHANGED <<form, signedIn, blocked, blocks, visit, locked, try, excuses, heading>>

FormsNext ==
    \/ \E r \in Tries :
          \/ Submit(r)
          \/ CheckPasses(r) \/ CheckFails(r)
          \/ Served(r) \/ ServedLate(r)
          \/ Succeeds(r) \/ Fails(r)
    \/ BlockBegins \/ BlockEnds
    \/ SessionChanges
    \/ NextPageLoads \/ LeaveForm
    \/ OpenAnew \/ GoBack

FormsSpec == FormsInit /\ [][FormsNext]_formVars

\* Properties -------------------------------------------------------------

\* What the form that is open has asked for and has no answer to; and what
\* it has asked for that was done, or may yet be.
Trying == {r \in Tries : try[r].visit = visit
                         /\ try[r].at \in {"check", "server", "done", "refused"}}
Asked == {r \in Tries : try[r].visit = visit
                        /\ try[r].at \in {"check", "server", "late", "done", "did"}}

(***************************************************************************)
(* As long as it is open, a form that keeps its lock until the next page   *)
(* is there asks again only after an error it has shown or the end of a    *)
(* cooldown: never because an answer takes its time, the session changed   *)
(* meanwhile, the browser goes back to the page it has kept, or an answer  *)
(* to the form as it was opened earlier arrives (DepositForm, LoginPage,   *)
(* RegisterPage).  The other forms have one submission under way at a      *)
(* time; but they can be sent again between the answer and the next page.  *)
(* Nothing is said across visits: a form that is closed and opened anew    *)
(* may ask for the same thing a second time.                               *)
(***************************************************************************)
AskedOnce ==
    /\ ~form.releases => Cardinality(Asked) <= excuses + 1
    /\ ~form.unlocks => Cardinality(Trying) <= 1
=============================================================================
