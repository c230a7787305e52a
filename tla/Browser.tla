------------------------------- MODULE Browser -------------------------------
(***************************************************************************)
(* The frontend: its cooldowns, its session, the pages that load, the      *)
(* forms that send, and the lists they read.  These machines share no      *)
(* state: what one of them does to another (a sign-out to a page, a        *)
(* cooldown to a form) may happen to that one at any time.  So it is       *)
(* enough to let one of them run while the others rest.                    *)
(***************************************************************************)
EXTENDS Cooldowns, Session, Pages, Forms, Listing

VARIABLE part       \* the machine that runs

Parts == {"cooldowns", "session", "pages", "forms", "lists"}

browserVars == <<part, cooldownVars, sessionVars, pageVars, formVars, listingVars>>

BrowserTypeOK ==
    /\ part \in Parts
    /\ CooldownsTypeOK
    /\ SessionTypeOK
    /\ PagesTypeOK
    /\ FormsTypeOK
    /\ ListingTypeOK

\* A machine that rests is in one of its initial states, no matter which.
BrowserInit ==
    /\ part \in Parts
    /\ CooldownsInit
    /\ part # "cooldowns" => scarce = CHOOSE s \in Scarce : TRUE
    /\ SessionInit
    /\ PagesInit
    /\ part # "pages" => page = HomePage
    /\ FormsInit
    /\ part # "forms" => form = DepositForm /\ signedIn
    /\ ListingInit
    /\ part # "lists" => list = History /\ reader = "walk" /\ born = 0

CooldownsRun ==
    /\ part = "cooldowns" /\ CooldownsNext
    /\ UNCHANGED <<part, sessionVars, pageVars, formVars, listingVars>>

SessionRuns ==
    /\ part = "session" /\ SessionNext
    /\ UNCHANGED <<part, cooldownVars, pageVars, formVars, listingVars>>

PagesRun ==
    /\ part = "pages" /\ PagesNext
    /\ UNCHANGED <<part, cooldownVars, sessionVars, formVars, listingVars>>

FormsRun ==
    /\ part = "forms" /\ FormsNext
    /\ UNCHANGED <<part, cooldownVars, sessionVars, pageVars, listingVars>>

ListsRun ==
    /\ part = "lists" /\ ListingNext
    /\ UNCHANGED <<part, cooldownVars, sessionVars, pageVars, formVars>>

BrowserNext == CooldownsRun \/ SessionRuns \/ PagesRun \/ FormsRun \/ ListsRun

SessionStep(A) == part = "session" /\ A

(***************************************************************************)
(* Messages and answers arrive, a page that was asked for is loaded, and   *)
(* tabs are looked at again and again, by which they probe the session;    *)
(* not every probe fails.                                                  *)
(***************************************************************************)
BrowserFairness ==
    \A t \in Tabs :
        /\ WF_sessionVars(SessionStep(entering[t] /\ Load(t)))
        /\ WF_sessionVars(SessionStep(LogoutServed(t) \/ LogoutAnswered(t)))
        /\ WF_sessionVars(SessionStep(NotifyExpired(t)))
        /\ WF_sessionVars(SessionStep(HearSignOut(t)))
        /\ WF_sessionVars(SessionStep(Probe(t)))
        /\ SF_sessionVars(SessionStep(ProbeAnswered(t)))

BrowserSpec == BrowserInit /\ [][BrowserNext]_browserVars /\ BrowserFairness
=============================================================================
