------------------------------- MODULE Session -------------------------------
(***************************************************************************)
(* Who is signed in, as the tabs of one browser see it: UserProvider with  *)
(* its probe of GET /users/me, its sign-out and the BroadcastChannel       *)
(* poulix-session; the session cookie, which all tabs share; the server-   *)
(* rendered first page (get-session-user, proxy); and of the backend which *)
(* sessions are live (Access).                                             *)
(*                                                                         *)
(* Requests carry the cookie that there is when they are sent.  Probes,    *)
(* logins and the requests of pages are served when they are sent and      *)
(* answered any time later; a logout is served any time later too.  Of the *)
(* pages' requests only those matter that end in a 401.                    *)
(***************************************************************************)
EXTENDS Integers

CONSTANTS
    Tabs,
    Users,
    Sids,           \* sessions, in their order; as many logins succeed: a bound
    Nobody,         \* a guest; a 401
    MaxInbox        \* messages of a tab's channel beyond that are one: a bound

ASSUME SessionAssumption ==
    /\ Nobody \notin Users
    /\ Sids \subseteq Nat \ {0}
    /\ MaxInbox \in Nat \ {0}

VARIABLES
    owner,      \* UserSession.userId, Nobody for a session that was not created
    live,       \* sessions that are neither revoked nor expired
    cookie,     \* poulix_session; 0 when there is none
    shown,      \* user of each UserProvider
    leaving,    \* signOut of each tab: its logout request, and the cookie it has
    behind,     \* a logout request whose page is gone (keepalive)
    probe,      \* refresh of each tab: the answer to its GET /users/me
    refused,    \* a request of the tab's page is answered with a 401
    entering,   \* a login of the tab has succeeded, the next page is not there
    inbox,      \* messages that are on their way to the tab's channel
    asked       \* history: sessions that a user asked to sign out of

sessionVars == <<owner, live, cookie, shown, leaving, behind, probe, refused, entering,
                 inbox, asked>>

NoProbe == "none"
NotLeaving == [at |-> "none", with |-> 0]
Revoked == [at |-> "back", with |-> 0]

Logouts == [at : {"none", "server", "back"}, with : Sids \cup {0}]

SessionTypeOK ==
    /\ owner \in [Sids -> Users \cup {Nobody}]
    /\ live \subseteq {s \in Sids : owner[s] # Nobody}
    /\ cookie \in Sids \cup {0}
    /\ shown \in [Tabs -> Users \cup {Nobody}]
    /\ leaving \in [Tabs -> Logouts]
    /\ behind \in Logouts
    /\ probe \in [Tabs -> Users \cup {Nobody, NoProbe}]
    /\ refused \in [Tabs -> BOOLEAN]
    /\ entering \in [Tabs -> BOOLEAN]
    /\ inbox \in [Tabs -> 0 .. MaxInbox]
    /\ asked \subseteq Sids

SessionInit ==
    /\ owner = [s \in Sids |-> Nobody]
    /\ live = {}
    /\ cookie = 0
    /\ shown = [t \in Tabs |-> Nobody]
    /\ leaving = [t \in Tabs |-> NotLeaving]
    /\ behind = NotLeaving
    /\ probe = [t \in Tabs |-> NoProbe]
    /\ refused = [t \in Tabs |-> FALSE]
    /\ entering = [t \in Tabs |-> FALSE]
    /\ inbox = [t \in Tabs |-> 0]
    /\ asked = {}

\* Whose session the cookie is good for.
CookieUser == IF cookie \in live THEN owner[cookie] ELSE Nobody

\* A login or a registration of a guest: the session, its cookie, and
\* location.assign to the next page.
LogIn(t, u) ==
    /\ shown[t] = Nobody
    /\ ~entering[t]
    /\ \E s \in Sids :
          /\ owner[s] = Nobody /\ \A r \in Sids : r < s => owner[r] # Nobody
          /\ owner' = [owner EXCEPT ![s] = u]
          /\ live' = live \cup {s}
          /\ cookie' = s
    /\ entering' = [entering EXCEPT ![t] = TRUE]
    /\ UNCHANGED <<shown, leaving, behind, probe, refused, inbox, asked>>

\* A page is loaded, after a login or again: the server renders it for the
\* owner of the cookie (loadLayoutSession), and the old page is gone with
\* the answers and messages it was waiting for.  Only its logout request
\* goes on (one of them at a time: a bound).
Load(t) ==
    /\ \/ leaving[t] = NotLeaving /\ UNCHANGED <<leaving, behind>>
       \/ /\ leaving[t] # NotLeaving /\ behind = NotLeaving
          /\ behind' = leaving[t]
          /\ leaving' = [leaving EXCEPT ![t] = NotLeaving]
    /\ entering' = [entering EXCEPT ![t] = FALSE]
    /\ shown' = [shown EXCEPT ![t] = CookieUser]
    /\ probe' = [probe EXCEPT ![t] = NoProbe]
    /\ refused' = [refused EXCEPT ![t] = FALSE]
    /\ inbox' = [inbox EXCEPT ![t] = 0]
    /\ UNCHANGED <<owner, live, cookie, asked>>

\* refresh, when the tab gets the focus; one at a time (refreshInFlight),
\* and none within 5 s of the last, which is this one not happening.
Probe(t) ==
    /\ probe[t] = NoProbe
    /\ probe' = [probe EXCEPT ![t] = CookieUser]
    /\ UNCHANGED <<owner, live, cookie, shown, leaving, behind, refused, entering, inbox,
                   asked>>

\* Variant: a 401 leaves the user as it is.
ProbeKeepsUser(t) ==
    /\ probe[t] # NoProbe
    /\ shown' = [shown EXCEPT ![t] = IF probe[t] = Nobody THEN @ ELSE probe[t]]
    /\ probe' = [probe EXCEPT ![t] = NoProbe]
    /\ UNCHANGED <<owner, live, cookie, leaving, behind, refused, entering, inbox, asked>>

\* setUser(data), or setUser(null) on a 401, whatever has become of the tab
\* in the meantime.
ProbeAnswered(t) ==
    /\ probe[t] # NoProbe
    /\ shown' = [shown EXCEPT ![t] = probe[t]]
    /\ probe' = [probe EXCEPT ![t] = NoProbe]
    /\ UNCHANGED <<owner, live, cookie, leaving, behind, refused, entering, inbox, asked>>

\* A 429, a failure of the server or of the network: the user stays.
ProbeFails(t) ==
    /\ probe[t] # NoProbe
    /\ probe' = [probe EXCEPT ![t] = NoProbe]
    /\ UNCHANGED <<owner, live, cookie, shown, leaving, behind, refused, entering, inbox,
                   asked>>

\* broadcastSessionLogout posts on a channel object of its own, so that the
\* tab's own subscription hears it like those of the other tabs.
Told(boxes) == [t \in Tabs |-> IF boxes[t] < MaxInbox THEN boxes[t] + 1 ELSE boxes[t]]

\* signOut: signingOut makes a second call return; a tab with a user asks
\* the backend first, a guest's tab only tells the others.
SignOut(t, boxes) ==
    CASE leaving[t] # NotLeaving -> inbox' = boxes /\ UNCHANGED leaving
      [] leaving[t] = NotLeaving /\ shown[t] = Nobody -> inbox' = Told(boxes) /\ UNCHANGED leaving
      [] leaving[t] = NotLeaving /\ shown[t] # Nobody ->
            /\ leaving' = [leaving EXCEPT ![t] = [at |-> "server", with |-> cookie]]
            /\ inbox' = boxes

\* The button, or the timer of expiresAt.
AskSignOut(t) ==
    /\ shown[t] # Nobody
    /\ SignOut(t, inbox)
    /\ asked' = asked \cup ({cookie} \cap Sids)
    /\ UNCHANGED <<owner, live, cookie, shown, behind, probe, refused, entering>>

\* refresh on /login and /register: a guest, whatever the cookie says.
FocusOnLoginPage(t) ==
    /\ shown' = [shown EXCEPT ![t] = Nobody]
    /\ UNCHANGED <<owner, live, cookie, leaving, behind, probe, refused, entering, inbox,
                   asked>>

\* A message of the channel.
HearSignOut(t) ==
    /\ inbox[t] > 0
    /\ SignOut(t, [inbox EXCEPT ![t] = @ - 1])
    /\ UNCHANGED <<owner, live, cookie, shown, behind, probe, refused, entering, asked>>

\* A request of a page that shows a user, although the session has ended.
Refuse(t) ==
    /\ shown[t] # Nobody
    /\ CookieUser = Nobody
    /\ ~refused[t]
    /\ refused' = [refused EXCEPT ![t] = TRUE]
    /\ UNCHANGED <<owner, live, cookie, shown, leaving, behind, probe, entering, inbox,
                   asked>>

\* The 401 arrives: notifySessionExpired calls signOut by an event of the
\* window, and tells the other tabs itself.
NotifyExpired(t) ==
    /\ refused[t]
    /\ refused' = [refused EXCEPT ![t] = FALSE]
    /\ SignOut(t, Told(inbox))
    /\ UNCHANGED <<owner, live, cookie, shown, behind, probe, entering, asked>>

\* POST /auth/logout revokes the session of its token.
LogoutServed(t) ==
    /\ leaving[t].at = "server"
    /\ live' = live \ {leaving[t].with}
    /\ leaving' = [leaving EXCEPT ![t] = Revoked]
    /\ UNCHANGED <<owner, cookie, shown, behind, probe, refused, entering, inbox, asked>>

\* What signOut does once its request is answered, or has failed.
Finish(t) ==
    /\ leaving' = [leaving EXCEPT ![t] = NotLeaving]
    /\ shown' = [shown EXCEPT ![t] = Nobody]
    /\ inbox' = Told(inbox)
    /\ UNCHANGED <<owner, live, behind, probe, refused, entering, asked>>

\* The answer, also a 401, clears the cookie.
LogoutAnswered(t) ==
    /\ leaving[t].at = "back"
    /\ cookie' = 0
    /\ Finish(t)

\* A 429, or no answer.
LogoutFails(t) ==
    /\ leaving[t].at # "none"
    /\ Finish(t)
    /\ UNCHANGED cookie

\* The same of a logout request whose page is gone; nobody hears of it.
LogoutServedBehind ==
    /\ behind.at = "server"
    /\ live' = live \ {behind.with}
    /\ behind' = Revoked
    /\ UNCHANGED <<owner, cookie, shown, leaving, probe, refused, entering, inbox, asked>>

LogoutEndsBehind ==
    /\ behind.at # "none"
    /\ cookie' = IF behind.at = "back" THEN 0 ELSE cookie
    /\ behind' = NotLeaving
    /\ UNCHANGED <<owner, live, shown, leaving, probe, refused, entering, inbox, asked>>

\* The session expires, or is revoked by another device (Access).
SessionEnds(s) ==
    /\ s \in live
    /\ live' = live \ {s}
    /\ UNCHANGED <<owner, cookie, shown, leaving, behind, probe, refused, entering, inbox,
                   asked>>

SessionNext ==
    \/ \E t \in Tabs :
          \/ \E u \in Users : LogIn(t, u)
          \/ Load(t)
          \/ Probe(t) \/ ProbeAnswered(t) \/ ProbeFails(t) \/ FocusOnLoginPage(t)
          \/ AskSignOut(t) \/ HearSignOut(t)
          \/ LogoutServed(t) \/ LogoutAnswered(t) \/ LogoutFails(t)
          \/ Refuse(t) \/ NotifyExpired(t)
    \/ LogoutServedBehind \/ LogoutEndsBehind
    \/ \E s \in Sids : SessionEnds(s)

SessionSpec == SessionInit /\ [][SessionNext]_sessionVars

\* Properties -------------------------------------------------------------

(***************************************************************************)
(* Tabs agree in the end: each shows the owner of the cookie's session or  *)
(* a guest, although sign-outs, logins and ends of sessions in any tab     *)
(* overlap with probes that are answered late.                             *)
(***************************************************************************)
TabsConverge == <>[](\A t \in Tabs : shown[t] \in {Nobody, CookieUser})

(***************************************************************************)
(* A sign-out ends a session only if a user asked to sign out while it was *)
(* the cookie's: who has just signed in stays so.  (The test "redirects to *)
(* / after a successful login"; signOut waits "for the backend to revoke   *)
(* the session and clear the HttpOnly cookie".)  The code breaks it: a tab *)
(* that hears of a sign-out asks the backend for another one, with the     *)
(* cookie of whoever has signed in meanwhile.                              *)
(***************************************************************************)
LoginSurvives ==
    [][\A t \in Tabs : leaving[t].at = "server" /\ leaving'[t].at = "back" =>
          live \ live' \subseteq asked]_sessionVars
=============================================================================
