------------------------------ MODULE Cooldowns ------------------------------
(***************************************************************************)
(* The rate limits of the backend and what one browser tab makes of them.  *)
(* RedisThrottlerStorage counts the requests of fixed windows; the answer  *)
(* 429 carries the rest of the window in whole seconds; the tab            *)
(* (fetchWithAuth, the rate-limit store) keeps a cooldown from it, in      *)
(* memory and in sessionStorage, and sends nothing that is cooling down.   *)
(*                                                                         *)
(* Time is counted in ticks, Second of them to a second, and is the same   *)
(* on both sides: a cooldown is computed from a duration.  The limiters    *)
(* short and user differ in their numbers only, as do the ones of the      *)
(* single operations; burst, user, login, deposit and payments stand for   *)
(* them, and the lock of an account for a sixth.  The windows are those of *)
(* the tab's address and user, which other tabs and devices share.         *)
(***************************************************************************)
EXTENDS Integers, Sequences

CONSTANTS
    Calls,          \* requests that are under way at a time
    Second,         \* ticks to a second
    Ttl,            \* RateLimitWindow.ttlMs of each limiter, in ticks
    Limit,          \* RateLimitWindow.limit of each limiter
    MaxTime,        \* how long time goes on: a bound
    Scarce          \* the limiters that are ever used up together: a bound

Limiters == {"burst", "user", "login", "deposit", "payments", "lockout"}
Slots == {"global", "login", "deposit", "lockout"}
Requests == {"login", "logout", "deposit", "read"}

ASSUME CooldownsAssumption ==
    /\ Second \in Nat \ {0}
    /\ Ttl \in [Limiters -> Nat \ {0}]
    /\ Limit \in [Limiters -> Nat \ {0}]
    /\ MaxTime \in Nat
    /\ Scarce \subseteq SUBSET Limiters

VARIABLES
    now,        \* the time
    window,     \* rate-limit:<name>:<tracker>: the count and when it expires
    until,      \* globalUntil, lockoutUntil and actions of the store
    told,       \* history: windows whose refusal has reached the tab
    request,    \* the requests under way
    scarce      \* the limiters that are ever used up

cooldownVars == <<now, window, until, told, request, scarce>>

Times == 0 .. MaxTime
NoWindow == [hits |-> 0, ends |-> 0]
Windows == [slot : Slots, limiter : Limiters, ends : Nat]
NoRequest == [state |-> "idle", kind |-> "read", by |-> "none", ends |-> 0, retry |-> 0,
              knew |-> {}]

CooldownsTypeOK ==
    /\ now \in Nat
    /\ window \in [Limiters -> [hits : Nat, ends : Nat]]
    /\ until \in [Slots -> Nat]
    /\ told \subseteq Windows
    /\ scarce \in Scarce
    /\ \A q \in Calls :
          /\ request[q].state \in {"idle", "server", "served", "refused"}
          /\ request[q].kind \in Requests
          /\ request[q].state = "refused" => request[q].by \in Limiters
          /\ request[q].ends \in Nat
          /\ request[q].retry \in Nat
          /\ request[q].knew \subseteq Windows

CooldownsInit ==
    /\ now = 0
    /\ window = [l \in Limiters |-> NoWindow]
    /\ until = [s \in Slots |-> 0]
    /\ told = {}
    /\ request = [q \in Calls |-> NoRequest]
    /\ scarce \in Scarce

\* The backend ------------------------------------------------------------

\* skipIf of the throttlers, in their order: which of them a request passes
\* with or without a session, and the test of the lock in login.
Applies(kind, auth) ==
    CASE kind = "login"   -> (IF auth THEN <<"user">> ELSE <<>>) \o <<"login", "lockout">>
      [] kind = "logout"  -> <<"burst">> \o (IF auth THEN <<"user">> ELSE <<>>)
      [] kind = "deposit" -> <<"burst">> \o (IF auth THEN <<"user", "deposit", "payments">>
                                             ELSE <<>>)
      [] kind = "read"    -> IF auth THEN <<"user">> ELSE <<"burst">>

Full(l) == window[l].ends > now /\ window[l].hits >= Limit[l]

\* INCREMENT_SCRIPT: the first hit opens the window, which is never
\* prolonged.  Hits beyond the limit need not be told apart.
Hit(l) ==
    CASE window[l].ends <= now -> [hits |-> 1, ends |-> now + Ttl[l]]
      [] Full(l) -> window[l]
      [] OTHER -> [window[l] EXCEPT !.hits = @ + 1]

\* Variant: Math.floor(pttlMs / 1000).
SecondsRoundedDown(t) == t \div Second

\* secondsFromPttl.
Seconds(t) == (t + Second - 1) \div Second

AtLeastOne(n) == IF n < 1 THEN 1 ELSE n

\* Where an answer goes: the first throttler that is full refuses, the ones
\* before it have counted the request.
Serve(q) ==
    /\ request[q].state = "server"
    /\ \E auth \in BOOLEAN :
          LET limiters == Applies(request[q].kind, auth)
              full == {i \in DOMAIN limiters : Full(limiters[i])}
              counts(n) == {limiters[i] : i \in 1 .. n} \cap (scarce \ {"lockout"})
          IN  \/ /\ full = {}
                 /\ window' = [l \in Limiters |->
                        IF l \in counts(Len(limiters)) THEN Hit(l) ELSE window[l]]
                 /\ request' = [request EXCEPT ![q].state = "served"]
              \/ \E i \in full :
                    LET l == limiters[i] IN
                    /\ \A j \in full : i <= j
                    /\ window' = [k \in Limiters |->
                           IF k \in counts(i) THEN Hit(k) ELSE window[k]]
                    /\ request' = [request EXCEPT
                           ![q].state = "refused", ![q].by = l, ![q].ends = window[l].ends,
                           ![q].retry = AtLeastOne(Seconds(window[l].ends - now))]
    /\ UNCHANGED <<now, until, told, scarce>>

\* Redis is down or answers with an error: the request passes.
ServeUncounted(q) ==
    /\ request[q].state = "server"
    /\ request' = [request EXCEPT ![q].state = "served"]
    /\ UNCHANGED <<now, window, until, told, scarce>>

\* Requests of other tabs and devices; the last wrong password.
Others(l) ==
    /\ window' = [window EXCEPT ![l] = Hit(l)]
    /\ UNCHANGED <<now, until, told, request, scarce>>

\* The tab ----------------------------------------------------------------

\* What fetchWithAuth looks at before it sends: a read and a logout have no
\* action of their own, and a login is not held up by the global cooldown.
Checked(kind) ==
    CASE kind = "login" -> {"lockout", "login"}
      [] kind = "deposit" -> {"global", "deposit"}
      [] OTHER -> {}

Send(q, kind) ==
    /\ request[q].state = "idle"
    /\ \A s \in Checked(kind) : until[s] <= now
    /\ request' = [request EXCEPT ![q] =
          [NoRequest EXCEPT !.state = "server", !.kind = kind,
                            !.knew = {w \in told : w.slot \in Checked(kind)}]]
    /\ UNCHANGED <<now, window, until, told, scarce>>

\* resolveExceededAction, and the lockout, which is not a 429.
Slot(l, kind) ==
    CASE l = "lockout" -> "lockout"
      [] l # "lockout" /\ kind = "login" -> "login"
      [] l \in {"deposit", "payments"} /\ kind # "login" -> "deposit"
      [] OTHER -> "global"

\* Variant: the newest answer decides.
CooldownReplaced(s, end) == end

\* setRateLimitCooldown, setLockoutCooldown: a cooldown is never shortened.
Cooldown(s, end) == IF until[s] > now /\ until[s] > end THEN until[s] ELSE end

\* observeRateLimit, or the catch of a login to a locked account.
ReceiveRefusal(q) ==
    LET r == request[q]
        s == Slot(r.by, r.kind)
    IN  /\ r.state = "refused"
        /\ until' = [until EXCEPT ![s] = Cooldown(s, now + AtLeastOne(r.retry) * Second)]
        /\ told' = told \cup {[slot |-> s, limiter |-> r.by, ends |-> r.ends]}
        /\ request' = [request EXCEPT ![q] = NoRequest]
        /\ UNCHANGED <<now, window, scarce>>

\* clearAuthCooldowns after a login, a registration or a logout: the tab
\* forgets what it was told about them, and about burst and user too when
\* somebody is signed in.
ReceiveOk(q) ==
    LET cleared == CASE request[q].kind = "login" -> {"login", "lockout", "global"}
                     [] request[q].kind = "logout" -> {"login", "lockout"}
                     [] OTHER -> {}
    IN  /\ request[q].state = "served"
        /\ until' = [s \in Slots |-> IF s \in cleared THEN 0 ELSE until[s]]
        /\ told' = {w \in told : w.slot \notin cleared}
        /\ request' = [request EXCEPT ![q] = NoRequest]
        /\ UNCHANGED <<now, window, scarce>>

\* Any other answer, such as a wrong password, or none.
ReceiveFailure(q) ==
    /\ request[q].state # "idle"
    /\ request' = [request EXCEPT ![q] = NoRequest]
    /\ UNCHANGED <<now, window, until, told, scarce>>

\* clearExpiredCooldowns, by a timer (armExpiry): a cooldown is over.
Expire(s) ==
    /\ until[s] # 0 /\ until[s] <= now
    /\ until' = [until EXCEPT ![s] = 0]
    /\ UNCHANGED <<now, window, told, request, scarce>>

\* The page is loaded again: answers that are under way are lost, and the
\* store is read from sessionStorage (hydrateFromSession).
Reload ==
    /\ until' = [s \in Slots |-> IF until[s] > now THEN until[s] ELSE 0]
    /\ request' = [q \in Calls |-> NoRequest]
    /\ UNCHANGED <<now, window, told, scarce>>

\* Windows that are over are as good as none, also in the history.
Tick ==
    /\ now < MaxTime
    /\ now' = now + 1
    /\ window' = [l \in Limiters |-> IF window[l].ends <= now' THEN NoWindow ELSE window[l]]
    /\ told' = {w \in told : w.ends > now'}
    /\ UNCHANGED <<until, request, scarce>>

CooldownsNext ==
    \/ \E q \in Calls :
          \/ \E kind \in Requests : Send(q, kind)
          \/ Serve(q) \/ ServeUncounted(q)
          \/ ReceiveRefusal(q) \/ ReceiveOk(q) \/ ReceiveFailure(q)
    \/ \E l \in scarce : Others(l)
    \/ \E s \in Slots : Expire(s)
    \/ Reload
    \/ Tick

CooldownsSpec == CooldownsInit /\ [][CooldownsNext]_cooldownVars

\* Properties -------------------------------------------------------------

(***************************************************************************)
(* A cooldown lasts at least as long as every window whose refusal the tab *)
(* was told of and has not forgotten with a login, although the answer     *)
(* takes its time, carries whole seconds, and answers of limiters that     *)
(* share a cooldown arrive in any order (setRateLimitCooldown).            *)
(***************************************************************************)
CooldownCoversWindow ==
    \A w \in told : w.ends > now => until[w.slot] >= w.ends

(***************************************************************************)
(* Hence the same window never refuses the tab's deposits or logins again  *)
(* once it was told, not even after the page was loaded again: who waits   *)
(* for the end of the cooldown gets in, unless others fill the next window.*)
(***************************************************************************)
NotRefusedTwice ==
    \A q \in Calls : request[q].state = "refused" =>
        \A w \in request[q].knew :
            ~(w.limiter = request[q].by /\ w.ends = request[q].ends)
=============================================================================
