------------------------------- MODULE Access -------------------------------
(***************************************************************************)
(* Who may use the backend: AuthService (register, login, logout), the     *)
(* account lockout, JwtStrategy, which every other request passes, the     *)
(* sessions of SecurityService, and the account status that administrators *)
(* set (AdminService, AdminBootstrapService).                              *)
(*                                                                         *)
(* Each handler is a chain of single statements on PostgreSQL or Redis     *)
(* without a transaction or a lock around them, and any number of them are *)
(* handled at a time.  Between two statements everything may change.       *)
(*                                                                         *)
(* A token is good for one session and lives as long as its session here:  *)
(* its own expiry only refuses more.  Of a password all that matters is    *)
(* whether it is the right one.                                            *)
(***************************************************************************)
EXTENDS Integers, FiniteSets

CONSTANTS
    Users,          \* identities: an email and a username
    Root,           \* the user of ADMIN_EMAIL, or Nothing
    Devices,        \* deviceKeyFromUserAgent: devices of one make share it
    Sids,           \* session ids; as many logins succeed: a bound
    Reqs,           \* the requests that are handled at a time
    Nothing,        \* stands for what a request does not have
    MaxFailures,    \* accountLockout.maxFailedAttempts
    MaxFaults,      \* how many Redis commands fail: a bound
    Start,          \* the role and status of every user at the start
    Scenarios       \* the kinds of request that occur together: a bound

Statuses == {"ABSENT", "ACTIVE", "LOCKED", "DISABLED"}
Roles == {"USER", "ADMIN"}
Kinds == {"register", "login", "guess", "use", "logout", "revoke", "setStatus"}

ASSUME AccessAssumption ==
    /\ Root \in Users \cup {Nothing}
    /\ Nothing \notin Users \cup Devices \cup Sids
    /\ IsFiniteSet(Reqs)
    /\ MaxFailures \in Nat \ {0}
    /\ MaxFaults \in Nat
    /\ Start \in [Users -> [role : Roles, status : Statuses]]
    /\ Scenarios \subseteq SUBSET Kinds

VARIABLES
    account,    \* User.role and User.status; ABSENT before the registration
    session,    \* the UserSession rows
    known,      \* devices of a user that were registered with or announced
    failures,   \* lockout:fails:<user>, or failures of the in-memory entry
    locked,     \* lockout:<user>, or lockedUntil of the in-memory entry
    guesses,    \* history: wrong passwords tried since the count was reset
    faults,     \* how many Redis commands have failed
    pc,         \* the next statement of each request
    call,       \* what the request is, and what it has read
    kinds       \* the kinds of request that occur

lockoutVars == <<failures, locked, guesses, faults>>
accessVars == <<account, session, known, lockoutVars, pc, call, kinds>>

NoSession == [owner |-> Nothing, device |-> Nothing, state |-> "none"]
NoCall == [kind |-> "none", user |-> Nothing, device |-> Nothing, token |-> Nothing,
           on |-> Nothing, to |-> "ABSENT", seen |-> "ABSENT", late |-> "no"]

Calls == [kind : Kinds \cup {"none"}, user : Users \cup {Nothing},
          device : Devices \cup {Nothing}, token : Sids \cup {Nothing},
          on : Users \cup Sids \cup {Nothing}, to : Statuses, seen : Statuses,
          late : {"no", "inactive", "revoked"}]

AccessTypeOK ==
    /\ account \in [Users -> [role : Roles, status : Statuses]]
    /\ session \in [Sids -> [owner : Users \cup {Nothing}, device : Devices \cup {Nothing},
                             state : {"none", "live", "revoked"}]]
    /\ known \subseteq Users \X Devices
    /\ failures \in [Users -> 0 .. MaxFailures - 1]
    /\ locked \in [Users -> BOOLEAN]
    /\ guesses \in [Users -> Nat]
    /\ faults \in 0 .. MaxFaults
    /\ pc \in [Reqs -> {"idle", "create", "first", "lock", "failure", "success",
                        "device", "announce", "session", "user", "token", "handle",
                        "write"}]
    /\ call \in [Reqs -> Calls]
    /\ kinds \in Scenarios

AccessInit ==
    /\ account = Start
    /\ session = [s \in Sids |-> NoSession]
    /\ known = {}
    /\ failures = [u \in Users |-> 0]
    /\ locked = [u \in Users |-> FALSE]
    /\ guesses = [u \in Users |-> 0]
    /\ faults = 0
    /\ pc = [r \in Reqs |-> "idle"]
    /\ call = [r \in Reqs |-> NoCall]
    /\ kinds \in Scenarios

Goto(r, step) == pc' = [pc EXCEPT ![r] = step]

\* The request is answered.
Answer(r) == Goto(r, "idle") /\ call' = [call EXCEPT ![r] = NoCall]

Step(r, from, to) == pc[r] = from /\ Goto(r, to) /\ UNCHANGED call

Begin(r, c, first) ==
    /\ pc[r] = "idle"
    /\ c.kind \in kinds
    /\ call' = [call EXCEPT ![r] = c]
    /\ Goto(r, first)
    /\ UNCHANGED <<account, session, known, lockoutVars, kinds>>

\* Registration -----------------------------------------------------------

\* register: an email or a username that is in use is refused.
Register(r, u, d) ==
    /\ account[u].status = "ABSENT"
    /\ Begin(r, [NoCall EXCEPT !.kind = "register", !.user = u, !.device = d], "create")

\* INSERT of the user and the wallet in one transaction; the unique index
\* refuses the second of two registrations.
CreateAccount(r) ==
    LET u == call[r].user IN
    /\ pc[r] = "create"
    /\ \/ /\ account[u].status = "ABSENT"
          /\ account' = [account EXCEPT ![u] = [role |-> "USER", status |-> "ACTIVE"]]
          /\ Goto(r, "first")
          /\ UNCHANGED call
       \/ /\ account[u].status # "ABSENT"
          /\ Answer(r)
          /\ UNCHANGED account
    /\ UNCHANGED <<session, known, lockoutVars, kinds>>

\* Login ------------------------------------------------------------------

\* login reads the user, with the status; an unknown one is refused.
Login(r, u, d, kind) ==
    /\ account[u].status # "ABSENT"
    /\ Begin(r, [NoCall EXCEPT !.kind = kind, !.user = u, !.device = d,
                               !.seen = account[u].status], "lock")

\* A Redis command fails, or does not.
RedisFails == faults < MaxFaults /\ faults' = faults + 1
RedisAnswers == UNCHANGED faults

\* assertNotLocked, which a failing Redis does not stop; then the password
\* is verified and the status, as it was read, is tested.
CheckLock(r) ==
    LET c == call[r] IN
    /\ pc[r] = "lock"
    /\ \/ locked[c.user] /\ RedisAnswers /\ Answer(r)
       \/ /\ (~locked[c.user] /\ RedisAnswers) \/ RedisFails
          /\ \/ c.kind = "guess" /\ Goto(r, "failure") /\ UNCHANGED call
             \/ c.kind = "login" /\ c.seen = "ACTIVE" /\ Goto(r, "success") /\ UNCHANGED call
             \/ c.kind = "login" /\ c.seen # "ACTIVE" /\ Answer(r)
    /\ UNCHANGED <<account, session, known, failures, locked, guesses, kinds>>

\* Variant: the account is locked at one failure more.
CountFailureLate(u) ==
    IF locked[u]
    THEN UNCHANGED <<failures, locked>>
    ELSE /\ failures' = [failures EXCEPT ![u] = IF @ < MaxFailures THEN @ + 1 ELSE 0]
         /\ locked' = [locked EXCEPT ![u] = failures[u] = MaxFailures]

\* RECORD_FAILURE_SCRIPT, and the same on the in-memory entry: the failure
\* that reaches the maximum locks the account and ends the count.
CountFailure(u) ==
    IF locked[u]
    THEN UNCHANGED <<failures, locked>>
    ELSE /\ failures' = [failures EXCEPT ![u] = IF @ + 1 < MaxFailures THEN @ + 1 ELSE 0]
         /\ locked' = [locked EXCEPT ![u] = failures[u] + 1 >= MaxFailures]

RecordFailure(r) ==
    LET u == call[r].user IN
    /\ pc[r] = "failure"
    /\ \/ RedisAnswers /\ CountFailure(u)
       \/ RedisFails /\ UNCHANGED <<failures, locked>>
    /\ guesses' = [guesses EXCEPT ![u] = @ + 1]
    /\ Answer(r)
    /\ UNCHANGED <<account, session, known, kinds>>

\* recordSuccess deletes the lock and the count.
RecordSuccess(r) ==
    LET u == call[r].user IN
    /\ Step(r, "success", "device")
    /\ \/ /\ RedisAnswers
          /\ failures' = [failures EXCEPT ![u] = 0]
          /\ locked' = [locked EXCEPT ![u] = FALSE]
          /\ guesses' = [guesses EXCEPT ![u] = 0]
       \/ RedisFails /\ UNCHANGED <<failures, locked, guesses>>
    /\ UNCHANGED <<account, session, known, kinds>>

\* The time to live of the lock, or of the count of failures, has passed.
LockExpires(u) ==
    /\ locked[u] \/ failures[u] > 0
    /\ failures' = [failures EXCEPT ![u] = 0]
    /\ locked' = [locked EXCEPT ![u] = FALSE]
    /\ guesses' = [guesses EXCEPT ![u] = 0]
    /\ UNCHANGED <<account, session, known, faults, pc, call, kinds>>

\* Variant: findFirst({ deviceKey }), without the user.
FindDeviceOfAnyone(r) ==
    LET seen == \E s \in Sids : session[s].device = call[r].device
    IN  /\ Step(r, "device", IF seen THEN "session" ELSE "announce")
        /\ UNCHANGED <<account, session, known, lockoutVars, kinds>>

\* recordSuccessfulLogin: has the user a session on the device, even a
\* revoked one?
FindDevice(r) ==
    LET seen == \E s \in Sids : /\ session[s].owner = call[r].user
                                /\ session[s].device = call[r].device
    IN  /\ Step(r, "device", IF seen THEN "session" ELSE "announce")
        /\ UNCHANGED <<account, session, known, lockoutVars, kinds>>

\* The NEW_DEVICE_LOGIN event.
Announce(r) ==
    /\ Step(r, "announce", "session")
    /\ known' = known \cup {<<call[r].user, call[r].device>>}
    /\ UNCHANGED <<account, session, lockoutVars, kinds>>

\* INSERT of the session; the client gets its token.  A registration needs
\* no notice of its device.
CreateSession(r) ==
    LET c == call[r] IN
    /\ pc[r] \in {"first", "session"}
    /\ \E s \in Sids :
          /\ session[s] = NoSession
          /\ session' = [session EXCEPT ![s] =
                [owner |-> c.user, device |-> c.device, state |-> "live"]]
    /\ known' = IF pc[r] = "first" THEN known \cup {<<c.user, c.device>>} ELSE known
    /\ Answer(r)
    /\ UNCHANGED <<account, lockoutVars, kinds>>

\* Requests with a token --------------------------------------------------

\* A request arrives, too late when its session is revoked already or its
\* account is not active (late is history).
Arrive(r, s, kind, on, to) ==
    /\ session[s].state # "none"
    /\ LET u == session[s].owner
           late == CASE session[s].state = "revoked" -> "revoked"
                     [] account[u].status # "ACTIVE" -> "inactive"
                     [] OTHER -> "no"
       IN  Begin(r, [NoCall EXCEPT !.kind = kind, !.user = u, !.token = s, !.on = on,
                                   !.to = to, !.late = late], "user")

\* Any page; logout; the revocation of a device by one of its sessions; an
\* administrator's change of an account.
ArriveAny(r, s) ==
    \/ Arrive(r, s, "use", Nothing, "ABSENT")
    \/ Arrive(r, s, "logout", s, "ABSENT")
    \/ \E t \in Sids : session[t].state # "none" /\ Arrive(r, s, "revoke", t, "ABSENT")
    \/ \E u \in Users, to \in {"ACTIVE", "LOCKED", "DISABLED"} :
          account[u].status # "ABSENT" /\ Arrive(r, s, "setStatus", u, to)

\* JwtStrategy.validate reads the user and tests the status ...
ReadUser(r) ==
    /\ pc[r] = "user"
    /\ IF account[call[r].user].status = "ACTIVE"
       THEN Goto(r, "token") /\ UNCHANGED call
       ELSE Answer(r)
    /\ UNCHANGED <<account, session, known, lockoutVars, kinds>>

\* Variant: findFirst({ id, userId }), without revokedAt.
ReadAnySession(r) ==
    /\ Step(r, "token", "handle")
    /\ UNCHANGED <<account, session, known, lockoutVars, kinds>>

\* ... and then the session, which must not be revoked.
ReadSession(r) ==
    /\ pc[r] = "token"
    /\ IF session[call[r].token].state = "live"
       THEN Goto(r, "handle") /\ UNCHANGED call
       ELSE Answer(r)
    /\ UNCHANGED <<account, session, known, lockoutVars, kinds>>

\* A handler that changes nothing here: a page, touchSession.
HandleUse(r) ==
    /\ pc[r] = "handle" /\ call[r].kind = "use"
    /\ Answer(r)
    /\ UNCHANGED <<account, session, known, lockoutVars, kinds>>

\* revokeSession and revokeSessionEnvironment look for the session first: it
\* must be live and the user's own.
FindSession(r) ==
    LET t == session[call[r].on] IN
    /\ pc[r] = "handle" /\ call[r].kind \in {"logout", "revoke"}
    /\ IF t.state = "live" /\ t.owner = call[r].user
       THEN Goto(r, "write") /\ UNCHANGED call
       ELSE Answer(r)
    /\ UNCHANGED <<account, session, known, lockoutVars, kinds>>

\* logout revokes the session by its id.
RevokeSession(r) ==
    /\ pc[r] = "write" /\ call[r].kind = "logout"
    /\ session' = [session EXCEPT ![call[r].on].state = "revoked"]
    /\ Answer(r)
    /\ UNCHANGED <<account, known, lockoutVars, kinds>>

\* Variant: updateMany({ deviceKey, revokedAt: null }), without the user.
RevokeDeviceOfAll(r) ==
    /\ pc[r] = "write" /\ call[r].kind = "revoke"
    /\ session' = [s \in Sids |->
          IF session[s].device = session[call[r].on].device
          THEN [session[s] EXCEPT !.state = "revoked"] ELSE session[s]]
    /\ Answer(r)
    /\ UNCHANGED <<account, known, lockoutVars, kinds>>

\* revokeSessionEnvironment revokes every session of the user on the device.
RevokeDevice(r) ==
    LET t == session[call[r].on] IN
    /\ pc[r] = "write" /\ call[r].kind = "revoke"
    /\ session' = [s \in Sids |->
          IF session[s].owner = t.owner /\ session[s].device = t.device
          THEN [session[s] EXCEPT !.state = "revoked"] ELSE session[s]]
    /\ Answer(r)
    /\ UNCHANGED <<account, known, lockoutVars, kinds>>

Active(u) == account[u].role = "ADMIN" /\ account[u].status = "ACTIVE"

\* setAccountStatus: the caller is an administrator (AdminGuard) and not the
\* target, and an administrator is taken out of service only when another
\* active one is counted.  Roles change at a restart only, so the role of
\* the target is as good as read by the count.
CountAdmins(r) ==
    LET c == call[r]
        others == {u \in Users \ {c.on} : Active(u)} IN
    /\ pc[r] = "handle" /\ c.kind = "setStatus"
    /\ IF /\ account[c.user].role = "ADMIN"
          /\ c.on # c.user
          /\ account[c.on].role = "ADMIN" /\ c.to # "ACTIVE" => others # {}
       THEN Goto(r, "write") /\ UNCHANGED call
       ELSE Answer(r)
    /\ UNCHANGED <<account, session, known, lockoutVars, kinds>>

\* UPDATE of the status by id.  Requests that arrived while the account was
\* not active are in time once it is.
WriteStatus(r) ==
    LET c == call[r] IN
    /\ pc[r] = "write" /\ c.kind = "setStatus"
    /\ account' = [account EXCEPT ![c.on].status = c.to]
    /\ Goto(r, "idle")
    /\ call' = [q \in Reqs |->
          CASE q = r -> NoCall
            [] q # r /\ call[q].user = c.on /\ call[q].late = "inactive" /\ c.to = "ACTIVE" ->
                  [call[q] EXCEPT !.late = "no"]
            [] OTHER -> call[q]]
    /\ UNCHANGED <<session, known, lockoutVars, kinds>>

\* Failures ---------------------------------------------------------------

\* A statement throws: the handler ends, what it has written stays.
Throw(r) ==
    /\ pc[r] # "idle"
    /\ Answer(r)
    /\ UNCHANGED <<account, session, known, lockoutVars, kinds>>

\* The process restarts, and AdminBootstrapService makes Root an active
\* administrator.  Lockouts outlive that in Redis, not in memory.
Restart ==
    /\ account' = IF Root = Nothing THEN account
                  ELSE [account EXCEPT ![Root] = [role |-> "ADMIN", status |-> "ACTIVE"]]
    /\ pc' = [r \in Reqs |-> "idle"]
    /\ call' = [r \in Reqs |-> NoCall]
    /\ \/ UNCHANGED lockoutVars
       \/ /\ failures' = [u \in Users |-> 0]
          /\ locked' = [u \in Users |-> FALSE]
          /\ guesses' = [u \in Users |-> 0]
          /\ UNCHANGED faults
    /\ UNCHANGED <<session, known, kinds>>

\* The connection to Redis is lost: from now on the empty in-memory map is
\* used instead.
LoseRedis ==
    /\ RedisFails
    /\ failures' = [u \in Users |-> 0]
    /\ locked' = [u \in Users |-> FALSE]
    /\ guesses' = [u \in Users |-> 0]
    /\ UNCHANGED <<account, session, known, pc, call, kinds>>

LoginStep(r) ==
    \/ CreateAccount(r)
    \/ CheckLock(r)
    \/ RecordFailure(r)
    \/ RecordSuccess(r)
    \/ FindDevice(r)
    \/ Announce(r)
    \/ CreateSession(r)

RequestStep(r) ==
    \/ ReadUser(r)
    \/ ReadSession(r)
    \/ HandleUse(r)
    \/ FindSession(r)
    \/ RevokeSession(r)
    \/ RevokeDevice(r)
    \/ CountAdmins(r)
    \/ WriteStatus(r)

AccessNext ==
    \/ \E r \in Reqs :
          \/ \E u \in Users, d \in Devices :
                Register(r, u, d) \/ Login(r, u, d, "login") \/ Login(r, u, d, "guess")
          \/ \E s \in Sids : ArriveAny(r, s)
          \/ LoginStep(r)
          \/ RequestStep(r)
          \/ Throw(r)
    \/ \E u \in Users : LockExpires(u)
    \/ Restart
    \/ LoseRedis

AccessSpec == AccessInit /\ [][AccessNext]_accessVars

\* Properties -------------------------------------------------------------

(***************************************************************************)
(* A request that arrives when its session has been revoked, or while its  *)
(* account is locked or disabled, never reaches its handler (validate,     *)
(* which reads the user and the session one after the other).              *)
(***************************************************************************)
LateIsRefused ==
    \A r \in Reqs : pc[r] \in {"handle", "write"} => call[r].late = "no"

(***************************************************************************)
(* Between two resets of the count, no more wrong passwords are tried on   *)
(* an account than the maximum, plus one by each of the other requests     *)
(* that were past assertNotLocked already, plus what a failing Redis lets  *)
(* through (CheckLock and RecordFailure; README.md, "Account Lockout").    *)
(***************************************************************************)
GuessesBounded ==
    \A u \in Users : guesses[u] <= MaxFailures + Cardinality(Reqs) - 1 + faults

(***************************************************************************)
(* A user has no session on a device that nobody told the user of: the     *)
(* device was registered with, or its first login wrote a NEW_DEVICE_LOGIN *)
(* event, also when handlers end halfway and logins overlap                *)
(* (recordSuccessfulLogin).                                                *)
(***************************************************************************)
DevicesAreKnown ==
    \A s \in Sids : session[s].state # "none" => <<session[s].owner, session[s].device>> \in known

(***************************************************************************)
(* A session begins live, under an id that no session has had, and can     *)
(* only be revoked, for good and with its owner and device kept; and that  *)
(* only by a request of its owner: a device of the same make, which has    *)
(* the same deviceKey, stays logged in for another user (revokeSession,    *)
(* revokeSessionEnvironment).                                              *)
(***************************************************************************)
OnlyOwnersRevoke ==
    [][\A s \in Sids : session'[s] # session[s] =>
          \/ session[s] = NoSession /\ session'[s].state = "live"
          \/ /\ session[s].state = "live"
             /\ session'[s] = [session[s] EXCEPT !.state = "revoked"]
             /\ \E r \in Reqs : pc[r] = "write" /\ call[r].user = session[s].owner]_accessVars

(***************************************************************************)
(* An active administrator remains.  (The test "refuses to disable the     *)
(* last active admin".)  The code breaks it: two administrators that       *)
(* disable each other at the same time each count the other.               *)
(***************************************************************************)
ActiveAdminRemains == \E u \in Users : Active(u)
=============================================================================
