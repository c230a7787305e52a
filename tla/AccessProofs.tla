---------------------------- MODULE AccessProofs ----------------------------
(***************************************************************************)
(* Sessions, requests and the lockout for any number of users, devices,    *)
(* sessions and overlapping requests, whatever kinds of request occur.     *)
(***************************************************************************)
EXTENDS Access, FiniteSetTheorems, TLAPS

\* The inductive invariant ------------------------------------------------

\* A session belongs to an account, and its device is known.
SessionInv(s) ==
    /\ session[s].state = "none" => session[s] = NoSession
    /\ session[s].state # "none" =>
          /\ session[s].owner \in Users
          /\ session[s].device \in Devices
          /\ account[session[s].owner].status # "ABSENT"
          /\ <<session[s].owner, session[s].device>> \in known

LoginSteps == {"first", "lock", "failure", "success", "device", "announce", "session"}
TokenSteps == {"user", "token", "handle", "write"}

\* A registration or a login knows its user and its device.
LoginInv(r) ==
    /\ pc[r] \in LoginSteps \cup {"create"} =>
          call[r].user \in Users /\ call[r].device \in Devices
    /\ pc[r] \in LoginSteps => account[call[r].user].status # "ABSENT"
    /\ pc[r] = "session" => <<call[r].user, call[r].device>> \in known

\* A request with a token knows its user, its session and its subject.
TokenInv(r) ==
    pc[r] \in TokenSteps =>
          /\ call[r].user \in Users
          /\ call[r].token \in Sids
          /\ call[r].kind \in {"logout", "revoke"} => call[r].on \in Sids
          /\ call[r].kind = "setStatus" => call[r].to # "ABSENT"

\* What was wrong with a late request at its arrival is still wrong at the
\* statement that will see it.
LateInv(r) ==
    /\ pc[r] = "user" /\ call[r].late = "inactive" =>
          account[call[r].user].status \notin {"ACTIVE", "ABSENT"}
    /\ pc[r] = "token" => call[r].late # "inactive"
    /\ pc[r] \in {"user", "token"} /\ call[r].late = "revoked" =>
          session[call[r].token].state = "revoked"
    /\ pc[r] \in {"handle", "write"} => call[r].late = "no"

\* The session that is about to be revoked is the caller's.
OwnInv(r) ==
    pc[r] = "write" /\ call[r].kind \in {"logout", "revoke"} =>
        /\ session[call[r].on].state # "none"
        /\ session[call[r].on].owner = call[r].user

RequestInv(r) == LoginInv(r) /\ TokenInv(r) /\ LateInv(r) /\ OwnInv(r)

\* The requests whose wrong password is not counted yet.
Failing(u) == {r \in Reqs : pc[r] = "failure" /\ call[r].user = u}

\* Until the lock is set the count has missed what Redis has, and after it
\* only the requests that were past it add to the guesses.
LockoutInv(u) ==
    IF locked[u]
    THEN guesses[u] + Cardinality(Failing(u)) <= MaxFailures + Cardinality(Reqs) - 1 + faults
    ELSE guesses[u] <= failures[u] + faults

\* All but the lockout.
RowsInv ==
    /\ AccessTypeOK
    /\ \A s \in Sids : SessionInv(s)
    /\ \A r \in Reqs : RequestInv(r)

AccessInv == RowsInv /\ \A u \in Users : LockoutInv(u)

\* Initial states ---------------------------------------------------------

LEMMA InitEstablishesInv == AccessInit => AccessInv
<1>1. SUFFICES ASSUME AccessInit PROVE AccessInv
  OBVIOUS
<1>2. AccessTypeOK
  BY <1>1, AccessAssumption DEF AccessInit, AccessTypeOK, Calls, NoCall, NoSession, Kinds, Statuses
<1>3. \A s \in Sids : SessionInv(s)
  BY <1>1 DEF AccessInit, SessionInv, NoSession
<1>4. \A r \in Reqs : RequestInv(r)
  BY <1>1 DEF AccessInit, RequestInv, LoginInv, TokenInv, LateInv, OwnInv, LoginSteps, TokenSteps
<1>5. \A u \in Users : LockoutInv(u)
  BY <1>1 DEF AccessInit, LockoutInv
<1>6. QED  BY <1>2, <1>3, <1>4, <1>5 DEF AccessInv, RowsInv

\* The lockout ------------------------------------------------------------

\* The requests are finitely many, and so are those that failed.
LEMMA FailingIsFinite ==
    ASSUME NEW u
    PROVE  /\ Failing(u) \subseteq Reqs
           /\ Cardinality(Failing(u)) \in Nat
           /\ Cardinality(Reqs) \in Nat
           /\ Cardinality(Failing(u)) <= Cardinality(Reqs)
<1>1. Failing(u) \subseteq Reqs
  BY DEF Failing
<1>2. IsFiniteSet(Reqs)
  BY AccessAssumption
<1>3. IsFiniteSet(Failing(u)) /\ Cardinality(Failing(u)) <= Cardinality(Reqs)
  BY <1>1, <1>2, FS_Subset
<1>4. QED  BY <1>1, <1>2, <1>3, FS_CardinalityType

\* A step that leaves the lockout of a user alone, but for a failing Redis,
\* and lets no request fail.
LEMMA OthersKeepLockout ==
    ASSUME AccessTypeOK, NEW u \in Users, LockoutInv(u),
           failures'[u] = failures[u], locked'[u] = locked[u], guesses'[u] = guesses[u],
           faults' \in Nat, faults' >= faults,
           Failing(u)' \subseteq Failing(u)
    PROVE  LockoutInv(u)'
<1>1. IsFiniteSet(Failing(u))
  BY AccessAssumption, FS_Subset DEF Failing
<1>2. /\ IsFiniteSet(Failing(u)')
      /\ Cardinality(Failing(u)') <= Cardinality(Failing(u))
  BY <1>1, FS_Subset
<1>3. Cardinality(Failing(u)') \in Nat /\ Cardinality(Failing(u)) \in Nat
  BY <1>1, <1>2, FS_CardinalityType
<1>4. /\ guesses[u] \in Nat /\ faults \in Nat
      /\ MaxFailures \in Nat /\ Cardinality(Reqs) \in Nat
  BY AccessAssumption, FS_CardinalityType DEF AccessTypeOK
<1>5. CASE locked[u]
  <2>1. guesses[u] + Cardinality(Failing(u)) <= MaxFailures + Cardinality(Reqs) - 1 + faults
    BY <1>5 DEF LockoutInv
  <2>2. guesses'[u] + Cardinality(Failing(u)') <= MaxFailures + Cardinality(Reqs) - 1 + faults'
    BY <1>2, <1>3, <1>4, <2>1
  <2>3. locked'[u]
    BY <1>5
  <2>4. QED  BY <2>2, <2>3 DEF LockoutInv
<1>6. CASE ~locked[u]
  <2>1. failures[u] \in Nat
    BY AccessAssumption DEF AccessTypeOK
  <2>2. guesses'[u] <= failures'[u] + faults'
    BY <1>4, <1>6, <2>1 DEF LockoutInv
  <2>3. ~locked'[u]
    BY <1>6
  <2>4. QED  BY <2>2, <2>3 DEF LockoutInv
<1>7. QED  BY <1>5, <1>6

\* A step that ends the count.
LEMMA ResetKeepsLockout ==
    ASSUME AccessTypeOK, NEW u \in Users, failures'[u] = 0, locked'[u] = FALSE,
           guesses'[u] = 0, faults' \in Nat
    PROVE  LockoutInv(u)'
<1>1. guesses'[u] <= failures'[u] + faults'
  OBVIOUS
<1>2. ~locked'[u]
  OBVIOUS
<1>3. QED  BY <1>1, <1>2 DEF LockoutInv

LEMMA CheckLockKeepsLockout ==
    ASSUME AccessInv, NEW r \in Reqs, CheckLock(r), NEW u \in Users
    PROVE  LockoutInv(u)'
<1> USE DEF AccessInv, RowsInv, AccessTypeOK, LoginInv, RequestInv, LoginSteps
<1>1. CASE UNCHANGED faults /\ Failing(u)' \subseteq Failing(u)
  <2>1. UNCHANGED <<failures, locked, guesses, faults>> /\ faults \in Nat
    BY <1>1, AccessAssumption DEF CheckLock
  <2>2. QED  BY <1>1, <2>1, OthersKeepLockout
<1>2. CASE ~(UNCHANGED faults /\ Failing(u)' \subseteq Failing(u))
  <2>1. IsFiniteSet(Failing(u)) /\ IsFiniteSet(Failing(u) \cup {r})
    BY AccessAssumption, FS_Subset, FS_AddElement DEF Failing
  <2>2. Failing(u)' \subseteq Failing(u) \cup {r}
    BY DEF CheckLock, Failing, Answer, Goto
  <2>3. /\ Cardinality(Failing(u)') <= Cardinality(Failing(u) \cup {r})
        /\ IsFiniteSet(Failing(u)')
    BY <2>1, <2>2, FS_Subset
  <2>4. Cardinality(Failing(u) \cup {r}) <= Cardinality(Failing(u)) + 1
    <3>1. Cardinality(Failing(u)) \in Nat
      BY <2>1, FS_CardinalityType
    <3>2. Cardinality(Failing(u) \cup {r}) =
              IF r \in Failing(u) THEN Cardinality(Failing(u)) ELSE Cardinality(Failing(u)) + 1
      BY ONLY <2>1, FS_AddElement
    <3>3. QED  BY ONLY <3>1, <3>2
  <2>5. /\ Cardinality(Failing(u)') <= Cardinality(Failing(u)) + 1
        /\ Cardinality(Failing(u)) \in Nat
        /\ Cardinality(Failing(u)') \in Nat
        /\ Cardinality(Failing(u) \cup {r}) \in Nat
    BY <2>1, <2>3, <2>4, FS_CardinalityType
  <2>6. /\ UNCHANGED <<failures, locked, guesses>>
        /\ faults' \in {faults, faults + 1}
        /\ faults \in Nat
        /\ MaxFailures \in Nat
    BY AccessAssumption DEF CheckLock, RedisFails, RedisAnswers
  <2>7. CASE locked[u]
    <3>1. faults' = faults + 1
      <4>1. CASE UNCHANGED faults
        <5>1. CASE call[r].user = u
          BY <1>2, <2>7, <4>1, <5>1 DEF CheckLock, RedisFails, RedisAnswers, Answer, Goto, Failing
        <5>2. CASE call[r].user # u
          BY <1>2, <4>1, <5>2 DEF CheckLock, RedisFails, RedisAnswers, Answer, Goto, Failing, NoCall
        <5>3. QED  BY <5>1, <5>2
      <4>2. QED  BY <2>6, <4>1
    <3>2. guesses[u] + Cardinality(Failing(u)) <= MaxFailures + Cardinality(Reqs) - 1 + faults
      BY <2>7 DEF LockoutInv
    <3>3. guesses[u] \in Nat /\ Cardinality(Reqs) \in Nat
      BY AccessAssumption, FS_CardinalityType
    <3>4. guesses[u] + Cardinality(Failing(u)') <= MaxFailures + Cardinality(Reqs) - 1 + faults'
      BY <2>5, <2>6, <3>1, <3>2, <3>3
    <3>5. QED  BY <2>6, <2>7, <3>4 DEF LockoutInv
  <2>8. CASE ~locked[u]
    BY <2>6, <2>8 DEF LockoutInv
  <2>9. QED  BY <2>7, <2>8
<1>3. QED  BY <1>1, <1>2

LEMMA RecordFailureKeepsLockout ==
    ASSUME AccessInv, NEW r \in Reqs, RecordFailure(r), NEW u \in Users
    PROVE  LockoutInv(u)'
<1> USE DEF AccessInv, RowsInv, AccessTypeOK, LoginInv, RequestInv, LoginSteps
<1>1. call[r].user \in Users /\ pc[r] = "failure"
  BY DEF RecordFailure
<1>2. IsFiniteSet(Reqs) /\ IsFiniteSet(Failing(u)) /\ Cardinality(Reqs) \in Nat
      /\ Cardinality(Failing(u)) \in Nat
  BY AccessAssumption, FS_Subset, FS_CardinalityType DEF Failing
<1>3. Failing(u)' = Failing(u) \ {r}
  BY <1>1 DEF RecordFailure, Answer, Goto, Failing
<1>4. /\ Cardinality(Failing(u)') \in Nat
      /\ r \in Failing(u) => Cardinality(Failing(u)') = Cardinality(Failing(u)) - 1
      /\ Cardinality(Failing(u)') <= Cardinality(Reqs) - 1
  <2>1. Failing(u)' \subseteq Reqs \ {r}
    BY <1>3 DEF Failing
  <2>2. IsFiniteSet(Reqs \ {r}) /\ Cardinality(Reqs \ {r}) = Cardinality(Reqs) - 1
    BY <1>2, FS_RemoveElement
  <2>3. IsFiniteSet(Failing(u)') /\ Cardinality(Failing(u)') <= Cardinality(Reqs) - 1
    BY <2>1, <2>2, FS_Subset
  <2>4. r \in Failing(u) => Cardinality(Failing(u) \ {r}) = Cardinality(Failing(u)) - 1
    BY <1>2, FS_RemoveElement
  <2>5. QED  BY <1>3, <2>3, <2>4, FS_CardinalityType
<1>5. /\ faults \in Nat /\ faults' \in {faults, faults + 1}
      /\ MaxFailures \in Nat \ {0} /\ guesses[u] \in Nat
      /\ failures[u] \in 0 .. MaxFailures - 1
  BY AccessAssumption DEF RecordFailure, RedisFails, RedisAnswers
<1>6. CASE call[r].user # u
  <2>1. failures'[u] = failures[u] /\ locked'[u] = locked[u] /\ guesses'[u] = guesses[u]
    BY <1>6 DEF RecordFailure, CountFailure
  <2>2. Failing(u)' = Failing(u)
    BY <1>3, <1>6 DEF Failing
  <2>3. QED  BY <1>2, <1>5, <2>1, <2>2 DEF LockoutInv
<1>7. CASE call[r].user = u /\ locked[u]
  <2>1. locked'[u] /\ guesses'[u] = guesses[u] + 1
    BY <1>1, <1>7 DEF RecordFailure, CountFailure
  <2>2. Cardinality(Failing(u)') = Cardinality(Failing(u)) - 1
    BY <1>1, <1>4, <1>7 DEF Failing
  <2>3. guesses[u] + Cardinality(Failing(u)) <= MaxFailures + Cardinality(Reqs) - 1 + faults
    BY <1>7 DEF LockoutInv
  <2>4. guesses'[u] + Cardinality(Failing(u)') <= MaxFailures + Cardinality(Reqs) - 1 + faults'
    BY <1>2, <1>5, <2>1, <2>2, <2>3
  <2>5. QED  BY <2>1, <2>4 DEF LockoutInv
<1>8. CASE call[r].user = u /\ ~locked[u] /\ RedisFails
  <2>1. faults' = faults + 1 /\ UNCHANGED <<failures, locked>> /\ guesses'[u] = guesses[u] + 1
    BY <1>5, <1>8 DEF RecordFailure, RedisFails, RedisAnswers
  <2>2. QED  BY <1>5, <1>8, <2>1 DEF LockoutInv
<1>9. CASE call[r].user = u /\ ~locked[u] /\ ~RedisFails
  <2>1. faults' = faults /\ CountFailure(u) /\ guesses'[u] = guesses[u] + 1
    BY <1>9 DEF RecordFailure, RedisAnswers
  <2>2. guesses[u] <= failures[u] + faults
    BY <1>9 DEF LockoutInv
  <2>3. CASE failures[u] + 1 < MaxFailures
    BY <1>5, <1>9, <2>1, <2>2, <2>3 DEF CountFailure, LockoutInv
  <2>4. CASE failures[u] + 1 >= MaxFailures
    <3>1. locked'[u]
      BY <1>9, <2>1, <2>4 DEF CountFailure
    <3>2. guesses'[u] + Cardinality(Failing(u)') <= MaxFailures + Cardinality(Reqs) - 1 + faults'
      BY <1>2, <1>4, <1>5, <2>1, <2>2, <2>4
    <3>3. QED  BY <3>1, <3>2 DEF LockoutInv
  <2>5. QED  BY <1>5, <2>3, <2>4
<1>10. QED  BY <1>6, <1>7, <1>8, <1>9

\* Accounts, sessions and requests ----------------------------------------

\* What a request claims stays true while others only answer.
LEMMA FrameOfRequests ==
    ASSUME RowsInv, NEW r \in Reqs, UNCHANGED <<account, session, known>>,
           \A q \in Reqs \ {r} : pc'[q] = pc[q] /\ call'[q] = call[q],
           RequestInv(r)'
    PROVE  (\A q \in Reqs : RequestInv(q)') /\ (\A s \in Sids : SessionInv(s)')
<1>1. ASSUME NEW q \in Reqs, q # r PROVE RequestInv(q)'
  BY <1>1 DEF RowsInv, RequestInv, LoginInv, TokenInv, LateInv, OwnInv
<1>2. ASSUME NEW s \in Sids PROVE SessionInv(s)'
  BY <1>2 DEF RowsInv, SessionInv
<1>3. QED  BY <1>1, <1>2

\* A request is answered, and nothing else happens to the rows.
LEMMA AnswerKeepsRows ==
    ASSUME RowsInv, NEW r \in Reqs, Answer(r),
           UNCHANGED <<account, session, known, kinds>>,
           failures' \in [Users -> 0 .. MaxFailures - 1], locked' \in [Users -> BOOLEAN],
           guesses' \in [Users -> Nat], faults' \in 0 .. MaxFaults
    PROVE  RowsInv'
<1>1. /\ pc' = [pc EXCEPT ![r] = "idle"]
      /\ call' = [call EXCEPT ![r] = NoCall]
      /\ pc \in [Reqs -> {"idle", "create", "first", "lock", "failure", "success",
                        "device", "announce", "session", "user", "token", "handle", "write"}]
      /\ call \in [Reqs -> Calls]
  BY DEF Answer, Goto, RowsInv, AccessTypeOK
<1>2. NoCall \in Calls
  BY DEF NoCall, Calls, Statuses
<1>3. AccessTypeOK'
  BY <1>1, <1>2 DEF RowsInv, AccessTypeOK
<1>4. RequestInv(r)'
  BY <1>1 DEF RequestInv, LoginInv, TokenInv, LateInv, OwnInv, LoginSteps, TokenSteps
<1>5. QED  BY <1>1, <1>2, <1>3, <1>4, FrameOfRequests DEF RowsInv

\* A request goes on, and nothing else happens to the rows.
LEMMA GotoKeepsRows ==
    ASSUME RowsInv, NEW r \in Reqs, NEW step, Goto(r, step),
           UNCHANGED <<call, account, session, known, kinds>>,
           step \in {"first", "failure", "success", "device", "announce", "session",
                     "token", "handle", "write"},
           failures' \in [Users -> 0 .. MaxFailures - 1], locked' \in [Users -> BOOLEAN],
           guesses' \in [Users -> Nat], faults' \in 0 .. MaxFaults,
           RequestInv(r)'
    PROVE  RowsInv'
<1>1. /\ pc' = [pc EXCEPT ![r] = step]
      /\ call \in [Reqs -> Calls]
  BY DEF Goto, RowsInv, AccessTypeOK
<1>2. AccessTypeOK'
  BY <1>1 DEF RowsInv, AccessTypeOK
<1>3. QED  BY <1>1, <1>2, FrameOfRequests DEF RowsInv, AccessTypeOK

\* A request begins.
LEMMA BeginKeepsRows ==
    ASSUME RowsInv, NEW r \in Reqs, NEW c \in Calls,
           NEW first \in {"create", "lock", "user"}, Begin(r, c, first), RequestInv(r)'
    PROVE  RowsInv'
<1>1. /\ pc' = [pc EXCEPT ![r] = first]
      /\ call' = [call EXCEPT ![r] = c]
      /\ call' \in [Reqs -> Calls]
  BY DEF Begin, Goto, RowsInv, AccessTypeOK
<1>2. AccessTypeOK'
  BY <1>1 DEF RowsInv, AccessTypeOK, Begin, lockoutVars
<1>3. QED  BY <1>1, <1>2, FrameOfRequests DEF RowsInv, AccessTypeOK, Begin, lockoutVars

\* The arrivals: the claims of the new request hold because of what it is
\* given, or because of what its lookup found.
LEMMA ArrivalsKeepRows ==
    ASSUME RowsInv, NEW r \in Reqs,
           \/ \E u \in Users, d \in Devices :
                 Register(r, u, d) \/ Login(r, u, d, "login") \/ Login(r, u, d, "guess")
           \/ \E s \in Sids : ArriveAny(r, s)
    PROVE  RowsInv' /\ UNCHANGED lockoutVars /\ pc'[r] # "failure"
                    /\ \A q \in Reqs \ {r} : pc'[q] = pc[q] /\ call'[q] = call[q]
<1> USE DEF RequestInv, LoginInv, TokenInv, LateInv, OwnInv, LoginSteps, TokenSteps
<1>1. ASSUME NEW c \in Calls, NEW first \in {"create", "lock", "user"}, Begin(r, c, first)
      PROVE  /\ pc'[r] = first /\ call'[r] = c
             /\ UNCHANGED <<account, session, known, lockoutVars, kinds>>
             /\ \A q \in Reqs \ {r} : pc'[q] = pc[q] /\ call'[q] = call[q]
  BY <1>1 DEF Begin, Goto, RowsInv, AccessTypeOK
<1>2. ASSUME NEW u \in Users, NEW d \in Devices, Register(r, u, d)
      PROVE  \E c \in Calls : Begin(r, c, "create") /\ c.user = u /\ c.device = d
  <2> DEFINE c == [NoCall EXCEPT !.kind = "register", !.user = u, !.device = d]
  <2>1. c \in Calls /\ c.user = u /\ c.device = d
    BY DEF NoCall, Calls, Kinds, Statuses
  <2>2. QED  BY <1>2, <2>1 DEF Register
<1>3. ASSUME NEW u \in Users, NEW d \in Devices, NEW kind \in {"login", "guess"},
             Login(r, u, d, kind)
      PROVE  /\ account[u].status # "ABSENT"
             /\ \E c \in Calls : Begin(r, c, "lock") /\ c.user = u /\ c.device = d
  <2> DEFINE c == [NoCall EXCEPT !.kind = kind, !.user = u, !.device = d,
                                 !.seen = account[u].status]
  <2>1. account[u].status \in Statuses
    BY DEF RowsInv, AccessTypeOK
  <2>2. c \in Calls /\ c.user = u /\ c.device = d
    BY <2>1 DEF NoCall, Calls, Kinds, Statuses
  <2>3. QED  BY <1>3, <2>2 DEF Login
<1>4. ASSUME NEW s \in Sids, NEW kind \in {"use", "logout", "revoke", "setStatus"},
             NEW on \in Users \cup Sids \cup {Nothing}, NEW to \in Statuses,
             Arrive(r, s, kind, on, to),
             kind \in {"logout", "revoke"} => on \in Sids,
             kind = "setStatus" => to # "ABSENT"
      PROVE  RowsInv' /\ UNCHANGED lockoutVars /\ pc'[r] # "failure"
                      /\ \A q \in Reqs \ {r} : pc'[q] = pc[q] /\ call'[q] = call[q]
  <2> DEFINE u == session[s].owner
             late == CASE session[s].state = "revoked" -> "revoked"
                       [] account[u].status # "ACTIVE" -> "inactive"
                       [] OTHER -> "no"
             c == [NoCall EXCEPT !.kind = kind, !.user = u, !.token = s, !.on = on,
                                 !.to = to, !.late = late]
  <2>1. u \in Users /\ account[u].status # "ABSENT"
    BY <1>4 DEF Arrive, RowsInv, SessionInv
  <2>2. /\ late \in {"no", "inactive", "revoked"}
        /\ late = "revoked" => session[s].state = "revoked"
        /\ late = "inactive" => account[u].status # "ACTIVE"
    OBVIOUS
  <2>3. /\ c \in Calls /\ c.user = u /\ c.token = s /\ c.late = late
        /\ c.kind = kind /\ c.on = on /\ c.to = to
    <3> HIDE DEF u, late
    <3>1. QED  BY <2>1, <2>2 DEF NoCall, Calls, Kinds, Statuses
  <2>4. Begin(r, c, "user")
    BY <1>4 DEF Arrive
  <2> HIDE DEF u, late, c
  <2>5. pc'[r] = "user" /\ call'[r] = c /\ UNCHANGED <<account, session, known>>
    BY <1>1, <2>3, <2>4
  <2>6. RequestInv(r)'
    BY <1>4, <2>1, <2>2, <2>3, <2>5
  <2>7. QED  BY <1>1, <2>3, <2>4, <2>5, <2>6, BeginKeepsRows
<1>5. CASE \E u \in Users, d \in Devices : Register(r, u, d)
  <2>1. PICK u \in Users, d \in Devices : Register(r, u, d)
    BY <1>5
  <2>2. PICK c \in Calls : Begin(r, c, "create") /\ c.user = u /\ c.device = d
    BY <1>2, <2>1
  <2>3. RequestInv(r)'
    BY <1>1, <2>2
  <2>4. QED  BY <1>1, <2>2, <2>3, BeginKeepsRows
<1>6. CASE \E u \in Users, d \in Devices : Login(r, u, d, "login") \/ Login(r, u, d, "guess")
  <2>1. PICK u \in Users, d \in Devices : Login(r, u, d, "login") \/ Login(r, u, d, "guess")
    BY <1>6
  <2>2. /\ account[u].status # "ABSENT"
        /\ \E c \in Calls : Begin(r, c, "lock") /\ c.user = u /\ c.device = d
    BY <1>3, <2>1
  <2>3. PICK c \in Calls : Begin(r, c, "lock") /\ c.user = u /\ c.device = d
    BY <2>2
  <2>4. RequestInv(r)'
    BY <1>1, <2>2, <2>3
  <2>5. QED  BY <1>1, <2>3, <2>4, BeginKeepsRows
<1>7. CASE \E s \in Sids : ArriveAny(r, s)
  <2>1. PICK s \in Sids : ArriveAny(r, s)
    BY <1>7
  <2>2. CASE Arrive(r, s, "use", Nothing, "ABSENT")
    BY <1>4, <2>2 DEF Statuses
  <2>3. CASE Arrive(r, s, "logout", s, "ABSENT")
    BY <1>4, <2>3 DEF Statuses
  <2>4. CASE \E t \in Sids : Arrive(r, s, "revoke", t, "ABSENT")
    BY <1>4, <2>4 DEF Statuses
  <2>5. CASE \E v \in Users, to \in {"ACTIVE", "LOCKED", "DISABLED"} :
                Arrive(r, s, "setStatus", v, to)
    <3>1. PICK v \in Users, to \in {"ACTIVE", "LOCKED", "DISABLED"} :
                Arrive(r, s, "setStatus", v, to)
      BY <2>5
    <3>2. to \in Statuses /\ to # "ABSENT"
      BY DEF Statuses
    <3>3. QED  BY <1>4, <3>1, <3>2
  <2>6. QED  BY <2>1, <2>2, <2>3, <2>4, <2>5 DEF ArriveAny
<1>8. QED  BY <1>5, <1>6, <1>7

\* The steps of a registration and of a login.
LEMMA CreateAccountKeepsRows ==
    ASSUME RowsInv, NEW r \in Reqs, CreateAccount(r)
    PROVE  RowsInv'
<1>1. call[r].user \in Users /\ call[r].device \in Devices
  BY DEF RowsInv, RequestInv, LoginInv, CreateAccount
<1>2. CASE Answer(r) /\ UNCHANGED account
  BY <1>2, AnswerKeepsRows DEF CreateAccount, RowsInv, AccessTypeOK, lockoutVars
<1>3. CASE /\ account[call[r].user].status = "ABSENT"
           /\ account' = [account EXCEPT ![call[r].user] = [role |-> "USER", status |-> "ACTIVE"]]
           /\ Goto(r, "first") /\ UNCHANGED call
  <2>1. /\ UNCHANGED <<session, known, failures, locked, guesses, faults, kinds, call>>
        /\ pc' = [pc EXCEPT ![r] = "first"]
    BY <1>3 DEF CreateAccount, lockoutVars, Goto
  <2>2. AccessTypeOK'
    BY <1>1, <1>3, <2>1 DEF RowsInv, AccessTypeOK, Roles, Statuses
  <2>3. ASSUME NEW s \in Sids PROVE SessionInv(s)'
    BY <1>1, <1>3, <2>1, <2>3 DEF RowsInv, AccessTypeOK, SessionInv
  <2>4. RequestInv(r)'
    BY <1>1, <1>3, <2>1
       DEF RowsInv, AccessTypeOK, RequestInv, LoginInv, TokenInv, LateInv, OwnInv,
           LoginSteps, TokenSteps
  <2>5. ASSUME NEW q \in Reqs, q # r PROVE RequestInv(q)'
    <3>1. RequestInv(q) /\ pc'[q] = pc[q] /\ call'[q] = call[q]
      BY <2>1, <2>5 DEF RowsInv, AccessTypeOK
    <3>2. LoginInv(q)' /\ TokenInv(q)' /\ OwnInv(q)'
      BY <1>1, <1>3, <2>1, <3>1
         DEF RowsInv, AccessTypeOK, RequestInv, LoginInv, TokenInv, OwnInv, LoginSteps, TokenSteps
    <3>3. LateInv(q)'
      BY <1>1, <1>3, <2>1, <3>1 DEF RowsInv, AccessTypeOK, RequestInv, LateInv
    <3>4. QED  BY <3>2, <3>3 DEF RequestInv
  <2>6. QED  BY <2>2, <2>3, <2>4, <2>5 DEF RowsInv
<1>4. QED  BY <1>2, <1>3 DEF CreateAccount

LEMMA AnnounceKeepsRows ==
    ASSUME RowsInv, NEW r \in Reqs, Announce(r)
    PROVE  RowsInv'
<1>1. call[r].user \in Users /\ call[r].device \in Devices
      /\ account[call[r].user].status # "ABSENT"
  BY DEF RowsInv, RequestInv, LoginInv, LoginSteps, Announce, Step
<1>2. /\ UNCHANGED <<account, session, failures, locked, guesses, faults, kinds, call>>
      /\ pc' = [pc EXCEPT ![r] = "session"]
      /\ known' = known \cup {<<call[r].user, call[r].device>>}
  BY DEF Announce, Step, Goto, lockoutVars
<1>3. AccessTypeOK'
  BY <1>1, <1>2 DEF RowsInv, AccessTypeOK
<1>4. \A s \in Sids : SessionInv(s)'
  BY <1>2 DEF RowsInv, SessionInv
<1>5. \A q \in Reqs : RequestInv(q)'
  BY <1>1, <1>2
     DEF RowsInv, AccessTypeOK, RequestInv, LoginInv, TokenInv, LateInv, OwnInv,
         LoginSteps, TokenSteps
<1>6. QED  BY <1>3, <1>4, <1>5 DEF RowsInv

LEMMA CreateSessionKeepsRows ==
    ASSUME RowsInv, NEW r \in Reqs, CreateSession(r)
    PROVE  RowsInv'
<1>1. PICK u \in Users, d \in Devices : call[r].user = u /\ call[r].device = d
  BY DEF RowsInv, RequestInv, LoginInv, LoginSteps, CreateSession
<1>2. account[u].status # "ABSENT" /\ (pc[r] = "session" => <<u, d>> \in known)
  BY <1>1 DEF RowsInv, RequestInv, LoginInv, LoginSteps, CreateSession
<1> DEFINE row == [owner |-> u, device |-> d, state |-> "live"]
<1>3. PICK s \in Sids : session[s] = NoSession /\ session' = [session EXCEPT ![s] = row]
  BY <1>1 DEF CreateSession
<1>4. /\ UNCHANGED <<account, failures, locked, guesses, faults, kinds>>
      /\ pc' = [pc EXCEPT ![r] = "idle"]
      /\ call' = [call EXCEPT ![r] = NoCall]
  BY DEF CreateSession, Answer, Goto, lockoutVars
<1>5. \A k : k \in known' <=> k \in known \/ k = <<u, d>>
  <2>1. CASE pc[r] = "first"
    BY <1>1, <2>1 DEF CreateSession
  <2>2. CASE pc[r] = "session"
    BY <1>2, <2>2 DEF CreateSession
  <2>3. QED  BY <2>1, <2>2 DEF CreateSession
<1>6. /\ row \in [owner : Users \cup {Nothing}, device : Devices \cup {Nothing},
                  state : {"none", "live", "revoked"}]
      /\ row.state = "live" /\ row.owner = u /\ row.device = d
  OBVIOUS
<1> HIDE DEF row
<1>7. AccessTypeOK'
  <2>1. NoCall \in Calls
    BY DEF NoCall, Calls, Statuses
  <2>2. session' \in [Sids -> [owner : Users \cup {Nothing}, device : Devices \cup {Nothing},
                                state : {"none", "live", "revoked"}]]
    BY <1>3, <1>6 DEF RowsInv, AccessTypeOK
  <2>3. known' \subseteq Users \X Devices
    <3>1. known \subseteq Users \X Devices
      BY DEF RowsInv, AccessTypeOK
    <3>2. <<u, d>> \in Users \X Devices
      OBVIOUS
    <3>3. QED  BY ONLY <1>5, <3>1, <3>2
  <2>4. QED  BY <1>4, <2>1, <2>2, <2>3 DEF RowsInv, AccessTypeOK
<1>8. ASSUME NEW t \in Sids PROVE SessionInv(t)'
  <2>1. CASE t = s
    <3>1. session'[t] = row
      BY <1>3, <2>1 DEF RowsInv, AccessTypeOK
    <3>2. QED  BY <1>2, <1>4, <1>5, <1>6, <3>1 DEF SessionInv
  <2>2. CASE t # s
    <3>1. session'[t] = session[t]
      BY <1>3, <2>2 DEF RowsInv, AccessTypeOK
    <3>2. QED  BY <1>4, <1>5, <3>1 DEF RowsInv, SessionInv
  <2>3. QED  BY <2>1, <2>2
<1>9. RequestInv(r)'
  BY <1>4
     DEF RowsInv, AccessTypeOK, RequestInv, LoginInv, TokenInv, LateInv, OwnInv,
         LoginSteps, TokenSteps
<1>10. ASSUME NEW q \in Reqs, q # r PROVE RequestInv(q)'
  <2>1. RequestInv(q) /\ pc'[q] = pc[q] /\ call'[q] = call[q]
    BY <1>4, <1>10 DEF RowsInv, AccessTypeOK
  <2>2. \A t \in Sids : session[t].state # "none" => session'[t] = session[t]
    BY <1>3 DEF RowsInv, AccessTypeOK, NoSession
  <2>3. LoginInv(q)' /\ TokenInv(q)'
    BY <1>4, <1>5, <2>1 DEF RequestInv, LoginInv, TokenInv
  <2>4. LateInv(q)' /\ OwnInv(q)'
    BY <1>4, <2>1, <2>2 DEF RequestInv, LateInv, OwnInv, TokenInv, TokenSteps
  <2>5. QED  BY <2>3, <2>4 DEF RequestInv
<1>11. QED  BY <1>7, <1>8, <1>9, <1>10 DEF RowsInv

LEMMA LoginStepKeepsRows ==
    ASSUME RowsInv, NEW r \in Reqs, LoginStep(r)
    PROVE  RowsInv'
<1> USE DEF RequestInv, LoginInv, TokenInv, LateInv, OwnInv, LoginSteps, TokenSteps
<1>1. CASE CheckLock(r)
  <2>1. /\ faults' \in 0 .. MaxFaults
        /\ UNCHANGED <<account, session, known, failures, locked, guesses, kinds>>
    BY <1>1, AccessAssumption DEF CheckLock, RedisFails, RedisAnswers, RowsInv, AccessTypeOK
  <2>2. CASE Answer(r)
    BY <2>1, <2>2, AnswerKeepsRows DEF RowsInv, AccessTypeOK
  <2>3. CASE (Goto(r, "failure") \/ Goto(r, "success")) /\ UNCHANGED call
    <3>1. RequestInv(r)'
      BY <1>1, <2>1, <2>3 DEF CheckLock, Goto, RowsInv, AccessTypeOK
    <3>2. QED  BY <2>1, <2>3, <3>1, GotoKeepsRows DEF RowsInv, AccessTypeOK
  <2>4. QED  BY <1>1, <2>2, <2>3 DEF CheckLock
<1>2. CASE RecordFailure(r)
  <2>1. call[r].user \in Users
    BY <1>2 DEF RecordFailure, RowsInv
  <2>2. faults' \in 0 .. MaxFaults
    BY <1>2, AccessAssumption DEF RecordFailure, RedisFails, RedisAnswers, RowsInv, AccessTypeOK
  <2>3. guesses' \in [Users -> Nat]
    BY <1>2, <2>1 DEF RecordFailure, RowsInv, AccessTypeOK
  <2>4. failures' \in [Users -> 0 .. MaxFailures - 1] /\ locked' \in [Users -> BOOLEAN]
    <3>1. CASE UNCHANGED <<failures, locked>>
      BY <3>1 DEF RowsInv, AccessTypeOK
    <3>2. CASE ~UNCHANGED <<failures, locked>>
      <4>1. /\ failures' = [failures EXCEPT ![call[r].user] =
                               IF @ + 1 < MaxFailures THEN @ + 1 ELSE 0]
            /\ locked' = [locked EXCEPT ![call[r].user] =
                               failures[call[r].user] + 1 >= MaxFailures]
        BY <1>2, <3>2 DEF RecordFailure, CountFailure
      <4>2. failures' \in [Users -> 0 .. MaxFailures - 1]
        BY <2>1, <4>1, AccessAssumption DEF RowsInv, AccessTypeOK
      <4>3. (failures[call[r].user] + 1 >= MaxFailures) \in BOOLEAN
        OBVIOUS
      <4>4. locked' \in [Users -> BOOLEAN]
        BY <4>1, <4>3 DEF RowsInv, AccessTypeOK
      <4>5. QED  BY <4>2, <4>4
    <3>3. QED  BY <3>1, <3>2
  <2>5. QED  BY <1>2, <2>2, <2>3, <2>4, AnswerKeepsRows DEF RecordFailure
<1>3. CASE RecordSuccess(r)
  <2>1. /\ faults' \in 0 .. MaxFaults
        /\ failures' \in [Users -> 0 .. MaxFailures - 1]
        /\ locked' \in [Users -> BOOLEAN]
        /\ guesses' \in [Users -> Nat]
    <3>1. CASE RedisFails /\ UNCHANGED <<failures, locked, guesses>>
      BY <3>1, AccessAssumption DEF RedisFails, RowsInv, AccessTypeOK
    <3>2. CASE /\ UNCHANGED faults
               /\ failures' = [failures EXCEPT ![call[r].user] = 0]
               /\ locked' = [locked EXCEPT ![call[r].user] = FALSE]
               /\ guesses' = [guesses EXCEPT ![call[r].user] = 0]
      <4>1. 0 \in 0 .. MaxFailures - 1
        BY AccessAssumption
      <4>2. locked' \in [Users -> BOOLEAN]
        BY <3>2 DEF RowsInv, AccessTypeOK
      <4>3. QED  BY <3>2, <4>1, <4>2 DEF RowsInv, AccessTypeOK
    <3>3. QED  BY <1>3, <3>1, <3>2 DEF RecordSuccess, RedisAnswers
  <2>2. RequestInv(r)'
    BY <1>3 DEF RecordSuccess, Step, Goto, RowsInv, AccessTypeOK
  <2>3. QED  BY <1>3, <2>1, <2>2, GotoKeepsRows DEF RecordSuccess, Step
<1>4. CASE FindDevice(r)
  <2>1. pc[r] = "device" /\ UNCHANGED <<account, session, known, call>>
    BY <1>4 DEF FindDevice, Step
  <2>2. pc'[r] = "session" =>
           \E s \in Sids : session[s].owner = call[r].user /\ session[s].device = call[r].device
    BY <1>4 DEF FindDevice, Step, Goto, RowsInv, AccessTypeOK
  <2>3. pc'[r] \in {"session", "announce"}
    BY <1>4 DEF FindDevice, Step, Goto, RowsInv, AccessTypeOK
  <2>4. pc'[r] = "session" => <<call[r].user, call[r].device>> \in known
    <3>1. call[r].user \in Users
      BY <2>1 DEF RowsInv
    <3>2. \A s \in Sids : session[s].owner = call[r].user =>
                 <<session[s].owner, session[s].device>> \in known
      BY <3>1, AccessAssumption DEF RowsInv, SessionInv, NoSession
    <3>3. QED  BY <2>2, <3>2
  <2>5. RequestInv(r)'
    BY <2>1, <2>3, <2>4 DEF RowsInv
  <2>6. QED  BY <1>4, <2>5, GotoKeepsRows DEF FindDevice, Step, lockoutVars, RowsInv, AccessTypeOK
<1>5. QED
  BY <1>1, <1>2, <1>3, <1>4, CreateAccountKeepsRows, AnnounceKeepsRows, CreateSessionKeepsRows
     DEF LoginStep

\* Sessions that exist are revoked, and the request is answered.
LEMMA RevocationKeepsRows ==
    ASSUME RowsInv, NEW r \in Reqs, Answer(r),
           UNCHANGED <<account, known, failures, locked, guesses, faults, kinds>>,
           session' \in [Sids -> [owner : Users \cup {Nothing}, device : Devices \cup {Nothing},
                                  state : {"none", "live", "revoked"}]],
           \A s \in Sids : \/ session'[s] = session[s]
                           \/ /\ session[s].state # "none"
                              /\ session'[s].state = "revoked"
                              /\ session'[s].owner = session[s].owner
                              /\ session'[s].device = session[s].device
    PROVE  RowsInv'
<1>1. /\ pc' = [pc EXCEPT ![r] = "idle"]
      /\ call' = [call EXCEPT ![r] = NoCall]
  BY DEF Answer, Goto
<1>2. AccessTypeOK'
  <2>1. NoCall \in Calls
    BY DEF NoCall, Calls, Statuses
  <2>2. QED  BY <1>1, <2>1 DEF RowsInv, AccessTypeOK
<1>3. ASSUME NEW s \in Sids PROVE SessionInv(s)'
  BY DEF RowsInv, SessionInv
<1>4. RequestInv(r)'
  BY <1>1
     DEF RowsInv, AccessTypeOK, RequestInv, LoginInv, TokenInv, LateInv, OwnInv,
         LoginSteps, TokenSteps
<1>5. ASSUME NEW q \in Reqs, q # r PROVE RequestInv(q)'
  <2>1. RequestInv(q) /\ pc'[q] = pc[q] /\ call'[q] = call[q]
    BY <1>1, <1>5 DEF RowsInv, AccessTypeOK
  <2>2. LoginInv(q)' /\ TokenInv(q)'
    BY <2>1 DEF RequestInv, LoginInv, TokenInv
  <2>3. LateInv(q)' /\ OwnInv(q)'
    BY <2>1 DEF RequestInv, LateInv, OwnInv, TokenInv, TokenSteps
  <2>4. QED  BY <2>2, <2>3 DEF RequestInv
<1>6. QED  BY <1>2, <1>3, <1>4, <1>5 DEF RowsInv

LEMMA RevokeSessionKeepsRows ==
    ASSUME RowsInv, NEW r \in Reqs, RevokeSession(r)
    PROVE  RowsInv'
<1>1. PICK x \in Sids : call[r].on = x /\ session[x].state # "none"
  BY DEF RevokeSession, RowsInv, RequestInv, TokenInv, OwnInv, TokenSteps
<1>2. session' = [session EXCEPT ![x].state = "revoked"]
  BY <1>1 DEF RevokeSession
<1>3. \A s \in Sids : \/ session'[s] = session[s]
                      \/ /\ session[s].state # "none"
                         /\ session'[s].state = "revoked"
                         /\ session'[s].owner = session[s].owner
                         /\ session'[s].device = session[s].device
  BY <1>1, <1>2 DEF RowsInv, AccessTypeOK
<1>4. session' \in [Sids -> [owner : Users \cup {Nothing}, device : Devices \cup {Nothing},
                             state : {"none", "live", "revoked"}]]
  BY <1>2 DEF RowsInv, AccessTypeOK
<1>5. QED  BY <1>3, <1>4, RevocationKeepsRows DEF RevokeSession, lockoutVars

LEMMA RevokeDeviceKeepsRows ==
    ASSUME RowsInv, NEW r \in Reqs, RevokeDevice(r)
    PROVE  RowsInv'
<1>1. PICK x \in Sids : /\ call[r].on = x /\ session[x].owner = call[r].user
                       /\ call[r].user \in Users
  BY DEF RevokeDevice, RowsInv, RequestInv, TokenInv, OwnInv, TokenSteps
<1>2. session' = [s \in Sids |->
          IF session[s].owner = session[x].owner /\ session[s].device = session[x].device
          THEN [session[s] EXCEPT !.state = "revoked"] ELSE session[s]]
  BY <1>1 DEF RevokeDevice
<1>3. ASSUME NEW s \in Sids
      PROVE  \/ session'[s] = session[s]
             \/ /\ session[s].state # "none"
                /\ session'[s].state = "revoked"
                /\ session'[s].owner = session[s].owner
                /\ session'[s].device = session[s].device
  <2>1. session[s].state = "none" => session[s].owner # session[x].owner
    <3>1. session[s].state = "none" => session[s].owner = Nothing
      <4>1. session[s].state = "none" => session[s] = NoSession
        BY DEF RowsInv, SessionInv
      <4>2. NoSession.owner = Nothing
        BY DEF NoSession
      <4>3. QED  BY ONLY <4>1, <4>2
    <3>2. QED  BY ONLY <1>1, <3>1, AccessAssumption
  <2>2. QED  BY <1>2, <2>1 DEF RowsInv, AccessTypeOK
<1>4. session' \in [Sids -> [owner : Users \cup {Nothing}, device : Devices \cup {Nothing},
                             state : {"none", "live", "revoked"}]]
  BY <1>2 DEF RowsInv, AccessTypeOK
<1>5. QED  BY <1>3, <1>4, RevocationKeepsRows DEF RevokeDevice, lockoutVars

\* No status becomes ABSENT; of the requests that came too late because of
\* the old status, those stay late whose account is still not active.
LEMMA WriteStatusKeepsRows ==
    ASSUME RowsInv, NEW r \in Reqs, WriteStatus(r)
    PROVE  RowsInv'
<1>1. PICK to \in Statuses : call[r].to = to /\ to # "ABSENT"
  BY DEF WriteStatus, RowsInv, RequestInv, TokenInv, TokenSteps, AccessTypeOK, Calls
<1>2. PICK v : call[r].on = v
  OBVIOUS
<1>3. /\ account' = [account EXCEPT ![v].status = to]
      /\ pc' = [pc EXCEPT ![r] = "idle"]
      /\ UNCHANGED <<session, known, failures, locked, guesses, faults, kinds>>
  BY <1>1, <1>2 DEF WriteStatus, Goto, lockoutVars
<1>4. /\ call'[r] = NoCall
      /\ \A q \in Reqs \ {r} :
            call'[q] = IF call[q].user = v /\ call[q].late = "inactive" /\ to = "ACTIVE"
                       THEN [call[q] EXCEPT !.late = "no"] ELSE call[q]
      /\ call' = [q \in Reqs |-> call'[q]]
  BY <1>1, <1>2 DEF WriteStatus
<1>5. account' \in [Users -> [role : Roles, status : Statuses]]
  BY <1>1, <1>3 DEF RowsInv, AccessTypeOK
<1>6. \A u \in Users : account'[u].status = IF u = v THEN to ELSE account[u].status
  BY <1>3 DEF RowsInv, AccessTypeOK
<1>7. AccessTypeOK'
  <2>1. NoCall \in Calls
    BY DEF NoCall, Calls, Statuses
  <2>2. ASSUME NEW q \in Reqs PROVE call'[q] \in Calls
    <3>1. call[q] \in Calls
      BY DEF RowsInv, AccessTypeOK
    <3>2. [call[q] EXCEPT !.late = "no"] \in Calls
      BY ONLY <3>1 DEF Calls
    <3>3. call'[q] \in {NoCall, call[q], [call[q] EXCEPT !.late = "no"]}
      BY <1>4
    <3>4. QED  BY ONLY <2>1, <3>1, <3>2, <3>3
  <2>3. call' \in [Reqs -> Calls]
    BY ONLY <1>4, <2>2
  <2>4. QED  BY <1>3, <1>5, <2>3 DEF RowsInv, AccessTypeOK
<1>8. ASSUME NEW s \in Sids PROVE SessionInv(s)'
  BY <1>1, <1>3, <1>6 DEF RowsInv, SessionInv
<1>9. RequestInv(r)'
  BY <1>3
     DEF RowsInv, AccessTypeOK, RequestInv, LoginInv, TokenInv, LateInv, OwnInv,
         LoginSteps, TokenSteps
<1>10. ASSUME NEW q \in Reqs, q # r PROVE RequestInv(q)'
  <2>1. RequestInv(q) /\ pc'[q] = pc[q]
    BY <1>3, <1>10 DEF RowsInv, AccessTypeOK
  <2>2. /\ call'[q].kind = call[q].kind /\ call'[q].user = call[q].user
        /\ call'[q].device = call[q].device /\ call'[q].token = call[q].token
        /\ call'[q].on = call[q].on /\ call'[q].to = call[q].to
    BY <1>4, <1>10 DEF RowsInv, AccessTypeOK, Calls
  <2>3. call'[q].late = IF call[q].user = v /\ call[q].late = "inactive" /\ to = "ACTIVE"
                        THEN "no" ELSE call[q].late
    BY <1>4, <1>10 DEF RowsInv, AccessTypeOK, Calls
  <2>4. LoginInv(q)' /\ TokenInv(q)' /\ OwnInv(q)'
    BY <1>1, <1>3, <1>6, <2>1, <2>2 DEF RequestInv, LoginInv, TokenInv, OwnInv, LoginSteps
  <2>5. LateInv(q)'
    BY <1>1, <1>3, <1>6, <2>1, <2>2, <2>3 DEF RequestInv, LateInv, TokenInv, TokenSteps
  <2>6. QED  BY <2>4, <2>5 DEF RequestInv
<1>11. QED  BY <1>7, <1>8, <1>9, <1>10 DEF RowsInv

LEMMA RequestStepKeepsRows ==
    ASSUME RowsInv, NEW r \in Reqs, RequestStep(r) \/ Throw(r)
    PROVE  RowsInv'
<1> USE DEF RequestInv, LoginInv, TokenInv, LateInv, OwnInv, LoginSteps, TokenSteps
<1>1. /\ failures \in [Users -> 0 .. MaxFailures - 1] /\ locked \in [Users -> BOOLEAN]
      /\ guesses \in [Users -> Nat] /\ faults \in 0 .. MaxFaults
  BY DEF RowsInv, AccessTypeOK
<1>2. ASSUME Answer(r), UNCHANGED <<account, session, known, lockoutVars, kinds>>
      PROVE  RowsInv'
  BY <1>1, <1>2, AnswerKeepsRows DEF lockoutVars
<1>3. ASSUME NEW step \in {"token", "handle", "write"}, Goto(r, step), RequestInv(r)',
             UNCHANGED <<call, account, session, known, lockoutVars, kinds>>
      PROVE  RowsInv'
  BY <1>1, <1>3, GotoKeepsRows DEF lockoutVars
<1>4. ASSUME NEW step, Goto(r, step) PROVE pc'[r] = step
  BY <1>4 DEF Goto, RowsInv, AccessTypeOK
<1>5. call[r].late \in {"no", "inactive", "revoked"}
  BY DEF RowsInv, AccessTypeOK, Calls
<1>6. CASE ReadUser(r)
  <2>1. CASE account[call[r].user].status = "ACTIVE"
    <3>1. Goto(r, "token") /\ UNCHANGED call
      BY <1>6, <2>1 DEF ReadUser
    <3>2. RequestInv(r)'
      BY <1>4, <1>6, <2>1, <3>1 DEF ReadUser, RowsInv
    <3>3. QED  BY <1>3, <1>6, <3>1, <3>2 DEF ReadUser
  <2>2. CASE ~(account[call[r].user].status = "ACTIVE")
    BY <1>2, <1>6, <2>2 DEF ReadUser
  <2>3. QED  BY <2>1, <2>2
<1>7. CASE ReadSession(r)
  <2>1. CASE session[call[r].token].state = "live"
    <3>1. Goto(r, "handle") /\ UNCHANGED call
      BY <1>7, <2>1 DEF ReadSession
    <3>2. RequestInv(r)'
      BY <1>4, <1>5, <1>7, <2>1, <3>1 DEF ReadSession, RowsInv
    <3>3. QED  BY <1>3, <1>7, <3>1, <3>2 DEF ReadSession
  <2>2. CASE ~(session[call[r].token].state = "live")
    BY <1>2, <1>7, <2>2 DEF ReadSession
  <2>3. QED  BY <2>1, <2>2
<1>8. CASE HandleUse(r) \/ Throw(r)
  BY <1>2, <1>8 DEF HandleUse, Throw
<1>9. CASE FindSession(r)
  <2>1. CASE Answer(r)
    BY <1>2, <1>9, <2>1 DEF FindSession
  <2>2. CASE /\ session[call[r].on].state = "live"
             /\ session[call[r].on].owner = call[r].user
             /\ Goto(r, "write") /\ UNCHANGED call
    <3>1. RequestInv(r)'
      BY <1>4, <1>9, <2>2 DEF FindSession, RowsInv
    <3>2. QED  BY <1>3, <1>9, <2>2, <3>1 DEF FindSession
  <2>3. QED  BY <1>9, <2>1, <2>2 DEF FindSession
<1>10. CASE CountAdmins(r)
  <2>1. CASE Answer(r)
    BY <1>2, <1>10, <2>1 DEF CountAdmins
  <2>2. CASE Goto(r, "write") /\ UNCHANGED call
    <3>1. RequestInv(r)'
      BY <1>4, <1>10, <2>2 DEF CountAdmins, RowsInv
    <3>2. QED  BY <1>3, <1>10, <2>2, <3>1 DEF CountAdmins
  <2>3. QED  BY <1>10, <2>1, <2>2 DEF CountAdmins
<1>11. QED
  BY <1>6, <1>7, <1>8, <1>9, <1>10, RevokeSessionKeepsRows, RevokeDeviceKeepsRows,
     WriteStatusKeepsRows DEF RequestStep

\* Every step -------------------------------------------------------------

\* No request begins to fail but in CheckLock.
LEMMA NobodyFails ==
    ASSUME RowsInv, NEW u \in Users, LockoutInv(u), UNCHANGED lockoutVars,
           \A q \in Reqs : pc'[q] = "failure" =>
                pc[q] = "failure" /\ call'[q].user = call[q].user
    PROVE  LockoutInv(u)'
<1>1. Failing(u)' \subseteq Failing(u)
  BY DEF Failing
<1>2. AccessTypeOK /\ faults \in Nat /\ UNCHANGED <<failures, locked, guesses, faults>>
  BY AccessAssumption DEF RowsInv, AccessTypeOK, lockoutVars
<1>3. QED  BY <1>1, <1>2, OthersKeepLockout

LEMMA RecordSuccessKeepsLockout ==
    ASSUME RowsInv, NEW r \in Reqs, RecordSuccess(r), NEW u \in Users, LockoutInv(u)
    PROVE  LockoutInv(u)'
<1>1. /\ AccessTypeOK /\ faults \in Nat
      /\ failures \in [Users -> 0 .. MaxFailures - 1] /\ locked \in [Users -> BOOLEAN]
      /\ guesses \in [Users -> Nat]
  BY AccessAssumption DEF RowsInv, AccessTypeOK
<1>2. Failing(u)' \subseteq Failing(u)
  BY <1>1 DEF RecordSuccess, Step, Goto, Failing, AccessTypeOK
<1>3. CASE RedisFails /\ UNCHANGED <<failures, locked, guesses>>
  BY <1>1, <1>2, <1>3, OthersKeepLockout DEF RedisFails
<1>4. CASE /\ UNCHANGED faults
           /\ failures' = [failures EXCEPT ![call[r].user] = 0]
           /\ locked' = [locked EXCEPT ![call[r].user] = FALSE]
           /\ guesses' = [guesses EXCEPT ![call[r].user] = 0]
  <2>1. CASE call[r].user = u
    BY <1>1, <1>4, <2>1, ResetKeepsLockout
  <2>2. CASE call[r].user # u
    <3>1. /\ failures'[u] = failures[u] /\ locked'[u] = locked[u] /\ guesses'[u] = guesses[u]
          /\ faults' \in Nat
      BY <1>1, <1>4, <2>2
    <3>2. faults' >= faults
      BY <1>1, <1>4
    <3>3. QED  BY <1>1, <1>2, <3>1, <3>2, OthersKeepLockout
  <2>3. QED  BY <2>1, <2>2
<1>5. QED  BY <1>3, <1>4 DEF RecordSuccess, RedisAnswers

\* Locks and counts expire, Redis is lost, the process restarts.
LEMMA FailuresKeepInv ==
    ASSUME AccessInv, (\E v \in Users : LockExpires(v)) \/ Restart \/ LoseRedis
    PROVE  AccessInv'
<1>1. /\ AccessTypeOK /\ faults \in Nat /\ faults' \in Nat /\ faults' >= faults
      /\ faults' \in 0 .. MaxFaults
  BY AccessAssumption DEF AccessInv, RowsInv, AccessTypeOK, LockExpires, Restart, LoseRedis,
                          RedisFails, lockoutVars
<1>2. 0 \in 0 .. MaxFailures - 1
  BY AccessAssumption
<1>3. CASE \E v \in Users : LockExpires(v)
  <2>1. PICK v \in Users : LockExpires(v)
    BY <1>3
  <2>2. /\ failures' = [failures EXCEPT ![v] = 0]
        /\ locked' = [locked EXCEPT ![v] = FALSE]
        /\ guesses' = [guesses EXCEPT ![v] = 0]
        /\ UNCHANGED <<account, session, known, faults, pc, call, kinds>>
    BY <2>1 DEF LockExpires
  <2>3. locked' \in [Users -> BOOLEAN]
    BY <1>1, <2>2 DEF AccessTypeOK
  <2>4. AccessTypeOK'
    BY <1>1, <1>2, <2>2, <2>3 DEF AccessTypeOK
  <2>5. RowsInv'
    BY <2>2, <2>4
       DEF AccessInv, RowsInv, SessionInv, RequestInv, LoginInv, TokenInv, LateInv, OwnInv
  <2>6. ASSUME NEW u \in Users PROVE LockoutInv(u)'
    <3>1. CASE u = v
      BY <1>1, <2>2, <3>1, ResetKeepsLockout DEF AccessTypeOK
    <3>2. CASE u # v
      BY <1>1, <2>2, <3>2, OthersKeepLockout DEF AccessInv, AccessTypeOK, Failing
    <3>3. QED  BY <3>1, <3>2
  <2>7. QED  BY <2>5, <2>6 DEF AccessInv
<1>4. ASSUME failures' = [u \in Users |-> 0], locked' = [u \in Users |-> FALSE],
             guesses' = [u \in Users |-> 0]
      PROVE  /\ failures' \in [Users -> 0 .. MaxFailures - 1] /\ locked' \in [Users -> BOOLEAN]
             /\ guesses' \in [Users -> Nat]
             /\ \A u \in Users : LockoutInv(u)'
  <2>1. locked' \in [Users -> BOOLEAN]
    BY <1>4
  <2>2. ASSUME NEW u \in Users PROVE LockoutInv(u)'
    <3>1. failures'[u] = 0 /\ locked'[u] = FALSE /\ guesses'[u] = 0
      BY <1>4
    <3>2. QED  BY <1>1, <3>1, ResetKeepsLockout
  <2>3. QED  BY <1>2, <1>4, <2>1, <2>2
<1>5. CASE LoseRedis
  <2>1. AccessTypeOK' /\ \A u \in Users : LockoutInv(u)'
    BY <1>1, <1>4, <1>5 DEF LoseRedis, AccessTypeOK
  <2>2. RowsInv'
    BY <1>5, <2>1
       DEF LoseRedis, AccessInv, RowsInv, SessionInv, RequestInv, LoginInv, TokenInv, LateInv,
           OwnInv
  <2>3. QED  BY <2>1, <2>2 DEF AccessInv
<1>6. CASE Restart
  <2>1. /\ pc' = [r \in Reqs |-> "idle"] /\ call' = [r \in Reqs |-> NoCall]
        /\ UNCHANGED <<session, known, kinds, faults>>
    BY <1>6 DEF Restart, lockoutVars
  <2>2. /\ account' \in [Users -> [role : Roles, status : Statuses]]
        /\ \A u \in Users : account[u].status # "ABSENT" => account'[u].status # "ABSENT"
    <3>1. CASE Root = Nothing
      BY <1>1, <1>6, <3>1 DEF Restart, AccessTypeOK
    <3>2. CASE Root # Nothing
      <4>1. account' = [account EXCEPT ![Root] = [role |-> "ADMIN", status |-> "ACTIVE"]]
        BY <1>6, <3>2 DEF Restart
      <4>2. [role |-> "ADMIN", status |-> "ACTIVE"] \in [role : Roles, status : Statuses]
        BY DEF Roles, Statuses
      <4>3. QED  BY <1>1, <4>1, <4>2 DEF AccessTypeOK
    <3>3. QED  BY <3>1, <3>2
  <2>3. /\ failures' \in [Users -> 0 .. MaxFailures - 1] /\ locked' \in [Users -> BOOLEAN]
        /\ guesses' \in [Users -> Nat]
        /\ \A u \in Users : LockoutInv(u)'
    <3>1. CASE UNCHANGED lockoutVars
      <4>1. ASSUME NEW u \in Users PROVE LockoutInv(u)'
        <5>1. \A q \in Reqs : pc'[q] # "failure"
          BY <2>1
        <5>2. QED  BY <3>1, <5>1, NobodyFails DEF AccessInv
      <4>2. QED  BY <1>1, <3>1, <4>1 DEF AccessTypeOK, lockoutVars
    <3>2. CASE ~UNCHANGED lockoutVars
      BY <1>4, <1>6, <3>2 DEF Restart
    <3>3. QED  BY <3>1, <3>2
  <2>4. NoCall \in Calls
    BY DEF NoCall, Calls, Statuses
  <2>5. AccessTypeOK'
    BY <1>1, <2>1, <2>2, <2>3, <2>4 DEF AccessTypeOK
  <2>6. \A s \in Sids : SessionInv(s)'
    BY <2>1, <2>2 DEF AccessInv, RowsInv, SessionInv
  <2>7. \A q \in Reqs : RequestInv(q)'
    BY <2>1 DEF RequestInv, LoginInv, TokenInv, LateInv, OwnInv, LoginSteps, TokenSteps
  <2>8. QED  BY <2>3, <2>5, <2>6, <2>7 DEF AccessInv, RowsInv
<1>7. QED  BY <1>3, <1>5, <1>6

LEMMA NextKeepsInv ==
    AccessInv /\ [AccessNext]_accessVars => AccessInv'
<1>1. SUFFICES ASSUME AccessInv, [AccessNext]_accessVars PROVE AccessInv'
  OBVIOUS
<1>2. RowsInv /\ AccessTypeOK
  BY <1>1 DEF AccessInv, RowsInv
<1>3. ASSUME NEW r \in Reqs,
             \/ \E u \in Users, d \in Devices :
                   Register(r, u, d) \/ Login(r, u, d, "login") \/ Login(r, u, d, "guess")
             \/ \E s \in Sids : ArriveAny(r, s)
      PROVE  AccessInv'
  <2>1. /\ RowsInv' /\ UNCHANGED lockoutVars /\ pc'[r] # "failure"
        /\ \A q \in Reqs \ {r} : pc'[q] = pc[q] /\ call'[q] = call[q]
    BY <1>2, <1>3, ArrivalsKeepRows
  <2>2. QED  BY <1>1, <1>2, <2>1, NobodyFails DEF AccessInv
<1>4. ASSUME NEW r \in Reqs, LoginStep(r) PROVE AccessInv'
  <2>1. RowsInv'
    BY <1>2, <1>4, LoginStepKeepsRows
  <2>2. ASSUME NEW u \in Users PROVE LockoutInv(u)'
    <3>1. CASE CreateAccount(r) \/ FindDevice(r) \/ Announce(r) \/ CreateSession(r)
      <4>1. UNCHANGED lockoutVars
        BY <3>1 DEF CreateAccount, FindDevice, Announce, CreateSession
      <4>2. /\ pc'[r] # "failure"
            /\ \A q \in Reqs \ {r} : pc'[q] = pc[q] /\ call'[q] = call[q]
        BY <1>2, <3>1
           DEF CreateAccount, FindDevice, Announce, CreateSession, Answer, Step, Goto, AccessTypeOK
      <4>3. QED  BY <1>1, <1>2, <4>1, <4>2, NobodyFails DEF AccessInv
    <3>2. CASE CheckLock(r)
      BY <1>1, <3>2, CheckLockKeepsLockout
    <3>3. CASE RecordFailure(r)
      BY <1>1, <3>3, RecordFailureKeepsLockout
    <3>4. CASE RecordSuccess(r)
      BY <1>1, <1>2, <3>4, RecordSuccessKeepsLockout DEF AccessInv
    <3>5. QED  BY <1>4, <3>1, <3>2, <3>3, <3>4 DEF LoginStep
  <2>3. QED  BY <2>1, <2>2 DEF AccessInv
<1>5. ASSUME NEW r \in Reqs, RequestStep(r) \/ Throw(r) PROVE AccessInv'
  <2>1. RowsInv'
    BY <1>2, <1>5, RequestStepKeepsRows
  <2>2. UNCHANGED lockoutVars
    BY <1>5 DEF RequestStep, Throw, ReadUser, ReadSession, HandleUse, FindSession, RevokeSession,
                RevokeDevice, CountAdmins, WriteStatus
  <2>3. \A q \in Reqs : pc'[q] = "failure" => pc[q] = "failure" /\ call'[q].user = call[q].user
    <3>1. CASE WriteStatus(r)
      <4>1. \A q \in Reqs : pc'[q] = IF q = r THEN "idle" ELSE pc[q]
        BY <1>2, <3>1 DEF WriteStatus, Goto, AccessTypeOK
      <4>2. \A q \in Reqs \ {r} : call'[q] \in {call[q], [call[q] EXCEPT !.late = "no"]}
        BY <3>1 DEF WriteStatus
      <4>3. \A q \in Reqs \ {r} : [call[q] EXCEPT !.late = "no"].user = call[q].user
        BY <1>2 DEF AccessTypeOK, Calls
      <4>4. QED  BY <4>1, <4>2, <4>3
    <3>2. CASE ~WriteStatus(r)
      <4>1. /\ pc'[r] # "failure"
            /\ \A q \in Reqs \ {r} : pc'[q] = pc[q] /\ call'[q] = call[q]
        BY <1>2, <1>5, <3>2
           DEF RequestStep, Throw, ReadUser, ReadSession, HandleUse, FindSession, RevokeSession,
               RevokeDevice, CountAdmins, Answer, Step, Goto, AccessTypeOK
      <4>2. QED  BY <4>1
    <3>3. QED  BY <3>1, <3>2
  <2>4. QED  BY <1>1, <1>2, <2>1, <2>2, <2>3, NobodyFails DEF AccessInv
<1>6. CASE UNCHANGED accessVars
  BY <1>1, <1>6
     DEF accessVars, lockoutVars, AccessInv, RowsInv, AccessTypeOK, SessionInv, RequestInv, LoginInv,
         TokenInv, LateInv, OwnInv, LockoutInv, Failing
<1>7. QED  BY <1>1, <1>3, <1>4, <1>5, <1>6, FailuresKeepInv DEF AccessNext

THEOREM AccessIsSafe == AccessSpec => []AccessInv
  BY InitEstablishesInv, NextKeepsInv, PTL DEF AccessSpec

\* What follows -----------------------------------------------------------

(***************************************************************************)
(* Accounts, sessions, requests and the lockout keep their types.          *)
(***************************************************************************)
THEOREM AccessTypesHold == AccessSpec => []AccessTypeOK
<1>1. AccessInv => AccessTypeOK
  BY DEF AccessInv, RowsInv
<1>2. QED  BY <1>1, AccessIsSafe, PTL

(***************************************************************************)
(* A request that arrives with a revoked session, or on an account that is *)
(* not active, never reaches its handler: what JwtStrategy.validate reads  *)
(* first cannot become right again before it reads the rest.               *)
(***************************************************************************)
THEOREM LateRequestsAreRefused == AccessSpec => []LateIsRefused
<1>1. AccessInv => LateIsRefused
  BY DEF AccessInv, RowsInv, RequestInv, LateInv, LateIsRefused
<1>2. QED  BY <1>1, AccessIsSafe, PTL

(***************************************************************************)
(* However many logins overlap, the wrong passwords that are tried between *)
(* two resets of the count stay bounded (assertNotLocked, recordFailure).  *)
(***************************************************************************)
THEOREM GuessingIsBounded == AccessSpec => []GuessesBounded
<1>1. ASSUME AccessInv, NEW u \in Users
      PROVE  guesses[u] <= MaxFailures + Cardinality(Reqs) - 1 + faults
  <2>1. /\ guesses[u] \in Nat /\ faults \in Nat /\ MaxFailures \in Nat
        /\ failures[u] \in 0 .. MaxFailures - 1
    BY <1>1, AccessAssumption DEF AccessInv, RowsInv, AccessTypeOK
  <2>2. Cardinality(Failing(u)) \in Nat /\ Cardinality(Reqs) \in Nat
    BY FailingIsFinite
  <2>3. QED  BY <1>1, <2>1, <2>2 DEF AccessInv, LockoutInv
<1>2. AccessInv => GuessesBounded
  BY <1>1 DEF GuessesBounded
<1>3. QED  BY <1>2, AccessIsSafe, PTL

(***************************************************************************)
(* A session is on a device that was registered with or announced          *)
(* (SecurityService.recordSuccessfulLogin).                                *)
(***************************************************************************)
THEOREM SessionsAreOnKnownDevices == AccessSpec => []DevicesAreKnown
<1>1. AccessInv => DevicesAreKnown
  BY DEF AccessInv, RowsInv, SessionInv, DevicesAreKnown
<1>2. QED  BY <1>1, AccessIsSafe, PTL

(***************************************************************************)
(* Nobody revokes the session of another user, although devices of one     *)
(* make have one deviceKey (revokeSession, revokeSessionEnvironment).      *)
(***************************************************************************)
THEOREM RevocationsAreByOwners == AccessSpec => OnlyOwnersRevoke
<1> DEFINE LivesOn(s) ==
               \/ session[s] = NoSession /\ session'[s].state = "live"
               \/ /\ session[s].state = "live"
                  /\ session'[s] = [session[s] EXCEPT !.state = "revoked"]
                  /\ \E r \in Reqs : pc[r] = "write" /\ call[r].user = session[s].owner
<1>1. ASSUME AccessInv, AccessNext, NEW s \in Sids, session'[s] # session[s]
      PROVE  LivesOn(s)
  <2>t. /\ session \in [Sids -> [owner : Users \cup {Nothing}, device : Devices \cup {Nothing},
                                state : {"none", "live", "revoked"}]]
        /\ \A t \in Sids : SessionInv(t)
    BY <1>1 DEF AccessInv, RowsInv, AccessTypeOK
  <2>1. \E r \in Reqs : CreateSession(r) \/ RevokeSession(r) \/ RevokeDevice(r)
    <3>1. session' # session
      BY <1>1
    <3>2. ASSUME NEW r \in Reqs, NEW u \in Users, NEW d \in Devices, NEW kind,
                 Register(r, u, d) \/ Login(r, u, d, kind)
          PROVE  UNCHANGED session
      BY <3>2 DEF Register, Login, Begin
    <3>3. ASSUME NEW r \in Reqs, NEW t \in Sids, ArriveAny(r, t)
          PROVE  UNCHANGED session
      BY <3>3 DEF ArriveAny, Arrive, Begin
    <3>4. ASSUME NEW r \in Reqs, LoginStep(r), ~CreateSession(r)
          PROVE  UNCHANGED session
      BY <3>4 DEF LoginStep, CreateAccount, CheckLock, RecordFailure, RecordSuccess, FindDevice,
                  Announce
    <3>5. ASSUME NEW r \in Reqs, RequestStep(r), ~RevokeSession(r), ~RevokeDevice(r)
          PROVE  UNCHANGED session
      BY <3>5 DEF RequestStep, ReadUser, ReadSession, HandleUse, FindSession, CountAdmins, WriteStatus
    <3>6. (\E u \in Users : LockExpires(u)) \/ Restart \/ LoseRedis \/ (\E r \in Reqs : Throw(r))
             => UNCHANGED session
      BY DEF LockExpires, Restart, LoseRedis, Throw
    <3>7. QED  BY <1>1, <3>1, <3>2, <3>3, <3>4, <3>5, <3>6 DEF AccessNext
  <2>2. PICK r \in Reqs : CreateSession(r) \/ RevokeSession(r) \/ RevokeDevice(r)
    BY <2>1
  <2>3. CASE CreateSession(r)
    <3>1. PICK t \in Sids : \E row : /\ session[t] = NoSession /\ row.state = "live"
                                     /\ session' = [session EXCEPT ![t] = row]
      BY <2>3 DEF CreateSession
    <3>2. s = t
      BY <1>1, <2>t, <3>1
    <3>3. QED  BY <2>t, <3>1, <3>2
  <2>r. session'[s].state = "revoked" => session[s].state # "revoked"
    <3>1. \A t \in Sids : session[t].state = "revoked" =>
              session[t] = [session[t] EXCEPT !.state = "revoked"]
      BY <2>t
    <3>2. CASE RevokeSession(r)
      BY <1>1, <2>t, <3>1, <3>2 DEF RevokeSession
    <3>3. CASE RevokeDevice(r)
      BY <1>1, <2>t, <3>1, <3>3 DEF RevokeDevice
    <3>4. CASE CreateSession(r)
      BY <1>1, <2>t, <3>4 DEF CreateSession, NoSession
    <3>5. QED  BY <2>2, <3>2, <3>3, <3>4
  <2>4. CASE RevokeSession(r)
    <3>1. /\ session' = [session EXCEPT ![call[r].on].state = "revoked"]
          /\ pc[r] = "write" /\ session[call[r].on].owner = call[r].user
          /\ session[call[r].on].state # "none" /\ call[r].on \in Sids
      BY <1>1, <2>4
         DEF RevokeSession, AccessInv, RowsInv, RequestInv, OwnInv, TokenInv, TokenSteps
    <3>2. s = call[r].on
      BY <1>1, <2>t, <3>1
    <3>3. session'[s] = [session[s] EXCEPT !.state = "revoked"]
      BY <2>t, <3>1, <3>2
    <3>4. session'[s].state = "revoked"
      BY <2>t, <3>3
    <3>5. session[s].state = "live"
      BY <2>t, <2>r, <3>1, <3>2, <3>4
    <3>6. QED  BY <3>1, <3>2, <3>3, <3>5
  <2>5. CASE RevokeDevice(r)
    <3>1. /\ pc[r] = "write" /\ session[call[r].on].owner = call[r].user
          /\ session[call[r].on].state # "none" /\ call[r].on \in Sids
      BY <1>1, <2>5
         DEF RevokeDevice, AccessInv, RowsInv, RequestInv, OwnInv, TokenInv, TokenSteps
    <3>2. /\ session[s].owner = session[call[r].on].owner
          /\ session'[s] = [session[s] EXCEPT !.state = "revoked"]
      BY <1>1, <2>5 DEF RevokeDevice
    <3>3. session[s].owner \in Users
      BY <2>t, <3>1, <3>2 DEF SessionInv
    <3>4. session[s].state # "none"
      <4>1. session[s] # NoSession
        <5>1. Nothing \notin Users /\ NoSession.owner = Nothing
          BY AccessAssumption DEF NoSession
        <5>2. QED  BY <3>3, <5>1
      <4>2. QED  BY <2>t, <4>1 DEF SessionInv
    <3>5. session'[s].state = "revoked"
      BY <2>t, <3>2
    <3>6. session[s].state = "live"
      BY <2>t, <2>r, <3>4, <3>5
    <3>7. QED  BY <3>1, <3>2, <3>6
  <2>6. QED  BY <2>2, <2>3, <2>4, <2>5
<1>2. AccessInv /\ [AccessNext]_accessVars =>
        [\A s \in Sids : session'[s] # session[s] => LivesOn(s)]_accessVars
  BY <1>1
<1>3. QED  BY <1>2, AccessIsSafe, PTL DEF AccessSpec, OnlyOwnersRevoke

(***************************************************************************)
(* As long as requests are handled one at a time, what setAccountStatus    *)
(* has counted is still right when it writes the status.                   *)
(***************************************************************************)
CountHolds(r) ==
    /\ ActiveAdminRemains
    /\ pc[r] = "write" /\ call[r].kind = "setStatus" /\ call[r].to # "ACTIVE" =>
          \E u \in Users \ {call[r].on} : Active(u)

LEMMA AccountsKeepCount ==
    ASSUME AccessTypeOK, NEW r, Reqs = {r}, CountHolds(r),
           CreateAccount(r) \/ WriteStatus(r) \/ Restart
    PROVE  CountHolds(r)'
<1>1. PICK w \in Users : Active(w)
  BY DEF CountHolds, ActiveAdminRemains
<1>2. /\ account \in [Users -> [role : Roles, status : Statuses]]
      /\ \A step : [pc EXCEPT ![r] = step][r] = step
  BY DEF AccessTypeOK
<1>3. CASE CreateAccount(r)
  <2>1. account'[w] = account[w]
    BY <1>1, <1>2, <1>3 DEF CreateAccount, Active
  <2>2. pc'[r] # "write"
    BY <1>2, <1>3 DEF CreateAccount, Goto, Answer
  <2>3. QED  BY <1>1, <2>1, <2>2 DEF CountHolds, ActiveAdminRemains, Active
<1>4. CASE WriteStatus(r)
  <2>1. /\ account' = [account EXCEPT ![call[r].on].status = call[r].to]
        /\ pc[r] = "write" /\ call[r].kind = "setStatus" /\ pc'[r] = "idle"
    BY <1>2, <1>4 DEF WriteStatus, Goto
  <2>2. CASE call[r].to = "ACTIVE"
    <3>1. account'[w].role = "ADMIN" /\ account'[w].status = "ACTIVE"
      BY <1>1, <1>2, <2>1, <2>2 DEF Active
    <3>2. QED  BY <2>1, <3>1 DEF CountHolds, ActiveAdminRemains, Active
  <2>3. CASE call[r].to # "ACTIVE"
    <3>1. PICK u \in Users \ {call[r].on} : Active(u)
      BY <2>1, <2>3 DEF CountHolds
    <3>2. account'[u] = account[u]
      BY <1>2, <2>1, <3>1
    <3>3. QED  BY <2>1, <3>1, <3>2 DEF CountHolds, ActiveAdminRemains, Active
  <2>4. QED  BY <2>2, <2>3
<1>5. CASE Restart
  <2>1. pc'[r] = "idle"
    BY <1>5 DEF Restart
  <2>2. \E u \in Users : Active(u)'
    <3>1. CASE Root = Nothing
      BY <1>1, <1>5, <3>1 DEF Restart, Active
    <3>2. CASE Root # Nothing
      <4>1. Root \in Users
        BY <3>2, AccessAssumption
      <4>2. account'[Root] = [role |-> "ADMIN", status |-> "ACTIVE"]
        BY <1>2, <1>5, <3>2, <4>1 DEF Restart
      <4>3. QED  BY <4>1, <4>2 DEF Active
    <3>3. QED  BY <3>1, <3>2
  <2>3. QED  BY <2>1, <2>2 DEF CountHolds, ActiveAdminRemains
<1>6. QED  BY <1>3, <1>4, <1>5

LEMMA CountingKeepsCount ==
    ASSUME AccessTypeOK, NEW r, Reqs = {r}, CountHolds(r), CountAdmins(r)
    PROVE  CountHolds(r)'
<1> DEFINE c == call[r]
<1>1. account' = account /\ ActiveAdminRemains
  BY DEF CountAdmins, CountHolds
<1>2. CASE Goto(r, "write") /\ UNCHANGED call
  <2>1. account[c.on].role = "ADMIN" /\ c.to # "ACTIVE"
           => {u \in Users \ {c.on} : Active(u)} # {}
    <3>1. pc'[r] = "write"
      BY <1>2 DEF Goto, AccessTypeOK
    <3>2. ~Answer(r)
      BY <3>1 DEF Answer, Goto, AccessTypeOK
    <3>3. QED  BY <3>2 DEF CountAdmins
  <2>2. account[c.on].role # "ADMIN" => \A u \in Users : Active(u) => u # c.on
    BY DEF Active
  <2>3. c.to # "ACTIVE" => \E u \in Users \ {c.on} : Active(u)
    BY <1>1, <2>1, <2>2 DEF ActiveAdminRemains
  <2>4. QED  BY <1>1, <1>2, <2>3 DEF CountHolds, ActiveAdminRemains, Active
<1>3. CASE Answer(r)
  <2>1. pc'[r] # "write"
    BY <1>3 DEF Answer, Goto, AccessTypeOK
  <2>2. QED  BY <1>1, <2>1 DEF CountHolds, ActiveAdminRemains, Active
<1>4. QED  BY <1>2, <1>3 DEF CountAdmins

(***************************************************************************)
(* An active administrator remains if requests are handled one at a time   *)
(* and there was one at the start: the violation needs two administrators  *)
(* at the same time (AdminService.setAccountStatus).                       *)
(***************************************************************************)
THEOREM AdminsRemainOneAtATime ==
    ASSUME NEW r, Reqs = {r},
           \E u \in Users : Start[u] = [role |-> "ADMIN", status |-> "ACTIVE"]
    PROVE  AccessSpec => []ActiveAdminRemains
<1>1. AccessInit => CountHolds(r)
  BY DEF AccessInit, CountHolds, ActiveAdminRemains, Active
<1>2. AccessTypeOK /\ CountHolds(r) /\ [AccessNext]_accessVars => CountHolds(r)'
  <2> SUFFICES ASSUME AccessTypeOK, CountHolds(r), [AccessNext]_accessVars
               PROVE  CountHolds(r)'
    OBVIOUS
  <2>1. CASE /\ account' = account
             /\ pc'[r] = "write" => \/ pc[r] = "write" /\ call'[r] = call[r]
                                    \/ call'[r].kind \in {"logout", "revoke"}
    BY <2>1 DEF CountHolds, ActiveAdminRemains, Active
  <2>2. CASE \E q \in Reqs, u \in Users, d \in Devices :
                Register(q, u, d) \/ Login(q, u, d, "login") \/ Login(q, u, d, "guess")
    BY <2>1, <2>2 DEF Register, Login, Begin, Goto, AccessTypeOK
  <2>3. CASE \E q \in Reqs, s \in Sids : ArriveAny(q, s)
    <3>1. account' = account /\ Goto(r, "user")
      <4>1. ASSUME NEW c, Begin(r, c, "user") PROVE account' = account /\ Goto(r, "user")
        BY <4>1 DEF Begin
      <4>2. QED  BY <2>3, <4>1, Zenon DEF ArriveAny, Arrive
    <3>2. pc'[r] # "write"
      BY <3>1 DEF Goto, AccessTypeOK
    <3>3. QED  BY <2>1, <3>1, <3>2
  <2>4. CASE \E q \in Reqs : LoginStep(q) /\ ~CreateAccount(q)
    BY <2>1, <2>4
       DEF LoginStep, CheckLock, RecordFailure, RecordSuccess, FindDevice, Announce,
           CreateSession, Step, Goto, Answer, AccessTypeOK
  <2>5. CASE RequestStep(r) /\ ~CountAdmins(r) /\ ~WriteStatus(r)
    <3>1. ReadUser(r) \/ ReadSession(r) \/ HandleUse(r) \/ FindSession(r)
             \/ RevokeSession(r) \/ RevokeDevice(r)
      BY <2>5 DEF RequestStep
    <3>2. CASE FindSession(r)
      BY <2>1, <3>2 DEF FindSession, Goto, Answer, AccessTypeOK
    <3>3. CASE ReadUser(r) \/ ReadSession(r)
      BY <2>1, <3>3 DEF ReadUser, ReadSession, Goto, Answer, AccessTypeOK
    <3>4. CASE HandleUse(r) \/ RevokeSession(r) \/ RevokeDevice(r)
      BY <2>1, <3>4 DEF HandleUse, RevokeSession, RevokeDevice, Goto, Answer, AccessTypeOK
    <3>5. QED  BY <3>1, <3>2, <3>3, <3>4
  <2>6. CASE (\E q \in Reqs : Throw(q)) \/ (\E u \in Users : LockExpires(u)) \/ LoseRedis
    BY <2>1, <2>6 DEF Throw, LockExpires, LoseRedis, Answer, Goto, AccessTypeOK
  <2>7. CASE UNCHANGED accessVars
    BY <2>1, <2>7 DEF accessVars
  <2>8. QED
    BY <2>2, <2>3, <2>4, <2>5, <2>6, <2>7, AccountsKeepCount, CountingKeepsCount
       DEF AccessNext, LoginStep, RequestStep
<1>3. CountHolds(r) => ActiveAdminRemains
  BY DEF CountHolds
<1>4. QED
  BY <1>1, <1>2, <1>3, AccessTypesHold, PTL DEF AccessSpec
=============================================================================
