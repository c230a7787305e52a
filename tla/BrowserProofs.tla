---------------------------- MODULE BrowserProofs ----------------------------
(***************************************************************************)
(* The cooldowns of a tab, the pages that load, the locks of forms and the *)
(* lists that are read a page at a time, for any number of requests,       *)
(* answers, submissions and rows and any limits, windows and sizes of a    *)
(* page.                                                                   *)
(***************************************************************************)
EXTENDS Browser, FiniteSetTheorems, TLAPS

\* Cooldowns --------------------------------------------------------------

CallRecords ==
    [state : {"idle", "server", "served", "refused"}, kind : Requests,
     by : Limiters \cup {"none"}, ends : Nat, retry : Nat, knew : SUBSET Windows]

(***************************************************************************)
(* What the tab knew when it sent a request is over; and an answer that is *)
(* on its way carries the rest of its window, which is a later one.        *)
(***************************************************************************)
CallInv(q) ==
    /\ \A w \in request[q].knew : w.ends <= now
    /\ request[q].state = "refused" =>
          /\ request[q].by \in Limiters
          /\ now + request[q].retry * Second >= request[q].ends
          /\ \A w \in request[q].knew : w.ends < request[q].ends

CooldownTypes ==
    /\ now \in Nat
    /\ window \in [Limiters -> [hits : Nat, ends : Nat]]
    /\ until \in [Slots -> Nat]
    /\ told \subseteq Windows
    /\ request \in [Calls -> CallRecords]
    /\ scarce \in Scarce

(***************************************************************************)
(* The inductive invariant of Cooldowns.                                   *)
(***************************************************************************)
CooldownsInv ==
    /\ CooldownTypes
    /\ \A q \in Calls : CallInv(q)
    /\ CooldownCoversWindow

\* Whole seconds, rounded up, are never too few.
LEMMA SecondsSuffice ==
    ASSUME NEW t \in Nat
    PROVE  AtLeastOne(Seconds(t)) \in Nat \ {0} /\ AtLeastOne(Seconds(t)) * Second >= t
<1> DEFINE S == Second
           x == t + S - 1
           y == x \div S
<1>1. S \in Nat \ {0} /\ x \in Nat
  BY CooldownsAssumption
<1>2. x = S * y + (x % S) /\ x % S \in 0 .. S - 1 /\ y \in Int
  BY <1>1
<1>3. y * S >= t /\ y >= 0
  BY <1>1, <1>2
<1>4. Seconds(t) = y
  BY DEF Seconds
<1> HIDE DEF y
<1>5. CASE y >= 1
  BY <1>2, <1>3, <1>4, <1>5 DEF AtLeastOne
<1>6. CASE y < 1
  <2>1. y = 0
    BY <1>2, <1>3, <1>6
  <2>2. t = 0
    BY <1>1, <1>3, <2>1
  <2>3. AtLeastOne(Seconds(t)) = 1
    BY <1>4, <2>1 DEF AtLeastOne
  <2>4. QED  BY <1>1, <2>2, <2>3
<1>7. QED  BY <1>2, <1>5, <1>6

LEMMA CooldownsBegin == CooldownsInit => CooldownsInv
<1> SUFFICES ASSUME CooldownsInit PROVE CooldownsInv
  OBVIOUS
<1>1. NoRequest \in CallRecords /\ NoRequest.knew = {} /\ NoRequest.state = "idle"
  BY DEF NoRequest, CallRecords, Requests
<1>2. NoWindow \in [hits : Nat, ends : Nat]
  BY DEF NoWindow
<1>3. request \in [Calls -> CallRecords]
  BY <1>1 DEF CooldownsInit
<1>4. window \in [Limiters -> [hits : Nat, ends : Nat]]
  BY <1>2 DEF CooldownsInit
<1>5. QED
  BY <1>1, <1>3, <1>4
  DEF CooldownsInit, CooldownsInv, CooldownTypes, CallInv, CooldownCoversWindow

(***************************************************************************)
(* A request that goes its way, without an answer that tells the tab more: *)
(* r is what becomes of it.                                                *)
(***************************************************************************)
LEMMA CallMoves ==
    ASSUME CooldownsInv, NEW q \in Calls, NEW r \in CallRecords,
           request' = [request EXCEPT ![q] = r],
           \A w \in r.knew : w.ends <= now,
           r.state = "refused" => /\ r.by \in Limiters
                                  /\ now + r.retry * Second >= r.ends
                                  /\ \A w \in r.knew : w.ends < r.ends,
           now' = now
    PROVE  request' \in [Calls -> CallRecords] /\ \A p \in Calls : CallInv(p)'
<1>1. /\ request' \in [Calls -> CallRecords] /\ request'[q] = r
      /\ \A p \in Calls \ {q} : request'[p] = request[p]
  BY DEF CooldownsInv, CooldownTypes
<1>2. CallInv(q)'
  BY <1>1 DEF CallInv
<1>3. ASSUME NEW p \in Calls \ {q} PROVE CallInv(p)'
  BY <1>1 DEF CallInv, CooldownsInv
<1>4. QED  BY <1>1, <1>2, <1>3

LEMMA HitIsWindow ==
    ASSUME CooldownTypes, NEW l \in Limiters
    PROVE  Hit(l) \in [hits : Nat, ends : Nat]
<1>1. window[l] \in [hits : Nat, ends : Nat] /\ Ttl[l] \in Nat /\ now \in Nat
  BY CooldownsAssumption DEF CooldownTypes
<1>2. /\ [hits |-> 1, ends |-> now + Ttl[l]] \in [hits : Nat, ends : Nat]
      /\ [window[l] EXCEPT !.hits = @ + 1] \in [hits : Nat, ends : Nat]
  BY <1>1
<1>3. QED  BY <1>1, <1>2 DEF Hit

LEMMA SendKeepsInv ==
    ASSUME CooldownsInv, NEW q \in Calls, NEW kind \in Requests, Send(q, kind)
    PROVE  CooldownsInv'
<1> DEFINE knew == {w \in told : w.slot \in Checked(kind)}
           r == [NoRequest EXCEPT !.state = "server", !.kind = kind, !.knew = knew]
<1>1. \A w \in knew : w.ends <= now
  <2>1. SUFFICES ASSUME NEW w \in told, w.slot \in Checked(kind) PROVE w.ends <= now
    OBVIOUS
  <2>2. w.slot \in Slots /\ w.ends \in Nat
    BY DEF CooldownsInv, CooldownTypes, Windows
  <2>3. until[w.slot] <= now /\ until[w.slot] \in Nat /\ now \in Nat
    BY <2>1, <2>2 DEF Send, CooldownsInv, CooldownTypes
  <2>4. w.ends > now => until[w.slot] >= w.ends
    BY <2>1 DEF CooldownsInv, CooldownCoversWindow
  <2>5. QED  BY <2>2, <2>3, <2>4
<1>2. knew \in SUBSET Windows
  BY DEF CooldownsInv, CooldownTypes
<1>3. r \in CallRecords /\ r.knew = knew /\ r.state = "server"
  BY <1>2 DEF NoRequest, CallRecords
<1>4. /\ request' = [request EXCEPT ![q] = r]
      /\ UNCHANGED <<now, window, until, told, scarce>>
  BY DEF Send
<1> HIDE DEF knew, r
<1>5. request' \in [Calls -> CallRecords] /\ \A p \in Calls : CallInv(p)'
  BY <1>1, <1>3, <1>4, CallMoves
<1>6. CooldownCoversWindow'
  BY <1>4 DEF CooldownsInv, CooldownCoversWindow
<1>7. CooldownTypes'
  BY <1>4, <1>5 DEF CooldownsInv, CooldownTypes
<1>8. QED  BY <1>5, <1>6, <1>7 DEF CooldownsInv

LEMMA OthersKeepInv ==
    ASSUME CooldownsInv, NEW l \in Limiters, Others(l)
    PROVE  CooldownsInv'
<1>1. window' = [window EXCEPT ![l] = Hit(l)] /\ UNCHANGED <<now, until, told, request, scarce>>
  BY DEF Others
<1>2. window' \in [Limiters -> [hits : Nat, ends : Nat]]
  BY <1>1, HitIsWindow DEF CooldownsInv, CooldownTypes
<1>3. CooldownTypes'
  BY <1>1, <1>2 DEF CooldownsInv, CooldownTypes
<1>4. QED
  BY <1>1, <1>3 DEF CooldownsInv, CallInv, CooldownCoversWindow

LEMMA ServeKeepsInv ==
    ASSUME CooldownsInv, NEW q \in Calls, Serve(q)
    PROVE  CooldownsInv'
<1>1. /\ request[q] \in CallRecords /\ request[q].state = "server"
      /\ UNCHANGED <<now, until, told, scarce>> /\ now \in Nat
      /\ \A w \in request[q].knew : w.ends <= now
  BY DEF Serve, CooldownsInv, CooldownTypes, CallInv
<1>2. ASSUME request' \in [Calls -> CallRecords], \A p \in Calls : CallInv(p)',
             window' \in [Limiters -> [hits : Nat, ends : Nat]]
      PROVE  CooldownsInv'
  BY <1>1, <1>2 DEF CooldownsInv, CooldownTypes, CooldownCoversWindow
<1>3. ASSUME NEW S, window' = [l \in Limiters |-> IF l \in S THEN Hit(l) ELSE window[l]]
      PROVE  window' \in [Limiters -> [hits : Nat, ends : Nat]]
  BY <1>3, HitIsWindow DEF CooldownsInv, CooldownTypes
<1>4. ASSUME NEW S, window' = [l \in Limiters |-> IF l \in S THEN Hit(l) ELSE window[l]],
             request' = [request EXCEPT ![q].state = "served"]
      PROVE  CooldownsInv'
  <2> DEFINE r == [request[q] EXCEPT !.state = "served"]
  <2>1. r \in CallRecords /\ r.state = "served" /\ r.knew = request[q].knew
    BY <1>1 DEF CallRecords
  <2>2. request' = [request EXCEPT ![q] = r]
    BY <1>4
  <2> HIDE DEF r
  <2>3. request' \in [Calls -> CallRecords] /\ \A p \in Calls : CallInv(p)'
    BY <1>1, <2>1, <2>2, CallMoves
  <2>4. QED  BY <1>2, <1>3, <1>4, <2>3
<1>5. ASSUME NEW S, NEW l \in Limiters, Full(l),
             window' = [k \in Limiters |-> IF k \in S THEN Hit(k) ELSE window[k]],
             request' = [request EXCEPT
                 ![q].state = "refused", ![q].by = l, ![q].ends = window[l].ends,
                 ![q].retry = AtLeastOne(Seconds(window[l].ends - now))]
      PROVE  CooldownsInv'
  <2> DEFINE retry == AtLeastOne(Seconds(window[l].ends - now))
             r == [request[q] EXCEPT !.state = "refused", !.by = l, !.ends = window[l].ends,
                                     !.retry = retry]
  <2>1. window[l].ends \in Nat /\ window[l].ends > now
    BY <1>5 DEF Full, CooldownsInv, CooldownTypes
  <2>2. window[l].ends - now \in Nat
    BY <1>1, <2>1
  <2>3. retry \in Nat \ {0} /\ retry * Second >= window[l].ends - now
    BY <2>2, SecondsSuffice
  <2>4. retry * Second \in Int
    BY <2>3, CooldownsAssumption
  <2> HIDE DEF retry
  <2>5. now + retry * Second >= window[l].ends
    BY <1>1, <2>1, <2>3, <2>4
  <2>6. /\ r \in CallRecords /\ r.state = "refused" /\ r.knew = request[q].knew /\ r.by = l
        /\ r.ends = window[l].ends /\ r.retry = retry
    BY <1>1, <2>1, <2>3 DEF CallRecords
  <2>7. request' = [request EXCEPT ![q] = r]
    BY <1>5 DEF retry
  <2>8. \A w \in request[q].knew : w.ends < window[l].ends
    <3>1. \A w \in request[q].knew : w.ends \in Nat
      BY <1>1 DEF CallRecords, Windows
    <3>2. QED  BY <1>1, <2>1, <3>1
  <2> HIDE DEF r
  <2>9. /\ \A w \in r.knew : w.ends <= now
        /\ r.state = "refused" => /\ r.by \in Limiters
                                  /\ now + r.retry * Second >= r.ends
                                  /\ \A w \in r.knew : w.ends < r.ends
    BY <1>1, <2>5, <2>6, <2>8
  <2>10. request' \in [Calls -> CallRecords] /\ \A p \in Calls : CallInv(p)'
    BY <1>1, <2>6, <2>7, <2>9, CallMoves
  <2>11. QED  BY <1>2, <1>3, <1>5, <2>10
<1>6. ASSUME NEW auth \in BOOLEAN
      PROVE  Applies(request[q].kind, auth) \in Seq(Limiters)
  <2>1. request[q].kind \in Requests
    BY <1>1 DEF CallRecords
  <2>2. \A l, m, n, o \in Limiters : /\ << >> \in Seq(Limiters) /\ <<l>> \in Seq(Limiters)
                                    /\ <<l, m>> \in Seq(Limiters)
                                    /\ <<l, m, n>> \in Seq(Limiters)
    OBVIOUS
  <2>3. \A k, l \in Seq(Limiters) : k \o l \in Seq(Limiters)
    OBVIOUS
  <2>4. {"user", "login", "lockout", "burst", "deposit", "payments"} \subseteq Limiters
    BY DEF Limiters
  <2>5. CASE request[q].kind = "login"
    BY <2>2, <2>3, <2>4, <2>5 DEF Applies
  <2>6. CASE request[q].kind = "logout"
    BY <2>2, <2>3, <2>4, <2>6 DEF Applies
  <2>7. CASE request[q].kind = "deposit"
    BY <2>2, <2>3, <2>4, <2>7 DEF Applies
  <2>8. CASE request[q].kind = "read"
    BY <2>2, <2>4, <2>8 DEF Applies
  <2>9. QED  BY <2>1, <2>5, <2>6, <2>7, <2>8 DEF Requests
<1>7. QED
  <2>1. PICK auth \in BOOLEAN :
          LET limiters == Applies(request[q].kind, auth)
              full == {i \in DOMAIN limiters : Full(limiters[i])}
              counts(n) == {limiters[i] : i \in 1 .. n} \cap (scarce \ {"lockout"})
          IN  \/ /\ full = {}
                 /\ window' = [l \in Limiters |->
                        IF l \in counts(Len(limiters)) THEN Hit(l) ELSE window[l]]
                 /\ request' = [request EXCEPT ![q].state = "served"]
              \/ \E i \in full :
                    LET l == limiters[i] IN
                    /\ \A j \in full : i <= j
                    /\ window' = [k \in Limiters |->
                           IF k \in counts(i) THEN Hit(k) ELSE window[k]]
                    /\ request' = [request EXCEPT
                           ![q].state = "refused", ![q].by = l, ![q].ends = window[l].ends,
                           ![q].retry = AtLeastOne(Seconds(window[l].ends - now))]
    BY DEF Serve
  <2> DEFINE limiters == Applies(request[q].kind, auth)
             counts(n) == {limiters[i] : i \in 1 .. n} \cap (scarce \ {"lockout"})
  <2>2. limiters \in Seq(Limiters)
    BY <1>6
  <2> HIDE DEF limiters
  <2>3. CASE /\ window' = [l \in Limiters |->
                    IF l \in counts(Len(limiters)) THEN Hit(l) ELSE window[l]]
             /\ request' = [request EXCEPT ![q].state = "served"]
    BY <1>4, <2>3
  <2>4. ASSUME NEW i \in DOMAIN limiters, Full(limiters[i]),
               window' = [k \in Limiters |-> IF k \in counts(i) THEN Hit(k) ELSE window[k]],
               request' = [request EXCEPT
                   ![q].state = "refused", ![q].by = limiters[i],
                   ![q].ends = window[limiters[i]].ends,
                   ![q].retry = AtLeastOne(Seconds(window[limiters[i]].ends - now))]
        PROVE  CooldownsInv'
    <3>1. limiters[i] \in Limiters
      BY <2>2
    <3>2. QED  BY <1>5, <2>4, <3>1
  <2>5. QED  BY <2>1, <2>3, <2>4 DEF limiters

LEMMA UncountedKeepsInv ==
    ASSUME CooldownsInv, NEW q \in Calls, ServeUncounted(q)
    PROVE  CooldownsInv'
<1> DEFINE r == [request[q] EXCEPT !.state = "served"]
<1>1. /\ request[q] \in CallRecords /\ \A w \in request[q].knew : w.ends <= now
      /\ request' = [request EXCEPT ![q] = r] /\ UNCHANGED <<now, window, until, told, scarce>>
  BY DEF ServeUncounted, CooldownsInv, CooldownTypes, CallInv
<1>2. r \in CallRecords /\ r.state = "served" /\ r.knew = request[q].knew
  BY <1>1 DEF CallRecords
<1> HIDE DEF r
<1>3. request' \in [Calls -> CallRecords] /\ \A p \in Calls : CallInv(p)'
  BY <1>1, <1>2, CallMoves
<1>4. QED
  BY <1>1, <1>3 DEF CooldownsInv, CooldownTypes, CooldownCoversWindow

(***************************************************************************)
(* A request that is over.                                                 *)
(***************************************************************************)
LEMMA CallEnds ==
    ASSUME CooldownsInv, NEW q \in Calls, request' = [request EXCEPT ![q] = NoRequest], now' = now
    PROVE  request' \in [Calls -> CallRecords] /\ \A p \in Calls : CallInv(p)'
<1>1. NoRequest \in CallRecords /\ NoRequest.knew = {} /\ NoRequest.state = "idle"
  BY DEF NoRequest, CallRecords, Requests
<1>2. QED  BY <1>1, CallMoves

LEMMA RefusalKeepsInv ==
    ASSUME CooldownsInv, NEW q \in Calls, ReceiveRefusal(q)
    PROVE  CooldownsInv'
<1> DEFINE r == request[q]
           s == Slot(r.by, r.kind)
           end == now + AtLeastOne(r.retry) * Second
           w == [slot |-> s, limiter |-> r.by, ends |-> r.ends]
<1>1. /\ r \in CallRecords /\ r.by \in Limiters /\ now + r.retry * Second >= r.ends
      /\ until' = [until EXCEPT ![s] = Cooldown(s, end)] /\ told' = told \cup {w}
      /\ request' = [request EXCEPT ![q] = NoRequest] /\ UNCHANGED <<now, window, scarce>>
  BY DEF ReceiveRefusal, CooldownsInv, CooldownTypes, CallInv
<1>2. s \in Slots
  BY DEF Slot, Slots
<1>3. /\ r.retry \in Nat /\ r.ends \in Nat /\ now \in Nat /\ Second \in Nat
      /\ until \in [Slots -> Nat] /\ told \subseteq Windows /\ until[s] \in Nat
  BY <1>1, <1>2, CooldownsAssumption DEF CallRecords, CooldownsInv, CooldownTypes
<1>4. end \in Nat /\ end >= r.ends
  <2>1. CASE r.retry < 1
    <3>1. r.retry = 0
      BY <1>3, <2>1
    <3>2. r.retry * Second = 0 /\ AtLeastOne(r.retry) * Second \in Nat
      BY <1>3, <3>1 DEF AtLeastOne
    <3> HIDE DEF r
    <3>3. QED  BY <1>1, <1>3, <3>2
  <2>2. CASE ~(r.retry < 1)
    <3>1. AtLeastOne(r.retry) = r.retry /\ r.retry * Second \in Nat
      BY <1>3, <2>2 DEF AtLeastOne
    <3>2. QED  BY <1>1, <1>3, <3>1
  <2>3. QED  BY <2>1, <2>2
<1>5. w \in Windows /\ w.slot = s /\ w.ends = r.ends
  BY <1>1, <1>2, <1>3 DEF Windows
<1> HIDE DEF r, s, end, w
<1>6. Cooldown(s, end) \in Nat /\ Cooldown(s, end) >= end
      /\ (until[s] > now => Cooldown(s, end) >= until[s])
  BY <1>3, <1>4 DEF Cooldown
<1>7. /\ until' \in [Slots -> Nat] /\ until'[s] = Cooldown(s, end)
      /\ \A t \in Slots \ {s} : until'[t] = until[t]
  BY <1>1, <1>2, <1>3, <1>6
<1>8. CooldownCoversWindow'
  <2>1. SUFFICES ASSUME NEW v \in told \cup {w}, v.ends > now PROVE until'[v.slot] >= v.ends
    BY <1>1 DEF CooldownCoversWindow
  <2>2. v.slot \in Slots /\ v.ends \in Nat
    BY <1>3, <1>5 DEF Windows
  <2>3. CASE v = w
    BY <1>3, <1>4, <1>5, <1>6, <1>7, <2>3
  <2>4. CASE v \in told
    <3>1. until[v.slot] >= v.ends
      BY <2>1, <2>4 DEF CooldownsInv, CooldownCoversWindow
    <3>2. CASE v.slot = s
      <4>1. until[s] > now
        BY <1>3, <2>1, <2>2, <3>1, <3>2
      <4>2. Cooldown(s, end) >= until[s]
        BY <1>6, <4>1
      <4>3. QED  BY <1>3, <1>6, <1>7, <2>2, <3>1, <3>2, <4>2
    <3>3. CASE v.slot # s
      BY <1>7, <2>2, <3>1, <3>3
    <3>4. QED  BY <3>2, <3>3
  <2>5. QED  BY <2>1, <2>3, <2>4
<1>9. request' \in [Calls -> CallRecords] /\ \A p \in Calls : CallInv(p)'
  BY <1>1, CallEnds
<1>10. CooldownTypes'
  BY <1>1, <1>3, <1>5, <1>7, <1>9 DEF CooldownsInv, CooldownTypes
<1>11. QED  BY <1>8, <1>9, <1>10 DEF CooldownsInv

LEMMA OkKeepsInv ==
    ASSUME CooldownsInv, NEW q \in Calls, ReceiveOk(q)
    PROVE  CooldownsInv'
<1>1. PICK cleared :
          /\ until' = [s \in Slots |-> IF s \in cleared THEN 0 ELSE until[s]]
          /\ told' = {w \in told : w.slot \notin cleared}
          /\ request' = [request EXCEPT ![q] = NoRequest] /\ UNCHANGED <<now, window, scarce>>
  BY DEF ReceiveOk
<1>2. request' \in [Calls -> CallRecords] /\ \A p \in Calls : CallInv(p)'
  BY <1>1, CallEnds
<1>3. until' \in [Slots -> Nat] /\ told' \subseteq Windows
  BY <1>1 DEF CooldownsInv, CooldownTypes
<1>4. CooldownCoversWindow'
  <2>1. SUFFICES ASSUME NEW w \in told, w.slot \notin cleared, w.ends > now
                 PROVE  until'[w.slot] >= w.ends
    BY <1>1 DEF CooldownCoversWindow
  <2>2. w.slot \in Slots
    BY DEF CooldownsInv, CooldownTypes, Windows
  <2>3. until'[w.slot] = until[w.slot]
    BY <1>1, <2>1, <2>2
  <2>4. QED  BY <2>1, <2>3 DEF CooldownsInv, CooldownCoversWindow
<1>5. QED  BY <1>1, <1>2, <1>3, <1>4 DEF CooldownsInv, CooldownTypes

LEMMA FailureKeepsInv ==
    ASSUME CooldownsInv, NEW q \in Calls, ReceiveFailure(q)
    PROVE  CooldownsInv'
<1>1. request' = [request EXCEPT ![q] = NoRequest] /\ UNCHANGED <<now, window, until, told, scarce>>
  BY DEF ReceiveFailure
<1>2. request' \in [Calls -> CallRecords] /\ \A p \in Calls : CallInv(p)'
  BY <1>1, CallEnds
<1>3. QED
  BY <1>1, <1>2 DEF CooldownsInv, CooldownTypes, CooldownCoversWindow

(***************************************************************************)
(* Cooldowns that are over are forgotten, and no other.                    *)
(***************************************************************************)
LEMMA ForgettingKeepsCover ==
    ASSUME CooldownsInv, until' \in [Slots -> Nat], UNCHANGED <<now, told>>,
           \A s \in Slots : until[s] > now => until'[s] = until[s]
    PROVE  CooldownCoversWindow'
<1>1. SUFFICES ASSUME NEW w \in told, w.ends > now PROVE until'[w.slot] >= w.ends
  BY DEF CooldownCoversWindow
<1>2. /\ w.slot \in Slots /\ w.ends \in Nat /\ now \in Nat /\ until[w.slot] \in Nat
      /\ until[w.slot] >= w.ends
  BY <1>1 DEF CooldownsInv, CooldownTypes, Windows, CooldownCoversWindow
<1>3. until[w.slot] > now
  BY <1>1, <1>2
<1>4. QED  BY <1>2, <1>3

LEMMA ExpireKeepsInv ==
    ASSUME CooldownsInv, NEW s \in Slots, Expire(s)
    PROVE  CooldownsInv'
<1>1. /\ until[s] <= now /\ until' = [until EXCEPT ![s] = 0]
      /\ UNCHANGED <<now, window, told, request, scarce>>
      /\ until \in [Slots -> Nat] /\ now \in Nat
  BY DEF Expire, CooldownsInv, CooldownTypes
<1>2. until' \in [Slots -> Nat]
  BY <1>1
<1>3. \A t \in Slots : until[t] > now => until'[t] = until[t]
  BY <1>1
<1>4. CooldownCoversWindow'
  BY <1>1, <1>2, <1>3, ForgettingKeepsCover
<1>5. \A p \in Calls : CallInv(p)'
  BY <1>1 DEF CooldownsInv, CallInv
<1>6. QED  BY <1>1, <1>2, <1>4, <1>5 DEF CooldownsInv, CooldownTypes

LEMMA ReloadKeepsInv ==
    ASSUME CooldownsInv, Reload
    PROVE  CooldownsInv'
<1>1. /\ until' = [s \in Slots |-> IF until[s] > now THEN until[s] ELSE 0]
      /\ request' = [q \in Calls |-> NoRequest] /\ UNCHANGED <<now, window, told, scarce>>
  BY DEF Reload
<1>2. until' \in [Slots -> Nat] /\ \A s \in Slots : until[s] > now => until'[s] = until[s]
  BY <1>1 DEF CooldownsInv, CooldownTypes
<1>3. CooldownCoversWindow'
  BY <1>1, <1>2, ForgettingKeepsCover
<1>4. NoRequest \in CallRecords /\ NoRequest.knew = {} /\ NoRequest.state = "idle"
  BY DEF NoRequest, CallRecords, Requests
<1>5. request' \in [Calls -> CallRecords] /\ \A p \in Calls : CallInv(p)'
  BY <1>1, <1>4 DEF CallInv
<1>6. QED  BY <1>1, <1>2, <1>3, <1>5 DEF CooldownsInv, CooldownTypes

LEMMA TickKeepsInv ==
    ASSUME CooldownsInv, Tick
    PROVE  CooldownsInv'
<1>1. /\ now \in Nat /\ now' = now + 1
      /\ window' = [l \in Limiters |-> IF window[l].ends <= now' THEN NoWindow ELSE window[l]]
      /\ told' = {w \in told : w.ends > now'} /\ UNCHANGED <<until, request, scarce>>
  BY DEF Tick, CooldownsInv, CooldownTypes
<1>2. window' \in [Limiters -> [hits : Nat, ends : Nat]]
  <2>1. NoWindow \in [hits : Nat, ends : Nat]
    BY DEF NoWindow
  <2>2. QED  BY <1>1, <2>1 DEF CooldownsInv, CooldownTypes
<1>3. CooldownCoversWindow'
  <2>1. SUFFICES ASSUME NEW w \in told, w.ends > now' PROVE until[w.slot] >= w.ends
    BY <1>1 DEF CooldownCoversWindow
  <2>2. w.ends \in Nat
    BY DEF CooldownsInv, CooldownTypes, Windows
  <2>3. w.ends > now
    BY <1>1, <2>1, <2>2
  <2>4. QED  BY <2>3 DEF CooldownsInv, CooldownCoversWindow
<1>4. ASSUME NEW q \in Calls PROVE CallInv(q)'
  <2>1. /\ request[q].ends \in Nat /\ request[q].retry \in Nat /\ Second \in Nat
        /\ \A w \in request[q].knew : w.ends \in Nat
    BY CooldownsAssumption DEF CooldownsInv, CooldownTypes, CallRecords, Windows
  <2>2. request[q].retry * Second \in Nat
    BY <2>1
  <2>3. \A w \in request[q].knew : w.ends <= now'
    BY <1>1, <2>1 DEF CooldownsInv, CallInv
  <2>4. request[q].state = "refused" => now' + request[q].retry * Second >= request[q].ends
    BY <1>1, <2>1, <2>2 DEF CooldownsInv, CallInv
  <2>5. QED  BY <1>1, <2>3, <2>4 DEF CooldownsInv, CallInv
<1>5. CooldownTypes'
  BY <1>1, <1>2 DEF CooldownsInv, CooldownTypes
<1>6. QED  BY <1>3, <1>4, <1>5 DEF CooldownsInv

LEMMA CooldownsStep ==
    ASSUME CooldownsInv, CooldownsNext \/ UNCHANGED cooldownVars
    PROVE  CooldownsInv'
<1>1. ASSUME NEW q \in Calls, NEW kind \in Requests, Send(q, kind) PROVE CooldownsInv'
  BY <1>1, SendKeepsInv
<1>2. ASSUME NEW q \in Calls,
             \/ Serve(q) \/ ServeUncounted(q)
             \/ ReceiveRefusal(q) \/ ReceiveOk(q) \/ ReceiveFailure(q)
      PROVE  CooldownsInv'
  BY <1>2, ServeKeepsInv, UncountedKeepsInv, RefusalKeepsInv, OkKeepsInv, FailureKeepsInv
<1>3. ASSUME NEW l \in scarce, Others(l) PROVE CooldownsInv'
  <2>1. l \in Limiters
    BY CooldownsAssumption DEF CooldownsInv, CooldownTypes
  <2>2. QED  BY <1>3, <2>1, OthersKeepInv
<1>4. ASSUME NEW s \in Slots, Expire(s) PROVE CooldownsInv'
  BY <1>4, ExpireKeepsInv
<1>5. CASE Reload
  BY <1>5, ReloadKeepsInv
<1>6. CASE Tick
  BY <1>6, TickKeepsInv
<1>7. CASE UNCHANGED cooldownVars
  BY <1>7 DEF cooldownVars, CooldownsInv, CooldownTypes, CallInv, CooldownCoversWindow
<1>8. QED
  BY <1>1, <1>2, <1>3, <1>4, <1>5, <1>6, <1>7 DEF CooldownsNext

\* Forms ------------------------------------------------------------------

TryStates == {"none", "check", "server", "late", "done", "refused", "did", "over"}
AskedStates == {"check", "server", "late", "done", "did"}
TryingStates == {"check", "server", "done", "refused"}

FormTypes ==
    /\ form \in AllForms
    /\ locked \in BOOLEAN
    /\ visit \in Nat \ {0}
    /\ DOMAIN try = Tries
    /\ \A r \in Tries :
          /\ try[r].at \in TryStates
          /\ try[r] = [at |-> try[r].at, left |-> try[r].left, visit |-> try[r].visit]
    /\ excuses \in Nat

\* A form that is opened anew has sent nothing.
NoneIsAhead == \A r \in Tries : try[r].visit \in Nat /\ try[r].visit <= visit

(***************************************************************************)
(* A lock is an excuse that has not been used up yet.                      *)
(***************************************************************************)
ExcusesSuffice ==
    ~form.releases => Cardinality(Asked) <= excuses + (IF locked THEN 1 ELSE 0)

LockHolds ==
    ~form.unlocks => /\ \A q, r \in Trying : q = r
                     /\ Trying # {} => locked

(***************************************************************************)
(* The inductive invariant of Forms.                                       *)
(***************************************************************************)
FormsInv == FormTypes /\ NoneIsAhead /\ ExcusesSuffice /\ LockHolds

LEMMA FormShapes ==
    ASSUME NEW f \in AllForms
    PROVE  f.releases \in BOOLEAN /\ f.unlocks \in BOOLEAN
  BY DEF AllForms, WithdrawForm, ConfirmContent, DepositForm, ScheduledPaymentForm,
         CreateGoalForm, CreateEnvelopeForm, DestinationForm, LoginPage, RegisterPage, Form

LEMMA AskedIsFinite ==
    /\ IsFiniteSet(Asked) /\ Cardinality(Asked) \in Nat
    /\ IsFiniteSet(Asked') /\ Cardinality(Asked') \in Nat
<1>1. Asked \subseteq Tries /\ Asked' \subseteq Tries
  BY DEF Asked
<1>2. QED  BY <1>1, FormsAssumption, FS_Subset, FS_CardinalityType

LEMMA FormsBegin == FormsInit => FormsInv
<1> SUFFICES ASSUME FormsInit PROVE FormsInv
  OBVIOUS
<1>1. FormTypes /\ NoneIsAhead
  <2>1. \A r \in Tries : try[r] = Idle
    BY DEF FormsInit
  <2>2. Idle.at \in TryStates /\ Idle.visit \in Nat /\ Idle.visit <= 1
        /\ Idle = [at |-> Idle.at, left |-> Idle.left, visit |-> Idle.visit]
    BY DEF Idle, TryStates
  <2>3. DOMAIN try = Tries
    BY DEF FormsInit
  <2>4. visit = 1 /\ form \in AllForms /\ locked = FALSE /\ excuses = 0
    BY DEF FormsInit
  <2> HIDE DEF Idle
  <2>5. NoneIsAhead
    BY <2>1, <2>2, <2>4 DEF NoneIsAhead
  <2>6. FormTypes
    <3>1. \A r \in Tries :
              /\ try[r].at \in TryStates
              /\ try[r] = [at |-> try[r].at, left |-> try[r].left, visit |-> try[r].visit]
      BY <2>1, <2>2
    <3>2. visit \in Nat \ {0} /\ excuses \in Nat
      BY <2>4
    <3>3. locked \in BOOLEAN
      BY <2>4
    <3>4. QED  BY <2>3, <2>4, <3>1, <3>2, <3>3 DEF FormTypes
  <2>7. QED  BY <2>5, <2>6
<1>2. Asked = {} /\ Trying = {}
  BY DEF FormsInit, Asked, Trying, Idle
<1>3. Cardinality({}) = 0
  BY FS_EmptySet
<1>4. QED
  BY <1>1, <1>2, <1>3 DEF FormsInit, FormsInv, ExcusesSuffice, LockHolds

(***************************************************************************)
(* One submission goes on, to the state s.                                 *)
(***************************************************************************)
LEMMA TryMoves ==
    ASSUME FormsInv, NEW r \in Tries, NEW s \in TryStates, NEW n, NEW v \in 0 .. visit,
           try' = [try EXCEPT ![r] = [at |-> s, left |-> n, visit |-> v]],
           UNCHANGED <<form, visit>>, locked' \in BOOLEAN, excuses' \in Nat
    PROVE  /\ FormTypes' /\ NoneIsAhead'
           /\ Asked' = IF v = visit /\ s \in AskedStates THEN Asked \cup {r} ELSE Asked \ {r}
           /\ Trying' = IF v = visit /\ s \in TryingStates
                        THEN Trying \cup {r} ELSE Trying \ {r}
<1>1. /\ DOMAIN try' = Tries /\ try'[r] = [at |-> s, left |-> n, visit |-> v]
      /\ \A q \in Tries \ {r} : try'[q] = try[q]
  BY DEF FormsInv, FormTypes
<1>2. try'[r].at = s /\ try'[r].left = n /\ try'[r].visit = v
  BY <1>1
<1>3. FormTypes'
  BY <1>1, <1>2 DEF FormsInv, FormTypes
<1>4. NoneIsAhead'
  BY <1>1, <1>2 DEF FormsInv, FormTypes, NoneIsAhead
<1>5. QED
  BY <1>1, <1>2, <1>3, <1>4 DEF Asked, Trying, AskedStates, TryingStates

\* The form's own state of a submission changes, and nothing else of it.
LEMMA AtMoves ==
    ASSUME FormsInv, NEW r \in Tries, NEW s
    PROVE  /\ [try EXCEPT ![r].at = s]
                 = [try EXCEPT ![r] = [at |-> s, left |-> try[r].left, visit |-> try[r].visit]]
           /\ try[r].visit \in 0 .. visit
<1>1. try[r] = [at |-> try[r].at, left |-> try[r].left, visit |-> try[r].visit]
  BY DEF FormsInv, FormTypes
<1>2. [try[r] EXCEPT !.at = s] = [at |-> s, left |-> try[r].left, visit |-> try[r].visit]
  BY <1>1
<1>3. try[r].visit \in 0 .. visit
  BY DEF FormsInv, FormTypes, NoneIsAhead
<1>4. QED  BY <1>2, <1>3

LEMMA MembersOfAsked ==
    ASSUME NEW r \in Tries
    PROVE  /\ r \in Asked <=> try[r].visit = visit /\ try[r].at \in AskedStates
           /\ r \in Trying <=> try[r].visit = visit /\ try[r].at \in TryingStates
  BY DEF Asked, Trying, AskedStates, TryingStates

(***************************************************************************)
(* What asking again, and being answered, does to the number of requests.  *)
(***************************************************************************)
LEMMA CountsOfAsked ==
    ASSUME NEW r \in Tries
    PROVE  /\ Asked' = Asked \cup {r} /\ r \notin Asked
                 => Cardinality(Asked') = Cardinality(Asked) + 1
           /\ Asked' = Asked \/ Asked' = Asked \ {r} => Cardinality(Asked') <= Cardinality(Asked)
<1>1. IsFiniteSet(Asked) /\ Cardinality(Asked) \in Nat
  BY AskedIsFinite
<1>2. r \notin Asked => Asked \ {r} = Asked
  OBVIOUS
<1>3. QED
  BY <1>1, <1>2, FS_AddElement, FS_RemoveElement

LEMMA SubmitKeepsInv ==
    ASSUME FormsInv, NEW r \in Tries, Submit(r)
    PROVE  FormsInv'
<1> DEFINE s == IF form.checks = 0 THEN "server" ELSE "check"
<1>1. /\ ~locked /\ locked' = TRUE
      /\ try' = [try EXCEPT ![r] = [at |-> s, left |-> form.checks, visit |-> visit]]
      /\ UNCHANGED <<form, visit, excuses>> /\ s \in {"server", "check"}
  BY DEF Submit
<1>2. try[r].at = "none"
  BY FormsAssumption DEF Submit
<1> HIDE DEF s
<1>3. FormTypes' /\ NoneIsAhead' /\ Asked' = Asked \cup {r} /\ Trying' = Trying \cup {r}
  <2>1. s \in TryStates /\ s \in AskedStates /\ s \in TryingStates
    BY <1>1 DEF TryStates, AskedStates, TryingStates
  <2>2. visit \in 0 .. visit /\ locked' \in BOOLEAN /\ excuses' \in Nat
    BY <1>1 DEF FormsInv, FormTypes
  <2>3. QED  BY <1>1, <2>1, <2>2, TryMoves
<1>4. ExcusesSuffice'
  <2>1. r \notin Asked
    BY <1>2, MembersOfAsked DEF AskedStates
  <2>2. Cardinality(Asked') = Cardinality(Asked) + 1
    BY <1>3, <2>1, CountsOfAsked
  <2>3. QED
    BY <1>1, <2>2, AskedIsFinite DEF FormsInv, FormTypes, ExcusesSuffice
<1>5. LockHolds'
  BY <1>1, <1>3 DEF FormsInv, LockHolds
<1>6. QED  BY <1>3, <1>4, <1>5 DEF FormsInv

(***************************************************************************)
(* A submission is answered, or goes on, and the lock stays.               *)
(***************************************************************************)
LEMMA AnswerKeepsForms ==
    ASSUME FormsInv, NEW r \in Tries, NEW s \in TryStates, NEW n,
           try' = [try EXCEPT ![r] = [at |-> s, left |-> n, visit |-> try[r].visit]],
           UNCHANGED <<form, visit, locked, excuses>>,
           s \in AskedStates => try[r].at \in AskedStates,
           s \in TryingStates => try[r].at \in TryingStates
    PROVE  FormsInv'
<1>1. try[r].visit \in 0 .. visit
  BY AtMoves
<1>2. /\ FormTypes' /\ NoneIsAhead'
      /\ Asked' = IF try[r].visit = visit /\ s \in AskedStates THEN Asked \cup {r} ELSE Asked \ {r}
      /\ Trying' = IF try[r].visit = visit /\ s \in TryingStates
                   THEN Trying \cup {r} ELSE Trying \ {r}
  <2>1. locked' \in BOOLEAN /\ excuses' \in Nat
    BY DEF FormsInv, FormTypes
  <2>2. QED  BY <1>1, <2>1, TryMoves
<1>3. /\ Asked' = Asked \/ Asked' = Asked \ {r}
      /\ Trying' \subseteq Trying
  BY <1>2, MembersOfAsked
<1>4. Cardinality(Asked') <= Cardinality(Asked)
  BY <1>3, CountsOfAsked
<1>5. ExcusesSuffice'
  BY <1>4, AskedIsFinite DEF FormsInv, FormTypes, ExcusesSuffice
<1>6. LockHolds'
  BY <1>3 DEF FormsInv, LockHolds
<1>7. QED  BY <1>2, <1>5, <1>6 DEF FormsInv

LEMMA CheckPassesKeepsInv ==
    ASSUME FormsInv, NEW r \in Tries, CheckPasses(r)
    PROVE  FormsInv'
<1> DEFINE s == IF try[r].left = 1 THEN "server" ELSE "check"
<1>1. /\ try[r].at = "check" /\ UNCHANGED <<form, visit, locked, excuses>>
      /\ s \in {"server", "check"}
  BY DEF CheckPasses
<1>2. try' = [try EXCEPT ![r] = [at |-> s, left |-> try[r].left - 1, visit |-> try[r].visit]]
  <2>1. try[r] = [at |-> try[r].at, left |-> try[r].left, visit |-> try[r].visit]
    BY DEF FormsInv, FormTypes
  <2>2. try' = [try EXCEPT ![r] = [[try[r] EXCEPT !.at = s] EXCEPT !.left = @ - 1]]
    <3>1. try' = [try EXCEPT ![r].at = s, ![r].left = @ - 1]
      BY DEF CheckPasses
    <3> HIDE DEF s
    <3>2. DOMAIN try = Tries
      BY DEF FormsInv, FormTypes
    <3>3. QED  BY <3>1, <3>2
  <2>3. [[try[r] EXCEPT !.at = s] EXCEPT !.left = @ - 1]
            = [at |-> s, left |-> try[r].left - 1, visit |-> try[r].visit]
    <3> HIDE DEF s
    <3>1. [try[r] EXCEPT !.at = s] = [at |-> s, left |-> try[r].left, visit |-> try[r].visit]
      BY <2>1
    <3>2. [try[r] EXCEPT !.at = s].left = try[r].left
      BY <3>1
    <3>3. [[at |-> s, left |-> try[r].left, visit |-> try[r].visit] EXCEPT !.left = try[r].left - 1]
              = [at |-> s, left |-> try[r].left - 1, visit |-> try[r].visit]
      OBVIOUS
    <3>4. QED  BY <3>1, <3>2, <3>3
  <2>4. QED  BY <2>2, <2>3
<1> HIDE DEF s
<1>3. /\ s \in TryStates /\ try[r].at \in AskedStates /\ try[r].at \in TryingStates
  BY <1>1 DEF TryStates, AskedStates, TryingStates
<1>4. QED  BY <1>1, <1>2, <1>3, AnswerKeepsForms

LEMMA ServedKeepsInv ==
    ASSUME FormsInv, NEW r \in Tries, Served(r) \/ ServedLate(r)
    PROVE  FormsInv'
<1>1. PICK s \in {"done", "refused", "did", "over"} :
          /\ try' = [try EXCEPT ![r].at = s]
          /\ \/ try[r].at = "server" /\ s \in {"done", "refused"}
             \/ try[r].at = "late" /\ s \in {"did", "over"}
  BY DEF Served, ServedLate
<1>2. UNCHANGED <<form, visit, locked, excuses>>
  BY DEF Served, ServedLate
<1>3. try' = [try EXCEPT ![r] = [at |-> s, left |-> try[r].left, visit |-> try[r].visit]]
  BY <1>1, AtMoves
<1>4. /\ s \in TryStates /\ (s \in AskedStates => try[r].at \in AskedStates)
      /\ s \in TryingStates => try[r].at \in TryingStates
  BY <1>1 DEF TryStates, AskedStates, TryingStates
<1>5. QED  BY <1>2, <1>3, <1>4, AnswerKeepsForms

(***************************************************************************)
(* A submission is over for the form.  An error ends the lock of the form  *)
(* that is open if it was sent in this visit.                              *)
(***************************************************************************)
LEMMA EndKeepsForms ==
    ASSUME FormsInv, NEW r \in Tries, try[r].at \in TryingStates, try[r].visit = visit,
           NEW s \in {"late", "over", "did"},
           try' = [try EXCEPT ![r] = [at |-> s, left |-> try[r].left, visit |-> try[r].visit]],
           UNCHANGED <<form, visit>>,
           s \in AskedStates => try[r].at \in AskedStates,
           locked' \in BOOLEAN, excuses' \in Nat,
           ~form.releases => \/ locked' = locked /\ excuses' = excuses
                             \/ excuses' = excuses + 1
    PROVE  FormsInv'
<1>1. try[r].visit \in 0 .. visit /\ s \in TryStates /\ s \notin TryingStates
  BY AtMoves DEF TryStates, TryingStates
<1>2. /\ FormTypes' /\ NoneIsAhead'
      /\ Asked' = IF s \in AskedStates THEN Asked \cup {r} ELSE Asked \ {r}
      /\ Trying' = Trying \ {r}
  BY <1>1, TryMoves
<1>3. Asked' = Asked \/ Asked' = Asked \ {r}
  BY <1>2, MembersOfAsked
<1>4. Cardinality(Asked') <= Cardinality(Asked)
  BY <1>3, CountsOfAsked
<1>5. ExcusesSuffice'
  <2>1. excuses \in Nat /\ locked \in BOOLEAN
    BY DEF FormsInv, FormTypes
  <2>2. CASE locked' = locked /\ excuses' = excuses
    BY <1>4, <2>1, <2>2, AskedIsFinite DEF FormsInv, ExcusesSuffice
  <2>3. CASE excuses' = excuses + 1
    BY <1>4, <2>1, <2>3, AskedIsFinite DEF FormsInv, ExcusesSuffice
  <2>4. CASE form.releases
    BY <2>4 DEF ExcusesSuffice
  <2>5. QED  BY <2>2, <2>3, <2>4
<1>6. LockHolds'
  <2>1. r \in Trying
    BY MembersOfAsked
  <2>2. QED  BY <1>2, <2>1 DEF FormsInv, LockHolds
<1>7. QED  BY <1>2, <1>5, <1>6 DEF FormsInv

LEMMA FailsKeepsInv ==
    ASSUME FormsInv, NEW r \in Tries, CheckFails(r) \/ Fails(r)
    PROVE  FormsInv'
<1>1. PICK s \in {"late", "over", "did"} :
          /\ try' = [try EXCEPT ![r].at = s]
          /\ try[r].at \in TryingStates
          /\ s \in AskedStates => try[r].at \in AskedStates
  BY DEF CheckFails, Fails, AskedStates, TryingStates
<1>2. /\ locked' = (locked /\ try[r].visit # visit) /\ UNCHANGED <<form, visit>>
      /\ excuses' = IF try[r].visit = visit THEN excuses + 1 ELSE excuses
  BY DEF CheckFails, Fails, ShowError
<1>3. try' = [try EXCEPT ![r] = [at |-> s, left |-> try[r].left, visit |-> try[r].visit]]
  BY <1>1, AtMoves
<1>4. locked \in BOOLEAN /\ excuses \in Nat
  BY DEF FormsInv, FormTypes
<1>5. CASE try[r].visit = visit
  <2>1. locked' \in BOOLEAN /\ excuses' \in Nat /\ excuses' = excuses + 1
    BY <1>2, <1>4, <1>5
  <2>2. QED  BY <1>1, <1>2, <1>3, <1>5, <2>1, EndKeepsForms
<1>6. CASE try[r].visit # visit
  <2>1. locked' = locked /\ excuses' = excuses
    BY <1>2, <1>4, <1>6
  <2>2. s \in TryStates /\ s \notin TryingStates
    BY DEF TryStates, TryingStates
  <2>3. QED  BY <1>1, <1>2, <1>3, <2>1, <2>2, AnswerKeepsForms
<1>7. QED  BY <1>5, <1>6

LEMMA SucceedsKeepsInv ==
    ASSUME FormsInv, NEW r \in Tries, Succeeds(r)
    PROVE  FormsInv'
<1>1. /\ try[r].at = "done" /\ try' = [try EXCEPT ![r].at = "did"]
      /\ locked' = (locked /\ ~(form.releases /\ try[r].visit = visit))
      /\ UNCHANGED <<form, visit, excuses>>
  BY DEF Succeeds
<1>2. try' = [try EXCEPT ![r] = [at |-> "did", left |-> try[r].left, visit |-> try[r].visit]]
  BY <1>1, AtMoves
<1>3. locked \in BOOLEAN /\ excuses \in Nat /\ form.releases \in BOOLEAN
  BY FormShapes DEF FormsInv, FormTypes
<1>4. /\ "did" \in TryStates /\ "did" \notin TryingStates /\ try[r].at \in AskedStates
      /\ try[r].at \in TryingStates
  BY <1>1 DEF TryStates, TryingStates, AskedStates
<1>5. CASE try[r].visit = visit
  <2>1. locked' \in BOOLEAN /\ (~form.releases => locked' = locked)
    BY <1>1, <1>3
  <2>2. QED  BY <1>1, <1>2, <1>3, <1>4, <1>5, <2>1, EndKeepsForms
<1>6. CASE try[r].visit # visit
  <2>1. locked' = locked
    BY <1>1, <1>3, <1>6
  <2>2. QED  BY <1>1, <1>2, <1>4, <2>1, AnswerKeepsForms
<1>7. QED  BY <1>5, <1>6

LEMMA BlockEndsKeepsInv ==
    ASSUME FormsInv, BlockEnds
    PROVE  FormsInv'
<1>1. /\ locked' = (locked /\ ~form.unlocks) /\ UNCHANGED <<form, visit, try>>
      /\ excuses' = IF form.unlocks /\ locked THEN excuses + 1 ELSE excuses
  BY DEF BlockEnds
<1>2. Asked' = Asked /\ Trying' = Trying
  BY <1>1 DEF Asked, Trying
<1>3. form \in AllForms /\ locked \in BOOLEAN /\ excuses \in Nat /\ Cardinality(Asked) \in Nat
  BY AskedIsFinite DEF FormsInv, FormTypes
<1>4. form.unlocks \in BOOLEAN
  BY <1>3, FormShapes
<1>5. \/ form.unlocks /\ locked /\ locked' = FALSE /\ excuses' = excuses + 1
      \/ locked' = locked /\ excuses' = excuses
  BY <1>1, <1>3, <1>4
<1>6. FormTypes' /\ NoneIsAhead'
  <2>1. excuses' \in Nat
    BY <1>3, <1>5
  <2>2. locked' \in BOOLEAN
    BY <1>3, <1>5
  <2>3. FormTypes'
    BY <1>1, <2>1, <2>2 DEF FormsInv, FormTypes
  <2>4. NoneIsAhead'
    BY <1>1 DEF FormsInv, NoneIsAhead
  <2>5. QED  BY <2>3, <2>4
<1>7. ExcusesSuffice'
  <2>1. CASE locked /\ locked' = FALSE /\ excuses' = excuses + 1
    BY <1>1, <1>2, <1>3, <2>1 DEF FormsInv, ExcusesSuffice
  <2>2. CASE locked' = locked /\ excuses' = excuses
    BY <1>1, <1>2, <2>2 DEF FormsInv, ExcusesSuffice
  <2>3. QED  BY <1>5, <2>1, <2>2
<1>8. LockHolds'
  BY <1>1, <1>2, <1>5 DEF FormsInv, LockHolds
<1>9. QED  BY <1>6, <1>7, <1>8 DEF FormsInv

(***************************************************************************)
(* The form is opened anew, and has asked for nothing: what it asked for   *)
(* when it was open before is another visit's.                             *)
(***************************************************************************)
LEMMA OpenAnewKeepsInv ==
    ASSUME FormsInv, OpenAnew
    PROVE  FormsInv'
<1>1. /\ visit' = visit + 1 /\ locked' = FALSE /\ excuses' = 0
      /\ UNCHANGED <<form, try>>
  BY DEF OpenAnew
<1>2. visit \in Nat /\ \A r \in Tries : try[r].visit \in Nat /\ try[r].visit <= visit
  BY DEF FormsInv, FormTypes, NoneIsAhead
<1>3. \A r \in Tries : try'[r].visit # visit'
  BY <1>1, <1>2
<1>4. Asked' = {} /\ Trying' = {} /\ Cardinality({}) = 0
  BY <1>3, FS_EmptySet DEF Asked, Trying
<1>5. FormTypes' /\ NoneIsAhead'
  <2>1. visit' \in Nat \ {0} /\ \A r \in Tries : try[r].visit <= visit'
    BY <1>1, <1>2
  <2>2. NoneIsAhead'
    BY <1>1, <1>2, <2>1 DEF NoneIsAhead
  <2>3. FormTypes'
    BY <1>1, <2>1 DEF FormsInv, FormTypes
  <2>4. QED  BY <2>2, <2>3
<1>6. QED
  BY <1>1, <1>4, <1>5 DEF FormsInv, ExcusesSuffice, LockHolds

LEMMA FormsStep ==
    ASSUME FormsInv, FormsNext \/ UNCHANGED formVars
    PROVE  FormsInv'
<1>1. ASSUME NEW r \in Tries,
             \/ Submit(r) \/ CheckPasses(r) \/ CheckFails(r)
             \/ Served(r) \/ ServedLate(r) \/ Succeeds(r) \/ Fails(r)
      PROVE  FormsInv'
  BY <1>1, SubmitKeepsInv, CheckPassesKeepsInv, FailsKeepsInv, ServedKeepsInv, SucceedsKeepsInv
<1>2. CASE BlockEnds \/ OpenAnew
  BY <1>2, BlockEndsKeepsInv, OpenAnewKeepsInv
<1>3. ASSUME UNCHANGED <<form, visit, locked, try, excuses>>
      PROVE  FormsInv'
  BY <1>3 DEF FormsInv, FormTypes, NoneIsAhead, ExcusesSuffice, LockHolds, Asked, Trying
<1>4. QED
  BY <1>1, <1>2, <1>3
  DEF FormsNext, formVars, BlockBegins, SessionChanges, NextPageLoads, LeaveForm, GoBack

\* Listing ----------------------------------------------------------------

Steady == list.first = {"rows"} /\ ~list.leaves

Queries == [page : Nat \ {0}, rows : SUBSET Int, seen : BOOLEAN, total : Int]

ListTypes ==
    /\ list \in Lists
    /\ reader \in {"all", "export", "walk"}
    /\ born \in Nat /\ born <= MaxRows
    /\ rows = 1 .. born
    /\ start \subseteq 1 .. born
    /\ query \in Queries
    /\ IsFiniteSet(query.rows)
    /\ len \in Nat
    /\ reading \in BOOLEAN

Arrived == got \cup query.rows

(***************************************************************************)
(* What has arrived while the page p is asked for: the rows that were      *)
(* there at the beginning and are newer than this page; when the rows of   *)
(* the page were read, these, too; and when they were counted, all that    *)
(* the count puts on this page or before it.                               *)
(***************************************************************************)
PagesArrived ==
    LET p == query.page IN
    /\ \A r \in start : born - r < (p - 1) * PageSize => r \in got
    /\ query.seen => \A r \in start : born - r < p * PageSize => r \in Arrived
    /\ query.total # Unread =>
          query.seen /\ \A r \in start : query.total - r < p * PageSize => r \in Arrived
    /\ query.seen /\ query.rows = {} => start \subseteq got
    /\ Cardinality(query.rows) <= PageSize
    /\ reading => len <= (p - 1) * PageSize \/ start \subseteq got

ListEnded ==
    /\ reader = "export" => query.page <= MaxPages
    /\ ~reading /\ ~(reader = "export" /\ query.page = MaxPages) => start \subseteq got

(***************************************************************************)
(* The inductive invariant of Listing, for a list that rows do not leave.  *)
(***************************************************************************)
ListInv == Steady => ListTypes /\ PagesArrived /\ ListEnded

LEMMA PageNumbers ==
    ASSUME NEW p \in Nat \ {0}
    PROVE  /\ PageSize \in Nat \ {0} /\ p * PageSize \in Nat
           /\ (p - 1) * PageSize \in Nat /\ (p - 1) * PageSize = p * PageSize - PageSize
           /\ ((p + 1) - 1) * PageSize = p * PageSize
<1>1. PageSize \in Nat \ {0}
  BY ListingAssumption
<1>2. (p + 1) - 1 = p
  OBVIOUS
<1>3. (p - 1) * PageSize = p * PageSize - PageSize
  BY <1>1
<1>4. p * PageSize \in Nat /\ (p - 1) * PageSize \in Nat
  BY <1>1
<1>5. QED  BY <1>1, <1>2, <1>3, <1>4

\* The rows of a page are those that have as many newer ones as the pages
\* before it hold.
LEMMA RowsOfPage ==
    ASSUME rows = 1 .. born, born \in Nat, NEW p \in Nat \ {0}
    PROVE  /\ \A r \in 1 .. born : r \in Page(p) <=>
                  born - r >= (p - 1) * PageSize /\ born - r < p * PageSize
           /\ Page(p) \subseteq rows /\ IsFiniteSet(Page(p))
           /\ Cardinality(Page(p)) <= PageSize
<1> DEFINE low == (p - 1) * PageSize
           high == p * PageSize
<1>1. low \in Nat /\ high \in Nat /\ PageSize \in Nat \ {0} /\ low = high - PageSize
  BY PageNumbers
<1>2. Page(p) = {r \in rows : Cardinality({s \in rows : s > r}) \in low .. high - 1}
  BY DEF Page
<1> HIDE DEF low, high
<1>3. ASSUME NEW r \in 1 .. born
      PROVE  Cardinality({s \in rows : s > r}) = born - r
  <2>1. {s \in rows : s > r} = (r + 1) .. born
    OBVIOUS
  <2>2. r + 1 \in Int /\ born \in Int
    OBVIOUS
  <2>3. Cardinality((r + 1) .. born) = IF r + 1 > born THEN 0 ELSE born - (r + 1) + 1
    BY <2>2, FS_Interval
  <2>4. (IF r + 1 > born THEN 0 ELSE born - (r + 1) + 1) = born - r
    OBVIOUS
  <2>5. QED  BY <2>1, <2>3, <2>4
<1>4. \A r \in 1 .. born : r \in Page(p) <=> born - r >= low /\ born - r < high
  <2>1. SUFFICES ASSUME NEW r \in 1 .. born
                 PROVE  r \in Page(p) <=> born - r >= low /\ born - r < high
    OBVIOUS
  <2>2. r \in Page(p) <=> born - r \in low .. high - 1
    BY <1>2, <1>3
  <2>3. QED  BY <1>1, <2>2
<1>5. Page(p) \subseteq rows
  BY <1>2
<1>6. Page(p) \subseteq (born - high + 1) .. (born - low)
  <2>1. SUFFICES ASSUME NEW r \in Page(p) PROVE r \in (born - high + 1) .. (born - low)
    OBVIOUS
  <2>2. r \in 1 .. born
    BY <1>5
  <2>3. QED  BY <1>1, <1>4, <2>2
<1>7. IsFiniteSet((born - high + 1) .. (born - low))
      /\ Cardinality((born - high + 1) .. (born - low)) = PageSize
  <2>1. born - high + 1 \in Int /\ born - low \in Int
    BY <1>1
  <2>2. Cardinality((born - high + 1) .. (born - low)) =
          IF born - high + 1 > born - low THEN 0 ELSE (born - low) - (born - high + 1) + 1
    BY <2>1, FS_Interval
  <2>3. IsFiniteSet((born - high + 1) .. (born - low))
    BY <2>1, FS_Interval
  <2>4. QED  BY <1>1, <2>2, <2>3
<1>8. IsFiniteSet(Page(p)) /\ Cardinality(Page(p)) <= PageSize
  BY <1>6, <1>7, FS_Subset
<1>9. QED  BY <1>4, <1>5, <1>8 DEF low, high

LEMMA ListBegins == ListingInit => ListInv
<1> SUFFICES ASSUME ListingInit PROVE ListTypes /\ PagesArrived /\ ListEnded
  BY DEF ListInv
<1>1. /\ query.page = 1 /\ query.rows = {} /\ query.seen = FALSE /\ query.total = Unread
      /\ query \in Queries
  BY DEF ListingInit, Ask, Queries, Unread
<1>2. IsFiniteSet({}) /\ Cardinality({}) = 0
  BY FS_EmptySet
<1>3. born \in Nat /\ born <= MaxRows /\ rows = 1 .. born /\ start = rows /\ len = 0 /\ reading = TRUE
  BY ListingAssumption DEF ListingInit
<1>4. ListTypes
  <2>1. list \in Lists /\ reader \in {"all", "export", "walk"}
    BY DEF ListingInit
  <2>2. IsFiniteSet(query.rows) /\ start \subseteq 1 .. born
    BY <1>1, <1>2, <1>3
  <2>3. QED  BY <1>1, <1>3, <2>1, <2>2 DEF ListTypes
<1>5. PageSize \in Nat \ {0} /\ (1 - 1) * PageSize = 0
  BY ListingAssumption
<1>6. \A r \in start : ~(born - r < 0)
  BY <1>3
<1>7. PagesArrived
  BY <1>1, <1>2, <1>3, <1>5, <1>6 DEF PagesArrived
<1>8. ListEnded
  BY <1>1, <1>3, ListingAssumption DEF ListEnded
<1>9. QED  BY <1>4, <1>7, <1>8

ListHolds == Steady /\ ListTypes /\ PagesArrived /\ ListEnded

LEMMA InsertKeepsList ==
    ASSUME ListHolds, Insert
    PROVE  ListHolds'
<1>1. /\ born \in Nat /\ rows = 1 .. born /\ start \subseteq 1 .. born /\ query \in Queries
      /\ born' = born + 1 /\ rows' = rows \cup {born + 1}
      /\ UNCHANGED <<list, reader, start, query, got, len, reading>>
  BY DEF ListHolds, ListTypes, Insert
<1>2. /\ born' \in Nat /\ rows' = 1 .. born' /\ start' \subseteq 1 .. born'
      /\ born' <= MaxRows
  BY <1>1, ListingAssumption DEF Insert
<1>3. ListTypes' /\ Steady' /\ ListEnded'
  BY <1>1, <1>2 DEF ListHolds, ListTypes, Steady, ListEnded
<1>4. PagesArrived'
  <2> DEFINE low == (query.page - 1) * PageSize
             high == query.page * PageSize
  <2>1. low \in Nat /\ high \in Nat
    <3>1. query.page \in Nat \ {0}
      BY <1>1 DEF Queries
    <3>2. QED  BY <3>1, PageNumbers
  <2>2. /\ \A r \in start : born - r < low => r \in got
        /\ query.seen => \A r \in start : born - r < high => r \in Arrived
        /\ query.total # Unread =>
              query.seen /\ \A r \in start : query.total - r < high => r \in Arrived
        /\ query.seen /\ query.rows = {} => start \subseteq got
        /\ Cardinality(query.rows) <= PageSize
        /\ reading => len <= low \/ start \subseteq got
    BY DEF ListHolds, PagesArrived
  <2> HIDE DEF low, high
  <2>3. \A r \in start : (born' - r < low => born - r < low) /\ (born' - r < high => born - r < high)
    BY <1>1, <2>1
  <2>4. Arrived' = Arrived /\ low' = low /\ high' = high
    BY <1>1 DEF Arrived, low, high
  <2>5. /\ \A r \in start : born' - r < low => r \in got
        /\ query.seen => \A r \in start : born' - r < high => r \in Arrived
    BY <2>2, <2>3
  <2>6. QED
    BY <1>1, <2>2, <2>4, <2>5 DEF PagesArrived, low, high
<1>5. QED  BY <1>3, <1>4 DEF ListHolds

LEMMA ReadKeepsList ==
    ASSUME ListHolds, ReadRows
    PROVE  ListHolds'
<1> DEFINE p == query.page
           low == (p - 1) * PageSize
           high == p * PageSize
           new == [query EXCEPT !.rows = Page(p), !.seen = TRUE]
<1>1. /\ born \in Nat /\ rows = 1 .. born /\ start \subseteq 1 .. born /\ query \in Queries
      /\ query' = new /\ ~query.seen
      /\ UNCHANGED <<list, reader, rows, born, start, got, len, reading>>
  BY DEF ListHolds, ListTypes, ReadRows
<1>2. p \in Nat \ {0}
  BY <1>1 DEF Queries
<1>3. low \in Nat /\ high \in Nat /\ PageSize \in Nat \ {0} /\ low = high - PageSize
  BY <1>2, PageNumbers
<1>4. /\ \A r \in 1 .. born : r \in Page(p) <=> born - r >= low /\ born - r < high
      /\ Page(p) \subseteq rows /\ IsFiniteSet(Page(p)) /\ Cardinality(Page(p)) <= PageSize
  BY <1>1, <1>2, RowsOfPage
<1>5. /\ new \in Queries /\ new.page = p /\ new.rows = Page(p) /\ new.seen = TRUE
      /\ new.total = query.total
  <2>1. Page(p) \subseteq Int
    BY <1>1, <1>4
  <2>2. QED  BY <1>1, <2>1 DEF Queries
<1>6. /\ \A r \in start : born - r < low => r \in got
      /\ query.total = Unread
      /\ reading => len <= low \/ start \subseteq got
  BY <1>1 DEF ListHolds, PagesArrived
<1>7. low' = (new.page - 1) * PageSize /\ Arrived' = got \cup Page(p) /\ query'.page = p
  BY <1>1, <1>5 DEF Arrived
<1>8. \A r \in start : born - r < high => r \in got \cup Page(p)
  <2>1. SUFFICES ASSUME NEW r \in start, born - r < high PROVE r \in got \cup Page(p)
    OBVIOUS
  <2>2. r \in 1 .. born /\ r \in Int
    BY <1>1
  <2> HIDE DEF low, high, p
  <2>3. CASE born - r < low
    BY <1>6, <2>3
  <2>4. CASE born - r >= low
    BY <1>4, <2>1, <2>2, <2>4
  <2>5. QED  BY <1>1, <1>3, <2>2, <2>3, <2>4
<1>9. Page(p) = {} => start \subseteq got
  <2>1. SUFFICES ASSUME Page(p) = {}, NEW r \in start PROVE r \in got
    OBVIOUS
  <2>2. r \in 1 .. born
    BY <1>1
  <2> HIDE DEF low, high, p
  <2>3. born <= low
    <3>1. SUFFICES ASSUME born > low PROVE FALSE
      BY <1>1, <1>3
    <3>2. born - low \in 1 .. born
      BY <1>1, <1>3, <3>1
    <3>3. born - (born - low) = low /\ low < high
      BY <1>1, <1>3
    <3>4. born - low \in Page(p)
      BY <1>3, <1>4, <3>2, <3>3
    <3>5. QED  BY <2>1, <3>4
  <2>4. born - r < low
    BY <1>1, <1>3, <2>2, <2>3
  <2>5. QED  BY <1>6, <2>4
<1> HIDE DEF new
<1>10. PagesArrived'
  BY <1>1, <1>4, <1>5, <1>6, <1>7, <1>8, <1>9 DEF PagesArrived
<1>11. ListTypes'
  BY <1>1, <1>4, <1>5 DEF ListHolds, ListTypes
<1>12. Steady' /\ ListEnded'
  BY <1>1, <1>5 DEF ListHolds, Steady, ListEnded
<1>13. QED  BY <1>10, <1>11, <1>12 DEF ListHolds

LEMMA CountKeepsList ==
    ASSUME ListHolds, CountRows
    PROVE  ListHolds'
<1> DEFINE new == [query EXCEPT !.total = Cardinality(rows)]
<1>1. /\ born \in Nat /\ rows = 1 .. born /\ query \in Queries /\ query' = new
      /\ UNCHANGED <<list, reader, rows, born, start, got, len, reading>>
  BY DEF ListHolds, ListTypes, CountRows
<1>2. query.seen = TRUE
  <2>1. "count" \notin list.first
    BY DEF ListHolds, Steady
  <2>2. query.seen \in BOOLEAN
    BY <1>1 DEF Queries
  <2>3. QED  BY <2>1, <2>2 DEF CountRows
<1>3. Cardinality(rows) = born
  <2>1. Cardinality(1 .. born) = IF 1 > born THEN 0 ELSE born - 1 + 1
    BY <1>1, FS_Interval
  <2>2. (IF 1 > born THEN 0 ELSE born - 1 + 1) = born
    BY <1>1
  <2>3. QED  BY <1>1, <2>1, <2>2
<1>4. /\ new \in Queries /\ new.page = query.page /\ new.rows = query.rows
      /\ new.seen = query.seen /\ new.total = born
  BY <1>1, <1>3 DEF Queries
<1> HIDE DEF new
<1>5. Arrived' = Arrived
  BY <1>1, <1>4 DEF Arrived
<1>6. PagesArrived'
  BY <1>1, <1>2, <1>4, <1>5 DEF ListHolds, PagesArrived
<1>7. ListTypes'
  BY <1>1, <1>4 DEF ListHolds, ListTypes
<1>8. Steady' /\ ListEnded'
  BY <1>1, <1>4 DEF ListHolds, Steady, ListEnded
<1>9. QED  BY <1>6, <1>7, <1>8 DEF ListHolds

(***************************************************************************)
(* A page has arrived; what had been read of it, and of its count.         *)
(***************************************************************************)
LEMMA PageArrives ==
    ASSUME ListHolds, ReceivePage
    PROVE  /\ got' = Arrived /\ len' \in Nat
           /\ \A r \in start : born - r < query.page * PageSize => r \in got'
           /\ len' <= query.page * PageSize \/ start \subseteq got'
           /\ GoesOn \/ (reader = "export" /\ query.page = MaxPages) \/ start \subseteq got'
           /\ GoesOn /\ reader = "export" => query.page < MaxPages
<1> DEFINE p == query.page
           low == (p - 1) * PageSize
           high == p * PageSize
<1>1. /\ start \subseteq 1 .. born /\ born \in Nat /\ query \in Queries /\ len \in Nat
      /\ IsFiniteSet(query.rows) /\ reader \in {"all", "export", "walk"}
      /\ reading /\ query.seen /\ query.total # Unread
      /\ got' = Arrived /\ len' = Length
  BY DEF ListHolds, ListTypes, ReceivePage, Answered, Arrived
<1>2. p \in Nat \ {0} /\ query.total \in Int
  BY <1>1 DEF Queries
<1>3. low \in Nat /\ high \in Nat /\ PageSize \in Nat \ {0} /\ low = high - PageSize
  BY <1>2, PageNumbers
<1>4. /\ \A r \in start : born - r < high => r \in got'
      /\ \A r \in start : query.total - r < high => r \in got'
      /\ query.rows = {} => start \subseteq got'
      /\ Cardinality(query.rows) <= PageSize
      /\ len <= low \/ start \subseteq got'
  BY <1>1 DEF ListHolds, PagesArrived, Arrived
<1>5. Cardinality(query.rows) \in Nat
  BY <1>1, FS_CardinalityType
<1> HIDE DEF p, low, high
<1>6. len' \in Nat /\ len' = len + Cardinality(query.rows)
  BY <1>1, <1>5 DEF Length
<1>7. len' <= high \/ start \subseteq got'
  BY <1>1, <1>3, <1>4, <1>5, <1>6
<1>8. ASSUME query.total <= high PROVE start \subseteq got'
  <2>1. SUFFICES ASSUME NEW r \in start PROVE r \in got'
    OBVIOUS
  <2>2. r \in 1 .. born
    BY <1>1
  <2>3. query.total - r < high
    BY <1>1, <1>2, <1>3, <1>8, <2>2
  <2>4. QED  BY <1>4, <2>3
<1>9. query.page = p /\ query.page * PageSize = high
  BY DEF p, high
<1>10. ASSUME ~GoesOn, ~(reader = "export" /\ p = MaxPages) PROVE start \subseteq got'
  <2>1. CASE Length >= query.total
    BY <1>1, <1>2, <1>3, <1>6, <1>7, <1>8, <2>1
  <2>2. CASE reader = "export" /\ query.rows = {}
    BY <1>4, <2>2
  <2>3. CASE reader = "export" /\ ~(p < MaxPages)
    <3>1. p <= MaxPages
      BY <2>3, <1>9 DEF ListHolds, ListEnded
    <3>2. QED  BY <1>2, <1>10, <2>3, <3>1, ListingAssumption
  <2>4. CASE reader = "walk" /\ ~WalkGoesOn
    BY <1>2, <1>3, <1>8, <1>9, <2>4 DEF WalkGoesOn
  <2>5. CASE reader = "all" /\ ~AllGoOn
    <3>1. Length >= query.total
      BY <1>1, <1>2, <1>6, <2>5 DEF AllGoOn
    <3>2. QED  BY <2>1, <3>1
  <2>6. CASE reader = "export" /\ ~ExportGoesOn
    <3>1. Length \in Nat
      BY <1>1, <1>6
    <3>2. query.rows = {} \/ Length >= query.total \/ ~(p < MaxPages)
      BY <1>2, <1>9, <2>6, <3>1 DEF ExportGoesOn
    <3>3. QED  BY <2>1, <2>2, <2>3, <2>6, <3>2
  <2>7. QED  BY <1>1, <1>10, <2>4, <2>5, <2>6 DEF GoesOn
<1>11. GoesOn /\ reader = "export" => p < MaxPages
  BY <1>9 DEF GoesOn, ExportGoesOn
<1>12. QED  BY <1>1, <1>4, <1>6, <1>7, <1>9, <1>10, <1>11

LEMMA ReceiveKeepsList ==
    ASSUME ListHolds, ReceivePage
    PROVE  ListHolds'
<1> DEFINE p == query.page
           next == IF GoesOn THEN NextPage(p) ELSE p
<1>1. /\ start \subseteq 1 .. born /\ born \in Nat /\ born <= MaxRows /\ query \in Queries
      /\ query' = Ask(next) /\ reading' = GoesOn
      /\ UNCHANGED <<list, reader, rows, born, start>>
  BY DEF ListHolds, ListTypes, ReceivePage
<1>2. p \in Nat \ {0}
  BY <1>1 DEF Queries
<1>3. /\ p * PageSize \in Nat /\ PageSize \in Nat \ {0} /\ MaxRows \in Nat /\ MaxPages \in Nat
      /\ ((p + 1) - 1) * PageSize = p * PageSize
  BY <1>2, PageNumbers, ListingAssumption
<1>4. /\ got' = Arrived /\ len' \in Nat
      /\ \A r \in start : born - r < p * PageSize => r \in got'
      /\ len' <= p * PageSize \/ start \subseteq got'
      /\ GoesOn \/ (reader = "export" /\ p = MaxPages) \/ start \subseteq got'
      /\ GoesOn /\ reader = "export" => p < MaxPages
  BY PageArrives
<1>5. /\ \A r \in start : born - r < (p - 1) * PageSize => r \in got'
      /\ reader = "export" => p <= MaxPages
  BY <1>4 DEF ListHolds, PagesArrived, ListEnded, Arrived
<1>6. GoesOn \in BOOLEAN
  <2>1. reader \in {"all", "export", "walk"}
    BY DEF ListHolds, ListTypes
  <2>2. AllGoOn \in BOOLEAN /\ ExportGoesOn \in BOOLEAN /\ WalkGoesOn \in BOOLEAN
    BY DEF AllGoOn, ExportGoesOn, WalkGoesOn
  <2>3. /\ reader = "all" => GoesOn = AllGoOn
        /\ reader = "export" => GoesOn = ExportGoesOn
        /\ reader = "walk" => GoesOn = WalkGoesOn
    BY DEF GoesOn
  <2>4. QED  BY <2>1, <2>2, <2>3
<1>7. next \in {p, p + 1} /\ (~GoesOn => next = p)
      /\ (next = p /\ GoesOn => p * PageSize > MaxRows)
  BY <1>2, <1>3, <1>6 DEF NextPage
<1>8. next \in Nat \ {0}
  BY <1>2, <1>7
<1> HIDE DEF next
<1>9. /\ query' \in Queries /\ query'.page = next /\ query'.rows = {} /\ query'.seen = FALSE
      /\ query'.total = Unread
  BY <1>1, <1>8 DEF Ask, Queries, Unread
<1>10. IsFiniteSet({}) /\ Cardinality({}) = 0
  BY FS_EmptySet
<1>11. ListTypes'
  BY <1>1, <1>4, <1>6, <1>9, <1>10 DEF ListHolds, ListTypes
<1>12. PagesArrived'
  <2>1. \A r \in start : born - r < (next - 1) * PageSize => r \in got'
    BY <1>3, <1>4, <1>5, <1>7
  <2>2. GoesOn => len' <= (next - 1) * PageSize \/ start \subseteq got'
    <3>1. SUFFICES ASSUME GoesOn PROVE len' <= (next - 1) * PageSize \/ start \subseteq got'
      OBVIOUS
    <3>2. CASE next = p + 1
      BY <1>3, <1>4, <3>2
    <3>3. CASE next = p
      <4>1. p * PageSize > MaxRows
        BY <1>7, <3>1, <3>3
      <4>2. \A r \in start : r \in Int /\ r >= 1
        BY <1>1
      <4>3. \A r \in start : born - r < p * PageSize
        BY <1>1, <1>3, <4>1, <4>2
      <4>4. QED  BY <1>4, <4>3
    <3>4. QED  BY <1>7, <3>2, <3>3
  <2>3. Cardinality(query'.rows) <= PageSize
    BY <1>3, <1>9, <1>10
  <2>4. QED
    BY <1>1, <1>9, <2>1, <2>2, <2>3 DEF PagesArrived
<1>13. ListEnded'
  <2>1. reader = "export" => next <= MaxPages
    BY <1>2, <1>3, <1>4, <1>5, <1>6, <1>7
  <2>2. ~GoesOn /\ ~(reader = "export" /\ next = MaxPages) => start \subseteq got'
    BY <1>4, <1>7
  <2>3. QED  BY <1>1, <1>9, <2>1, <2>2 DEF ListEnded
<1>14. Steady'
  BY <1>1 DEF ListHolds, Steady
<1>15. QED  BY <1>11, <1>12, <1>13, <1>14 DEF ListHolds

LEMMA ListStep ==
    ASSUME ListInv, ListingNext \/ UNCHANGED listingVars
    PROVE  ListInv'
<1>1. list' = list
  BY DEF ListingNext, Insert, Leave, ReadRows, CountRows, ReceivePage, listingVars
<1>2. CASE ~Steady
  BY <1>1, <1>2 DEF ListInv, Steady
<1>3. CASE Steady
  <2>1. ListHolds
    BY <1>3 DEF ListInv, ListHolds
  <2>2. ListHolds => ListInv
    BY DEF ListHolds, ListInv
  <2>3. ~Leave
    BY <1>3 DEF Leave, Steady
  <2>4. CASE UNCHANGED listingVars
    <3>1. ListHolds'
      BY <2>1, <2>4
      DEF ListHolds, Steady, ListTypes, PagesArrived, Arrived, ListEnded, listingVars
    <3>2. QED  BY <3>1 DEF ListHolds, ListInv
  <2>5. CASE ListingNext
    <3>1. ListHolds'
      BY <2>1, <2>3, <2>5, InsertKeepsList, ReadKeepsList, CountKeepsList, ReceiveKeepsList
      DEF ListingNext
    <3>2. QED  BY <3>1 DEF ListHolds, ListInv
  <2>6. QED  BY <2>4, <2>5
<1>4. QED  BY <1>2, <1>3

\* Pages ------------------------------------------------------------------

LoadRecords == [at : {"none", "server", "back"}, choice : Choices, has : Nat, latest : BOOLEAN]
ChangeRecords == [at : {"none", "server", "back", "over"}, how : {"reload", "patch"}, nr : Nat]
Views == [choice : Choices, has : Nat, failed : BOOLEAN, hidden : BOOLEAN, blank : BOOLEAN]

PageTypes ==
    /\ page \in AllPages
    /\ guest \in BOOLEAN /\ due \in BOOLEAN /\ loading \in BOOLEAN
    /\ due => page.waits
    /\ choice \in Choices
    /\ loads \in [LoadSlots -> LoadRecords]
    /\ changes \in [ChangeSlots -> ChangeRecords]
    /\ served \in Nat /\ acked \in Nat /\ acked <= served
    /\ view \in Views

ChangesKnown ==
    \A k \in ChangeSlots :
        /\ changes[k].at # "none" => changes[k].how \in page.does
        /\ changes[k].at = "back" => changes[k].nr <= served

InFlight(s) == loads[s].at # "none"
Going(k) == changes[k].at \in {"server", "back"}
Newest(s) == InFlight(s) /\ loads[s].latest

IsShown ==
    view.failed \/ (view.hidden /\ view.blank) \/ (view.choice = choice /\ view.has >= acked)
Brings(s) == loads[s].choice = choice /\ (loads[s].at = "back" => loads[s].has >= acked)

(***************************************************************************)
(* A page that drops old answers: the newest load brings what should be    *)
(* shown, or it is shown already, or the timer of the choice is running.   *)
(***************************************************************************)
DropsOld ==
    page.latest =>
        /\ \A s \in LoadSlots : Newest(s) => ~guest /\ (due \/ Brings(s))
        /\ ~guest /\ ~due => (\E s \in LoadSlots : Newest(s)) \/ IsShown
        /\ guest => ~due /\ (page.wipes => view = Blank)

(***************************************************************************)
(* A page that offers nothing meanwhile: there is one load or one change   *)
(* at a time, and no other.                                                *)
(***************************************************************************)
OneByOne ==
    Orderly /\ ~page.latest /\ ~guest =>
        /\ ~due
        /\ \A s \in LoadSlots : InFlight(s) => loading /\ Brings(s)
        /\ \A r, s \in LoadSlots : InFlight(r) /\ InFlight(s) => r = s
        /\ \A k \in ChangeSlots : Going(k) =>
              /\ page.alone /\ ~view.blank
              /\ \A s \in LoadSlots : ~InFlight(s)
              /\ \A j \in ChangeSlots : Going(j) => j = k
        /\ (\E s \in LoadSlots : InFlight(s)) \/ IsShown

(***************************************************************************)
(* The inductive invariant of Pages.                                       *)
(***************************************************************************)
PagesInv == PageTypes /\ ChangesKnown /\ DropsOld /\ OneByOne

\* What the proof needs of a page: it does not keep its rows, and say
\* nothing, when a load has failed that nothing of its own overtakes.
PageShape(p) ==
    /\ p.latest \in BOOLEAN /\ p.twice \in BOOLEAN /\ p.waits \in BOOLEAN
    /\ p.polls \in BOOLEAN /\ p.alone \in BOOLEAN /\ p.wipes \in BOOLEAN
    /\ p.fails \subseteq {"shown", "empty", "kept"}
    /\ p.latest => "patch" \notin p.does /\ ~p.twice /\ "kept" \notin p.fails
    /\ ~p.latest => ~p.waits
    /\ ~p.latest /\ p.offers = {} /\ ~p.twice => "choose" \notin p.does
    /\ /\ ~p.latest /\ p.offers = {} /\ ~p.polls
       /\ p.alone \/ p.does \cap {"reload", "patch"} = {}
       => "kept" \notin p.fails

LEMMA PageShapes ==
    ASSUME NEW p \in AllPages
    PROVE  PageShape(p)
<1> USE DEF Plain, PageShape
<1>1. PageShape(HistoryPage)  BY DEF HistoryPage, Filtered, Loaded
<1>2. PageShape(HomePage)  BY DEF HomePage, Swallowing
<1>3. PageShape(StatisticsPage)  BY DEF StatisticsPage, Swallowing
<1>4. PageShape(GoalsPage)  BY DEF GoalsPage, Collection
<1>5. PageShape(EnvelopesPage)  BY DEF EnvelopesPage, Collection
<1>6. PageShape(ScheduledPaymentsPage)  BY DEF ScheduledPaymentsPage, Collection
<1>7. PageShape(DestinationsPage)  BY DEF DestinationsPage, Collection
<1>8. PageShape(GoalDetailPage)  BY DEF GoalDetailPage, Detail
<1>9. PageShape(EnvelopeDetailPage)  BY DEF EnvelopeDetailPage, Detail
<1>10. PageShape(ScheduledPaymentDetailPage)  BY DEF ScheduledPaymentDetailPage, Detail
<1>11. PageShape(NotificationsPage)  BY DEF NotificationsPage
<1>12. PageShape(NotificationBell)  BY DEF NotificationBell
<1>13. PageShape(SecurityPage)  BY DEF SecurityPage
<1>14. PageShape(ProfilePage)  BY DEF ProfilePage, Swallowing
<1>15. PageShape(WithdrawPage)  BY DEF WithdrawPage, Swallowing
<1>16. PageShape(FundingSourceSelect)  BY DEF FundingSourceSelect, Swallowing
<1>17. PageShape(SendConfirmLists)  BY DEF SendConfirmLists, Swallowing
<1>18. PageShape(WithdrawFormLists)  BY DEF WithdrawFormLists, SendConfirmLists, Swallowing
<1>19. PageShape(SendPage)  BY DEF SendPage, Swallowing
<1>20. PageShape(WalletBalance)  BY DEF WalletBalance
<1>21. PageShape(AdminDashboardPage)  BY DEF AdminDashboardPage
<1>22. PageShape(AdminUsersPage)  BY DEF AdminUsersPage, Filtered, Loaded
<1>23. PageShape(AdminUserDetailPage)  BY DEF AdminUserDetailPage
<1>24. PageShape(AdminTransactionsPage)  BY DEF AdminTransactionsPage, Filtered, Loaded
<1>25. PageShape(AdminPaymentsPage)  BY DEF AdminPaymentsPage, Filtered, Loaded
<1>26. PageShape(AdminWithdrawalsPage)  BY DEF AdminWithdrawalsPage, Filtered, Loaded
<1>27. PageShape(AdminSecurityPage)  BY DEF AdminSecurityPage, Filtered, Loaded
<1>28. PageShape(AdminAuditPage)  BY DEF AdminAuditPage, Filtered, Loaded
<1>29. PageShape(AdminPaymentDetailPage)  BY DEF AdminPaymentDetailPage, Loaded
<1>30. PageShape(AdminTransactionDetailPage)  BY DEF AdminTransactionDetailPage, Loaded
<1>31. PageShape(AdminGate)  BY DEF AdminGate, Loaded
<1>32. QED  BY <1>1, <1>2, <1>3, <1>4, <1>5, <1>6, <1>7, <1>8, <1>9, <1>10, <1>11,
       <1>12, <1>13, <1>14, <1>15, <1>16, <1>17, <1>18, <1>19, <1>20, <1>21, <1>22,
       <1>23, <1>24, <1>25, <1>26, <1>27, <1>28, <1>29, <1>30, <1>31 DEF AllPages

(***************************************************************************)
(* A load begins in one free slot, and makes the others old.               *)
(***************************************************************************)
LEMMA BegunTypes ==
    ASSUME NEW ls \in [LoadSlots -> LoadRecords], NEW c \in Choices
    PROVE  Begun(ls, c) \in [LoadSlots -> LoadRecords]
  BY DEF Begun, LoadRecords

LEMMA BegunShape ==
    ASSUME NEW ls \in [LoadSlots -> LoadRecords], NEW c \in Choices,
           \E s \in LoadSlots : ls[s].at = "none"
    PROVE  \E f \in LoadSlots :
              /\ ls[f].at = "none"
              /\ Begun(ls, c)[f] = [at |-> "server", choice |-> c, has |-> 0, latest |-> TRUE]
              /\ \A s \in LoadSlots \ {f} :
                    /\ Begun(ls, c)[s].at = ls[s].at
                    /\ Begun(ls, c)[s].latest = FALSE
<1> DEFINE f == CHOOSE s \in LoadSlots : ls[s].at = "none"
<1>1. f \in LoadSlots /\ ls[f].at = "none"
  OBVIOUS
<1>2. Begun(ls, c) = [s \in LoadSlots |-> IF s = f
            THEN [at |-> "server", choice |-> c, has |-> 0, latest |-> TRUE]
            ELSE [ls[s] EXCEPT !.latest = FALSE]]
  BY DEF Begun
<1> HIDE DEF f
<1>3. \A s \in LoadSlots : [ls[s] EXCEPT !.latest = FALSE].at = ls[s].at
                           /\ [ls[s] EXCEPT !.latest = FALSE].latest = FALSE
  BY DEF LoadRecords
<1>4. QED  BY <1>1, <1>2, <1>3

LEMMA LoadBegins ==
    ASSUME PagesInv, ~guest, UNCHANGED <<page, guest, served, view>>,
           choice' \in Choices, due' \in BOOLEAN, due' => page.waits,
           acked' \in Nat, acked' <= served,
           changes' \in [ChangeSlots -> ChangeRecords], ChangesKnown',
           loading' = TRUE, loads' = Begun(loads, choice'),
           \E s \in LoadSlots : loads[s].at = "none",
           Orderly /\ ~page.latest =>
               /\ ~due'
               /\ \A s \in LoadSlots : ~InFlight(s)
               /\ \A k \in ChangeSlots : ~Going(k)'
    PROVE  PagesInv'
<1>1. PageTypes'
  BY BegunTypes DEF PagesInv, PageTypes
<1>2. PICK f \in LoadSlots :
          /\ loads'[f] = [at |-> "server", choice |-> choice', has |-> 0, latest |-> TRUE]
          /\ \A s \in LoadSlots \ {f} : loads'[s].at = loads[s].at /\ ~loads'[s].latest
  BY BegunShape DEF PagesInv, PageTypes
<1>3. Newest(f)' /\ Brings(f)' /\ InFlight(f)' /\ \A s \in LoadSlots \ {f} : ~Newest(s)'
  BY <1>2 DEF Newest, InFlight, Brings
<1>4. DropsOld'
  BY <1>3 DEF DropsOld
<1>5. OneByOne'
  <2> SUFFICES ASSUME Orderly, ~page.latest PROVE OneByOne'
    BY DEF OneByOne, Orderly
  <2>1. \A s \in LoadSlots \ {f} : ~InFlight(s)'
    BY <1>2 DEF InFlight
  <2>2. QED  BY <1>3, <2>1 DEF OneByOne
<1>6. QED  BY <1>1, <1>4, <1>5 DEF PagesInv

LEMMA PagesBegin == PagesInit => PagesInv
<1> SUFFICES ASSUME PagesInit PROVE PagesInv
  OBVIOUS
<1> DEFINE ls == [s \in LoadSlots |-> NoLoad]
<1>0. page \in AllPages /\ (~page.latest => ~page.waits) /\ page.waits \in BOOLEAN
  BY PageShapes DEF PagesInit, PageShape
<1>1. ls \in [LoadSlots -> LoadRecords] /\ First \in Choices
  BY PagesAssumption DEF NoLoad, LoadRecords
<1>2. PageTypes
  <2>1. Begun(ls, First) \in [LoadSlots -> LoadRecords]
    <3> HIDE DEF ls
    <3> QED  BY <1>1, BegunTypes
  <2>2. loads \in [LoadSlots -> LoadRecords]
    BY <1>1, <2>1 DEF PagesInit
  <2>3. changes \in [ChangeSlots -> ChangeRecords]
    BY DEF PagesInit, NoChange, ChangeRecords
  <2>4. view \in Views
    BY <1>1 DEF PagesInit, Blank, Views
  <2>5. guest \in BOOLEAN /\ due \in BOOLEAN /\ loading \in BOOLEAN /\ (due => page.waits)
    BY <1>0 DEF PagesInit
  <2>6. choice \in Choices /\ served \in Nat /\ acked \in Nat /\ acked <= served
    BY <1>1 DEF PagesInit
  <2>7. QED  BY <1>0, <2>2, <2>3, <2>4, <2>5, <2>6 DEF PageTypes
<1>3. ChangesKnown /\ \A k \in ChangeSlots : ~Going(k)
  BY DEF PagesInit, ChangesKnown, Going, NoChange
<1>4. IsShown
  BY <1>2 DEF PagesInit, IsShown, Blank, PageTypes
<1>5. CASE page.waits \/ LoadSlots = {}
  <2>1. \A s \in LoadSlots : ~InFlight(s)
    BY <1>5 DEF PagesInit, InFlight, NoLoad
  <2>2. QED
    BY <1>0, <1>2, <1>3, <1>4, <1>5, <2>1
    DEF PagesInit, PagesInv, DropsOld, OneByOne, Newest
<1>6. CASE ~page.waits /\ LoadSlots # {}
  <2>1. loads = Begun(ls, First) /\ \A s \in LoadSlots : ls[s].at = "none"
    BY <1>6 DEF PagesInit, NoLoad
  <2>2. PICK f \in LoadSlots :
            /\ loads[f] = [at |-> "server", choice |-> First, has |-> 0, latest |-> TRUE]
            /\ \A s \in LoadSlots \ {f} : loads[s].at = "none" /\ ~loads[s].latest
    <3>1. \E s \in LoadSlots : ls[s].at = "none"
      BY <1>6, <2>1
    <3> HIDE DEF ls
    <3>2. PICK f \in LoadSlots :
              /\ Begun(ls, First)[f] =
                    [at |-> "server", choice |-> First, has |-> 0, latest |-> TRUE]
              /\ \A s \in LoadSlots \ {f} :
                    Begun(ls, First)[s].at = ls[s].at /\ Begun(ls, First)[s].latest = FALSE
      BY <1>1, <3>1, BegunShape
    <3>3. QED  BY <2>1, <3>2
  <2>3. Brings(f) /\ \A s \in LoadSlots \ {f} : ~InFlight(s)
    BY <2>2 DEF PagesInit, Brings, InFlight
  <2>4. QED
    BY <1>2, <1>3, <1>4, <1>6, <2>3
    DEF PagesInit, PagesInv, DropsOld, OneByOne, Newest
<1>7. QED  BY <1>5, <1>6

\* A choice.
LEMMA ChooseKeepsInv ==
    ASSUME PagesInv, NEW c \in Choices, Choose(c)
    PROVE  PagesInv'
<1>0. PageTypes /\ ChangesKnown /\ page \in AllPages
  BY DEF PagesInv, PageTypes
<1>1. /\ ~guest /\ choice' = c /\ "choose" \in page.does
      /\ UNCHANGED <<page, guest, changes, served, acked, view>>
      /\ ChangesKnown'
  BY <1>0 DEF Choose, Offers, ChangesKnown
<1>2. ~(Orderly /\ ~page.latest)
  BY <1>0, <1>1, PageShapes DEF Orderly, PageShape
<1>3. OneByOne'
  BY <1>1, <1>2 DEF OneByOne, Orderly
<1>4. CASE page.waits /\ due' = TRUE /\ UNCHANGED <<loading, loads>>
  <2>1. PageTypes'
    BY <1>0, <1>1, <1>4 DEF PageTypes
  <2>2. DropsOld'
    BY <1>1, <1>4 DEF PagesInv, DropsOld, Newest, InFlight
  <2>3. QED  BY <1>1, <1>3, <2>1, <2>2 DEF PagesInv
<1>5. CASE Free(1) /\ loading' = TRUE /\ loads' = Begun(loads, c) /\ UNCHANGED due
  <2>1. \E s \in LoadSlots : loads[s].at = "none"
    BY <1>5 DEF Free
  <2>2. QED  BY <1>0, <1>1, <1>2, <1>5, <2>1, LoadBegins DEF PageTypes
<1>6. ASSUME NEW old \in Choices, page.twice, loads' = Begun(Begun(loads, old), c),
             loading' = TRUE, UNCHANGED due
      PROVE  PagesInv'
  <2>1. loads' \in [LoadSlots -> LoadRecords]
    BY <1>0, <1>6, BegunTypes DEF PageTypes
  <2>2. PageTypes'
    BY <1>0, <1>1, <1>6, <2>1 DEF PageTypes
  <2>3. DropsOld'
    BY <1>0, <1>1, <1>6, PageShapes DEF DropsOld, PageShape
  <2>4. QED  BY <1>1, <1>3, <2>2, <2>3 DEF PagesInv
<1>7. QED  BY <1>4, <1>5, <1>6 DEF Choose

\* The timer, the button to ask again, the interval.
LEMMA AskingAgainKeepsInv ==
    ASSUME PagesInv, TimerFires \/ Retry
    PROVE  PagesInv'
<1>0. PageTypes /\ ChangesKnown /\ page \in AllPages
  BY DEF PagesInv, PageTypes
<1>1. /\ loading' = TRUE /\ loads' = Begun(loads, choice)
      /\ UNCHANGED <<page, guest, choice, changes, served, acked, view>>
      /\ due' \in {due, FALSE}
      /\ ChangesKnown'
  BY <1>0 DEF TimerFires, Retry, LoadAgain, ChangesKnown
<1>2. \E s \in LoadSlots : loads[s].at = "none"
  BY DEF TimerFires, Retry, LoadAgain, Free
<1>3. ~guest
  <2>1. CASE TimerFires
    <3>1. due
      BY <2>1 DEF TimerFires
    <3>2. CASE page.latest
      BY <3>1, <3>2 DEF PagesInv, DropsOld
    <3>3. CASE ~page.latest
      BY <1>0, <3>1, <3>3, PageShapes DEF PageTypes, PageShape
    <3>4. QED  BY <3>2, <3>3
  <2>2. QED  BY <2>1 DEF Retry
<1>4. Orderly /\ ~page.latest =>
          /\ ~due'
          /\ \A s \in LoadSlots : ~InFlight(s)
          /\ \A k \in ChangeSlots : ~Going(k)'
  <2> SUFFICES ASSUME Orderly, ~page.latest
               PROVE  /\ ~due'
                      /\ \A s \in LoadSlots : ~InFlight(s)
                      /\ \A k \in ChangeSlots : ~Going(k)'
    OBVIOUS
  <2>1. ~due /\ ~page.polls
    BY <1>3 DEF PagesInv, OneByOne, Orderly
  <2>2. ~loading /\ (page.alone => view.blank)
    BY <2>1 DEF TimerFires, Retry
  <2>3. \A s \in LoadSlots : ~InFlight(s)
    BY <1>3, <2>2 DEF PagesInv, OneByOne
  <2>4. \A k \in ChangeSlots : ~Going(k)
    BY <1>3, <2>2 DEF PagesInv, OneByOne
  <2>5. \A k \in ChangeSlots : ~Going(k)'
    BY <1>1, <2>4 DEF Going
  <2>6. ~due'
    BY <1>1, <2>1
  <2>7. QED  BY <2>3, <2>5, <2>6
<1>5. choice' = choice /\ choice' \in Choices /\ acked' \in Nat /\ acked' <= served
      /\ changes' \in [ChangeSlots -> ChangeRecords]
  BY <1>0, <1>1 DEF PageTypes
<1>6. due' \in BOOLEAN /\ (due' => page.waits)
  <2>1. due \in BOOLEAN /\ (due => page.waits)
    BY <1>0 DEF PageTypes
  <2>2. due' = due \/ due' = FALSE
    BY <1>1
  <2>3. CASE due' = due
    BY <2>1, <2>3
  <2>4. CASE due' = FALSE
    BY <2>4
  <2>5. QED  BY <2>2, <2>3, <2>4
<1>7. QED  BY <1>1, <1>2, <1>3, <1>4, <1>5, <1>6, LoadBegins

(***************************************************************************)
(* A load that is over: it is dropped, shown, or shows an error.           *)
(***************************************************************************)
LEMMA ServedLoadKeepsInv ==
    ASSUME PagesInv, NEW s \in LoadSlots, LoadServed(s)
    PROVE  PagesInv'
<1>1. /\ UNCHANGED <<page, guest, choice, due, loading, changes, served, acked, view>>
      /\ loads[s].at = "server" /\ loads[s] \in LoadRecords
      /\ loads' = [loads EXCEPT ![s] = [@ EXCEPT !.at = "back", !.has = served]]
  BY DEF LoadServed, PagesInv, PageTypes, LoadRecords
<1>2. /\ loads' \in [LoadSlots -> LoadRecords]
      /\ loads'[s].at = "back" /\ loads'[s].has = served
      /\ loads'[s].latest = loads[s].latest /\ loads'[s].choice = loads[s].choice
      /\ \A r \in LoadSlots \ {s} : loads'[r] = loads[r]
  BY <1>1 DEF PagesInv, PageTypes, LoadRecords
<1>3. PageTypes' /\ ChangesKnown'
  BY <1>1, <1>2 DEF PagesInv, PageTypes, ChangesKnown
<1>4. \A r \in LoadSlots :
          /\ InFlight(r)' <=> InFlight(r)
          /\ Newest(r)' <=> Newest(r)
          /\ Brings(r) => Brings(r)'
  BY <1>1, <1>2 DEF InFlight, Newest, Brings, PagesInv, PageTypes
<1>5. DropsOld'
  BY <1>1, <1>4 DEF PagesInv, DropsOld, IsShown
<1>6. OneByOne'
  BY <1>1, <1>4 DEF PagesInv, OneByOne, Orderly, IsShown, Going
<1>7. QED  BY <1>3, <1>5, <1>6 DEF PagesInv

LEMMA LoadEnds ==
    ASSUME PagesInv, NEW s \in LoadSlots, loads' = [loads EXCEPT ![s] = NoLoad]
    PROVE  /\ loads' \in [LoadSlots -> LoadRecords]
           /\ ~InFlight(s)'
           /\ \A r \in LoadSlots \ {s} : loads'[r] = loads[r]
  BY PagesAssumption DEF PagesInv, PageTypes, LoadRecords, NoLoad, InFlight

LEMMA LoadOverKeepsInv ==
    ASSUME PagesInv, NEW s \in LoadSlots, InFlight(s),
           loads' = [loads EXCEPT ![s] = NoLoad],
           UNCHANGED <<page, guest, choice, due, changes, served, acked>>,
           \/ page.latest /\ ~loads[s].latest /\ UNCHANGED <<loading, view>>
           \/ /\ page.latest => loads[s].latest
              /\ loading' = FALSE
              /\ view' \in Views
              /\ (page.latest \/ Orderly) /\ Brings(s) => IsShown'
    PROVE  PagesInv'
<1>1. PageTypes' /\ ChangesKnown'
  BY LoadEnds DEF PagesInv, PageTypes, ChangesKnown
<1>2. \A r \in LoadSlots \ {s} :
          /\ InFlight(r)' <=> InFlight(r)
          /\ Newest(r)' <=> Newest(r)
          /\ Brings(r)' <=> Brings(r)
  BY LoadEnds DEF InFlight, Newest, Brings
<1>3. ~InFlight(s)' /\ ~Newest(s)'
  BY LoadEnds DEF Newest
<1>4. CASE page.latest /\ ~loads[s].latest /\ UNCHANGED <<loading, view>>
  BY <1>1, <1>2, <1>3, <1>4 DEF PagesInv, DropsOld, OneByOne, Newest, IsShown
<1>5. CASE /\ page.latest => loads[s].latest
           /\ loading' = FALSE
           /\ (page.latest \/ Orderly) /\ Brings(s) => IsShown'
  <2>2. DropsOld'
    <3> SUFFICES ASSUME page.latest PROVE DropsOld'
      BY DEF DropsOld
    <3>1. Newest(s)
      BY <1>5 DEF Newest
    <3>2. ~guest /\ (due \/ Brings(s))
      BY <3>1 DEF PagesInv, DropsOld
    <3>3. QED
      BY <1>2, <1>3, <1>5, <3>2 DEF PagesInv, DropsOld
  <2>3. OneByOne'
    <3> SUFFICES ASSUME Orderly, ~page.latest, ~guest PROVE OneByOne'
      BY DEF OneByOne, Orderly
    <3>1. OneByOne
      BY DEF PagesInv
    <3>2. Brings(s) /\ \A r \in LoadSlots : InFlight(r) => r = s
      BY <3>1 DEF OneByOne
    <3>3. \A r \in LoadSlots : ~InFlight(r)'
      BY <1>2, <1>3, <3>2
    <3>4. \A k \in ChangeSlots : ~Going(k)'
      BY <3>1 DEF OneByOne, Going
    <3>5. QED
      BY <1>5, <3>1, <3>2, <3>3, <3>4 DEF OneByOne
  <2>4. QED  BY <1>1, <2>2, <2>3 DEF PagesInv
<1>6. QED  BY <1>4, <1>5

\* What becomes of a failure: only one that is kept silent is not shown.
LEMMA FailureViews ==
    ASSUME view \in Views, NEW how \in {"shown", "empty", "kept"}
    PROVE  /\ Failed(how) \in Views
           /\ how = "shown" => Failed(how).failed
           /\ how = "empty" => Failed(how).hidden /\ Failed(how).blank
           /\ Failed(how).has \in {view.has, 0}
<1>1. CASE how = "shown"
  BY <1>1 DEF Failed, Views
<1>2. CASE how = "empty"
  BY <1>2, PagesAssumption DEF Failed, Views, Blank
<1>3. CASE how = "kept"
  BY <1>3 DEF Failed, Views
<1>4. QED  BY <1>1, <1>2, <1>3

LEMMA AnswerKeepsInv ==
    ASSUME PagesInv, NEW s \in LoadSlots, LoadAnswered(s) \/ LoadFails(s)
    PROVE  PagesInv'
<1>0. PageTypes /\ loads[s] \in LoadRecords /\ InFlight(s)
  BY DEF PagesInv, PageTypes, LoadAnswered, LoadFails, InFlight
<1>1. CASE LoadAnswered(s)
  <2>1. CASE page.latest /\ ~loads[s].latest /\ UNCHANGED <<loading, view>>
    BY <1>0, <1>1, <2>1, LoadOverKeepsInv DEF LoadAnswered
  <2>2. CASE /\ page.latest => loads[s].latest
             /\ loading' = FALSE
             /\ view' = RowsOf(loads[s])
    <3>1. view' \in Views
      BY <1>0, <2>2 DEF LoadRecords, RowsOf, Views
    <3>2. Brings(s) => IsShown'
      BY <1>1, <2>2 DEF LoadAnswered, Brings, IsShown, RowsOf
    <3>3. QED
      BY <1>0, <1>1, <2>2, <3>1, <3>2, LoadOverKeepsInv DEF LoadAnswered
  <2>3. QED  BY <1>1, <2>1, <2>2 DEF LoadAnswered
<1>2. CASE LoadFails(s)
  <2>1. CASE page.latest /\ ~loads[s].latest
    BY <1>0, <1>2, <2>1, LoadOverKeepsInv DEF LoadFails
  <2>2. CASE ~(page.latest /\ ~loads[s].latest)
    <3>1. PICK how \in page.fails : view' = Failed(how)
      BY <1>2, <2>2 DEF LoadFails
    <3>0. how \in {"shown", "empty", "kept"}
      BY <1>0, PageShapes DEF PageTypes, PageShape
    <3>2. loading' = FALSE /\ (page.latest => loads[s].latest)
      BY <1>2, <2>2 DEF LoadFails
    <3>3. view' \in Views
      BY <1>0, <3>0, <3>1, FailureViews DEF PageTypes
    <3>4. how # "kept" => IsShown'
      BY <1>0, <3>0, <3>1, FailureViews DEF PageTypes, IsShown
    <3>5. page.latest \/ Orderly => IsShown'
      BY <1>0, <3>1, <3>4, PageShapes DEF PageTypes, PageShape, Orderly
    <3>6. QED
      BY <1>0, <1>2, <3>2, <3>3, <3>5, LoadOverKeepsInv DEF LoadFails
  <2>3. QED  BY <2>1, <2>2
<1>3. QED  BY <1>1, <1>2

\* The page's own changes.
LEMMA SendKeepsPages ==
    ASSUME PagesInv, NEW k \in ChangeSlots, SendChange(k)
    PROVE  PagesInv'
<1>1. PICK how \in {"reload", "patch"} :
          /\ Offers(how)
          /\ changes' = [changes EXCEPT ![k] = [at |-> "server", how |-> how, nr |-> 0]]
  BY DEF SendChange
<1>2. /\ UNCHANGED <<page, guest, choice, due, loading, loads, served, acked, view>>
      /\ ~guest /\ (page.alone => ~UnderWay /\ ~view.blank)
  BY DEF SendChange
<1>3. /\ changes'[k] = [at |-> "server", how |-> how, nr |-> 0]
      /\ \A j \in ChangeSlots \ {k} : changes'[j] = changes[j]
      /\ changes' \in [ChangeSlots -> ChangeRecords]
  BY <1>1 DEF PagesInv, PageTypes, ChangeRecords
<1>4. PageTypes' /\ ChangesKnown'
  BY <1>1, <1>2, <1>3 DEF PagesInv, PageTypes, ChangesKnown, Offers
<1>5. DropsOld'
  BY <1>2 DEF PagesInv, DropsOld, Newest, InFlight, Brings, IsShown
<1>6. OneByOne'
  <2> SUFFICES ASSUME Orderly, ~page.latest PROVE OneByOne'
    BY <1>2 DEF OneByOne, Orderly
  <2>1. OneByOne
    BY DEF PagesInv
  <2>2. page.alone /\ ~loading
    BY <1>1 DEF Orderly, Offers
  <2>3. ~view.blank /\ \A j \in ChangeSlots : ~Going(j)
    BY <1>2, <2>2 DEF UnderWay, Going
  <2>4. \A s \in LoadSlots : ~InFlight(s)
    BY <1>2, <2>1, <2>2 DEF OneByOne
  <2>5. \A j \in ChangeSlots : Going(j)' => j = k
    BY <1>3, <2>3 DEF Going
  <2>6. QED
    BY <1>2, <2>1, <2>2, <2>3, <2>4, <2>5 DEF OneByOne, InFlight, Brings, IsShown
<1>7. QED  BY <1>4, <1>5, <1>6 DEF PagesInv

LEMMA ServedChangeKeepsInv ==
    ASSUME PagesInv, NEW k \in ChangeSlots, ChangeServed(k) \/ ChangeFails(k)
    PROVE  PagesInv'
<1>1. /\ UNCHANGED <<page, guest, choice, due, loading, loads, acked, view>>
      /\ served' \in Nat /\ served <= served'
      /\ changes' \in [ChangeSlots -> ChangeRecords]
      /\ \A j \in ChangeSlots : /\ changes'[j].how = changes[j].how
                                /\ changes'[j].at # "none" => changes[j].at # "none"
                                /\ Going(j)' => Going(j)
                                /\ changes'[j].at = "back" =>
                                      \/ changes[j].at = "back" /\ changes'[j].nr = changes[j].nr
                                      \/ changes'[j].nr = served'
  <2>1. CASE ChangeServed(k)
    <3>1. /\ changes[k].at = "server" /\ served \in Nat /\ served' = served + 1
          /\ changes[k] \in ChangeRecords
          /\ changes' = [changes EXCEPT ![k] = [@ EXCEPT !.at = "back", !.nr = served']]
      BY <2>1 DEF ChangeServed, PagesInv, PageTypes, ChangeRecords
    <3>2. QED
      BY <2>1, <3>1 DEF ChangeServed, PagesInv, PageTypes, ChangeRecords, Going
  <2>2. CASE ChangeFails(k)
    BY <2>2 DEF ChangeFails, PagesInv, PageTypes, ChangeRecords, Going
  <2>3. QED  BY <2>1, <2>2
<1>2. PageTypes' /\ ChangesKnown'
  BY <1>1 DEF PagesInv, PageTypes, ChangesKnown, ChangeRecords
<1>3. DropsOld'
  BY <1>1 DEF PagesInv, DropsOld, Newest, InFlight, Brings, IsShown
<1>4. OneByOne'
  BY <1>1 DEF PagesInv, OneByOne, Orderly, InFlight, Brings, IsShown
<1>5. QED  BY <1>2, <1>3, <1>4 DEF PagesInv

LEMMA ChangeAnswerKeepsInv ==
    ASSUME PagesInv, NEW k \in ChangeSlots, ChangeAnswered(k)
    PROVE  PagesInv'
<1> DEFINE nr == changes[k].nr
<1>0. /\ PageTypes /\ ChangesKnown /\ page \in AllPages
      /\ changes[k] \in ChangeRecords /\ nr \in Nat /\ nr <= served
      /\ changes[k].at = "back" /\ changes[k].how \in page.does
  BY DEF PagesInv, PageTypes, ChangesKnown, ChangeRecords, ChangeAnswered
<1>1. /\ UNCHANGED <<page, guest, choice, due, served>>
      /\ acked' = Later(acked, nr) /\ acked' \in Nat /\ acked <= acked' /\ acked' <= served
  BY <1>0 DEF ChangeAnswered, Later, PageTypes
<1>2. /\ changes' \in [ChangeSlots -> ChangeRecords]
      /\ \A j \in ChangeSlots \ {k} : changes'[j] = changes[j]
      /\ ~Going(k)' /\ changes'[k].at = "over" /\ changes'[k].how = changes[k].how
  BY <1>0 DEF ChangeAnswered, PageTypes, ChangeRecords, Going
<1>3. ChangesKnown'
  BY <1>0, <1>1, <1>2 DEF ChangesKnown
<1>4. Orderly /\ ~page.latest /\ ~guest =>
          /\ \A s \in LoadSlots : ~InFlight(s)
          /\ \A j \in ChangeSlots : ~Going(j)'
  <2> SUFFICES ASSUME Orderly, ~page.latest, ~guest
               PROVE  /\ \A s \in LoadSlots : ~InFlight(s)
                      /\ \A j \in ChangeSlots : ~Going(j)'
    OBVIOUS
  <2>1. Going(k)
    BY <1>0 DEF Going
  <2>2. /\ \A s \in LoadSlots : ~InFlight(s)
        /\ \A j \in ChangeSlots : Going(j) => j = k
    BY <2>1 DEF PagesInv, OneByOne
  <2>3. \A j \in ChangeSlots \ {k} : Going(j)' <=> Going(j)
    BY <1>2 DEF Going
  <2>4. QED  BY <1>2, <2>2, <2>3
<1>5. CASE changes[k].how = "patch" /\ view' = [view EXCEPT !.has = Later(@, nr)]
           /\ UNCHANGED <<loading, loads>>
  <2>1. ~page.latest
    BY <1>0, <1>5, PageShapes DEF PageShape
  <2>2. /\ view' \in Views
        /\ view'.choice = view.choice /\ view'.failed = view.failed
        /\ view'.hidden = view.hidden /\ view'.blank = view.blank
        /\ view'.has = Later(view.has, nr) /\ view.has \in Nat
    BY <1>0, <1>5 DEF PageTypes, Later, Views
  <2>3. IsShown => IsShown'
    BY <1>0, <1>1, <2>2 DEF IsShown, Later, PageTypes
  <2>4. PageTypes' /\ DropsOld'
    BY <1>0, <1>1, <1>2, <1>5, <2>1, <2>2 DEF PageTypes, DropsOld
  <2>5. OneByOne'
    <3> SUFFICES ASSUME Orderly, ~guest PROVE OneByOne'
      BY <1>1 DEF OneByOne, Orderly
    <3>1. \A s \in LoadSlots : ~InFlight(s) /\ ~InFlight(s)'
      BY <1>4, <1>5, <2>1 DEF InFlight
    <3>2. ~due /\ IsShown
      BY <2>1, <3>1 DEF PagesInv, OneByOne
    <3>3. QED  BY <1>1, <1>4, <2>1, <2>3, <3>1, <3>2 DEF OneByOne
  <2>6. QED  BY <1>3, <2>4, <2>5 DEF PagesInv
<1>6. CASE ~guest /\ Free(1) /\ loads' = Begun(loads, choice) /\ loading' = TRUE
           /\ UNCHANGED view
  <2>1. \E s \in LoadSlots : loads[s].at = "none"
    BY <1>6 DEF Free
  <2>2. Orderly /\ ~page.latest => ~due'
    BY <1>1, <1>6 DEF PagesInv, OneByOne
  <2>3. QED
    BY <1>0, <1>1, <1>2, <1>3, <1>4, <1>6, <2>1, <2>2, LoadBegins DEF PageTypes
<1>7. CASE guest /\ UNCHANGED <<loading, loads, view>>
  <2>1. PageTypes'
    BY <1>0, <1>1, <1>2, <1>7 DEF PageTypes
  <2>2. DropsOld' /\ OneByOne'
    BY <1>1, <1>7 DEF PagesInv, DropsOld, OneByOne, Newest, InFlight
  <2>3. QED  BY <1>3, <2>1, <2>2 DEF PagesInv
<1>8. QED  BY <1>5, <1>6, <1>7 DEF ChangeAnswered

LEMMA GuestKeepsInv ==
    ASSUME PagesInv, BecomeGuest
    PROVE  PagesInv'
<1>1. loads' \in [LoadSlots -> LoadRecords] /\ \A s \in LoadSlots : loads'[s].latest = FALSE
  BY DEF BecomeGuest, PagesInv, PageTypes, LoadRecords
<1>2. PageTypes'
  BY <1>1, PagesAssumption DEF BecomeGuest, PagesInv, PageTypes, Blank, Views
<1>3. ChangesKnown' /\ DropsOld' /\ OneByOne'
  BY <1>1 DEF BecomeGuest, PagesInv, ChangesKnown, DropsOld, OneByOne, Newest
<1>4. QED  BY <1>2, <1>3 DEF PagesInv

LEMMA PagesStep ==
    ASSUME PagesInv, PagesNext \/ UNCHANGED pageVars
    PROVE  PagesInv'
<1>1. CASE UNCHANGED pageVars
  BY <1>1
  DEF pageVars, PagesInv, PageTypes, ChangesKnown, DropsOld, OneByOne, Orderly, Newest,
      InFlight, Brings, IsShown, Going
<1>2. CASE PagesNext
  BY <1>2, ChooseKeepsInv, AskingAgainKeepsInv, ServedLoadKeepsInv, AnswerKeepsInv,
     SendKeepsPages, ServedChangeKeepsInv, ChangeAnswerKeepsInv, GuestKeepsInv
  DEF PagesNext
<1>3. QED  BY <1>1, <1>2

\* Types ------------------------------------------------------------------

(***************************************************************************)
(* The types of the session are inductive.                                 *)
(***************************************************************************)
LEMMA SessionBegins == SessionInit => SessionTypeOK
  BY SessionAssumption DEF SessionInit, SessionTypeOK, NotLeaving, Logouts

LEMMA CookieUsers == SessionTypeOK => CookieUser \in Users \cup {Nobody}
  BY DEF SessionTypeOK, CookieUser

LEMMA ToldTypes ==
    ASSUME NEW boxes \in [Tabs -> 0 .. MaxInbox]
    PROVE  Told(boxes) \in [Tabs -> 0 .. MaxInbox]
  BY SessionAssumption DEF Told

LEMMA LogoutTypes == NotLeaving \in Logouts /\ Revoked \in Logouts
  BY DEF NotLeaving, Revoked, Logouts

LEMMA SignOutTypes ==
    ASSUME SessionTypeOK, NEW t \in Tabs, NEW boxes \in [Tabs -> 0 .. MaxInbox],
           SignOut(t, boxes)
    PROVE  /\ inbox' \in [Tabs -> 0 .. MaxInbox]
           /\ leaving' \in [Tabs -> Logouts]
<1>1. Told(boxes) \in [Tabs -> 0 .. MaxInbox]
  BY ToldTypes
<1>2. inbox' = boxes \/ inbox' = Told(boxes)
  BY DEF SignOut
<1>3. [at |-> "server", with |-> cookie] \in Logouts
  BY DEF SessionTypeOK, Logouts
<1>4. leaving' = leaving \/ leaving' = [leaving EXCEPT ![t] = [at |-> "server", with |-> cookie]]
  BY DEF SignOut
<1>5. QED  BY <1>1, <1>2, <1>3, <1>4 DEF SessionTypeOK

LEMMA SessionStepTypes ==
    ASSUME SessionTypeOK, SessionNext \/ UNCHANGED sessionVars
    PROVE  SessionTypeOK'
<1> USE DEF SessionTypeOK
<1>1. ASSUME NEW t \in Tabs, NEW u \in Users, LogIn(t, u)
      PROVE  SessionTypeOK'
  <2>1. PICK s \in Sids : /\ owner[s] = Nobody
                          /\ owner' = [owner EXCEPT ![s] = u]
                          /\ live' = live \cup {s}
                          /\ cookie' = s
    BY <1>1 DEF LogIn
  <2>2. owner' \in [Sids -> Users \cup {Nobody}] /\ cookie' \in Sids \cup {0}
    BY <2>1
  <2>3. live' \subseteq {r \in Sids : owner'[r] # Nobody}
    BY <2>1, SessionAssumption
  <2>4. QED  BY <1>1, <2>2, <2>3 DEF LogIn
<1>2. ASSUME NEW t \in Tabs, Load(t)
      PROVE  SessionTypeOK'
  <2>1. leaving' \in [Tabs -> Logouts] /\ behind' \in Logouts
    BY <1>2, LogoutTypes DEF Load
  <2>2. /\ shown' \in [Tabs -> Users \cup {Nobody}] /\ inbox' \in [Tabs -> 0 .. MaxInbox]
        /\ probe' \in [Tabs -> Users \cup {Nobody, NoProbe}]
        /\ refused' \in [Tabs -> BOOLEAN] /\ entering' \in [Tabs -> BOOLEAN]
    BY <1>2, CookieUsers, SessionAssumption DEF Load
  <2>3. UNCHANGED <<owner, live, cookie, asked>>
    BY <1>2 DEF Load
  <2>4. QED  BY <2>1, <2>2, <2>3
<1>3. ASSUME NEW t \in Tabs,
             Probe(t) \/ ProbeAnswered(t) \/ ProbeFails(t) \/ FocusOnLoginPage(t)
      PROVE  SessionTypeOK'
  <2> USE DEF Probe, ProbeAnswered, ProbeFails, FocusOnLoginPage
  <2>1. shown' \in [Tabs -> Users \cup {Nobody}]
    BY <1>3
  <2>2. probe' \in [Tabs -> Users \cup {Nobody, NoProbe}]
    BY <1>3, CookieUsers
  <2>3. QED  BY <1>3, <2>1, <2>2
<1>4. ASSUME NEW t \in Tabs, AskSignOut(t)
      PROVE  SessionTypeOK'
  <2>1. asked' \subseteq Sids
    BY <1>4 DEF AskSignOut
  <2>2. SignOut(t, inbox)
    BY <1>4 DEF AskSignOut
  <2>3. /\ inbox' \in [Tabs -> 0 .. MaxInbox]
        /\ leaving' \in [Tabs -> Logouts]
    BY <2>2, SignOutTypes
  <2>4. QED  BY <1>4, <2>1, <2>3 DEF AskSignOut
<1>5. ASSUME NEW t \in Tabs, HearSignOut(t)
      PROVE  SessionTypeOK'
  <2>1. [inbox EXCEPT ![t] = @ - 1] \in [Tabs -> 0 .. MaxInbox]
    BY <1>5, SessionAssumption DEF HearSignOut
  <2>2. SignOut(t, [inbox EXCEPT ![t] = @ - 1])
    BY <1>5 DEF HearSignOut
  <2>3. /\ inbox' \in [Tabs -> 0 .. MaxInbox]
        /\ leaving' \in [Tabs -> Logouts]
    BY <2>1, <2>2, SignOutTypes
  <2>4. QED  BY <1>5, <2>3 DEF HearSignOut
<1>6. ASSUME NEW t \in Tabs, Refuse(t)
      PROVE  SessionTypeOK'
  BY <1>6 DEF Refuse
<1>7. ASSUME NEW t \in Tabs, NotifyExpired(t)
      PROVE  SessionTypeOK'
  <2>1. refused' \in [Tabs -> BOOLEAN] /\ SignOut(t, Told(inbox))
    BY <1>7 DEF NotifyExpired
  <2>2. Told(inbox) \in [Tabs -> 0 .. MaxInbox]
    BY ToldTypes
  <2>3. /\ inbox' \in [Tabs -> 0 .. MaxInbox]
        /\ leaving' \in [Tabs -> Logouts]
    BY <2>1, <2>2, SignOutTypes
  <2>4. QED  BY <1>7, <2>1, <2>3 DEF NotifyExpired
<1>8. ASSUME NEW t \in Tabs, LogoutServed(t)
      PROVE  SessionTypeOK'
  BY <1>8, LogoutTypes DEF LogoutServed
<1>9. ASSUME NEW t \in Tabs, LogoutAnswered(t) \/ LogoutFails(t)
      PROVE  SessionTypeOK'
  <2>1. inbox' \in [Tabs -> 0 .. MaxInbox] /\ cookie' \in Sids \cup {0}
    BY <1>9, ToldTypes DEF LogoutAnswered, LogoutFails, Finish
  <2>2. /\ shown' \in [Tabs -> Users \cup {Nobody}]
        /\ leaving' \in [Tabs -> Logouts]
    BY <1>9, LogoutTypes DEF LogoutAnswered, LogoutFails, Finish
  <2>3. QED  BY <1>9, <2>1, <2>2 DEF LogoutAnswered, LogoutFails, Finish
<1>10. ASSUME NEW s \in Sids, SessionEnds(s)
       PROVE  SessionTypeOK'
  BY <1>10 DEF SessionEnds
<1>11. CASE UNCHANGED sessionVars
  BY <1>11 DEF sessionVars
<1>12. CASE LogoutServedBehind \/ LogoutEndsBehind
  <2>1. behind' \in Logouts
    BY <1>12, LogoutTypes DEF LogoutServedBehind, LogoutEndsBehind, Revoked, Logouts
  <2>2. live' \subseteq live /\ cookie' \in Sids \cup {0}
    BY <1>12 DEF LogoutServedBehind, LogoutEndsBehind
  <2>3. QED  BY <1>12, <2>1, <2>2 DEF LogoutServedBehind, LogoutEndsBehind
<1>13. QED
  <2> HIDE DEF SessionTypeOK
  <2> QED
    BY <1>1, <1>2, <1>3, <1>4, <1>5, <1>6, <1>7, <1>8, <1>9, <1>10, <1>11, <1>12
    DEF SessionNext

(***************************************************************************)
(* No page shows, and no load brings, a change that the backend has not    *)
(* made.                                                                   *)
(***************************************************************************)
DataServed == view.has <= served /\ \A s \in LoadSlots : loads[s].has <= served

LEMMA BegunData ==
    ASSUME NEW ls \in [LoadSlots -> LoadRecords], NEW c, NEW n \in Nat,
           \A s \in LoadSlots : ls[s].has <= n
    PROVE  \A s \in LoadSlots : Begun(ls, c)[s].has <= n
  BY DEF Begun, LoadRecords

LEMMA DataBegins == PagesInit => DataServed
<1> SUFFICES ASSUME PagesInit PROVE DataServed
  OBVIOUS
<1> DEFINE ls == [s \in LoadSlots |-> NoLoad]
<1>1. ls \in [LoadSlots -> LoadRecords] /\ \A s \in LoadSlots : ls[s].has <= 0
  BY PagesAssumption DEF NoLoad, LoadRecords
<1>2. \A s \in LoadSlots : Begun(ls, First)[s].has <= 0
  <2> HIDE DEF ls
  <2> QED  BY <1>1, BegunData
<1>3. QED  BY <1>1, <1>2 DEF PagesInit, DataServed, Blank

LEMMA DataStep ==
    ASSUME PagesInv, DataServed, PagesNext \/ UNCHANGED pageVars
    PROVE  DataServed'
<1>1. /\ loads \in [LoadSlots -> LoadRecords] /\ served \in Nat
      /\ changes \in [ChangeSlots -> ChangeRecords]
      /\ view \in Views
      /\ choice \in Choices
  BY DEF PagesInv, PageTypes
<1>2. \A s \in LoadSlots : loads[s].has \in Nat
  BY <1>1 DEF LoadRecords
<1>3. \A c : \A s \in LoadSlots : Begun(loads, c)[s].has <= served
  BY <1>1, BegunData DEF DataServed
<1>4. ASSUME NEW c \in Choices, Choose(c)
      PROVE  DataServed'
  <2>1. ASSUME NEW old \in Choices, loads' = Begun(Begun(loads, old), c)
        PROVE  \A s \in LoadSlots : loads'[s].has <= served
    <3>1. Begun(loads, old) \in [LoadSlots -> LoadRecords]
      BY <1>1, BegunTypes
    <3>2. QED  BY <1>1, <1>3, <2>1, <3>1, BegunData
  <2>2. \A s \in LoadSlots : loads'[s].has <= served
    BY <1>3, <1>4, <2>1 DEF Choose, DataServed
  <2>3. QED  BY <1>4, <2>2 DEF Choose, DataServed
<1>5. CASE TimerFires \/ Retry
  BY <1>3, <1>5 DEF TimerFires, Retry, LoadAgain, DataServed
<1>6. ASSUME NEW s \in LoadSlots, LoadServed(s)
      PROVE  DataServed'
  BY <1>1, <1>6 DEF LoadServed, DataServed, LoadRecords
<1>7. ASSUME NEW s \in LoadSlots, LoadAnswered(s) \/ LoadFails(s)
      PROVE  DataServed'
  <2>1. \A r \in LoadSlots : loads'[r].has <= served
    BY <1>1, <1>7 DEF LoadAnswered, LoadFails, DataServed, NoLoad
  <2>2. view'.has <= served
    <3>1. view.has <= served /\ loads[s].has <= served
      BY <1>7 DEF DataServed
    <3>2. CASE LoadAnswered(s)
      BY <3>1, <3>2 DEF LoadAnswered, RowsOf
    <3>3. CASE LoadFails(s)
      <4>1. view' = view \/ \E how \in page.fails : view' = Failed(how)
        BY <3>3 DEF LoadFails
      <4>2. page.fails \subseteq {"shown", "empty", "kept"}
        BY PageShapes DEF PagesInv, PageTypes, PageShape
      <4>3. view'.has \in {view.has, 0}
        BY <1>1, <4>1, <4>2, FailureViews
      <4>4. QED  BY <1>1, <3>1, <4>3
    <3>4. QED  BY <1>7, <3>2, <3>3
  <2>3. QED  BY <1>7, <2>1, <2>2 DEF LoadAnswered, LoadFails, DataServed
<1>8. ASSUME NEW k \in ChangeSlots, SendChange(k) \/ ChangeFails(k)
      PROVE  DataServed'
  BY <1>8 DEF SendChange, ChangeFails, DataServed
<1>9. ASSUME NEW k \in ChangeSlots, ChangeServed(k)
      PROVE  DataServed'
  BY <1>1, <1>2, <1>9 DEF ChangeServed, DataServed, Views
<1>10. ASSUME NEW k \in ChangeSlots, ChangeAnswered(k)
       PROVE  DataServed'
  <2>1. changes[k].nr <= served /\ changes[k].nr \in Nat
    BY <1>1, <1>10 DEF ChangeAnswered, PagesInv, ChangesKnown, ChangeRecords
  <2>2. view'.has <= served
    BY <1>1, <1>10, <2>1 DEF ChangeAnswered, DataServed, Later, Views
  <2>3. \A s \in LoadSlots : loads'[s].has <= served
    BY <1>3, <1>10 DEF ChangeAnswered, DataServed
  <2>4. QED  BY <1>10, <2>2, <2>3 DEF ChangeAnswered, DataServed
<1>11. CASE BecomeGuest
  <2>1. \A s \in LoadSlots : loads'[s].has <= served
    BY <1>1, <1>11 DEF BecomeGuest, DataServed, LoadRecords
  <2>2. view'.has <= served
    BY <1>1, <1>11 DEF BecomeGuest, DataServed, Blank
  <2>3. QED  BY <1>11, <2>1, <2>2 DEF BecomeGuest, DataServed
<1>12. CASE UNCHANGED pageVars
  BY <1>12 DEF pageVars, DataServed
<1>13. QED
  BY <1>4, <1>5, <1>6, <1>7, <1>8, <1>9, <1>10, <1>11, <1>12 DEF PagesNext

(***************************************************************************)
(* A submission has as many checks left as it began with, or fewer.        *)
(***************************************************************************)
TryRecords == [at : TryStates, left : 0 .. 2, visit : 0 .. MaxVisits]

FormBounds ==
    /\ signedIn \in BOOLEAN /\ blocked \in BOOLEAN
    /\ heading \in BOOLEAN /\ gone \in BOOLEAN
    /\ blocks \in 0 .. MaxBlocks /\ visit \in 1 .. MaxVisits
    /\ try \in [Tries -> TryRecords]
    /\ \A r \in Tries : try[r].at = "check" => try[r].left # 0

LEMMA ChecksOfForms ==
    ASSUME NEW f \in AllForms
    PROVE  f.checks \in 0 .. 2 /\ f.stays \in BOOLEAN
<1> USE DEF WithdrawForm, ConfirmContent, DepositForm, ScheduledPaymentForm, CreateGoalForm,
            CreateEnvelopeForm, DestinationForm, LoginPage, RegisterPage, Form
<1>1. f \in {WithdrawForm, ConfirmContent} => f.checks = 2 /\ f.stays = FALSE
  OBVIOUS
<1>2. f = ScheduledPaymentForm => f.checks = 1 /\ f.stays = FALSE
  OBVIOUS
<1>3. f \in {DepositForm, CreateGoalForm, CreateEnvelopeForm} => f.checks = 0 /\ f.stays = FALSE
  OBVIOUS
<1>4. f = DestinationForm => f.checks = 0 /\ f.stays = TRUE
  OBVIOUS
<1>5. f \in {LoginPage, RegisterPage} => f.checks = 0 /\ f.stays = FALSE
  OBVIOUS
<1> HIDE DEF WithdrawForm, ConfirmContent, DepositForm, ScheduledPaymentForm, CreateGoalForm,
             CreateEnvelopeForm, DestinationForm, LoginPage, RegisterPage, Form
<1>6. \/ f \in {WithdrawForm, ConfirmContent} \/ f = ScheduledPaymentForm
      \/ f \in {DepositForm, CreateGoalForm, CreateEnvelopeForm}
      \/ f = DestinationForm \/ f \in {LoginPage, RegisterPage}
  BY DEF AllForms
<1>7. f.checks \in {0, 1, 2} /\ f.stays \in BOOLEAN
  BY <1>1, <1>2, <1>3, <1>4, <1>5, <1>6
<1>8. QED  BY <1>7

LEMMA BoundsBegin == FormsInit => FormBounds
<1> SUFFICES ASSUME FormsInit PROVE FormBounds
  OBVIOUS
<1>1. Idle \in TryRecords /\ Idle.at = "none"
  BY FormsAssumption DEF Idle, TryRecords, TryStates
<1>2. /\ try \in [Tries -> TryRecords]
      /\ \A r \in Tries : try[r].at = "check" => try[r].left # 0
  BY <1>1 DEF FormsInit
<1>3. blocks \in 0 .. MaxBlocks /\ visit \in 1 .. MaxVisits
  BY FormsAssumption DEF FormsInit
<1>4. QED  BY <1>2, <1>3 DEF FormsInit, FormBounds

LEMMA TryBounds ==
    ASSUME FormsInv, FormBounds, NEW r \in Tries,
           \/ Submit(r) \/ CheckPasses(r) \/ CheckFails(r)
           \/ Served(r) \/ ServedLate(r) \/ Succeeds(r) \/ Fails(r)
    PROVE  FormBounds'
<1>1. /\ try[r] \in TryRecords /\ try[r].left \in 0 .. 2 /\ try[r].visit \in 0 .. MaxVisits
      /\ try[r] = [at |-> try[r].at, left |-> try[r].left, visit |-> try[r].visit]
      /\ try \in [Tries -> TryRecords] /\ form \in AllForms /\ visit \in 0 .. MaxVisits
  BY FormsAssumption DEF FormBounds, TryRecords, FormsInv, FormTypes
<1>2. \A s : [try EXCEPT ![r].at = s]
               = [try EXCEPT ![r] = [at |-> s, left |-> try[r].left, visit |-> try[r].visit]]
  BY AtMoves
<1>3. \E s \in TryStates, n \in 0 .. 2, v \in 0 .. MaxVisits :
          /\ try' = [try EXCEPT ![r] = [at |-> s, left |-> n, visit |-> v]]
          /\ s = "check" => n # 0
  <2>1. CASE Submit(r)
    <3>1. form.checks \in 0 .. 2
      BY <1>1, ChecksOfForms
    <3>2. QED  BY <1>1, <2>1, <3>1 DEF Submit, TryStates
  <2>2. CASE CheckPasses(r)
    <3>1. try[r].left # 0
      BY <1>1, <2>2 DEF CheckPasses, FormBounds
    <3> DEFINE s == IF try[r].left = 1 THEN "server" ELSE "check"
               n == try[r].left - 1
    <3>2. s \in TryStates /\ n \in 0 .. 2 /\ (s = "check" => n # 0)
      BY <1>1, <3>1 DEF TryStates
    <3>3. try' = [try EXCEPT ![r] = [at |-> s, left |-> n, visit |-> try[r].visit]]
      BY <1>1, <2>2 DEF CheckPasses
    <3> HIDE DEF s, n
    <3>4. QED  BY <1>1, <3>2, <3>3
  <2>3. CASE CheckFails(r) \/ Served(r) \/ ServedLate(r) \/ Succeeds(r) \/ Fails(r)
    <3>1. PICK s \in {"late", "done", "refused", "did", "over"} :
              try' = [try EXCEPT ![r].at = s]
      BY <2>3 DEF CheckFails, Served, ServedLate, Succeeds, Fails
    <3>2. s \in TryStates /\ s # "check"
      BY DEF TryStates
    <3>3. QED  BY <1>1, <1>2, <3>1, <3>2
  <2>4. QED  BY <2>1, <2>2, <2>3
<1>4. PICK s \in TryStates, n \in 0 .. 2, v \in 0 .. MaxVisits :
          /\ try' = [try EXCEPT ![r] = [at |-> s, left |-> n, visit |-> v]]
          /\ s = "check" => n # 0
  BY <1>3
<1>5. /\ try' \in [Tries -> TryRecords]
      /\ \A q \in Tries : try'[q].at = "check" => try'[q].left # 0
  <2>1. [at |-> s, left |-> n, visit |-> v] \in TryRecords
    BY DEF TryRecords
  <2>2. QED  BY <1>1, <1>4, <2>1 DEF FormBounds
<1>6. heading' \in BOOLEAN
  BY <1>1, ChecksOfForms
  DEF FormBounds, Submit, CheckPasses, CheckFails, Served, ServedLate, Succeeds, Fails, ShowError
<1>7. UNCHANGED <<signedIn, blocked, blocks, visit, gone>>
  BY DEF Submit, CheckPasses, CheckFails, Served, ServedLate, Succeeds, Fails, ShowError
<1>8. QED  BY <1>5, <1>6, <1>7 DEF FormBounds

LEMMA BoundsStep ==
    ASSUME FormsInv, FormBounds, FormsNext \/ UNCHANGED formVars
    PROVE  FormBounds'
<1>1. ASSUME NEW r \in Tries,
             \/ Submit(r) \/ CheckPasses(r) \/ CheckFails(r)
             \/ Served(r) \/ ServedLate(r) \/ Succeeds(r) \/ Fails(r)
      PROVE  FormBounds'
  BY <1>1, TryBounds
<1>2. ASSUME \/ BlockBegins \/ BlockEnds \/ SessionChanges \/ NextPageLoads \/ LeaveForm
             \/ OpenAnew \/ GoBack \/ UNCHANGED formVars
      PROVE  FormBounds'
  <2> USE DEF BlockBegins, BlockEnds, SessionChanges, NextPageLoads, LeaveForm, OpenAnew, GoBack,
              formVars
  <2>1. try' = try
    BY <1>2
  <2>2. blocks' \in 0 .. MaxBlocks /\ visit' \in 1 .. MaxVisits
    BY <1>2, FormsAssumption DEF FormBounds
  <2>3. /\ signedIn' \in BOOLEAN /\ blocked' \in BOOLEAN
        /\ heading' \in BOOLEAN /\ gone' \in BOOLEAN
    BY <1>2 DEF FormBounds
  <2>4. QED  BY <2>1, <2>2, <2>3 DEF FormBounds
<1>3. QED
  BY <1>1, <1>2 DEF FormsNext

(***************************************************************************)
(* What a list has, has shown and is asked for: rows that were created.    *)
(***************************************************************************)
ListRecords ==
    [page : Nat \ {0}, rows : SUBSET Rows, seen : BOOLEAN, total : Nat \cup {Unread}]

ListBounds == ListingTypeOK /\ query \in ListRecords /\ query.rows \subseteq 1 .. born

LEMMA AskTypes ==
    ASSUME NEW p \in Nat \ {0}
    PROVE  /\ Ask(p) \in ListRecords /\ Ask(p).page = p /\ Ask(p).rows = {}
           /\ Ask(p).total = Unread
  BY DEF Ask, ListRecords, Rows

LEMMA RowsAreFinite ==
    ASSUME ListBounds
    PROVE  /\ born \in Nat /\ 1 .. born \subseteq Rows
           /\ \A s \in SUBSET (1 .. born) : IsFiniteSet(s) /\ Cardinality(s) \in Nat
<1>1. born \in 0 .. MaxRows /\ MaxRows \in Nat
  BY ListingAssumption DEF ListBounds, ListingTypeOK
<1>2. IsFiniteSet(1 .. born)
  BY <1>1, FS_Interval
<1>3. \A s \in SUBSET (1 .. born) : IsFiniteSet(s) /\ Cardinality(s) \in Nat
  BY <1>2, FS_Subset, FS_CardinalityType
<1>4. QED  BY <1>1, <1>3 DEF Rows

LEMMA ListTypesBegin == ListingInit => ListBounds
<1> SUFFICES ASSUME ListingInit PROVE ListBounds
  OBVIOUS
<1>1. /\ query \in ListRecords /\ query.page = 1 /\ query.rows = {} /\ query.total = Unread
  BY AskTypes DEF ListingInit
<1>2. Cardinality({}) = 0
  BY FS_EmptySet
<1>3. /\ list \in Lists /\ born \in 0 .. MaxRows /\ rows = 1 .. born /\ start = rows
      /\ got = {} /\ len = 0
  BY DEF ListingInit
<1>4. reader \in {"all", "export", "walk"}
  BY DEF ListingInit
<1>5. len \in Nat /\ Cardinality(got) <= len
  BY <1>2, <1>3
<1>6. QED  BY <1>1, <1>3, <1>4, <1>5 DEF ListBounds, ListingTypeOK

LEMMA ReceiveTypes ==
    ASSUME ListBounds, ReceivePage
    PROVE  ListBounds'
<1>1. /\ got \subseteq 1 .. born /\ query.rows \subseteq 1 .. born /\ query.page \in Nat \ {0}
      /\ len \in Nat /\ Cardinality(got) <= len
  BY DEF ListBounds, ListingTypeOK
<1>2. /\ IsFiniteSet(got) /\ Cardinality(got) \in Nat
      /\ IsFiniteSet(query.rows) /\ Cardinality(query.rows) \in Nat
      /\ IsFiniteSet(got \cap query.rows) /\ Cardinality(got \cap query.rows) \in Nat
  BY <1>1, RowsAreFinite
<1>3. Cardinality(got \cup query.rows) =
          Cardinality(got) + Cardinality(query.rows) - Cardinality(got \cap query.rows)
  BY <1>2, FS_Union
<1>4. len' \in Nat /\ Cardinality(got') <= len' /\ got' \subseteq 1 .. born
  <2>1. got' = got \cup query.rows /\ len' = len + Cardinality(query.rows)
    BY DEF ReceivePage, Length
  <2>2. Cardinality(got \cup query.rows) <= Cardinality(got) + Cardinality(query.rows)
    BY <1>2, <1>3
  <2>3. Cardinality(got') <= len'
    BY <1>1, <1>2, <2>1, <2>2, <1>3
  <2>4. len' \in Nat
    BY <1>1, <1>2, <2>1
  <2>5. got' \subseteq 1 .. born
    BY <1>1, <2>1
  <2>6. QED  BY <2>3, <2>4, <2>5
<1>5. NextPage(query.page) \in Nat \ {0}
  BY <1>1 DEF NextPage
<1> DEFINE p == IF GoesOn THEN NextPage(query.page) ELSE query.page
<1>6. p \in Nat \ {0} /\ query' = Ask(p)
  BY <1>1, <1>5 DEF ReceivePage
<1> HIDE DEF p
<1>7. /\ query' \in ListRecords /\ query'.page \in Nat \ {0} /\ query'.rows = {}
      /\ query'.total = Unread
  BY <1>6, AskTypes
<1>8. UNCHANGED <<list, reader, rows, born, start>>
  BY DEF ReceivePage
<1>9. ListingTypeOK'
  BY <1>4, <1>7, <1>8 DEF ListBounds, ListingTypeOK
<1>10. QED  BY <1>7, <1>8, <1>9 DEF ListBounds, ListRecords

LEMMA ListStepTypes ==
    ASSUME ListBounds, ListingNext \/ UNCHANGED listingVars
    PROVE  ListBounds'
<1>1. /\ born \in Nat /\ 1 .. born \subseteq Rows
      /\ \A s \in SUBSET (1 .. born) : IsFiniteSet(s) /\ Cardinality(s) \in Nat
  BY RowsAreFinite
<1>2. /\ query \in ListRecords /\ rows \subseteq 1 .. born /\ start \subseteq 1 .. born
      /\ got \subseteq 1 .. born /\ query.rows \subseteq 1 .. born /\ born \in 0 .. MaxRows
  BY DEF ListBounds, ListingTypeOK
<1>3. CASE Insert
  <2>1. born' = born + 1 /\ born' \in 0 .. MaxRows /\ rows' = rows \cup {born + 1}
    BY <1>2, <1>3, ListingAssumption DEF Insert
  <2>2. 1 .. born \subseteq 1 .. born' /\ born + 1 \in 1 .. born'
    BY <1>1, <2>1
  <2>3. /\ rows' \subseteq 1 .. born' /\ start \subseteq 1 .. born'
        /\ got \subseteq 1 .. born' /\ query.rows \subseteq 1 .. born'
    BY <1>2, <2>1, <2>2
  <2>4. QED  BY <1>3, <2>1, <2>3 DEF Insert, ListBounds, ListingTypeOK
<1>4. CASE Leave
  <2>1. rows' \subseteq 1 .. born
    BY <1>2, <1>4 DEF Leave
  <2>2. QED  BY <1>4, <2>1 DEF Leave, ListBounds, ListingTypeOK
<1>5. CASE ReadRows
  <2> DEFINE new == [query EXCEPT !.rows = Page(query.page), !.seen = TRUE]
  <2>1. Page(query.page) \subseteq 1 .. born
    BY <1>2 DEF Page
  <2>2. /\ new \in ListRecords /\ new.page = query.page /\ new.rows = Page(query.page)
        /\ new.total = query.total
    BY <1>1, <1>2, <2>1 DEF ListRecords
  <2>3. query' = new
    BY <1>5 DEF ReadRows
  <2> HIDE DEF new
  <2>4. QED
    BY <1>1, <1>5, <2>1, <2>2, <2>3 DEF ReadRows, ListBounds, ListingTypeOK
<1>6. CASE CountRows
  <2> DEFINE new == [query EXCEPT !.total = Cardinality(rows)]
  <2>1. Cardinality(rows) \in Nat
    BY <1>1, <1>2
  <2>2. /\ new \in ListRecords /\ new.page = query.page /\ new.rows = query.rows
        /\ new.total = Cardinality(rows)
    BY <1>2, <2>1 DEF ListRecords
  <2>3. query' = new
    BY <1>6 DEF CountRows
  <2> HIDE DEF new
  <2>4. QED
    BY <1>6, <2>1, <2>2, <2>3 DEF CountRows, ListBounds, ListingTypeOK
<1>7. CASE ReceivePage
  BY <1>7, ReceiveTypes
<1>8. CASE UNCHANGED listingVars
  BY <1>8 DEF listingVars, ListBounds, ListingTypeOK
<1>9. QED  BY <1>3, <1>4, <1>5, <1>6, <1>7, <1>8 DEF ListingNext

\* The browser ------------------------------------------------------------

BrowserInv == CooldownsInv /\ PagesInv /\ FormsInv /\ ListInv

(***************************************************************************)
(* Cooldowns, pages, locks and lists are as they should be in every state  *)
(* that can be reached, whichever machine runs.                            *)
(***************************************************************************)
THEOREM BrowserIsSafe == BrowserSpec => []BrowserInv
<1>1. BrowserInit => BrowserInv
  BY CooldownsBegin, PagesBegin, FormsBegin, ListBegins DEF BrowserInit, BrowserInv
<1>2. BrowserInv /\ [BrowserNext]_browserVars => BrowserInv'
  <2> SUFFICES ASSUME BrowserInv, [BrowserNext]_browserVars PROVE BrowserInv'
    OBVIOUS
  <2>1. /\ CooldownsNext \/ UNCHANGED cooldownVars
        /\ PagesNext \/ UNCHANGED pageVars
        /\ FormsNext \/ UNCHANGED formVars
        /\ ListingNext \/ UNCHANGED listingVars
    BY DEF BrowserNext, CooldownsRun, SessionRuns, PagesRun, FormsRun, ListsRun, browserVars
  <2>2. CooldownsInv'
    BY <2>1, CooldownsStep DEF BrowserInv
  <2>3. FormsInv'
    BY <2>1, FormsStep DEF BrowserInv
  <2>4. ListInv'
    BY <2>1, ListStep DEF BrowserInv
  <2>5. PagesInv'
    BY <2>1, PagesStep DEF BrowserInv
  <2>6. QED  BY <2>2, <2>3, <2>4, <2>5 DEF BrowserInv
<1>3. QED  BY <1>1, <1>2, PTL DEF BrowserSpec

(***************************************************************************)
(* A cooldown outlasts every window that the tab was told of, for all      *)
(* windows, limits and delays.                                             *)
(***************************************************************************)
THEOREM CooldownsAreLongEnough == BrowserSpec => []CooldownCoversWindow
  BY BrowserIsSafe, PTL DEF BrowserInv, CooldownsInv

(***************************************************************************)
(* No window refuses a request of the tab that was sent after the tab had  *)
(* been told of it.                                                        *)
(***************************************************************************)
THEOREM NobodyIsRefusedTwice == BrowserSpec => []NotRefusedTwice
<1>1. BrowserInv => NotRefusedTwice
  <2> SUFFICES ASSUME BrowserInv, NEW q \in Calls, request[q].state = "refused",
                      NEW w \in request[q].knew
               PROVE  ~(w.limiter = request[q].by /\ w.ends = request[q].ends)
    BY DEF NotRefusedTwice
  <2>1. w.ends < request[q].ends /\ w.ends \in Nat
    BY DEF BrowserInv, CooldownsInv, CooldownTypes, CallInv, CallRecords, Windows
  <2>2. QED  BY <2>1
<1>2. QED  BY <1>1, BrowserIsSafe, PTL

(***************************************************************************)
(* Whatever answers overtake each other: a page that is orderly shows the  *)
(* newest data of the newest choice once nothing is under way, or what it  *)
(* makes of the last load if that has failed (an error, or no rows at      *)
(* all); and a page that wipes its rows shows none to a guest.             *)
(***************************************************************************)
THEOREM NewestIsAlwaysShown == BrowserSpec => []NewestIsShown
<1>1. BrowserInv => NewestIsShown
  <2> SUFFICES ASSUME BrowserInv, Orderly, AtRest
               PROVE  IF guest THEN page.latest /\ page.wipes => view = Blank
                               ELSE IsShown
    BY DEF NewestIsShown, IsShown
  <2>1. ~due /\ \A s \in LoadSlots : ~InFlight(s) /\ ~Newest(s)
    BY DEF AtRest, InFlight, Newest
  <2>2. guest \in BOOLEAN /\ DropsOld /\ OneByOne
    BY DEF BrowserInv, PagesInv, PageTypes
  <2>3. CASE page.latest
    BY <2>1, <2>2, <2>3 DEF DropsOld
  <2>4. CASE ~page.latest
    BY <2>1, <2>2, <2>4 DEF OneByOne
  <2>5. QED  BY <2>3, <2>4
<1>2. QED  BY <1>1, BrowserIsSafe, PTL

(***************************************************************************)
(* However often a form is sent, left and opened again: one that keeps its *)
(* lock asks again, as long as it is open, only after an error it has      *)
(* shown or the end of a cooldown, also when answers to what was asked in  *)
(* an earlier visit arrive; and no other has two submissions under way.    *)
(***************************************************************************)
THEOREM FormsAskOnce == BrowserSpec => []AskedOnce
<1>1. BrowserInv => AskedOnce
  <2> SUFFICES ASSUME BrowserInv PROVE AskedOnce
    OBVIOUS
  <2>1. ASSUME ~form.releases PROVE Cardinality(Asked) <= excuses + 1
    <3>1. Cardinality(Asked) <= excuses + (IF locked THEN 1 ELSE 0)
      BY <2>1 DEF BrowserInv, FormsInv, ExcusesSuffice
    <3>2. excuses \in Nat /\ Cardinality(Asked) \in Nat
      BY AskedIsFinite DEF BrowserInv, FormsInv, FormTypes
    <3>3. QED  BY <3>1, <3>2
  <2>2. ASSUME ~form.unlocks PROVE Cardinality(Trying) <= 1
    <3>1. \A q, r \in Trying : q = r
      BY <2>2 DEF BrowserInv, FormsInv, LockHolds
    <3>2. CASE Trying = {}
      BY <3>2, FS_EmptySet
    <3>3. ASSUME NEW r \in Trying PROVE Cardinality(Trying) <= 1
      <4>1. Trying = {r}
        BY <3>1, <3>3
      <4>2. Cardinality({r}) = 1
        BY FS_Singleton
      <4>3. QED  BY <4>1, <4>2
    <3>4. QED  BY <3>2, <3>3
  <2>3. QED  BY <2>1, <2>2 DEF AskedOnce
<1>2. QED  BY <1>1, BrowserIsSafe, PTL

(***************************************************************************)
(* Whoever reads a list to its end has seen every row that was there at    *)
(* the beginning, for pages of any size and any number of new rows.        *)
(***************************************************************************)
THEOREM ListsMissNothing == BrowserSpec => []ListMissesNothing
<1>1. BrowserInv => ListMissesNothing
  BY DEF BrowserInv, ListInv, ListEnded, Steady, ListMissesNothing
<1>2. QED  BY <1>1, BrowserIsSafe, PTL

(***************************************************************************)
(* What every state keeps to, whichever machine runs.                      *)
(***************************************************************************)
BrowserBounds ==
    part \in Parts /\ SessionTypeOK /\ DataServed /\ FormBounds /\ ListBounds

LEMMA PartsAreTyped ==
    ASSUME BrowserInv, BrowserBounds
    PROVE  BrowserTypeOK
<1>1. CooldownsTypeOK
  BY DEF BrowserInv, CooldownsInv, CooldownTypes, CallInv, CallRecords, CooldownsTypeOK
<1>2. PagesTypeOK
  <2>1. view.choice \in Choices /\ view.has \in Nat /\ served \in Nat /\ acked \in 0 .. served
    BY DEF BrowserInv, PagesInv, PageTypes, Views
  <2>2. view.has \in 0 .. served
    BY <2>1 DEF BrowserBounds, DataServed
  <2>3. QED
    BY <2>1, <2>2
    DEF BrowserInv, PagesInv, PageTypes, PagesTypeOK, LoadRecords, ChangeRecords
<1>3. FormsTypeOK
  BY DEF BrowserInv, FormsInv, FormTypes, BrowserBounds, FormBounds, TryRecords, TryStates,
         FormsTypeOK
<1>4. QED  BY <1>1, <1>2, <1>3 DEF BrowserBounds, ListBounds, BrowserTypeOK

(***************************************************************************)
(* Every part of the browser keeps to its types: a tab is never behind or  *)
(* ahead of the messages it is owed, no page shows a change that the       *)
(* backend has not made, no submission is of a visit that has not begun,   *)
(* and no list counts fewer rows than it shows.                            *)
(***************************************************************************)
THEOREM BrowserTypesHold == BrowserSpec => []BrowserTypeOK
<1>1. BrowserInit => BrowserBounds
  BY SessionBegins, PagesBegin, DataBegins, BoundsBegin, ListTypesBegin
  DEF BrowserInit, BrowserBounds
<1>2. BrowserInv /\ BrowserBounds /\ [BrowserNext]_browserVars => BrowserBounds'
  <2> SUFFICES ASSUME BrowserInv, BrowserBounds, [BrowserNext]_browserVars
               PROVE  BrowserBounds'
    OBVIOUS
  <2>1. /\ SessionNext \/ UNCHANGED sessionVars
        /\ PagesNext \/ UNCHANGED pageVars
        /\ FormsNext \/ UNCHANGED formVars
        /\ ListingNext \/ UNCHANGED listingVars
        /\ part' = part
    BY DEF BrowserNext, CooldownsRun, SessionRuns, PagesRun, FormsRun, ListsRun, browserVars
  <2>2. SessionTypeOK'
    BY <2>1, SessionStepTypes DEF BrowserBounds
  <2>3. DataServed'
    BY <2>1, DataStep DEF BrowserInv, BrowserBounds
  <2>4. FormBounds'
    BY <2>1, BoundsStep DEF BrowserInv, BrowserBounds
  <2>5. ListBounds'
    BY <2>1, ListStepTypes DEF BrowserBounds
  <2>6. QED  BY <2>1, <2>2, <2>3, <2>4, <2>5 DEF BrowserBounds
<1>3. QED  BY <1>1, <1>2, BrowserIsSafe, PartsAreTyped, PTL DEF BrowserSpec
=============================================================================
