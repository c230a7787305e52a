-------------------------- MODULE OperationsProofs --------------------------
(***************************************************************************)
(* The throttle of failed operations, the report of abuse, the answer to a *)
(* payment and the destinations, for any number of requests, rows and      *)
(* failures.                                                               *)
(***************************************************************************)
EXTENDS Operations, FiniteSetTheorems, TLAPS

(***************************************************************************)
(* What is known of a request between its statements.                      *)
(***************************************************************************)
StageInv(r) ==
    /\ stage[r] # "idle" => job[r].kind \in Kinds /\ job[r].dest \in Dests
    /\ stage[r] \in {"allowed", "pay", "tell", "record", "count", "report"} =>
           job[r].kind \in Payments
    /\ stage[r] \in {"allowed", "pay"} => ~job[r].paid
    /\ stage[r] \in {"tell", "find", "write"} /\ job[r].kind \in Payments => job[r].paid
    /\ stage[r] \in {"allowed", "pay", "tell", "find", "write"} => answer[r] = "none"
    /\ stage[r] \in {"record", "count", "report"} => answer[r] = "error" /\ ~job[r].paid

Confirmed(r) ==
    job[r].kind \in Payments /\ answer[r] # "none" => (answer[r] = "ok") = job[r].paid

\* What upsertDestination has found is still there, unless somebody has
\* changed it meanwhile.
SeenIsThere(r) ==
    stage[r] = "write" /\ ~job[r].overlapped => row[job[r].dest] = job[r].seen

RequestInv(r) == StageInv(r) /\ Confirmed(r) /\ SeenIsThere(r)

(***************************************************************************)
(* A request that has passed assertOperationAllowed, and has not recorded  *)
(* a failure yet, counts like a failure.                                   *)
(***************************************************************************)
MayFail == {r \in Reqs : stage[r] \in {"pay", "record"}}
RoomForFailures == failed + Cardinality(MayFail) <= MaxFailed - 1 + Cardinality(Reqs)

(***************************************************************************)
(* The inductive invariant.                                                *)
(***************************************************************************)
OperationsInv ==
    /\ OperationsTypeOK
    /\ \A r \in Reqs : RequestInv(r)
    /\ RoomForFailures
    /\ AbuseIsReported

LEMMA Names ==
    /\ Nothing \notin Ids /\ Nothing \notin Dests
    /\ "own" \notin Reqs
    /\ NoRow \in Rows /\ NoJob \in Jobs
    /\ NoJob.kind \notin Kinds /\ ~NoJob.paid
  BY OperationsAssumption DEF NoRow, Rows, NoJob, Jobs, Kinds, Payments

LEMMA MayFailIsFinite ==
    ASSUME NEW S \in SUBSET Reqs
    PROVE  IsFiniteSet(S) /\ Cardinality(S) \in Nat /\ Cardinality(S) <= Cardinality(Reqs)
           /\ Cardinality(Reqs) \in Nat
  BY OperationsAssumption, FS_Subset, FS_CardinalityType

LEMMA InitHolds == OperationsInit => OperationsInv
<1> SUFFICES ASSUME OperationsInit PROVE OperationsInv
  OBVIOUS
<1>1. OperationsTypeOK
  <2>1. row \in [Dests -> Rows] /\ {row[d].id : d \in Dests} \subseteq used \cup {Nothing}
    BY Names DEF OperationsInit, NoRow
  <2>2. job \in [Reqs -> Jobs]
    BY Names DEF OperationsInit
  <2>3. QED
    BY <2>1, <2>2 DEF OperationsInit, OperationsTypeOK
<1>2. \A r \in Reqs : RequestInv(r)
  BY Names DEF OperationsInit, RequestInv, StageInv, Confirmed, SeenIsThere
<1>3. RoomForFailures
  <2>1. MayFail = {}
    BY DEF OperationsInit, MayFail
  <2>2. QED
    BY <2>1, FS_EmptySet, MayFailIsFinite, OperationsAssumption
    DEF OperationsInit, RoomForFailures
<1>4. AbuseIsReported
  BY OperationsAssumption DEF OperationsInit, AbuseIsReported
<1>5. QED  BY <1>1, <1>2, <1>3, <1>4 DEF OperationsInv

(***************************************************************************)
(* What a step may do to request q without its noticing.                   *)
(***************************************************************************)
Unnoticed(q) ==
    /\ stage'[q] = stage[q] /\ answer'[q] = answer[q]
    /\ job'[q].kind = job[q].kind /\ job'[q].dest = job[q].dest
    /\ job'[q].seen = job[q].seen /\ job'[q].paid = job[q].paid
    /\ \/ job'[q].overlapped
       \/ stage[q] = "idle"
       \/ ~job[q].overlapped /\ row'[job[q].dest] = row[job[q].dest]

LEMMA UnnoticedKeepsInv ==
    ASSUME NEW q \in Reqs, RequestInv(q), Unnoticed(q)
    PROVE  RequestInv(q)'
<1>1. StageInv(q)'
  BY DEF RequestInv, StageInv, Unnoticed
<1>2. Confirmed(q)'
  BY DEF RequestInv, Confirmed, Unnoticed
<1>3. SeenIsThere(q)'
  BY DEF RequestInv, SeenIsThere, Unnoticed
<1>4. QED  BY <1>1, <1>2, <1>3 DEF RequestInv

(***************************************************************************)
(* What Finish makes of the requests.                                      *)
(***************************************************************************)
LEMMA FinishShape ==
    ASSUME OperationsTypeOK, NEW r \in Reqs, NEW a \in {"ok", "error"}, Finish(r, a),
           row' \in [Dests -> Rows], job[r].dest \in Dests,
           \A d \in Dests \ {job[r].dest} : row'[d] = row[d]
    PROVE  /\ stage' = [stage EXCEPT ![r] = "idle"]
           /\ answer' = [answer EXCEPT ![r] = a]
           /\ job' \in [Reqs -> Jobs]
           /\ job'[r].kind = job[r].kind /\ job'[r].paid = job[r].paid
           /\ \A q \in Reqs \ {r} : stage[q] = "idle" \/ job[q].dest \in Dests => Unnoticed(q)
<1>1. stage' = [stage EXCEPT ![r] = "idle"] /\ answer' = [answer EXCEPT ![r] = a]
  BY DEF Finish, Tell, To
<1>2. /\ job' = [q \in Reqs |-> job'[q]]
      /\ job'[r] = [job[r] EXCEPT !.seen = NoRow, !.overlapped = FALSE]
  BY DEF Finish
<1>3. ASSUME NEW q \in Reqs \ {r}
      PROVE  \/ /\ job'[q] = [job[q] EXCEPT !.overlapped = TRUE]
             \/ /\ job'[q] = job[q]
                /\ stage[q] = "idle" \/ job[q].dest # job[r].dest
                   \/ row'[job[r].dest] = row[job[r].dest]
  BY <1>3 DEF Finish
<1>4. job'[r] \in Jobs /\ job'[r].kind = job[r].kind /\ job'[r].paid = job[r].paid
  <2>1. job[r] \in Jobs /\ NoRow \in Rows
    BY Names DEF OperationsTypeOK
  <2>2. QED  BY <1>2, <2>1 DEF Jobs
<1>5. ASSUME NEW q \in Reqs \ {r}
      PROVE  /\ job'[q] \in Jobs
             /\ stage[q] = "idle" \/ job[q].dest \in Dests => Unnoticed(q)
  <2>1. job[q] \in Jobs /\ stage'[q] = stage[q] /\ answer'[q] = answer[q]
    BY <1>1 DEF OperationsTypeOK
  <2>2. CASE job'[q] = [job[q] EXCEPT !.overlapped = TRUE]
    BY <2>1, <2>2 DEF Jobs, Unnoticed
  <2>3. CASE /\ job'[q] = job[q]
             /\ stage[q] = "idle" \/ job[q].dest # job[r].dest
                \/ row'[job[r].dest] = row[job[r].dest]
    <3>1. stage[q] # "idle" /\ job[q].dest \in Dests => row'[job[q].dest] = row[job[q].dest]
      BY <2>3
    <3>2. QED  BY <2>1, <2>3, <3>1 DEF Unnoticed
  <2>4. QED  BY <1>3, <2>2, <2>3
<1>6. job' \in [Reqs -> Jobs]
  <2>1. \A q \in Reqs : job'[q] \in Jobs
    BY <1>4, <1>5
  <2>2. job' = [q \in Reqs |-> job'[q]]
    BY <1>2
  <2>3. QED  BY <2>1, <2>2
<1>7. QED  BY <1>1, <1>4, <1>5, <1>6

(***************************************************************************)
(* A request that finishes leaves the types and the requests as they       *)
(* should be, whatever it has done to its destination.                     *)
(***************************************************************************)
LEMMA FinishKeepsRequests ==
    ASSUME OperationsInv, NEW r \in Reqs, NEW a \in {"ok", "error"}, Finish(r, a),
           stage[r] # "idle",
           job[r].kind \in Payments => (a = "ok") = job[r].paid,
           row' \in [Dests -> Rows], {row'[d].id : d \in Dests} \subseteq used' \cup {Nothing},
           used' \subseteq Ids,
           \A d \in Dests \ {job[r].dest} : row'[d] = row[d],
           UNCHANGED <<abuseVars, kinds>>
    PROVE  OperationsTypeOK' /\ \A q \in Reqs : RequestInv(q)'
<1>0. /\ OperationsTypeOK
      /\ \A q \in Reqs : RequestInv(q) /\ (stage[q] # "idle" => job[q].dest \in Dests)
  BY DEF OperationsInv, RequestInv, StageInv
<1>1. /\ stage' = [stage EXCEPT ![r] = "idle"]
      /\ answer' = [answer EXCEPT ![r] = a]
      /\ job' \in [Reqs -> Jobs]
      /\ job'[r].kind = job[r].kind /\ job'[r].paid = job[r].paid
      /\ \A q \in Reqs \ {r} : Unnoticed(q)
  BY <1>0, FinishShape
<1>2. \A q \in Reqs \ {r} : RequestInv(q)'
  BY <1>0, <1>1, UnnoticedKeepsInv
<1>3. stage'[r] = "idle" /\ answer'[r] = a
  BY <1>0, <1>1 DEF OperationsTypeOK
<1>4. RequestInv(r)'
  BY <1>1, <1>3 DEF RequestInv, StageInv, Confirmed, SeenIsThere
<1>5. OperationsTypeOK'
  <2>1. /\ stage' \in [Reqs -> {"idle", "allowed", "pay", "tell", "find", "write",
                               "record", "count", "report"}]
        /\ answer' \in [Reqs -> {"none", "ok", "error"}]
    BY <1>0, <1>1 DEF OperationsTypeOK
  <2>2. \A q \in Reqs : stage'[q] \in {"record", "count", "report"} => ~job'[q].paid
    BY <1>2, <1>4 DEF RequestInv, StageInv
  <2>3. QED
    BY <1>0, <1>1, <2>1, <2>2 DEF OperationsTypeOK, abuseVars
<1>6. QED  BY <1>2, <1>4, <1>5

(***************************************************************************)
(* A step of one request that leaves the destinations alone.               *)
(***************************************************************************)
StageNames == {"idle", "allowed", "pay", "tell", "find", "write", "record", "count", "report"}

LEMMA MoveKeepsRequests ==
    ASSUME OperationsInv, NEW r \in Reqs,
           stage' \in [Reqs -> StageNames], answer' \in [Reqs -> {"none", "ok", "error"}],
           job' \in [Reqs -> Jobs],
           \A q \in Reqs \ {r} :
               stage'[q] = stage[q] /\ answer'[q] = answer[q] /\ job'[q] = job[q],
           failed' \in Nat, reported' \in BOOLEAN, lost' \in BOOLEAN,
           UNCHANGED <<destVars, kinds>>, RequestInv(r)'
    PROVE  OperationsTypeOK' /\ \A q \in Reqs : RequestInv(q)'
<1>1. \A q \in Reqs \ {r} : RequestInv(q)'
  <2>1. SUFFICES ASSUME NEW q \in Reqs \ {r} PROVE RequestInv(q)'
    OBVIOUS
  <2>2. row' = row /\ job'[q].overlapped = job[q].overlapped
    BY DEF destVars
  <2>3. Unnoticed(q)
    <3>1. CASE job[q].overlapped
      BY <2>2, <3>1 DEF Unnoticed
    <3>2. CASE ~job[q].overlapped
      BY <2>2, <3>2 DEF Unnoticed
    <3>3. QED  BY <3>1, <3>2
  <2>4. QED  BY <2>3, UnnoticedKeepsInv DEF OperationsInv
<1>2. \A q \in Reqs : stage'[q] \in {"record", "count", "report"} => ~job'[q].paid
  BY <1>1 DEF RequestInv, StageInv
<1>3. OperationsTypeOK'
  BY <1>2 DEF OperationsInv, OperationsTypeOK, StageNames, destVars
<1>4. QED  BY <1>1, <1>3

(***************************************************************************)
(* A step that records, counts and reports nothing.                        *)
(***************************************************************************)
LEMMA OrdinaryKeepsCounts ==
    ASSUME OperationsInv, NEW r \in Reqs,
           \A q \in Reqs \ {r} : stage'[q] = stage[q],
           stage[r] \notin {"count", "report"},
           stage'[r] \in {"pay", "record"} => stage[r] \in {"pay", "record"},
           UNCHANGED abuseVars
    PROVE  RoomForFailures' /\ AbuseIsReported'
<1>1. AbuseIsReported'
  <2>1. SUFFICES ASSUME failed >= MaxFailed, ~reported, ~lost
                 PROVE  \E q \in Reqs : stage'[q] \in {"count", "report"}
    BY DEF AbuseIsReported, abuseVars
  <2>2. PICK q \in Reqs : stage[q] \in {"count", "report"}
    BY <2>1 DEF OperationsInv, AbuseIsReported
  <2>3. QED  BY <2>2
<1>2. RoomForFailures'
  <2>1. MayFail' \subseteq MayFail /\ MayFail \subseteq Reqs
    BY DEF MayFail
  <2>2. Cardinality(MayFail') <= Cardinality(MayFail)
    BY <2>1, MayFailIsFinite, FS_Subset
  <2>3. /\ Cardinality(MayFail') \in Nat /\ Cardinality(MayFail) \in Nat
        /\ Cardinality(Reqs) \in Nat /\ failed \in Nat /\ failed' = failed
    BY <2>1, MayFailIsFinite DEF OperationsInv, OperationsTypeOK, abuseVars
  <2>4. QED
    BY <2>2, <2>3, OperationsAssumption DEF OperationsInv, RoomForFailures
<1>3. QED  BY <1>1, <1>2

(***************************************************************************)
(* The steps, one lemma each.                                              *)
(***************************************************************************)
LEMMA BeginKeepsInv ==
    ASSUME OperationsInv, NEW r \in Reqs, NEW kind \in Kinds, NEW d \in Dests,
           BeginOperation(r, kind, d)
    PROVE  OperationsInv'
<1> DEFINE next == IF kind \in Payments THEN "allowed" ELSE "find"
           new == [NoJob EXCEPT !.kind = kind, !.dest = d]
<1>1. new \in Jobs /\ new.kind = kind /\ new.dest = d /\ ~new.paid /\ ~new.overlapped
  BY Names DEF NoJob, Jobs
<1> HIDE DEF new
<1>2. /\ stage' = [stage EXCEPT ![r] = next]
      /\ answer' = [answer EXCEPT ![r] = "none"]
      /\ job' = [job EXCEPT ![r] = new]
      /\ stage[r] = "idle"
      /\ UNCHANGED <<destVars, abuseVars, kinds>>
  BY DEF BeginOperation, Tell, To, new
<1>3. /\ stage' \in [Reqs -> StageNames] /\ stage'[r] = next
      /\ answer' \in [Reqs -> {"none", "ok", "error"}] /\ answer'[r] = "none"
      /\ job' \in [Reqs -> Jobs] /\ job'[r] = new
      /\ \A q \in Reqs \ {r} :
            stage'[q] = stage[q] /\ answer'[q] = answer[q] /\ job'[q] = job[q]
  BY <1>1, <1>2 DEF OperationsInv, OperationsTypeOK, StageNames
<1>4. RequestInv(r)'
  BY <1>1, <1>3 DEF RequestInv, StageInv, Confirmed, SeenIsThere, Kinds
<1>5. failed' \in Nat /\ reported' \in BOOLEAN /\ lost' \in BOOLEAN
  BY <1>2 DEF OperationsInv, OperationsTypeOK, abuseVars
<1>6. OperationsTypeOK' /\ \A q \in Reqs : RequestInv(q)'
  BY <1>2, <1>3, <1>4, <1>5, MoveKeepsRequests
<1>7. RoomForFailures' /\ AbuseIsReported'
  BY <1>2, <1>3, OrdinaryKeepsCounts
<1>8. QED  BY <1>6, <1>7 DEF OperationsInv

LEMMA AssertAllowedKeepsInv ==
    ASSUME OperationsInv, NEW r \in Reqs, AssertAllowed(r)
    PROVE  OperationsInv'
<1>1. /\ stage[r] = "allowed" /\ UNCHANGED <<destVars, abuseVars, job, kinds>>
      /\ \/ stage' = [stage EXCEPT ![r] = "idle"] /\ answer' = [answer EXCEPT ![r] = "error"]
         \/ stage' = [stage EXCEPT ![r] = "pay"] /\ answer' = answer /\ failed < MaxFailed
  <2>1. failed \in Nat /\ MaxFailed \in Nat
    BY OperationsAssumption DEF OperationsInv, OperationsTypeOK
  <2>2. QED  BY <2>1 DEF AssertAllowed, Tell, To
<1>2. /\ stage' \in [Reqs -> StageNames] /\ answer' \in [Reqs -> {"none", "ok", "error"}]
      /\ \/ stage'[r] = "idle" /\ answer'[r] = "error"
         \/ stage'[r] = "pay" /\ answer'[r] = answer[r]
      /\ \A q \in Reqs \ {r} : stage'[q] = stage[q] /\ answer'[q] = answer[q]
  BY <1>1 DEF OperationsInv, OperationsTypeOK, StageNames
<1>3. RequestInv(r)'
  <2>0. job[r].paid \in BOOLEAN
    BY DEF OperationsInv, OperationsTypeOK, Jobs
  <2>1. /\ job'[r] = job[r] /\ job[r].kind \in Payments /\ job[r].paid = FALSE
        /\ job[r].kind \in Kinds /\ job[r].dest \in Dests /\ answer[r] = "none"
    BY <1>1, <2>0 DEF OperationsInv, RequestInv, StageInv
  <2>2. CASE stage'[r] = "idle" /\ answer'[r] = "error"
    BY <2>1, <2>2 DEF RequestInv, StageInv, Confirmed, SeenIsThere
  <2>3. CASE stage'[r] = "pay" /\ answer'[r] = answer[r]
    BY <2>1, <2>3 DEF RequestInv, StageInv, Confirmed, SeenIsThere
  <2>4. QED  BY <1>2, <2>2, <2>3
<1>4. /\ failed' \in Nat /\ reported' \in BOOLEAN /\ lost' \in BOOLEAN
      /\ job' = job /\ job \in [Reqs -> Jobs] /\ UNCHANGED <<destVars, kinds>>
  BY <1>1 DEF OperationsInv, OperationsTypeOK, abuseVars
<1>5. OperationsTypeOK' /\ \A q \in Reqs : RequestInv(q)'
  BY <1>2, <1>3, <1>4, MoveKeepsRequests
<1>6. CASE stage'[r] = "idle"
  <2>1. RoomForFailures' /\ AbuseIsReported'
    BY <1>1, <1>2, <1>6, OrdinaryKeepsCounts
  <2>2. QED  BY <1>5, <2>1 DEF OperationsInv
<1>7. CASE stage'[r] = "pay"
  <2>1. failed < MaxFailed /\ failed' = failed
    BY <1>1, <1>2, <1>7 DEF abuseVars, OperationsInv, OperationsTypeOK
  <2>2. /\ failed \in Nat /\ MaxFailed \in Nat
        /\ Cardinality(MayFail') \in Nat /\ Cardinality(Reqs) \in Nat
        /\ Cardinality(MayFail') <= Cardinality(Reqs)
    <3>1. MayFail' \in SUBSET Reqs
      BY DEF MayFail
    <3>2. QED
      BY <3>1, MayFailIsFinite, OperationsAssumption DEF OperationsInv, OperationsTypeOK
  <2>3. RoomForFailures'
    BY <2>1, <2>2 DEF RoomForFailures
  <2>4. AbuseIsReported'
    BY <2>1, <2>2 DEF AbuseIsReported
  <2>5. QED  BY <1>5, <2>3, <2>4 DEF OperationsInv
<1>8. QED  BY <1>2, <1>6, <1>7

LEMMA PayKeepsInv ==
    ASSUME OperationsInv, NEW r \in Reqs, Pay(r)
    PROVE  OperationsInv'
<1>1. /\ stage[r] = "pay" /\ UNCHANGED <<destVars, abuseVars, kinds>>
      /\ \/ /\ stage' = [stage EXCEPT ![r] = "tell"] /\ answer' = answer
            /\ job' = [job EXCEPT ![r] = [@ EXCEPT !.paid = TRUE]]
         \/ /\ job' = job /\ answer' = [answer EXCEPT ![r] = "error"]
            /\ \E s \in {"idle", "record"} : stage' = [stage EXCEPT ![r] = s]
  BY DEF Pay, Tell, To
<1>2. job[r] \in Jobs
  BY DEF OperationsInv, OperationsTypeOK
<1>3. [job[r] EXCEPT !.paid = TRUE] \in Jobs
  BY <1>2 DEF Jobs
<1> DEFINE Typed == /\ stage' \in [Reqs -> StageNames]
                    /\ answer' \in [Reqs -> {"none", "ok", "error"}]
                    /\ job' \in [Reqs -> Jobs]
           Went == \/ /\ stage'[r] = "tell" /\ answer'[r] = answer[r]
                      /\ job'[r] = [job[r] EXCEPT !.paid = TRUE]
                   \/ /\ stage'[r] \in {"idle", "record"}
                      /\ answer'[r] = "error" /\ job'[r] = job[r]
           Others == \A q \in Reqs \ {r} :
                        stage'[q] = stage[q] /\ answer'[q] = answer[q] /\ job'[q] = job[q]
<1>4. Typed /\ Went /\ Others
  <2>1. CASE /\ stage' = [stage EXCEPT ![r] = "tell"] /\ answer' = answer
             /\ job' = [job EXCEPT ![r] = [@ EXCEPT !.paid = TRUE]]
    BY <1>3, <2>1 DEF OperationsInv, OperationsTypeOK, StageNames
  <2>2. ASSUME NEW s \in {"idle", "record"}, stage' = [stage EXCEPT ![r] = s],
               job' = job, answer' = [answer EXCEPT ![r] = "error"]
        PROVE  Typed /\ Went /\ Others
    BY <2>2 DEF OperationsInv, OperationsTypeOK, StageNames
  <2>3. QED  BY <1>1, <2>1, <2>2
<1>5. RequestInv(r)'
  <2>1. /\ job'[r].kind = job[r].kind /\ job'[r].dest = job[r].dest
        /\ stage'[r] = "tell" => job'[r].paid
        /\ stage'[r] # "tell" => job'[r].paid = job[r].paid
    BY <1>2, <1>4 DEF Jobs
  <2>0. job[r].paid \in BOOLEAN
    BY <1>2 DEF Jobs
  <2>2. /\ job[r].kind \in Payments /\ job[r].paid = FALSE
        /\ job[r].kind \in Kinds /\ job[r].dest \in Dests /\ answer[r] = "none"
    BY <1>1, <2>0 DEF OperationsInv, RequestInv, StageInv
  <2>3. CASE stage'[r] = "tell" /\ answer'[r] = answer[r]
    BY <2>1, <2>2, <2>3 DEF RequestInv, StageInv, Confirmed, SeenIsThere
  <2>4. CASE stage'[r] \in {"idle", "record"} /\ answer'[r] = "error"
    <3>1. job'[r].paid = FALSE
      BY <2>1, <2>2, <2>4
    <3>2. QED
      BY <2>1, <2>2, <2>4, <3>1 DEF RequestInv, StageInv, Confirmed, SeenIsThere
  <2>5. QED  BY <1>4, <2>3, <2>4
<1>6. /\ failed' \in Nat /\ reported' \in BOOLEAN /\ lost' \in BOOLEAN
      /\ UNCHANGED <<destVars, kinds>>
  BY <1>1 DEF OperationsInv, OperationsTypeOK, abuseVars
<1>7. OperationsTypeOK' /\ \A q \in Reqs : RequestInv(q)'
  BY <1>4, <1>5, <1>6, MoveKeepsRequests
<1>8. RoomForFailures' /\ AbuseIsReported'
  BY <1>1, <1>4, OrdinaryKeepsCounts
<1>9. QED  BY <1>7, <1>8 DEF OperationsInv

\* A request finishes without having touched a destination.
LEMMA FinishKeepsInv ==
    ASSUME OperationsInv, NEW r \in Reqs, NEW a \in {"ok", "error"}, Finish(r, a),
           stage[r] \in {"allowed", "pay", "tell", "find", "write"},
           job[r].kind \in Payments => (a = "ok") = job[r].paid,
           row' \in [Dests -> Rows], {row'[d].id : d \in Dests} \subseteq used' \cup {Nothing},
           used' \subseteq Ids,
           \A d \in Dests \ {job[r].dest} : row'[d] = row[d],
           UNCHANGED <<abuseVars, kinds>>
    PROVE  OperationsInv'
<1>1. OperationsTypeOK' /\ \A q \in Reqs : RequestInv(q)'
  BY FinishKeepsRequests
<1>2. stage' = [stage EXCEPT ![r] = "idle"]
  BY DEF Finish, Tell, To
<1>3. stage'[r] = "idle" /\ \A q \in Reqs \ {r} : stage'[q] = stage[q]
  BY <1>2 DEF OperationsInv, OperationsTypeOK
<1>4. RoomForFailures' /\ AbuseIsReported'
  BY <1>3, OrdinaryKeepsCounts
<1>5. QED  BY <1>1, <1>4 DEF OperationsInv

LEMMA DestTypes ==
    ASSUME OperationsInv, UNCHANGED destVars
    PROVE  /\ row' \in [Dests -> Rows]
           /\ {row'[d].id : d \in Dests} \subseteq used' \cup {Nothing}
           /\ used' \subseteq Ids
           /\ \A d \in Dests : row'[d] = row[d]
  BY DEF OperationsInv, OperationsTypeOK, destVars

LEMMA OutcomeIsTrue ==
    ASSUME OperationsInv, NEW r \in Reqs
    PROVE  Outcome(r) \in {"ok", "error"} /\ (Outcome(r) = "ok") = job[r].paid
<1>1. job[r].paid \in BOOLEAN
  BY DEF OperationsInv, OperationsTypeOK, Jobs
<1>2. QED  BY <1>1 DEF Outcome

LEMMA NotifyKeepsInv ==
    ASSUME OperationsInv, NEW r \in Reqs, Notify(r)
    PROVE  OperationsInv'
<1>1. stage[r] = "tell" /\ UNCHANGED <<destVars, abuseVars, kinds>>
  BY DEF Notify
<1>2. CASE Finish(r, Outcome(r))
  BY <1>1, <1>2, DestTypes, OutcomeIsTrue, FinishKeepsInv
<1>3. CASE stage' = [stage EXCEPT ![r] = "find"] /\ UNCHANGED <<job, answer>>
  <2>1. /\ stage' \in [Reqs -> StageNames] /\ stage'[r] = "find"
        /\ \A q \in Reqs \ {r} : stage'[q] = stage[q]
    BY <1>3 DEF OperationsInv, OperationsTypeOK, StageNames
  <2>2. /\ answer' \in [Reqs -> {"none", "ok", "error"}] /\ job' \in [Reqs -> Jobs]
        /\ \A q \in Reqs : answer'[q] = answer[q] /\ job'[q] = job[q]
        /\ failed' \in Nat /\ reported' \in BOOLEAN /\ lost' \in BOOLEAN
    BY <1>1, <1>3 DEF OperationsInv, OperationsTypeOK, abuseVars
  <2>3. RequestInv(r)'
    BY <1>1, <2>1, <2>2
    DEF OperationsInv, RequestInv, StageInv, Confirmed, SeenIsThere
  <2>4. OperationsTypeOK' /\ \A q \in Reqs : RequestInv(q)'
    BY <1>1, <2>1, <2>2, <2>3, MoveKeepsRequests
  <2>5. RoomForFailures' /\ AbuseIsReported'
    BY <1>1, <2>1, OrdinaryKeepsCounts
  <2>6. QED  BY <2>4, <2>5 DEF OperationsInv
<1>4. QED  BY <1>2, <1>3 DEF Notify, To

LEMMA FindKeepsInv ==
    ASSUME OperationsInv, NEW r \in Reqs, Find(r)
    PROVE  OperationsInv'
<1> DEFINE d == job[r].dest
           new == [job[r] EXCEPT !.seen = row[d]]
<1>1. stage[r] = "find" /\ UNCHANGED <<destVars, abuseVars, kinds>>
  BY DEF Find
<1>2. CASE job[r].kind \in {"rename", "delete"} /\ Finish(r, "error")
  <2>1. job[r].kind \notin Payments
    BY <1>2 DEF Payments
  <2>2. QED  BY <1>1, <1>2, <2>1, DestTypes, FinishKeepsInv
<1>3. CASE /\ stage' = [stage EXCEPT ![r] = "write"]
           /\ job' = [job EXCEPT ![r].seen = row[d]] /\ answer' = answer
  <2>1. /\ job[r] \in Jobs /\ d \in Dests /\ answer[r] = "none" /\ job[r].kind \in Kinds
        /\ job[r].kind \in Payments => job[r].paid
    BY <1>1 DEF OperationsInv, OperationsTypeOK, RequestInv, StageInv
  <2>2. row[d] \in Rows
    BY <2>1 DEF OperationsInv, OperationsTypeOK
  <2>3. /\ new \in Jobs /\ new.kind = job[r].kind /\ new.dest = d /\ new.seen = row[d]
        /\ new.paid = job[r].paid
    BY <2>1, <2>2 DEF Jobs
  <2>4. job' = [job EXCEPT ![r] = new]
    BY <1>3
  <2> HIDE DEF d, new
  <2>5. /\ stage' \in [Reqs -> StageNames] /\ stage'[r] = "write"
        /\ job' \in [Reqs -> Jobs] /\ job'[r] = new
        /\ \A q \in Reqs \ {r} : stage'[q] = stage[q] /\ job'[q] = job[q]
    BY <1>3, <2>3, <2>4 DEF OperationsInv, OperationsTypeOK, StageNames
  <2>6. /\ answer' \in [Reqs -> {"none", "ok", "error"}]
        /\ \A q \in Reqs : answer'[q] = answer[q]
        /\ failed' \in Nat /\ reported' \in BOOLEAN /\ lost' \in BOOLEAN
    BY <1>1, <1>3 DEF OperationsInv, OperationsTypeOK, abuseVars
  <2>7. RequestInv(r)'
    <3>1. row' = row
      BY <1>1 DEF destVars
    <3>2. QED
      BY <2>1, <2>3, <2>5, <2>6, <3>1 DEF RequestInv, StageInv, Confirmed, SeenIsThere
  <2>8. OperationsTypeOK' /\ \A q \in Reqs : RequestInv(q)'
    BY <1>1, <2>5, <2>6, <2>7, MoveKeepsRequests
  <2>9. RoomForFailures' /\ AbuseIsReported'
    BY <1>1, <2>5, OrdinaryKeepsCounts
  <2>10. QED  BY <2>8, <2>9 DEF OperationsInv
<1>4. QED  BY <1>2, <1>3 DEF Find, To

(***************************************************************************)
(* What a request may write to a destination.                              *)
(***************************************************************************)
LEMMA WrittenIsRow ==
    ASSUME OperationsInv, NEW r \in Reqs, stage[r] = "write"
    PROVE  /\ Upserted(r) \in Rows /\ Upserted(r).id = job[r].seen.id
           /\ [row[job[r].dest] EXCEPT !.label = r] \in Rows
           /\ [row[job[r].dest] EXCEPT !.label = r].id = row[job[r].dest].id
           /\ \A i \in Ids, save \in BOOLEAN :
                 [id |-> i, saved |-> save, label |-> IF save THEN r ELSE "own"] \in Rows
<1>1. job[r].seen \in Rows /\ job[r].dest \in Dests
  <2>1. job[r] \in Jobs
    BY DEF OperationsInv, OperationsTypeOK
  <2>2. QED  BY <2>1 DEF OperationsInv, RequestInv, StageInv, Jobs
<1>2. row[job[r].dest] \in Rows
  BY <1>1 DEF OperationsInv, OperationsTypeOK
<1>3. Upserted(r) \in Rows /\ Upserted(r).id = job[r].seen.id
  BY <1>1 DEF Upserted, Rows
<1>4. /\ [row[job[r].dest] EXCEPT !.label = r] \in Rows
      /\ [row[job[r].dest] EXCEPT !.label = r].id = row[job[r].dest].id
  BY <1>2 DEF Rows
<1>5. QED  BY <1>3, <1>4 DEF Rows

LEMMA CreateKeepsInv ==
    ASSUME OperationsInv, NEW r \in Reqs, Create(r)
    PROVE  OperationsInv'
<1> DEFINE d == job[r].dest
           save == job[r].kind = "save"
<1>1. stage[r] = "write" /\ UNCHANGED <<abuseVars, kinds>>
  BY DEF Create
<1>2. CASE UNCHANGED destVars /\ Finish(r, Outcome(r))
  BY <1>1, <1>2, DestTypes, OutcomeIsTrue, FinishKeepsInv
<1>3. ASSUME NEW i \in Ids, used' = used \cup {i}, Finish(r, "ok"),
             row' = [row EXCEPT ![d] = [id |-> i, saved |-> save,
                        label |-> IF save THEN r ELSE "own"]]
      PROVE  OperationsInv'
  <2>1. PICK new \in Rows : row' = [row EXCEPT ![d] = new] /\ new.id = i
    BY <1>1, <1>3, WrittenIsRow
  <2>2. row \in [Dests -> Rows] /\ used \subseteq Ids /\ d \in Dests
    BY <1>1 DEF OperationsInv, OperationsTypeOK, RequestInv, StageInv
  <2>3. row' \in [Dests -> Rows] /\ \A e \in Dests \ {d} : row'[e] = row[e]
    BY <2>1, <2>2
  <2>4. {row'[e].id : e \in Dests} \subseteq used' \cup {Nothing}
    <3>1. \A e \in Dests : row[e].id \in used \cup {Nothing}
      BY DEF OperationsInv, OperationsTypeOK
    <3>2. \A e \in Dests : row'[e].id \in used' \cup {Nothing}
      BY <1>3, <2>1, <2>2, <3>1
    <3>3. QED  BY <3>2
  <2>5. used' \subseteq Ids
    BY <1>3, <2>2
  <2>6. job[r].kind \in Payments => ("ok" = "ok") = job[r].paid
    <3>1. job[r].paid \in BOOLEAN
      BY DEF OperationsInv, OperationsTypeOK, Jobs
    <3>2. QED  BY <1>1, <3>1 DEF OperationsInv, RequestInv, StageInv
  <2>7. QED
    BY <1>1, <1>3, <2>3, <2>4, <2>5, <2>6, FinishKeepsInv
<1>4. QED  BY <1>2, <1>3 DEF Create

LEMMA ChangeKeepsInv ==
    ASSUME OperationsInv, NEW r \in Reqs, Change(r)
    PROVE  OperationsInv'
<1> DEFINE d == job[r].dest
<1>1. stage[r] = "write" /\ used' = used /\ UNCHANGED <<abuseVars, kinds>>
  BY DEF Change
<1>2. CASE row' = row /\ Finish(r, Outcome(r))
  BY <1>1, <1>2, DestTypes, OutcomeIsTrue, FinishKeepsInv DEF destVars
<1>3. ASSUME row[d].id = job[r].seen.id, Finish(r, "ok"),
             row' = [row EXCEPT ![d] =
                        CASE job[r].kind = "rename" -> [row[d] EXCEPT !.label = r]
                          [] job[r].kind = "delete" -> NoRow
                          [] OTHER -> Upserted(r)]
      PROVE  OperationsInv'
  <2>1. PICK new \in Rows : /\ row' = [row EXCEPT ![d] = new]
                            /\ new.id \in {row[d].id, Nothing}
    BY <1>1, <1>3, WrittenIsRow, Names DEF NoRow
  <2>2. row \in [Dests -> Rows] /\ used \subseteq Ids /\ d \in Dests
    BY <1>1 DEF OperationsInv, OperationsTypeOK, RequestInv, StageInv
  <2>3. row' \in [Dests -> Rows] /\ \A e \in Dests \ {d} : row'[e] = row[e]
    BY <2>1, <2>2
  <2>4. {row'[e].id : e \in Dests} \subseteq used' \cup {Nothing}
    <3>1. \A e \in Dests : row[e].id \in used \cup {Nothing}
      BY DEF OperationsInv, OperationsTypeOK
    <3>2. \A e \in Dests : row'[e].id \in used' \cup {Nothing}
      BY <1>1, <2>1, <2>2, <3>1
    <3>3. QED  BY <3>2
  <2>5. used' \subseteq Ids
    BY <1>1, <2>2
  <2>6. job[r].kind \in Payments => ("ok" = "ok") = job[r].paid
    <3>1. job[r].paid \in BOOLEAN
      BY DEF OperationsInv, OperationsTypeOK, Jobs
    <3>2. QED  BY <1>1, <3>1 DEF OperationsInv, RequestInv, StageInv
  <2>7. QED
    BY <1>1, <1>3, <2>3, <2>4, <2>5, <2>6, FinishKeepsInv
<1>4. QED  BY <1>2, <1>3 DEF Change

LEMMA ThrowKeepsInv ==
    ASSUME OperationsInv, NEW r \in Reqs, ThrowOperation(r)
    PROVE  OperationsInv'
  BY DestTypes, OutcomeIsTrue, FinishKeepsInv DEF ThrowOperation

(***************************************************************************)
(* The steps after the answer: only the stage of the request and what is   *)
(* known of abuse change.                                                  *)
(***************************************************************************)
LEMMA AfterwardsKeepsRequests ==
    ASSUME OperationsInv, NEW r \in Reqs, stage[r] \in {"record", "count", "report"},
           NEW s \in {"count", "report", "idle"}, stage' = [stage EXCEPT ![r] = s],
           failed' \in Nat, reported' \in BOOLEAN, UNCHANGED <<destVars, lost, job, answer, kinds>>
    PROVE  /\ OperationsTypeOK' /\ \A q \in Reqs : RequestInv(q)'
           /\ stage'[r] = s /\ \A q \in Reqs \ {r} : stage'[q] = stage[q]
<1>1. /\ stage' \in [Reqs -> StageNames] /\ stage'[r] = s
      /\ \A q \in Reqs \ {r} : stage'[q] = stage[q]
  BY DEF OperationsInv, OperationsTypeOK, StageNames
<1>2. /\ answer' \in [Reqs -> {"none", "ok", "error"}] /\ job' \in [Reqs -> Jobs]
      /\ lost' \in BOOLEAN /\ \A q \in Reqs : answer'[q] = answer[q] /\ job'[q] = job[q]
  BY DEF OperationsInv, OperationsTypeOK
<1>3. RequestInv(r)'
  BY <1>1, <1>2 DEF OperationsInv, RequestInv, StageInv, Confirmed, SeenIsThere
<1>4. OperationsTypeOK' /\ \A q \in Reqs : RequestInv(q)'
  BY <1>1, <1>2, <1>3, MoveKeepsRequests
<1>5. QED  BY <1>1, <1>4

LEMMA RecordKeepsInv ==
    ASSUME OperationsInv, NEW r \in Reqs, RecordFailed(r)
    PROVE  OperationsInv'
<1>1. /\ stage[r] = "record" /\ failed' = failed + 1 /\ stage' = [stage EXCEPT ![r] = "count"]
      /\ UNCHANGED <<destVars, reported, lost, job, answer, kinds>>
  BY DEF RecordFailed, To
<1>2. failed \in Nat /\ failed' \in Nat /\ reported' \in BOOLEAN
  BY <1>1 DEF OperationsInv, OperationsTypeOK
<1>3. /\ OperationsTypeOK' /\ \A q \in Reqs : RequestInv(q)'
      /\ stage'[r] = "count" /\ \A q \in Reqs \ {r} : stage'[q] = stage[q]
  BY <1>1, <1>2, AfterwardsKeepsRequests
<1>4. AbuseIsReported'
  BY <1>3 DEF AbuseIsReported
<1>5. RoomForFailures'
  <2>1. MayFail' = MayFail \ {r} /\ r \in MayFail /\ MayFail \subseteq Reqs
    BY <1>1, <1>3 DEF MayFail
  <2>2. IsFiniteSet(MayFail)
    BY <2>1, MayFailIsFinite
  <2>3. Cardinality(MayFail') = Cardinality(MayFail) - 1
    BY <2>1, <2>2, FS_RemoveElement
  <2>4. Cardinality(MayFail) \in Nat /\ Cardinality(Reqs) \in Nat /\ MaxFailed \in Nat
    BY <2>1, MayFailIsFinite, OperationsAssumption
  <2>5. QED
    BY <1>1, <1>2, <2>3, <2>4 DEF OperationsInv, RoomForFailures
<1>6. QED  BY <1>3, <1>4, <1>5 DEF OperationsInv

LEMMA CountKeepsInv ==
    ASSUME OperationsInv, NEW r \in Reqs, CountFailed(r)
    PROVE  OperationsInv'
<1> DEFINE s == IF failed >= MaxFailed THEN "report" ELSE "idle"
<1>1. /\ stage[r] = "count" /\ stage' = [stage EXCEPT ![r] = s]
      /\ UNCHANGED <<destVars, abuseVars, job, answer, kinds>>
  BY DEF CountFailed, To
<1>2. /\ failed' = failed /\ reported' = reported /\ lost' = lost
      /\ failed' \in Nat /\ reported' \in BOOLEAN /\ s \in {"count", "report", "idle"}
  BY <1>1 DEF abuseVars, OperationsInv, OperationsTypeOK
<1>3. /\ OperationsTypeOK' /\ \A q \in Reqs : RequestInv(q)'
      /\ stage'[r] = s /\ \A q \in Reqs \ {r} : stage'[q] = stage[q]
  BY <1>1, <1>2, AfterwardsKeepsRequests
<1>4. AbuseIsReported'
  BY <1>2, <1>3 DEF AbuseIsReported
<1>5. RoomForFailures'
  <2>1. MayFail' = MayFail
    BY <1>1, <1>3 DEF MayFail
  <2>2. QED  BY <1>2, <2>1 DEF OperationsInv, RoomForFailures
<1>6. QED  BY <1>3, <1>4, <1>5 DEF OperationsInv

LEMMA ReportKeepsInv ==
    ASSUME OperationsInv, NEW r \in Reqs, Report(r)
    PROVE  OperationsInv'
<1>1. /\ stage[r] = "report" /\ stage' = [stage EXCEPT ![r] = "idle"]
      /\ failed' = failed /\ reported' = (failed >= MaxFailed)
      /\ UNCHANGED <<destVars, lost, job, answer, kinds>>
  BY DEF Report, To
<1>2. failed' \in Nat /\ reported' \in BOOLEAN
  BY <1>1 DEF OperationsInv, OperationsTypeOK
<1>3. /\ OperationsTypeOK' /\ \A q \in Reqs : RequestInv(q)'
      /\ stage'[r] = "idle" /\ \A q \in Reqs \ {r} : stage'[q] = stage[q]
  BY <1>1, <1>2, AfterwardsKeepsRequests
<1>4. AbuseIsReported'
  BY <1>1 DEF AbuseIsReported
<1>5. RoomForFailures'
  <2>1. MayFail' = MayFail
    BY <1>1, <1>3 DEF MayFail
  <2>2. QED  BY <1>1, <2>1 DEF OperationsInv, RoomForFailures
<1>6. QED  BY <1>3, <1>4, <1>5 DEF OperationsInv

LEMMA ExpiresKeepsInv ==
    ASSUME OperationsInv, EventExpires
    PROVE  OperationsInv'
<1>1. /\ failed \in Nat /\ failed > 0 /\ failed' = failed - 1
      /\ UNCHANGED <<destVars, stage, job, answer, kinds>>
      /\ reported' = (reported /\ failed' >= MaxFailed)
      /\ lost' = (lost /\ failed' >= MaxFailed)
  BY DEF EventExpires, OperationsInv, OperationsTypeOK
<1>2. \A q \in Reqs : RequestInv(q)'
  BY <1>1 DEF OperationsInv, RequestInv, StageInv, Confirmed, SeenIsThere, destVars
<1>3. OperationsTypeOK'
  <2>1. failed' \in Nat
    BY <1>1
  <2>2. reported' \in BOOLEAN /\ lost' \in BOOLEAN
    BY <1>1
  <2>3. QED  BY <1>1, <2>1, <2>2 DEF OperationsInv, OperationsTypeOK, destVars
<1>4. RoomForFailures'
  <2>1. MayFail' = MayFail /\ MayFail \subseteq Reqs
    BY <1>1 DEF MayFail
  <2>2. Cardinality(MayFail) \in Nat /\ Cardinality(Reqs) \in Nat /\ MaxFailed \in Nat
    BY <2>1, MayFailIsFinite, OperationsAssumption
  <2>3. QED  BY <1>1, <2>1, <2>2 DEF OperationsInv, RoomForFailures
<1>5. AbuseIsReported'
  <2>1. MaxFailed \in Nat
    BY OperationsAssumption
  <2>2. failed' >= MaxFailed => failed >= MaxFailed
    BY <1>1, <2>1
  <2>3. stage' = stage
    BY <1>1
  <2>4. QED  BY <1>1, <2>2, <2>3 DEF OperationsInv, AbuseIsReported
<1>6. QED  BY <1>2, <1>3, <1>4, <1>5 DEF OperationsInv

LEMMA DieKeepsInv ==
    ASSUME OperationsInv, Die
    PROVE  OperationsInv'
<1>1. /\ stage' = [r \in Reqs |-> "idle"] /\ job' = [r \in Reqs |-> NoJob]
      /\ answer' = [r \in Reqs |-> "none"]
      /\ lost' = (lost \/ (failed >= MaxFailed /\ ~reported))
      /\ UNCHANGED <<destVars, failed, reported, kinds>>
  BY DEF Die
<1>2. \A q \in Reqs : RequestInv(q)'
  BY <1>1, Names DEF RequestInv, StageInv, Confirmed, SeenIsThere
<1>3. OperationsTypeOK'
  <2>1. job' \in [Reqs -> Jobs]
    BY <1>1, Names
  <2>2. lost' \in BOOLEAN
    BY <1>1
  <2>3. QED  BY <1>1, <2>1, <2>2 DEF OperationsInv, OperationsTypeOK, destVars
<1>4. RoomForFailures'
  <2>1. MayFail' = {} /\ MayFail \subseteq Reqs
    BY <1>1 DEF MayFail
  <2>2. Cardinality({}) = 0
    BY FS_EmptySet
  <2>3. /\ Cardinality(MayFail) \in Nat /\ Cardinality(Reqs) \in Nat
        /\ MaxFailed \in Nat /\ failed \in Nat
    BY <2>1, MayFailIsFinite, OperationsAssumption DEF OperationsInv, OperationsTypeOK
  <2>4. QED  BY <1>1, <2>1, <2>2, <2>3 DEF OperationsInv, RoomForFailures
<1>5. AbuseIsReported'
  BY <1>1 DEF AbuseIsReported
<1>6. QED  BY <1>2, <1>3, <1>4, <1>5 DEF OperationsInv

LEMMA StutterKeepsInv ==
    ASSUME OperationsInv, UNCHANGED operationsVars
    PROVE  OperationsInv'
  BY DEF OperationsInv, OperationsTypeOK, RequestInv, StageInv, Confirmed, SeenIsThere,
         RoomForFailures, MayFail, AbuseIsReported, operationsVars, destVars, abuseVars

(***************************************************************************)
(* The throttle, its report, the answers and what is read of destinations  *)
(* are as they should be in every state that can be reached.               *)
(***************************************************************************)
THEOREM OperationsIsSafe == OperationsSpec => []OperationsInv
<1>1. OperationsInv /\ [OperationsNext]_operationsVars => OperationsInv'
  <2> SUFFICES ASSUME OperationsInv, [OperationsNext]_operationsVars PROVE OperationsInv'
    OBVIOUS
  <2>1. ASSUME NEW r \in Reqs, NEW kind \in Kinds, NEW d \in Dests, BeginOperation(r, kind, d)
        PROVE  OperationsInv'
    BY <2>1, BeginKeepsInv
  <2>2. ASSUME NEW r \in Reqs, AssertAllowed(r) PROVE OperationsInv'
    BY <2>2, AssertAllowedKeepsInv
  <2>3. ASSUME NEW r \in Reqs, Pay(r) PROVE OperationsInv'
    BY <2>3, PayKeepsInv
  <2>4. ASSUME NEW r \in Reqs, Notify(r) PROVE OperationsInv'
    BY <2>4, NotifyKeepsInv
  <2>5. ASSUME NEW r \in Reqs, Find(r) PROVE OperationsInv'
    BY <2>5, FindKeepsInv
  <2>6. ASSUME NEW r \in Reqs, Create(r) PROVE OperationsInv'
    BY <2>6, CreateKeepsInv
  <2>7. ASSUME NEW r \in Reqs, Change(r) PROVE OperationsInv'
    BY <2>7, ChangeKeepsInv
  <2>8. ASSUME NEW r \in Reqs, ThrowOperation(r) PROVE OperationsInv'
    BY <2>8, ThrowKeepsInv
  <2>9. ASSUME NEW r \in Reqs, RecordFailed(r) PROVE OperationsInv'
    BY <2>9, RecordKeepsInv
  <2>10. ASSUME NEW r \in Reqs, CountFailed(r) PROVE OperationsInv'
    BY <2>10, CountKeepsInv
  <2>11. ASSUME NEW r \in Reqs, Report(r) PROVE OperationsInv'
    BY <2>11, ReportKeepsInv
  <2>12. CASE EventExpires
    BY <2>12, ExpiresKeepsInv
  <2>13. CASE Die
    BY <2>13, DieKeepsInv
  <2>14. CASE UNCHANGED operationsVars
    BY <2>14, StutterKeepsInv
  <2>15. QED
    BY <2>1, <2>2, <2>3, <2>4, <2>5, <2>6, <2>7, <2>8, <2>9, <2>10, <2>11, <2>12, <2>13, <2>14
    DEF OperationsNext
<1>2. QED  BY <1>1, InitHolds, PTL DEF OperationsSpec

(***************************************************************************)
(* The variables of the operations keep their types.                       *)
(***************************************************************************)
THEOREM OperationsTypesHold == OperationsSpec => []OperationsTypeOK
  BY OperationsIsSafe, PTL DEF OperationsInv

(***************************************************************************)
(* The failures that are recorded in an hour exceed the maximum by less    *)
(* than the number of requests that are handled at a time.                 *)
(***************************************************************************)
THEOREM FailuresAreBounded == OperationsSpec => []FailuresBounded
<1>1. OperationsInv => FailuresBounded
  <2> SUFFICES ASSUME OperationsInv PROVE FailuresBounded
    OBVIOUS
  <2>1. MayFail \subseteq Reqs
    BY DEF MayFail
  <2>2. /\ Cardinality(MayFail) \in Nat /\ Cardinality(Reqs) \in Nat
        /\ failed \in Nat /\ MaxFailed \in Nat
    BY <2>1, MayFailIsFinite, OperationsAssumption DEF OperationsInv, OperationsTypeOK
  <2>3. QED  BY <2>2 DEF OperationsInv, RoomForFailures, FailuresBounded
<1>2. QED  BY <1>1, OperationsIsSafe, PTL

(***************************************************************************)
(* No order in which overlapping failures are recorded and counted leaves  *)
(* the suspicion unwritten, unless the process dies.                       *)
(***************************************************************************)
THEOREM AbuseIsAlwaysReported == OperationsSpec => []AbuseIsReported
  BY OperationsIsSafe, PTL DEF OperationsInv

(***************************************************************************)
(* The client is told that a payment succeeded exactly when its            *)
(* transaction has committed.                                              *)
(***************************************************************************)
THEOREM PaymentsAreConfirmed == OperationsSpec => []PaidIsConfirmed
<1>1. OperationsInv => PaidIsConfirmed
  BY DEF OperationsInv, RequestInv, Confirmed, PaidIsConfirmed
<1>2. QED  BY <1>1, OperationsIsSafe, PTL

(***************************************************************************)
(* A payment that overlaps with no change of its destination leaves the    *)
(* destination as it is.                                                   *)
(***************************************************************************)
THEOREM DestinationsAreKept == OperationsSpec => PaymentsKeepDestinations
<1>1. ASSUME OperationsInv, OperationsNext, NEW d \in Dests, row[d] # NoRow, row'[d] # row[d]
      PROVE  \E r \in Reqs : /\ stage[r] = "write" /\ stage'[r] = "idle"
                             /\ job[r].kind \in Payments => job[r].overlapped
  <2> DEFINE Excused == \E r \in Reqs : /\ stage[r] = "write" /\ stage'[r] = "idle"
                                        /\ job[r].kind \in Payments => job[r].overlapped
  <2>1. row \in [Dests -> Rows] /\ stage \in [Reqs -> StageNames]
    BY <1>1 DEF OperationsInv, OperationsTypeOK, StageNames
  <2>2. ASSUME NEW r \in Reqs, Create(r) PROVE Excused
    <3>1. job[r].dest \in Dests
      BY <1>1, <2>2 DEF Create, OperationsInv, RequestInv, StageInv
    <3>2. row'[d] = row[d] \/ row[d] = NoRow
      BY <2>1, <2>2, <3>1 DEF Create, destVars
    <3>3. QED  BY <1>1, <3>2
  <2>3. ASSUME NEW r \in Reqs, Change(r) PROVE Excused
    <3>1. stage[r] = "write" /\ job[r].dest \in Dests
      BY <1>1, <2>3 DEF Change, OperationsInv, RequestInv, StageInv
    <3>2. stage' = [stage EXCEPT ![r] = "idle"]
      BY <2>3 DEF Change, Finish, Tell, To
    <3>3. stage'[r] = "idle"
      BY <2>1, <3>2
    <3>4. d = job[r].dest
      BY <1>1, <2>1, <2>3, <3>1 DEF Change
    <3>5. row'[d] = CASE job[r].kind = "rename" -> [row[d] EXCEPT !.label = r]
                      [] job[r].kind = "delete" -> NoRow
                      [] OTHER -> Upserted(r)
      BY <1>1, <2>1, <2>3, <3>4 DEF Change
    <3>6. job[r].kind \in Payments => row'[d] = job[r].seen
      BY <3>5 DEF Upserted, Payments
    <3>7. job[r].kind \in Payments => job[r].overlapped
      BY <1>1, <3>1, <3>4, <3>6 DEF OperationsInv, RequestInv, SeenIsThere
    <3>8. QED  BY <3>1, <3>3, <3>7
  <2>4. row' # row
    BY <1>1
  <2>5. QED
    BY <1>1, <2>2, <2>3, <2>4
    DEF OperationsNext, operationsVars, destVars, BeginOperation, AssertAllowed, Pay, Notify,
        Find, ThrowOperation, RecordFailed, CountFailed, Report, EventExpires, Die
<1>2. OperationsInv /\ [OperationsNext]_operationsVars =>
          [\A d \in Dests :
              row[d] # NoRow /\ row'[d].id = row[d].id /\ row'[d] # row[d] =>
                  \E r \in Reqs : /\ stage[r] = "write" /\ stage'[r] = "idle"
                                  /\ job[r].kind \in Payments => job[r].overlapped]_operationsVars
  BY <1>1
<1>3. QED
  BY <1>2, OperationsIsSafe, PTL DEF OperationsSpec, PaymentsKeepDestinations
=============================================================================
