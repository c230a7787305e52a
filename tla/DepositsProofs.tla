--------------------------- MODULE DepositsProofs ---------------------------
(***************************************************************************)
(* A deposit is credited exactly when it becomes PAID, only after the      *)
(* gateway has verified it, and PAID is final: for any number of payments, *)
(* callbacks and deaths, and whenever the callback page is opened.         *)
(***************************************************************************)
EXTENDS Deposits, Sums, TLAPS

\* DepositsInv but for what the wallet adds up to.
CoreInv ==
    /\ DepositsTypeOK
    /\ OneRowEach
    /\ CreditedIfVerified
    /\ \A c \in Reqs : ClaimHeld(c) /\ VerifiedFirst(c)
    /\ \A p \in Payments : ReturnedFirst(p)

LEMMA ReleaseKeepsLocks ==
    ASSUME LocksTypeOK, NEW c \in Reqs, ReleaseAll(c)
    PROVE  /\ LocksTypeOK'
           /\ \A d \in Reqs \ {c}, x \in Rows : locks[x] = d => locks'[x] = d
  BY NoReqAssumption DEF ReleaseAll, LocksTypeOK

LEMMA TakeKeepsLocks ==
    ASSUME LocksTypeOK, NEW c \in Reqs, NEW x \in Rows, Take(c, x)
    PROVE  /\ LocksTypeOK'
           /\ locks'[x] = c
           /\ \A d \in Reqs, y \in Rows : locks[y] = d => locks'[y] = d
  BY NoReqAssumption DEF Take, Free, LocksTypeOK

LEMMA InitEstablishesInv == DepositsInit => CoreInv
<1>1. SUFFICES ASSUME DepositsInit PROVE CoreInv
  OBVIOUS
<1>2. DepositsTypeOK
  BY <1>1, DepositsAssumption DEF DepositsInit, DepositsTypeOK, LocksTypeOK, NoLocks, Codes
<1>3. QED
  BY <1>1, <1>2, DepositsAssumption
     DEF DepositsInit, CoreInv, OneRowEach, CreditedIfVerified, ClaimHeld,
         VerifiedFirst, ReturnedFirst

(***************************************************************************)
(* The steps of createDeposit, of the user and of the gateway.  FAILED     *)
(* from the catch block cannot meet a claim or a PAID payment: the user    *)
(* cannot have paid yet.                                                   *)
(***************************************************************************)
LEMMA CreateKeepsInv ==
    ASSUME CoreInv, NEW p \in Payments,
           \/ CreateDeposit(p) \/ GatewayOpens(p) \/ CreateStep(p) \/ CreateDies(p)
           \/ UserPays(p)
    PROVE  CoreInv'
<1> USE DEF CoreInv, DepositsTypeOK, LocksTypeOK, CreateGoto, OneRowEach,
            CreditedIfVerified, ClaimHeld, VerifiedFirst, ReturnedFirst
<1>1. CASE CreateDeposit(p)
  BY <1>1 DEF CreateDeposit
<1>2. CASE GatewayOpens(p)
  BY <1>2 DEF GatewayOpens
<1>3. CASE RequestReturns(p)
  BY <1>3 DEF RequestReturns
<1>4. CASE StoreAuthority(p)
  <2>1. stored' \in [Payments -> BOOLEAN]
    <3>1. stored' = stored \/ stored' = [stored EXCEPT ![p] = TRUE]
      BY <1>4 DEF StoreAuthority
    <3>2. stored \in [Payments -> BOOLEAN]
      OBVIOUS
    <3>3. [stored EXCEPT ![p] = TRUE] \in [Payments -> BOOLEAN]
      BY <3>2
    <3>4. QED  BY ONLY <3>1, <3>2, <3>3
  <2>2. UNCHANGED <<locks, payment, balance, rows, linked, gateway, pc, about, code, aborts>>
    BY <1>4 DEF StoreAuthority
  <2>3. createPc[p] = "store" /\ (CreateGoto(p, "respond") \/ CreateGoto(p, "fail"))
    BY <1>4 DEF StoreAuthority
  <2>4. DepositsTypeOK'
    BY <2>1, <2>2, <2>3
  <2>5. QED  BY <2>2, <2>3, <2>4
<1>5. CASE Respond(p)
  BY <1>5 DEF Respond
<1>6. CASE FailDeposit(p)
  <2>1. gateway[p] # "verified" /\ payment[p] # "PAID" /\ locks[p] = NoReq
    BY <1>6 DEF FailDeposit
  <2>2. QED  BY <1>6, <2>1, NoReqAssumption DEF FailDeposit
<1>7. CASE CreateDies(p)
  BY <1>7, DepositsAssumption DEF CreateDies
<1>8. CASE UserPays(p)
  BY <1>8 DEF UserPays
<1>9. QED  BY <1>1, <1>2, <1>3, <1>4, <1>5, <1>6, <1>7, <1>8 DEF CreateStep

(***************************************************************************)
(* The steps of a callback.                                                *)
(***************************************************************************)
LEMMA CallbackKeepsInv ==
    ASSUME CoreInv, NEW c \in Reqs,
           (\E p \in Payments : Callback(c, p)) \/ CallbackStep(c) \/ CallbackDies(c)
    PROVE  CoreInv'
<1> USE DEF CoreInv, DepositsTypeOK, Goto, OneRowEach, CreditedIfVerified,
            ReturnedFirst
<1>1. pc[c] # "idle" => about[c] \in Payments
  BY DEF VerifiedFirst
<1>2. CASE \E p \in Payments : Callback(c, p)
  BY <1>2 DEF Callback, LocksTypeOK, Codes, ClaimHeld, VerifiedFirst
<1>3. CASE GatewayVerifies(c)
  BY <1>1, <1>3 DEF GatewayVerifies, LocksTypeOK, Codes, ClaimHeld, VerifiedFirst
<1>4. CASE TakeCode(c)
  BY <1>4 DEF TakeCode, LocksTypeOK, ClaimHeld, VerifiedFirst
<1>5. CASE MarkFailed(c)
  <2>1. \A d \in Reqs : pc[d] \in {"credit", "commit"} => d # c
    BY <1>5 DEF MarkFailed
  <2>2. payment[about[c]] = "PENDING" =>
            \A d \in Reqs \ {c} : pc[d] \in {"credit", "commit"} => about[d] # about[c]
    BY <1>5, NoReqAssumption DEF MarkFailed, Free, ClaimHeld
  <2>3. \A d \in Reqs : ClaimHeld(d)'
    BY <1>1, <1>5, <2>1, <2>2 DEF MarkFailed, Answer, ClaimHeld, VerifiedFirst
  <2>4. \A d \in Reqs : VerifiedFirst(d)'
    BY <1>5 DEF MarkFailed, Answer, VerifiedFirst
  <2>5. DepositsTypeOK'
    BY <1>1, <1>5 DEF MarkFailed, Answer, LocksTypeOK, Codes
  <2>6. OneRowEach' /\ CreditedIfVerified' /\ \A p \in Payments : ReturnedFirst(p)'
    BY <1>1, <1>5 DEF MarkFailed, Answer
  <2>7. QED  BY <2>3, <2>4, <2>5, <2>6
<1>6. CASE Claim(c)
  <2>1. CASE payment[about[c]] = "PENDING" /\ Take(c, about[c]) /\ Goto(c, "credit")
             /\ UNCHANGED <<about, code>>
    <3>1. /\ LocksTypeOK'
          /\ locks'[about[c]] = c
          /\ \A d \in Reqs, y \in Rows : locks[y] = d => locks'[y] = d
      BY <1>1, <1>6, <2>1, TakeKeepsLocks, DepositsAssumption DEF Claim
    <3>2. \A d \in Reqs : ClaimHeld(d)'
      BY <1>1, <1>6, <2>1, <3>1, DepositsAssumption DEF Claim, ClaimHeld, VerifiedFirst
    <3>3. \A d \in Reqs : VerifiedFirst(d)'
      BY <1>1, <1>6, <2>1 DEF Claim, VerifiedFirst
    <3>4. QED  BY <1>6, <2>1, <3>1, <3>2, <3>3 DEF Claim
  <2>2. CASE payment[about[c]] # "PENDING" /\ Answer(c) /\ UNCHANGED locks
    BY <1>6, <2>2 DEF Claim, Answer, LocksTypeOK, Codes, ClaimHeld, VerifiedFirst
  <2>3. QED  BY <1>6, <2>1, <2>2 DEF Claim
<1>7. CASE CreditWallet(c)
  <2>1. /\ LocksTypeOK'
        /\ \A d \in Reqs, y \in Rows : locks[y] = d => locks'[y] = d
    BY <1>7, TakeKeepsLocks, DepositsAssumption DEF CreditWallet
  <2>2. \A d \in Reqs : ClaimHeld(d)'
    BY <1>7, <2>1, DepositsAssumption DEF CreditWallet, ClaimHeld, VerifiedFirst
  <2>3. \A d \in Reqs : VerifiedFirst(d)'
    BY <1>7 DEF CreditWallet, VerifiedFirst
  <2>4. QED  BY <1>7, <2>1, <2>2, <2>3 DEF CreditWallet
<1>8. CASE Settle(c)
  <2> DEFINE p == about[c]
  <2>1. p \in Payments /\ payment[p] = "PENDING" /\ locks[p] = c /\ gateway[p] = "verified"
    BY <1>1, <1>8 DEF Settle, ClaimHeld, VerifiedFirst
  <2>2. /\ LocksTypeOK'
        /\ \A d \in Reqs \ {c}, x \in Rows : locks[x] = d => locks'[x] = d
    BY <1>8, ReleaseKeepsLocks DEF Settle
  <2>3. \A d \in Reqs \ {c} : pc[d] \in {"credit", "commit"} => about[d] # p
    BY <2>1 DEF ClaimHeld
  <2>4. \A d \in Reqs : ClaimHeld(d)'
    BY <1>8, <2>1, <2>2, <2>3, DepositsAssumption
       DEF Settle, Answer, ClaimHeld, VerifiedFirst
  <2>5. \A d \in Reqs : VerifiedFirst(d)'
    BY <1>8 DEF Settle, Answer, VerifiedFirst
  <2>6. DepositsTypeOK'
    <3>1. balance' \in Nat
      <4>1. Amount[p] \in Nat /\ balance \in Nat
        BY <2>1, DepositsAssumption
      <4>2. balance' = balance + Amount[p]
        BY <1>8 DEF Settle
      <4>3. QED  BY <4>1, <4>2
    <3>2. rows' \in [Payments -> Nat]
      <4>1. rows[p] + 1 \in Nat
        BY <2>1
      <4>2. rows' = [rows EXCEPT ![p] = rows[p] + 1]
        BY <1>8 DEF Settle
      <4>3. QED  BY <2>1, <4>1, <4>2
    <3>3. QED  BY <1>8, <2>2, <3>1, <3>2 DEF Settle, Answer, Codes
  <2>7. OneRowEach' /\ CreditedIfVerified'
    BY <1>8, <2>1 DEF Settle
  <2>8. QED  BY <1>8, <2>4, <2>5, <2>6, <2>7 DEF Settle
<1>9. CASE CallbackDies(c)
  <2>1. /\ LocksTypeOK'
        /\ \A d \in Reqs \ {c}, x \in Rows : locks[x] = d => locks'[x] = d
    BY <1>9, ReleaseKeepsLocks DEF CallbackDies
  <2>2. \A d \in Reqs : ClaimHeld(d)'
    BY <1>9, <2>1, DepositsAssumption DEF CallbackDies, Answer, ClaimHeld, VerifiedFirst
  <2>3. \A d \in Reqs : VerifiedFirst(d)'
    BY <1>9 DEF CallbackDies, Answer, VerifiedFirst
  <2>4. DepositsTypeOK'
    BY <1>9, <2>1, DepositsAssumption DEF CallbackDies, Answer, Codes
  <2>5. QED  BY <1>9, <2>2, <2>3, <2>4 DEF CallbackDies
<1>10. QED
  BY <1>2, <1>3, <1>4, <1>5, <1>6, <1>7, <1>8, <1>9 DEF CallbackStep

LEMMA DepositsStepKeepsInv ==
    CoreInv /\ [DepositsNext \/ DepositsDone]_depositsVars => CoreInv'
<1>1. SUFFICES ASSUME CoreInv, [DepositsNext \/ DepositsDone]_depositsVars
               PROVE  CoreInv'
  OBVIOUS
<1>2. CASE DepositsNext
  BY <1>1, <1>2, CreateKeepsInv, CallbackKeepsInv DEF DepositsNext
<1>3. CASE UNCHANGED depositsVars
  BY <1>1, <1>3
     DEF depositsVars, CoreInv, DepositsTypeOK, LocksTypeOK, OneRowEach,
         CreditedIfVerified, ClaimHeld, VerifiedFirst, ReturnedFirst
<1>4. QED  BY <1>1, <1>2, <1>3 DEF DepositsDone

LEMMA CoreIsSafe == DepositsSpec => []CoreInv
BY InitEstablishesInv, DepositsStepKeepsInv, PTL DEF DepositsSpec

\* What a step means for the account.
LEMMA StepsOfAccount ==
    ASSUME CoreInv, [DepositsNext \/ DepositsDone]_depositsVars
    PROVE  [TopUp!Next]_TopUp!vars
<1> USE DEF CoreInv, DepositsTypeOK, Credited, Verified
<1>1. ASSUME NEW p \in Payments,
             \/ CreateDeposit(p) \/ GatewayOpens(p) \/ CreateStep(p) \/ CreateDies(p)
             \/ UserPays(p)
      PROVE  UNCHANGED TopUp!vars
  <2>1. createPc[p] \in {"new", "fail"} => payment[p] # "PAID"
    BY DEF OneRowEach, CreditedIfVerified, ReturnedFirst
  <2>2. Credited' = Credited /\ balance' = balance
    BY <1>1, <2>1
    DEF CreateDeposit, GatewayOpens, CreateStep, RequestReturns, StoreAuthority, Respond,
        FailDeposit, CreateDies, UserPays
  <2>3. Verified' = Verified
    BY <1>1
    DEF CreateDeposit, GatewayOpens, CreateStep, RequestReturns, StoreAuthority, Respond,
        FailDeposit, CreateDies, UserPays
  <2>4. QED  BY <2>2, <2>3 DEF TopUp!vars
<1>2. ASSUME NEW c \in Reqs, GatewayVerifies(c)
      PROVE  UNCHANGED TopUp!vars \/ \E p \in Payments : TopUp!Verify(p)
  <2>1. about[c] \in Payments
    BY <1>2 DEF GatewayVerifies, VerifiedFirst
  <2>2. Credited' = Credited /\ balance' = balance
    BY <1>2 DEF GatewayVerifies
  <2>3. Verified' = Verified \/ Verified' = Verified \cup {about[c]}
    BY <1>2, <2>1 DEF GatewayVerifies
  <2>4. QED  BY <2>1, <2>2, <2>3 DEF TopUp!vars, TopUp!Verify
<1>3. ASSUME NEW c \in Reqs, Settle(c)
      PROVE  \E p \in Payments : TopUp!Credit(p)
  <2>1. /\ about[c] \in Payments /\ payment[about[c]] = "PENDING"
        /\ gateway[about[c]] = "verified"
    BY <1>3 DEF Settle, ClaimHeld, VerifiedFirst
  <2>2. Credited' = Credited \cup {about[c]} /\ Verified' = Verified
    BY <1>3, <2>1 DEF Settle
  <2>3. about[c] \in Verified \ Credited /\ balance' = balance + Amount[about[c]]
    BY <1>3, <2>1 DEF Settle
  <2>4. QED  BY <2>1, <2>2, <2>3 DEF TopUp!Credit
<1>4. ASSUME NEW c \in Reqs,
             \/ \E p \in Payments : Callback(c, p)
             \/ TakeCode(c) \/ MarkFailed(c) \/ Claim(c) \/ CreditWallet(c) \/ CallbackDies(c)
      PROVE  UNCHANGED TopUp!vars
  <2>1. balance' = balance /\ gateway' = gateway
    BY <1>4 DEF Callback, TakeCode, MarkFailed, Claim, CreditWallet, CallbackDies
  <2>2. Credited' = Credited
    BY <1>4 DEF Callback, TakeCode, MarkFailed, Claim, CreditWallet, CallbackDies
  <2>3. QED  BY <2>1, <2>2 DEF TopUp!vars
<1>5. CASE UNCHANGED depositsVars
  BY <1>5 DEF depositsVars, TopUp!vars
<1>6. QED
  <2>1. CASE DepositsNext
    BY <1>1, <1>2, <1>3, <1>4, <2>1 DEF DepositsNext, CallbackStep, TopUp!Next
  <2>2. QED  BY <1>5, <2>1 DEF DepositsDone

(***************************************************************************)
(* Concurrent callbacks, deaths and answers that are lost leave what an    *)
(* account does that is credited in one step.                              *)
(***************************************************************************)
THEOREM DepositsImplementAccount == DepositsSpec => CreditsAreAtomic
<1>1. DepositsInit => TopUp!Init
  BY DEF DepositsInit, TopUp!Init, Credited, Verified
<1>2. CoreInv /\ [DepositsNext \/ DepositsDone]_depositsVars => [TopUp!Next]_TopUp!vars
  BY StepsOfAccount
<1>3. QED
  BY <1>1, <1>2, CoreIsSafe, PTL DEF DepositsSpec, CreditsAreAtomic, TopUp!Spec

\* The payments that were credited are finitely many, so they have a sum.
LEMMA AccountAddsUp ==
    ASSUME IsFiniteSet(Credited), WalletAddsUp, [TopUp!Next]_TopUp!vars
    PROVE  IsFiniteSet(Credited)' /\ WalletAddsUp'
<1>1. CASE UNCHANGED <<balance, Credited>>
  BY <1>1 DEF WalletAddsUp
<1>2. ASSUME NEW p \in Payments, TopUp!Credit(p)
      PROVE  IsFiniteSet(Credited)' /\ WalletAddsUp'
  <2>1. /\ p \notin Credited /\ Credited' = Credited \cup {p}
        /\ balance' = balance + Amount[p]
    BY <1>2 DEF TopUp!Credit
  <2>2. \A q \in Credited \cup {p} : Amount[q] \in Int
    BY DepositsAssumption DEF Credited
  <2>3. SumFunctionOnSet(Amount, Credited \cup {p}) = SumFunctionOnSet(Amount, Credited) + Amount[p]
    BY <2>1, <2>2, SumWith
  <2>4. QED  BY <2>1, <2>3, FS_AddElement DEF WalletAddsUp
<1>3. QED  BY <1>1, <1>2 DEF TopUp!Next, TopUp!Verify, TopUp!vars

(***************************************************************************)
(* The inductive invariant holds, the types included.                      *)
(***************************************************************************)
THEOREM DepositsAreSafe == DepositsSpec => []DepositsInv
<1> DEFINE Inv == CoreInv /\ IsFiniteSet(Credited) /\ WalletAddsUp
<1>1. DepositsInit => Inv
  <2>1. DepositsInit => Credited = {} /\ balance = 0
    BY DEF DepositsInit, Credited
  <2>2. QED  BY <2>1, InitEstablishesInv, FS_EmptySet, SumOfNone DEF WalletAddsUp
<1>2. Inv /\ [DepositsNext \/ DepositsDone]_depositsVars => Inv'
  BY DepositsStepKeepsInv, StepsOfAccount, AccountAddsUp
<1>3. Inv => DepositsInv
  BY DEF CoreInv, DepositsInv, CreditedOnce
<1>4. QED  BY <1>1, <1>2, <1>3, PTL DEF DepositsSpec

(***************************************************************************)
(* A payment has its one DEPOSIT row exactly when it is PAID, and the      *)
(* wallet holds what the PAID payments add up to.                          *)
(***************************************************************************)
THEOREM DepositsAreCreditedOnce == DepositsSpec => []CreditedOnce
<1>1. DepositsInv => CreditedOnce
  BY DEF DepositsInv
<1>2. QED  BY <1>1, DepositsAreSafe, PTL

(***************************************************************************)
(* Nothing is credited that the gateway has not verified.                  *)
(***************************************************************************)
THEOREM DepositsAreVerified == DepositsSpec => []CreditedIfVerified
<1>1. CoreInv => CreditedIfVerified
  BY DEF CoreInv
<1>2. QED  BY <1>1, CoreIsSafe, PTL

(***************************************************************************)
(* PAID is final.                                                          *)
(***************************************************************************)
THEOREM PaidStaysPaid == DepositsSpec => PaidIsFinal
<1> DEFINE Final == \A p \in Payments : payment[p] = "PAID" => payment'[p] = "PAID"
<1>1. ASSUME CoreInv, [DepositsNext \/ DepositsDone]_depositsVars
      PROVE  [Final]_depositsVars
  <2>1. ASSUME NEW p \in Payments,
               \/ CreateDeposit(p) \/ GatewayOpens(p) \/ CreateStep(p) \/ CreateDies(p)
               \/ UserPays(p)
        PROVE  Final
    <3>1. createPc[p] \in {"new", "fail"} => payment[p] # "PAID"
      BY <1>1 DEF CoreInv, DepositsTypeOK, OneRowEach, CreditedIfVerified,
                  ReturnedFirst
    <3>2. QED
      BY <1>1, <2>1, <3>1
         DEF CoreInv, DepositsTypeOK, CreateDeposit, GatewayOpens, CreateStep,
             RequestReturns, StoreAuthority, Respond, FailDeposit, CreateDies, UserPays
  <2>2. ASSUME NEW c \in Reqs,
               (\E p \in Payments : Callback(c, p)) \/ CallbackStep(c) \/ CallbackDies(c)
        PROVE  Final
    BY <1>1, <2>2
       DEF CoreInv, DepositsTypeOK, Callback, CallbackStep, GatewayVerifies, TakeCode,
           MarkFailed, Claim, CreditWallet, Settle, CallbackDies
  <2>3. QED  BY <1>1, <2>1, <2>2 DEF DepositsNext, DepositsDone, depositsVars
<1>2. QED  BY <1>1, CoreIsSafe, PTL DEF DepositsSpec, PaidIsFinal

(***************************************************************************)
(* While createDeposit has not returned, nobody else touches its payment;  *)
(* when it has, the payment can be credited unless the user came back too  *)
(* early, and only a callback that came too early is told another code.    *)
(***************************************************************************)
PaymentKept(p) ==
    /\ createPc[p] \in {"request", "store", "respond"} => payment[p] = "PENDING"
    /\ createPc[p] = "respond" => stored[p]
    /\ linked[p] => stored[p]
    /\ linked[p] /\ p \notin Early => payment[p] \in {"PENDING", "PAID"}

CallbackKept(c) ==
    pc[c] # "idle" =>
        /\ linked[about[c]]
        /\ about[c] \notin Early =>
              /\ gateway[about[c]] \in {"paid", "verified"}
              /\ pc[c] = "answer" => code[c] \in {"100", "101"}
              /\ pc[c] # "reject"

CreditableInv ==
    /\ CoreInv
    /\ \A p \in Payments : PaymentKept(p)
    /\ \A c \in Reqs : CallbackKept(c)

LEMMA CreateKeepsCreditable ==
    ASSUME CreditableInv, NEW p \in Payments,
           \/ CreateDeposit(p) \/ GatewayOpens(p) \/ CreateStep(p) \/ CreateDies(p)
           \/ UserPays(p)
    PROVE  (\A q \in Payments : PaymentKept(q)') /\ (\A c \in Reqs : CallbackKept(c)')
<1>1. /\ DepositsTypeOK /\ PaymentKept(p) /\ ReturnedFirst(p)
      /\ about' = about /\ pc' = pc /\ code' = code
      /\ \A q \in Payments \ {p} :
            /\ payment'[q] = payment[q] /\ stored'[q] = stored[q] /\ linked'[q] = linked[q]
            /\ createPc'[q] = createPc[q] /\ gateway'[q] = gateway[q]
  BY DEF CreditableInv, CoreInv, DepositsTypeOK, CreateDeposit, GatewayOpens, CreateStep,
         RequestReturns, StoreAuthority, Respond, FailDeposit, CreateDies, UserPays, CreateGoto
<1>2. PaymentKept(p)'
  BY <1>1
  DEF PaymentKept, ReturnedFirst, DepositsTypeOK, CreateDeposit, GatewayOpens, CreateStep,
      RequestReturns, StoreAuthority, Respond, FailDeposit, CreateDies, UserPays, CreateGoto
<1>3. /\ linked[p] => linked'[p]
      /\ gateway[p] \in {"paid", "verified"} => gateway'[p] \in {"paid", "verified"}
  BY <1>1
  DEF DepositsTypeOK, CreateDeposit, GatewayOpens, CreateStep,
      RequestReturns, StoreAuthority, Respond, FailDeposit, CreateDies, UserPays, CreateGoto
<1>4. \A q \in Payments \ {p} : PaymentKept(q)'
  BY <1>1 DEF CreditableInv, PaymentKept
<1>5. ASSUME NEW c \in Reqs PROVE CallbackKept(c)'
  <2>1. pc[c] # "idle" => about[c] \in Payments
    BY DEF CreditableInv, CoreInv, VerifiedFirst
  <2>2. CallbackKept(c)
    BY DEF CreditableInv
  <2>3. QED  BY <1>1, <1>3, <2>1, <2>2 DEF CallbackKept
<1>6. QED  BY <1>2, <1>4, <1>5

LEMMA CallbackKeepsCreditable ==
    ASSUME CreditableInv, NEW c \in Reqs,
           (\E p \in Payments : Callback(c, p)) \/ CallbackStep(c) \/ CallbackDies(c)
    PROVE  (\A q \in Payments : PaymentKept(q)') /\ (\A d \in Reqs : CallbackKept(d)')
<1>1. /\ DepositsTypeOK /\ CallbackKept(c) /\ VerifiedFirst(c)
      /\ stored' = stored /\ linked' = linked /\ createPc' = createPc
      /\ \A d \in Reqs \ {c} : pc'[d] = pc[d] /\ about'[d] = about[d] /\ code'[d] = code[d]
  BY DEF CreditableInv, CoreInv, DepositsTypeOK, Callback, CallbackStep, GatewayVerifies,
         TakeCode, MarkFailed, Claim, CreditWallet, Settle, CallbackDies, Answer, Goto
<1>2. \A q \in Payments :
          gateway[q] \in {"paid", "verified"} => gateway'[q] \in {"paid", "verified"}
  BY <1>1
  DEF DepositsTypeOK, VerifiedFirst, Callback, CallbackStep, GatewayVerifies, TakeCode,
      MarkFailed, Claim, CreditWallet, Settle, CallbackDies
<1>3. ASSUME NEW q \in Payments
      PROVE  \/ payment'[q] = payment[q]
             \/ payment'[q] = "PAID" /\ linked[q]
             \/ q \in Early /\ linked[q]
  BY <1>1
  DEF DepositsTypeOK, VerifiedFirst, CallbackKept, Callback, CallbackStep, GatewayVerifies,
      TakeCode, MarkFailed, Claim, CreditWallet, Settle, CallbackDies
<1>4. ASSUME NEW q \in Payments PROVE PaymentKept(q)'
  <2>1. PaymentKept(q) /\ ReturnedFirst(q)
    BY DEF CreditableInv, CoreInv
  <2>2. QED  BY <1>1, <1>3, <2>1 DEF PaymentKept, ReturnedFirst
<1>5. ASSUME NEW d \in Reqs \ {c} PROVE CallbackKept(d)'
  <2>1. CallbackKept(d) /\ (pc[d] # "idle" => about[d] \in Payments)
    BY DEF CreditableInv, CoreInv, VerifiedFirst
  <2>2. QED  BY <1>1, <1>2, <2>1 DEF CallbackKept
<1>6. CallbackKept(c)'
  <2>1. ASSUME NEW p \in Payments, Callback(c, p) PROVE CallbackKept(c)'
    BY <1>1, <2>1 DEF CallbackKept, Callback, MayComeBack, Goto, DepositsTypeOK
  <2>2. CASE GatewayVerifies(c)
    BY <1>1, <2>2 DEF CallbackKept, VerifiedFirst, GatewayVerifies, Goto, DepositsTypeOK
  <2>3. CASE TakeCode(c)
    BY <1>1, <2>3 DEF CallbackKept, TakeCode, Goto, DepositsTypeOK
  <2>4. CASE Claim(c) \/ CreditWallet(c)
    BY <1>1, <2>4 DEF CallbackKept, Claim, CreditWallet, Goto, Answer, DepositsTypeOK
  <2>5. CASE MarkFailed(c) \/ Settle(c) \/ CallbackDies(c)
    BY <1>1, <2>5
    DEF CallbackKept, MarkFailed, Settle, CallbackDies, Goto, Answer, DepositsTypeOK
  <2>6. QED  BY <2>1, <2>2, <2>3, <2>4, <2>5 DEF CallbackStep
<1>7. QED  BY <1>4, <1>5, <1>6

(***************************************************************************)
(* Money that has reached the gateway can be credited, unless the user     *)
(* came back before paying.                                                *)
(***************************************************************************)
THEOREM PaidMoneyStaysCreditable == DepositsSpec => []PaidMoneyIsCreditable
<1>1. DepositsInit => CreditableInv
  BY InitEstablishesInv DEF DepositsInit, CreditableInv, PaymentKept, CallbackKept
<1>2. CreditableInv /\ [DepositsNext \/ DepositsDone]_depositsVars => CreditableInv'
  <2> SUFFICES ASSUME CreditableInv, [DepositsNext \/ DepositsDone]_depositsVars
               PROVE  CreditableInv'
    OBVIOUS
  <2>1. CoreInv'
    BY DepositsStepKeepsInv DEF CreditableInv
  <2>2. CASE DepositsNext
    BY <2>1, <2>2, CreateKeepsCreditable, CallbackKeepsCreditable DEF DepositsNext, CreditableInv
  <2>3. CASE UNCHANGED depositsVars
    BY <2>1, <2>3 DEF depositsVars, CreditableInv, PaymentKept, CallbackKept
  <2>4. QED  BY <2>2, <2>3 DEF DepositsDone
<1>3. CreditableInv => PaidMoneyIsCreditable
  BY DEF CreditableInv, CoreInv, PaymentKept, ReturnedFirst, PaidMoneyIsCreditable
<1>4. QED  BY <1>1, <1>2, <1>3, PTL DEF DepositsSpec
=============================================================================
