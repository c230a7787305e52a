\* The user opens the callback page of p1 at any time, that of p2 only when
\* the gateway sends the browser there.
SPECIFICATION FairDepositsSpec
CONSTANTS
    p1 = p1
    p2 = p2
    Payments <- MCPayments
    Rows <- MCRows
    Amount <- MCAmount
    Wallet = Wallet
    NoPayment = NoPayment
    NoReq = NoReq
    Reqs = {c1, c2, c3}
    Early = {p1}
    MaxAborts = 2
INVARIANTS
    DepositsInv
    CreditedOnce
    PaidMoneyIsCreditable
PROPERTIES
    CreditsAreAtomic
    PaidIsCredited
