----------------------------- MODULE MCDealsEdge -----------------------------
(* A second instance of Cr3dXDeals: deadlines at both ends of the height     *)
(* range, a credit limit that shrinks and grows back, two borrowers, terms   *)
(* createDeal refuses, and transactions the verifier refuses.  It is also    *)
(* what WorkerRegistry is checked on.                                        *)
EXTENDS WorkerRegistry

CONSTANTS alice, bob, ivan, Stranger

MCAccounts == {alice, bob, ivan}

DealTerms(b, required, face, due) ==
    [borrower |-> b, designatedInvestor |-> ivan, requiredFunding |-> required,
     faceValue |-> face, dueBlock |-> due]

\* With a BaseLimit of 8, Quick and Slow fit together at a score of 500, Slow
\* alone no longer fits beside a defaulted Quick (limit 4), and fits again
\* once Quick is paid late (limit 7).
Quick == DealTerms(alice, 3, 3, 0)
Slow == DealTerms(alice, 1, 4, MaxHeight)
Other == DealTerms(bob, 2, 2, 1)
MCTerms == {Quick, Slow, Other, DealTerms(alice, 0, 1, 0), DealTerms(alice, 2, 1, 0)}

Log(emitter, kind, d, from, to, amount, n) ==
    [emitter |-> emitter, kind |-> kind, dealId |-> d, counterparty |-> from,
     recipient |-> to, amount |-> amount, eventNonce |-> n]

Funding(t, seq, amount, n) ==
    Log(Gateway, "FUNDING", [dealSeq |-> seq, terms |-> t], ivan, t.borrower, amount, n)
Repayment(t, seq, amount, n) ==
    Log(Gateway, "REPAYMENT", [dealSeq |-> seq, terms |-> t], t.borrower, ivan, amount, n)

Tx(height, index, status, logs) ==
    [height |-> height, txIndex |-> index, status |-> status, logs |-> logs]

MCSourceTxs ==
    {Tx(0, 0, 1, <<Funding(Quick, 0, 3, 0)>>),
     Tx(0, 1, 0, <<>>),
     Tx(0, 2, 1, <<Log(Stranger, "FUNDING", [dealSeq |-> 0, terms |-> Quick], ivan, alice, 3, 0)>>),
     Tx(1, 0, 1, <<Repayment(Quick, 0, 2, 1), Repayment(Quick, 0, 2, 2)>>),
     Tx(1, 1, 1, <<Funding(Slow, 1, 1, 3), Funding(Slow, 1, 2, 4)>>),
     Tx(1, 2, 1, <<Funding(Other, 1, 2, 5), Repayment(Other, 1, 2, 6)>>),
     Tx(3, 0, 1, <<Repayment(Slow, 1, 5, 7)>>)}

ASSUME SourceHistoryIsTheGateways == EventsAreNumbered
ASSUME EachFundingSuffices == FundingsSuffice
=============================================================================
