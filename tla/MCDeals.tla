------------------------------- MODULE MCDeals -------------------------------
(* A small instance of Cr3dXDeals: two deals of one borrower, financed by    *)
(* one investor, and the payments that tell their outcomes apart.            *)
EXTENDS Cr3dXDeals

CONSTANTS alice, ivan, mallory

MCAccounts == {alice, ivan, mallory}

\* alice's limit is 10: both deals fit while her score is 500 or more.
Short == [borrower |-> alice, designatedInvestor |-> ivan,
          requiredFunding |-> 2, faceValue |-> 3, dueBlock |-> 1]
Long == [borrower |-> alice, designatedInvestor |-> ivan,
         requiredFunding |-> 4, faceValue |-> 7, dueBlock |-> 2]

First == [dealSeq |-> 0, terms |-> Short]
Second == [dealSeq |-> 1, terms |-> Long]

Log(kind, d, from, to, amount, n) ==
    [emitter |-> Gateway, kind |-> kind, dealId |-> d, counterparty |-> from,
     recipient |-> to, amount |-> amount, eventNonce |-> n]

Tx(height, index, logs) ==
    [height |-> height, txIndex |-> index, status |-> 1, logs |-> logs]

\* For First: two fundings, together past the threshold; timely repayments that
\* settle it only together, one by a third party and mixed with funding; a late one that alone
\* overpays; payments between the wrong parties.  For Second: a transaction
\* that repays before it funds, and a late repayment that completes the face.
MCSourceTxs ==
    {Tx(1, 0, <<Log("FUNDING", First, ivan, alice, 2, 0)>>),
     Tx(1, 1, <<Log("FUNDING", First, ivan, alice, 1, 1),
                Log("FUNDING", First, mallory, alice, 5, 2),
                Log("REPAYMENT", First, mallory, ivan, 1, 3)>>),
     Tx(1, 2, <<Log("REPAYMENT", First, alice, ivan, 2, 4)>>),
     Tx(2, 0, <<Log("REPAYMENT", First, alice, ivan, 4, 5),
                Log("REPAYMENT", First, alice, mallory, 3, 6)>>),
     Tx(2, 1, <<Log("REPAYMENT", Second, alice, ivan, 5, 7),
                Log("FUNDING", Second, ivan, alice, 4, 8)>>),
     Tx(3, 0, <<Log("REPAYMENT", Second, alice, ivan, 3, 9)>>)}

MCTerms == {Short, Long}
=============================================================================
