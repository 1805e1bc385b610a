------------------------- MODULE MCSourceToVerifier -------------------------
(* A small instance of SourceToVerifier: an investor and a borrower, one     *)
(* deal identifier, three source transactions of up to two gateway calls.    *)
EXTENDS SourceToVerifier

CONSTANTS investor, borrower, deal

Call(kind, d, from, to, amount) ==
    [kind |-> kind, dealId |-> d, sender |-> from, recipient |-> to, amount |-> amount]

\* Paying in both directions, to oneself, and each call the gateway refuses.
\* With a Supply of 3 the second payment of 2 by one account fails.
MCCalls ==
    {Call("FUNDING", deal, investor, borrower, 2),
     Call("REPAYMENT", deal, borrower, investor, 2),
     Call("REPAYMENT", deal, investor, investor, 1),
     Call("FUNDING", ZeroDeal, investor, borrower, 2),
     Call("FUNDING", deal, investor, ZeroAccount, 2),
     Call("FUNDING", deal, investor, borrower, 0)}
=============================================================================
