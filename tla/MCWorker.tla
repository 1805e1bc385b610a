------------------------------ MODULE MCWorker ------------------------------
(* Small instances of WorkerEngine: a transaction that funds a deal and      *)
(* repays it, two transactions of one payment each, or a single payment.     *)
EXTENDS WorkerEngine

CONSTANTS deal, pay, again

Log(kind) == [kind |-> kind, deal |-> deal]

OneDeal == {deal}

\* Two tasks of one fact each, alike.
Apart == {pay, again}
ApartLogs == [t \in Apart |-> <<Log("MISDIRECTED")>>]
Alike == Permutations(Apart)

\* One task of two facts.
Together == {pay}
TogetherLogs == pay :> <<Log("FUNDING"), Log("REPAYMENT")>>

\* One task of one fact.
SingleLogs == pay :> <<Log("FUNDING")>>
=============================================================================
