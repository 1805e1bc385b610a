----------------------------- MODULE DealLedger -----------------------------
(***************************************************************************)
(* What the registry promises, without its bookkeeping: a deal's status is *)
(* a function of the set of facts counted for it and of whether it stands  *)
(* in default; the order in which proofs were delivered has left no trace. *)
(* Abstracts the counting and settling paths of contracts/Cr3dXDeals.sol.  *)
(***************************************************************************)
EXTENDS Integers, FiniteSets, Functions

CONSTANTS DealIds, Facts, GracePeriod, MaxHeight

VARIABLES
    counted,    \* facts counted towards their deal
    status,     \* status of every deal
    defaulted,  \* deals in default and not repaid since
    attested    \* attested source height

vars == <<counted, status, defaulted, attested>>

Total(F) == SumFunctionOnSet([f \in Facts |-> f.amount], F)

FundingOf(d, C) == {f \in C : f.dealId = d /\ f.kind = "FUNDING"}
RepaymentOf(d, C) == {f \in C : f.dealId = d /\ f.kind = "REPAYMENT"}
OnTimeOf(d, C) == {f \in RepaymentOf(d, C) : f.blockHeight <= d.terms.dueBlock}

Funded(d, C) == Total(FundingOf(d, C)) >= d.terms.requiredFunding
Repaid(d, C) == Total(RepaymentOf(d, C)) >= d.terms.faceValue
RepaidOnTime(d, C) == Total(OnTimeOf(d, C)) >= d.terms.faceValue

\* The status of a created deal, from the facts counted and the defaults.
StatusOf(d, C, D) ==
    CASE ~Funded(d, C) -> "CREATED"
      [] Funded(d, C) /\ RepaidOnTime(d, C) -> "PAID_ON_TIME"
      [] Funded(d, C) /\ ~RepaidOnTime(d, C) /\ Repaid(d, C) -> "PAID_LATE"
      [] Funded(d, C) /\ ~Repaid(d, C) /\ d \in D -> "DEFAULTED"
      [] OTHER -> "FINANCED"

\* Funding counts when the designated investor paid the borrower, repayment
\* when anyone paid the designated investor of a funded deal.
Counts(f, C) ==
    LET d == f.dealId
    IN  /\ status[d] # "NONE"
        /\ \/ /\ f.kind = "FUNDING"
              /\ f.recipient = d.terms.borrower
              /\ f.counterparty = d.terms.designatedInvestor
           \/ /\ f.kind = "REPAYMENT"
              /\ f.recipient = d.terms.designatedInvestor
              /\ Funded(d, C)

Init ==
    /\ counted = {} /\ defaulted = {}
    /\ status = [d \in DealIds |-> "NONE"]
    /\ attested = -1

Open(d) ==
    /\ status[d] = "NONE"
    /\ d.terms.requiredFunding \in 1..d.terms.faceValue
    /\ status' = [status EXCEPT ![d] = "CREATED"]
    /\ UNCHANGED <<counted, defaulted, attested>>

\* The facts counted grow by any set of facts that count, in no order.
Count ==
    /\ counted \subseteq counted' /\ counted' \subseteq Facts
    /\ \A f \in counted' \ counted : Counts(f, counted')
    /\ defaulted' = {d \in defaulted : ~Repaid(d, counted')}
    /\ status' = [d \in DealIds |-> IF status[d] = "NONE" THEN "NONE"
                                    ELSE StatusOf(d, counted', defaulted')]
    /\ UNCHANGED attested

Default(d) ==
    /\ status[d] = "FINANCED"
    /\ attested > d.terms.dueBlock + GracePeriod
    /\ defaulted' = defaulted \cup {d}
    /\ status' = [status EXCEPT ![d] = "DEFAULTED"]
    /\ UNCHANGED <<counted, attested>>

Attest(h) ==
    /\ h > attested
    /\ attested' = h
    /\ UNCHANGED <<counted, status, defaulted>>

Next ==
    \/ \E d \in DealIds : Open(d)
    \/ Count
    \/ \E d \in DealIds : Default(d)
    \/ \E h \in 0..MaxHeight : Attest(h)

Spec == Init /\ [][Next]_vars
=============================================================================
