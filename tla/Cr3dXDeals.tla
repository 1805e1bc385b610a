----------------------------- MODULE Cr3dXDeals -----------------------------
(***************************************************************************)
(* contracts/Cr3dXDeals.sol: the registry that gives proven facts their    *)
(* meaning, with the verifier it reads and the credit layer it writes.  An *)
(* action is one Creditcoin transaction: atomic, and absent when it        *)
(* reverts.  Operators named after the internal functions map the state    *)
(* the transaction has reached, w, to the state they leave.                *)
(***************************************************************************)
EXTENDS Integers, SequencesExt

CONSTANTS
    Accounts,      \* borrowers, investors and strangers
    NoAccount,     \* address(0)
    Terms,         \* terms createDeal is called with
    MaxDeals,      \* bound: deals created
    SourceTxs,     \* every transaction the source chain will ever hold
    Gateway,       \* the gateway's address
    MAX_BATCH,     \* transactions per submission
    BaseLimit,     \* credit line at the base score
    GracePeriod,   \* attestationGracePeriod
    MaxHeight      \* largest source height

VARIABLES
    nextDealSeq,   \* _nextDealSeq
    deals,         \* _deals
    applications,  \* _applications
    credit,        \* storage of Cr3dXCredit
    evidence,      \* facts recorded by Cr3dXVerifier
    attested       \* attested source height (external)

vars == <<nextDealSeq, deals, applications, credit, evidence, attested>>

\* dealIdOf hashes the terms and the sequence number: the identifier is known
\* before the deal exists, and carries the immutable fields of the deal.
DealIds == [dealSeq: 0..(MaxDeals - 1), terms: Terms]

Verifier == INSTANCE Cr3dXVerifier WITH sourceTxs <- SourceTxs

Credit == INSTANCE Cr3dXCredit
              WITH Borrowers <- Accounts, NoBorrower <- NoAccount, Amounts <- {}

\* Every fact the verifier could ever record.
Facts == UNION {ToSet(Verifier!FactsOf(tx)) : tx \in SourceTxs}

\* A transaction carries a sequence of logs.
ASSUME SourceHistory == \A tx \in SourceTxs : tx.logs \in Seq(ToSet(tx.logs))

ASSUME DealsConstants ==
    /\ NoAccount \notin Accounts
    /\ \A t \in Terms :
        /\ {t.borrower, t.designatedInvestor} \subseteq Accounts
        /\ {t.requiredFunding, t.faceValue} \subseteq Nat
        /\ t.dueBlock \in 0..MaxHeight
    /\ \A f \in Facts :
        /\ f.kind \in {"FUNDING", "REPAYMENT"}
        /\ f.dealId \in DealIds
        /\ f.counterparty \in Accounts
        /\ f.amount \in Nat
        /\ f.blockHeight \in 0..MaxHeight
    /\ IsFiniteSet(Terms) /\ IsFiniteSet(SourceTxs)
    /\ {MaxDeals, MAX_BATCH, BaseLimit, GracePeriod, MaxHeight} \subseteq Nat

Statuses == {"NONE", "CREATED", "FINANCED", "DEFAULTED", "PAID_LATE", "PAID_ON_TIME"}

Deal == [status: Statuses, investor: Accounts \cup {NoAccount},
         fundedAmount: Nat, repaidAmount: Nat, onTimeRepaid: Nat]

NoDeal == [status |-> "NONE", investor |-> NoAccount,
           fundedAmount |-> 0, repaidAmount |-> 0, onTimeRepaid |-> 0]

\* What the registry stored about a fact; VERIFIED_PENDING is never stored.
Application == [state: {"UNSEEN", "APPLIED", "REJECTED_PERMANENT"},
                reason: {"NONE", "WRONG_INVESTOR", "WRONG_RECIPIENT"}]

Undecided == [state |-> "UNSEEN", reason |-> "NONE"]

-----------------------------------------------------------------------------
(* The state a transaction has reached. *)

World == [deals |-> deals, applications |-> applications, credit |-> credit,
          reverted |-> FALSE]

Commit(w) ==
    /\ ~w.reverted
    /\ deals' = w.deals
    /\ applications' = w.applications
    /\ credit' = w.credit

\* An external call to the credit layer: its revert reverts the transaction.
CallCredit(w, accepted, c) ==
    IF accepted THEN [w EXCEPT !.credit = c] ELSE [w EXCEPT !.reverted = TRUE]

Decide(w, f, state, reason) ==
    [w EXCEPT !.applications[f] = [state |-> state, reason |-> reason]]

Reject(w, f, reason) == Decide(w, f, "REJECTED_PERMANENT", reason)

RecordOutcome(w, d, result) ==
    CallCredit(w, Credit!MayRecordOutcome(w.credit, d, result, attested),
                  Credit!RecordOutcome(w.credit, d, result, attested))

-----------------------------------------------------------------------------
(* Applying one fact. *)

\* Mutation: the threshold must be exceeded, not reached.
BadCrossesLate(deal, required, amount) ==
    /\ deal.fundedAmount <= required
    /\ deal.fundedAmount + amount > required

\* Mutation: a property of the total, true again for every later payment.
BadCrossesAgain(deal, required, amount) == deal.fundedAmount + amount >= required

\* True for the one payment that takes the total over the threshold.
Crosses(deal, required, amount) ==
    /\ deal.fundedAmount < required
    /\ deal.fundedAmount + amount >= required

CountFunding(w, f) ==
    LET d == f.dealId
        crosses == Crosses(w.deals[d], d.terms.requiredFunding, f.amount)
        counted == [Decide(w, f, "APPLIED", "NONE") EXCEPT
                       !.deals[d] = [w.deals[d] EXCEPT
                           !.fundedAmount = @ + f.amount,
                           !.investor = IF crosses THEN f.counterparty ELSE @,
                           !.status = IF crosses THEN "FINANCED" ELSE @]]
    IN  IF crosses
        THEN CallCredit(counted, Credit!MayMarkFinanced(w.credit, d),
                                 Credit!MarkFinanced(w.credit, d))
        ELSE counted

\* Mutation: funding is refused once the deal is financed.
BadApplyFunding(w, f) ==
    IF w.deals[f.dealId].status # "CREATED" THEN w
    ELSE IF f.recipient # f.dealId.terms.borrower THEN Reject(w, f, "WRONG_RECIPIENT")
    ELSE IF f.counterparty # f.dealId.terms.designatedInvestor THEN Reject(w, f, "WRONG_INVESTOR")
    ELSE CountFunding(w, f)

ApplyFunding(w, f) ==
    LET d == f.dealId
    IN  IF w.deals[d].status = "NONE" THEN w
        ELSE IF f.recipient # d.terms.borrower THEN Reject(w, f, "WRONG_RECIPIENT")
        ELSE IF f.counterparty # d.terms.designatedInvestor THEN Reject(w, f, "WRONG_INVESTOR")
        ELSE CountFunding(w, f)

\* Mutation: a defaulted deal is closed without telling the credit layer.
BadSettle(w, d) ==
    LET deal == w.deals[d]
        derived == IF deal.onTimeRepaid >= d.terms.faceValue
                   THEN "PAID_ON_TIME" ELSE "PAID_LATE"
        closed == [w EXCEPT !.deals[d].status = derived]
    IN  IF \/ deal.status \in {"PAID_ON_TIME", derived}
           \/ deal.repaidAmount < d.terms.faceValue
        THEN w
        ELSE IF deal.status = "DEFAULTED" THEN closed ELSE RecordOutcome(closed, d, derived)

\* The status the totals call for once the face value is repaid.
Settle(w, d) ==
    LET deal == w.deals[d]
        derived == IF deal.onTimeRepaid >= d.terms.faceValue
                   THEN "PAID_ON_TIME" ELSE "PAID_LATE"
    IN  IF \/ deal.status \in {"PAID_ON_TIME", derived}
           \/ deal.onTimeRepaid < d.terms.faceValue /\ deal.repaidAmount < d.terms.faceValue
        THEN w
        ELSE RecordOutcome([w EXCEPT !.deals[d].status = derived], d, derived)

Outstanding(d, repaid) == Credit!SatSub(d.terms.faceValue, repaid)

\* Mutation: the whole amount leaves the exposure, an overpayment too.
BadCountRepayment(w, f) ==
    LET d == f.dealId
        counted == [Decide(w, f, "APPLIED", "NONE") EXCEPT
                       !.deals[d] = [@ EXCEPT
                           !.repaidAmount = @ + f.amount,
                           !.onTimeRepaid = IF f.blockHeight <= d.terms.dueBlock
                                            THEN @ + f.amount ELSE @]]
    IN  [counted EXCEPT !.credit = Credit!ReduceExposure(w.credit, d, f.amount)]

\* Mutation: a repayment is timely if it is proven before the due block.
BadCountRepaymentProvenLate(w, f) ==
    LET d == f.dealId
        retired == Outstanding(d, w.deals[d].repaidAmount)
                     - Outstanding(d, w.deals[d].repaidAmount + f.amount)
        counted == [Decide(w, f, "APPLIED", "NONE") EXCEPT
                       !.deals[d] = [@ EXCEPT
                           !.repaidAmount = @ + f.amount,
                           !.onTimeRepaid = IF attested <= d.terms.dueBlock
                                            THEN @ + f.amount ELSE @]]
    IN  [counted EXCEPT !.credit = Credit!ReduceExposure(w.credit, d, retired)]

CountRepayment(w, f) ==
    LET d == f.dealId
        onTime == f.blockHeight <= d.terms.dueBlock
        retired == Outstanding(d, w.deals[d].repaidAmount)
                     - Outstanding(d, w.deals[d].repaidAmount + f.amount)
        counted == [Decide(w, f, "APPLIED", "NONE") EXCEPT
                       !.deals[d] = [w.deals[d] EXCEPT
                           !.repaidAmount = @ + f.amount,
                           !.onTimeRepaid = IF onTime THEN @ + f.amount ELSE @]]
    IN  IF retired > 0
        THEN CallCredit(counted, Credit!MayReduceExposure(w.credit, d),
                                 Credit!ReduceExposure(w.credit, d, retired))
        ELSE counted

\* Mutation: the payee is checked against the investor recorded at funding.
BadApplyRepayment(w, f) ==
    LET d == f.dealId
    IN  IF w.deals[d].status = "NONE" THEN w
        ELSE IF f.recipient # w.deals[d].investor THEN Reject(w, f, "WRONG_RECIPIENT")
        ELSE Settle(CountRepayment(w, f), d)

\* Mutation: a deal in default accepts no repayment.
BadApplyRepaymentLive(w, f) ==
    LET d == f.dealId
    IN  IF w.deals[d].status \in {"NONE", "DEFAULTED"} THEN w
        ELSE IF f.recipient # d.terms.designatedInvestor THEN Reject(w, f, "WRONG_RECIPIENT")
        ELSE IF w.deals[d].status = "CREATED" THEN w
        ELSE Settle(CountRepayment(w, f), d)

ApplyRepayment(w, f) ==
    LET d == f.dealId
    IN  IF w.deals[d].status = "NONE" THEN w
        ELSE IF f.recipient # d.terms.designatedInvestor THEN Reject(w, f, "WRONG_RECIPIENT")
        ELSE IF w.deals[d].status = "CREATED" THEN w
        ELSE Settle(CountRepayment(w, f), d)

\* A revert ends the transaction, so nothing is classified after one.
Classify(w, f) ==
    IF w.reverted THEN w
    ELSE IF f.kind = "FUNDING" THEN ApplyFunding(w, f) ELSE ApplyRepayment(w, f)

Apply(w, f) == IF w.applications[f].state # "UNSEEN" THEN w ELSE Classify(w, f)

\* One stable pass over the facts of a submission, for one kind.
ApplySubmittedPhase(w, facts, kind) ==
    LET after[i \in 0..Len(facts)] ==
            IF i = 0 THEN w
            ELSE IF facts[i].kind = kind THEN Classify(after[i - 1], facts[i])
            ELSE after[i - 1]
    IN  after[Len(facts)]

\* Mutation: repayments are applied before the funding that unlocks them.
BadApplySubmitted(w, facts) ==
    ApplySubmittedPhase(ApplySubmittedPhase(w, facts, "REPAYMENT"), facts, "FUNDING")

\* Every funding in returned order, then every repayment in returned order.
ApplySubmitted(w, facts) ==
    ApplySubmittedPhase(ApplySubmittedPhase(w, facts, "FUNDING"), facts, "REPAYMENT")

-----------------------------------------------------------------------------
(* Transactions. *)

Init ==
    /\ nextDealSeq = 0
    /\ deals = [d \in DealIds |-> NoDeal]
    /\ applications = [f \in Facts |-> Undecided]
    /\ credit = Credit!EmptyStorage
    /\ evidence = {}
    /\ attested = Credit!NoHeight

CreateDeal(t) ==
    LET d == [dealSeq |-> nextDealSeq, terms |-> t]
    IN  /\ t.requiredFunding # 0 /\ t.requiredFunding <= t.faceValue
        /\ nextDealSeq < MaxDeals
        /\ nextDealSeq' = nextDealSeq + 1
        /\ Commit(CallCredit([World EXCEPT !.deals[d].status = "CREATED"],
                             Credit!MayOpenDeal(credit, d, t.borrower, t.faceValue),
                             Credit!OpenDeal(credit, d, t.borrower, t.faceValue)))
        /\ UNCHANGED <<evidence, attested>>

\* Mutation: the sum wraps at the width of a source height.
BadDefaultThreshold(d) == (d.terms.dueBlock + GracePeriod) % (MaxHeight + 1)

\* Widened arithmetic: the threshold may exceed MaxHeight.
DefaultThreshold(d) == d.terms.dueBlock + GracePeriod

\* Mutation: any deal that was financed may default, a paid one too.
BadMarkDefaulted(d) ==
    /\ deals[d].status \notin {"NONE", "CREATED", "DEFAULTED"}
    /\ attested # Credit!NoHeight /\ attested > DefaultThreshold(d)
    /\ Commit(RecordOutcome([World EXCEPT !.deals[d].status = "DEFAULTED"], d, "DEFAULTED"))
    /\ UNCHANGED <<nextDealSeq, evidence, attested>>

MarkDefaulted(d) ==
    /\ deals[d].status = "FINANCED"
    /\ attested # Credit!NoHeight /\ attested > DefaultThreshold(d)
    /\ Commit(RecordOutcome([World EXCEPT !.deals[d].status = "DEFAULTED"], d, "DEFAULTED"))
    /\ UNCHANGED <<nextDealSeq, evidence, attested>>

\* Anyone may submit straight to the verifier; the registry is not told.
SubmitToVerifier(txs) ==
    /\ Verifier!SubmitEvidence(txs)
    /\ UNCHANGED <<nextDealSeq, deals, applications, credit, attested>>

\* submitAndApply and submitAndApplyBatch.
SubmitAndApply(txs) ==
    /\ Verifier!SubmitEvidence(txs)
    /\ Commit(ApplySubmitted(World, Verifier!SubmittedFacts(txs)))
    /\ UNCHANGED <<nextDealSeq, attested>>

ApplyEvidence(f) ==
    /\ f \in evidence
    /\ Commit(Apply(World, f))
    /\ UNCHANGED <<nextDealSeq, evidence, attested>>

\* The attestor set moves the height forward, by any jump (external).
Attest(h) ==
    /\ h > attested
    /\ attested' = h
    /\ UNCHANGED <<nextDealSeq, deals, applications, credit, evidence>>

Next ==
    \/ \E t \in Terms : CreateDeal(t)
    \/ \E d \in DealIds : MarkDefaulted(d)
    \/ \E txs \in Verifier!Submissions : SubmitToVerifier(txs) \/ SubmitAndApply(txs)
    \/ \E f \in Facts : ApplyEvidence(f)
    \/ \E h \in 0..MaxHeight : Attest(h)

Spec == Init /\ [][Next]_vars

\* Applying is permissionless and idempotent: somebody keeps retrying every
\* fact that is waiting (the worker does; so may the payer).
FairSpec == Spec /\ \A f \in Facts : WF_vars(ApplyEvidence(f))

-----------------------------------------------------------------------------
(* Properties. *)

TypeOK ==
    /\ nextDealSeq \in 0..MaxDeals
    /\ deals \in [DealIds -> Deal]
    /\ applications \in [Facts -> Application]
    /\ credit \in Credit!Storage
    /\ evidence \subseteq Facts
    /\ attested \in (0..MaxHeight) \cup {Credit!NoHeight}

Total(F) == SumFunctionOnSet([f \in Facts |-> f.amount], F)

AppliedFacts == {f \in Facts : applications[f].state = "APPLIED"}
FundingOf(d, F) == {f \in F : f.dealId = d /\ f.kind = "FUNDING"}
RepaymentOf(d, F) == {f \in F : f.dealId = d /\ f.kind = "REPAYMENT"}

\* INV-2, INV-17.  A deal's three totals are the sums over the facts applied
\* to it: none counted twice, trimmed, or judged late because proven late.
TotalsAreAppliedFacts ==
    \A d \in DealIds :
        LET repayments == RepaymentOf(d, AppliedFacts)
        IN  /\ deals[d].fundedAmount = Total(FundingOf(d, AppliedFacts))
            /\ deals[d].repaidAmount = Total(repayments)
            /\ deals[d].onTimeRepaid =
                   Total({f \in repayments : f.blockHeight <= d.terms.dueBlock})

WasFinanced(d) == deals[d].status \notin {"NONE", "CREATED"}

OutcomeOf(status) == IF status \in Credit!Outcomes THEN status ELSE "NONE"

\* INV-21.  The registry and the credit layer agree on every deal: one is open
\* in both or neither, financed in both or neither, and the status and the
\* canonical outcome moved together.
LayersAgree ==
    \A d \in DealIds :
        LET record == credit.records[d]
        IN  /\ record.borrower = IF deals[d].status = "NONE" THEN NoAccount ELSE d.terms.borrower
            /\ record.faceValue = IF deals[d].status = "NONE" THEN 0 ELSE d.terms.faceValue
            /\ record.financed = WasFinanced(d)
            /\ record.outcome = OutcomeOf(deals[d].status)

\* INV-1, INV-4, INV-12, INV-18.  The status is the one the totals call for:
\* financed exactly when the threshold is reached, paid exactly when the face
\* value is, on time exactly when the timely part alone covers it.
StatusMatchesTotals ==
    \A d \in DealIds :
        LET deal == deals[d]
        IN  /\ deal.status = "NONE" => deal = NoDeal
            /\ deal.status # "NONE" =>
                 /\ d.terms.requiredFunding \in 1..d.terms.faceValue
                 /\ WasFinanced(d) <=> deal.fundedAmount >= d.terms.requiredFunding
                 /\ deal.investor = IF WasFinanced(d) THEN d.terms.designatedInvestor ELSE NoAccount
                 /\ deal.status = "CREATED" => deal.repaidAmount = 0
                 /\ deal.onTimeRepaid <= deal.repaidAmount
                 /\ deal.status = "PAID_ON_TIME" <=> deal.onTimeRepaid >= d.terms.faceValue
                 /\ deal.status = "PAID_LATE" <=>
                       deal.repaidAmount >= d.terms.faceValue /\ deal.onTimeRepaid < d.terms.faceValue

BorrowerDeals(b, S) == {d \in DealIds : d.terms.borrower = b /\ deals[d].status \in S}

\* INV-13.  Reserve is the face value of deals still waiting for funding.
ReserveIsCreatedFace ==
    \A b \in Accounts :
        credit.reserved[b] =
            SumFunctionOnSet([d \in DealIds |-> d.terms.faceValue], BorrowerDeals(b, {"CREATED"}))

\* INV-9.  Exposure is the debt outstanding on financed and defaulted deals:
\* neither default, overpayment nor a refined outcome releases another deal's.
ExposureIsOutstanding ==
    \A b \in Accounts :
        credit.exposure[b] =
            SumFunctionOnSet([d \in DealIds |-> Outstanding(d, deals[d].repaidAmount)],
                             BorrowerDeals(b, {"FINANCED", "DEFAULTED"}))

\* Every amount in storage is a sum: a deal's over the facts applied to it, a
\* borrower's over the deals in the statuses that count; all are well typed.
AmountsAreSums == TypeOK /\ TotalsAreAppliedFacts /\ ReserveIsCreatedFace /\ ExposureIsOutstanding

\* A recorded fact can always be applied: no history of calls makes the credit
\* layer revert under it, which would strand money that has already moved.
NoFactStranded == \A f \in evidence : ~Apply(World, f).reverted

\* INV-19.  A fact is refused exactly when it names the wrong parties, for the
\* reason checked first, and only facts the verifier recorded are decided.
Mismatch(f) ==
    LET payee == IF f.kind = "FUNDING" THEN f.dealId.terms.borrower
                 ELSE f.dealId.terms.designatedInvestor
    IN  IF f.recipient # payee THEN "WRONG_RECIPIENT"
        ELSE IF f.kind = "FUNDING" /\ f.counterparty # f.dealId.terms.designatedInvestor
        THEN "WRONG_INVESTOR" ELSE "NONE"

DecisionsAreFinal ==
    \A f \in Facts :
        applications[f].state # "UNSEEN" =>
            /\ f \in evidence
            /\ deals[f.dealId].status # "NONE"
            /\ applications[f].reason = Mismatch(f)
            /\ applications[f].state = IF Mismatch(f) = "NONE" THEN "APPLIED" ELSE "REJECTED_PERMANENT"

\* INV-22.  A default was earned: the attested height had passed the due block
\* plus grace when the outcome was stamped, even where that sum exceeds the
\* range of a source height.
DefaultOnlyAfterGrace ==
    \A d \in DealIds :
        credit.records[d].outcome = "DEFAULTED" =>
            credit.records[d].closedAtBlock > d.terms.dueBlock + GracePeriod

Rank == [s \in Statuses |->
            CASE s = "NONE" -> 0 [] s = "CREATED" -> 1 [] s = "FINANCED" -> 2
              [] s = "DEFAULTED" -> 3 [] s = "PAID_LATE" -> 4 [] s = "PAID_ON_TIME" -> 5]

\* INV-1, INV-22.  A deal only moves up its lifecycle, through CREATED before
\* anything else; a paid deal never becomes unpaid.
LifecycleOnlyRises ==
    [][\A d \in DealIds :
          /\ Rank[deals[d].status] <= Rank[deals'[d].status]
          /\ deals[d].status = "NONE" => deals'[d].status \in {"NONE", "CREATED"}]_vars

\* submitAndApply leaves nothing ready behind: if it decides any of the facts
\* it records, then none of them is left waiting on a deal that is financed,
\* whatever the order of logs and transactions.
SubmissionLeavesNothingReady ==
    [][LET new == evidence' \ evidence
           decided == {f \in new : applications'[f].state # "UNSEEN"}
       IN  decided # {} =>
             \A f \in new \ decided : deals'[f.dealId].status \in {"NONE", "CREATED"}]_vars

\* The facts that count once every recorded fact has been retried.
EventuallyCounted ==
    LET matching == {f \in evidence : Mismatch(f) = "NONE" /\ deals[f.dealId].status # "NONE"}
    IN  {f \in matching :
            \/ f.kind = "FUNDING"
            \/ Total(FundingOf(f.dealId, matching)) >= f.dealId.terms.requiredFunding}

\* INV-3, INV-20.  Once no retry changes anything, the facts counted depend on
\* which facts were proven and which deals exist, never on delivery order.
DeliveryOrderForgotten ==
    (\A f \in evidence : Apply(World, f) = World) => AppliedFacts = EventuallyCounted

\* The registry implements the ledger, in which status is a function of the
\* set of facts counted and facts are counted without order.
Ledger == INSTANCE DealLedger
              WITH counted <- AppliedFacts,
                   status <- [d \in DealIds |-> deals[d].status],
                   defaulted <- {d \in DealIds : deals[d].status = "DEFAULTED"}

ImplementsLedger == Ledger!Spec

\* With retries, every fact recorded for a deal that gets financed is decided:
\* no proven payment waits forever.
EveryFactDecided ==
    \A f \in Facts :
        f \in evidence /\ WasFinanced(f.dealId) ~> applications[f].state # "UNSEEN"
=============================================================================
