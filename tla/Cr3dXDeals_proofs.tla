-------------------------- MODULE Cr3dXDeals_proofs --------------------------
(***************************************************************************)
(* Theorems about Cr3dXDeals, for every set of terms, accounts, deals and  *)
(* source transactions, every batch size, limit, grace period and height;  *)
(* the last part is about WorkerRegistry.                                  *)
(***************************************************************************)
EXTENDS WorkerRegistry, FoldLemmas

-----------------------------------------------------------------------------
(* Worlds: what a transaction works on. *)

Worlds == [deals: [DealIds -> Deal], applications: [Facts -> Application],
           credit: Credit!Storage, reverted: BOOLEAN]

\* The shapes of the writes a transaction makes to the registry's own storage.
LEMMA DecideEffect ==
  ASSUME NEW w \in Worlds, NEW f \in Facts, NEW a \in Application
  PROVE  LET n == Decide(w, f, a.state, a.reason)
         IN  /\ n \in Worlds
             /\ n.deals = w.deals /\ n.credit = w.credit /\ n.reverted = w.reverted
             /\ n.applications = [w.applications EXCEPT ![f] = a]
<1>1. a = [state |-> a.state, reason |-> a.reason]
  BY DEF Application
<1>2. Decide(w, f, a.state, a.reason) = [w EXCEPT !.applications[f] = a]
  BY <1>1 DEF Decide
<1> QED BY <1>2 DEF Worlds

\* Writing one deal of _deals leaves every other mapping alone.
LEMMA SetDealEffect ==
  ASSUME NEW w \in Worlds, NEW d \in DealIds, NEW x \in Deal
  PROVE  LET n == [w EXCEPT !.deals[d] = x]
         IN  /\ n \in Worlds
             /\ n.applications = w.applications /\ n.credit = w.credit
             /\ n.reverted = w.reverted
             /\ n.deals = [w.deals EXCEPT ![d] = x]
BY DEF Worlds

\* A call of the credit layer replaces its storage, or reverts.
LEMMA CallCreditEffect ==
  ASSUME NEW w \in Worlds, NEW accepted \in BOOLEAN, NEW c, accepted => c \in Credit!Storage
  PROVE  LET n == CallCredit(w, accepted, c)
         IN  /\ n \in Worlds
             /\ n.applications = w.applications /\ n.deals = w.deals
             /\ n.reverted = (w.reverted \/ ~accepted)
             /\ n.credit = IF accepted THEN c ELSE w.credit
BY DEF Worlds, CallCredit

-----------------------------------------------------------------------------
(* What the calls into the credit layer do to its storage. *)

\* What the fields of well-typed credit storage hold.
LEMMA CreditParts ==
  ASSUME NEW c \in Credit!Storage
  PROVE  /\ \A d \in DealIds : c.records[d] \in Credit!DealRecord
         /\ \A b \in Accounts : /\ c.reserved[b] \in Nat
                               /\ c.exposure[b] \in Nat
                               /\ c.counters[b] \in [Credit!Outcomes -> Nat]
BY DEF Credit!Storage

\* The saturating subtraction of naturals is a natural.
LEMMA SatSubType ==
  ASSUME NEW a \in Nat, NEW b \in Nat
  PROVE  Credit!SatSub(a, b) \in Nat /\ Credit!SatSub(a, b) <= a
BY DEF Credit!SatSub

\* The record openDeal leaves.
Opened(record, b, face) == [record EXCEPT !.borrower = b, !.faceValue = face]

\* openDeal writes one record and keeps the storage well typed.
LEMMA OpenDealEffect ==
  ASSUME NEW c \in Credit!Storage, NEW d \in DealIds, NEW b \in Accounts, NEW face \in Nat
  PROVE  LET n == Credit!OpenDeal(c, d, b, face)
         IN  /\ n \in Credit!Storage
             /\ n.records = [c.records EXCEPT ![d] = Opened(@, b, face)]
<1> DEFINE rec == Opened(c.records[d], b, face)
           held == c.reserved[b] + face
           n == [c EXCEPT !.records[d] = rec, !.reserved[b] = held]
<1>1. rec \in Credit!DealRecord
  BY CreditParts DEF Credit!DealRecord, Opened
<1>2. held \in Nat
  BY CreditParts
<1>3. Credit!OpenDeal(c, d, b, face) = n
  BY DEF Credit!OpenDeal, Opened
<1> HIDE DEF rec, held
<1>4. n \in Credit!Storage /\ n.records = [c.records EXCEPT ![d] = rec]
  BY <1>1, <1>2 DEF Credit!Storage
<1> HIDE DEF n
<1> QED BY <1>3, <1>4 DEF rec

\* markFinanced sets one financed flag and keeps the storage well typed.
LEMMA MarkFinancedEffect ==
  ASSUME NEW c \in Credit!Storage, NEW d \in DealIds, Credit!IsOpen(c, d)
  PROVE  LET n == Credit!MarkFinanced(c, d)
         IN  /\ n \in Credit!Storage
             /\ n.records = [c.records EXCEPT ![d] = [@ EXCEPT !.financed = TRUE]]
<1> DEFINE b == c.records[d].borrower
           face == c.records[d].faceValue
           rec == [c.records[d] EXCEPT !.financed = TRUE]
           held == Credit!SatSub(c.reserved[b], face)
           owed == c.exposure[b] + face
           n == [c EXCEPT !.records[d] = rec, !.reserved[b] = held, !.exposure[b] = owed]
<1>1. b \in Accounts /\ face \in Nat /\ rec \in Credit!DealRecord
  BY CreditParts DEF Credit!DealRecord, Credit!IsOpen
<1>2. held \in Nat /\ owed \in Nat
  BY <1>1, CreditParts, SatSubType
<1>3. Credit!MarkFinanced(c, d) = n
  BY DEF Credit!MarkFinanced
<1> HIDE DEF b, face, rec, held, owed
<1>4. n \in Credit!Storage /\ n.records = [c.records EXCEPT ![d] = rec]
  BY <1>1, <1>2 DEF Credit!Storage
<1> HIDE DEF n
<1> QED BY <1>3, <1>4 DEF rec

\* reduceExposure changes no record and keeps the storage well typed.
LEMMA ReduceExposureEffect ==
  ASSUME NEW c \in Credit!Storage, NEW d \in DealIds, NEW amount \in Nat, Credit!IsOpen(c, d)
  PROVE  LET n == Credit!ReduceExposure(c, d, amount)
         IN  n \in Credit!Storage /\ n.records = c.records
<1> DEFINE b == c.records[d].borrower
           owed == Credit!SatSub(c.exposure[b], amount)
           n == [c EXCEPT !.exposure[b] = owed]
<1>1. b \in Accounts
  BY CreditParts DEF Credit!DealRecord, Credit!IsOpen
<1>2. owed \in Nat
  BY <1>1, CreditParts, SatSubType
<1>3. Credit!ReduceExposure(c, d, amount) = n
  BY DEF Credit!ReduceExposure
<1> HIDE DEF b, owed
<1>4. n \in Credit!Storage /\ n.records = c.records
  BY <1>1, <1>2 DEF Credit!Storage
<1> HIDE DEF n
<1> QED BY <1>3, <1>4

\* The record recordOutcome leaves.
Concluded(record, r, height) == [record EXCEPT !.outcome = r, !.closedAtBlock = height]

\* A record that is given an outcome and a height is still a record.
LEMMA ConcludedType ==
  ASSUME NEW record \in Credit!DealRecord, NEW r \in Credit!Results,
         NEW height \in (0..MaxHeight) \cup {Credit!NoHeight}
  PROVE  LET n == Concluded(record, r, height)
         IN  /\ n \in Credit!DealRecord
             /\ n.borrower = record.borrower /\ n.faceValue = record.faceValue
             /\ n.financed = record.financed
             /\ n.outcome = r /\ n.closedAtBlock = height
BY DEF Concluded, Credit!DealRecord, Credit!Heights

\* Storage n is c with one record concluded, or untouched where it already was.
OutcomeRecorded(c, n, d, r, height) ==
    /\ n \in Credit!Storage
    /\ n.records = IF c.records[d].outcome = r THEN c.records
                   ELSE [c.records EXCEPT ![d] = Concluded(@, r, height)]

\* recordOutcome concludes one record, or leaves it as it already stood.
LEMMA RecordOutcomeEffect ==
  ASSUME NEW c \in Credit!Storage, NEW d \in DealIds, NEW r \in Credit!Results,
         NEW height \in (0..MaxHeight) \cup {Credit!NoHeight},
         Credit!MayRecordOutcome(c, d, r, height)
  PROVE  OutcomeRecorded(c, Credit!RecordOutcome(c, d, r, height), d, r, height)
<1> SUFFICES LET n == Credit!RecordOutcome(c, d, r, height)
             IN  /\ n \in Credit!Storage
                 /\ n.records = IF c.records[d].outcome = r THEN c.records
                                ELSE [c.records EXCEPT ![d] = Concluded(@, r, height)]
  BY DEF OutcomeRecorded
<1> DEFINE b == c.records[d].borrower
           previous == c.records[d].outcome
           rec == Concluded(c.records[d], r, height)
           k == Credit!StepUp(Credit!StepDown(c.counters[b], previous), r)
           n == [c EXCEPT !.counters[b] = k, !.records[d] = rec]
<1>1. CASE previous = r
  BY <1>1 DEF Credit!RecordOutcome
<1>2. CASE previous # r
  <2>1. b \in Accounts /\ previous \in Credit!Results /\ r \in Credit!Outcomes
    BY CreditParts
       DEF Credit!DealRecord, Credit!MayRecordOutcome, Credit!IsOpen, Credit!Outcomes
  <2>2. Credit!StepDown(c.counters[b], previous) \in [Credit!Outcomes -> Nat]
    <3>1. CASE previous = "NONE"
      BY <2>1, <3>1, CreditParts DEF Credit!StepDown
    <3>2. CASE previous # "NONE"
      <4>1. previous \in Credit!Outcomes /\ c.counters[b][previous] - 1 \in Nat
        BY <1>2, <2>1, <3>2, CreditParts DEF Credit!MayRecordOutcome, Credit!Outcomes
      <4> QED BY <2>1, <3>2, <4>1, CreditParts DEF Credit!StepDown
    <3> QED BY <3>1, <3>2
  <2>3. k \in [Credit!Outcomes -> Nat]
    BY <2>1, <2>2 DEF Credit!StepUp
  <2>4. rec \in Credit!DealRecord
    BY CreditParts, ConcludedType
  <2>5. Credit!RecordOutcome(c, d, r, height) = n
    BY <1>2 DEF Credit!RecordOutcome, Concluded
  <2> HIDE DEF b, rec, k
  <2>6. n \in Credit!Storage /\ n.records = [c.records EXCEPT ![d] = rec]
    BY <2>1, <2>3, <2>4 DEF Credit!Storage
  <2> HIDE DEF n
  <2> QED BY <1>2, <2>5, <2>6 DEF rec
<1> QED BY <1>1, <1>2

-----------------------------------------------------------------------------
(* What applying one fact does. *)

\* The terms of a deal and the fields of a fact are well typed.
LEMMA DealIdParts ==
  ASSUME NEW d \in DealIds
  PROVE  /\ d.terms.borrower \in Accounts /\ d.terms.designatedInvestor \in Accounts
         /\ d.terms.requiredFunding \in Nat /\ d.terms.faceValue \in Nat
         /\ d.terms.dueBlock \in 0..MaxHeight
<1>1. d.terms \in Terms
  BY DEF DealIds
<1> QED BY <1>1, DealsConstants

\* The fields of a fact, as the constants assume them.
LEMMA FactParts ==
  ASSUME NEW f \in Facts
  PROVE  /\ f.kind \in {"FUNDING", "REPAYMENT"} /\ f.dealId \in DealIds
         /\ f.counterparty \in Accounts /\ f.amount \in Nat
BY DealsConstants

\* The fields of a world.
LEMMA WorldParts ==
  ASSUME NEW w \in Worlds
  PROVE  /\ w.credit \in Credit!Storage /\ w.reverted \in BOOLEAN
         /\ w.deals \in [DealIds -> Deal] /\ w.applications \in [Facts -> Application]
         /\ \A d \in DealIds : w.deals[d] \in Deal
BY DEF Worlds

\* World n is w with one fact refused.
RejectedAs(w, n, f, reason) ==
    /\ n \in Worlds
    /\ n.deals = w.deals /\ n.credit = w.credit /\ n.reverted = w.reverted
    /\ n.applications = [w.applications EXCEPT
          ![f] = [state |-> "REJECTED_PERMANENT", reason |-> reason]]

\* A rejection is a decision and nothing else.
LEMMA RejectEffect ==
  ASSUME NEW w \in Worlds, NEW f \in Facts, NEW reason \in {"WRONG_INVESTOR", "WRONG_RECIPIENT"}
  PROVE  RejectedAs(w, Reject(w, f, reason), f, reason)
<1> SUFFICES LET n == Reject(w, f, reason)
             IN  /\ n \in Worlds
                 /\ n.deals = w.deals /\ n.credit = w.credit /\ n.reverted = w.reverted
                 /\ n.applications = [w.applications EXCEPT
                       ![f] = [state |-> "REJECTED_PERMANENT", reason |-> reason]]
  BY DEF RejectedAs
<1> DEFINE a == [state |-> "REJECTED_PERMANENT", reason |-> reason]
<1>1. a \in Application /\ a.state = "REJECTED_PERMANENT" /\ a.reason = reason
  BY DEF Application
<1>2. Reject(w, f, reason) = Decide(w, f, a.state, a.reason)
  BY <1>1 DEF Reject
<1> HIDE DEF a
<1>3. LET n == Decide(w, f, a.state, a.reason)
      IN  /\ n \in Worlds
          /\ n.deals = w.deals /\ n.credit = w.credit /\ n.reverted = w.reverted
          /\ n.applications = [w.applications EXCEPT ![f] = a]
  BY <1>1, DecideEffect
<1> QED BY <1>2, <1>3 DEF a

Applied == [state |-> "APPLIED", reason |-> "NONE"]

\* Counting any fact: it is decided and its deal's record replaced.
LEMMA CountedEffect ==
  ASSUME NEW w \in Worlds, NEW f \in Facts, NEW d \in DealIds, NEW x \in Deal
  PROVE  LET n == [Decide(w, f, "APPLIED", "NONE") EXCEPT !.deals[d] = x]
         IN  /\ n \in Worlds
             /\ n.credit = w.credit /\ n.reverted = w.reverted
             /\ n.applications = [w.applications EXCEPT ![f] = Applied]
             /\ n.deals = [w.deals EXCEPT ![d] = x]
<1> DEFINE a == Applied
           m == Decide(w, f, a.state, a.reason)
<1>1. a \in Application /\ m = Decide(w, f, "APPLIED", "NONE")
  BY DEF Application, Applied
<1> HIDE DEF a
<1>2. /\ m \in Worlds
      /\ m.deals = w.deals /\ m.credit = w.credit /\ m.reverted = w.reverted
      /\ m.applications = [w.applications EXCEPT ![f] = a]
  BY <1>1, DecideEffect
<1> HIDE DEF m
<1>3. LET n == [m EXCEPT !.deals[d] = x]
      IN  /\ n \in Worlds
          /\ n.applications = m.applications /\ n.credit = m.credit
          /\ n.reverted = m.reverted
          /\ n.deals = [m.deals EXCEPT ![d] = x]
  BY <1>2, SetDealEffect
<1> QED BY <1>1, <1>2, <1>3 DEF a

\* The deal a funding leaves.
Funded(deal, d, f) ==
    [deal EXCEPT !.fundedAmount = @ + f.amount,
                 !.investor = IF Crosses(deal, d.terms.requiredFunding, f.amount)
                              THEN f.counterparty ELSE @,
                 !.status = IF Crosses(deal, d.terms.requiredFunding, f.amount)
                            THEN "FINANCED" ELSE @]

\* The deal that CountFunding leaves, field by field.
LEMMA FundedType ==
  ASSUME NEW deal \in Deal, NEW f \in Facts
  PROVE  /\ Funded(deal, f.dealId, f) \in Deal
         /\ LET n == Funded(deal, f.dealId, f)
                crosses == Crosses(deal, f.dealId.terms.requiredFunding, f.amount)
            IN  /\ n.fundedAmount = deal.fundedAmount + f.amount
                /\ n.investor = IF crosses THEN f.counterparty ELSE deal.investor
                /\ n.status = IF crosses THEN "FINANCED" ELSE deal.status
                /\ n.repaidAmount = deal.repaidAmount /\ n.onTimeRepaid = deal.onTimeRepaid
<1> DEFINE crosses == Crosses(deal, f.dealId.terms.requiredFunding, f.amount)
           total == deal.fundedAmount + f.amount
           investor == IF crosses THEN f.counterparty ELSE deal.investor
           status == IF crosses THEN "FINANCED" ELSE deal.status
           n == [deal EXCEPT !.fundedAmount = total, !.investor = investor, !.status = status]
<1>1. total \in Nat
  BY FactParts DEF Deal
<1>2. investor \in Accounts \cup {NoAccount}
  BY FactParts DEF Deal
<1>3. status \in Statuses
  BY DEF Deal, Statuses
<1>4. Funded(deal, f.dealId, f) = n
  BY DEF Funded
<1> HIDE DEF total, investor, status
<1>5. /\ n \in Deal
      /\ n.fundedAmount = total /\ n.investor = investor /\ n.status = status
      /\ n.repaidAmount = deal.repaidAmount /\ n.onTimeRepaid = deal.onTimeRepaid
  BY <1>1, <1>2, <1>3 DEF Deal
<1> HIDE DEF n
<1> QED BY <1>4, <1>5 DEF total, investor, status

\* _applyFunding, past its checks: one fact applied, one deal written, and the
\* financed flag set in the credit layer exactly when the threshold is crossed.
LEMMA CountFundingEffect ==
  ASSUME NEW w \in Worlds, NEW f \in Facts
  PROVE  LET n == CountFunding(w, f)
             d == f.dealId
             crosses == Crosses(w.deals[d], d.terms.requiredFunding, f.amount)
         IN  /\ n \in Worlds
             /\ n.applications = [w.applications EXCEPT ![f] = Applied]
             /\ n.deals = [w.deals EXCEPT ![d] = Funded(@, d, f)]
             /\ ~n.reverted =>
                  /\ ~w.reverted
                  /\ n.credit.records =
                       IF crosses THEN [w.credit.records EXCEPT ![d] = [@ EXCEPT !.financed = TRUE]]
                       ELSE w.credit.records
<1> DEFINE d == f.dealId
           crosses == Crosses(w.deals[d], d.terms.requiredFunding, f.amount)
           x == Funded(w.deals[d], d, f)
           m == [Decide(w, f, "APPLIED", "NONE") EXCEPT !.deals[d] = x]
           may == Credit!MayMarkFinanced(w.credit, d)
           c == Credit!MarkFinanced(w.credit, d)
<1>1. d \in DealIds /\ x \in Deal
  BY WorldParts, FactParts, FundedType
<1> HIDE DEF x
<1>2. /\ m \in Worlds
      /\ m.credit = w.credit /\ m.reverted = w.reverted
      /\ m.applications = [w.applications EXCEPT ![f] = Applied]
      /\ m.deals = [w.deals EXCEPT ![d] = x]
  BY <1>1, CountedEffect
<1>3. CountFunding(w, f) = IF crosses THEN CallCredit(m, may, c) ELSE m
  BY DEF CountFunding, Funded, x
<1>4. may \in BOOLEAN
  BY WorldParts, CreditParts, <1>1
     DEF Credit!MayMarkFinanced, Credit!IsOpen, Credit!DealRecord
<1>5. may => /\ c \in Credit!Storage
             /\ c.records = [w.credit.records EXCEPT ![d] = [@ EXCEPT !.financed = TRUE]]
  BY <1>1, WorldParts, MarkFinancedEffect DEF Credit!MayMarkFinanced
<1> HIDE DEF m, may, c, crosses
<1>6. LET n == CallCredit(m, may, c)
      IN  /\ n \in Worlds
          /\ n.applications = m.applications /\ n.deals = m.deals
          /\ n.reverted = (m.reverted \/ ~may)
          /\ n.credit = IF may THEN c ELSE m.credit
  BY <1>2, <1>4, <1>5, CallCreditEffect
<1> QED BY <1>2, <1>3, <1>5, <1>6 DEF crosses, x

\* The deal a repayment leaves.
Repaid(deal, d, f) ==
    [deal EXCEPT !.repaidAmount = @ + f.amount,
                 !.onTimeRepaid = IF f.blockHeight <= d.terms.dueBlock
                                  THEN @ + f.amount ELSE @]

\* The deal that CountRepayment leaves, field by field.
LEMMA RepaidType ==
  ASSUME NEW deal \in Deal, NEW f \in Facts
  PROVE  LET n == Repaid(deal, f.dealId, f)
         IN  /\ n \in Deal
             /\ n.repaidAmount = deal.repaidAmount + f.amount
             /\ n.onTimeRepaid \in {deal.onTimeRepaid, deal.onTimeRepaid + f.amount}
             /\ n.status = deal.status /\ n.investor = deal.investor
             /\ n.fundedAmount = deal.fundedAmount
<1> DEFINE total == deal.repaidAmount + f.amount
           timely == IF f.blockHeight <= f.dealId.terms.dueBlock
                     THEN deal.onTimeRepaid + f.amount ELSE deal.onTimeRepaid
           n == [deal EXCEPT !.repaidAmount = total, !.onTimeRepaid = timely]
<1>1. total \in Nat
  BY FactParts DEF Deal
<1>2. timely \in Nat /\ timely \in {deal.onTimeRepaid, deal.onTimeRepaid + f.amount}
  BY FactParts DEF Deal
<1>3. Repaid(deal, f.dealId, f) = n
  BY DEF Repaid
<1> HIDE DEF total, timely
<1>4. /\ n \in Deal
      /\ n.repaidAmount = total /\ n.onTimeRepaid = timely
      /\ n.status = deal.status /\ n.investor = deal.investor
      /\ n.fundedAmount = deal.fundedAmount
  BY <1>1, <1>2 DEF Deal
<1> HIDE DEF n
<1> QED BY <1>2, <1>3, <1>4 DEF total

\* _applyRepayment before _settle: one fact applied, one deal written, no
\* record of the credit layer touched.
LEMMA CountRepaymentEffect ==
  ASSUME NEW w \in Worlds, NEW f \in Facts
  PROVE  LET n == CountRepayment(w, f)
             d == f.dealId
         IN  /\ n \in Worlds
             /\ n.applications = [w.applications EXCEPT ![f] = Applied]
             /\ n.deals = [w.deals EXCEPT ![d] = Repaid(@, d, f)]
             /\ ~n.reverted => ~w.reverted /\ n.credit.records = w.credit.records
<1> DEFINE d == f.dealId
           retired == Outstanding(d, w.deals[d].repaidAmount)
                        - Outstanding(d, w.deals[d].repaidAmount + f.amount)
           x == Repaid(w.deals[d], d, f)
           m == [Decide(w, f, "APPLIED", "NONE") EXCEPT !.deals[d] = x]
           may == Credit!MayReduceExposure(w.credit, d)
           c == Credit!ReduceExposure(w.credit, d, retired)
<1>1. d \in DealIds /\ x \in Deal
  BY WorldParts, FactParts, RepaidType
<1>2. retired \in Int
  <2>1. d.terms.faceValue \in Nat /\ w.deals[d].repaidAmount \in Nat /\ f.amount \in Nat
    BY <1>1, DealIdParts, FactParts, WorldParts DEF Deal
  <2> QED BY <2>1 DEF Outstanding, Credit!SatSub
<1> HIDE DEF x, retired
<1>3. /\ m \in Worlds
      /\ m.credit = w.credit /\ m.reverted = w.reverted
      /\ m.applications = [w.applications EXCEPT ![f] = Applied]
      /\ m.deals = [w.deals EXCEPT ![d] = x]
  BY <1>1, CountedEffect
<1>4. CountRepayment(w, f) = IF retired > 0 THEN CallCredit(m, may, c) ELSE m
  BY DEF CountRepayment, Repaid, x, retired
<1>5. may \in BOOLEAN
  BY DEF Credit!MayReduceExposure, Credit!IsOpen
<1>6. may /\ retired > 0 => c \in Credit!Storage /\ c.records = w.credit.records
  BY <1>1, <1>2, WorldParts, ReduceExposureEffect DEF Credit!MayReduceExposure
<1> HIDE DEF m, may, c
<1>7. ASSUME retired > 0
      PROVE  LET n == CallCredit(m, may, c)
             IN  /\ n \in Worlds
                 /\ n.applications = m.applications /\ n.deals = m.deals
                 /\ n.reverted = (m.reverted \/ ~may)
                 /\ n.credit = IF may THEN c ELSE m.credit
  BY <1>3, <1>5, <1>6, <1>7, CallCreditEffect
<1> QED BY <1>3, <1>4, <1>6, <1>7 DEF x

\* recordOutcome as the registry calls it: the status and the outcome move in
\* one transaction, or it reverts.
LEMMA RecordStatusEffect ==
  ASSUME NEW w \in Worlds, NEW d \in DealIds, NEW r \in Credit!Outcomes,
         attested \in (0..MaxHeight) \cup {Credit!NoHeight}
  PROVE  LET n == RecordOutcome([w EXCEPT !.deals[d].status = r], d, r)
         IN  /\ n \in Worlds
             /\ n.applications = w.applications
             /\ n.deals = [w.deals EXCEPT ![d] = [@ EXCEPT !.status = r]]
             /\ ~n.reverted =>
                  /\ ~w.reverted
                  /\ n.credit.records =
                       IF w.credit.records[d].outcome = r THEN w.credit.records
                       ELSE [w.credit.records EXCEPT ![d] = Concluded(@, r, attested)]
<1> DEFINE x == [w.deals[d] EXCEPT !.status = r]
           m == [w EXCEPT !.deals[d] = x]
           may == Credit!MayRecordOutcome(w.credit, d, r, attested)
           c == Credit!RecordOutcome(w.credit, d, r, attested)
<1>1. x \in Deal
  BY WorldParts DEF Deal, Statuses, Credit!Outcomes, Credit!Results
<1>2. [w EXCEPT !.deals[d].status = r] = m
  OBVIOUS
<1> HIDE DEF x
<1>3. /\ m \in Worlds
      /\ m.applications = w.applications /\ m.credit = w.credit
      /\ m.reverted = w.reverted
      /\ m.deals = [w.deals EXCEPT ![d] = x]
  BY <1>1, SetDealEffect
<1>4. RecordOutcome([w EXCEPT !.deals[d].status = r], d, r) = CallCredit(m, may, c)
  BY <1>2, <1>3 DEF RecordOutcome
<1>5. may \in BOOLEAN
  BY DEF Credit!MayRecordOutcome, Credit!IsOpen
<1>6. ASSUME may
      PROVE  /\ c \in Credit!Storage
             /\ c.records = IF w.credit.records[d].outcome = r THEN w.credit.records
                            ELSE [w.credit.records EXCEPT ![d] = Concluded(@, r, attested)]
  <2>1. w.credit \in Credit!Storage /\ r \in Credit!Results
    BY WorldParts DEF Credit!Outcomes
  <2>2. Credit!MayRecordOutcome(w.credit, d, r, attested)
    BY <1>6
  <2> HIDE DEF may
  <2>3. OutcomeRecorded(w.credit, c, d, r, attested)
    BY <2>1, <2>2, RecordOutcomeEffect
  <2> HIDE DEF c
  <2> QED BY <2>3 DEF OutcomeRecorded
<1> HIDE DEF m, may, c
<1>7. LET n == CallCredit(m, may, c)
      IN  /\ n \in Worlds
          /\ n.applications = m.applications /\ n.deals = m.deals
          /\ n.reverted = (m.reverted \/ ~may)
          /\ n.credit = IF may THEN c ELSE m.credit
  BY <1>3, <1>5, <1>6, CallCreditEffect
<1> QED BY <1>3, <1>4, <1>6, <1>7 DEF x

-----------------------------------------------------------------------------
(* One deal, in both layers.  LayersAgree, StatusMatchesTotals and           *)
(* DefaultOnlyAfterGrace say nothing that relates two deals; their           *)
(* conjunction for one deal, DealOK, is inductive.                           *)

Financed(deal) == deal.status \notin {"NONE", "CREATED"}

RecordAgrees(deal, record, d) ==
    /\ record.borrower = IF deal.status = "NONE" THEN NoAccount ELSE d.terms.borrower
    /\ record.faceValue = IF deal.status = "NONE" THEN 0 ELSE d.terms.faceValue
    /\ record.financed = IF Financed(deal) THEN TRUE ELSE FALSE
    /\ record.outcome = OutcomeOf(deal.status)

TotalsAgree(deal, d) ==
    /\ deal.status = "NONE" => deal = NoDeal
    /\ deal.status # "NONE" =>
         /\ d.terms.requiredFunding \in 1..d.terms.faceValue
         /\ Financed(deal) <=> deal.fundedAmount >= d.terms.requiredFunding
         /\ deal.investor = IF Financed(deal) THEN d.terms.designatedInvestor ELSE NoAccount
         /\ deal.status = "CREATED" => deal.repaidAmount = 0
         /\ deal.onTimeRepaid <= deal.repaidAmount
         /\ deal.status = "PAID_ON_TIME" <=> deal.onTimeRepaid >= d.terms.faceValue
         /\ deal.status = "PAID_LATE" <=>
               deal.repaidAmount >= d.terms.faceValue /\ deal.onTimeRepaid < d.terms.faceValue

DefaultEarned(record, d) ==
    record.outcome = "DEFAULTED" => record.closedAtBlock > DefaultThreshold(d)

DealOK(deal, record, d) ==
    RecordAgrees(deal, record, d) /\ TotalsAgree(deal, d) /\ DefaultEarned(record, d)

\* A funding keeps DealOK, over the threshold as well as under it.
LEMMA FundedOK ==
  ASSUME NEW f \in Facts, NEW deal \in Deal, NEW record \in Credit!DealRecord, NEW after,
         DealOK(deal, record, f.dealId), deal.status # "NONE",
         f.counterparty = f.dealId.terms.designatedInvestor,
         after = IF Crosses(deal, f.dealId.terms.requiredFunding, f.amount)
                 THEN [record EXCEPT !.financed = TRUE] ELSE record
  PROVE  DealOK(Funded(deal, f.dealId, f), after, f.dealId)
<1> DEFINE d == f.dealId
           n == Funded(deal, d, f)
           crosses == Crosses(deal, d.terms.requiredFunding, f.amount)
<1>1. /\ n \in Deal
      /\ n.fundedAmount = deal.fundedAmount + f.amount
      /\ n.investor = IF crosses THEN f.counterparty ELSE deal.investor
      /\ n.status = IF crosses THEN "FINANCED" ELSE deal.status
      /\ n.repaidAmount = deal.repaidAmount /\ n.onTimeRepaid = deal.onTimeRepaid
  BY FundedType
<1>2. /\ after.borrower = record.borrower /\ after.faceValue = record.faceValue
      /\ crosses => after.financed = TRUE
      /\ ~crosses => after.financed = record.financed
      /\ after.outcome = record.outcome /\ after.closedAtBlock = record.closedAtBlock
  BY DEF Credit!DealRecord
<1>3. d.terms.requiredFunding \in Nat /\ d.terms.faceValue \in Nat /\ f.amount \in Nat
  BY FactParts, DealIdParts
<1>4. deal.fundedAmount \in Nat /\ deal.repaidAmount \in Nat /\ deal.onTimeRepaid \in Nat
  BY DEF Deal
<1>5. crosses <=> /\ deal.fundedAmount < d.terms.requiredFunding
                  /\ deal.fundedAmount + f.amount >= d.terms.requiredFunding
  BY DEF Crosses
<1>6. crosses => deal.status = "CREATED"
  BY <1>3, <1>4, <1>5 DEF DealOK, TotalsAgree, Financed
<1> HIDE DEF n, crosses, d
<1>7. DealOK(deal, record, d) /\ deal.status # "NONE"
  BY DEF d
<1>8. f.counterparty = d.terms.designatedInvestor
  BY DEF d
<1>9. RecordAgrees(n, after, d)
  <2>1. n.status # "NONE" /\ OutcomeOf(n.status) = OutcomeOf(deal.status)
    BY <1>1, <1>6, <1>7 DEF OutcomeOf, Credit!Outcomes, Credit!Results
  <2>2. after.financed = IF Financed(n) THEN TRUE ELSE FALSE
    BY <1>1, <1>2, <1>6, <1>7 DEF DealOK, RecordAgrees, Financed
  <2> QED BY <1>2, <1>7, <2>1, <2>2 DEF DealOK, RecordAgrees
<1>10. TotalsAgree(n, d)
  BY <1>1, <1>3, <1>4, <1>5, <1>6, <1>7, <1>8 DEF DealOK, TotalsAgree, Financed
<1>11. DefaultEarned(after, d)
  BY <1>2, <1>7 DEF DealOK, DefaultEarned
<1> QED BY <1>9, <1>10, <1>11 DEF DealOK, n, d

\* The outcome the totals call for, and when _settle acts on it.
Derived(deal, d) ==
    IF deal.onTimeRepaid >= d.terms.faceValue THEN "PAID_ON_TIME" ELSE "PAID_LATE"

Closes(deal, d) ==
    /\ deal.status \notin {"PAID_ON_TIME", Derived(deal, d)}
    /\ deal.onTimeRepaid >= d.terms.faceValue \/ deal.repaidAmount >= d.terms.faceValue

\* A repayment keeps DealOK: either the totals leave the status as it is, or
\* _settle moves status and outcome to what the totals call for.
LEMMA RepaidOK ==
  ASSUME NEW f \in Facts, NEW deal \in Deal, NEW record \in Credit!DealRecord,
         DealOK(deal, record, f.dealId), Financed(deal),
         attested \in (0..MaxHeight) \cup {Credit!NoHeight}
  PROVE  LET d == f.dealId
             n == Repaid(deal, d, f)
         IN  /\ ~Closes(n, d) => DealOK(n, record, d)
             /\ Closes(n, d) =>
                  /\ record.outcome # Derived(n, d)
                  /\ DealOK([n EXCEPT !.status = Derived(n, d)],
                            Concluded(record, Derived(n, d), attested), d)
<1> DEFINE d == f.dealId
           n == Repaid(deal, d, f)
           r == Derived(n, d)
           m == [n EXCEPT !.status = r]
           after == Concluded(record, r, attested)
<1>1. /\ n \in Deal
      /\ n.repaidAmount = deal.repaidAmount + f.amount
      /\ n.onTimeRepaid \in {deal.onTimeRepaid, deal.onTimeRepaid + f.amount}
      /\ n.status = deal.status /\ n.investor = deal.investor
      /\ n.fundedAmount = deal.fundedAmount
  BY RepaidType
<1>2. d.terms.requiredFunding \in Nat /\ d.terms.faceValue \in Nat /\ f.amount \in Nat
  BY FactParts, DealIdParts
<1>3. /\ deal.repaidAmount \in Nat /\ deal.onTimeRepaid \in Nat /\ deal.status \in Statuses
      /\ deal.fundedAmount \in Nat
  BY DEF Deal
<1> HIDE DEF n, d
<1>4. /\ m.status = r /\ m.investor = n.investor /\ m.fundedAmount = n.fundedAmount
      /\ m.repaidAmount = n.repaidAmount /\ m.onTimeRepaid = n.onTimeRepaid
  BY <1>1 DEF Deal
<1>5. r \in {"PAID_ON_TIME", "PAID_LATE"} /\ r \in Credit!Results
  BY DEF Derived, Credit!Results
<1>6. /\ after.borrower = record.borrower /\ after.faceValue = record.faceValue
      /\ after.financed = record.financed
      /\ after.outcome = r /\ after.closedAtBlock = attested
  BY <1>5, ConcludedType
<1>7. DealOK(deal, record, d)
  BY DEF d
<1>8. ASSUME ~Closes(n, d) PROVE DealOK(n, record, d)
  <2>1. TotalsAgree(n, d)
    BY <1>1, <1>2, <1>3, <1>7, <1>8 DEF DealOK, TotalsAgree, Financed, Closes, Derived
  <2>2. RecordAgrees(n, record, d)
    BY <1>1, <1>7 DEF DealOK, RecordAgrees, Financed
  <2> QED BY <1>7, <2>1, <2>2 DEF DealOK
<1>9. ASSUME Closes(n, d) PROVE record.outcome # r /\ DealOK(m, after, d)
  <2>1. r # deal.status
    BY <1>1, <1>9 DEF Closes
  <2>2. record.outcome # r
    BY <1>5, <1>7, <2>1 DEF DealOK, RecordAgrees, OutcomeOf
  <2>3. TotalsAgree(m, d)
    <3>1. Financed(m)
      BY <1>4, <1>5 DEF Financed
    <3>2. r = "PAID_ON_TIME" <=> n.onTimeRepaid >= d.terms.faceValue
      BY DEF Derived
    <3>3. n.onTimeRepaid <= n.repaidAmount
      BY <1>1, <1>2, <1>3, <1>7 DEF DealOK, TotalsAgree, Financed
    <3>4. n.repaidAmount >= d.terms.faceValue
      BY <1>1, <1>2, <1>3, <1>9, <3>3 DEF Closes, Deal
    <3>5. /\ d.terms.requiredFunding \in 1..d.terms.faceValue
          /\ n.fundedAmount >= d.terms.requiredFunding
          /\ n.investor = d.terms.designatedInvestor
      BY <1>1, <1>7 DEF DealOK, TotalsAgree, Financed
    <3>6. n.onTimeRepaid \in Nat
      BY <1>1 DEF Deal
    <3> HIDE DEF r, m
    <3> QED BY <1>2, <1>4, <1>5, <3>1, <3>2, <3>3, <3>4, <3>5, <3>6 DEF TotalsAgree
  <2>4. RecordAgrees(m, after, d)
    <3>1. OutcomeOf(r) = r
      BY <1>5 DEF OutcomeOf, Credit!Outcomes
    <3>2. Financed(m) = Financed(deal) /\ m.status # "NONE"
      BY <1>4, <1>5 DEF Financed
    <3> QED BY <1>4, <1>6, <1>7, <3>1, <3>2 DEF DealOK, RecordAgrees, Financed
  <2>5. DefaultEarned(after, d)
    BY <1>5, <1>6 DEF DefaultEarned
  <2> QED BY <2>2, <2>3, <2>4, <2>5 DEF DealOK
<1> QED BY <1>8, <1>9 DEF n, d

\* _settle writes the derived status and outcome together, or changes nothing.
LEMMA SettleEffect ==
  ASSUME NEW w \in Worlds, NEW d \in DealIds,
         attested \in (0..MaxHeight) \cup {Credit!NoHeight}
  PROVE  LET n == Settle(w, d)
             r == Derived(w.deals[d], d)
         IN  /\ ~Closes(w.deals[d], d) => n = w
             /\ Closes(w.deals[d], d) =>
                  /\ n \in Worlds
                  /\ n.applications = w.applications
                  /\ n.deals = [w.deals EXCEPT ![d] = [@ EXCEPT !.status = r]]
                  /\ ~n.reverted =>
                       /\ ~w.reverted
                       /\ n.credit.records =
                            IF w.credit.records[d].outcome = r THEN w.credit.records
                            ELSE [w.credit.records EXCEPT ![d] = Concluded(@, r, attested)]
<1> DEFINE r == Derived(w.deals[d], d)
           closed == RecordOutcome([w EXCEPT !.deals[d].status = r], d, r)
<1>1. r \in Credit!Outcomes
  BY DEF Derived, Credit!Outcomes, Credit!Results
<1>2. Settle(w, d) = IF Closes(w.deals[d], d) THEN closed ELSE w
  <2>1. w.deals[d].onTimeRepaid \in Nat /\ w.deals[d].repaidAmount \in Nat
        /\ d.terms.faceValue \in Nat
    BY WorldParts, DealIdParts DEF Deal
  <2>2. Closes(w.deals[d], d) <=>
          ~ (\/ w.deals[d].status \in {"PAID_ON_TIME", r}
             \/ /\ w.deals[d].onTimeRepaid < d.terms.faceValue
                /\ w.deals[d].repaidAmount < d.terms.faceValue)
    BY <2>1 DEF Closes
  <2> QED BY <2>2, Zenon DEF Settle, Derived
<1> HIDE DEF r
<1>3. /\ closed \in Worlds
      /\ closed.applications = w.applications
      /\ closed.deals = [w.deals EXCEPT ![d] = [@ EXCEPT !.status = r]]
      /\ ~closed.reverted =>
           /\ ~w.reverted
           /\ closed.credit.records =
                IF w.credit.records[d].outcome = r THEN w.credit.records
                ELSE [w.credit.records EXCEPT ![d] = Concluded(@, r, attested)]
  BY <1>1, RecordStatusEffect
<1> HIDE DEF closed
<1> QED BY <1>2, <1>3 DEF r

\* What an applied fact may leave of its deal, in both layers.
Rises(s, t) == Rank[s] <= Rank[t] /\ (s = "NONE" => t = "NONE")

Moved(w, n, d) ==
    /\ \A e \in DealIds : e # d => /\ n.deals[e] = w.deals[e]
                                   /\ n.credit.records[e] = w.credit.records[e]
    /\ DealOK(n.deals[d], n.credit.records[d], d)
    /\ n.deals[d].status # "NONE"
    /\ Rises(w.deals[d].status, n.deals[d].status)

\* A funding that does not revert moves its deal up, and no other deal.
LEMMA CountFundingOK ==
  ASSUME NEW w \in Worlds, NEW f \in Facts,
         DealOK(w.deals[f.dealId], w.credit.records[f.dealId], f.dealId),
         w.deals[f.dealId].status # "NONE",
         f.counterparty = f.dealId.terms.designatedInvestor,
         ~CountFunding(w, f).reverted
  PROVE  Moved(w, CountFunding(w, f), f.dealId)
<1> DEFINE n == CountFunding(w, f)
           d == f.dealId
           x == Funded(w.deals[d], d, f)
           crosses == Crosses(w.deals[d], d.terms.requiredFunding, f.amount)
           rec == IF crosses THEN [w.credit.records[d] EXCEPT !.financed = TRUE]
                  ELSE w.credit.records[d]
<1>1. /\ n.deals = [w.deals EXCEPT ![d] = x]
      /\ n.credit.records =
           IF crosses THEN [w.credit.records EXCEPT ![d] = [@ EXCEPT !.financed = TRUE]]
           ELSE w.credit.records
  BY CountFundingEffect
<1>2. /\ d \in DealIds /\ w.deals \in [DealIds -> Deal] /\ w.deals[d] \in Deal
      /\ w.credit.records \in [DealIds -> Credit!DealRecord]
      /\ w.credit.records[d] \in Credit!DealRecord
  BY WorldParts, FactParts DEF Credit!Storage
<1>3. DealOK(x, rec, d)
  BY <1>2, FundedOK
<1>4. /\ x.status = IF crosses THEN "FINANCED" ELSE w.deals[d].status
      /\ w.deals[d].status \in Statuses
  BY <1>2, FundedType DEF Deal
<1>5. crosses => w.deals[d].status = "CREATED"
  BY <1>2, FactParts, DealIdParts DEF DealOK, TotalsAgree, Financed, Crosses, Deal, Statuses
<1>6. /\ n.deals[d] = x /\ n.credit.records[d] = rec
      /\ \A e \in DealIds : e # d => /\ n.deals[e] = w.deals[e]
                                     /\ n.credit.records[e] = w.credit.records[e]
  <2> HIDE DEF n, x, crosses, d
  <2> QED BY <1>1, <1>2
<1>7. x.status # "NONE" /\ Rises(w.deals[d].status, x.status)
  <2>1. CASE crosses
    <3>1. x.status = "FINANCED" /\ w.deals[d].status = "CREATED"
      BY <1>4, <1>5, <2>1
    <3> HIDE DEF x
    <3> QED BY <3>1 DEF Rises, Rank, Statuses
  <2>2. CASE ~crosses
    <3>1. x.status = w.deals[d].status /\ w.deals[d].status \in Statuses
      BY <1>4, <2>2
    <3> HIDE DEF x
    <3> QED BY <3>1 DEF Rises, Rank, Statuses
  <2> QED BY <2>1, <2>2
<1> QED BY <1>3, <1>6, <1>7 DEF Moved

\* A repayment that does not revert moves its deal up, and no other deal.
LEMMA SettleRepaymentOK ==
  ASSUME NEW w \in Worlds, NEW f \in Facts,
         DealOK(w.deals[f.dealId], w.credit.records[f.dealId], f.dealId),
         Financed(w.deals[f.dealId]),
         attested \in (0..MaxHeight) \cup {Credit!NoHeight},
         ~Settle(CountRepayment(w, f), f.dealId).reverted
  PROVE  Moved(w, Settle(CountRepayment(w, f), f.dealId), f.dealId)
<1> DEFINE d == f.dealId
           m == CountRepayment(w, f)
           n == Settle(m, d)
           x == Repaid(w.deals[d], d, f)
           r == Derived(x, d)
<1>1. /\ m \in Worlds
      /\ m.deals = [w.deals EXCEPT ![d] = x]
      /\ ~m.reverted => m.credit.records = w.credit.records
  BY CountRepaymentEffect
<1>2. /\ d \in DealIds /\ w.deals \in [DealIds -> Deal] /\ w.deals[d] \in Deal
      /\ w.credit.records \in [DealIds -> Credit!DealRecord]
      /\ w.credit.records[d] \in Credit!DealRecord
  BY WorldParts, FactParts DEF Credit!Storage
<1>3. x.status = w.deals[d].status /\ w.deals[d].status \in Statuses \ {"NONE", "CREATED"}
  BY <1>2, RepaidType DEF Deal, Financed
<1>4. /\ ~Closes(x, d) => DealOK(x, w.credit.records[d], d)
      /\ Closes(x, d) =>
           /\ w.credit.records[d].outcome # r
           /\ DealOK([x EXCEPT !.status = r], Concluded(w.credit.records[d], r, attested), d)
  BY <1>2, RepaidOK
<1>5. x \in Deal
  BY <1>2, RepaidType
<1> HIDE DEF m, x, d
<1>6. m.deals[d] = x
  BY <1>1, <1>2
<1>7. CASE ~Closes(x, d)
  <2>1. n = m
    BY <1>1, <1>2, <1>6, <1>7, SettleEffect
  <2>2. ~m.reverted
    BY <2>1 DEF m, d
  <2>3. x.status # "NONE" /\ Rises(w.deals[d].status, x.status)
    BY <1>3 DEF Rises, Rank, Statuses
  <2>4. Moved(w, m, d)
    BY <1>1, <1>2, <1>4, <1>6, <1>7, <2>2, <2>3 DEF Moved
  <2> QED BY <2>1, <2>4 DEF m, d
<1>8. CASE Closes(x, d)
  <2>1. /\ n.deals = [m.deals EXCEPT ![d] = [@ EXCEPT !.status = r]]
        /\ ~n.reverted =>
             /\ ~m.reverted
             /\ n.credit.records =
                  IF m.credit.records[d].outcome = r THEN m.credit.records
                  ELSE [m.credit.records EXCEPT ![d] = Concluded(@, r, attested)]
    BY <1>1, <1>2, <1>6, <1>8, SettleEffect
  <2>2. ~n.reverted
    BY DEF m, d
  <2>3. r \in {"PAID_ON_TIME", "PAID_LATE"} /\ x.status \notin {"PAID_ON_TIME", r}
    BY <1>8 DEF Derived, Closes
  <2> DEFINE y == [x EXCEPT !.status = r]
             rec == Concluded(w.credit.records[d], r, attested)
  <2>4. y.status = r
    BY <1>5 DEF Deal
  <2> HIDE DEF n, r, y, rec
  <2>5. n.deals = [w.deals EXCEPT ![d] = y]
    BY <1>1, <1>2, <1>6, <2>1 DEF y
  <2>6. n.credit.records = [w.credit.records EXCEPT ![d] = rec]
    BY <1>1, <1>4, <1>8, <2>1, <2>2 DEF rec, r
  <2>7. Rises(w.deals[d].status, r)
    BY <1>3, <2>3 DEF Rises, Rank, Statuses
  <2>8. DealOK(y, rec, d)
    BY <1>4, <1>8 DEF y, rec, r
  <2>9. Moved(w, n, d)
    BY <1>2, <2>3, <2>4, <2>5, <2>6, <2>7, <2>8 DEF Moved
  <2> QED BY <2>9 DEF n, m, d
<1> QED BY <1>7, <1>8

-----------------------------------------------------------------------------
(* The worlds a transaction can reach from the deals in start when the facts *)
(* recorded are F: a set closed under the application of any fact of F.      *)

DecidedOK(w, f, F) ==
    w.applications[f].state # "UNSEEN" =>
        /\ f \in F
        /\ w.deals[f.dealId].status # "NONE"
        /\ w.applications[f].reason = Mismatch(f)
        /\ w.applications[f].state = IF Mismatch(f) = "NONE" THEN "APPLIED" ELSE "REJECTED_PERMANENT"

Reachable(F, start) ==
    {w \in Worlds : w.reverted \/
        /\ \A d \in DealIds : DealOK(w.deals[d], w.credit.records[d], d)
        /\ \A f \in Facts : DecidedOK(w, f, F)
        /\ \A d \in DealIds : Rises(start[d].status, w.deals[d].status)}

Verdict(f) == [state |-> IF Mismatch(f) = "NONE" THEN "APPLIED" ELSE "REJECTED_PERMANENT",
               reason |-> Mismatch(f)]

\* Moving up the lifecycle is transitive.
LEMMA RiseTransitive ==
  ASSUME NEW s \in Statuses, NEW t \in Statuses, NEW u \in Statuses, Rises(s, t), Rises(t, u)
  PROVE  Rises(s, u)
<1>1. Rank \in [Statuses -> Nat]
  BY DEF Rank, Statuses
<1> QED BY <1>1 DEF Rises

\* Classifying a fact reverts, waits, or decides it, as Mismatch says.
LEMMA ClassifyEffect ==
  ASSUME NEW w \in Worlds, NEW f \in Facts, ~w.reverted,
         DealOK(w.deals[f.dealId], w.credit.records[f.dealId], f.dealId),
         attested \in (0..MaxHeight) \cup {Credit!NoHeight}
  PROVE  LET n == Classify(w, f)
         IN  /\ n \in Worlds
             /\ \/ n.reverted
                \/ n = w
                \/ /\ w.deals[f.dealId].status # "NONE"
                   /\ n.applications = [w.applications EXCEPT ![f] = Verdict(f)]
                   /\ \/ n.deals = w.deals /\ n.credit = w.credit
                      \/ Moved(w, n, f.dealId)
<1> DEFINE n == Classify(w, f)
           d == f.dealId
           decided == /\ w.deals[d].status # "NONE"
                      /\ n.applications = [w.applications EXCEPT ![f] = Verdict(f)]
                      /\ \/ n.deals = w.deals /\ n.credit = w.credit
                         \/ Moved(w, n, d)
<1> SUFFICES n \in Worlds /\ (n.reverted \/ n = w \/ decided)
  OBVIOUS
<1>1. CASE f.kind = "FUNDING"
  <2>1. n = ApplyFunding(w, f)
    BY <1>1 DEF Classify
  <2>2. CASE w.deals[d].status = "NONE"
    BY <2>1, <2>2 DEF ApplyFunding
  <2>3. CASE w.deals[d].status # "NONE" /\ f.recipient # d.terms.borrower
    <3>1. n = Reject(w, f, "WRONG_RECIPIENT")
      BY <2>1, <2>3 DEF ApplyFunding
    <3>2. Verdict(f) = [state |-> "REJECTED_PERMANENT", reason |-> "WRONG_RECIPIENT"]
      BY <1>1, <2>3 DEF Verdict, Mismatch
    <3> HIDE DEF n
    <3>3. RejectedAs(w, n, f, "WRONG_RECIPIENT")
      BY <3>1, RejectEffect
    <3> QED BY <2>3, <3>2, <3>3 DEF RejectedAs
  <2>4. CASE /\ w.deals[d].status # "NONE" /\ f.recipient = d.terms.borrower
             /\ f.counterparty # d.terms.designatedInvestor
    <3>1. n = Reject(w, f, "WRONG_INVESTOR")
      BY <2>1, <2>4 DEF ApplyFunding
    <3>2. Verdict(f) = [state |-> "REJECTED_PERMANENT", reason |-> "WRONG_INVESTOR"]
      BY <1>1, <2>4 DEF Verdict, Mismatch
    <3> HIDE DEF n
    <3>3. RejectedAs(w, n, f, "WRONG_INVESTOR")
      BY <3>1, RejectEffect
    <3> QED BY <2>4, <3>2, <3>3 DEF RejectedAs
  <2>5. CASE /\ w.deals[d].status # "NONE" /\ f.recipient = d.terms.borrower
             /\ f.counterparty = d.terms.designatedInvestor
    <3>1. n = CountFunding(w, f)
      BY <2>1, <2>5 DEF ApplyFunding
    <3>2. Verdict(f) = Applied
      BY <1>1, <2>5 DEF Verdict, Mismatch, Applied
    <3> HIDE DEF n
    <3>3. n \in Worlds /\ n.applications = [w.applications EXCEPT ![f] = Verdict(f)]
      BY <3>1, <3>2, CountFundingEffect
    <3>4. n.reverted \/ Moved(w, n, d)
      BY <2>5, <3>1, CountFundingOK
    <3> QED BY <2>5, <3>3, <3>4
  <2> QED BY <2>2, <2>3, <2>4, <2>5
<1>2. CASE f.kind # "FUNDING"
  <2>1. n = ApplyRepayment(w, f)
    BY <1>2 DEF Classify
  <2>2. CASE \/ w.deals[d].status = "NONE"
             \/ f.recipient = d.terms.designatedInvestor /\ w.deals[d].status = "CREATED"
    BY <2>1, <2>2 DEF ApplyRepayment
  <2>3. CASE w.deals[d].status # "NONE" /\ f.recipient # d.terms.designatedInvestor
    <3>1. n = Reject(w, f, "WRONG_RECIPIENT")
      BY <2>1, <2>3 DEF ApplyRepayment
    <3>2. Verdict(f) = [state |-> "REJECTED_PERMANENT", reason |-> "WRONG_RECIPIENT"]
      BY <1>2, <2>3 DEF Verdict, Mismatch
    <3> HIDE DEF n
    <3>3. RejectedAs(w, n, f, "WRONG_RECIPIENT")
      BY <3>1, RejectEffect
    <3> QED BY <2>3, <3>2, <3>3 DEF RejectedAs
  <2>4. CASE Financed(w.deals[d]) /\ f.recipient = d.terms.designatedInvestor
    <3>1. n = Settle(CountRepayment(w, f), d)
      BY <2>1, <2>4 DEF ApplyRepayment, Financed
    <3>2. Verdict(f) = Applied
      BY <1>2, <2>4 DEF Verdict, Mismatch, Applied
    <3>3. /\ CountRepayment(w, f) \in Worlds
          /\ CountRepayment(w, f).applications = [w.applications EXCEPT ![f] = Applied]
      BY CountRepaymentEffect
    <3>4. d \in DealIds
      BY FactParts
    <3> HIDE DEF n, d
    <3>5. n \in Worlds /\ n.applications = [w.applications EXCEPT ![f] = Verdict(f)]
      BY <3>1, <3>2, <3>3, <3>4, SettleEffect
    <3>6. n.reverted \/ Moved(w, n, d)
      BY <2>4, <3>1, SettleRepaymentOK DEF d
    <3> QED BY <2>4, <3>5, <3>6 DEF Financed
  <2> QED BY <2>2, <2>3, <2>4 DEF Financed
<1> QED BY <1>1, <1>2

\* Classifying a recorded fact stays in the reachable set.
LEMMA ClassifyReachable ==
  ASSUME NEW F \in SUBSET Facts, NEW start \in [DealIds -> Deal],
         NEW w \in Reachable(F, start), NEW f \in F,
         attested \in (0..MaxHeight) \cup {Credit!NoHeight}
  PROVE  Classify(w, f) \in Reachable(F, start)
<1> DEFINE n == Classify(w, f)
           d == f.dealId
<1>1. w \in Worlds /\ d \in DealIds /\ f \in Facts
  BY FactParts DEF Reachable
<1>2. CASE w.reverted
  BY <1>2 DEF Classify
<1>3. CASE ~w.reverted
  <2>1. /\ \A e \in DealIds : DealOK(w.deals[e], w.credit.records[e], e)
        /\ \A g \in Facts : DecidedOK(w, g, F)
        /\ \A e \in DealIds : Rises(start[e].status, w.deals[e].status)
    BY <1>3 DEF Reachable
  <2>2. /\ n \in Worlds
        /\ \/ n.reverted
           \/ n = w
           \/ /\ w.deals[d].status # "NONE"
              /\ n.applications = [w.applications EXCEPT ![f] = Verdict(f)]
              /\ \/ n.deals = w.deals /\ n.credit = w.credit
                 \/ Moved(w, n, d)
    BY <1>1, <1>3, <2>1, ClassifyEffect
  <2> HIDE DEF n, d
  <2>3. CASE n.reverted \/ n = w
    BY <2>2, <2>3 DEF Reachable, n
  <2>4. CASE /\ w.deals[d].status # "NONE"
             /\ n.applications = [w.applications EXCEPT ![f] = Verdict(f)]
             /\ \/ n.deals = w.deals /\ n.credit = w.credit
                \/ Moved(w, n, d)
    <3>1. \A e \in DealIds : DealOK(n.deals[e], n.credit.records[e], e)
      BY <1>1, <2>1, <2>4 DEF Moved
    <3>2. \A e \in DealIds : w.deals[e].status # "NONE" => n.deals[e].status # "NONE"
      BY <2>4 DEF Moved
    <3>3. \A e \in DealIds : Rises(start[e].status, n.deals[e].status)
      <4>1. TAKE e \in DealIds
      <4>2. /\ start[e].status \in Statuses /\ w.deals[e].status \in Statuses
            /\ n.deals[e].status \in Statuses
        BY <1>1, <2>2, WorldParts DEF Deal
      <4>3. n.deals[e] = w.deals[e] \/ Rises(w.deals[e].status, n.deals[e].status)
        BY <2>4 DEF Moved
      <4> QED BY <2>1, <4>2, <4>3, RiseTransitive
    <3>4. \A g \in Facts : DecidedOK(n, g, F)
      <4>1. TAKE g \in Facts
      <4>2. g.dealId \in DealIds
        BY FactParts
      <4>3. CASE g = f
        <5>1. n.applications[g] = Verdict(f) /\ n.deals[g.dealId].status # "NONE"
          BY <1>1, <2>4, <3>2, <4>3, WorldParts DEF d
        <5> QED BY <4>3, <5>1 DEF DecidedOK, Verdict
      <4>4. CASE g # f
        <5>1. n.applications[g] = w.applications[g]
          BY <1>1, <2>4, <4>4, WorldParts
        <5> QED BY <2>1, <3>2, <4>2, <5>1 DEF DecidedOK
      <4> QED BY <4>3, <4>4
    <3> QED BY <2>2, <3>1, <3>3, <3>4 DEF Reachable, n
  <2> QED BY <2>2, <2>3, <2>4
<1> QED BY <1>2, <1>3

-----------------------------------------------------------------------------
(* A submission: folding Classify over the facts stays in any set that is    *)
(* closed under it.                                                          *)

\* Function h lists the worlds that one pass over the facts goes through.
Passes(h, G, w, facts, kind) ==
    /\ h \in [0..Len(facts) -> G]
    /\ h[0] = w
    /\ \A i \in 1..Len(facts) :
          h[i] = IF facts[i].kind = kind THEN Classify(h[i - 1], facts[i]) ELSE h[i - 1]

\* The loop of _applySubmittedPhase, unfolded: its intermediate worlds stay in
\* a set closed under Classify, and the last is its result.
LEMMA PhaseUnfolds ==
  ASSUME NEW G, NEW w \in G, NEW F, NEW facts \in Seq(F), NEW kind
  PROVE  (\A u \in G, f \in F : Classify(u, f) \in G)
           => \E h : /\ Passes(h, G, w, facts, kind)
                    /\ h[Len(facts)] = ApplySubmittedPhase(w, facts, kind)
<1> DEFINE n == Len(facts)
           Step(u, i) == IF facts[i].kind = kind THEN Classify(u, facts[i]) ELSE u
           st == [i \in 1..n |-> [u \in G |-> Step(u, i)]]
           Body(h) == [i \in 0..n |-> IF i = 0 THEN w ELSE Step(h[i-1], i)]
           after == CHOOSE h : h = Body(h)
<1>0. SUFFICES ASSUME \A u \in G, f \in F : Classify(u, f) \in G
             PROVE  \E h : /\ Passes(h, G, w, facts, kind)
                           /\ h[Len(facts)] = ApplySubmittedPhase(w, facts, kind)
  OBVIOUS
<1>1. n \in Nat /\ \A i \in 1..n : facts[i] \in F
  OBVIOUS
<1>2. \A i \in 1..n, u \in G : Step(u, i) \in G
  BY <1>0, <1>1
<1>3. ApplySubmittedPhase(w, facts, kind) = after[n]
  BY DEF ApplySubmittedPhase
<1> HIDE DEF Step, n
<1>4. after = Body(after)
  <2>1. /\ st \in [1..n -> [G -> G]]
        /\ \A i \in 1..n, u \in G : st[i][u] = Step(u, i)
    BY <1>2
  <2> HIDE DEF st
  <2>2. PICK g : Follows(g, G, w, n, st)
    BY <1>1, <2>1, RecursionExists
  <2>3. \A i \in 1..n : g[i] = Step(g[i-1], i)
    BY <1>1, <2>1, <2>2 DEF Follows
  <2>4. g = Body(g)
    BY <1>1, <2>2, <2>3 DEF Follows
  <2> QED BY <2>4
<1> HIDE DEF after
<1> DEFINE T == {i \in Nat : i <= n => after[i] \in G}
<1>5. 0 \in T
  BY <1>1, <1>4
<1>6. ASSUME NEW k \in Nat, k \in T PROVE k + 1 \in T
  <2>1. CASE k + 1 <= n
    <3>1. after[k] \in G /\ k + 1 \in 1..n
      BY <1>1, <1>6, <2>1
    <3>2. after[k+1] = Step(after[k], k+1)
      BY <1>1, <1>4, <3>1
    <3> QED BY <1>2, <3>1, <3>2
  <2>2. CASE ~ (k + 1 <= n)
    BY <2>2
  <2> QED BY <2>1, <2>2
<1> HIDE DEF T
<1>7. Nat \subseteq T
  BY <1>5, <1>6, NatSetInduction
<1>8. after \in [0..n -> G]
  <2>1. \A i \in 0..n : after[i] \in G
    BY <1>1, <1>7 DEF T
  <2> QED BY <1>4, <2>1
<1>9. \A i \in 1..n : after[i] = Step(after[i-1], i)
  BY <1>1, <1>4
<1>10. after[0] = w
  BY <1>1, <1>4
<1> QED BY <1>3, <1>8, <1>9, <1>10 DEF Passes, Step, n

\* One pass of _applySubmittedPhase stays in a set closed under Classify.
LEMMA PhaseStaysIn ==
  ASSUME NEW G, NEW w \in G, NEW F, NEW facts \in Seq(F), NEW kind
  PROVE  (\A u \in G, f \in F : Classify(u, f) \in G)
           => ApplySubmittedPhase(w, facts, kind) \in G
<1> SUFFICES ASSUME \A u \in G, f \in F : Classify(u, f) \in G
             PROVE  ApplySubmittedPhase(w, facts, kind) \in G
  OBVIOUS
<1>1. PICK h : /\ Passes(h, G, w, facts, kind)
               /\ h[Len(facts)] = ApplySubmittedPhase(w, facts, kind)
  BY PhaseUnfolds
<1>2. h[Len(facts)] \in G
  BY <1>1 DEF Passes
<1> QED BY <1>1, <1>2

\* _applySubmitted, both passes, stays in a set closed under Classify.
LEMMA SubmittedStaysIn ==
  ASSUME NEW G, NEW w \in G, NEW F, NEW facts \in Seq(F),
         \A u \in G, f \in F : Classify(u, f) \in G
  PROVE  ApplySubmitted(w, facts) \in G
<1>1. ApplySubmittedPhase(w, facts, "FUNDING") \in G
  BY PhaseStaysIn
<1> QED BY <1>1, PhaseStaysIn DEF ApplySubmitted

\* The facts of a transaction are a sequence, and each is of one of its logs.
LEMMA FactsOfEffect ==
  ASSUME NEW tx \in SourceTxs
  PROVE  LET s == Verifier!FactsOf(tx)
         IN  /\ s \in Seq(ToSet(s))
             /\ \A f \in ToSet(s) : \E log \in ToSet(tx.logs) : f = Verifier!FactOf(tx, log)
<1> DEFINE per == [i \in 1..Len(tx.logs) |->
                     IF Verifier!IsGatewayLog(tx.logs[i])
                     THEN <<Verifier!FactOf(tx, tx.logs[i])>> ELSE <<>>]
           F == {Verifier!FactOf(tx, log) : log \in ToSet(tx.logs)}
           s == FlattenSeq(per)
<1>1. Verifier!FactsOf(tx) = s
  BY DEF Verifier!FactsOf, Verifier!FlattenSeq, FlattenSeq
<1>2. Len(tx.logs) \in Nat /\ \A i \in 1..Len(tx.logs) : Verifier!FactOf(tx, tx.logs[i]) \in F
  BY SourceHistory DEF ToSet
<1> HIDE DEF F
<1>3. per \in Seq(Seq(F))
  <2>1. ASSUME NEW i \in 1..Len(tx.logs) PROVE per[i] \in Seq(F)
    BY <1>2
  <2> QED BY <1>2, <2>1
<1> HIDE DEF per
<1>4. s \in Seq(F)
  BY <1>3, FlattenEffect
<1> HIDE DEF s
<1>5. s \in Seq(ToSet(s)) /\ ToSet(s) \subseteq F
  BY <1>4 DEF ToSet
<1> QED BY <1>1, <1>5 DEF F

\* What a submission brings is a sequence of facts, each of them recorded.
LEMMA SubmittedType ==
  ASSUME NEW txs \in Seq(SourceTxs)
  PROVE  /\ Verifier!SubmittedFacts(txs) \in Seq(ToSet(Verifier!SubmittedFacts(txs)))
         /\ ToSet(Verifier!SubmittedFacts(txs)) \subseteq Facts
<1> DEFINE per == [i \in 1..Len(txs) |-> Verifier!FactsOf(txs[i])]
<1>1. ASSUME NEW tx \in SourceTxs PROVE Verifier!FactsOf(tx) \in Seq(Facts)
  <2> DEFINE s == Verifier!FactsOf(tx)
  <2>1. s \in Seq(ToSet(s))
    BY FactsOfEffect
  <2>2. ToSet(s) \subseteq Facts
    BY DEF Facts
  <2> HIDE DEF s
  <2>3. s \in Seq(Facts)
    BY <2>1, <2>2
  <2> QED BY <2>3 DEF s
<1>2. per \in Seq(Seq(Facts))
  <2>1. Len(txs) \in Nat /\ \A i \in 1..Len(txs) : txs[i] \in SourceTxs
    OBVIOUS
  <2>2. \A i \in 1..Len(txs) : Verifier!FactsOf(txs[i]) \in Seq(Facts)
    BY <1>1, <2>1
  <2> QED BY <2>1, <2>2
<1> HIDE DEF per
<1>3. FlattenSeq(per) \in Seq(Facts)
  BY <1>2, FlattenEffect
<1>4. Verifier!SubmittedFacts(txs) = FlattenSeq(per)
  BY DEF Verifier!SubmittedFacts, Verifier!FlattenSeq, FlattenSeq, per
<1> DEFINE s == FlattenSeq(per)
<1> HIDE DEF s
<1>5. s \in Seq(Facts)
  BY <1>3 DEF s
<1>6. DOMAIN s = 1..Len(s) /\ \A i \in DOMAIN s : s[i] \in Facts
  BY <1>5
<1>7. s \in Seq(ToSet(s)) /\ ToSet(s) \subseteq Facts
  BY <1>5, <1>6 DEF ToSet
<1> QED BY <1>4, <1>7 DEF s

-----------------------------------------------------------------------------
(* The inductive invariant.  TypeOK is needed by every other part; the parts *)
(* about deals and about decisions are what World \in Reachable adds.        *)

DealsInv ==
    /\ TypeOK
    /\ \A d \in DealIds : DealOK(deals[d], credit.records[d], d)
    /\ \A f \in Facts : DecidedOK(World, f, evidence)

\* The fields of the world a transaction starts in.
LEMMA WorldFields ==
  /\ World.deals = deals /\ World.applications = applications
  /\ World.credit = credit /\ World.reverted = FALSE
BY DEF World

\* A deal that keeps its status has risen.
LEMMA RisesReflexive ==
  ASSUME NEW s \in Statuses
  PROVE  Rises(s, s)
<1>1. Rank \in [Statuses -> Nat]
  BY DEF Rank, Statuses
<1> QED BY <1>1 DEF Rises

\* The transaction starts in a world of its own reachable set.
LEMMA WorldReachable ==
  ASSUME DealsInv, NEW F, evidence \subseteq F
  PROVE  World \in Reachable(F, deals)
<1>1. World \in Worlds
  BY DEF DealsInv, TypeOK, Worlds, World
<1>2. \A d \in DealIds : DealOK(World.deals[d], World.credit.records[d], d)
  BY WorldFields DEF DealsInv
<1>3. \A f \in Facts : DecidedOK(World, f, F)
  BY DEF DealsInv, DecidedOK
<1>4. \A d \in DealIds : Rises(deals[d].status, World.deals[d].status)
  BY WorldFields, RisesReflexive DEF DealsInv, TypeOK, Deal
<1> HIDE DEF World
<1> QED BY <1>1, <1>2, <1>3, <1>4 DEF Reachable

\* Committing a reachable world re-establishes the invariant, and every deal
\* has moved up.
LEMMA CommitReachable ==
  ASSUME DealsInv, evidence' \in SUBSET Facts, attested' = attested, nextDealSeq' = nextDealSeq,
         NEW w \in Reachable(evidence', deals), Commit(w)
  PROVE  DealsInv' /\ \A d \in DealIds : Rises(deals[d].status, deals'[d].status)
<1>1. ~w.reverted /\ deals' = w.deals /\ applications' = w.applications /\ credit' = w.credit
  BY DEF Commit
<1>2. /\ w \in Worlds
      /\ \A d \in DealIds : DealOK(w.deals[d], w.credit.records[d], d)
      /\ \A f \in Facts : DecidedOK(w, f, evidence')
      /\ \A d \in DealIds : Rises(deals[d].status, w.deals[d].status)
  BY <1>1 DEF Reachable
<1>3. TypeOK'
  BY <1>1, <1>2, WorldParts DEF DealsInv, TypeOK
<1>4. \A d \in DealIds : DealOK(deals'[d], credit'.records[d], d)
  BY <1>1, <1>2
<1>5. \A f \in Facts : DecidedOK(World', f, evidence')
  BY <1>1, <1>2 DEF World, DecidedOK
<1>6. \A d \in DealIds : Rises(deals[d].status, deals'[d].status)
  BY <1>1, <1>2
<1> QED BY <1>3, <1>4, <1>5, <1>6 DEF DealsInv

\* What every step does to the status of a deal.
StepRises(d) ==
    \/ Rises(deals[d].status, deals'[d].status)
    \/ deals[d].status = "NONE" /\ deals'[d].status = "CREATED"

\* createDeal opens the next deal in both layers.
LEMMA CreateDealStep ==
  ASSUME DealsInv, NEW t \in Terms, CreateDeal(t)
  PROVE  DealsInv' /\ \A e \in DealIds : StepRises(e)
<1> DEFINE d == [dealSeq |-> nextDealSeq, terms |-> t]
           m == [World EXCEPT !.deals[d].status = "CREATED"]
           x == [deals[d] EXCEPT !.status = "CREATED"]
           may == Credit!MayOpenDeal(credit, d, t.borrower, t.faceValue)
           c == Credit!OpenDeal(credit, d, t.borrower, t.faceValue)
           w == CallCredit(m, may, c)
<1>1. /\ t.requiredFunding # 0 /\ t.requiredFunding <= t.faceValue
      /\ nextDealSeq < MaxDeals /\ nextDealSeq' = nextDealSeq + 1
      /\ Commit(w)
      /\ evidence' = evidence /\ attested' = attested
  BY DEF CreateDeal
<1>2. TypeOK
  BY DEF DealsInv
<1>3. d \in DealIds /\ d.terms = t
  BY <1>1, <1>2, DealsConstants DEF TypeOK, DealIds
<1>4. /\ t.borrower \in Accounts /\ t.requiredFunding \in Nat /\ t.faceValue \in Nat
      /\ NoAccount \notin Accounts
  BY DealsConstants
<1>5. may /\ deals' = m.deals /\ credit' = c /\ applications' = m.applications
  BY <1>1 DEF Commit, CallCredit
<1> HIDE DEF d, may
<1>6. /\ m.deals = [deals EXCEPT ![d] = x] /\ m.applications = applications
  BY <1>2, <1>3 DEF World, TypeOK
<1>7. /\ c \in Credit!Storage
      /\ c.records = [credit.records EXCEPT ![d] = Opened(@, t.borrower, t.faceValue)]
  BY <1>2, <1>3, <1>4, OpenDealEffect DEF TypeOK
<1>8. credit.records[d].borrower = NoAccount
  BY <1>5 DEF may, Credit!MayOpenDeal, Credit!IsOpen
<1>9. deals[d] = NoDeal /\ RecordAgrees(deals[d], credit.records[d], d)
  <2>1. DealOK(deals[d], credit.records[d], d)
    BY <1>3 DEF DealsInv
  <2>2. deals[d].status = "NONE"
    BY <1>3, <1>4, <1>8, <2>1 DEF DealOK, RecordAgrees
  <2> QED BY <2>1, <2>2 DEF DealOK, TotalsAgree
<1> DEFINE rec == Opened(credit.records[d], t.borrower, t.faceValue)
<1>10. /\ x \in Deal /\ x.status = "CREATED" /\ x.investor = NoAccount
       /\ x.fundedAmount = 0 /\ x.repaidAmount = 0 /\ x.onTimeRepaid = 0
  BY <1>9 DEF NoDeal, Deal, Statuses
<1>11. /\ rec.borrower = t.borrower /\ rec.faceValue = t.faceValue
       /\ rec.financed = FALSE /\ rec.outcome = "NONE"
  <2>1. credit.records[d] \in Credit!DealRecord
    BY <1>2, <1>3, CreditParts DEF TypeOK
  <2>2. credit.records[d].outcome = "NONE"
    BY <1>9 DEF RecordAgrees, NoDeal, OutcomeOf, Credit!Outcomes, Credit!Results
  <2>3. credit.records[d].financed = FALSE
    BY <1>9 DEF RecordAgrees, NoDeal, Financed
  <2> QED BY <2>1, <2>2, <2>3 DEF Credit!DealRecord, Opened
<1>12. DealOK(x, rec, d)
  <2> HIDE DEF x, rec
  <2>1. RecordAgrees(x, rec, d)
    BY <1>3, <1>10, <1>11 DEF RecordAgrees, Financed, OutcomeOf, Credit!Outcomes, Credit!Results
  <2>2. TotalsAgree(x, d)
    BY <1>1, <1>3, <1>4, <1>10 DEF TotalsAgree, Financed
  <2>3. DefaultEarned(rec, d)
    BY <1>11 DEF DefaultEarned
  <2> QED BY <2>1, <2>2, <2>3 DEF DealOK
<1> HIDE DEF x, c, m, rec
<1>13. /\ deals' = [deals EXCEPT ![d] = x] /\ applications' = applications
       /\ credit' \in Credit!Storage /\ credit'.records = [credit.records EXCEPT ![d] = rec]
  BY <1>5, <1>6, <1>7 DEF rec
<1>14. TypeOK'
  BY <1>1, <1>2, <1>3, <1>10, <1>13, DealsConstants DEF TypeOK
<1>15. \A e \in DealIds : DealOK(deals'[e], credit'.records[e], e)
  <2>1. TAKE e \in DealIds
  <2>2. CASE e = d
    BY <1>2, <1>3, <1>12, <1>13, <2>2 DEF TypeOK, Credit!Storage
  <2>3. CASE e # d
    BY <1>2, <1>13, <2>3 DEF DealsInv, TypeOK, Credit!Storage
  <2> QED BY <2>2, <2>3
<1>16. \A e \in DealIds : deals[e].status # "NONE" => deals'[e].status = deals[e].status
  BY <1>2, <1>3, <1>9, <1>13 DEF TypeOK, NoDeal
<1>17. \A f \in Facts : DecidedOK(World', f, evidence')
  BY <1>1, <1>13, <1>16, FactParts DEF DealsInv, DecidedOK, World
<1>18. \A e \in DealIds : StepRises(e)
  <2>1. TAKE e \in DealIds
  <2>2. CASE e = d
    BY <1>2, <1>3, <1>9, <1>10, <1>13, <2>2 DEF TypeOK, StepRises, NoDeal
  <2>3. CASE e # d
    BY <1>2, <1>13, <2>3, RisesReflexive DEF TypeOK, StepRises, Deal
  <2> QED BY <2>2, <2>3
<1> QED BY <1>14, <1>15, <1>17, <1>18 DEF DealsInv

\* markDefaulted moves one financed deal, once the attested height is past
\* the threshold; the outcome it writes carries that height.
LEMMA MarkDefaultedStep ==
  ASSUME DealsInv, NEW d \in DealIds, MarkDefaulted(d)
  PROVE  DealsInv' /\ \A e \in DealIds : StepRises(e)
<1> DEFINE r == "DEFAULTED"
           w == RecordOutcome([World EXCEPT !.deals[d].status = r], d, r)
           x == [deals[d] EXCEPT !.status = r]
           rec == Concluded(credit.records[d], r, attested)
<1>1. /\ deals[d].status = "FINANCED"
      /\ attested # Credit!NoHeight /\ attested > DefaultThreshold(d)
      /\ Commit(w)
      /\ nextDealSeq' = nextDealSeq /\ evidence' = evidence /\ attested' = attested
  BY DEF MarkDefaulted
<1>2. /\ TypeOK /\ DealOK(deals[d], credit.records[d], d)
      /\ World \in Worlds /\ attested \in (0..MaxHeight) \cup {Credit!NoHeight}
  BY DEF DealsInv, TypeOK, Worlds, World
<1>3. /\ deals[d] \in Deal /\ credit.records[d] \in Credit!DealRecord
      /\ credit.records \in [DealIds -> Credit!DealRecord]
  BY <1>2 DEF TypeOK, Credit!Storage
<1>4. r \in Credit!Outcomes
  BY DEF Credit!Outcomes, Credit!Results
<1>5. /\ w \in Worlds
      /\ w.applications = World.applications
      /\ w.deals = [World.deals EXCEPT ![d] = [@ EXCEPT !.status = r]]
      /\ ~w.reverted =>
           w.credit.records = IF World.credit.records[d].outcome = r THEN World.credit.records
                              ELSE [World.credit.records EXCEPT ![d] = Concluded(@, r, attested)]
  BY <1>2, <1>4, RecordStatusEffect
<1>6. ~w.reverted /\ deals' = w.deals /\ applications' = w.applications /\ credit' = w.credit
  BY <1>1 DEF Commit
<1>7. /\ credit.records[d].financed = TRUE /\ credit.records[d].outcome = "NONE"
      /\ credit.records[d].borrower = d.terms.borrower
      /\ credit.records[d].faceValue = d.terms.faceValue
  BY <1>1, <1>2 DEF DealOK, RecordAgrees, Financed, OutcomeOf, Credit!Outcomes, Credit!Results
<1> HIDE DEF w
<1>8. /\ deals' = [deals EXCEPT ![d] = x] /\ applications' = applications
      /\ credit'.records = [credit.records EXCEPT ![d] = rec]
      /\ credit' \in Credit!Storage
  BY <1>5, <1>6, <1>7, WorldFields, WorldParts
<1>9. x \in Deal /\ x.status = r
  BY <1>3 DEF Deal, Statuses
<1>10. DealOK(x, rec, d)
  <2>1. /\ rec.borrower = d.terms.borrower /\ rec.faceValue = d.terms.faceValue
        /\ rec.financed = TRUE /\ rec.outcome = r /\ rec.closedAtBlock = attested
    BY <1>3, <1>7 DEF Concluded, Credit!DealRecord
  <2>2. /\ x.status = "DEFAULTED" /\ x.investor = deals[d].investor
        /\ x.fundedAmount = deals[d].fundedAmount /\ x.repaidAmount = deals[d].repaidAmount
        /\ x.onTimeRepaid = deals[d].onTimeRepaid
    BY <1>3 DEF Deal
  <2> HIDE DEF x, rec
  <2>3. RecordAgrees(x, rec, d)
    BY <2>1, <2>2 DEF RecordAgrees, Financed, OutcomeOf, Credit!Outcomes, Credit!Results
  <2>4. TotalsAgree(x, d)
    BY <1>1, <1>2, <2>2 DEF DealOK, TotalsAgree, Financed
  <2>5. DefaultEarned(rec, d)
    BY <1>1, <2>1 DEF DefaultEarned
  <2> QED BY <2>3, <2>4, <2>5 DEF DealOK
<1> HIDE DEF x, rec
<1>11. TypeOK'
  BY <1>1, <1>2, <1>8, <1>9 DEF TypeOK
<1>12. \A e \in DealIds : DealOK(deals'[e], credit'.records[e], e)
  <2>1. TAKE e \in DealIds
  <2>2. CASE e = d
    BY <1>2, <1>3, <1>8, <1>10, <2>2 DEF TypeOK
  <2>3. CASE e # d
    BY <1>2, <1>3, <1>8, <2>3 DEF DealsInv, TypeOK
  <2> QED BY <2>2, <2>3
<1>13. \A e \in DealIds :
          /\ deals'[e].status # "NONE" \/ deals[e].status = "NONE"
          /\ \/ deals'[e] = deals[e]
             \/ deals[e].status = "FINANCED" /\ deals'[e].status = r
  <2>1. TAKE e \in DealIds
  <2>2. CASE e = d
    <3>1. deals'[e] = x
      BY <1>2, <1>8, <2>2 DEF TypeOK
    <3>2. deals'[e].status = "DEFAULTED" /\ deals[e].status = "FINANCED"
      BY <1>1, <1>9, <2>2, <3>1
    <3> QED BY <3>2
  <2>3. CASE e # d
    <3>1. deals'[e] = deals[e]
      BY <1>2, <1>8, <2>3 DEF TypeOK
    <3> QED BY <3>1
  <2> QED BY <2>2, <2>3
<1>14. \A f \in Facts : DecidedOK(World', f, evidence')
  BY <1>1, <1>8, <1>13, FactParts DEF DealsInv, DecidedOK, World
<1>15. \A e \in DealIds : StepRises(e)
  <2>1. TAKE e \in DealIds
  <2>2. CASE deals'[e] = deals[e]
    BY <1>2, <2>2, RisesReflexive DEF TypeOK, StepRises, Deal
  <2>3. CASE deals[e].status = "FINANCED" /\ deals'[e].status = r
    BY <2>3 DEF StepRises, Rises, Rank, Statuses
  <2> QED BY <1>13, <2>2, <2>3
<1> QED BY <1>11, <1>12, <1>14, <1>15 DEF DealsInv

\* A submission, atomic: its facts are recorded and then applied.
LEMMA SubmitAndApplyStep ==
  ASSUME DealsInv, NEW txs \in Seq(SourceTxs), SubmitAndApply(txs)
  PROVE  DealsInv' /\ \A e \in DealIds : StepRises(e)
<1> DEFINE facts == Verifier!SubmittedFacts(txs)
           w == ApplySubmitted(World, facts)
           G == Reachable(evidence', deals)
<1>1. /\ Commit(w) /\ evidence' = evidence \cup ToSet(facts)
      /\ nextDealSeq' = nextDealSeq /\ attested' = attested
  BY DEF SubmitAndApply, Verifier!SubmitEvidence, Verifier!Recorded, Verifier!ToSet, ToSet
<1>2. facts \in Seq(ToSet(facts)) /\ ToSet(facts) \subseteq Facts
  BY SubmittedType
<1>3. /\ evidence' \in SUBSET Facts /\ evidence \subseteq evidence'
      /\ ToSet(facts) \subseteq evidence' /\ deals \in [DealIds -> Deal]
      /\ attested \in (0..MaxHeight) \cup {Credit!NoHeight}
  BY <1>1, <1>2 DEF DealsInv, TypeOK
<1>4. World \in G
  BY <1>3, WorldReachable
<1>5. \A u \in G, f \in ToSet(facts) : Classify(u, f) \in G
  BY <1>3, ClassifyReachable
<1> HIDE DEF facts, G
<1>6. w \in G
  BY <1>2, <1>4, <1>5, SubmittedStaysIn
<1> HIDE DEF w
<1>7. DealsInv' /\ \A e \in DealIds : Rises(deals[e].status, deals'[e].status)
  BY <1>1, <1>3, <1>6, CommitReachable DEF G
<1> QED BY <1>7 DEF StepRises

\* applyEvidence: a recorded fact is classified once.
LEMMA ApplyEvidenceStep ==
  ASSUME DealsInv, NEW f \in Facts, ApplyEvidence(f)
  PROVE  DealsInv' /\ \A e \in DealIds : StepRises(e)
<1> DEFINE w == Apply(World, f)
           G == Reachable(evidence', deals)
<1>1. /\ f \in evidence /\ Commit(w) /\ evidence' = evidence
      /\ nextDealSeq' = nextDealSeq /\ attested' = attested
  BY DEF ApplyEvidence
<1>2. /\ evidence' \in SUBSET Facts /\ evidence \subseteq evidence' /\ f \in evidence'
      /\ deals \in [DealIds -> Deal]
      /\ attested \in (0..MaxHeight) \cup {Credit!NoHeight}
  BY <1>1 DEF DealsInv, TypeOK
<1>3. World \in G
  BY <1>2, WorldReachable
<1>4. Classify(World, f) \in G
  BY <1>2, <1>3, ClassifyReachable
<1>5. w \in G
  BY <1>3, <1>4 DEF Apply
<1> HIDE DEF w
<1>6. DealsInv' /\ \A e \in DealIds : Rises(deals[e].status, deals'[e].status)
  BY <1>1, <1>2, <1>5, CommitReachable
<1> QED BY <1>6 DEF StepRises

\* Steps that leave the registry and the credit layer alone.
LEMMA OutsideStep ==
  ASSUME DealsInv, TypeOK', evidence \subseteq evidence',
         deals' = deals, applications' = applications, credit' = credit
  PROVE  DealsInv' /\ \A e \in DealIds : StepRises(e)
<1>1. \A d \in DealIds : DealOK(deals'[d], credit'.records[d], d)
  BY DEF DealsInv
<1>2. \A f \in Facts : DecidedOK(World', f, evidence')
  BY DEF DealsInv, DecidedOK, World
<1>3. \A e \in DealIds : StepRises(e)
  BY RisesReflexive DEF DealsInv, TypeOK, Deal, StepRises
<1> QED BY <1>1, <1>2, <1>3 DEF DealsInv

\* submitEvidence called directly on the verifier.
LEMMA SubmitToVerifierStep ==
  ASSUME DealsInv, NEW txs \in Seq(SourceTxs), SubmitToVerifier(txs)
  PROVE  DealsInv' /\ \A e \in DealIds : StepRises(e)
<1> DEFINE facts == Verifier!SubmittedFacts(txs)
<1>1. /\ evidence' = evidence \cup ToSet(facts)
      /\ nextDealSeq' = nextDealSeq /\ attested' = attested
      /\ deals' = deals /\ applications' = applications /\ credit' = credit
  BY DEF SubmitToVerifier, Verifier!SubmitEvidence, Verifier!Recorded, Verifier!ToSet, ToSet
<1>2. ToSet(facts) \subseteq Facts
  BY SubmittedType
<1> HIDE DEF facts
<1>3. TypeOK'
  BY <1>1, <1>2 DEF DealsInv, TypeOK
<1> QED BY <1>1, <1>3, OutsideStep

\* The attested height moves on.
LEMMA AttestStep ==
  ASSUME DealsInv, NEW h \in 0..MaxHeight, Attest(h)
  PROVE  DealsInv' /\ \A e \in DealIds : StepRises(e)
<1>1. /\ attested' = h /\ nextDealSeq' = nextDealSeq /\ evidence' = evidence
      /\ deals' = deals /\ applications' = applications /\ credit' = credit
  BY DEF Attest
<1>2. TypeOK'
  BY <1>1 DEF DealsInv, TypeOK
<1> QED BY <1>1, <1>2, OutsideStep

\* The empty registry satisfies the invariant.
LEMMA DealsInit ==
  ASSUME Init
  PROVE  DealsInv
<1>1. \A b \in Accounts : Credit!EmptyStorage.counters[b] \in [Credit!Outcomes -> Nat]
  BY DEF Credit!EmptyStorage
<1>2. credit \in Credit!Storage
  BY DEF Init, Credit!EmptyStorage, Credit!Storage, Credit!NoRecord, Credit!DealRecord,
         Credit!Results, Credit!Outcomes
<1>3. TypeOK
  BY <1>2, DealsConstants DEF Init, TypeOK, Deal, NoDeal, Statuses, Application, Undecided
<1>4. \A d \in DealIds : DealOK(deals[d], credit.records[d], d)
  <2>1. TAKE d \in DealIds
  <2>2. deals[d] = NoDeal /\ credit.records[d] = Credit!NoRecord
    BY DEF Init, Credit!EmptyStorage
  <2> QED BY <2>2 DEF DealOK, RecordAgrees, TotalsAgree, DefaultEarned, Financed, NoDeal,
                      Credit!NoRecord, OutcomeOf, Credit!Outcomes, Credit!Results
<1>5. \A f \in Facts : DecidedOK(World, f, evidence)
  BY DEF Init, DecidedOK, World, Undecided
<1> QED BY <1>3, <1>4, <1>5 DEF DealsInv

\* One step per transaction of Next, and stuttering.
LEMMA DealsStep ==
  ASSUME DealsInv, [Next]_vars
  PROVE  DealsInv' /\ \A e \in DealIds : StepRises(e)
<1>1. CASE \E t \in Terms : CreateDeal(t)
  BY <1>1, CreateDealStep
<1>2. CASE \E d \in DealIds : MarkDefaulted(d)
  BY <1>2, MarkDefaultedStep
<1>3. CASE \E txs \in Verifier!Submissions : SubmitToVerifier(txs) \/ SubmitAndApply(txs)
  <2>1. PICK txs \in Verifier!Submissions : SubmitToVerifier(txs) \/ SubmitAndApply(txs)
    BY <1>3
  <2>2. txs \in Seq(SourceTxs)
    <3>1. txs \in UNION {[1..m -> SourceTxs] : m \in 0..MAX_BATCH}
      BY <2>1 DEF Verifier!Submissions, Verifier!BoundedSeq, Verifier!SeqOf
    <3>2. PICK m \in 0..MAX_BATCH : txs \in [1..m -> SourceTxs]
      BY <3>1
    <3>3. m \in Nat
      BY DealsConstants
    <3> QED BY <3>2, <3>3
  <2> QED BY <2>1, <2>2, SubmitToVerifierStep, SubmitAndApplyStep
<1>4. CASE \E f \in Facts : ApplyEvidence(f)
  BY <1>4, ApplyEvidenceStep
<1>5. CASE \E h \in 0..MaxHeight : Attest(h)
  BY <1>5, AttestStep
<1>6. CASE UNCHANGED vars
  <2>1. TypeOK'
    BY <1>6 DEF DealsInv, TypeOK, vars
  <2> QED BY <1>6, <2>1, OutsideStep DEF vars
<1> QED BY <1>1, <1>2, <1>3, <1>4, <1>5, <1>6 DEF Next

\* DealsInv holds in every reachable state.
LEMMA DealsInvariant == Spec => []DealsInv
<1>1. DealsInv /\ [Next]_vars => DealsInv'
  BY DealsStep
<1> QED BY <1>1, DealsInit, PTL DEF Spec

-----------------------------------------------------------------------------
(* Theorems of the specification. *)

\* The storage of the registry, the credit layer and the verifier keeps its
\* type: no subtraction underflows and no unknown state is ever stored.
THEOREM TypeCorrect == Spec => []TypeOK
<1>1. DealsInv => TypeOK
  BY DEF DealsInv
<1> QED BY <1>1, DealsInvariant, PTL

\* INV-21: the registry and the credit layer agree on every deal.
THEOREM LayersAlwaysAgree == Spec => []LayersAgree
<1>1. ASSUME DealsInv PROVE LayersAgree
  <2>1. SUFFICES ASSUME NEW d \in DealIds
                 PROVE  LET record == credit.records[d]
                        IN  /\ record.borrower = IF deals[d].status = "NONE" THEN NoAccount
                                                 ELSE d.terms.borrower
                            /\ record.faceValue = IF deals[d].status = "NONE" THEN 0
                                                  ELSE d.terms.faceValue
                            /\ record.financed = WasFinanced(d)
                            /\ record.outcome = OutcomeOf(deals[d].status)
    BY DEF LayersAgree
  <2>2. RecordAgrees(deals[d], credit.records[d], d)
    BY <1>1 DEF DealsInv, DealOK
  <2>3. credit.records[d].financed = WasFinanced(d)
    <3>1. credit.records[d].financed = IF WasFinanced(d) THEN TRUE ELSE FALSE
      BY <2>2 DEF RecordAgrees, Financed, WasFinanced
    <3>2. WasFinanced(d) \in BOOLEAN
      BY DEF WasFinanced
    <3> QED BY <3>1, <3>2
  <2> QED BY <2>2, <2>3 DEF RecordAgrees
<1> QED BY <1>1, DealsInvariant, PTL

\* INV-1, INV-4, INV-12, INV-18: the status is the one the totals call for.
THEOREM StatusAlwaysMatches == Spec => []StatusMatchesTotals
<1>1. ASSUME DealsInv PROVE StatusMatchesTotals
  <2>1. \A d \in DealIds : TotalsAgree(deals[d], d)
    BY <1>1 DEF DealsInv, DealOK
  <2> QED BY <2>1 DEF StatusMatchesTotals, TotalsAgree, WasFinanced, Financed
<1> QED BY <1>1, DealsInvariant, PTL

\* INV-19: only recorded facts of created deals are decided, each as its
\* parties require.
THEOREM DecisionsCorrect == Spec => []DecisionsAreFinal
<1>1. ASSUME DealsInv PROVE DecisionsAreFinal
  BY <1>1, WorldFields DEF DealsInv, DecidedOK, DecisionsAreFinal
<1> QED BY <1>1, DealsInvariant, PTL

\* INV-22: a default on record was earned.
THEOREM DefaultsEarned == Spec => []DefaultOnlyAfterGrace
<1>1. ASSUME DealsInv PROVE DefaultOnlyAfterGrace
  BY <1>1 DEF DealsInv, DealOK, DefaultEarned, DefaultOnlyAfterGrace, DefaultThreshold
<1> QED BY <1>1, DealsInvariant, PTL

\* INV-1, INV-22: no transaction moves a deal down its lifecycle, or past
\* CREATED, whatever the submission it carries.
THEOREM LifecycleRises == Spec => LifecycleOnlyRises
<1> DEFINE Rise == \A d \in DealIds :
          /\ Rank[deals[d].status] <= Rank[deals'[d].status]
          /\ deals[d].status = "NONE" => deals'[d].status \in {"NONE", "CREATED"}
<1>1. ASSUME DealsInv, [Next]_vars PROVE Rise
  <2>1. SUFFICES ASSUME NEW d \in DealIds
                 PROVE  /\ Rank[deals[d].status] <= Rank[deals'[d].status]
                        /\ deals[d].status = "NONE" => deals'[d].status \in {"NONE", "CREATED"}
    OBVIOUS
  <2>2. StepRises(d)
    BY <1>1, DealsStep
  <2> QED BY <2>2 DEF StepRises, Rises, Rank, Statuses
<1> HIDE DEF Rise
<1>2. DealsInv /\ [Next]_vars => [Rise]_vars
  BY <1>1
<1>3. Spec => [][Rise]_vars
  BY <1>2, DealsInvariant, PTL DEF Spec
<1> QED BY <1>3 DEF LifecycleOnlyRises, Rise

-----------------------------------------------------------------------------
(***************************************************************************)
(* The books: a deal's totals are those of the facts applied to it, a      *)
(* borrower's reserve, exposure and counters those of the borrower's       *)
(* deals.  With them no fact is stranded, the order of delivery is         *)
(* forgotten, and the ledger is implemented.                               *)
(*                                                                         *)
(* Every sum is written over a fixed set, of all facts or of all deals of  *)
(* a borrower, with a term of zero for what does not count: a transaction  *)
(* then changes one term of each sum.                                      *)
(***************************************************************************)

(* The sets summed over are finite. *)

\* There are finitely many deals: sequence numbers are bounded and terms finite.
LEMMA DealsFinite == IsFiniteSet(DealIds)
<1> DEFINE Pairs == (0..(MaxDeals - 1)) \X Terms
           g == [p \in Pairs |-> [dealSeq |-> p[1], terms |-> p[2]]]
<1>1. IsFiniteSet(Pairs)
  <2> DEFINE S == 0..(MaxDeals - 1)
  <2>1. MaxDeals - 1 \in Int /\ IsFiniteSet(Terms)
    BY DealsConstants
  <2>2. IsFiniteSet(S)
    BY <2>1, FS_Interval
  <2> HIDE DEF S
  <2>3. IsFiniteSet(S \X Terms)
    BY <2>1, <2>2, FS_Product
  <2> QED BY <2>3 DEF S
<1>2. DealIds = {g[p] : p \in Pairs}
  <2>1. ASSUME NEW d \in DealIds PROVE \E p \in Pairs : d = g[p]
    <3>1. <<d.dealSeq, d.terms>> \in Pairs /\ d = [dealSeq |-> d.dealSeq, terms |-> d.terms]
      BY DEF DealIds
    <3> QED BY <3>1
  <2>2. \A p \in Pairs : g[p] \in DealIds
    BY DEF DealIds
  <2> HIDE DEF g, Pairs
  <2> QED BY <2>1, <2>2
<1> HIDE DEF Pairs, g
<1> QED BY <1>1, <1>2, FiniteImage

\* There are finitely many facts: a transaction carries a sequence of them.
LEMMA FactsFinite == IsFiniteSet(Facts)
<1> DEFINE g == [tx \in SourceTxs |-> ToSet(Verifier!FactsOf(tx))]
           T == {ToSet(Verifier!FactsOf(tx)) : tx \in SourceTxs}
<1>1. T = {g[tx] : tx \in SourceTxs}
  OBVIOUS
<1>2. IsFiniteSet(T)
  <2> HIDE DEF g, T
  <2> QED BY <1>1, DealsConstants, FiniteImage
<1>3. \A s \in T : IsFiniteSet(s)
  BY FactsOfEffect, FiniteSequence
<1>4. Facts = UNION T
  BY DEF Facts
<1> HIDE DEF T
<1> QED BY <1>2, <1>3, <1>4, FS_UNION

-----------------------------------------------------------------------------
(* What one deal and one fact contribute. *)

ReserveOf(deal, d) == IF deal.status = "CREATED" THEN d.terms.faceValue ELSE 0
ExposureOf(deal, d) == IF Financed(deal) THEN Outstanding(d, deal.repaidAmount) ELSE 0
OneIf(deal, r) == IF deal.status = r THEN 1 ELSE 0

ReserveTerms(D) == [d \in DealIds |-> ReserveOf(D[d], d)]
ExposureTerms(D) == [d \in DealIds |-> ExposureOf(D[d], d)]
OutcomeTerms(D, r) == [d \in DealIds |-> OneIf(D[d], r)]

DealsBy(b) == {d \in DealIds : d.terms.borrower = b}

\* The credit layer's amounts are those of the registry's deals.
CreditBooks(c, D) ==
    \A b \in Accounts :
        /\ c.reserved[b] = SumFunctionOnSet(ReserveTerms(D), DealsBy(b))
        /\ c.exposure[b] = SumFunctionOnSet(ExposureTerms(D), DealsBy(b))
        /\ \A r \in Credit!Outcomes :
              c.counters[b][r] = SumFunctionOnSet(OutcomeTerms(D, r), DealsBy(b))

IsApplied(A, f) == A[f].state = "APPLIED"

FundingOne(A, f, d) ==
    IF IsApplied(A, f) /\ f.dealId = d /\ f.kind = "FUNDING" THEN f.amount ELSE 0
RepaymentOne(A, f, d) ==
    IF IsApplied(A, f) /\ f.dealId = d /\ f.kind = "REPAYMENT" THEN f.amount ELSE 0
TimelyOne(A, f, d) ==
    IF f.blockHeight <= d.terms.dueBlock THEN RepaymentOne(A, f, d) ELSE 0

FundingTerms(A, d) == [f \in Facts |-> FundingOne(A, f, d)]
RepaymentTerms(A, d) == [f \in Facts |-> RepaymentOne(A, f, d)]
TimelyTerms(A, d) == [f \in Facts |-> TimelyOne(A, f, d)]

\* The registry's totals are those of the facts applied.
FactBooks(A, D) ==
    \A d \in DealIds :
        /\ D[d].fundedAmount = SumFunctionOnSet(FundingTerms(A, d), Facts)
        /\ D[d].repaidAmount = SumFunctionOnSet(RepaymentTerms(A, d), Facts)
        /\ D[d].onTimeRepaid = SumFunctionOnSet(TimelyTerms(A, d), Facts)

\* A repayment is applied to a financed deal only.
RepaymentsFinanced(A, D) ==
    \A f \in Facts :
        IsApplied(A, f) /\ f.kind = "REPAYMENT" => Financed(D[f.dealId])

Books(w) ==
    /\ FactBooks(w.applications, w.deals)
    /\ CreditBooks(w.credit, w.deals)
    /\ RepaymentsFinanced(w.applications, w.deals)

\* What a deal and a fact contribute are naturals.
LEMMA DealTermsType ==
  ASSUME NEW deal \in Deal, NEW d \in DealIds, NEW r
  PROVE  /\ ReserveOf(deal, d) \in Nat /\ ExposureOf(deal, d) \in Nat
         /\ OneIf(deal, r) \in Nat
<1>1. d.terms.faceValue \in Nat /\ deal.repaidAmount \in Nat
  BY DealIdParts DEF Deal
<1> QED BY <1>1, SatSubType DEF ReserveOf, ExposureOf, OneIf, Outstanding

\* What a fact adds to a total is a natural.
LEMMA FactTermsType ==
  ASSUME NEW A, NEW f \in Facts, NEW d
  PROVE  FundingOne(A, f, d) \in Nat /\ RepaymentOne(A, f, d) \in Nat /\ TimelyOne(A, f, d) \in Nat
BY FactParts DEF FundingOne, RepaymentOne, TimelyOne

\* So are the deals of one borrower finitely many.
LEMMA DealsByFinite == ASSUME NEW b PROVE IsFiniteSet(DealsBy(b))
BY DealsFinite, FS_Subset DEF DealsBy

\* Storage n is c after a move of deal d from x to y.
Follow(c, n, d, x, y) ==
    \A b \in Accounts :
        LET here == d.terms.borrower = b
        IN  /\ n.reserved[b] = c.reserved[b]
                 + IF here THEN ReserveOf(y, d) - ReserveOf(x, d) ELSE 0
            /\ n.exposure[b] = c.exposure[b]
                 + IF here THEN ExposureOf(y, d) - ExposureOf(x, d) ELSE 0
            /\ \A r \in Credit!Outcomes :
                  n.counters[b][r] = c.counters[b][r]
                    + IF here THEN OneIf(y, r) - OneIf(x, r) ELSE 0

\* One deal moves, and the amounts of its borrower with it.
LEMMA CreditFollows ==
  ASSUME NEW c, NEW n, NEW D \in [DealIds -> Deal], NEW d \in DealIds, NEW y \in Deal,
         CreditBooks(c, D), Follow(c, n, d, D[d], y)
  PROVE  CreditBooks(n, [D EXCEPT ![d] = y])
<1> DEFINE E == [D EXCEPT ![d] = y]
<1>1. E \in [DealIds -> Deal] /\ E[d] = y /\ \A e \in DealIds \ {d} : E[e] = D[e]
  OBVIOUS
<1> HIDE DEF E
<1>2. ASSUME NEW b \in Accounts
      PROVE  /\ SumFunctionOnSet(ReserveTerms(E), DealsBy(b))
                  = SumFunctionOnSet(ReserveTerms(D), DealsBy(b))
                      + IF d \in DealsBy(b) THEN ReserveTerms(E)[d] - ReserveTerms(D)[d] ELSE 0
             /\ SumFunctionOnSet(ExposureTerms(E), DealsBy(b))
                  = SumFunctionOnSet(ExposureTerms(D), DealsBy(b))
                      + IF d \in DealsBy(b) THEN ExposureTerms(E)[d] - ExposureTerms(D)[d] ELSE 0
             /\ \A r \in Credit!Outcomes :
                  SumFunctionOnSet(OutcomeTerms(E, r), DealsBy(b))
                    = SumFunctionOnSet(OutcomeTerms(D, r), DealsBy(b))
                        + IF d \in DealsBy(b) THEN OutcomeTerms(E, r)[d] - OutcomeTerms(D, r)[d] ELSE 0
  <2>1. IsFiniteSet(DealsBy(b)) /\ DealsBy(b) \subseteq DealIds
    BY DealsByFinite DEF DealsBy
  <2>2. \A e \in DealsBy(b) : D[e] \in Deal /\ E[e] \in Deal
    BY <1>1, <2>1
  <2>3. /\ \A e \in DealsBy(b) : ReserveTerms(D)[e] \in Int /\ ReserveTerms(E)[e] \in Int
        /\ \A e \in DealsBy(b) \ {d} : ReserveTerms(E)[e] = ReserveTerms(D)[e]
    BY <1>1, <2>1, <2>2, DealTermsType DEF ReserveTerms
  <2>4. /\ \A e \in DealsBy(b) : ExposureTerms(D)[e] \in Int /\ ExposureTerms(E)[e] \in Int
        /\ \A e \in DealsBy(b) \ {d} : ExposureTerms(E)[e] = ExposureTerms(D)[e]
    BY <1>1, <2>1, <2>2, DealTermsType DEF ExposureTerms
  <2>5. ASSUME NEW r
        PROVE  /\ \A e \in DealsBy(b) : OutcomeTerms(D, r)[e] \in Int /\ OutcomeTerms(E, r)[e] \in Int
               /\ \A e \in DealsBy(b) \ {d} : OutcomeTerms(E, r)[e] = OutcomeTerms(D, r)[e]
    BY <1>1, <2>1, <2>2, DealTermsType DEF OutcomeTerms
  <2> QED BY <2>1, <2>3, <2>4, <2>5, SumMoves
<1>3. /\ ReserveTerms(E)[d] = ReserveOf(y, d) /\ ReserveTerms(D)[d] = ReserveOf(D[d], d)
      /\ ExposureTerms(E)[d] = ExposureOf(y, d) /\ ExposureTerms(D)[d] = ExposureOf(D[d], d)
      /\ \A r : OutcomeTerms(E, r)[d] = OneIf(y, r) /\ OutcomeTerms(D, r)[d] = OneIf(D[d], r)
  BY <1>1 DEF ReserveTerms, ExposureTerms, OutcomeTerms
<1>4. \A b : d \in DealsBy(b) <=> d.terms.borrower = b
  BY DEF DealsBy
<1>5. CreditBooks(n, E)
  <2> SUFFICES ASSUME NEW b \in Accounts
               PROVE  /\ n.reserved[b] = SumFunctionOnSet(ReserveTerms(E), DealsBy(b))
                      /\ n.exposure[b] = SumFunctionOnSet(ExposureTerms(E), DealsBy(b))
                      /\ \A r \in Credit!Outcomes :
                           n.counters[b][r] = SumFunctionOnSet(OutcomeTerms(E, r), DealsBy(b))
    BY DEF CreditBooks
  <2> QED BY <1>2, <1>3, <1>4 DEF CreditBooks, Follow
<1> QED BY <1>5 DEF E

\* The totals in E are those in D and what fact f adds under decisions B.
FactAdded(D, E, B, f) ==
    \A d \in DealIds :
        /\ E[d].fundedAmount = D[d].fundedAmount + FundingOne(B, f, d)
        /\ E[d].repaidAmount = D[d].repaidAmount + RepaymentOne(B, f, d)
        /\ E[d].onTimeRepaid = D[d].onTimeRepaid + TimelyOne(B, f, d)

\* Decisions B are decisions A and one on f, which A had not applied.
DecidedNext(A, B, f) == ~IsApplied(A, f) /\ \A g \in Facts \ {f} : B[g] = A[g]

\* A fact not applied before is decided, and the totals follow.
LEMMA FactsFollow ==
  ASSUME NEW A, NEW B, NEW f \in Facts, DecidedNext(A, B, f),
         NEW D, NEW E, FactBooks(A, D), FactAdded(D, E, B, f)
  PROVE  FactBooks(B, E)
<1>1. ~IsApplied(A, f) /\ \A g \in Facts \ {f} : B[g] = A[g]
  BY DEF DecidedNext
<1>3. ASSUME NEW d \in DealIds
      PROVE  /\ SumFunctionOnSet(FundingTerms(B, d), Facts)
                  = SumFunctionOnSet(FundingTerms(A, d), Facts) + FundingOne(B, f, d)
             /\ SumFunctionOnSet(RepaymentTerms(B, d), Facts)
                  = SumFunctionOnSet(RepaymentTerms(A, d), Facts) + RepaymentOne(B, f, d)
             /\ SumFunctionOnSet(TimelyTerms(B, d), Facts)
                  = SumFunctionOnSet(TimelyTerms(A, d), Facts) + TimelyOne(B, f, d)
  <2>1. SumFunctionOnSet(FundingTerms(B, d), Facts)
          = SumFunctionOnSet(FundingTerms(A, d), Facts) + FundingOne(B, f, d)
    <3> DEFINE F == FundingTerms(A, d)
               G == FundingTerms(B, d)
    <3>1. /\ \A g \in Facts : F[g] \in Int /\ G[g] \in Int
          /\ \A g \in Facts \ {f} : G[g] = F[g]
          /\ F[f] = 0 /\ G[f] = FundingOne(B, f, d)
      BY <1>1, FactTermsType DEF FundingTerms, FundingOne, IsApplied
    <3> HIDE DEF F, G
    <3>2. SumFunctionOnSet(G, Facts) = SumFunctionOnSet(F, Facts) + G[f]
      BY <3>1, FactsFinite, SumNew
    <3> QED BY <3>1, <3>2 DEF F, G
  <2>2. SumFunctionOnSet(RepaymentTerms(B, d), Facts)
          = SumFunctionOnSet(RepaymentTerms(A, d), Facts) + RepaymentOne(B, f, d)
    <3> DEFINE F == RepaymentTerms(A, d)
               G == RepaymentTerms(B, d)
    <3>1. /\ \A g \in Facts : F[g] \in Int /\ G[g] \in Int
          /\ \A g \in Facts \ {f} : G[g] = F[g]
          /\ F[f] = 0 /\ G[f] = RepaymentOne(B, f, d)
      BY <1>1, FactTermsType DEF RepaymentTerms, RepaymentOne, IsApplied
    <3> HIDE DEF F, G
    <3>2. SumFunctionOnSet(G, Facts) = SumFunctionOnSet(F, Facts) + G[f]
      BY <3>1, FactsFinite, SumNew
    <3> QED BY <3>1, <3>2 DEF F, G
  <2>3. SumFunctionOnSet(TimelyTerms(B, d), Facts)
          = SumFunctionOnSet(TimelyTerms(A, d), Facts) + TimelyOne(B, f, d)
    <3> DEFINE F == TimelyTerms(A, d)
               G == TimelyTerms(B, d)
    <3>1. /\ \A g \in Facts : F[g] \in Int /\ G[g] \in Int
          /\ \A g \in Facts \ {f} : G[g] = F[g]
          /\ F[f] = 0 /\ G[f] = TimelyOne(B, f, d)
      BY <1>1, FactTermsType DEF TimelyTerms, TimelyOne, RepaymentOne, IsApplied
    <3> HIDE DEF F, G
    <3>2. SumFunctionOnSet(G, Facts) = SumFunctionOnSet(F, Facts) + G[f]
      BY <3>1, FactsFinite, SumNew
    <3> QED BY <3>1, <3>2 DEF F, G
  <2> QED BY <2>1, <2>2, <2>3
<1> QED BY <1>3 DEF FactBooks, FactAdded

\* A term is at most its sum, so what a deal contributes is there to take.
LEMMA BooksCover ==
  ASSUME NEW c, NEW D \in [DealIds -> Deal], CreditBooks(c, D), NEW d \in DealIds
  PROVE  LET b == d.terms.borrower
         IN  /\ b \in Accounts
             /\ ReserveOf(D[d], d) <= c.reserved[b]
             /\ ExposureOf(D[d], d) <= c.exposure[b]
             /\ \A r \in Credit!Outcomes : OneIf(D[d], r) <= c.counters[b][r]
<1> DEFINE b == d.terms.borrower
<1>1. b \in Accounts /\ d \in DealsBy(b) /\ DealsBy(b) \subseteq DealIds /\ IsFiniteSet(DealsBy(b))
  BY DealIdParts, DealsByFinite DEF DealsBy
<1> HIDE DEF b
<1>2. \A e \in DealsBy(b) : D[e] \in Deal
  BY <1>1
<1>3. /\ \A e \in DealsBy(b) : ReserveTerms(D)[e] \in Nat
      /\ \A e \in DealsBy(b) : ExposureTerms(D)[e] \in Nat
      /\ \A r : \A e \in DealsBy(b) : OutcomeTerms(D, r)[e] \in Nat
  BY <1>1, <1>2, DealTermsType DEF ReserveTerms, ExposureTerms, OutcomeTerms
<1>4. /\ ReserveTerms(D)[d] <= SumFunctionOnSet(ReserveTerms(D), DealsBy(b))
      /\ ExposureTerms(D)[d] <= SumFunctionOnSet(ExposureTerms(D), DealsBy(b))
      /\ \A r : OutcomeTerms(D, r)[d] <= SumFunctionOnSet(OutcomeTerms(D, r), DealsBy(b))
  BY <1>1, <1>3, SumNat
<1>5. /\ ReserveTerms(D)[d] = ReserveOf(D[d], d)
      /\ ExposureTerms(D)[d] = ExposureOf(D[d], d)
      /\ \A r : OutcomeTerms(D, r)[d] = OneIf(D[d], r)
  BY DEF ReserveTerms, ExposureTerms, OutcomeTerms
<1>6. /\ ReserveOf(D[d], d) <= c.reserved[b]
      /\ ExposureOf(D[d], d) <= c.exposure[b]
      /\ \A r \in Credit!Outcomes : OneIf(D[d], r) <= c.counters[b][r]
  BY <1>1, <1>4, <1>5 DEF CreditBooks
<1> QED BY <1>1, <1>6 DEF b

-----------------------------------------------------------------------------
(* The amounts each call of the credit layer moves. *)

\* openDeal reserves the face value.
LEMMA OpenDealMoves ==
  ASSUME NEW c \in Credit!Storage, NEW d \in DealIds, NEW b \in Accounts, NEW face \in Nat
  PROVE  LET n == Credit!OpenDeal(c, d, b, face)
         IN  /\ \A x \in Accounts :
                  n.reserved[x] = c.reserved[x] + IF x = b THEN face ELSE 0
             /\ n.exposure = c.exposure /\ n.counters = c.counters
<1>1. \A x \in Accounts : c.reserved[x] \in Nat
  BY CreditParts
<1> DEFINE held == c.reserved[b] + face
           rec == [c.records[d] EXCEPT !.borrower = b, !.faceValue = face]
           n == [c EXCEPT !.records[d] = rec, !.reserved[b] = held]
<1>2. Credit!OpenDeal(c, d, b, face) = n
  BY DEF Credit!OpenDeal
<1> HIDE DEF rec, held
<1>3. /\ \A x \in Accounts : n.reserved[x] = IF x = b THEN held ELSE c.reserved[x]
      /\ n.exposure = c.exposure /\ n.counters = c.counters
  BY DEF Credit!Storage
<1> HIDE DEF n
<1> QED BY <1>1, <1>2, <1>3 DEF held

\* markFinanced moves the face value from reserve to exposure.
LEMMA MarkFinancedMoves ==
  ASSUME NEW c \in Credit!Storage, NEW d \in DealIds, NEW b \in Accounts,
         c.records[d].borrower = b
  PROVE  LET n == Credit!MarkFinanced(c, d)
             face == c.records[d].faceValue
         IN  /\ \A x \in Accounts :
                  /\ n.reserved[x] = IF x = b THEN Credit!SatSub(c.reserved[x], face)
                                     ELSE c.reserved[x]
                  /\ n.exposure[x] = IF x = b THEN c.exposure[x] + face ELSE c.exposure[x]
             /\ n.counters = c.counters
<1> DEFINE face == c.records[d].faceValue
           rec == [c.records[d] EXCEPT !.financed = TRUE]
           held == Credit!SatSub(c.reserved[b], face)
           owed == c.exposure[b] + face
           n == [c EXCEPT !.records[d] = rec, !.reserved[b] = held, !.exposure[b] = owed]
<1>1. Credit!MarkFinanced(c, d) = n
  BY DEF Credit!MarkFinanced
<1> HIDE DEF face, rec, held, owed
<1>2. /\ \A x \in Accounts : /\ n.reserved[x] = IF x = b THEN held ELSE c.reserved[x]
                             /\ n.exposure[x] = IF x = b THEN owed ELSE c.exposure[x]
      /\ n.counters = c.counters
  BY DEF Credit!Storage
<1> HIDE DEF n
<1> QED BY <1>1, <1>2 DEF held, owed, face

\* reduceExposure takes from one exposure.
LEMMA ReduceExposureMoves ==
  ASSUME NEW c \in Credit!Storage, NEW d \in DealIds, NEW b \in Accounts, NEW amount,
         c.records[d].borrower = b
  PROVE  LET n == Credit!ReduceExposure(c, d, amount)
         IN  /\ \A x \in Accounts :
                  n.exposure[x] = IF x = b THEN Credit!SatSub(c.exposure[x], amount)
                                  ELSE c.exposure[x]
             /\ n.reserved = c.reserved /\ n.counters = c.counters
<1> DEFINE owed == Credit!SatSub(c.exposure[b], amount)
           n == [c EXCEPT !.exposure[b] = owed]
<1>1. Credit!ReduceExposure(c, d, amount) = n
  BY DEF Credit!ReduceExposure
<1> HIDE DEF owed
<1>2. /\ \A x \in Accounts : n.exposure[x] = IF x = b THEN owed ELSE c.exposure[x]
      /\ n.reserved = c.reserved /\ n.counters = c.counters
  BY DEF Credit!Storage
<1> HIDE DEF n
<1> QED BY <1>1, <1>2 DEF owed

\* recordOutcome steps one counter down and another up.
LEMMA RecordOutcomeMoves ==
  ASSUME NEW c \in Credit!Storage, NEW d \in DealIds, NEW b \in Accounts,
         c.records[d].borrower = b, NEW r \in Credit!Outcomes, NEW height,
         c.records[d].outcome # r
  PROVE  LET n == Credit!RecordOutcome(c, d, r, height)
             previous == c.records[d].outcome
         IN  /\ n.reserved = c.reserved /\ n.exposure = c.exposure
             /\ \A x \in Accounts, q \in Credit!Outcomes :
                  n.counters[x][q] =
                    c.counters[x][q] + IF x # b THEN 0 ELSE IF q = r THEN 1
                                       ELSE IF q = previous THEN -1 ELSE 0
<1> DEFINE previous == c.records[d].outcome
           rec == [c.records[d] EXCEPT !.outcome = r, !.closedAtBlock = height]
           k == Credit!StepUp(Credit!StepDown(c.counters[b], previous), r)
           n == [c EXCEPT !.counters[b] = k, !.records[d] = rec]
<1>1. Credit!RecordOutcome(c, d, r, height) = n
  BY DEF Credit!RecordOutcome
<1>2. \A x \in Accounts : c.counters[x] \in [Credit!Outcomes -> Nat]
  BY CreditParts
<1>3. \A q \in Credit!Outcomes :
         k[q] = c.counters[b][q] + IF q = r THEN 1 ELSE IF q = previous THEN -1 ELSE 0
  <2>1. previous # r
    OBVIOUS
  <2> HIDE DEF previous
  <2> DEFINE m == c.counters[b]
             s == Credit!StepDown(m, previous)
  <2>2. m \in [Credit!Outcomes -> Nat]
    BY <1>2
  <2> HIDE DEF m
  <2>3. /\ DOMAIN s = Credit!Outcomes
        /\ \A q \in Credit!Outcomes : s[q] = IF q = previous THEN m[q] - 1 ELSE m[q]
    <3>1. CASE previous = "NONE"
      BY <2>2, <3>1 DEF Credit!StepDown, Credit!Outcomes
    <3>2. CASE previous # "NONE"
      <4>1. s = [m EXCEPT ![previous] = @ - 1]
        BY <3>2 DEF Credit!StepDown
      <4> HIDE DEF s
      <4> QED BY <2>2, <4>1
    <3> QED BY <3>1, <3>2
  <2> HIDE DEF s
  <2>4. \A q \in Credit!Outcomes :
           Credit!StepUp(s, r)[q] = IF q = r THEN s[q] + 1 ELSE s[q]
    BY <2>3 DEF Credit!StepUp
  <2>5. \A q \in Credit!Outcomes :
           Credit!StepUp(s, r)[q] = m[q] + IF q = r THEN 1 ELSE IF q = previous THEN -1 ELSE 0
    BY <2>1, <2>2, <2>3, <2>4
  <2> QED BY <2>5 DEF m, s
<1> HIDE DEF previous, rec, k
<1>4. /\ n.reserved = c.reserved /\ n.exposure = c.exposure
      /\ \A x \in Accounts : n.counters[x] = IF x = b THEN k ELSE c.counters[x]
  BY DEF Credit!Storage
<1> HIDE DEF n
<1>5. \A x \in Accounts, q \in Credit!Outcomes :
         n.counters[x][q] = c.counters[x][q] + IF x # b THEN 0 ELSE IF q = r THEN 1
                                               ELSE IF q = previous THEN -1 ELSE 0
  BY <1>2, <1>3, <1>4
<1> QED BY <1>1, <1>4, <1>5 DEF previous

-----------------------------------------------------------------------------
(* Applying one fact to a world whose books are in order: the credit layer   *)
(* accepts every call, and the books stay in order.                          *)

\* The record of an open deal, as DealOK gives it.
LEMMA OpenRecord ==
  ASSUME NEW c \in Credit!Storage, NEW deal \in Deal, NEW d \in DealIds,
         RecordAgrees(deal, c.records[d], d), deal.status # "NONE"
  PROVE  LET b == d.terms.borrower
         IN  /\ b \in Accounts /\ c.records[d].borrower = b /\ Credit!IsOpen(c, d)
             /\ c.records[d].faceValue = d.terms.faceValue
             /\ c.records[d].financed <=> Financed(deal)
             /\ c.records[d].outcome = OutcomeOf(deal.status)
<1>1. d.terms.borrower \in Accounts /\ NoAccount \notin Accounts
  BY DealIdParts, DealsConstants
<1> QED BY <1>1 DEF RecordAgrees, Credit!IsOpen

\* A funding moves the credit layer only if it crosses the threshold.
LEMMA CountFundingCredit ==
  ASSUME NEW w \in Worlds, NEW f \in Facts
  PROVE  LET n == CountFunding(w, f)
             d == f.dealId
             crosses == Crosses(w.deals[d], d.terms.requiredFunding, f.amount)
         IN  /\ ~crosses => n.credit = w.credit /\ n.reverted = w.reverted
             /\ crosses /\ Credit!MayMarkFinanced(w.credit, d) =>
                  n.credit = Credit!MarkFinanced(w.credit, d) /\ n.reverted = w.reverted
<1> DEFINE d == f.dealId
           crosses == Crosses(w.deals[d], d.terms.requiredFunding, f.amount)
           x == Funded(w.deals[d], d, f)
           m == [Decide(w, f, "APPLIED", "NONE") EXCEPT !.deals[d] = x]
           may == Credit!MayMarkFinanced(w.credit, d)
           c == Credit!MarkFinanced(w.credit, d)
<1>1. d \in DealIds /\ x \in Deal
  BY WorldParts, FactParts, FundedType
<1> HIDE DEF x
<1>2. /\ m \in Worlds
      /\ m.credit = w.credit /\ m.reverted = w.reverted
      /\ m.applications = [w.applications EXCEPT ![f] = Applied]
      /\ m.deals = [w.deals EXCEPT ![d] = x]
  BY <1>1, CountedEffect
<1>3. CountFunding(w, f) = IF crosses THEN CallCredit(m, may, c) ELSE m
  BY DEF CountFunding, Funded, x
<1> HIDE DEF m, may, c, crosses
<1>4. ASSUME may
      PROVE  LET n == CallCredit(m, may, c) IN n.credit = c /\ n.reverted = m.reverted
  <2>1. CallCredit(m, may, c) = [m EXCEPT !.credit = c]
    BY <1>4 DEF CallCredit
  <2> QED BY <1>2, <2>1 DEF Worlds
<1> QED BY <1>2, <1>3, <1>4 DEF may, c, crosses

\* What applying a fact adds to the totals of its deal, and of every other.
LEMMA AppliedTerms ==
  ASSUME NEW A \in [Facts -> Application], NEW f \in Facts
  PROVE  LET B == [A EXCEPT ![f] = Applied]
         IN  \A d \in DealIds :
               /\ FundingOne(B, f, d) =
                    IF d = f.dealId /\ f.kind = "FUNDING" THEN f.amount ELSE 0
               /\ RepaymentOne(B, f, d) =
                    IF d = f.dealId /\ f.kind = "REPAYMENT" THEN f.amount ELSE 0
               /\ TimelyOne(B, f, d) =
                    IF d = f.dealId /\ f.kind = "REPAYMENT" /\ f.blockHeight <= d.terms.dueBlock
                    THEN f.amount ELSE 0
<1> DEFINE B == [A EXCEPT ![f] = Applied]
<1>1. IsApplied(B, f)
  BY DEF IsApplied, Applied
<1> HIDE DEF B
<1>2. \A d \in DealIds :
         /\ FundingOne(B, f, d) =
              IF d = f.dealId /\ f.kind = "FUNDING" THEN f.amount ELSE 0
         /\ RepaymentOne(B, f, d) =
              IF d = f.dealId /\ f.kind = "REPAYMENT" THEN f.amount ELSE 0
         /\ TimelyOne(B, f, d) =
              IF d = f.dealId /\ f.kind = "REPAYMENT" /\ f.blockHeight <= d.terms.dueBlock
              THEN f.amount ELSE 0
  BY <1>1 DEF FundingOne, RepaymentOne, TimelyOne
<1> QED BY <1>2 DEF B

\* _applyFunding, past its checks.
LEMMA CountFundingBooks ==
  ASSUME NEW w \in Worlds, ~w.reverted, Books(w), NEW f \in Facts, f.kind = "FUNDING",
         w.applications[f].state # "APPLIED",
         DealOK(w.deals[f.dealId], w.credit.records[f.dealId], f.dealId),
         w.deals[f.dealId].status # "NONE"
  PROVE  LET n == CountFunding(w, f) IN ~n.reverted /\ Books(n)
<1> DEFINE d == f.dealId
           deal == w.deals[d]
           x == Funded(deal, d, f)
           n == CountFunding(w, f)
           crosses == Crosses(deal, d.terms.requiredFunding, f.amount)
           B == [w.applications EXCEPT ![f] = Applied]
<1>1. /\ d \in DealIds /\ deal \in Deal /\ w.deals \in [DealIds -> Deal]
      /\ w.credit \in Credit!Storage /\ w.applications \in [Facts -> Application]
  BY WorldParts, FactParts
<1>2. n.applications = B /\ n.deals = [w.deals EXCEPT ![d] = x]
  BY CountFundingEffect
<1>3. /\ x \in Deal
      /\ x.fundedAmount = deal.fundedAmount + f.amount
      /\ x.status = IF crosses THEN "FINANCED" ELSE deal.status
      /\ x.repaidAmount = deal.repaidAmount /\ x.onTimeRepaid = deal.onTimeRepaid
  BY <1>1, FundedType
<1>4. \A e \in DealIds :
         /\ FundingOne(B, f, e) = IF e = d THEN f.amount ELSE 0
         /\ RepaymentOne(B, f, e) = 0 /\ TimelyOne(B, f, e) = 0
  BY <1>1, AppliedTerms
<1>5. /\ deal.fundedAmount \in Nat /\ deal.repaidAmount \in Nat /\ deal.onTimeRepaid \in Nat
      /\ f.amount \in Nat /\ d.terms.requiredFunding \in Nat /\ d.terms.faceValue \in Nat
  BY <1>1, FactParts, DealIdParts DEF Deal
<1>6. crosses => deal.status = "CREATED" /\ deal.repaidAmount = 0
  BY <1>5 DEF DealOK, TotalsAgree, Financed, Crosses
<1>7. Financed(deal) => Financed(x)
  BY <1>3 DEF Financed
<1>8. /\ ~crosses => n.credit = w.credit /\ n.reverted = w.reverted
      /\ crosses /\ Credit!MayMarkFinanced(w.credit, d) =>
           n.credit = Credit!MarkFinanced(w.credit, d) /\ n.reverted = w.reverted
  BY CountFundingCredit
<1>9. LET b == d.terms.borrower
      IN  /\ b \in Accounts /\ w.credit.records[d].borrower = b /\ Credit!IsOpen(w.credit, d)
          /\ w.credit.records[d].faceValue = d.terms.faceValue
          /\ w.credit.records[d].financed <=> Financed(deal)
  BY <1>1, OpenRecord DEF DealOK
<1>10. FactBooks(w.applications, w.deals) /\ CreditBooks(w.credit, w.deals)
       /\ RepaymentsFinanced(w.applications, w.deals)
  BY DEF Books
<1>11. deal = w.deals[d] /\ w.applications[f].state # "APPLIED" /\ ~w.reverted
       /\ deal.status # "NONE"
  OBVIOUS
<1> HIDE DEF deal, x, n, crosses
<1>12. FactBooks(B, n.deals)
  <2>1. \A e \in DealIds :
           /\ n.deals[e].fundedAmount = w.deals[e].fundedAmount + FundingOne(B, f, e)
           /\ n.deals[e].repaidAmount = w.deals[e].repaidAmount + RepaymentOne(B, f, e)
           /\ n.deals[e].onTimeRepaid = w.deals[e].onTimeRepaid + TimelyOne(B, f, e)
    <3> HIDE DEF B, d
    <3>1. \A e \in DealIds : /\ w.deals[e].fundedAmount \in Nat
                             /\ w.deals[e].repaidAmount \in Nat
                             /\ w.deals[e].onTimeRepaid \in Nat
      BY <1>1 DEF Deal
    <3>2. \A e \in DealIds : n.deals[e] = IF e = d THEN x ELSE w.deals[e]
      BY <1>1, <1>2
    <3> QED BY <1>3, <1>4, <1>5, <1>11, <3>1, <3>2
  <2> DEFINE E == n.deals
             D == w.deals
             A == w.applications
  <2>2. FactBooks(A, D) /\ DecidedNext(A, B, f)
    BY <1>1, <1>10, <1>11 DEF DecidedNext, IsApplied
  <2>3. FactAdded(D, E, B, f)
    BY <2>1 DEF FactAdded
  <2> HIDE DEF E, D, A, B
  <2>4. FactBooks(B, E)
    BY <2>2, <2>3, FactsFollow
  <2> QED BY <2>4 DEF E
<1>13. RepaymentsFinanced(B, n.deals)
  <2> SUFFICES ASSUME NEW g \in Facts, IsApplied(B, g), g.kind = "REPAYMENT"
               PROVE  Financed(n.deals[g.dealId])
    BY DEF RepaymentsFinanced
  <2>1. g # f /\ IsApplied(w.applications, g)
    BY <1>1 DEF IsApplied
  <2>2. Financed(w.deals[g.dealId]) /\ g.dealId \in DealIds
    BY <1>10, <2>1, FactParts DEF RepaymentsFinanced
  <2> QED BY <1>1, <1>2, <1>7, <1>11, <2>2
<1>14. ~n.reverted /\ CreditBooks(n.credit, n.deals)
  <2> SUFFICES ~n.reverted /\ Follow(w.credit, n.credit, d, deal, x)
    BY <1>1, <1>2, <1>3, <1>10, <1>11, CreditFollows
  <2>1. CASE ~crosses
    <3>1. /\ ReserveOf(x, d) = ReserveOf(deal, d) /\ ExposureOf(x, d) = ExposureOf(deal, d)
          /\ \A r : OneIf(x, r) = OneIf(deal, r)
      BY <1>3, <2>1 DEF ReserveOf, ExposureOf, OneIf, Financed
    <3>2. /\ ReserveOf(deal, d) \in Nat /\ ExposureOf(deal, d) \in Nat
          /\ \A r : OneIf(deal, r) \in Nat
      BY <1>1, DealTermsType
    <3>3. \A b \in Accounts : /\ w.credit.reserved[b] \in Nat /\ w.credit.exposure[b] \in Nat
                              /\ w.credit.counters[b] \in [Credit!Outcomes -> Nat]
      BY <1>1, CreditParts
    <3> QED BY <1>8, <1>11, <2>1, <3>1, <3>2, <3>3 DEF Follow
  <2>2. CASE crosses
    <3> DEFINE b == d.terms.borrower
               face == d.terms.faceValue
    <3>1. Credit!MayMarkFinanced(w.credit, d)
      BY <1>6, <1>9, <2>2 DEF Credit!MayMarkFinanced, Financed
    <3>2. n.credit = Credit!MarkFinanced(w.credit, d) /\ ~n.reverted
      BY <1>8, <1>11, <2>2, <3>1
    <3>3. /\ \A y \in Accounts :
               /\ n.credit.reserved[y] = IF y = b THEN Credit!SatSub(w.credit.reserved[y], face)
                                         ELSE w.credit.reserved[y]
               /\ n.credit.exposure[y] = IF y = b THEN w.credit.exposure[y] + face
                                         ELSE w.credit.exposure[y]
          /\ n.credit.counters = w.credit.counters
      BY <1>1, <1>9, <3>2, MarkFinancedMoves
    <3>4. /\ ReserveOf(deal, d) = face /\ ReserveOf(x, d) = 0
          /\ ExposureOf(deal, d) = 0 /\ ExposureOf(x, d) = face
          /\ \A r \in Credit!Outcomes : OneIf(deal, r) = 0 /\ OneIf(x, r) = 0
      BY <1>3, <1>5, <1>6, <2>2
         DEF ReserveOf, ExposureOf, OneIf, Financed, Outstanding, Credit!SatSub,
             Credit!Outcomes, Credit!Results
    <3>5. face <= w.credit.reserved[b]
      BY <1>1, <1>10, <1>11, <3>4, BooksCover
    <3>6. \A y \in Accounts : /\ w.credit.reserved[y] \in Nat /\ w.credit.exposure[y] \in Nat
                              /\ w.credit.counters[y] \in [Credit!Outcomes -> Nat]
      BY <1>1, CreditParts
    <3>7. \A y \in Accounts :
             /\ n.credit.reserved[y] = w.credit.reserved[y] + IF b = y THEN 0 - face ELSE 0
             /\ n.credit.exposure[y] = w.credit.exposure[y] + IF b = y THEN face - 0 ELSE 0
             /\ \A r \in Credit!Outcomes :
                  n.credit.counters[y][r] = w.credit.counters[y][r] + IF b = y THEN 0 - 0 ELSE 0
      BY <1>5, <3>3, <3>5, <3>6 DEF Credit!SatSub
    <3> QED BY <3>2, <3>4, <3>7 DEF Follow
  <2> QED BY <2>1, <2>2
<1> QED BY <1>2, <1>12, <1>13, <1>14 DEF Books, n

\* A repayment takes from the exposure only what was outstanding.
LEMMA CountRepaymentCredit ==
  ASSUME NEW w \in Worlds, NEW f \in Facts
  PROVE  LET n == CountRepayment(w, f)
             d == f.dealId
             retired == Outstanding(d, w.deals[d].repaidAmount)
                          - Outstanding(d, w.deals[d].repaidAmount + f.amount)
         IN  /\ ~(retired > 0) => n.credit = w.credit /\ n.reverted = w.reverted
             /\ retired > 0 /\ Credit!MayReduceExposure(w.credit, d) =>
                  n.credit = Credit!ReduceExposure(w.credit, d, retired) /\ n.reverted = w.reverted
<1> DEFINE d == f.dealId
           retired == Outstanding(d, w.deals[d].repaidAmount)
                        - Outstanding(d, w.deals[d].repaidAmount + f.amount)
           x == Repaid(w.deals[d], d, f)
           m == [Decide(w, f, "APPLIED", "NONE") EXCEPT !.deals[d] = x]
           may == Credit!MayReduceExposure(w.credit, d)
           c == Credit!ReduceExposure(w.credit, d, retired)
<1>1. d \in DealIds /\ x \in Deal
  BY WorldParts, FactParts, RepaidType
<1> HIDE DEF x, retired
<1>2. /\ m \in Worlds
      /\ m.credit = w.credit /\ m.reverted = w.reverted
      /\ m.applications = [w.applications EXCEPT ![f] = Applied]
      /\ m.deals = [w.deals EXCEPT ![d] = x]
  BY <1>1, CountedEffect
<1>3. CountRepayment(w, f) = IF retired > 0 THEN CallCredit(m, may, c) ELSE m
  BY DEF CountRepayment, Repaid, x, retired
<1> HIDE DEF m, may, c
<1>4. ASSUME may
      PROVE  LET n == CallCredit(m, may, c) IN n.credit = c /\ n.reverted = m.reverted
  <2>1. CallCredit(m, may, c) = [m EXCEPT !.credit = c]
    BY <1>4 DEF CallCredit
  <2> QED BY <1>2, <2>1 DEF Worlds
<1> QED BY <1>2, <1>3, <1>4 DEF may, c, retired

\* A repayment within the face value lowers what is outstanding by the amount,
\* beyond it by what was left.
LEMMA RetiredBounds ==
  ASSUME NEW d \in DealIds, NEW repaid \in Nat, NEW amount \in Nat
  PROVE  LET before == Outstanding(d, repaid)
             left == Outstanding(d, repaid + amount)
         IN  before \in Nat /\ left \in Nat /\ left <= before
BY DealIdParts DEF Outstanding, Credit!SatSub

\* _applyRepayment before _settle.
LEMMA CountRepaymentBooks ==
  ASSUME NEW w \in Worlds, ~w.reverted, Books(w), NEW f \in Facts, f.kind = "REPAYMENT",
         w.applications[f].state # "APPLIED",
         DealOK(w.deals[f.dealId], w.credit.records[f.dealId], f.dealId),
         Financed(w.deals[f.dealId])
  PROVE  LET n == CountRepayment(w, f) IN ~n.reverted /\ Books(n)
<1> DEFINE d == f.dealId
           deal == w.deals[d]
           x == Repaid(deal, d, f)
           n == CountRepayment(w, f)
           before == Outstanding(d, deal.repaidAmount)
           left == Outstanding(d, deal.repaidAmount + f.amount)
           B == [w.applications EXCEPT ![f] = Applied]
<1>1. /\ d \in DealIds /\ deal \in Deal /\ w.deals \in [DealIds -> Deal]
      /\ w.credit \in Credit!Storage /\ w.applications \in [Facts -> Application]
  BY WorldParts, FactParts
<1>2. n.applications = B /\ n.deals = [w.deals EXCEPT ![d] = x]
  BY CountRepaymentEffect
<1>3. /\ x \in Deal
      /\ x.repaidAmount = deal.repaidAmount + f.amount
      /\ x.onTimeRepaid = IF f.blockHeight <= d.terms.dueBlock
                          THEN deal.onTimeRepaid + f.amount ELSE deal.onTimeRepaid
      /\ x.status = deal.status /\ x.fundedAmount = deal.fundedAmount
  <2>1. /\ x \in Deal
        /\ x.repaidAmount = deal.repaidAmount + f.amount
        /\ x.status = deal.status /\ x.fundedAmount = deal.fundedAmount
    BY <1>1, RepaidType
  <2>2. x.onTimeRepaid = IF f.blockHeight <= d.terms.dueBlock
                         THEN deal.onTimeRepaid + f.amount ELSE deal.onTimeRepaid
    BY <1>1 DEF Repaid, Deal
  <2> QED BY <2>1, <2>2
<1>4. \A e \in DealIds :
         /\ FundingOne(B, f, e) = 0
         /\ RepaymentOne(B, f, e) = IF e = d THEN f.amount ELSE 0
         /\ TimelyOne(B, f, e) = IF e = d /\ f.blockHeight <= d.terms.dueBlock
                                 THEN f.amount ELSE 0
  BY <1>1, AppliedTerms
<1>5. /\ deal.fundedAmount \in Nat /\ deal.repaidAmount \in Nat /\ deal.onTimeRepaid \in Nat
      /\ f.amount \in Nat
  BY <1>1, FactParts DEF Deal
<1>6. before \in Nat /\ left \in Nat /\ left <= before
  BY <1>1, <1>5, RetiredBounds
<1>7. /\ ~(before - left > 0) => n.credit = w.credit /\ n.reverted = w.reverted
      /\ before - left > 0 /\ Credit!MayReduceExposure(w.credit, d) =>
           n.credit = Credit!ReduceExposure(w.credit, d, before - left)
             /\ n.reverted = w.reverted
  BY CountRepaymentCredit
<1>8. LET b == d.terms.borrower
      IN  b \in Accounts /\ w.credit.records[d].borrower = b /\ Credit!IsOpen(w.credit, d)
  BY <1>1, OpenRecord DEF DealOK, Financed
<1>9. FactBooks(w.applications, w.deals) /\ CreditBooks(w.credit, w.deals)
       /\ RepaymentsFinanced(w.applications, w.deals)
  BY DEF Books
<1>10. /\ deal = w.deals[d] /\ w.applications[f].state # "APPLIED" /\ ~w.reverted
       /\ Financed(deal) /\ Financed(x)
  BY <1>3 DEF Financed
<1>11. /\ ReserveOf(x, d) = 0 /\ ReserveOf(deal, d) = 0
       /\ ExposureOf(x, d) = left /\ ExposureOf(deal, d) = before
       /\ \A r : OneIf(x, r) = OneIf(deal, r) /\ OneIf(deal, r) \in Nat
  BY <1>3, <1>10 DEF ReserveOf, ExposureOf, OneIf, Financed
<1> HIDE DEF deal, x, n, before, left
<1>12. FactBooks(B, n.deals)
  <2> DEFINE E == n.deals
             D == w.deals
             A == w.applications
  <2>1. FactAdded(D, E, B, f)
    <3> HIDE DEF B, d
    <3>1. \A e \in DealIds : /\ w.deals[e].fundedAmount \in Nat
                             /\ w.deals[e].repaidAmount \in Nat
                             /\ w.deals[e].onTimeRepaid \in Nat
      BY <1>1 DEF Deal
    <3>2. \A e \in DealIds : n.deals[e] = IF e = d THEN x ELSE w.deals[e]
      BY <1>1, <1>2
    <3> QED BY <1>3, <1>4, <1>5, <1>10, <3>1, <3>2 DEF FactAdded
  <2>2. FactBooks(A, D) /\ DecidedNext(A, B, f)
    BY <1>1, <1>9, <1>10 DEF DecidedNext, IsApplied
  <2> HIDE DEF E, D, A, B
  <2>3. FactBooks(B, E)
    BY <2>1, <2>2, FactsFollow
  <2> QED BY <2>3 DEF E
<1>13. RepaymentsFinanced(B, n.deals)
  <2> SUFFICES ASSUME NEW g \in Facts, IsApplied(B, g), g.kind = "REPAYMENT"
               PROVE  Financed(n.deals[g.dealId])
    BY DEF RepaymentsFinanced
  <2>1. g = f \/ IsApplied(w.applications, g)
    BY <1>1 DEF IsApplied
  <2>2. (g # f => Financed(w.deals[g.dealId])) /\ g.dealId \in DealIds
    BY <1>9, <2>1, FactParts DEF RepaymentsFinanced
  <2> QED BY <1>1, <1>2, <1>10, <2>2
<1>14. ~n.reverted /\ CreditBooks(n.credit, n.deals)
  <2> SUFFICES ~n.reverted /\ Follow(w.credit, n.credit, d, deal, x)
    BY <1>1, <1>2, <1>3, <1>9, <1>10, CreditFollows
  <2> DEFINE b == d.terms.borrower
  <2>1. \A y \in Accounts : /\ w.credit.reserved[y] \in Nat /\ w.credit.exposure[y] \in Nat
                            /\ w.credit.counters[y] \in [Credit!Outcomes -> Nat]
    BY <1>1, CreditParts
  <2>2. before <= w.credit.exposure[b]
    BY <1>1, <1>9, <1>10, <1>11, BooksCover
  <2>3. /\ ~n.reverted
        /\ \A y \in Accounts :
             n.credit.exposure[y] = w.credit.exposure[y] + IF b = y THEN left - before ELSE 0
        /\ n.credit.reserved = w.credit.reserved /\ n.credit.counters = w.credit.counters
    <3>1. CASE ~(before - left > 0)
      BY <1>6, <1>7, <1>10, <2>1, <3>1
    <3>2. CASE before - left > 0
      <4>1. n.credit = Credit!ReduceExposure(w.credit, d, before - left) /\ ~n.reverted
        BY <1>7, <1>8, <1>10, <3>2 DEF Credit!MayReduceExposure
      <4>2. /\ \A y \in Accounts :
                 n.credit.exposure[y] = IF y = b THEN Credit!SatSub(w.credit.exposure[y], before - left)
                                        ELSE w.credit.exposure[y]
            /\ n.credit.reserved = w.credit.reserved /\ n.credit.counters = w.credit.counters
        BY <1>1, <1>8, <4>1, ReduceExposureMoves
      <4> QED BY <1>6, <2>1, <2>2, <4>1, <4>2 DEF Credit!SatSub
    <3> QED BY <3>1, <3>2
  <2> QED BY <1>6, <1>11, <2>1, <2>3 DEF Follow
<1> QED BY <1>2, <1>12, <1>13, <1>14 DEF Books, n

\* The credit layer accepts an outcome the registry has not recorded: the
\* counter of the previous one holds at least this deal.
LEMMA RecordStatusBooks ==
  ASSUME NEW w \in Worlds, ~w.reverted, Books(w), NEW d \in DealIds,
         NEW r \in Credit!Outcomes, w.deals[d].status # r,
         Financed(w.deals[d]), RecordAgrees(w.deals[d], w.credit.records[d], d),
         attested \in 0..MaxHeight
  PROVE  LET n == RecordOutcome([w EXCEPT !.deals[d].status = r], d, r)
         IN  ~n.reverted /\ Books(n)
<1> DEFINE deal == w.deals[d]
           x == [deal EXCEPT !.status = r]
           m == [w EXCEPT !.deals[d] = x]
           n == RecordOutcome([w EXCEPT !.deals[d].status = r], d, r)
           may == Credit!MayRecordOutcome(w.credit, d, r, attested)
           c == Credit!RecordOutcome(w.credit, d, r, attested)
           b == d.terms.borrower
           previous == w.credit.records[d].outcome
<1>1. /\ deal \in Deal /\ w.deals \in [DealIds -> Deal] /\ w.credit \in Credit!Storage
      /\ attested \in (0..MaxHeight) \cup {Credit!NoHeight} /\ attested # Credit!NoHeight
  BY WorldParts, DealsConstants DEF Credit!NoHeight
<1>2. /\ x \in Deal /\ x.status = r /\ x.repaidAmount = deal.repaidAmount
      /\ x.fundedAmount = deal.fundedAmount /\ x.onTimeRepaid = deal.onTimeRepaid
  BY <1>1 DEF Deal, Statuses, Credit!Outcomes, Credit!Results
<1>3. n.applications = w.applications /\ n.deals = [w.deals EXCEPT ![d] = x]
  <2>1. /\ n \in Worlds
        /\ n.applications = w.applications
        /\ n.deals = [w.deals EXCEPT ![d] = [@ EXCEPT !.status = r]]
        /\ ~n.reverted =>
             /\ ~w.reverted
             /\ n.credit.records =
                  IF w.credit.records[d].outcome = r THEN w.credit.records
                  ELSE [w.credit.records EXCEPT ![d] = Concluded(@, r, attested)]
    BY <1>1, RecordStatusEffect
  <2> HIDE DEF n
  <2> QED BY <2>1
<1>4. FactBooks(w.applications, w.deals) /\ CreditBooks(w.credit, w.deals)
      /\ RepaymentsFinanced(w.applications, w.deals)
  BY DEF Books
<1>5. /\ b \in Accounts /\ w.credit.records[d].borrower = b /\ Credit!IsOpen(w.credit, d)
      /\ previous = OutcomeOf(deal.status)
  BY <1>1, OpenRecord DEF Financed
<1>6. previous # r /\ (previous # "NONE" => previous = deal.status /\ previous \in Credit!Outcomes)
  BY <1>5 DEF OutcomeOf, Credit!Outcomes
<1>7. Financed(x) /\ Financed(deal)
  BY <1>2 DEF Financed, Credit!Outcomes, Credit!Results
<1>8. \A y \in Accounts : /\ w.credit.reserved[y] \in Nat /\ w.credit.exposure[y] \in Nat
                          /\ w.credit.counters[y] \in [Credit!Outcomes -> Nat]
  BY <1>1, CreditParts
<1>9. previous # "NONE" => w.credit.counters[b][previous] > 0
  <2>1. \A q \in Credit!Outcomes : OneIf(deal, q) <= w.credit.counters[b][q]
    BY <1>1, <1>4, BooksCover
  <2> QED BY <1>5, <1>6, <1>8, <2>1 DEF OneIf
<1>10. may
  BY <1>1, <1>5, <1>9 DEF Credit!MayRecordOutcome, Credit!Outcomes
<1>11. n.credit = c /\ ~n.reverted
  <2>1. [w EXCEPT !.deals[d].status = r] = m /\ m.credit = w.credit
    BY DEF Worlds
  <2>2. n = CallCredit(m, may, c)
    BY <2>1 DEF RecordOutcome
  <2> HIDE DEF may, c, x
  <2>3. n = [m EXCEPT !.credit = c]
    BY <1>10, <2>2 DEF CallCredit
  <2> HIDE DEF n
  <2> QED BY <2>3 DEF Worlds
<1>12. /\ n.credit.reserved = w.credit.reserved /\ n.credit.exposure = w.credit.exposure
       /\ \A y \in Accounts, q \in Credit!Outcomes :
            n.credit.counters[y][q] =
              w.credit.counters[y][q] + IF y # b THEN 0 ELSE IF q = r THEN 1
                                        ELSE IF q = previous THEN -1 ELSE 0
  <2> HIDE DEF n, previous, b
  <2>1. LET k == Credit!RecordOutcome(w.credit, d, r, attested)
        IN  /\ k.reserved = w.credit.reserved /\ k.exposure = w.credit.exposure
            /\ \A y \in Accounts, q \in Credit!Outcomes :
                 k.counters[y][q] =
                   w.credit.counters[y][q] + IF y # b THEN 0 ELSE IF q = r THEN 1
                                             ELSE IF q = previous THEN -1 ELSE 0
    BY <1>1, <1>5, <1>6, RecordOutcomeMoves DEF previous
  <2> QED BY <1>11, <2>1
<1>13. /\ ReserveOf(x, d) = 0 /\ ReserveOf(deal, d) = 0
       /\ ExposureOf(x, d) = ExposureOf(deal, d) /\ ExposureOf(deal, d) \in Nat
       /\ \A q \in Credit!Outcomes :
            OneIf(x, q) - OneIf(deal, q) = IF q = r THEN 1 ELSE IF q = previous THEN -1 ELSE 0
  <2>1. ReserveOf(x, d) = 0 /\ ReserveOf(deal, d) = 0
    BY <1>7 DEF ReserveOf, Financed
  <2>2. ExposureOf(x, d) = ExposureOf(deal, d) /\ ExposureOf(deal, d) \in Nat
    BY <1>1, <1>2, <1>7, DealTermsType DEF ExposureOf
  <2>3. ASSUME NEW q \in Credit!Outcomes
        PROVE  OneIf(x, q) - OneIf(deal, q) = IF q = r THEN 1 ELSE IF q = previous THEN -1 ELSE 0
    <3>1. q = deal.status <=> q = previous
      BY <1>5, <2>3 DEF OutcomeOf, Credit!Outcomes
    <3>2. deal.status # r
      OBVIOUS
    <3> HIDE DEF x, deal, previous
    <3> QED BY <1>2, <3>1, <3>2 DEF OneIf
  <2> QED BY <2>1, <2>2, <2>3
<1>14. deal = w.deals[d]
  OBVIOUS
<1> HIDE DEF deal, x, n, previous
<1>15. CreditBooks(n.credit, n.deals)
  <2>1. Follow(w.credit, n.credit, d, deal, x)
    BY <1>8, <1>12, <1>13 DEF Follow
  <2> QED BY <1>1, <1>2, <1>3, <1>4, <1>14, <2>1, CreditFollows
<1>16. FactBooks(n.applications, n.deals)
  BY <1>1, <1>2, <1>3, <1>4, <1>14 DEF FactBooks
<1>17. RepaymentsFinanced(n.applications, n.deals)
  BY <1>1, <1>3, <1>4, <1>7, <1>14, FactParts DEF RepaymentsFinanced
<1> QED BY <1>11, <1>15, <1>16, <1>17 DEF Books, n

\* _settle never reverts either.
LEMMA SettleBooks ==
  ASSUME NEW w \in Worlds, ~w.reverted, Books(w), NEW d \in DealIds,
         Financed(w.deals[d]), RecordAgrees(w.deals[d], w.credit.records[d], d),
         attested \in 0..MaxHeight
  PROVE  LET n == Settle(w, d) IN ~n.reverted /\ Books(n)
<1> DEFINE r == Derived(w.deals[d], d)
           closed == RecordOutcome([w EXCEPT !.deals[d].status = r], d, r)
<1>1. r \in Credit!Outcomes
  BY DEF Derived, Credit!Outcomes, Credit!Results
<1>2. Settle(w, d) = IF Closes(w.deals[d], d) THEN closed ELSE w
  <2>1. w.deals[d].onTimeRepaid \in Nat /\ w.deals[d].repaidAmount \in Nat
        /\ d.terms.faceValue \in Nat
    BY WorldParts, DealIdParts DEF Deal
  <2>2. Closes(w.deals[d], d) <=>
          ~ (\/ w.deals[d].status \in {"PAID_ON_TIME", r}
             \/ /\ w.deals[d].onTimeRepaid < d.terms.faceValue
                /\ w.deals[d].repaidAmount < d.terms.faceValue)
    BY <2>1 DEF Closes
  <2> QED BY <2>2, Zenon DEF Settle, Derived
<1>3. CASE Closes(w.deals[d], d)
  <2>1. w.deals[d].status # r
    BY <1>3 DEF Closes
  <2> HIDE DEF r
  <2>2. ~closed.reverted /\ Books(closed)
    BY <1>1, <2>1, RecordStatusBooks
  <2> HIDE DEF closed
  <2> QED BY <1>2, <1>3, <2>2
<1>4. CASE ~Closes(w.deals[d], d)
  <2> HIDE DEF closed
  <2> QED BY <1>2, <1>4
<1> QED BY <1>3, <1>4

\* A refusal moves no amount.
LEMMA RejectBooks ==
  ASSUME NEW w \in Worlds, Books(w), NEW f \in Facts, w.applications[f].state # "APPLIED",
         NEW n, NEW reason, RejectedAs(w, n, f, reason)
  PROVE  Books(n)
<1> DEFINE A == w.applications
           B == n.applications
           D == w.deals
<1>1. /\ n.deals = D /\ n.credit = w.credit
      /\ B = [A EXCEPT ![f] = [state |-> "REJECTED_PERMANENT", reason |-> reason]]
      /\ A \in [Facts -> Application]
  BY WorldParts DEF RejectedAs
<1>2. FactBooks(A, D) /\ CreditBooks(w.credit, D) /\ RepaymentsFinanced(A, D)
  BY DEF Books
<1>3. D \in [DealIds -> Deal] /\ A[f].state # "APPLIED"
  BY WorldParts
<1> HIDE DEF A, B, D
<1>4. ~IsApplied(B, f) /\ DecidedNext(A, B, f)
  BY <1>1, <1>3 DEF IsApplied, DecidedNext
<1>5. FactAdded(D, D, B, f)
  <2>1. \A d \in DealIds : /\ D[d].fundedAmount \in Nat
                           /\ D[d].repaidAmount \in Nat
                           /\ D[d].onTimeRepaid \in Nat
    BY <1>3 DEF Deal
  <2> QED BY <1>4, <2>1 DEF FactAdded, FundingOne, RepaymentOne, TimelyOne
<1>6. FactBooks(B, D)
  BY <1>2, <1>4, <1>5, FactsFollow
<1>7. RepaymentsFinanced(B, D)
  BY <1>2, <1>4 DEF RepaymentsFinanced, DecidedNext, IsApplied
<1> QED BY <1>1, <1>2, <1>6, <1>7 DEF Books, B

\* The statuses under which a fact waits; one with a mismatch waits only for its deal.
MayWait(f, status) ==
    \/ status = "NONE"
    \/ f.kind = "REPAYMENT" /\ status = "CREATED" /\ Mismatch(f) = "NONE"

\* What _applyFunding and _applyRepayment do with a fact, in four outcomes.
LEMMA ClassifyCases ==
  ASSUME NEW w, NEW f \in Facts, ~w.reverted
  PROVE  LET n == Classify(w, f)
             d == f.dealId
         IN  \/ n = w /\ MayWait(f, w.deals[d].status)
             \/ \E reason \in {"WRONG_INVESTOR", "WRONG_RECIPIENT"} : n = Reject(w, f, reason)
             \/ f.kind = "FUNDING" /\ w.deals[d].status # "NONE" /\ n = CountFunding(w, f)
             \/ f.kind = "REPAYMENT" /\ Financed(w.deals[d])
                  /\ n = Settle(CountRepayment(w, f), d)
<1>1. f.kind \in {"FUNDING", "REPAYMENT"}
  BY FactParts
<1> DEFINE n == Classify(w, f)
           d == f.dealId
           refused == \E reason \in {"WRONG_INVESTOR", "WRONG_RECIPIENT"} : n = Reject(w, f, reason)
<1>2. CASE f.kind = "FUNDING"
  <2>1. n = ApplyFunding(w, f)
    BY <1>2 DEF Classify
  <2> HIDE DEF n
  <2>2. \/ n = w /\ w.deals[d].status = "NONE"
        \/ refused
        \/ w.deals[d].status # "NONE" /\ n = CountFunding(w, f)
    BY <2>1 DEF ApplyFunding
  <2> QED BY <1>2, <2>2 DEF MayWait, n
<1>3. CASE f.kind = "REPAYMENT"
  <2>1. n = ApplyRepayment(w, f)
    BY <1>3 DEF Classify
  <2> HIDE DEF n
  <2>2. \/ n = w /\ w.deals[d].status = "NONE"
        \/ n = w /\ w.deals[d].status = "CREATED" /\ f.recipient = d.terms.designatedInvestor
        \/ refused
        \/ Financed(w.deals[d]) /\ n = Settle(CountRepayment(w, f), d)
    BY <2>1 DEF ApplyRepayment, Financed
  <2>3. f.recipient = d.terms.designatedInvestor => Mismatch(f) = "NONE"
    BY <1>3 DEF Mismatch
  <2> QED BY <1>3, <2>2, <2>3 DEF MayWait, n
<1> QED BY <1>1, <1>2, <1>3

\* A world a transaction can reach from the deals in start, its books in order
\* and no deal put in default on the way.
Sound(F, start) ==
    {w \in Reachable(F, start) :
        /\ ~w.reverted /\ Books(w)
        /\ \A d \in DealIds : w.deals[d].status = "DEFAULTED" => start[d].status = "DEFAULTED"}

\* World n is w after fact f, which waits only where MayWait lets it.
Classified(w, n, f) ==
    /\ \A g \in Facts \ {f} : n.applications[g] = w.applications[g]
    /\ n.applications[f].state = "UNSEEN" =>
          n = w /\ MayWait(f, w.deals[f.dealId].status)
    /\ \A d \in DealIds :
          /\ n.deals[d].status = "DEFAULTED" => w.deals[d].status = "DEFAULTED"
          /\ f.kind = "REPAYMENT" /\ ~Financed(w.deals[d]) =>
                n.deals[d].status = w.deals[d].status

\* Counting a funding decides it, and puts no deal in default.
LEMMA FundingClassified ==
  ASSUME NEW w \in Worlds, NEW f \in Facts, f.kind = "FUNDING"
  PROVE  Classified(w, CountFunding(w, f), f)
<1> DEFINE n == CountFunding(w, f)
           d == f.dealId
           x == Funded(w.deals[d], d, f)
<1>1. /\ d \in DealIds /\ w.deals[d] \in Deal /\ w.deals \in [DealIds -> Deal]
      /\ w.applications \in [Facts -> Application]
  BY WorldParts, FactParts
<1>2. n.applications = [w.applications EXCEPT ![f] = Applied] /\ n.deals = [w.deals EXCEPT ![d] = x]
  BY CountFundingEffect
<1>3. x.status \in {"FINANCED", w.deals[d].status}
  BY <1>1, FundedType
<1> HIDE DEF n, d, x
<1>4. \A e \in DealIds : n.deals[e].status = "DEFAULTED" => w.deals[e].status = "DEFAULTED"
  BY <1>1, <1>2, <1>3
<1>5. n.applications[f].state # "UNSEEN" /\ \A g \in Facts \ {f} : n.applications[g] = w.applications[g]
  BY <1>1, <1>2 DEF Applied
<1> QED BY <1>4, <1>5 DEF Classified, n

\* Counting a repayment and settling decides it, and moves financed deals only.
LEMMA RepaymentClassified ==
  ASSUME NEW w \in Worlds, NEW f \in Facts, Financed(w.deals[f.dealId]),
         attested \in (0..MaxHeight) \cup {Credit!NoHeight}
  PROVE  Classified(w, Settle(CountRepayment(w, f), f.dealId), f)
<1> DEFINE m == CountRepayment(w, f)
           d == f.dealId
           n == Settle(m, d)
           x == Repaid(w.deals[d], d, f)
           r == Derived(m.deals[d], d)
<1>1. /\ d \in DealIds /\ w.deals[d] \in Deal /\ w.deals \in [DealIds -> Deal]
      /\ w.applications \in [Facts -> Application]
  BY WorldParts, FactParts
<1>2. /\ m \in Worlds
      /\ m.applications = [w.applications EXCEPT ![f] = Applied] /\ m.deals = [w.deals EXCEPT ![d] = x]
  BY CountRepaymentEffect
<1>3. x.status = w.deals[d].status /\ Financed(w.deals[d])
  BY <1>1, RepaidType
<1> HIDE DEF m, d, x
<1>4. /\ n.applications = m.applications
      /\ \/ n.deals = m.deals
         \/ n.deals = [m.deals EXCEPT ![d] = [@ EXCEPT !.status = r]]
  BY <1>1, <1>2, SettleEffect
<1>5. r # "DEFAULTED" /\ m.deals[d] \in Deal
  BY <1>1, <1>2, WorldParts DEF Derived
<1> HIDE DEF n, r
<1>6. \A e \in DealIds : n.deals[e].status =
         IF e # d \/ n.deals = m.deals THEN w.deals[e].status ELSE r
  BY <1>1, <1>2, <1>3, <1>4, <1>5 DEF Deal
<1>7. \A e \in DealIds :
         /\ n.deals[e].status = "DEFAULTED" => w.deals[e].status = "DEFAULTED"
         /\ ~Financed(w.deals[e]) => n.deals[e].status = w.deals[e].status
  BY <1>3, <1>5, <1>6
<1>8. n.applications[f].state # "UNSEEN" /\ \A g \in Facts \ {f} : n.applications[g] = w.applications[g]
  BY <1>1, <1>2, <1>4 DEF Applied
<1> QED BY <1>7, <1>8 DEF Classified, n, m, d

\* Classifying a fact that waits keeps a world sound: no history leads to one
\* where the credit layer reverts under it.
LEMMA ClassifySound ==
  ASSUME NEW F \in SUBSET Facts, NEW start \in [DealIds -> Deal],
         NEW w \in Sound(F, start), NEW f \in F, w.applications[f].state = "UNSEEN",
         attested \in 0..MaxHeight
  PROVE  LET n == Classify(w, f) IN n \in Sound(F, start) /\ Classified(w, n, f)
<1> DEFINE n == Classify(w, f)
           d == f.dealId
<1>1. /\ w \in Worlds /\ w \in Reachable(F, start) /\ ~w.reverted /\ Books(w)
      /\ f \in Facts /\ d \in DealIds /\ w.applications[f].state # "APPLIED"
      /\ \A e \in DealIds : w.deals[e].status = "DEFAULTED" => start[e].status = "DEFAULTED"
  BY FactParts DEF Sound, Reachable
<1>2. DealOK(w.deals[d], w.credit.records[d], d)
  BY <1>1 DEF Reachable
<1>3. attested \in (0..MaxHeight) \cup {Credit!NoHeight}
  OBVIOUS
<1>4. n \in Reachable(F, start)
  BY <1>1, <1>3, ClassifyReachable
<1>5. SUFFICES ~n.reverted /\ Books(n) /\ Classified(w, n, f)
  BY <1>1, <1>4 DEF Sound, Classified
<1>6. \/ n = w /\ MayWait(f, w.deals[d].status)
      \/ \E reason \in {"WRONG_INVESTOR", "WRONG_RECIPIENT"} : n = Reject(w, f, reason)
      \/ f.kind = "FUNDING" /\ w.deals[d].status # "NONE" /\ n = CountFunding(w, f)
      \/ f.kind = "REPAYMENT" /\ Financed(w.deals[d]) /\ n = Settle(CountRepayment(w, f), d)
  BY <1>1, ClassifyCases
<1> HIDE DEF n
<1>7. CASE n = w /\ MayWait(f, w.deals[d].status)
  BY <1>1, <1>7 DEF Classified
<1>8. ASSUME NEW reason \in {"WRONG_INVESTOR", "WRONG_RECIPIENT"}, n = Reject(w, f, reason)
      PROVE  ~n.reverted /\ Books(n) /\ Classified(w, n, f)
  <2>1. RejectedAs(w, n, f, reason)
    BY <1>1, <1>8, RejectEffect
  <2>2. Books(n)
    BY <1>1, <2>1, RejectBooks
  <2>3. w.applications \in [Facts -> Application]
    BY <1>1, WorldParts
  <2> QED BY <1>1, <2>1, <2>2, <2>3 DEF RejectedAs, Classified
<1>9. CASE f.kind = "FUNDING" /\ w.deals[d].status # "NONE" /\ n = CountFunding(w, f)
  BY <1>1, <1>2, <1>9, CountFundingBooks, FundingClassified
<1>10. CASE f.kind = "REPAYMENT" /\ Financed(w.deals[d]) /\ n = Settle(CountRepayment(w, f), d)
  <2> DEFINE m == CountRepayment(w, f)
  <2>1. ~m.reverted /\ Books(m)
    BY <1>1, <1>2, <1>10, CountRepaymentBooks
  <2>2. m \in Worlds /\ m.deals = [w.deals EXCEPT ![d] = Repaid(@, d, f)]
        /\ (~m.reverted => m.credit.records = w.credit.records)
    BY <1>1, CountRepaymentEffect
  <2>3. w.deals[d] \in Deal /\ w.deals \in [DealIds -> Deal]
    BY <1>1, WorldParts
  <2>4. Repaid(w.deals[d], d, f).status = w.deals[d].status
    BY <1>1, <2>3, RepaidType
  <2>5. Financed(m.deals[d]) /\ m.deals[d].status = w.deals[d].status
    <3> HIDE DEF m, d
    <3> QED BY <1>1, <1>10, <2>2, <2>3, <2>4 DEF Financed
  <2>6. RecordAgrees(m.deals[d], m.credit.records[d], d)
    BY <1>2, <2>1, <2>2, <2>5 DEF DealOK, RecordAgrees, Financed
  <2>7. Classified(w, n, f)
    BY <1>1, <1>3, <1>10, RepaymentClassified
  <2> HIDE DEF m, d
  <2>8. ~Settle(m, d).reverted /\ Books(Settle(m, d))
    BY <1>1, <2>1, <2>2, <2>5, <2>6, SettleBooks
  <2> QED BY <1>10, <2>7, <2>8 DEF m
<1> QED BY <1>6, <1>7, <1>8, <1>9, <1>10

-----------------------------------------------------------------------------
(* A submission: no fact of it makes it revert, and no fact of it waits that *)
(* could be decided.                                                         *)

\* World u, after the first i facts of one pass that began in w.
PassedTo(F, start, w, u, facts, kind, i) ==
    /\ u \in Sound(F, start)
    /\ \A g \in Facts :
          (\A j \in 1..i : ~ (facts[j] = g /\ g.kind = kind)) => u.applications[g] = w.applications[g]
    /\ \A j \in 1..i :
          facts[j].kind = kind /\ u.applications[facts[j]].state = "UNSEEN" =>
             MayWait(facts[j], u.deals[facts[j].dealId].status)

\* No fact creates a deal.
LEMMA NoneStays ==
  ASSUME NEW F, NEW start \in [DealIds -> Deal], NEW u \in Sound(F, start),
         NEW n \in Sound(F, start), NEW d \in DealIds, u.deals[d].status = "NONE"
  PROVE  n.deals[d].status = "NONE"
<1>1. /\ Rises(start[d].status, u.deals[d].status)
      /\ Rises(start[d].status, n.deals[d].status)
      /\ start[d].status \in Statuses
  BY DEF Sound, Reachable, Deal
<1>2. start[d].status = "NONE"
  BY <1>1 DEF Rises, Rank, Statuses
<1> QED BY <1>1, <1>2 DEF Rises

\* One turn of the loop.
LEMMA PassStep ==
  ASSUME NEW F \in SUBSET Facts, NEW start \in [DealIds -> Deal], NEW w, NEW u,
         NEW facts \in Seq(F), Distinct(facts), NEW kind, NEW i \in 1..Len(facts),
         facts[i].kind = kind => w.applications[facts[i]].state = "UNSEEN",
         PassedTo(F, start, w, u, facts, kind, i - 1),
         attested \in 0..MaxHeight
  PROVE  PassedTo(F, start, w, IF facts[i].kind = kind THEN Classify(u, facts[i]) ELSE u,
                  facts, kind, i)
<1> DEFINE f == facts[i]
           n == IF f.kind = kind THEN Classify(u, f) ELSE u
<1>1. /\ f \in F /\ \A j \in 1..i : facts[j] \in Facts /\ facts[j].dealId \in DealIds
      /\ \A j \in 1..(i-1) : facts[j] # f /\ j \in 1..Len(facts) /\ j \in 1..i
      /\ \A j \in 1..i : j = i \/ j \in 1..(i-1)
      /\ i \in 1..i
  BY FactParts DEF Distinct
<1>2. /\ u \in Sound(F, start)
      /\ \A g \in Facts :
            (\A j \in 1..(i-1) : ~ (facts[j] = g /\ g.kind = kind)) => u.applications[g] = w.applications[g]
      /\ \A j \in 1..(i-1) :
            facts[j].kind = kind /\ u.applications[facts[j]].state = "UNSEEN" =>
               MayWait(facts[j], u.deals[facts[j].dealId].status)
  BY DEF PassedTo
<1>3. f.kind = kind => w.applications[f].state = "UNSEEN"
  OBVIOUS
<1> HIDE DEF f
<1>4. CASE f.kind # kind
  <2>1. PassedTo(F, start, w, u, facts, kind, i)
    <3>1. \A j \in 1..i : facts[j].kind = kind => j \in 1..(i-1)
      BY <1>1, <1>4 DEF f
    <3> QED BY <1>1, <1>2, <3>1 DEF PassedTo
  <2>2. n = u
    BY <1>4
  <2> QED BY <2>1, <2>2 DEF n, f
<1>5. CASE f.kind = kind
  <2>1. u.applications[f].state = "UNSEEN"
    <3>1. u.applications[f] = w.applications[f]
      BY <1>1, <1>2
    <3> QED BY <1>3, <1>5, <3>1
  <2>2. n = Classify(u, f)
    BY <1>5
  <2>3. n \in Sound(F, start) /\ Classified(u, n, f)
    BY <1>1, <1>2, <2>1, <2>2, ClassifySound
  <2> HIDE DEF n
  <2>4. ASSUME NEW g \in Facts, \A j \in 1..i : ~ (facts[j] = g /\ g.kind = kind)
        PROVE  n.applications[g] = w.applications[g]
    <3>1. g # f /\ u.applications[g] = w.applications[g]
      BY <1>1, <1>2, <1>5, <2>4 DEF f
    <3> QED BY <2>3, <3>1 DEF Classified
  <2>5. ASSUME NEW j \in 1..i, facts[j].kind = kind, n.applications[facts[j]].state = "UNSEEN"
        PROVE  MayWait(facts[j], n.deals[facts[j].dealId].status)
    <3> DEFINE e == facts[j].dealId
    <3>1. CASE j = i
      BY <2>3, <2>5, <3>1 DEF Classified, f
    <3>2. CASE j \in 1..(i-1)
      <4>1. u.applications[facts[j]].state = "UNSEEN"
        BY <1>1, <2>3, <2>5, <3>2 DEF Classified
      <4>2. MayWait(facts[j], u.deals[e].status) /\ e \in DealIds
        BY <1>1, <1>2, <2>5, <3>2, <4>1
      <4>3. CASE u.deals[e].status = "NONE"
        <5>1. n.deals[e].status = "NONE"
          BY <1>2, <2>3, <4>2, <4>3, NoneStays
        <5> QED BY <5>1 DEF MayWait
      <4>4. CASE f.kind = "REPAYMENT" /\ u.deals[e].status = "CREATED"
        <5>1. n.deals[e].status = u.deals[e].status
          BY <2>3, <4>2, <4>4 DEF Classified, Financed
        <5> QED BY <4>2, <5>1
      <4> QED BY <1>5, <2>5, <4>2, <4>3, <4>4 DEF MayWait
    <3> QED BY <1>1, <3>1, <3>2
  <2>6. PassedTo(F, start, w, n, facts, kind, i)
    BY <2>3, <2>4, <2>5 DEF PassedTo
  <2> QED BY <2>6 DEF n, f
<1> QED BY <1>4, <1>5

\* One pass of _applySubmittedPhase over facts that wait.
LEMMA PassSound ==
  ASSUME NEW F \in SUBSET Facts, NEW start \in [DealIds -> Deal], NEW w \in Sound(F, start),
         NEW facts \in Seq(F), Distinct(facts), NEW kind,
         \A i \in 1..Len(facts) :
            facts[i].kind = kind => w.applications[facts[i]].state = "UNSEEN",
         attested \in 0..MaxHeight
  PROVE  PassedTo(F, start, w, ApplySubmittedPhase(w, facts, kind), facts, kind, Len(facts))
<1> DEFINE G == Reachable(F, start)
<1>1. w \in G /\ Len(facts) \in Nat
  BY DEF Sound
<1>2. \A u \in G, f \in F : Classify(u, f) \in G
  <2>1. attested \in (0..MaxHeight) \cup {Credit!NoHeight}
    OBVIOUS
  <2> QED BY <2>1, ClassifyReachable
<1> HIDE DEF G
<1>3. PICK h : Passes(h, G, w, facts, kind) /\ h[Len(facts)] = ApplySubmittedPhase(w, facts, kind)
  BY <1>1, <1>2, PhaseUnfolds
<1>4. /\ h[0] = w
      /\ \A i \in 1..Len(facts) :
            h[i] = IF facts[i].kind = kind THEN Classify(h[i - 1], facts[i]) ELSE h[i - 1]
  BY <1>3 DEF Passes
<1> DEFINE P(i) == PassedTo(F, start, w, h[i], facts, kind, i)
           T == {i \in Nat : i <= Len(facts) => P(i)}
<1>5. 0 \in T
  BY <1>4 DEF PassedTo
<1>6. ASSUME NEW k \in Nat, k \in T PROVE k + 1 \in T
  <2>1. CASE k + 1 <= Len(facts)
    <3> DEFINE i == k + 1
               u == h[i - 1]
    <3>1. i \in 1..Len(facts) /\ i - 1 = k /\ P(k)
      BY <1>1, <1>6, <2>1
    <3>2. PassedTo(F, start, w, u, facts, kind, i - 1)
      BY <3>1
    <3>3. facts[i].kind = kind => w.applications[facts[i]].state = "UNSEEN"
      BY <3>1
    <3>4. h[i] = IF facts[i].kind = kind THEN Classify(u, facts[i]) ELSE u
      BY <1>4, <3>1
    <3> HIDE DEF i, u
    <3>5. PassedTo(F, start, w, IF facts[i].kind = kind THEN Classify(u, facts[i]) ELSE u,
                   facts, kind, i)
      BY <3>1, <3>2, <3>3, PassStep
    <3>6. P(i)
      BY <3>4, <3>5
    <3> QED BY <3>6 DEF i
  <2>2. CASE ~ (k + 1 <= Len(facts))
    BY <2>2
  <2> QED BY <2>1, <2>2
<1> HIDE DEF T
<1>7. Nat \subseteq T
  BY <1>5, <1>6, NatSetInduction
<1>8. P(Len(facts))
  BY <1>1, <1>7 DEF T
<1> QED BY <1>3, <1>8

\* _applySubmitted over facts that wait: it does not revert, decides nothing
\* else, and leaves waiting only what no pass could decide.
LEMMA SubmissionSound ==
  ASSUME NEW F \in SUBSET Facts, NEW start \in [DealIds -> Deal], NEW w \in Sound(F, start),
         NEW facts \in Seq(F), Distinct(facts),
         \A i \in 1..Len(facts) : w.applications[facts[i]].state = "UNSEEN",
         attested \in 0..MaxHeight
  PROVE  LET v == ApplySubmitted(w, facts)
         IN  /\ v \in Sound(F, start)
             /\ \A g \in Facts : g \notin ToSet(facts) => v.applications[g] = w.applications[g]
             /\ \A g \in ToSet(facts) :
                  v.applications[g].state = "UNSEEN" => MayWait(g, v.deals[g.dealId].status)
<1> DEFINE u == ApplySubmittedPhase(w, facts, "FUNDING")
           v == ApplySubmittedPhase(u, facts, "REPAYMENT")
           N == Len(facts)
<1>1. PassedTo(F, start, w, u, facts, "FUNDING", N)
  BY PassSound
<1>2. ApplySubmitted(w, facts) = v
  BY DEF ApplySubmitted
<1>3. /\ \A i \in 1..N : facts[i] \in Facts /\ facts[i].dealId \in DealIds
      /\ \A i \in 1..N : facts[i].kind \in {"FUNDING", "REPAYMENT"}
      /\ ToSet(facts) = {facts[i] : i \in 1..N}
  <2>1. \A i \in 1..N : facts[i] \in Facts
    OBVIOUS
  <2> QED BY <2>1, FactParts DEF ToSet
<1>4. \A i, j \in 1..N : i # j => facts[i] # facts[j]
  BY DEF Distinct
<1> HIDE DEF u
<1>5. \A i \in 1..N : facts[i].kind = "REPAYMENT" => u.applications[facts[i]] = w.applications[facts[i]]
  BY <1>1, <1>3 DEF PassedTo
<1>6. u \in Sound(F, start)
  BY <1>1 DEF PassedTo
<1>7. PassedTo(F, start, u, v, facts, "REPAYMENT", N)
  <2>1. \A i \in 1..Len(facts) : facts[i].kind = "REPAYMENT" => u.applications[facts[i]].state = "UNSEEN"
    BY <1>5
  <2> QED BY <1>6, <2>1, PassSound
<1> HIDE DEF v
<1>8. v \in Sound(F, start)
  BY <1>7 DEF PassedTo
<1>9. ASSUME NEW g \in Facts, g \notin ToSet(facts) PROVE v.applications[g] = w.applications[g]
  <2>1. \A j \in 1..N : facts[j] # g
    BY <1>3, <1>9
  <2> QED BY <1>1, <1>7, <2>1 DEF PassedTo
<1>10. ASSUME NEW i \in 1..N, v.applications[facts[i]].state = "UNSEEN"
       PROVE  MayWait(facts[i], v.deals[facts[i].dealId].status)
  <2>1. CASE facts[i].kind = "REPAYMENT"
    BY <1>7, <1>10, <2>1 DEF PassedTo
  <2>2. CASE facts[i].kind = "FUNDING"
    <3>1. v.applications[facts[i]] = u.applications[facts[i]]
      BY <1>3, <1>7, <2>2 DEF PassedTo
    <3>2. u.deals[facts[i].dealId].status = "NONE"
      BY <1>1, <1>10, <2>2, <3>1 DEF PassedTo, MayWait
    <3>3. v.deals[facts[i].dealId].status = "NONE"
      BY <1>3, <1>6, <1>8, <3>2, NoneStays
    <3> QED BY <3>3 DEF MayWait
  <2> QED BY <1>3, <2>1, <2>2
<1> QED BY <1>2, <1>3, <1>8, <1>9, <1>10

-----------------------------------------------------------------------------
(* The inductive invariant: the books are in order, and every recorded fact  *)
(* lies in an attested block, so that the credit layer has a height to stamp.*)

BooksInv ==
    /\ DealsInv
    /\ Books(World)
    /\ \A f \in evidence : f.blockHeight <= attested

\* A transaction starts in a sound world.
LEMMA WorldSound ==
  ASSUME BooksInv, NEW F, evidence \subseteq F
  PROVE  World \in Sound(F, deals)
<1>1. World \in Reachable(F, deals)
  BY WorldReachable DEF BooksInv
<1>2. ~World.reverted /\ World.deals = deals /\ Books(World)
  BY WorldFields DEF BooksInv
<1> HIDE DEF World
<1> QED BY <1>1, <1>2 DEF Sound

\* What submitAndApply and applyEvidence have in common: they commit a sound
\* world in which decisions already made stand.
Counting ==
    /\ evidence \subseteq evidence' /\ evidence' \subseteq Facts
    /\ \A f \in evidence' : f.blockHeight <= attested
    /\ attested' = attested /\ nextDealSeq' = nextDealSeq
    /\ \E w \in Sound(evidence', deals) :
          /\ Commit(w)
          /\ \A g \in Facts : applications[g].state # "UNSEEN" =>
                                 w.applications[g] = applications[g]

\* Such a transaction leaves the books in order.
LEMMA CountingBooks ==
  ASSUME BooksInv, Counting
  PROVE  BooksInv'
<1>1. PICK w \in Sound(evidence', deals) : Commit(w)
  BY DEF Counting
<1>2. DealsInv'
  <2>1. w \in Reachable(evidence', deals)
    BY <1>1 DEF Sound
  <2> QED BY <1>1, <2>1, CommitReachable DEF Counting, BooksInv
<1>3. Books(World')
  BY <1>1 DEF Sound, Books, Commit, World
<1>4. \A f \in evidence' : f.blockHeight <= attested'
  BY DEF Counting
<1> QED BY <1>2, <1>3, <1>4 DEF BooksInv

\* The facts of a submission come from its transactions.
LEMMA SubmittedFrom ==
  ASSUME NEW txs \in Seq(SourceTxs), NEW S,
         \A i \in 1..Len(txs) : ToSet(Verifier!FactsOf(txs[i])) \subseteq S
  PROVE  Verifier!SubmittedFacts(txs) \in Seq(S)
<1> DEFINE per == [i \in 1..Len(txs) |-> Verifier!FactsOf(txs[i])]
<1>1. ASSUME NEW i \in 1..Len(txs) PROVE Verifier!FactsOf(txs[i]) \in Seq(S)
  <2> DEFINE s == Verifier!FactsOf(txs[i])
  <2>1. s \in Seq(ToSet(s)) /\ ToSet(s) \subseteq S
    BY FactsOfEffect
  <2> HIDE DEF s
  <2>2. s \in Seq(S)
    BY <2>1
  <2> QED BY <2>2 DEF s
<1>2. per \in Seq(Seq(S))
  <2>1. Len(txs) \in Nat
    OBVIOUS
  <2> QED BY <1>1, <2>1
<1> HIDE DEF per
<1>3. FlattenSeq(per) \in Seq(S)
  BY <1>2, FlattenEffect
<1>4. Verifier!SubmittedFacts(txs) = FlattenSeq(per)
  BY DEF Verifier!SubmittedFacts, Verifier!FlattenSeq, FlattenSeq, per
<1> QED BY <1>3, <1>4

\* A fact carries the height of its transaction.
LEMMA FactHeight ==
  ASSUME NEW tx \in SourceTxs, NEW f \in ToSet(Verifier!FactsOf(tx))
  PROVE  f \in Facts /\ f.blockHeight = tx.height
<1>1. f \in Facts
  BY DEF Facts
<1>3. \E log : f = Verifier!FactOf(tx, log)
  BY FactsOfEffect
<1>4. f.blockHeight = tx.height
  BY <1>3 DEF Verifier!FactOf
<1> QED BY <1>1, <1>4

\* What the verifier accepts: facts of attested blocks, all different and new.
LEMMA AcceptableFacts ==
  ASSUME BooksInv, NEW txs \in Seq(SourceTxs), Verifier!MaySubmit(txs)
  PROVE  LET facts == Verifier!SubmittedFacts(txs)
         IN  /\ facts \in Seq({f \in Facts : f.blockHeight <= attested})
             /\ Distinct(facts) /\ ToSet(facts) \cap evidence = {}
             /\ attested \in 0..MaxHeight
<1> DEFINE facts == Verifier!SubmittedFacts(txs)
           S == {f \in Facts : f.blockHeight <= attested}
<1>2. /\ Len(txs) \in 1..MAX_BATCH
      /\ \A i \in 1..Len(txs) : /\ txs[i] \in SourceTxs /\ txs[i].height <= attested
                                /\ Verifier!FactsOf(txs[i]) # <<>>
      /\ Verifier!AllNew(evidence, facts)
  BY DEF Verifier!MaySubmit, Verifier!Provable
<1>3. \A i \in 1..Len(txs) : ToSet(Verifier!FactsOf(txs[i])) \subseteq S
  BY <1>2, FactHeight
<1>4. facts \in Seq(S)
  <2> HIDE DEF S
  <2> QED BY <1>3, SubmittedFrom
<1>5. Distinct(facts) /\ ToSet(facts) \cap evidence = {}
  <2> HIDE DEF facts
  <2>1. DOMAIN facts = 1..Len(facts)
    BY <1>4
  <2> QED BY <1>2, <2>1 DEF Verifier!AllNew, Verifier!Seen, Distinct, ToSet
<1>6. attested \in 0..MaxHeight
  <2> DEFINE s == Verifier!FactsOf(txs[1])
  <2>1. 1 \in 1..Len(txs) /\ MAX_BATCH \in Nat
    BY <1>2, DealsConstants
  <2>2. s \in Seq(ToSet(s)) /\ s # <<>> /\ ToSet(s) \subseteq S
    BY <1>2, <1>3, <2>1, FactsOfEffect
  <2> HIDE DEF s
  <2>3. s[1] \in S
    BY <2>2
  <2>4. s[1].blockHeight \in 0..MaxHeight /\ s[1].blockHeight <= attested /\ MaxHeight \in Nat
    BY <2>3, DealsConstants
  <2>5. attested \in (0..MaxHeight) \cup {-1}
    BY DEF BooksInv, DealsInv, TypeOK, Credit!NoHeight
  <2> QED BY <2>4, <2>5
<1> QED BY <1>4, <1>5, <1>6

\* The same of a submission that is made.
LEMMA AcceptedFacts ==
  ASSUME BooksInv, NEW txs \in Seq(SourceTxs), Verifier!SubmitEvidence(txs)
  PROVE  LET facts == Verifier!SubmittedFacts(txs)
         IN  /\ facts \in Seq({f \in Facts : f.blockHeight <= attested})
             /\ Distinct(facts) /\ ToSet(facts) \cap evidence = {}
             /\ evidence' = evidence \cup ToSet(facts)
             /\ attested \in 0..MaxHeight
<1>1. Verifier!MaySubmit(txs) /\ evidence' = evidence \cup ToSet(Verifier!SubmittedFacts(txs))
  BY DEF Verifier!SubmitEvidence, Verifier!Recorded, Verifier!ToSet, ToSet
<1> QED BY <1>1, AcceptableFacts

\* submitAndApply and submitAndApplyBatch: no recorded fact makes the
\* transaction revert, and a fact of it waits only where MayWait lets it.
LEMMA SubmitAndApplyCounts ==
  ASSUME BooksInv, NEW txs \in Seq(SourceTxs), SubmitAndApply(txs)
  PROVE  LET new == ToSet(Verifier!SubmittedFacts(txs))
         IN  /\ Counting
             /\ evidence' = evidence \cup new /\ new \cap evidence = {}
             /\ \A g \in Facts : g \notin new => applications'[g] = applications[g]
             /\ \A g \in new :
                  applications'[g].state = "UNSEEN" => MayWait(g, deals'[g.dealId].status)
<1> DEFINE facts == Verifier!SubmittedFacts(txs)
           w == ApplySubmitted(World, facts)
           S == {f \in Facts : f.blockHeight <= attested}
<1>1. /\ Verifier!SubmitEvidence(txs) /\ Commit(w)
      /\ nextDealSeq' = nextDealSeq /\ attested' = attested
  BY DEF SubmitAndApply
<1>2. /\ facts \in Seq(S) /\ Distinct(facts) /\ ToSet(facts) \cap evidence = {}
      /\ evidence' = evidence \cup ToSet(facts)
      /\ attested \in 0..MaxHeight
  BY <1>1, AcceptedFacts
<1>3. /\ evidence \subseteq S /\ deals \in [DealIds -> Deal] /\ World.applications = applications
      /\ \A f \in Facts : DecidedOK(World, f, evidence)
  BY WorldFields DEF BooksInv, DealsInv, TypeOK
<1> HIDE DEF facts, S, World, w
<1>4. ToSet(facts) \subseteq S /\ facts \in Seq(ToSet(facts)) /\ ToSet(facts) = {facts[i] : i \in 1..Len(facts)}
  BY <1>2 DEF ToSet
<1>5. /\ evidence' \in SUBSET Facts /\ facts \in Seq(evidence')
  <2>1. S \subseteq Facts
    BY DEF S
  <2> QED BY <1>2, <1>3, <1>4, <2>1
<1>6. World \in Sound(evidence', deals)
  BY <1>2, WorldSound
<1>7. \A i \in 1..Len(facts) : World.applications[facts[i]].state = "UNSEEN"
  <2>1. TAKE i \in 1..Len(facts)
  <2>2. facts[i] \in Facts /\ facts[i] \notin evidence
    BY <1>2, <1>4, <1>5
  <2> QED BY <1>3, <2>2 DEF DecidedOK
<1>8. /\ w \in Sound(evidence', deals)
      /\ \A g \in Facts : g \notin ToSet(facts) => w.applications[g] = World.applications[g]
      /\ \A g \in ToSet(facts) :
           w.applications[g].state = "UNSEEN" => MayWait(g, w.deals[g.dealId].status)
  BY <1>2, <1>3, <1>5, <1>6, <1>7, SubmissionSound DEF w
<1>9. \A g \in Facts : applications[g].state # "UNSEEN" => w.applications[g] = applications[g]
  <2>1. \A g \in ToSet(facts) : applications[g].state = "UNSEEN"
    BY <1>3, <1>4, <1>7
  <2> QED BY <1>3, <1>8, <2>1
<1>10. Counting
  <2>1. \A f \in evidence' : f.blockHeight <= attested
    BY <1>2, <1>3, <1>4 DEF S
  <2> QED BY <1>1, <1>2, <1>5, <1>8, <1>9, <2>1 DEF Counting
<1>11. applications' = w.applications /\ deals' = w.deals
  BY <1>1 DEF Commit
<1>12. /\ \A g \in Facts : g \notin ToSet(facts) => applications'[g] = applications[g]
       /\ \A g \in ToSet(facts) :
             applications'[g].state = "UNSEEN" => MayWait(g, deals'[g.dealId].status)
  BY <1>3, <1>8, <1>11
<1> QED BY <1>2, <1>10, <1>12 DEF facts

\* A recorded fact lies in an attested block.
LEMMA HeightKnown ==
  ASSUME BooksInv, NEW f \in evidence
  PROVE  f \in Facts /\ attested \in 0..MaxHeight
<1>1. f \in Facts /\ f.blockHeight <= attested /\ attested \in (0..MaxHeight) \cup {-1}
  BY DEF BooksInv, DealsInv, TypeOK, Credit!NoHeight
<1>2. f.blockHeight \in 0..MaxHeight /\ MaxHeight \in Nat
  BY <1>1, DealsConstants
<1> QED BY <1>1, <1>2

\* Applying a recorded fact leaves a sound world, whatever came before.
LEMMA ApplySound ==
  ASSUME BooksInv, NEW f \in evidence
  PROVE  LET w == Apply(World, f)
         IN  /\ w \in Sound(evidence, deals)
             /\ \A g \in Facts : g # f \/ applications[g].state # "UNSEEN" =>
                                    w.applications[g] = applications[g]
             /\ w.applications[f].state = "UNSEEN" =>
                  w = World /\ MayWait(f, deals[f.dealId].status)
<1>1. /\ evidence \in SUBSET Facts /\ deals \in [DealIds -> Deal]
      /\ World.applications = applications /\ World.deals = deals
  BY WorldFields DEF BooksInv, DealsInv, TypeOK
<1>2. f \in Facts /\ attested \in 0..MaxHeight
  BY HeightKnown
<1> HIDE DEF World
<1>3. World \in Sound(evidence, deals)
  BY WorldSound
<1>4. CASE applications[f].state # "UNSEEN"
  BY <1>1, <1>3, <1>4 DEF Apply
<1>5. CASE applications[f].state = "UNSEEN"
  <2> DEFINE n == Classify(World, f)
  <2>1. Apply(World, f) = n
    BY <1>1, <1>5 DEF Apply
  <2>2. n \in Sound(evidence, deals) /\ Classified(World, n, f)
    BY <1>1, <1>2, <1>3, <1>5, ClassifySound
  <2> HIDE DEF n
  <2> QED BY <1>1, <1>5, <2>1, <2>2 DEF Classified
<1> QED BY <1>4, <1>5

\* applyEvidence.
LEMMA ApplyEvidenceCounts ==
  ASSUME BooksInv, NEW f \in Facts, ApplyEvidence(f)
  PROVE  Counting
<1> DEFINE w == Apply(World, f)
<1>1. /\ f \in evidence /\ Commit(w) /\ evidence' = evidence
      /\ nextDealSeq' = nextDealSeq /\ attested' = attested
  BY DEF ApplyEvidence
<1>2. /\ w \in Sound(evidence, deals)
      /\ \A g \in Facts : applications[g].state # "UNSEEN" =>
                             w.applications[g] = applications[g]
  BY <1>1, ApplySound
<1>3. evidence \subseteq Facts /\ \A g \in evidence : g.blockHeight <= attested
  BY DEF BooksInv, DealsInv, TypeOK
<1> HIDE DEF w
<1> QED BY <1>1, <1>2, <1>3 DEF Counting

\* createDeal writes one deal that was not there, and reserves its face value.
LEMMA CreateDealEffect ==
  ASSUME BooksInv, NEW t \in Terms, CreateDeal(t)
  PROVE  LET d == [dealSeq |-> nextDealSeq, terms |-> t]
             x == [NoDeal EXCEPT !.status = "CREATED"]
         IN  /\ d \in DealIds /\ deals[d] = NoDeal /\ x \in Deal
             /\ t.requiredFunding \in 1..t.faceValue
             /\ deals' = [deals EXCEPT ![d] = x] /\ applications' = applications
             /\ \A b \in Accounts :
                  credit'.reserved[b] =
                    credit.reserved[b] + IF b = t.borrower THEN t.faceValue ELSE 0
             /\ credit'.exposure = credit.exposure /\ credit'.counters = credit.counters
             /\ evidence' = evidence /\ attested' = attested
<1> DEFINE d == [dealSeq |-> nextDealSeq, terms |-> t]
           m == [World EXCEPT !.deals[d].status = "CREATED"]
           x == [deals[d] EXCEPT !.status = "CREATED"]
           may == Credit!MayOpenDeal(credit, d, t.borrower, t.faceValue)
           c == Credit!OpenDeal(credit, d, t.borrower, t.faceValue)
           w == CallCredit(m, may, c)
<1>1. /\ nextDealSeq < MaxDeals /\ Commit(w)
      /\ t.requiredFunding # 0 /\ t.requiredFunding <= t.faceValue
      /\ evidence' = evidence /\ attested' = attested
  BY DEF CreateDeal
<1>2. DealsInv /\ TypeOK
  BY DEF BooksInv, DealsInv
<1>3. d \in DealIds /\ d.terms = t
  BY <1>1, <1>2, DealsConstants DEF TypeOK, DealIds
<1>4. /\ t.borrower \in Accounts /\ t.requiredFunding \in Nat /\ t.faceValue \in Nat
      /\ NoAccount \notin Accounts
  BY DealsConstants
<1>5. may /\ deals' = m.deals /\ credit' = c /\ applications' = m.applications
  BY <1>1 DEF Commit, CallCredit
<1> HIDE DEF d, may
<1>6. m.deals = [deals EXCEPT ![d] = x] /\ m.applications = applications
  BY <1>2, <1>3 DEF World, TypeOK
<1>7. deals[d] = NoDeal
  <2>1. DealOK(deals[d], credit.records[d], d)
    BY <1>2, <1>3 DEF DealsInv
  <2>2. credit.records[d].borrower = NoAccount
    BY <1>5 DEF may, Credit!MayOpenDeal, Credit!IsOpen
  <2>3. deals[d].status = "NONE"
    BY <1>3, <1>4, <2>1, <2>2 DEF DealOK, RecordAgrees
  <2> QED BY <2>1, <2>3 DEF DealOK, TotalsAgree
<1>8. x = [NoDeal EXCEPT !.status = "CREATED"] /\ x \in Deal
  BY <1>7 DEF NoDeal, Deal, Statuses
<1>9. /\ \A b \in Accounts :
            credit'.reserved[b] = credit.reserved[b] + IF b = t.borrower THEN t.faceValue ELSE 0
      /\ credit'.exposure = credit.exposure /\ credit'.counters = credit.counters
  BY <1>2, <1>3, <1>4, <1>5, OpenDealMoves DEF TypeOK
<1> HIDE DEF x, m, c, w
<1>10. deals' = [deals EXCEPT ![d] = x] /\ applications' = applications
  BY <1>5, <1>6
<1>11. t.requiredFunding \in 1..t.faceValue
  BY <1>1, <1>4
<1> QED BY <1>1, <1>3, <1>7, <1>8, <1>9, <1>10, <1>11 DEF d

\* createDeal keeps the books: no fact was applied to the deal it opens.
LEMMA CreateDealBooks ==
  ASSUME BooksInv, NEW t \in Terms, CreateDeal(t)
  PROVE  BooksInv'
<1> DEFINE d == [dealSeq |-> nextDealSeq, terms |-> t]
           x == [NoDeal EXCEPT !.status = "CREATED"]
<1>1. /\ d \in DealIds /\ deals[d] = NoDeal /\ x \in Deal
      /\ deals' = [deals EXCEPT ![d] = x] /\ applications' = applications
      /\ \A b \in Accounts :
            credit'.reserved[b] = credit.reserved[b] + IF b = t.borrower THEN t.faceValue ELSE 0
      /\ credit'.exposure = credit.exposure /\ credit'.counters = credit.counters
      /\ evidence' = evidence /\ attested' = attested
  BY CreateDealEffect
<1>2. /\ DealsInv /\ TypeOK /\ FactBooks(applications, deals) /\ CreditBooks(credit, deals)
      /\ RepaymentsFinanced(applications, deals)
      /\ \A f \in evidence : f.blockHeight <= attested
  BY WorldFields DEF BooksInv, DealsInv, Books
<1>3. DealsInv'
  BY <1>2, CreateDealStep
<1>4. /\ x.status = "CREATED" /\ x.fundedAmount = deals[d].fundedAmount
      /\ x.repaidAmount = deals[d].repaidAmount /\ x.onTimeRepaid = deals[d].onTimeRepaid
  BY <1>1 DEF NoDeal
<1>5. d.terms = t /\ t.borrower \in Accounts /\ t.faceValue \in Nat
  BY DealsConstants
<1> HIDE DEF x, d
<1>6. deals \in [DealIds -> Deal]
  BY <1>2 DEF TypeOK
<1>7. CreditBooks(credit', deals')
  <2>1. /\ ReserveOf(x, d) = t.faceValue /\ ReserveOf(deals[d], d) = 0
        /\ ExposureOf(x, d) = 0 /\ ExposureOf(deals[d], d) = 0
        /\ \A r \in Credit!Outcomes : OneIf(x, r) = 0 /\ OneIf(deals[d], r) = 0
    BY <1>1, <1>4, <1>5 DEF ReserveOf, ExposureOf, OneIf, Financed, NoDeal,
                            Credit!Outcomes, Credit!Results
  <2>2. \A b \in Accounts : /\ credit.reserved[b] \in Nat /\ credit.exposure[b] \in Nat
                            /\ credit.counters[b] \in [Credit!Outcomes -> Nat]
    BY <1>2, CreditParts DEF TypeOK
  <2>3. Follow(credit, credit', d, deals[d], x)
    BY <1>1, <1>5, <2>1, <2>2 DEF Follow
  <2> QED BY <1>1, <1>2, <1>6, <2>3, CreditFollows
<1>8. FactBooks(applications', deals')
  BY <1>1, <1>2, <1>4, <1>6 DEF FactBooks
<1>9. RepaymentsFinanced(applications', deals')
  <2>1. ~Financed(deals[d])
    BY <1>1 DEF NoDeal, Financed
  <2> QED BY <1>1, <1>2, <1>6, <2>1, FactParts DEF RepaymentsFinanced
<1>10. Books(World')
  BY <1>7, <1>8, <1>9 DEF Books, World
<1> QED BY <1>1, <1>2, <1>3, <1>10 DEF BooksInv

\* markDefaulted commits what RecordStatusEffect and RecordStatusBooks describe.
LEMMA MarkDefaultedEffect ==
  ASSUME BooksInv, NEW d \in DealIds, MarkDefaulted(d)
  PROVE  /\ deals' = [deals EXCEPT ![d] = [@ EXCEPT !.status = "DEFAULTED"]]
         /\ applications' = applications
         /\ Books(World')
<1> DEFINE r == "DEFAULTED"
           w == RecordOutcome([World EXCEPT !.deals[d].status = r], d, r)
<1>1. deals[d].status = "FINANCED" /\ attested # Credit!NoHeight /\ Commit(w)
  BY DEF MarkDefaulted
<1>2. /\ TypeOK /\ DealOK(deals[d], credit.records[d], d)
      /\ World \in Worlds /\ Books(World) /\ ~World.reverted
      /\ World.deals = deals /\ World.credit = credit /\ World.applications = applications
  BY WorldFields DEF BooksInv, DealsInv, TypeOK, Worlds, World
<1>3. attested \in 0..MaxHeight /\ attested \in (0..MaxHeight) \cup {Credit!NoHeight}
  BY <1>1, <1>2 DEF TypeOK
<1>4. r \in Credit!Outcomes
  BY DEF Credit!Outcomes, Credit!Results
<1>5. /\ World.deals[d].status # r /\ Financed(World.deals[d])
      /\ RecordAgrees(World.deals[d], World.credit.records[d], d)
  BY <1>1, <1>2 DEF DealOK, Financed
<1> HIDE DEF World, r
<1>6. Books(w)
  BY <1>2, <1>3, <1>4, <1>5, RecordStatusBooks
<1>7. /\ w \in Worlds
      /\ w.applications = World.applications
      /\ w.deals = [World.deals EXCEPT ![d] = [@ EXCEPT !.status = r]]
      /\ ~w.reverted =>
           /\ ~World.reverted
           /\ w.credit.records = IF World.credit.records[d].outcome = r THEN World.credit.records
                                 ELSE [World.credit.records EXCEPT ![d] = Concluded(@, r, attested)]
  BY <1>2, <1>3, <1>4, RecordStatusEffect
<1> HIDE DEF w
<1>8. Books(World')
  BY <1>1, <1>6 DEF Books, Commit, World
<1> QED BY <1>1, <1>2, <1>7, <1>8 DEF Commit, r

\* markDefaulted moves a counter, and leaves the exposure where it is.
LEMMA MarkDefaultedBooks ==
  ASSUME BooksInv, NEW d \in DealIds, MarkDefaulted(d)
  PROVE  BooksInv'
<1>1. evidence' = evidence /\ attested' = attested
  BY DEF MarkDefaulted
<1>2. DealsInv'
  BY MarkDefaultedStep DEF BooksInv
<1> QED BY <1>1, <1>2, MarkDefaultedEffect DEF BooksInv

\* submitEvidence called directly on the verifier.
LEMMA SubmitToVerifierBooks ==
  ASSUME BooksInv, NEW txs \in Seq(SourceTxs), SubmitToVerifier(txs)
  PROVE  BooksInv'
<1> DEFINE facts == Verifier!SubmittedFacts(txs)
           S == {f \in Facts : f.blockHeight <= attested}
<1>1. /\ Verifier!SubmitEvidence(txs)
      /\ attested' = attested /\ deals' = deals /\ applications' = applications
      /\ credit' = credit
  BY DEF SubmitToVerifier
<1>2. facts \in Seq(S) /\ evidence' = evidence \cup ToSet(facts)
  BY <1>1, AcceptedFacts
<1> HIDE DEF facts
<1>3. ToSet(facts) \subseteq S
  BY <1>2 DEF ToSet
<1>4. \A f \in evidence' : f.blockHeight <= attested'
  BY <1>1, <1>2, <1>3 DEF BooksInv
<1>5. DealsInv'
  BY SubmitToVerifierStep DEF BooksInv
<1>6. Books(World')
  BY <1>1 DEF BooksInv, Books, World
<1> QED BY <1>4, <1>5, <1>6 DEF BooksInv

\* The attested height moves on.
LEMMA AttestBooks ==
  ASSUME BooksInv, NEW h \in 0..MaxHeight, Attest(h)
  PROVE  BooksInv'
<1>1. /\ h > attested /\ attested' = h /\ evidence' = evidence
      /\ deals' = deals /\ applications' = applications /\ credit' = credit
  BY DEF Attest
<1>2. DealsInv'
  BY AttestStep DEF BooksInv
<1>3. Books(World')
  BY <1>1 DEF BooksInv, Books, World
<1>4. \A f \in evidence' : f.blockHeight <= attested'
  <2>1. TAKE f \in evidence'
  <2>2. f \in Facts /\ f.blockHeight <= attested /\ attested \in (0..MaxHeight) \cup {-1}
    BY <1>1 DEF BooksInv, DealsInv, TypeOK, Credit!NoHeight
  <2>3. f.blockHeight \in 0..MaxHeight /\ MaxHeight \in Nat
    BY <2>2, DealsConstants
  <2> QED BY <1>1, <2>2, <2>3
<1> QED BY <1>2, <1>3, <1>4 DEF BooksInv

\* The empty registry: every sum is of zeros.
LEMMA BooksInit ==
  ASSUME Init
  PROVE  BooksInv
<1>1. /\ deals = [d \in DealIds |-> NoDeal] /\ applications = [f \in Facts |-> Undecided]
      /\ credit = Credit!EmptyStorage /\ evidence = {}
  BY DEF Init
<1>2. \A d \in DealIds :
         /\ SumFunctionOnSet(FundingTerms(applications, d), Facts) = 0
         /\ SumFunctionOnSet(RepaymentTerms(applications, d), Facts) = 0
         /\ SumFunctionOnSet(TimelyTerms(applications, d), Facts) = 0
  <2>1. TAKE d \in DealIds
  <2>2. \A f \in Facts : ~IsApplied(applications, f)
    BY <1>1 DEF IsApplied, Undecided
  <2>3. \A f \in Facts : /\ FundingTerms(applications, d)[f] = 0
                         /\ RepaymentTerms(applications, d)[f] = 0
                         /\ TimelyTerms(applications, d)[f] = 0
    BY <2>2 DEF FundingTerms, RepaymentTerms, TimelyTerms, FundingOne, RepaymentOne, TimelyOne
  <2> QED BY <2>3, FactsFinite, SumZeros
<1>3. FactBooks(applications, deals)
  BY <1>1, <1>2 DEF FactBooks, NoDeal
<1>4. \A b \in Accounts :
         /\ SumFunctionOnSet(ReserveTerms(deals), DealsBy(b)) = 0
         /\ SumFunctionOnSet(ExposureTerms(deals), DealsBy(b)) = 0
         /\ \A r \in Credit!Outcomes : SumFunctionOnSet(OutcomeTerms(deals, r), DealsBy(b)) = 0
  <2>1. TAKE b \in Accounts
  <2>2. IsFiniteSet(DealsBy(b)) /\ DealsBy(b) \subseteq DealIds
    BY DealsByFinite DEF DealsBy
  <2>3. \A d \in DealsBy(b) :
           /\ ReserveTerms(deals)[d] = 0 /\ ExposureTerms(deals)[d] = 0
           /\ \A r \in Credit!Outcomes : OutcomeTerms(deals, r)[d] = 0
    BY <1>1, <2>2 DEF ReserveTerms, ExposureTerms, OutcomeTerms, ReserveOf, ExposureOf, OneIf,
                      NoDeal, Financed, Credit!Outcomes, Credit!Results
  <2> QED BY <2>2, <2>3, SumZeros
<1>5. CreditBooks(credit, deals)
  BY <1>1, <1>4 DEF CreditBooks, Credit!EmptyStorage
<1>6. RepaymentsFinanced(applications, deals)
  BY <1>1 DEF RepaymentsFinanced, IsApplied, Undecided
<1> QED BY <1>1, <1>3, <1>5, <1>6, DealsInit DEF BooksInv, Books, World

\* The bound on a submission makes it a sequence of source transactions.
LEMMA SubmissionType == ASSUME NEW txs \in Verifier!Submissions PROVE txs \in Seq(SourceTxs)
<1>1. txs \in UNION {[1..m -> SourceTxs] : m \in 0..MAX_BATCH}
  BY DEF Verifier!Submissions, Verifier!BoundedSeq, Verifier!SeqOf
<1>2. PICK m \in 0..MAX_BATCH : txs \in [1..m -> SourceTxs]
  BY <1>1
<1>3. m \in Nat
  BY DealsConstants
<1> QED BY <1>2, <1>3

\* Every step keeps the books.
LEMMA BooksStep ==
  ASSUME BooksInv, [Next]_vars
  PROVE  BooksInv'
<1>1. CASE \E t \in Terms : CreateDeal(t)
  BY <1>1, CreateDealBooks
<1>2. CASE \E d \in DealIds : MarkDefaulted(d)
  BY <1>2, MarkDefaultedBooks
<1>3. CASE \E txs \in Verifier!Submissions : SubmitToVerifier(txs) \/ SubmitAndApply(txs)
  BY <1>3, SubmissionType, SubmitToVerifierBooks, SubmitAndApplyCounts, CountingBooks
<1>4. CASE \E f \in Facts : ApplyEvidence(f)
  BY <1>4, ApplyEvidenceCounts, CountingBooks
<1>5. CASE \E h \in 0..MaxHeight : Attest(h)
  BY <1>5, AttestBooks
<1>6. CASE UNCHANGED vars
  <2>1. DealsInv'
    BY <1>6, DealsStep DEF BooksInv, vars
  <2>2. Books(World')
    BY <1>6 DEF BooksInv, Books, World, vars
  <2> QED BY <1>6, <2>1, <2>2 DEF BooksInv, vars
<1> QED BY <1>1, <1>2, <1>3, <1>4, <1>5, <1>6 DEF Next

\* BooksInv holds in every reachable state.
LEMMA BooksInvariant == Spec => []BooksInv
<1>1. BooksInv /\ [Next]_vars => BooksInv'
  BY BooksStep
<1> QED BY <1>1, BooksInit, PTL DEF Spec

-----------------------------------------------------------------------------
(* Theorems of the specification. *)

\* The totals of the facts applied, as the properties write them.
LEMMA TotalsOf ==
  ASSUME NEW A, NEW d \in DealIds, NEW C, C = {f \in Facts : IsApplied(A, f)}
  PROVE  /\ Total(FundingOf(d, C)) = SumFunctionOnSet(FundingTerms(A, d), Facts)
         /\ Total(RepaymentOf(d, C)) = SumFunctionOnSet(RepaymentTerms(A, d), Facts)
         /\ Total({f \in RepaymentOf(d, C) : f.blockHeight <= d.terms.dueBlock})
              = SumFunctionOnSet(TimelyTerms(A, d), Facts)
<1> DEFINE amount == [f \in Facts |-> f.amount]
           timely == {f \in RepaymentOf(d, C) : f.blockHeight <= d.terms.dueBlock}
<1>1. Total(FundingOf(d, C)) = SumFunctionOnSet(FundingTerms(A, d), Facts)
  <2> DEFINE F == FundingTerms(A, d)
             T == FundingOf(d, C)
  <2>1. /\ T \in SUBSET Facts /\ \A f \in Facts : F[f] \in Int
        /\ \A f \in Facts \ T : F[f] = 0
        /\ \A f \in T : amount[f] = F[f]
    BY FactTermsType DEF FundingTerms, FundingOne, FundingOf
  <2> HIDE DEF F, T, amount
  <2>2. SumFunctionOnSet(amount, T) = SumFunctionOnSet(F, Facts)
    BY <2>1, FactsFinite, SumSupport
  <2> QED BY <2>2 DEF F, T, amount, Total
<1>2. Total(RepaymentOf(d, C)) = SumFunctionOnSet(RepaymentTerms(A, d), Facts)
  <2> DEFINE F == RepaymentTerms(A, d)
             T == RepaymentOf(d, C)
  <2>1. /\ T \in SUBSET Facts /\ \A f \in Facts : F[f] \in Int
        /\ \A f \in Facts \ T : F[f] = 0
        /\ \A f \in T : amount[f] = F[f]
    BY FactTermsType DEF RepaymentTerms, RepaymentOne, RepaymentOf
  <2> HIDE DEF F, T, amount
  <2>2. SumFunctionOnSet(amount, T) = SumFunctionOnSet(F, Facts)
    BY <2>1, FactsFinite, SumSupport
  <2> QED BY <2>2 DEF F, T, amount, Total
<1>3. Total(timely) = SumFunctionOnSet(TimelyTerms(A, d), Facts)
  <2> DEFINE F == TimelyTerms(A, d)
             T == timely
  <2>1. /\ T \in SUBSET Facts /\ \A f \in Facts : F[f] \in Int
        /\ \A f \in Facts \ T : F[f] = 0
        /\ \A f \in T : amount[f] = F[f]
    BY FactTermsType DEF TimelyTerms, TimelyOne, RepaymentOne, RepaymentOf
  <2> HIDE DEF F, T, amount
  <2>2. SumFunctionOnSet(amount, T) = SumFunctionOnSet(F, Facts)
    BY <2>1, FactsFinite, SumSupport
  <2> QED BY <2>2 DEF F, T, amount, Total
<1> QED BY <1>1, <1>2, <1>3

\* What the properties sum over is what the books count.
LEMMA BooksAreSums ==
  ASSUME BooksInv
  PROVE  TotalsAreAppliedFacts /\ ReserveIsCreatedFace /\ ExposureIsOutstanding
<1>1. /\ FactBooks(applications, deals) /\ CreditBooks(credit, deals)
      /\ deals \in [DealIds -> Deal] /\ \A d \in DealIds : TotalsAgree(deals[d], d)
  BY WorldFields DEF BooksInv, Books, DealsInv, TypeOK, DealOK
<1>2. TotalsAreAppliedFacts
  <2>1. AppliedFacts = {f \in Facts : IsApplied(applications, f)}
    BY DEF AppliedFacts, IsApplied
  <2> HIDE DEF AppliedFacts
  <2> QED BY <1>1, <2>1, TotalsOf DEF TotalsAreAppliedFacts, FactBooks
<1>3. ReserveIsCreatedFace
  <2> SUFFICES ASSUME NEW b \in Accounts
               PROVE  credit.reserved[b] =
                        SumFunctionOnSet([d \in DealIds |-> d.terms.faceValue],
                                         BorrowerDeals(b, {"CREATED"}))
    BY DEF ReserveIsCreatedFace
  <2> DEFINE S == DealsBy(b)
             F == ReserveTerms(deals)
             T == BorrowerDeals(b, {"CREATED"})
             face == [d \in DealIds |-> d.terms.faceValue]
  <2>1. IsFiniteSet(S) /\ S \subseteq DealIds
    BY DealsByFinite DEF DealsBy
  <2>2. /\ T \in SUBSET S /\ \A d \in S : F[d] \in Int
        /\ \A d \in S \ T : F[d] = 0
        /\ \A d \in T : face[d] = F[d]
    BY <1>1, DealTermsType DEF ReserveTerms, ReserveOf, BorrowerDeals, DealsBy
  <2> HIDE DEF F, T, S, face
  <2>3. SumFunctionOnSet(face, T) = SumFunctionOnSet(F, S)
    BY <2>1, <2>2, SumSupport
  <2> QED BY <1>1, <2>3 DEF F, T, S, face, CreditBooks
<1>4. ExposureIsOutstanding
  <2> SUFFICES ASSUME NEW b \in Accounts
               PROVE  credit.exposure[b] =
                        SumFunctionOnSet([d \in DealIds |-> Outstanding(d, deals[d].repaidAmount)],
                                         BorrowerDeals(b, {"FINANCED", "DEFAULTED"}))
    BY DEF ExposureIsOutstanding
  <2> DEFINE S == DealsBy(b)
             F == ExposureTerms(deals)
             T == BorrowerDeals(b, {"FINANCED", "DEFAULTED"})
             owed == [d \in DealIds |-> Outstanding(d, deals[d].repaidAmount)]
  <2>1. IsFiniteSet(S) /\ S \subseteq DealIds
    BY DealsByFinite DEF DealsBy
  <2>2. ASSUME NEW d \in S \ T PROVE F[d] = 0
    <3>1. /\ d \in DealIds /\ deals[d] \in Deal /\ TotalsAgree(deals[d], d)
          /\ deals[d].status \notin {"FINANCED", "DEFAULTED"}
      BY <1>1, <2>1 DEF BorrowerDeals, DealsBy
    <3>2. deals[d].repaidAmount \in Nat /\ deals[d].onTimeRepaid \in Nat /\ d.terms.faceValue \in Nat
      BY <3>1, DealIdParts DEF Deal
    <3>3. CASE deals[d].status \in {"PAID_LATE", "PAID_ON_TIME"}
      <4>1. deals[d].repaidAmount >= d.terms.faceValue
        BY <3>1, <3>2, <3>3 DEF TotalsAgree
      <4>2. Outstanding(d, deals[d].repaidAmount) = 0
        BY <3>2, <4>1 DEF Outstanding, Credit!SatSub
      <4> QED BY <3>1, <4>2 DEF ExposureTerms, ExposureOf
    <3>4. CASE deals[d].status \in {"NONE", "CREATED"}
      BY <3>1, <3>4 DEF ExposureTerms, ExposureOf, Financed
    <3> QED BY <3>1, <3>3, <3>4 DEF Deal, Statuses
  <2>3. /\ T \in SUBSET S /\ \A d \in S : F[d] \in Int
        /\ \A d \in T : owed[d] = F[d]
    BY <1>1, DealTermsType DEF ExposureTerms, ExposureOf, Financed, BorrowerDeals, DealsBy
  <2> HIDE DEF F, T, S, owed
  <2>4. SumFunctionOnSet(owed, T) = SumFunctionOnSet(F, S)
    BY <2>1, <2>2, <2>3, SumSupport
  <2> QED BY <1>1, <2>4 DEF F, T, S, owed, CreditBooks
<1> QED BY <1>2, <1>3, <1>4

\* INV-2, INV-9, INV-13, INV-17: every amount in storage is a sum over the
\* facts applied or over the borrower's deals in the statuses that count.
THEOREM AmountsCorrect == Spec => []AmountsAreSums
<1>1. BooksInv => AmountsAreSums
  BY BooksAreSums DEF BooksInv, DealsInv, AmountsAreSums
<1> QED BY <1>1, BooksInvariant, PTL

\* A recorded fact can always be applied: no history of calls makes the credit
\* layer revert under it.
THEOREM FactsNeverStranded == Spec => []NoFactStranded
<1>1. ASSUME BooksInv PROVE NoFactStranded
  <2>1. \A f \in evidence : Apply(World, f) \in Sound(evidence, deals)
    BY <1>1, ApplySound
  <2> QED BY <2>1 DEF NoFactStranded, Sound
<1> QED BY <1>1, BooksInvariant, PTL

\* A submission that decides any of its facts leaves none waiting on a deal
\* that is financed.
THEOREM SubmissionsThorough == Spec => SubmissionLeavesNothingReady
<1> DEFINE Thorough ==
             LET new == evidence' \ evidence
                 decided == {f \in new : applications'[f].state # "UNSEEN"}
             IN  decided # {} =>
                   \A f \in new \ decided : deals'[f.dealId].status \in {"NONE", "CREATED"}
<1>1. ASSUME BooksInv, [Next]_vars PROVE Thorough
  <2>1. CASE evidence' = evidence
    BY <2>1
  <2>2. CASE \E txs \in Verifier!Submissions : SubmitToVerifier(txs)
    <3>1. applications' = applications
      BY <2>2 DEF SubmitToVerifier
    <3>2. \A f \in Facts : f \notin evidence => applications[f].state = "UNSEEN"
      BY <1>1, WorldFields DEF BooksInv, DealsInv, DecidedOK
    <3>3. evidence' \subseteq Facts
      BY <1>1, BooksStep DEF BooksInv, DealsInv, TypeOK
    <3>4. \A f \in evidence' \ evidence : applications'[f].state = "UNSEEN"
      BY <3>1, <3>2, <3>3
    <3> QED BY <3>4
  <2>3. CASE \E txs \in Verifier!Submissions : SubmitAndApply(txs)
    <3>1. PICK txs \in Seq(SourceTxs) : SubmitAndApply(txs)
      BY <2>3, SubmissionType
    <3>2. \A f \in evidence' \ evidence :
             applications'[f].state = "UNSEEN" => MayWait(f, deals'[f.dealId].status)
      BY <1>1, <3>1, SubmitAndApplyCounts
    <3> QED BY <3>2 DEF MayWait
  <2>4. \/ evidence' = evidence
        \/ \E txs \in Verifier!Submissions : SubmitToVerifier(txs) \/ SubmitAndApply(txs)
    BY <1>1 DEF Next, CreateDeal, MarkDefaulted, ApplyEvidence, Attest, vars
  <2> QED BY <2>1, <2>2, <2>3, <2>4
<1> HIDE DEF Thorough
<1>2. BooksInv /\ [Next]_vars => [Thorough]_vars
  BY <1>1
<1>3. Spec => [][Thorough]_vars
  BY <1>2, BooksInvariant, PTL DEF Spec
<1> QED BY <1>3, PTL DEF SubmissionLeavesNothingReady, Thorough

-----------------------------------------------------------------------------
(* Order of delivery. *)

\* A deal's status says whether the facts applied fund it.
LEMMA FundedByFacts ==
  ASSUME BooksInv, NEW d \in DealIds, deals[d].status # "NONE"
  PROVE  /\ Financed(deals[d]) <=> Total(FundingOf(d, AppliedFacts)) >= d.terms.requiredFunding
         /\ d.terms.requiredFunding \in Nat
<1>1. TotalsAgree(deals[d], d)
  BY DEF BooksInv, DealsInv, DealOK
<1>2. deals[d].fundedAmount = Total(FundingOf(d, AppliedFacts))
  BY BooksAreSums DEF TotalsAreAppliedFacts
<1> QED BY <1>1, <1>2, DealIdParts DEF TotalsAgree

\* INV-3, INV-20.  Once no retry changes anything, the facts counted depend on
\* which facts were proven and which deals exist, never on delivery order.
THEOREM OrderForgotten == Spec => []DeliveryOrderForgotten
<1>1. ASSUME BooksInv, \A f \in evidence : Apply(World, f) = World
      PROVE  AppliedFacts = EventuallyCounted
  <2> DEFINE matching == {f \in evidence : Mismatch(f) = "NONE" /\ deals[f.dealId].status # "NONE"}
  <2>1. /\ evidence \subseteq Facts /\ \A f \in Facts : f.dealId \in DealIds
        /\ \A f \in Facts : applications[f].state # "UNSEEN" =>
              /\ f \in evidence /\ deals[f.dealId].status # "NONE"
              /\ applications[f].state = IF Mismatch(f) = "NONE" THEN "APPLIED" ELSE "REJECTED_PERMANENT"
        /\ \A f \in Facts : f.kind \in {"FUNDING", "REPAYMENT"}
    BY <1>1, WorldFields, FactParts DEF BooksInv, DealsInv, TypeOK, DecidedOK
  <2>2. AppliedFacts \subseteq matching /\ matching \subseteq Facts /\ AppliedFacts \subseteq Facts
    BY <2>1 DEF AppliedFacts
  <2>3. EventuallyCounted = {f \in matching :
            \/ f.kind = "FUNDING"
            \/ Total(FundingOf(f.dealId, matching)) >= f.dealId.terms.requiredFunding}
    BY DEF EventuallyCounted
  <2>4. \A f \in matching : applications[f].state = "UNSEEN" => MayWait(f, deals[f.dealId].status)
    BY <1>1, ApplySound, WorldFields
  <2>5. \A f \in matching : f \in AppliedFacts \/ (f.kind = "REPAYMENT" /\ deals[f.dealId].status = "CREATED")
    BY <2>1, <2>2, <2>4 DEF MayWait, AppliedFacts
  <2>6. RepaymentsFinanced(applications, deals)
    BY <1>1, WorldFields DEF BooksInv, Books
  <2>7. \A f \in matching : f.kind = "REPAYMENT" => (f \in AppliedFacts <=> Financed(deals[f.dealId]))
    BY <2>2, <2>5, <2>6 DEF RepaymentsFinanced, Financed, IsApplied, AppliedFacts
  <2> HIDE DEF matching, AppliedFacts
  <2>8. ASSUME NEW f \in matching, f.kind = "REPAYMENT"
        PROVE  f \in AppliedFacts <=>
                 Total(FundingOf(f.dealId, matching)) >= f.dealId.terms.requiredFunding
    <3> DEFINE d == f.dealId
    <3>1. d \in DealIds /\ deals[d].status # "NONE"
      BY <2>1, <2>2 DEF matching
    <3>2. FundingOf(d, matching) = FundingOf(d, AppliedFacts)
      BY <2>2, <2>5 DEF FundingOf
    <3>3. Total(FundingOf(d, matching)) = Total(FundingOf(d, AppliedFacts))
      BY <3>2, Zenon
    <3>4. Financed(deals[d]) <=> Total(FundingOf(d, AppliedFacts)) >= d.terms.requiredFunding
      BY <1>1, <3>1, FundedByFacts
    <3> QED BY <2>7, <2>8, <3>3, <3>4
  <2>9. \A f \in matching : f.kind = "FUNDING" => f \in AppliedFacts
    BY <2>1, <2>2, <2>5
  <2> QED BY <2>1, <2>2, <2>3, <2>8, <2>9
<1>2. BooksInv => DeliveryOrderForgotten
  BY <1>1 DEF DeliveryOrderForgotten
<1> QED BY <1>2, BooksInvariant, PTL

-----------------------------------------------------------------------------
(* The ledger. *)

\* Both modules sum amounts the same way.
LEMMA LedgerTotal == ASSUME NEW F PROVE Ledger!Total(F) = Total(F)
BY DEF Ledger!Total, Ledger!SumFunctionOnSet, Ledger!FoldFunctionOnSet, Ledger!MapThenFoldSet,
       Total, SumFunctionOnSet, FoldFunctionOnSet, MapThenFoldSet

\* A deal whose books are in order has the status the ledger computes.
LEMMA LedgerStatus ==
  ASSUME NEW A, NEW D \in [DealIds -> Deal], FactBooks(A, D), NEW d \in DealIds,
         TotalsAgree(D[d], d), D[d].status # "NONE",
         NEW C, C = {f \in Facts : IsApplied(A, f)},
         NEW X, d \in X <=> D[d].status = "DEFAULTED"
  PROVE  /\ Ledger!Funded(d, C) <=> Financed(D[d])
         /\ Ledger!Repaid(d, C) <=> D[d].repaidAmount >= d.terms.faceValue
         /\ D[d].status = Ledger!StatusOf(d, C, X)
<1> DEFINE deal == D[d]
<1>1. /\ Total(FundingOf(d, C)) = deal.fundedAmount
      /\ Total(RepaymentOf(d, C)) = deal.repaidAmount
      /\ Total({f \in RepaymentOf(d, C) : f.blockHeight <= d.terms.dueBlock}) = deal.onTimeRepaid
  BY TotalsOf DEF FactBooks
<1>2. /\ Ledger!Funded(d, C) <=> deal.fundedAmount >= d.terms.requiredFunding
      /\ Ledger!Repaid(d, C) <=> deal.repaidAmount >= d.terms.faceValue
      /\ Ledger!RepaidOnTime(d, C) <=> deal.onTimeRepaid >= d.terms.faceValue
  <2>1. /\ Ledger!FundingOf(d, C) = FundingOf(d, C)
        /\ Ledger!RepaymentOf(d, C) = RepaymentOf(d, C)
        /\ Ledger!OnTimeOf(d, C) = {f \in RepaymentOf(d, C) : f.blockHeight <= d.terms.dueBlock}
    BY DEF Ledger!FundingOf, Ledger!RepaymentOf, Ledger!OnTimeOf, FundingOf, RepaymentOf
  <2>2. /\ Ledger!Total(Ledger!FundingOf(d, C)) = deal.fundedAmount
        /\ Ledger!Total(Ledger!RepaymentOf(d, C)) = deal.repaidAmount
        /\ Ledger!Total(Ledger!OnTimeOf(d, C)) = deal.onTimeRepaid
    BY <1>1, <2>1, LedgerTotal, Zenon
  <2> QED BY <2>2 DEF Ledger!Funded, Ledger!Repaid, Ledger!RepaidOnTime
<1>3. /\ deal.fundedAmount \in Nat /\ deal.repaidAmount \in Nat /\ deal.onTimeRepaid \in Nat
      /\ d.terms.faceValue \in Nat /\ d.terms.requiredFunding \in Nat
      /\ deal.status \in Statuses
  BY DealIdParts DEF Deal
<1> HIDE DEF deal
<1>4. /\ Financed(deal) <=> Ledger!Funded(d, C)
      /\ deal.status = "PAID_ON_TIME" <=> Ledger!RepaidOnTime(d, C)
      /\ deal.status = "PAID_LATE" <=> Ledger!Repaid(d, C) /\ ~Ledger!RepaidOnTime(d, C)
      /\ Ledger!RepaidOnTime(d, C) => Ledger!Repaid(d, C)
      /\ d \in X <=> deal.status = "DEFAULTED"
  BY <1>2, <1>3 DEF TotalsAgree, deal
<1>5. deal.status = Ledger!StatusOf(d, C, X)
  BY <1>3, <1>4 DEF Ledger!StatusOf, Financed, Statuses, deal
<1> QED BY <1>2, <1>4, <1>5 DEF deal

\* The facts that count are those that name the right parties.
LEMMA PartiesCount ==
  ASSUME NEW f \in Facts, NEW C, Mismatch(f) = "NONE", deals[f.dealId].status # "NONE",
         f.kind = "REPAYMENT" => Ledger!Funded(f.dealId, C)
  PROVE  Ledger!Counts(f, C)
<1>1. f.kind \in {"FUNDING", "REPAYMENT"} /\ f.dealId \in DealIds
  BY FactParts
<1>2. /\ f.kind = "FUNDING" => /\ f.recipient = f.dealId.terms.borrower
                              /\ f.counterparty = f.dealId.terms.designatedInvestor
      /\ f.kind = "REPAYMENT" => f.recipient = f.dealId.terms.designatedInvestor
  BY <1>1 DEF Mismatch
<1> QED BY <1>1, <1>2 DEF Ledger!Counts

\* createDeal opens a deal in the ledger.
LEMMA CreateDealOpens ==
  ASSUME BooksInv, NEW t \in Terms, CreateDeal(t)
  PROVE  \E d \in DealIds : Ledger!Open(d)
<1> DEFINE d == [dealSeq |-> nextDealSeq, terms |-> t]
           x == [NoDeal EXCEPT !.status = "CREATED"]
<1>1. /\ d \in DealIds /\ deals[d] = NoDeal
      /\ d.terms.requiredFunding \in 1..d.terms.faceValue
      /\ deals' = [deals EXCEPT ![d] = x] /\ applications' = applications
      /\ attested' = attested
  BY CreateDealEffect
<1>2. x.status = "CREATED" /\ NoDeal.status = "NONE"
  BY DEF NoDeal
<1>3. deals \in [DealIds -> Deal]
  BY DEF BooksInv, DealsInv, TypeOK
<1> HIDE DEF d, x
<1>4. PICK e \in DealIds : e = d
  BY <1>1
<1>5. \A g \in DealIds : deals'[g].status = IF g = e THEN "CREATED" ELSE deals[g].status
  BY <1>1, <1>2, <1>3, <1>4
<1>6. deals[e].status = "NONE" /\ e.terms.requiredFunding \in 1..e.terms.faceValue
  BY <1>1, <1>2, <1>4
<1>7. AppliedFacts' = AppliedFacts
  BY <1>1 DEF AppliedFacts
<1>8. {g \in DealIds : deals'[g].status = "DEFAULTED"} = {g \in DealIds : deals[g].status = "DEFAULTED"}
  BY <1>5, <1>6
<1>9. [g \in DealIds |-> deals'[g].status] = [[g \in DealIds |-> deals[g].status] EXCEPT ![e] = "CREATED"]
  BY <1>5
<1>10. Ledger!Open(e)
  BY <1>1, <1>6, <1>7, <1>8, <1>9 DEF Ledger!Open
<1> QED BY <1>10

\* markDefaulted puts a deal in default in the ledger.
LEMMA MarkDefaultedDefaults ==
  ASSUME BooksInv, NEW d \in DealIds, MarkDefaulted(d)
  PROVE  Ledger!Default(d)
<1>1. /\ deals[d].status = "FINANCED" /\ attested > d.terms.dueBlock + GracePeriod
      /\ attested' = attested
  BY DEF MarkDefaulted, DefaultThreshold
<1>2. /\ deals' = [deals EXCEPT ![d] = [@ EXCEPT !.status = "DEFAULTED"]]
      /\ applications' = applications
  BY MarkDefaultedEffect
<1>3. deals \in [DealIds -> Deal]
  BY DEF BooksInv, DealsInv, TypeOK
<1>4. \A e \in DealIds : deals'[e].status = IF e = d THEN "DEFAULTED" ELSE deals[e].status
  BY <1>2, <1>3 DEF Deal
<1>5. AppliedFacts' = AppliedFacts
  BY <1>2 DEF AppliedFacts
<1>6. {e \in DealIds : deals'[e].status = "DEFAULTED"}
         = {e \in DealIds : deals[e].status = "DEFAULTED"} \cup {d}
  BY <1>4
<1>7. [e \in DealIds |-> deals'[e].status] = [[e \in DealIds |-> deals[e].status] EXCEPT ![d] = "DEFAULTED"]
  BY <1>4
<1> QED BY <1>1, <1>5, <1>6, <1>7 DEF Ledger!Default

\* A deal that rises is not created by it, and leaves a default only when paid.
LEMMA NoneIsKept ==
  ASSUME NEW s \in Statuses, NEW t \in Statuses, Rises(s, t)
  PROVE  /\ s = "NONE" <=> t = "NONE"
         /\ s = "DEFAULTED" => t \in {"DEFAULTED", "PAID_LATE", "PAID_ON_TIME"}
<1>1. /\ Rank["NONE"] = 0 /\ Rank["CREATED"] = 1 /\ Rank["FINANCED"] = 2
      /\ Rank["DEFAULTED"] = 3 /\ Rank["PAID_LATE"] = 4 /\ Rank["PAID_ON_TIME"] = 5
  BY DEF Rank, Statuses
<1>2. Rank[s] <= Rank[t] /\ (s = "NONE" => t = "NONE")
  BY DEF Rises
<1> QED BY <1>1, <1>2 DEF Statuses

\* submitAndApply and applyEvidence count a set of facts in the ledger.
LEMMA CountingCounts ==
  ASSUME BooksInv, Counting
  PROVE  Ledger!Count
<1> DEFINE C == {f \in Facts : IsApplied(applications', f)}
           X == {d \in DealIds : deals'[d].status = "DEFAULTED"}
<1>1. PICK w \in Sound(evidence', deals) :
         /\ Commit(w)
         /\ \A g \in Facts : applications[g].state # "UNSEEN" => w.applications[g] = applications[g]
  BY DEF Counting
<1>2. /\ w \in Reachable(evidence', deals) /\ ~w.reverted
      /\ deals' = w.deals /\ applications' = w.applications
      /\ \A d \in DealIds : w.deals[d].status = "DEFAULTED" => deals[d].status = "DEFAULTED"
  BY <1>1 DEF Sound, Commit
<1>3. /\ \A d \in DealIds : Rises(deals[d].status, deals'[d].status)
      /\ \A f \in Facts : DecidedOK(w, f, evidence')
      /\ attested' = attested
  BY <1>2 DEF Reachable, Counting
<1>4. /\ FactBooks(applications', deals') /\ RepaymentsFinanced(applications', deals')
      /\ deals' \in [DealIds -> Deal] /\ \A d \in DealIds : TotalsAgree(deals'[d], d)
  <2>1. BooksInv'
    BY CountingBooks
  <2> QED BY <2>1 DEF BooksInv, Books, DealsInv, TypeOK, DealOK, World
<1>5. AppliedFacts' = C
  BY DEF AppliedFacts, IsApplied
<1>6. \A d \in DealIds : deals'[d].status # "NONE" =>
         /\ Ledger!Funded(d, C) <=> Financed(deals'[d])
         /\ Ledger!Repaid(d, C) <=> deals'[d].repaidAmount >= d.terms.faceValue
         /\ deals'[d].status = Ledger!StatusOf(d, C, X)
  <2>1. TAKE d \in DealIds
  <2>2. HAVE deals'[d].status # "NONE"
  <2>3. d \in X <=> deals'[d].status = "DEFAULTED"
    OBVIOUS
  <2>4. C = {f \in Facts : IsApplied(applications', f)} /\ TotalsAgree(deals'[d], d)
    BY <1>4
  <2>5. FactBooks(applications', deals') /\ deals' \in [DealIds -> Deal]
    BY <1>4
  <2> HIDE DEF C, X
  <2> QED BY <2>2, <2>3, <2>4, <2>5, LedgerStatus
<1>7. AppliedFacts \subseteq C /\ C \subseteq Facts
  BY <1>1, <1>2 DEF AppliedFacts, IsApplied
<1>8. \A d \in DealIds : (deals[d].status = "NONE" <=> deals'[d].status = "NONE")
  <2>1. TAKE d \in DealIds
  <2>2. deals[d].status \in Statuses /\ deals'[d].status \in Statuses
    BY <1>4 DEF BooksInv, DealsInv, TypeOK, Deal
  <2>3. Rises(deals[d].status, deals'[d].status)
    BY <1>3
  <2> QED BY <2>2, <2>3, NoneIsKept
<1>9. ASSUME NEW f \in C PROVE Ledger!Counts(f, C)
  <2>1. f \in Facts /\ IsApplied(applications', f) /\ f.dealId \in DealIds
    BY FactParts
  <2>2. Mismatch(f) = "NONE" /\ deals'[f.dealId].status # "NONE"
    BY <1>2, <1>3, <2>1 DEF DecidedOK, IsApplied
  <2>3. f.kind = "REPAYMENT" => Ledger!Funded(f.dealId, C)
    BY <1>4, <1>6, <2>1, <2>2 DEF RepaymentsFinanced
  <2> HIDE DEF C
  <2> QED BY <1>8, <2>1, <2>2, <2>3, PartiesCount
<1>10. X = {d \in {e \in DealIds : deals[e].status = "DEFAULTED"} : ~Ledger!Repaid(d, C)}
  <2>1. ASSUME NEW d \in X PROVE deals[d].status = "DEFAULTED" /\ ~Ledger!Repaid(d, C)
    <3>1. deals'[d] \in Deal /\ d.terms.faceValue \in Nat /\ d \in DealIds
      BY <1>4, DealIdParts
    <3>2. deals'[d].status = "DEFAULTED" /\ TotalsAgree(deals'[d], d)
      BY <1>4
    <3>3. ~(deals'[d].repaidAmount >= d.terms.faceValue)
      BY <3>1, <3>2 DEF TotalsAgree, Deal
    <3> QED BY <1>2, <1>6, <3>2, <3>3
  <2>2. ASSUME NEW d \in DealIds, deals[d].status = "DEFAULTED", ~Ledger!Repaid(d, C)
        PROVE  d \in X
    <3>1. deals'[d] \in Deal /\ d.terms.faceValue \in Nat /\ TotalsAgree(deals'[d], d)
      BY <1>4, DealIdParts
    <3>2. deals'[d].status \in {"DEFAULTED", "PAID_LATE", "PAID_ON_TIME"}
      <4>1. /\ Rises(deals[d].status, deals'[d].status)
            /\ deals[d].status \in Statuses /\ deals'[d].status \in Statuses
        BY <1>3, <2>2, <3>1 DEF Deal, BooksInv, DealsInv, TypeOK
      <4> QED BY <2>2, <4>1, NoneIsKept
    <3>3. ~(deals'[d].repaidAmount >= d.terms.faceValue)
      BY <1>6, <2>2, <3>2
    <3>4. deals'[d].status = "DEFAULTED"
      BY <3>1, <3>2, <3>3 DEF TotalsAgree, Deal
    <3> QED BY <3>4
  <2> HIDE DEF C
  <2> QED BY <2>1, <2>2
<1> HIDE DEF C
<1>11. [d \in DealIds |-> deals'[d].status]
          = [d \in DealIds |-> IF [e \in DealIds |-> deals[e].status][d] = "NONE" THEN "NONE"
                               ELSE Ledger!StatusOf(d, C, X)]
  BY <1>6, <1>8
<1> QED BY <1>3, <1>5, <1>7, <1>9, <1>10, <1>11 DEF Ledger!Count, X

\* The registry implements the ledger: its status is a function of the facts
\* counted, which are counted without order.
THEOREM RegistryImplementsLedger == Spec => ImplementsLedger
<1>1. Init => Ledger!Init
  <2> SUFFICES ASSUME Init PROVE Ledger!Init
    OBVIOUS
  <2>1. /\ deals = [d \in DealIds |-> NoDeal] /\ applications = [f \in Facts |-> Undecided]
        /\ attested = -1
    BY DEF Init, Credit!NoHeight
  <2>2. AppliedFacts = {}
    BY <2>1 DEF AppliedFacts, Undecided
  <2>3. \A d \in DealIds : deals[d].status = "NONE"
    BY <2>1 DEF NoDeal
  <2> QED BY <2>1, <2>2, <2>3 DEF Ledger!Init
<1>2. ASSUME BooksInv, [Next]_vars PROVE [Ledger!Next]_(Ledger!vars)
  <2>1. CASE \E t \in Terms : CreateDeal(t)
    BY <1>2, <2>1, CreateDealOpens DEF Ledger!Next
  <2>2. CASE \E d \in DealIds : MarkDefaulted(d)
    BY <1>2, <2>2, MarkDefaultedDefaults DEF Ledger!Next
  <2>3. CASE \E txs \in Verifier!Submissions : SubmitToVerifier(txs)
    BY <2>3 DEF SubmitToVerifier, Ledger!vars, AppliedFacts
  <2>4. CASE \E txs \in Verifier!Submissions : SubmitAndApply(txs)
    BY <1>2, <2>4, SubmissionType, SubmitAndApplyCounts, CountingCounts DEF Ledger!Next
  <2>5. CASE \E f \in Facts : ApplyEvidence(f)
    BY <1>2, <2>5, ApplyEvidenceCounts, CountingCounts DEF Ledger!Next
  <2>6. CASE \E h \in 0..MaxHeight : Attest(h)
    BY <2>6 DEF Attest, Ledger!Next, Ledger!Attest, AppliedFacts
  <2>7. CASE UNCHANGED vars
    BY <2>7 DEF vars, Ledger!vars, AppliedFacts
  <2> QED BY <1>2, <2>1, <2>2, <2>3, <2>4, <2>5, <2>6, <2>7 DEF Next
<1> QED BY <1>1, <1>2, BooksInvariant, PTL DEF Spec, ImplementsLedger, Ledger!Spec

-----------------------------------------------------------------------------
(* The registry as the worker's model has it.                                *)
(*                                                                           *)
(* The worker names a fact by its transaction and the place of its log; the  *)
(* names and the facts correspond because no two events share an identifier. *)
(* What a transaction decides depends on the status a deal rises to and on   *)
(* what else the transaction brings, and on no total: a deal is financed by  *)
(* the first payment of its designated investor, whatever came before.       *)

\* A payment of the designated investor to the borrower of deal d.
Funds(f, d) == f.kind = "FUNDING" /\ f.dealId = d /\ Mismatch(f) = "NONE"

\* A transaction that decides facts of N and no other, and leaves of N only what has
\* to wait: it decides them by kind, status and what else is in N.
LEMMA CountingDecides ==
  ASSUME BooksInv, Counting, FundingsSuffice, NEW N \in SUBSET Facts,
         \A g \in Facts : g \notin N => applications'[g] = applications[g],
         \A g \in N : applications'[g].state = "UNSEEN" => MayWait(g, deals'[g.dealId].status)
  PROVE  /\ \A d \in DealIds : deals[d].status = "NONE" <=> deals'[d].status = "NONE"
         /\ \A d \in DealIds : Financed(deals'[d]) <=>
               Financed(deals[d]) \/ (deals[d].status # "NONE" /\ \E f \in N : Funds(f, d))
         /\ \A g \in Facts : applications'[g].state # "UNSEEN" <=>
               \/ applications[g].state # "UNSEEN"
               \/ /\ g \in N /\ deals'[g.dealId].status # "NONE"
                  /\ EventKind(g) = "REPAYMENT" => Financed(deals'[g.dealId])
<1>1. PICK w \in Sound(evidence', deals) :
         /\ Commit(w)
         /\ \A g \in Facts : applications[g].state # "UNSEEN" => w.applications[g] = applications[g]
  BY DEF Counting
<1>2. /\ w \in Reachable(evidence', deals) /\ ~w.reverted
      /\ deals' = w.deals /\ applications' = w.applications
  BY <1>1 DEF Sound, Commit
<1>3. /\ \A d \in DealIds : Rises(deals[d].status, deals'[d].status)
      /\ \A g \in Facts : applications[g].state # "UNSEEN" => applications'[g] = applications[g]
  BY <1>1, <1>2 DEF Reachable
<1>4. /\ FactBooks(applications', deals') /\ RepaymentsFinanced(applications', deals')
      /\ deals' \in [DealIds -> Deal] /\ \A d \in DealIds : TotalsAgree(deals'[d], d)
      /\ applications' \in [Facts -> Application]
      /\ \A g \in Facts : applications'[g].state # "UNSEEN" =>
            /\ deals'[g.dealId].status # "NONE"
            /\ applications'[g].state = IF Mismatch(g) = "NONE" THEN "APPLIED" ELSE "REJECTED_PERMANENT"
  <2>1. BooksInv'
    BY CountingBooks
  <2> QED BY <2>1 DEF BooksInv, Books, DealsInv, TypeOK, DealOK, World, DecidedOK
<1>5. /\ FactBooks(applications, deals) /\ deals \in [DealIds -> Deal]
      /\ \A d \in DealIds : TotalsAgree(deals[d], d)
  BY WorldFields DEF BooksInv, Books, DealsInv, TypeOK, DealOK
<1>6. \A d \in DealIds : deals[d].status \in Statuses /\ deals'[d].status \in Statuses
  BY <1>4, <1>5 DEF Deal
<1>7. \A d \in DealIds : deals[d].status = "NONE" <=> deals'[d].status = "NONE"
  BY <1>3, <1>6, NoneIsKept
<1>8. \A d \in DealIds : Financed(deals[d]) => Financed(deals'[d])
  <2>1. /\ Rank["NONE"] = 0 /\ Rank["CREATED"] = 1 /\ Rank["FINANCED"] = 2
        /\ Rank["DEFAULTED"] = 3 /\ Rank["PAID_LATE"] = 4 /\ Rank["PAID_ON_TIME"] = 5
    BY DEF Rank, Statuses
  <2> QED BY <1>3, <1>6, <2>1 DEF Rises, Financed, Statuses
<1>9. ASSUME NEW d \in DealIds, deals[d].status # "NONE", NEW f \in N, Funds(f, d)
      PROVE  Financed(deals'[d])
  <2>1. f \in Facts /\ f.kind = "FUNDING" /\ f.dealId = d /\ Mismatch(f) = "NONE"
    BY <1>9 DEF Funds
  <2>2. deals'[d].status # "NONE"
    BY <1>7, <1>9
  <2>3. IsApplied(applications', f)
    BY <1>4, <2>1, <2>2 DEF MayWait, IsApplied
  <2>4. f.amount >= d.terms.requiredFunding /\ f.amount \in Nat /\ d.terms.requiredFunding \in Nat
    BY <2>1, FactParts, DealIdParts DEF FundingsSuffice
  <2> DEFINE A == applications'
             T == FundingTerms(A, d)
  <2>5. T[f] = f.amount /\ \A g \in Facts : T[g] \in Nat
    BY <2>1, <2>3, FactTermsType DEF FundingTerms, FundingOne
  <2>6. deals'[d].fundedAmount = SumFunctionOnSet(T, Facts)
    BY <1>4 DEF FactBooks
  <2> HIDE DEF T
  <2>7. T[f] <= SumFunctionOnSet(T, Facts) /\ SumFunctionOnSet(T, Facts) \in Nat
    BY <2>1, <2>5, FactsFinite, SumNat
  <2>8. deals'[d].fundedAmount >= d.terms.requiredFunding
    BY <2>4, <2>5, <2>6, <2>7
  <2> QED BY <1>4, <2>2, <2>8 DEF TotalsAgree
<1>10. ASSUME NEW d \in DealIds, Financed(deals'[d]), ~Financed(deals[d])
       PROVE  deals[d].status # "NONE" /\ \E f \in N : Funds(f, d)
  <2>1. deals'[d].status # "NONE" /\ deals[d].status # "NONE"
    BY <1>7, <1>10 DEF Financed
  <2> SUFFICES ASSUME \A f \in N : ~Funds(f, d) PROVE FALSE
    BY <2>1
  <2> DEFINE S == FundingTerms(applications, d)
             T == FundingTerms(applications', d)
  <2>2. ASSUME NEW g \in Facts PROVE FundingOne(applications', g, d) = FundingOne(applications, g, d)
    <3>1. CASE g \notin N
      BY <3>1 DEF FundingOne, IsApplied
    <3>2. CASE g \in N
      <4>1. IsApplied(applications', g) => Mismatch(g) = "NONE"
        BY <1>4 DEF IsApplied
      <4>2. ~(g.kind = "FUNDING" /\ g.dealId = d /\ IsApplied(applications', g))
        BY <3>2, <4>1 DEF Funds
      <4>3. IsApplied(applications, g) => IsApplied(applications', g)
        BY <1>3 DEF IsApplied
      <4> QED BY <4>2, <4>3 DEF FundingOne
    <3> QED BY <3>1, <3>2
  <2>3. \A g \in Facts : S[g] \in Int /\ T[g] = S[g]
    BY <2>2, FactTermsType DEF FundingTerms
  <2>4. /\ deals'[d].fundedAmount = SumFunctionOnSet(T, Facts)
        /\ deals[d].fundedAmount = SumFunctionOnSet(S, Facts)
    BY <1>4, <1>5 DEF FactBooks
  <2> HIDE DEF S, T
  <2>5. SumFunctionOnSet(T, Facts) = SumFunctionOnSet(S, Facts)
    BY <2>3, FactsFinite, SumSame
  <2> QED BY <1>4, <1>5, <1>10, <2>1, <2>4, <2>5 DEF TotalsAgree
<1>11. ASSUME NEW g \in Facts
       PROVE  applications'[g].state # "UNSEEN" <=>
                \/ applications[g].state # "UNSEEN"
                \/ /\ g \in N /\ deals'[g.dealId].status # "NONE"
                   /\ EventKind(g) = "REPAYMENT" => Financed(deals'[g.dealId])
  <2>1. g.dealId \in DealIds /\ g.kind \in {"FUNDING", "REPAYMENT"}
    BY FactParts
  <2>2. deals'[g.dealId].status \in Statuses
    BY <1>6, <2>1
  <2>3. EventKind(g) = "REPAYMENT" <=> g.kind = "REPAYMENT" /\ Mismatch(g) = "NONE"
    BY <2>1 DEF EventKind
  <2>4. applications[g].state # "UNSEEN" => applications'[g].state # "UNSEEN"
    BY <1>3
  <2>5. ASSUME g \in N, deals'[g.dealId].status # "NONE",
               EventKind(g) = "REPAYMENT" => Financed(deals'[g.dealId])
        PROVE  applications'[g].state # "UNSEEN"
    <3>1. ~MayWait(g, deals'[g.dealId].status)
      BY <2>3, <2>5 DEF MayWait, Financed
    <3> QED BY <2>5, <3>1
  <2>6. ASSUME applications'[g].state # "UNSEEN", applications[g].state = "UNSEEN"
        PROVE  /\ g \in N /\ deals'[g.dealId].status # "NONE"
               /\ EventKind(g) = "REPAYMENT" => Financed(deals'[g.dealId])
    <3>1. g \in N
      BY <2>6
    <3>2. deals'[g.dealId].status # "NONE"
      BY <1>4, <2>6
    <3>3. EventKind(g) = "REPAYMENT" => Financed(deals'[g.dealId])
      BY <1>4, <2>3, <2>6 DEF RepaymentsFinanced, IsApplied
    <3> QED BY <3>1, <3>2, <3>3
  <2> QED BY <2>4, <2>5, <2>6
<1> QED BY <1>7, <1>8, <1>9, <1>10, <1>11

-----------------------------------------------------------------------------
(* Names of facts. *)

\* What a name of the worker stands for.
LEMMA FactIdParts ==
  ASSUME NEW id \in FactIds
  PROVE  /\ id.tx \in ServedTxs /\ id.tx \in SourceTxs
         /\ id.log \in 1..Len(Verifier!FactsOf(id.tx))
         /\ id = [tx |-> id.tx, inc |-> 1, log |-> id.log]
         /\ FactAt(id) \in ToSet(Verifier!FactsOf(id.tx)) /\ FactAt(id) \in Facts
<1>1. \E t \in ServedTxs : \E k \in 1..Len(Verifier!FactsOf(t)) : id = [tx |-> t, inc |-> 1, log |-> k]
  BY DEF FactIds
<1>t. PICK t \in ServedTxs : \E k \in 1..Len(Verifier!FactsOf(t)) : id = [tx |-> t, inc |-> 1, log |-> k]
  BY <1>1
<1>k. PICK k \in 1..Len(Verifier!FactsOf(t)) : id = [tx |-> t, inc |-> 1, log |-> k]
  BY <1>t
<1>2. t \in SourceTxs
  BY DEF ServedTxs
<1> DEFINE s == Verifier!FactsOf(t)
<1>3. s \in Seq(ToSet(s))
  BY <1>2, FactsOfEffect
<1> HIDE DEF s
<1>4. s[k] \in ToSet(s)
  BY <1>k, <1>3 DEF s, ToSet
<1>5. ToSet(s) \subseteq Facts
  BY <1>2 DEF Facts, s
<1> QED BY <1>k, <1>2, <1>4, <1>5 DEF FactAt, s

\* The facts of a served transaction have names.
LEMMA FactsHaveIds ==
  ASSUME NEW t \in ServedTxs, NEW f \in ToSet(Verifier!FactsOf(t))
  PROVE  \E id \in FactIds : id.tx = t /\ FactAt(id) = f
<1> DEFINE s == Verifier!FactsOf(t)
<1>1. t \in SourceTxs
  BY DEF ServedTxs
<1>2. s \in Seq(ToSet(s))
  BY <1>1, FactsOfEffect
<1> HIDE DEF s
<1>3. PICK k \in 1..Len(s) : f = s[k]
  BY <1>2 DEF ToSet, s
<1> DEFINE id == [tx |-> t, inc |-> 1, log |-> k]
<1>4. id \in FactIds
  BY <1>3 DEF FactIds, s
<1>5. id.tx = t /\ FactAt(id) = f
  BY <1>3 DEF FactAt, s
<1> QED BY <1>4, <1>5

\* A fact belongs to one transaction, at one place.
LEMMA FactOfOne ==
  ASSUME EventsAreNumbered, NEW s \in SourceTxs, NEW t \in SourceTxs,
         NEW i \in 1..Len(Verifier!FactsOf(s)), NEW j \in 1..Len(Verifier!FactsOf(t)),
         Verifier!FactsOf(s)[i] = Verifier!FactsOf(t)[j]
  PROVE  s = t /\ i = j
BY DEF EventsAreNumbered

\* Two names stand for two facts.
LEMMA FactAtInjective ==
  ASSUME EventsAreNumbered, NEW x \in FactIds, NEW y \in FactIds, FactAt(x) = FactAt(y)
  PROVE  x = y
<1>1. /\ x.tx \in SourceTxs /\ x.log \in 1..Len(Verifier!FactsOf(x.tx))
      /\ x = [tx |-> x.tx, inc |-> 1, log |-> x.log]
      /\ y.tx \in SourceTxs /\ y.log \in 1..Len(Verifier!FactsOf(y.tx))
      /\ y = [tx |-> y.tx, inc |-> 1, log |-> y.log]
  BY FactIdParts
<1>2. Verifier!FactsOf(x.tx)[x.log] = Verifier!FactsOf(y.tx)[y.log]
  BY DEF FactAt
<1>3. x.tx = y.tx /\ x.log = y.log
  BY <1>1, <1>2, FactOfOne
<1> QED BY <1>1, <1>3

\* The names of the facts of one transaction.
LEMMA IdsAre ==
  ASSUME NEW t \in ServedTxs
  PROVE  Worker!Ids(t, 1) = {id \in FactIds : id.tx = t}
<1>1. Worker!Ids(t, 1) = {[tx |-> t, inc |-> 1, log |-> k] : k \in 1..Len(Verifier!FactsOf(t))}
  BY DEF Worker!Ids, EventLog, EventsOf
<1>2. \A k \in 1..Len(Verifier!FactsOf(t)) : [tx |-> t, inc |-> 1, log |-> k] \in FactIds
  BY DEF FactIds
<1>3. \A id \in FactIds : id.tx = t =>
         id.log \in 1..Len(Verifier!FactsOf(t)) /\ id = [tx |-> t, inc |-> 1, log |-> id.log]
  BY FactIdParts
<1> QED BY <1>1, <1>2, <1>3

\* What the worker knows of the event of a fact.
LEMMA EventIs ==
  ASSUME NEW id \in FactIds
  PROVE  /\ Worker!EventOf(id).kind = EventKind(FactAt(id))
         /\ Worker!EventOf(id).deal = FactAt(id).dealId
<1>1. id.tx \in ServedTxs /\ id.log \in 1..Len(Verifier!FactsOf(id.tx))
  BY FactIdParts
<1>2. Worker!EventOf(id) = EventsOf(id.tx)[id.log]
  BY <1>1 DEF Worker!EventOf, EventLog
<1> QED BY <1>1, <1>2 DEF EventsOf, FactAt

-----------------------------------------------------------------------------
(* Decisions, as the worker reads them. *)

\* A transaction that decides facts of N and no other does to what the worker reads
\* what applying their names does in the worker's model.
LEMMA ReadAsExpected ==
  ASSUME BooksInv, Counting, FundingsSuffice, NEW N \in SUBSET Facts,
         \A g \in Facts : g \notin N => applications'[g] = applications[g],
         \A g \in N : applications'[g].state = "UNSEEN" => MayWait(g, deals'[g.dealId].status),
         NEW ids \in SUBSET FactIds,
         \A id \in FactIds : id \in ids <=> FactAt(id) \in N,
         \A g \in N : \E id \in ids : FactAt(id) = g,
         NEW r, r = [recorded |-> RegistryRead'.recorded, decided |-> RegistryRead.decided,
                     status |-> RegistryRead.status]
  PROVE  RegistryRead' = Worker!AfterApplying(ids, r)
<1> DEFINE funded == {Worker!EventOf(id).deal : id \in {x \in ids : Worker!EventOf(x).kind = "FUNDING"}}
           status == [d \in DealIds |->
                        IF d \in funded /\ r.status[d] = "CREATED" THEN "FINANCED" ELSE r.status[d]]
           decided == r.decided \cup
                        {id \in ids : Worker!Decides(Worker!EventOf(id), status[Worker!EventOf(id).deal])}
<1>1. Worker!AfterApplying(ids, r) = [recorded |-> r.recorded, decided |-> decided, status |-> status]
  <2>1. Worker!AfterApplying(ids, r) = [r EXCEPT !.status = status, !.decided = @ \cup
           {id \in ids : Worker!Decides(Worker!EventOf(id), status[Worker!EventOf(id).deal])}]
    BY DEF Worker!AfterApplying
  <2> HIDE DEF status
  <2> QED BY <2>1
<1>2. /\ \A d \in DealIds : deals[d].status = "NONE" <=> deals'[d].status = "NONE"
      /\ \A d \in DealIds : Financed(deals'[d]) <=>
            Financed(deals[d]) \/ (deals[d].status # "NONE" /\ \E f \in N : Funds(f, d))
      /\ \A g \in Facts : applications'[g].state # "UNSEEN" <=>
            \/ applications[g].state # "UNSEEN"
            \/ /\ g \in N /\ deals'[g.dealId].status # "NONE"
               /\ EventKind(g) = "REPAYMENT" => Financed(deals'[g.dealId])
  BY CountingDecides
<1>3. ASSUME NEW d \in DealIds PROVE d \in funded <=> \E f \in N : Funds(f, d)
  <2>1. \A f \in Facts : Funds(f, d) <=> EventKind(f) = "FUNDING" /\ f.dealId = d
    BY FactParts DEF Funds, EventKind
  <2>2. ASSUME NEW id \in ids, Worker!EventOf(id).kind = "FUNDING", d = Worker!EventOf(id).deal
        PROVE  \E f \in N : Funds(f, d)
    <3>1. FactAt(id) \in N /\ EventKind(FactAt(id)) = "FUNDING" /\ FactAt(id).dealId = d
      BY <2>2, EventIs
    <3> QED BY <2>1, <3>1
  <2>3. ASSUME NEW f \in N, Funds(f, d) PROVE d \in funded
    <3>1. PICK id \in ids : FactAt(id) = f
      OBVIOUS
    <3>2. Worker!EventOf(id).kind = "FUNDING" /\ Worker!EventOf(id).deal = d
      BY <2>1, <2>3, <3>1, EventIs
    <3> QED BY <3>2
  <2> QED BY <2>2, <2>3
<1>4. \A d \in DealIds :
         RegistryRead.status[d] = IF Financed(deals[d]) THEN "FINANCED" ELSE deals[d].status
  BY DEF RegistryRead, WasFinanced, Financed
<1>5. /\ \A d \in DealIds :
            RegistryRead'.status[d] = IF Financed(deals'[d]) THEN "FINANCED" ELSE deals'[d].status
      /\ RegistryRead'.status = [d \in DealIds |-> RegistryRead'.status[d]]
  BY DEF RegistryRead, WasFinanced, Financed
<1> HIDE DEF funded
<1>6. ASSUME NEW d \in DealIds PROVE RegistryRead'.status[d] = status[d]
  <2>1. r.status[d] = IF Financed(deals[d]) THEN "FINANCED" ELSE deals[d].status
    BY <1>4
  <2>2. /\ ~Financed(deals[d]) => deals[d].status \in {"NONE", "CREATED"}
        /\ ~Financed(deals'[d]) => deals'[d].status \in {"NONE", "CREATED"}
        /\ Financed(deals[d]) => deals[d].status # "NONE"
        /\ Financed(deals'[d]) => deals'[d].status # "NONE"
    BY DEF Financed
  <2>3. RegistryRead'.status[d] = IF Financed(deals'[d]) THEN "FINANCED" ELSE deals'[d].status
    BY <1>5
  <2> QED BY <1>2, <1>3, <2>1, <2>2, <2>3
<1>7. RegistryRead'.status = status
  BY <1>5, <1>6
<1>8. /\ RegistryRead.decided = {id \in FactIds : applications[FactAt(id)].state # "UNSEEN"}
      /\ RegistryRead'.decided = {id \in FactIds : applications'[FactAt(id)].state # "UNSEEN"}
      /\ RegistryRead' = [recorded |-> RegistryRead'.recorded, decided |-> RegistryRead'.decided,
                          status |-> RegistryRead'.status]
  BY DEF RegistryRead
<1> HIDE DEF status
<1>9. ASSUME NEW id \in FactIds PROVE id \in RegistryRead'.decided <=> id \in decided
  <2> DEFINE g == FactAt(id)
  <2>1. g \in Facts /\ g.dealId \in DealIds
    BY FactIdParts, FactParts
  <2>2. Worker!EventOf(id).kind = EventKind(g) /\ Worker!EventOf(id).deal = g.dealId
    BY EventIs
  <2>3. status[g.dealId] = IF Financed(deals'[g.dealId]) THEN "FINANCED" ELSE deals'[g.dealId].status
    BY <1>5, <1>7, <2>1
  <2>4. Worker!Decides(Worker!EventOf(id), status[g.dealId]) <=>
           deals'[g.dealId].status # "NONE" /\ (EventKind(g) = "REPAYMENT" => Financed(deals'[g.dealId]))
    BY <2>2, <2>3 DEF Worker!Decides, Financed
  <2>5. id \in decided <=>
           applications[g].state # "UNSEEN" \/ (g \in N /\ Worker!Decides(Worker!EventOf(id), status[g.dealId]))
    BY <1>8, <2>2
  <2>6. id \in RegistryRead'.decided <=> applications'[g].state # "UNSEEN"
    BY <1>8
  <2> QED BY <1>2, <2>1, <2>4, <2>5, <2>6
<1>10. RegistryRead'.decided = decided
  BY <1>8, <1>9
<1> QED BY <1>1, <1>7, <1>8, <1>10

-----------------------------------------------------------------------------
(* Submissions. *)

\* Every recorded fact is of a transaction the worker serves.
EvidenceServed == \A f \in evidence : \E t \in ServedTxs : f \in ToSet(Verifier!FactsOf(t))

\* The facts of a submission are those of its transactions.
LEMMA SubmittedAre ==
  ASSUME NEW txs \in Seq(SourceTxs), NEW f
  PROVE  f \in ToSet(Verifier!SubmittedFacts(txs)) <=>
            \E i \in 1..Len(txs) : f \in ToSet(Verifier!FactsOf(txs[i]))
<1> DEFINE per == [i \in 1..Len(txs) |-> Verifier!FactsOf(txs[i])]
<1>1. ASSUME NEW tx \in SourceTxs PROVE Verifier!FactsOf(tx) \in Seq(Facts)
  <2> DEFINE s == Verifier!FactsOf(tx)
  <2>1. s \in Seq(ToSet(s))
    BY FactsOfEffect
  <2>2. ToSet(s) \subseteq Facts
    BY DEF Facts
  <2> HIDE DEF s
  <2>3. s \in Seq(Facts)
    BY <2>1, <2>2
  <2> QED BY <2>3 DEF s
<1>2. Len(txs) \in Nat /\ \A i \in 1..Len(txs) : txs[i] \in SourceTxs
  OBVIOUS
<1>3. per \in Seq(Seq(Facts)) /\ Len(per) = Len(txs)
  <2>1. \A i \in 1..Len(txs) : Verifier!FactsOf(txs[i]) \in Seq(Facts)
    BY <1>1, <1>2
  <2> QED BY <1>2, <2>1
<1>4. \A i \in 1..Len(txs) : per[i] = Verifier!FactsOf(txs[i])
  OBVIOUS
<1>5. Verifier!SubmittedFacts(txs) = FlattenSeq(per)
  BY DEF Verifier!SubmittedFacts, Verifier!FlattenSeq, FlattenSeq, per
<1> HIDE DEF per
<1>6. ToSet(FlattenSeq(per)) = ElementsUpto(per, Len(per))
  BY <1>3, FlattenEffect
<1> QED BY <1>3, <1>4, <1>5, <1>6 DEF ElementsUpto

\* What the verifier accepts is of transactions the worker serves.
LEMMA AcceptedServed ==
  ASSUME NEW txs \in Seq(SourceTxs), Verifier!MaySubmit(txs), NEW i \in 1..Len(txs)
  PROVE  txs[i] \in ServedTxs /\ txs[i].height <= attested
BY DEF Verifier!MaySubmit, Verifier!Provable, ServedTxs

\* Nothing else is ever recorded.
LEMMA EvidenceServedStep ==
  ASSUME EvidenceServed, [Next]_vars
  PROVE  EvidenceServed'
<1>1. ASSUME NEW txs \in Seq(SourceTxs), Verifier!SubmitEvidence(txs) PROVE EvidenceServed'
  <2>1. Verifier!MaySubmit(txs) /\ evidence' = evidence \cup ToSet(Verifier!SubmittedFacts(txs))
    BY <1>1 DEF Verifier!SubmitEvidence, Verifier!Recorded, Verifier!ToSet, ToSet
  <2>2. ASSUME NEW f \in ToSet(Verifier!SubmittedFacts(txs))
        PROVE  \E t \in ServedTxs : f \in ToSet(Verifier!FactsOf(t))
    <3>1. PICK i \in 1..Len(txs) : f \in ToSet(Verifier!FactsOf(txs[i]))
      BY SubmittedAre
    <3> QED BY <2>1, <3>1, AcceptedServed
  <2> QED BY <2>1, <2>2 DEF EvidenceServed
<1>2. CASE \E txs \in Verifier!Submissions : SubmitToVerifier(txs) \/ SubmitAndApply(txs)
  BY <1>1, <1>2, SubmissionType DEF SubmitToVerifier, SubmitAndApply
<1>3. CASE evidence' = evidence
  BY <1>3 DEF EvidenceServed
<1> QED BY <1>2, <1>3 DEF Next, CreateDeal, MarkDefaulted, ApplyEvidence, Attest, vars

\* The transactions of a submission, and the names of their facts.
TxsIn(txs) == {txs[i] : i \in 1..Len(txs)}
IdsIn(txs) == UNION {Worker!Ids(t, 1) : t \in TxsIn(txs)}

\* The names of a submission: those of its facts, which are the new ones.
LEMMA SubmittedNames ==
  ASSUME EventsAreNumbered, BooksInv, NEW txs \in Seq(SourceTxs), Verifier!SubmitEvidence(txs)
  PROVE  LET new == ToSet(Verifier!SubmittedFacts(txs))
             S == TxsIn(txs)
             ids == IdsIn(txs)
         IN  /\ S \in SUBSET ServedTxs /\ ids \in SUBSET FactIds
             /\ \A id \in FactIds : id \in ids <=> FactAt(id) \in new
             /\ \A g \in new : \E id \in ids : FactAt(id) = g
             /\ \A t \in S : Worker!Recordable(t, 1, RegistryRead)
             /\ RegistryRead'.recorded = RegistryRead.recorded \cup ids
<1> DEFINE new == ToSet(Verifier!SubmittedFacts(txs))
           S == TxsIn(txs)
           ids == IdsIn(txs)
<1>s. \A t : t \in S <=> \E i \in 1..Len(txs) : t = txs[i]
  BY DEF TxsIn
<1>i. \A id : id \in ids <=> \E t \in S : id \in Worker!Ids(t, 1)
  BY DEF IdsIn
<1>1. Verifier!MaySubmit(txs)
  BY DEF Verifier!SubmitEvidence
<1>2. new \cap evidence = {} /\ evidence' = evidence \cup new
  BY AcceptedFacts
<1>3. \A f : f \in new <=> \E i \in 1..Len(txs) : f \in ToSet(Verifier!FactsOf(txs[i]))
  BY SubmittedAre
<1> HIDE DEF new, S, ids
<1>4. S \in SUBSET ServedTxs /\ \A t \in S : t \in SourceTxs /\ t.height <= attested
  BY <1>1, <1>s, AcceptedServed DEF ServedTxs
<1>5. \A f : f \in new <=> \E t \in S : f \in ToSet(Verifier!FactsOf(t))
  BY <1>3, <1>s
<1>6. \A id : id \in ids <=> id \in FactIds /\ id.tx \in S
  <2>1. \A t \in S : Worker!Ids(t, 1) = {id \in FactIds : id.tx = t}
    BY <1>4, IdsAre
  <2> QED BY <1>i, <2>1
<1>7. ASSUME NEW id \in FactIds PROVE id \in ids <=> FactAt(id) \in new
  <2>1. /\ id.tx \in SourceTxs /\ id.log \in 1..Len(Verifier!FactsOf(id.tx))
        /\ FactAt(id) \in ToSet(Verifier!FactsOf(id.tx))
    BY FactIdParts
  <2>2. ASSUME NEW t \in S, FactAt(id) \in ToSet(Verifier!FactsOf(t)) PROVE id.tx = t
    <3>1. PICK y \in FactIds : y.tx = t /\ FactAt(y) = FactAt(id)
      BY <1>4, <2>2, FactsHaveIds
    <3>2. y = id
      BY <3>1, FactAtInjective
    <3> QED BY <3>1, <3>2
  <2> QED BY <1>5, <1>6, <2>1, <2>2
<1>8. ASSUME NEW g \in new PROVE \E id \in ids : FactAt(id) = g
  <2>1. PICK t \in S : g \in ToSet(Verifier!FactsOf(t))
    BY <1>5
  <2>2. PICK id \in FactIds : id.tx = t /\ FactAt(id) = g
    BY <1>4, <2>1, FactsHaveIds
  <2> QED BY <1>6, <2>2
<1>9. ids \in SUBSET FactIds
  BY <1>6
<1>10. RegistryRead'.recorded = RegistryRead.recorded \cup ids
  <2>1. /\ RegistryRead.recorded = {id \in FactIds : FactAt(id) \in evidence}
        /\ RegistryRead'.recorded = {id \in FactIds : FactAt(id) \in evidence'}
    BY DEF RegistryRead
  <2> QED BY <1>2, <1>7, <1>9, <2>1
<1>11. ASSUME NEW t \in S PROVE Worker!Recordable(t, 1, RegistryRead)
  <2>1. Worker!Ids(t, 1) \subseteq ids
    BY <1>i
  <2>2. RegistryRead.recorded = {id \in FactIds : FactAt(id) \in evidence}
    BY DEF RegistryRead
  <2>3. Worker!Ids(t, 1) \cap RegistryRead.recorded = {}
    BY <1>2, <1>7, <1>9, <2>1, <2>2
  <2>4. <<t, 1>> \in {<<x, 1>> : x \in {y \in ServedTxs : y.height <= attested}}
    BY <1>4
  <2> QED BY <2>3, <2>4 DEF Worker!Recordable
<1> QED BY <1>4, <1>7, <1>8, <1>9, <1>10, <1>11 DEF new, S, ids

\* submitAndApply and submitAndApplyBatch.
LEMMA SubmitAndApplyServes ==
  ASSUME EventsAreNumbered, FundingsSuffice, BooksInv, NEW txs \in Seq(SourceTxs), SubmitAndApply(txs)
  PROVE  \E S \in SUBSET RecordableTxs : Submitted(S)
<1>1. PICK S : S = TxsIn(txs)
  OBVIOUS
<1>2. PICK ids : ids = IdsIn(txs)
  OBVIOUS
<1>i. ids = UNION {Worker!Ids(t, 1) : t \in S}
  BY <1>1, <1>2 DEF IdsIn
<1>3. PICK new : new = ToSet(Verifier!SubmittedFacts(txs))
  OBVIOUS
<1>4. Verifier!SubmitEvidence(txs)
  BY DEF SubmitAndApply
<1>5. /\ S \in SUBSET ServedTxs /\ ids \in SUBSET FactIds
      /\ \A id \in FactIds : id \in ids <=> FactAt(id) \in new
      /\ \A g \in new : \E id \in ids : FactAt(id) = g
      /\ \A t \in S : Worker!Recordable(t, 1, RegistryRead)
      /\ RegistryRead'.recorded = RegistryRead.recorded \cup ids
  BY <1>1, <1>2, <1>3, <1>4, SubmittedNames
<1>6. /\ Counting
      /\ \A g \in Facts : g \notin new => applications'[g] = applications[g]
      /\ \A g \in new : applications'[g].state = "UNSEEN" => MayWait(g, deals'[g.dealId].status)
  BY <1>3, SubmitAndApplyCounts
<1>7. new \in SUBSET Facts
  BY <1>3, SubmittedType
<1>8. PICK r : r = [RegistryRead EXCEPT !.recorded = @ \cup ids]
  OBVIOUS
<1>9. r = [recorded |-> RegistryRead'.recorded, decided |-> RegistryRead.decided,
           status |-> RegistryRead.status]
  BY <1>5, <1>8 DEF RegistryRead
<1>10. RegistryRead' = Worker!AfterApplying(ids, r)
  BY <1>5, <1>6, <1>7, <1>9, ReadAsExpected
<1>11. S \in SUBSET RecordableTxs
  BY <1>5 DEF RecordableTxs
<1> QED BY <1>i, <1>8, <1>10, <1>11 DEF Submitted

\* submitEvidence called directly on the verifier.
LEMMA SubmitToVerifierServes ==
  ASSUME EventsAreNumbered, BooksInv, NEW txs \in Seq(SourceTxs), SubmitToVerifier(txs)
  PROVE  \E S \in SUBSET RecordableTxs : Submitted(S)
<1>1. PICK S : S = TxsIn(txs)
  OBVIOUS
<1>2. PICK ids : ids = IdsIn(txs)
  OBVIOUS
<1>i. ids = UNION {Worker!Ids(t, 1) : t \in S}
  BY <1>1, <1>2 DEF IdsIn
<1>3. /\ Verifier!SubmitEvidence(txs) /\ deals' = deals /\ applications' = applications
  BY DEF SubmitToVerifier
<1>4. /\ S \in SUBSET ServedTxs
      /\ \A t \in S : Worker!Recordable(t, 1, RegistryRead)
      /\ RegistryRead'.recorded = RegistryRead.recorded \cup ids
  BY <1>1, <1>2, <1>3, SubmittedNames
<1>5. RegistryRead' = [RegistryRead EXCEPT !.recorded = @ \cup ids]
  <2>1. /\ RegistryRead = [recorded |-> RegistryRead.recorded, decided |-> RegistryRead.decided,
                          status |-> RegistryRead.status]
        /\ RegistryRead' = [recorded |-> RegistryRead'.recorded, decided |-> RegistryRead'.decided,
                          status |-> RegistryRead'.status]
    BY DEF RegistryRead
  <2>2. RegistryRead'.decided = RegistryRead.decided /\ RegistryRead'.status = RegistryRead.status
    BY <1>3 DEF RegistryRead, WasFinanced
  <2> QED BY <1>4, <2>1, <2>2
<1>6. S \in SUBSET RecordableTxs
  BY <1>4 DEF RecordableTxs
<1> QED BY <1>i, <1>5, <1>6 DEF Submitted

\* applyEvidence.
LEMMA ApplyEvidenceServes ==
  ASSUME FundingsSuffice, BooksInv, EvidenceServed, EventsAreNumbered,
         NEW f \in Facts, ApplyEvidence(f)
  PROVE  \E id \in FactIds : Worker!OutsiderApplies(id)
<1> DEFINE w == Apply(World, f)
<1>1. /\ f \in evidence /\ Commit(w) /\ evidence' = evidence /\ attested' = attested
  BY DEF ApplyEvidence
<1>2. PICK t \in ServedTxs : f \in ToSet(Verifier!FactsOf(t))
  BY <1>1 DEF EvidenceServed
<1>3. PICK id \in FactIds : FactAt(id) = f
  BY <1>2, FactsHaveIds
<1>4. PICK ids : ids = {id}
  OBVIOUS
<1>5. PICK N : N = {f}
  OBVIOUS
<1>6. PICK r : r = RegistryRead
  OBVIOUS
<1>7. \A x \in FactIds : x \in ids <=> FactAt(x) \in N
  BY <1>3, <1>4, <1>5, FactAtInjective
<1>8. /\ \A g \in Facts : g # f \/ applications[g].state # "UNSEEN" => w.applications[g] = applications[g]
      /\ w.applications[f].state = "UNSEEN" => w = World /\ MayWait(f, deals[f.dealId].status)
  BY <1>1, ApplySound
<1> HIDE DEF w
<1>9. applications' = w.applications /\ (w = World => deals' = deals)
  BY <1>1 DEF Commit, World
<1>10. /\ \A g \in Facts : g \notin N => applications'[g] = applications[g]
       /\ \A g \in N : applications'[g].state = "UNSEEN" => MayWait(g, deals'[g.dealId].status)
  BY <1>5, <1>8, <1>9
<1>11. RegistryRead'.recorded = RegistryRead.recorded /\ id \in RegistryRead.recorded
  BY <1>1, <1>3 DEF RegistryRead
<1>12. r = [recorded |-> RegistryRead'.recorded, decided |-> RegistryRead.decided,
            status |-> RegistryRead.status]
  BY <1>6, <1>11 DEF RegistryRead
<1>13. N \in SUBSET Facts /\ ids \in SUBSET FactIds /\ \A g \in N : \E x \in ids : FactAt(x) = g
  BY <1>3, <1>4, <1>5
<1>14. RegistryRead' = Worker!AfterApplying(ids, r)
  BY <1>7, <1>10, <1>12, <1>13, ApplyEvidenceCounts, ReadAsExpected
<1> QED BY <1>1, <1>4, <1>6, <1>11, <1>14 DEF Worker!OutsiderApplies

\* createDeal.
LEMMA CreateDealServes ==
  ASSUME BooksInv, NEW t \in Terms, CreateDeal(t)
  PROVE  \E d \in DealIds : Worker!OpenDeal(d)
<1>1. PICK d : d = [dealSeq |-> nextDealSeq, terms |-> t]
  OBVIOUS
<1>2. PICK x : x = [NoDeal EXCEPT !.status = "CREATED"]
  OBVIOUS
<1>3. /\ d \in DealIds /\ deals[d] = NoDeal
      /\ deals' = [deals EXCEPT ![d] = x] /\ applications' = applications
      /\ evidence' = evidence /\ attested' = attested
  BY <1>1, <1>2, CreateDealEffect
<1>4. deals \in [DealIds -> Deal] /\ deals[d].status = "NONE" /\ x.status = "CREATED"
  BY <1>2, <1>3 DEF BooksInv, DealsInv, TypeOK, NoDeal
<1>5. /\ RegistryRead.status = [e \in DealIds |-> IF WasFinanced(e) THEN "FINANCED" ELSE deals[e].status]
      /\ RegistryRead'.status = [e \in DealIds |-> IF WasFinanced(e)' THEN "FINANCED" ELSE deals'[e].status]
  BY DEF RegistryRead
<1>6. /\ ~WasFinanced(d) /\ ~WasFinanced(d)' /\ deals'[d].status = "CREATED"
      /\ \A e \in DealIds : e # d => (WasFinanced(e)' <=> WasFinanced(e)) /\ deals'[e] = deals[e]
  BY <1>3, <1>4 DEF WasFinanced
<1>7. RegistryRead.status[d] = "NONE"
  BY <1>3, <1>4, <1>5, <1>6
<1>8. RegistryRead'.status = [RegistryRead.status EXCEPT ![d] = "CREATED"]
  BY <1>3, <1>5, <1>6
<1>9. /\ RegistryRead = [recorded |-> RegistryRead.recorded, decided |-> RegistryRead.decided,
                          status |-> RegistryRead.status]
      /\ RegistryRead' = [recorded |-> RegistryRead'.recorded, decided |-> RegistryRead'.decided,
                          status |-> RegistryRead'.status]
      /\ RegistryRead'.recorded = RegistryRead.recorded /\ RegistryRead'.decided = RegistryRead.decided
  BY <1>3 DEF RegistryRead
<1>10. RegistryRead' = [RegistryRead EXCEPT !.status[d] = "CREATED"]
  BY <1>8, <1>9
<1> QED BY <1>3, <1>7, <1>10 DEF Worker!OpenDeal

\* A default and an attestation change nothing the worker reads of the registry.
LEMMA OtherStepsUnread ==
  ASSUME BooksInv,
         \/ \E d \in DealIds : MarkDefaulted(d)
         \/ \E h \in 0..MaxHeight : Attest(h)
         \/ UNCHANGED vars
  PROVE  UNCHANGED RegistryRead
<1>1. CASE \E d \in DealIds : MarkDefaulted(d)
  <2>1. PICK d \in DealIds : MarkDefaulted(d)
    BY <1>1
  <2>2. deals[d].status = "FINANCED" /\ evidence' = evidence
    BY <2>1 DEF MarkDefaulted
  <2>3. deals' = [deals EXCEPT ![d] = [@ EXCEPT !.status = "DEFAULTED"]] /\ applications' = applications
    BY <2>1, MarkDefaultedEffect
  <2>4. deals \in [DealIds -> Deal]
    BY DEF BooksInv, DealsInv, TypeOK
  <2>5. /\ deals'[d].status = "DEFAULTED"
        /\ \A e \in DealIds : e # d => deals'[e] = deals[e]
    BY <2>3, <2>4 DEF Deal
  <2>6. \A e \in DealIds : (IF WasFinanced(e)' THEN "FINANCED" ELSE deals'[e].status)
                             = (IF WasFinanced(e) THEN "FINANCED" ELSE deals[e].status)
    BY <2>2, <2>5 DEF WasFinanced
  <2> QED BY <2>2, <2>3, <2>6 DEF RegistryRead
<1>2. CASE \E h \in 0..MaxHeight : Attest(h)
  BY <1>2 DEF Attest, RegistryRead, WasFinanced
<1>3. CASE UNCHANGED vars
  BY <1>3 DEF vars, RegistryRead, WasFinanced
<1> QED BY <1>1, <1>2, <1>3

\* Every step of the registry is one the worker's model has.
LEMMA StepServes ==
  ASSUME EventsAreNumbered, FundingsSuffice, BooksInv, EvidenceServed, [Next]_vars
  PROVE  [ExpectedStep]_RegistryRead
<1>1. CASE \E t \in Terms : CreateDeal(t)
  BY <1>1, CreateDealServes DEF ExpectedStep
<1>2. CASE \E txs \in Verifier!Submissions : SubmitToVerifier(txs) \/ SubmitAndApply(txs)
  BY <1>2, SubmissionType, SubmitToVerifierServes, SubmitAndApplyServes DEF ExpectedStep
<1>3. CASE \E f \in Facts : ApplyEvidence(f)
  BY <1>3, ApplyEvidenceServes DEF ExpectedStep
<1>4. CASE \/ \E d \in DealIds : MarkDefaulted(d)
           \/ \E h \in 0..MaxHeight : Attest(h)
           \/ UNCHANGED vars
  BY <1>4, OtherStepsUnread
<1> QED BY <1>1, <1>2, <1>3, <1>4 DEF Next

\* An empty registry and a source chain of which nothing is attested.
LEMMA InitServes ==
  ASSUME Init
  PROVE  Worker!ChainsInit /\ EvidenceServed
<1>1. /\ deals = [d \in DealIds |-> NoDeal] /\ applications = [f \in Facts |-> Undecided]
      /\ evidence = {} /\ attested = -1
  BY DEF Init, Credit!NoHeight
<1>2. ASSUME NEW t \in ServedTxs PROVE ~(t.height <= attested)
  <2> DEFINE s == Verifier!FactsOf(t)
  <2>1. t \in SourceTxs /\ s # <<>> /\ s \in Seq(ToSet(s))
    BY FactsOfEffect DEF ServedTxs
  <2>2. \A f \in ToSet(s) : f \in Facts /\ f.blockHeight = t.height
    BY <2>1, FactHeight
  <2> HIDE DEF s
  <2>3. s[1] \in ToSet(s)
    BY <2>1 DEF ToSet
  <2>4. t.height \in 0..MaxHeight /\ MaxHeight \in Nat
    BY <2>2, <2>3, DealsConstants
  <2> QED BY <1>1, <2>4
<1>3. RegistryRead = NothingRead
  <2>1. \A id \in FactIds : applications[FactAt(id)].state = "UNSEEN"
    BY <1>1, FactIdParts DEF Undecided
  <2>2. \A d \in DealIds : ~WasFinanced(d) /\ deals[d].status = "NONE"
    BY <1>1 DEF WasFinanced, NoDeal
  <2> QED BY <1>1, <2>1, <2>2 DEF RegistryRead, NothingRead
<1>4. /\ [t \in ServedTxs |-> IF t.height <= attested THEN [now |-> 1, last |-> 1]
                                                     ELSE [now |-> 0, last |-> 0]]
           = [t \in ServedTxs |-> [now |-> 0, last |-> 0]]
      /\ {<<t, 1>> : t \in {x \in ServedTxs : x.height <= attested}} = {}
  BY <1>2
<1>5. Worker!ChainsInit
  BY <1>3, <1>4 DEF Worker!ChainsInit, NothingRead
<1> QED BY <1>1, <1>5 DEF EvidenceServed

-----------------------------------------------------------------------------
(* When a submission succeeds. *)

\* A submission of one transaction has its facts.
LEMMA OneSubmitted ==
  ASSUME NEW t \in SourceTxs
  PROVE  Verifier!SubmittedFacts(<<t>>) = Verifier!FactsOf(t)
<1> DEFINE per == [i \in 1..Len(<<t>>) |-> Verifier!FactsOf(<<t>>[i])]
           s == Verifier!FactsOf(t)
<1>1. Verifier!SubmittedFacts(<<t>>) = FlattenSeq(per)
  BY DEF Verifier!SubmittedFacts, Verifier!FlattenSeq, FlattenSeq, per
<1>2. s \in Seq(ToSet(s))
  BY FactsOfEffect
<1>3. Len(<<t>>) = 1 /\ <<t>>[1] = t
  OBVIOUS
<1>4. per = [i \in 1..1 |-> s]
  <2>1. \A i \in 1..1 : <<t>>[i] = t
    BY <1>3
  <2> QED BY <1>3, <2>1
<1> HIDE DEF per, s
<1>f. PICK F : F = ToSet(s)
  OBVIOUS
<1>5. per \in Seq(Seq(F)) /\ Len(per) = 1 /\ per[1] = s
  <2>1. PICK W : W = Seq(F)
    OBVIOUS
  <2>2. s \in W
    BY <1>2, <1>f, <2>1
  <2>3. PICK one \in Nat : one = 1
    OBVIOUS
  <2>4. per = [i \in 1..one |-> s]
    BY <1>4, <2>3
  <2>5. per \in Seq(W) /\ Len(per) = one /\ \A i \in 1..one : per[i] = s
    BY <2>2, <2>4
  <2> QED BY <2>1, <2>3, <2>5
<1>6. \E h : Flattens(h, per) /\ FlattenSeq(per) = h[Len(per)]
  <2>1. Len(per) # 0 /\ per \in Seq(Seq(F))
    BY <1>5
  <2> QED BY <2>1, FlattenUnfolds
<1>7. FlattenSeq(per) = s
  BY <1>5, <1>6 DEF Flattens
<1> QED BY <1>1, <1>7 DEF s

\* No state of the registry makes submitAndApply revert once the verifier accepts.
LEMMA AcceptedApplies ==
  ASSUME BooksInv, NEW txs \in Seq(SourceTxs), Verifier!MaySubmit(txs)
  PROVE  ~ApplySubmitted(World, Verifier!SubmittedFacts(txs)).reverted
<1> DEFINE facts == Verifier!SubmittedFacts(txs)
           S == {f \in Facts : f.blockHeight <= attested}
           F == evidence \cup ToSet(facts)
<1>1. /\ facts \in Seq(S) /\ Distinct(facts) /\ ToSet(facts) \cap evidence = {}
      /\ attested \in 0..MaxHeight
  BY AcceptableFacts
<1>2. /\ evidence \subseteq Facts /\ deals \in [DealIds -> Deal] /\ World.applications = applications
      /\ \A f \in Facts : DecidedOK(World, f, evidence)
  BY WorldFields DEF BooksInv, DealsInv, TypeOK
<1> HIDE DEF facts, World
<1>3. /\ ToSet(facts) \subseteq Facts /\ facts \in Seq(ToSet(facts))
      /\ ToSet(facts) = {facts[i] : i \in 1..Len(facts)}
  BY <1>1 DEF ToSet
<1>4. F \in SUBSET Facts /\ facts \in Seq(F) /\ evidence \subseteq F
  BY <1>2, <1>3
<1> HIDE DEF F, S
<1>5. World \in Sound(F, deals)
  BY <1>4, WorldSound
<1>6. \A i \in 1..Len(facts) : World.applications[facts[i]].state = "UNSEEN"
  <2>1. TAKE i \in 1..Len(facts)
  <2>2. facts[i] \in Facts /\ facts[i] \notin evidence
    BY <1>1, <1>3
  <2> QED BY <1>2, <2>2 DEF DecidedOK
<1>7. ApplySubmitted(World, facts) \in Sound(F, deals)
  BY <1>1, <1>2, <1>4, <1>5, <1>6, SubmissionSound
<1> QED BY <1>7 DEF Sound, facts

\* What the worker counts as new, the verifier does.
LEMMA NewIsNew ==
  ASSUME EventsAreNumbered, BooksInv, EvidenceServed, NEW t \in ServedTxs
  PROVE  Worker!Ids(t, 1) \cap RegistryRead.recorded = {}
            <=> Verifier!AllNew(evidence, Verifier!FactsOf(t))
<1> DEFINE s == Verifier!FactsOf(t)
<1>1. t \in SourceTxs
  BY DEF ServedTxs
<1>2. s \in Seq(ToSet(s)) /\ s = Verifier!FactsOf(t)
  BY <1>1, FactsOfEffect
<1>3. RegistryRead.recorded = {id \in FactIds : FactAt(id) \in evidence}
  BY DEF RegistryRead
<1>4. Worker!Ids(t, 1) = {id \in FactIds : id.tx = t}
  BY IdsAre
<1> HIDE DEF s
<1>5. DOMAIN s = 1..Len(s) /\ ToSet(s) = {s[i] : i \in 1..Len(s)}
  BY <1>2 DEF ToSet
<1>6. Worker!Ids(t, 1) \cap RegistryRead.recorded = {} <=> ToSet(s) \cap evidence = {}
  <2>1. ASSUME NEW f \in ToSet(s), f \in evidence
        PROVE  \E id \in Worker!Ids(t, 1) : id \in RegistryRead.recorded
    <3>1. PICK id \in FactIds : id.tx = t /\ FactAt(id) = f
      BY <1>2, <2>1, FactsHaveIds
    <3> QED BY <1>3, <1>4, <2>1, <3>1
  <2>2. ASSUME NEW id \in Worker!Ids(t, 1), id \in RegistryRead.recorded
        PROVE  \E f \in ToSet(s) : f \in evidence
    <3>1. id \in FactIds /\ id.tx = t /\ FactAt(id) \in evidence
      BY <1>3, <1>4, <2>2
    <3> QED BY <1>2, <3>1, FactIdParts
  <2> QED BY <2>1, <2>2
<1>7. ASSUME ToSet(s) \cap evidence = {} PROVE Verifier!AllNew(evidence, s)
  <2>1. ASSUME NEW i \in 1..Len(s), NEW f \in evidence,
               Verifier!EvidenceIdOf(f) = Verifier!EvidenceIdOf(s[i])
        PROVE  FALSE
    <3>1. PICK u \in ServedTxs : f \in ToSet(Verifier!FactsOf(u))
      BY DEF EvidenceServed
    <3>2. PICK id \in FactIds : FactAt(id) = f
      BY <3>1, FactsHaveIds
    <3>3. /\ id.tx \in SourceTxs /\ id.log \in 1..Len(Verifier!FactsOf(id.tx))
          /\ f = Verifier!FactsOf(id.tx)[id.log]
      BY <3>2, FactIdParts DEF FactAt
    <3>4. id.tx = t /\ id.log = i
      BY <1>1, <1>2, <2>1, <3>3 DEF EventsAreNumbered
    <3>5. f = s[i]
      BY <1>2, <3>3, <3>4
    <3> QED BY <1>5, <1>7, <3>5
  <2>2. \A i, j \in 1..Len(s) :
           i # j => Verifier!EvidenceIdOf(s[i]) # Verifier!EvidenceIdOf(s[j])
    BY <1>1, <1>2 DEF EventsAreNumbered
  <2> QED BY <2>1, <2>2 DEF Verifier!AllNew, Verifier!Seen
<1>8. ASSUME Verifier!AllNew(evidence, s) PROVE ToSet(s) \cap evidence = {}
  BY <1>5, <1>8 DEF Verifier!AllNew, Verifier!Seen
<1> QED BY <1>2, <1>6, <1>7, <1>8

\* The contracts accept a transaction exactly when the worker's model does, so the
\* worker may take a fact it finds recorded for the only cause of a refusal.
THEOREM SubmitsCorrect ==
  ASSUME EventsAreNumbered, 1 <= MAX_BATCH
  PROVE  Spec => []SubmitsAsExpected
<1>1. ASSUME BooksInv, EvidenceServed PROVE SubmitsAsExpected
  <2>1. ASSUME NEW t \in ServedTxs
        PROVE  /\ Worker!Recordable(t, 1, RegistryRead) <=> Verifier!MaySubmit(<<t>>)
               /\ Verifier!MaySubmit(<<t>>) =>
                    ~ApplySubmitted(World, Verifier!SubmittedFacts(<<t>>)).reverted
    <3>1. /\ t \in SourceTxs /\ t.status = 1 /\ Verifier!FactsOf(t) # <<>>
          /\ <<t>> \in Seq(SourceTxs) /\ Len(<<t>>) = 1 /\ <<t>>[1] = t
      BY DEF ServedTxs
    <3>2. <<t, 1>> \in {<<x, 1>> : x \in {y \in ServedTxs : y.height <= attested}} <=> t.height <= attested
      OBVIOUS
    <3>3. Worker!Recordable(t, 1, RegistryRead) <=>
             t.height <= attested /\ Verifier!AllNew(evidence, Verifier!FactsOf(t))
      BY <1>1, <3>2, NewIsNew DEF Worker!Recordable
    <3>4. Verifier!MaySubmit(<<t>>) <=>
             t.height <= attested /\ Verifier!AllNew(evidence, Verifier!FactsOf(t))
      <4>1. Verifier!SubmittedFacts(<<t>>) = Verifier!FactsOf(t)
        BY <3>1, OneSubmitted
      <4>2. 1 \in 1..MAX_BATCH
        BY DealsConstants
      <4>3. \A i \in 1..Len(<<t>>) : <<t>>[i] = t
        BY <3>1
      <4> QED BY <3>1, <4>1, <4>2, <4>3 DEF Verifier!MaySubmit, Verifier!Provable
    <3>5. Verifier!MaySubmit(<<t>>) => ~ApplySubmitted(World, Verifier!SubmittedFacts(<<t>>)).reverted
      BY <1>1, <3>1, AcceptedApplies
    <3> QED BY <3>3, <3>4, <3>5
  <2> QED BY <2>1 DEF SubmitsAsExpected, RecordableTxs
<1>2. Init => BooksInv /\ EvidenceServed
  BY BooksInit, InitServes
<1>3. BooksInv /\ EvidenceServed /\ [Next]_vars => BooksInv' /\ EvidenceServed'
  BY BooksStep, EvidenceServedStep
<1> QED BY <1>1, <1>2, <1>3, PTL DEF Spec

\* The registry of the contracts is the one the worker's model has: whatever is
\* proven, applied, defaulted or attested, in whatever batches, it does and refuses
\* what the worker expects of it.
THEOREM RegistryServesWorker ==
  ASSUME EventsAreNumbered, FundingsSuffice, 1 <= MAX_BATCH
  PROVE  Spec => ServesTheWorker
<1>1. Init => Worker!ChainsInit /\ BooksInv /\ EvidenceServed
  BY BooksInit, InitServes
<1>2. BooksInv /\ EvidenceServed /\ [Next]_vars => BooksInv' /\ EvidenceServed'
  BY BooksStep, EvidenceServedStep
<1>3. BooksInv /\ EvidenceServed /\ [Next]_vars => [ExpectedStep]_RegistryRead
  BY StepServes
<1>4. Spec => []SubmitsAsExpected
  BY SubmitsCorrect
<1> QED BY <1>1, <1>2, <1>3, <1>4, PTL DEF Spec, ServesTheWorker
=============================================================================
