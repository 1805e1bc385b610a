---------------------------- MODULE Cr3dXVerifier ----------------------------
(***************************************************************************)
(* contracts/Cr3dXVerifier.sol: turns proven source transactions into      *)
(* immutable facts.  The source history and the attested height come from  *)
(* outside, so both are variables a composing module supplies; this        *)
(* contract writes evidence only.                                          *)
(***************************************************************************)
EXTENDS Integers, SequencesExt

CONSTANTS
    Gateway,    \* the one emitter whose events count
    MAX_BATCH   \* transactions per batch (10 in the code)

VARIABLES
    sourceTxs,  \* source transactions, as [height, txIndex, status, logs]
    attested,   \* attested source height (external), or -1
    evidence    \* the facts recorded so far

\* Mutation: the identifier leaves out the gateway's counter.
BadEvidenceIdOf(f) == <<f.blockHeight, f.txIndex, f.kind>>

EvidenceIdOf(f) == <<f.blockHeight, f.txIndex, f.kind, f.eventNonce>>

Seen(facts, id) == \E f \in facts : EvidenceIdOf(f) = id

\* Mutation: matching on the event topic alone.
BadIsGatewayLog(log) == log.kind \in {"FUNDING", "REPAYMENT"}

\* Emitter and topic filter: anything else in the receipt is skipped.
IsGatewayLog(log) == log.emitter = Gateway /\ log.kind \in {"FUNDING", "REPAYMENT"}

FactOf(tx, log) ==
    [dealId |-> log.dealId, counterparty |-> log.counterparty, blockHeight |-> tx.height,
     kind |-> log.kind, recipient |-> log.recipient, txIndex |-> tx.txIndex,
     amount |-> log.amount, eventNonce |-> log.eventNonce]

\* Mutation: stopping at the first gateway event.
BadFactsOf(tx) ==
    LET ours == SelectSeq(tx.logs, IsGatewayLog)
    IN  IF ours = <<>> THEN <<>> ELSE <<FactOf(tx, ours[1])>>

\* The facts of one proven transaction, in log order: one for each log of the
\* gateway, none for any other.
FactsOf(tx) ==
    FlattenSeq([i \in 1..Len(tx.logs) |->
        IF IsGatewayLog(tx.logs[i]) THEN <<FactOf(tx, tx.logs[i])>> ELSE <<>>])

\* The facts of a submission, in transaction order and then log order.
SubmittedFacts(txs) == FlattenSeq([i \in 1..Len(txs) |-> FactsOf(txs[i])])

\* The block prover (external) accepts a transaction of an attested block.
Provable(tx) == tx \in sourceTxs /\ tx.height <= attested

\* _record refuses an identifier already present, earlier in the submission too.
AllNew(facts, new) ==
    /\ \A i \in 1..Len(new) : ~Seen(facts, EvidenceIdOf(new[i]))
    /\ \A i, j \in 1..Len(new) : i # j => EvidenceIdOf(new[i]) # EvidenceIdOf(new[j])

MaySubmit(txs) ==
    /\ Len(txs) \in 1..MAX_BATCH
    /\ \A i \in 1..Len(txs) :
        /\ Provable(txs[i])
        /\ txs[i].status = 1
        /\ FactsOf(txs[i]) # <<>>
    /\ AllNew(evidence, SubmittedFacts(txs))

Recorded(facts, txs) == facts \cup ToSet(SubmittedFacts(txs))

\* submitEvidence is the batch of one; both are open to anyone and atomic.
SubmitEvidence(txs) ==
    /\ MaySubmit(txs)
    /\ evidence' = Recorded(evidence, txs)

Submissions == BoundedSeq(sourceTxs, MAX_BATCH)
=============================================================================
