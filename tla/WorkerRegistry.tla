--------------------------- MODULE WorkerRegistry ---------------------------
(***************************************************************************)
(* The two halves of the system put together: the registry of Cr3dXDeals   *)
(* as the worker meets it.  WorkerChains has a registry of its own, in the *)
(* detail the worker reads; here every transaction of the contracts is     *)
(* shown to be one of that registry, and a submission to succeed exactly   *)
(* when the worker's model says so.                                        *)
(***************************************************************************)
EXTENDS Cr3dXDeals

\* What the worker takes up: a transaction with an event of the gateway.
ServedTxs == {t \in SourceTxs : t.status = 1 /\ Verifier!FactsOf(t) # <<>>}

\* A payment between the wrong parties, or one of its kind.
EventKind(f) == IF Mismatch(f) = "NONE" THEN f.kind ELSE "MISDIRECTED"

EventsOf(t) == [k \in 1..Len(Verifier!FactsOf(t)) |->
                  [kind |-> EventKind(Verifier!FactsOf(t)[k]),
                   deal |-> Verifier!FactsOf(t)[k].dealId]]

EventLog == [t \in ServedTxs |-> EventsOf(t)]

\* The worker names a fact by its transaction, the inclusion and the place of its
\* log.  A transaction included again has another height: it is another of SourceTxs.
FactIds == UNION {{[tx |-> t, inc |-> 1, log |-> k] : k \in 1..Len(Verifier!FactsOf(t))} :
                    t \in ServedTxs}
FactAt(id) == Verifier!FactsOf(id.tx)[id.log]

\* What the worker reads: the state of each fact and whether each deal is financed;
\* what became of a financed deal makes no difference to it.
RegistryRead ==
    [recorded |-> {id \in FactIds : FactAt(id) \in evidence},
     decided |-> {id \in FactIds : applications[FactAt(id)].state # "UNSEEN"},
     status |-> [d \in DealIds |-> IF WasFinanced(d) THEN "FINANCED" ELSE deals[d].status]]

NothingRead == [recorded |-> {}, decided |-> {}, status |-> [d \in DealIds |-> "NONE"]]

\* The worker's chains, with this registry and nothing of the worker's own.
Worker == INSTANCE WorkerChains
              WITH Txs <- ServedTxs, Deals <- DealIds,
                   Logs <- EventLog,
                   MaxInclusions <- 1, MaxNonce <- 1, Faults <- {"outsider"},
                   source <- [t \in ServedTxs |->
                                IF t.height <= attested THEN [now |-> 1, last |-> 1]
                                                        ELSE [now |-> 0, last |-> 0]],
                   attested <- {<<t, 1>> : t \in {x \in ServedTxs : x.height <= attested}},
                   reg <- RegistryRead, undo <- NothingRead,
                   pool <- {}, sent <- {}, mined <- <<>>, depth <- 2

-----------------------------------------------------------------------------

\* The source history is one the gateway produces: no two events have the same
\* identifier.  SourceToVerifier shows it of the gateway.
EventsAreNumbered ==
    \A s, t \in SourceTxs :
        \A i \in 1..Len(Verifier!FactsOf(s)), j \in 1..Len(Verifier!FactsOf(t)) :
            Verifier!EvidenceIdOf(Verifier!FactsOf(s)[i]) = Verifier!EvidenceIdOf(Verifier!FactsOf(t)[j])
                => s = t /\ i = j

\* What WorkerChains takes a funding for: one that reaches the required sum.
FundingsSuffice ==
    \A f \in Facts :
        f.kind = "FUNDING" /\ Mismatch(f) = "NONE" => f.amount >= f.dealId.terms.requiredFunding

\* What the worker takes the registry to accept.
RecordableTxs == {t \in ServedTxs : Worker!Recordable(t, 1, RegistryRead)}

\* A submission of several transactions, to the registry or to the verifier alone.
Submitted(S) ==
    LET ids == UNION {Worker!Ids(t, 1) : t \in S}
        recorded == [RegistryRead EXCEPT !.recorded = @ \cup ids]
    IN  RegistryRead' \in {recorded, Worker!AfterApplying(ids, recorded)}

\* What the worker expects of a step of the registry: nothing it reads changes, or
\* a deal is created, transactions are submitted or a recorded fact is applied.
ExpectedStep ==
    \/ UNCHANGED RegistryRead
    \/ \E d \in DealIds : Worker!OpenDeal(d)
    \/ \E S \in SUBSET RecordableTxs : Submitted(S)
    \/ \E id \in FactIds : Worker!OutsiderApplies(id)

\* The contracts accept a transaction exactly when the worker's model does: no state
\* of deals or credit makes submitAndApply revert, and a fact is refused only as a replay.
SubmitsAsExpected ==
    \A t \in ServedTxs :
        t \in RecordableTxs <=>
            /\ Verifier!MaySubmit(<<t>>)
            /\ ~ApplySubmitted(World, Verifier!SubmittedFacts(<<t>>)).reverted

\* Whatever is proven, applied, defaulted or attested, and in whatever batches, the
\* registry does and refuses what the worker's model of it does: Cr3dXDeals.sol
\* under engine.ts.
ServesTheWorker ==
    /\ Worker!ChainsInit
    /\ [][ExpectedStep]_RegistryRead
    /\ []SubmitsAsExpected
=============================================================================
