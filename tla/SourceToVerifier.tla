-------------------------- MODULE SourceToVerifier --------------------------
(***************************************************************************)
(* The path of a payment from Cr3dXGateway to a fact in Cr3dXVerifier: the *)
(* source chain grows, attestation follows it, anyone submits proofs.      *)
(***************************************************************************)
EXTENDS Cr3dXGateway, FiniteSets

CONSTANT MAX_BATCH   \* transactions per submission

ASSUME BatchConstant == MAX_BATCH \in Nat \ {0}

VARIABLES attested, evidence

vars == <<nonce, balance, chain, attested, evidence>>

Verifier == INSTANCE Cr3dXVerifier WITH sourceTxs <- ToSet(chain)

SourceHeight == IF chain = <<>> THEN 0 ELSE Last(chain).height

Init == GatewayInit /\ attested = -1 /\ evidence = {}

\* A block that is attested no longer grows.
SourceStep ==
    /\ GatewayNext
    /\ Last(chain').height > attested
    /\ UNCHANGED <<attested, evidence>>

\* Attestation (external) follows the source chain by jumps of any size.
Attest(h) ==
    /\ attested < h
    /\ attested' = h
    /\ UNCHANGED <<nonce, balance, chain, evidence>>

SubmitEvidence(txs) ==
    /\ Verifier!SubmitEvidence(txs)
    /\ UNCHANGED <<nonce, balance, chain, attested>>

Next ==
    \/ SourceStep
    \/ \E h \in 0..SourceHeight : Attest(h)
    \/ \E txs \in Verifier!Submissions : SubmitEvidence(txs)

Spec == Init /\ [][Next]_vars

-----------------------------------------------------------------------------
(* Properties. *)

TypeOK ==
    /\ nonce \in Nat
    /\ balance \in [Accounts -> Nat]
    /\ attested \in -1..SourceHeight
    /\ \A f \in evidence : f.kind \in Kinds /\ f.amount > 0 /\ f.dealId \in DealRefs

\* Every gateway event on the source chain, with where it was mined.
GatewayEvents ==
    UNION {{[tx |-> chain[i], log |-> chain[i].logs[j]] :
               j \in {k \in 1..Len(chain[i].logs) : chain[i].logs[k].emitter = Gateway}} :
           i \in 1..Len(chain)}

\* The one counter numbers the gateway's events 0, 1, ... with no gap and no
\* repeat, across both kinds, several calls in a transaction and reverts.
EventsNumberedOnce ==
    /\ {e.log.eventNonce : e \in GatewayEvents} = 0..(nonce - 1)
    /\ Cardinality(GatewayEvents) = nonce

SumOf(E) == SumFunctionOnSet([e \in E |-> e.log.amount], E)

\* An event never outlives the payment it describes: the balances are exactly
\* what the events on the chain say was paid.
MoneyMatchesEvents ==
    \A a \in Accounts :
        balance[a] = Supply + SumOf({e \in GatewayEvents : e.log.recipient = a})
                            - SumOf({e \in GatewayEvents : e.log.counterparty = a})

\* The gateway's books: one number per event, and one payment per event.
GatewayBooks == TypeOK /\ EventsNumberedOnce /\ MoneyMatchesEvents

\* The verifier holds no fact but events of the gateway in successful
\* transactions of attested blocks, with their data unchanged.
FactsAreGatewayEvents ==
    evidence \subseteq {Verifier!FactOf(e.tx, e.log) :
                          e \in {x \in GatewayEvents : x.tx.height <= attested}}

\* A submission records every gateway event of a transaction or none of them,
\* so no payment of a recorded transaction is lost for good.
TransactionAllOrNothing ==
    \A i \in 1..Len(chain) :
        LET events == {e \in GatewayEvents : e.tx = chain[i]}
            facts == {Verifier!FactOf(e.tx, e.log) : e \in events}
        IN  /\ facts \subseteq evidence \/ facts \cap evidence = {}
            /\ Cardinality(facts) = Cardinality(events)

\* No payment can be shut out: whatever was submitted before, in whatever
\* batches, an attested transaction not recorded yet is accepted on its own.
NoPaymentBlocked ==
    \A e \in GatewayEvents :
        e.tx.height <= attested /\ Verifier!FactOf(e.tx, e.log) \notin evidence
            => Verifier!MaySubmit(<<e.tx>>)
=============================================================================
