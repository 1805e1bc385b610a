---------------------------- MODULE WorkerChains ----------------------------
(***************************************************************************)
(* The two chains as the worker meets them: source transactions that are   *)
(* included, removed and included again; the evidence and the deals on     *)
(* Creditcoin, in the detail the worker reads; and the fate of the         *)
(* transactions of the worker's own signer.  Other parties submit and      *)
(* apply evidence at any moment.                                           *)
(***************************************************************************)
EXTENDS Integers, SequencesExt

CONSTANTS
    Txs,            \* source transactions
    Deals,
    Logs,           \* Logs[t]: the gateway events of t, in log order
    MaxInclusions,  \* bound: times one transaction is included
    MaxNonce,       \* bound: transactions of the worker's signer
    Faults          \* what may go wrong

VARIABLES
    source,    \* source[t]: the canonical inclusion of t, and the last one it had
    attested,  \* inclusions a proof can be built for
    reg,       \* what the verifier recorded, what the registry made of it
    pool,      \* signer's transactions in the destination mempool
    sent,      \* every transaction ever handed to the network
    mined,     \* confirmed transactions of the signer, in nonce order
    depth,     \* destination blocks built on the block of the last of them
    undo       \* reg before that block

chainVars == <<source, attested, reg, pool, sent, mined, depth, undo>>

\* A funding fact is by the designated investor and reaches the required sum; a
\* misdirected one is a payment the registry rejects once it knows the deal.
Kinds == {"FUNDING", "REPAYMENT", "MISDIRECTED"}

AllFaults == {"crash", "rpc", "call", "drop", "revert", "budget", "expiry",
              "outsider", "reorg", "deepReorg", "destReorg", "foreign", "operator"}

ASSUME ChainsConstants ==
    /\ Logs \in [Txs -> Seq([kind: Kinds, deal: Deals])]
    /\ \A t \in Txs : Len(Logs[t]) > 0
    /\ MaxInclusions \in Nat \ {0}
    /\ MaxNonce \in Nat \ {0}
    /\ Faults \subseteq AllFaults

Inclusions == 1..MaxInclusions

Statuses == {"NONE", "CREATED", "FINANCED"}

\* evidenceIdOf hashes the height and index of the inclusion and the nonce of
\* the event: another inclusion of the same transaction has other identifiers.
Ids(t, i) == {[tx |-> t, inc |-> i, log |-> k] : k \in DOMAIN Logs[t]}
AllIds == UNION {Ids(t, i) : t \in Txs, i \in Inclusions}
EventOf(id) == Logs[id.tx][id.log]

\* A transaction of the signer: submitAndApply of a whole inclusion (log 0), or
\* applyEvidence of one fact.
SignerTxs == {[nonce |-> n, tx |-> t, inc |-> i, log |-> k] :
                n \in 0..MaxNonce, t \in Txs, i \in Inclusions,
                k \in UNION {0..Len(Logs[x]) : x \in Txs}}
NoTx == [nonce |-> -1, tx |-> "none", inc |-> 0, log |-> 0]

-----------------------------------------------------------------------------
(* The registry. *)

\* Whether applying a fact decides it; if not it stays VERIFIED_PENDING.
Decides(event, status) ==
    /\ status # "NONE"
    /\ event.kind = "REPAYMENT" => status = "FINANCED"

\* Facts applied by one call, fundings before repayments.
AfterApplying(ids, r) ==
    LET funded == {EventOf(id).deal : id \in {x \in ids : EventOf(x).kind = "FUNDING"}}
        status == [d \in Deals |-> IF d \in funded /\ r.status[d] = "CREATED"
                                     THEN "FINANCED" ELSE r.status[d]]
    IN [r EXCEPT !.status = status,
                 !.decided = @ \cup {id \in ids :
                                       Decides(EventOf(id), status[EventOf(id).deal])}]

\* All the facts of one inclusion are recorded, or the call reverts.
Recordable(t, i, r) == <<t, i>> \in attested /\ Ids(t, i) \cap r.recorded = {}

AfterRecording(t, i, r) == [r EXCEPT !.recorded = @ \cup Ids(t, i)]

AfterSubmitting(t, i, r) == AfterApplying(Ids(t, i), AfterRecording(t, i, r))

\* What a transaction of the signer does when it is mined.
Succeeds(x) ==
    IF x.log = 0 THEN Recordable(x.tx, x.inc, reg)
                 ELSE [tx |-> x.tx, inc |-> x.inc, log |-> x.log] \in reg.recorded
Effect(x) ==
    IF x.log = 0 THEN AfterSubmitting(x.tx, x.inc, reg)
                 ELSE AfterApplying({[tx |-> x.tx, inc |-> x.inc, log |-> x.log]}, reg)

\* evidenceStateOf; APPLIED and REJECTED_PERMANENT are one state, DECIDED: the
\* worker treats the two alike.
ContractState(id) ==
    CASE id \notin reg.recorded -> "UNSEEN"
      [] id \in reg.decided     -> "DECIDED"
      [] OTHER                  -> "VERIFIED_PENDING"

DealStatus(id) == reg.status[EventOf(id).deal]

LatestNonce == Len(mined)
PendingNonce == LatestNonce + (IF \E x \in pool : x.nonce = LatestNonce THEN 1 ELSE 0)

Mined(x) == \E n \in DOMAIN mined : mined[n].tx = x
ReceiptOk(x) == \E n \in DOMAIN mined : mined[n].tx = x /\ mined[n].ok

\* Two destination blocks are built on the block that holds x.
Confirmed(x) == \E n \in DOMAIN mined : mined[n].tx = x /\ (n < Len(mined) \/ depth = 2)

-----------------------------------------------------------------------------
(* The source chain. *)

Include(t) ==
    /\ source[t].now = 0 /\ source[t].last < MaxInclusions
    /\ source' = [source EXCEPT ![t] = [now |-> source[t].last + 1, last |-> source[t].last + 1]]
    /\ UNCHANGED <<attested, reg, pool, sent, mined, depth, undo>>

\* A reorganization; a "deep" one removes a block that was already attested.
Orphan(t) ==
    /\ source[t].now # 0
    /\ IF <<t, source[t].now>> \in attested THEN "deepReorg" \in Faults ELSE "reorg" \in Faults
    /\ source' = [source EXCEPT ![t].now = 0]
    /\ UNCHANGED <<attested, reg, pool, sent, mined, depth, undo>>

Attest(t) ==
    /\ source[t].now # 0 /\ <<t, source[t].now>> \notin attested
    /\ attested' = attested \cup {<<t, source[t].now>>}
    /\ UNCHANGED <<source, reg, pool, sent, mined, depth, undo>>

-----------------------------------------------------------------------------
(* Other parties on the destination chain. *)

OpenDeal(d) ==
    /\ reg.status[d] = "NONE"
    /\ reg' = [reg EXCEPT !.status[d] = "CREATED"]
    /\ UNCHANGED <<source, attested, pool, sent, mined, depth, undo>>

\* Anyone may submit, through the registry or to the verifier alone.
OutsiderSubmits(t, i) ==
    /\ "outsider" \in Faults
    /\ Recordable(t, i, reg)
    /\ reg' \in {AfterSubmitting(t, i, reg), AfterRecording(t, i, reg)}
    /\ UNCHANGED <<source, attested, pool, sent, mined, depth, undo>>

OutsiderApplies(id) ==
    /\ "outsider" \in Faults
    /\ id \in reg.recorded
    /\ reg' = AfterApplying({id}, reg)
    /\ UNCHANGED <<source, attested, pool, sent, mined, depth, undo>>

-----------------------------------------------------------------------------
(* The signer's transactions. *)

\* The signer's next transaction is mined once the block of the last is final;
\* with "revert" it may also fail for a reason of its own, such as its proof
\* having gone stale.
Mine(x) ==
    /\ x \in pool /\ x.nonce = LatestNonce
    /\ mined = <<>> \/ depth = 2
    /\ \E ok \in {Succeeds(x)} \cup (IF "revert" \in Faults THEN {FALSE} ELSE {}) :
        /\ mined' = Append(mined, [tx |-> x, ok |-> ok])
        /\ reg' = IF ok THEN Effect(x) ELSE reg
    /\ undo' = reg
    /\ depth' = 0
    /\ pool' = pool \ {x}
    /\ UNCHANGED <<source, attested, sent>>

GrowChain ==
    /\ mined # <<>> /\ depth < 2
    /\ depth' = depth + 1
    /\ UNCHANGED <<source, attested, reg, pool, sent, mined, undo>>

\* The block of the last transaction is replaced, with all that was built on it;
\* the transaction returns to the mempool or is lost.
DestReorg ==
    /\ "destReorg" \in Faults
    /\ mined # <<>> /\ depth < 2 /\ Last(mined).tx # NoTx
    /\ mined' = Front(mined)
    /\ reg' = undo
    /\ depth' = 2
    /\ pool' \in {pool, pool \cup {Last(mined).tx}}
    /\ UNCHANGED <<source, attested, sent, undo>>

Drop(x) ==
    /\ "drop" \in Faults
    /\ x \in pool
    /\ pool' = pool \ {x}
    /\ UNCHANGED <<source, attested, reg, sent, mined, depth, undo>>

\* The nonce is consumed by a transaction the worker did not sign.
ForeignTransaction ==
    /\ "foreign" \in Faults
    /\ mined = <<>> \/ depth = 2
    /\ LatestNonce < MaxNonce
    /\ mined' = Append(mined, [tx |-> NoTx, ok |-> TRUE])
    /\ pool' = {x \in pool : x.nonce > LatestNonce}
    /\ depth' = 2
    /\ undo' = reg
    /\ UNCHANGED <<source, attested, reg, sent>>

\* The network receives a transaction, unless it is too late for its nonce.
Receive(x) ==
    /\ pool' = IF x.nonce < LatestNonce THEN pool ELSE pool \cup {x}
    /\ sent' = sent \cup {x}

-----------------------------------------------------------------------------

ChainsTypeOK ==
    /\ source \in [Txs -> [now: 0..MaxInclusions, last: 0..MaxInclusions]]
    /\ attested \subseteq Txs \X Inclusions
    /\ {reg, undo} \subseteq
         [recorded: SUBSET AllIds, decided: SUBSET AllIds, status: [Deals -> Statuses]]
    /\ pool \subseteq SignerTxs
    /\ sent \subseteq SignerTxs
    /\ mined \in Seq([tx: SignerTxs \cup {NoTx}, ok: BOOLEAN])
    /\ depth \in 0..2

ChainsInit ==
    /\ source = [t \in Txs |-> [now |-> 0, last |-> 0]]
    /\ attested = {}
    /\ reg = [recorded |-> {}, decided |-> {}, status |-> [d \in Deals |-> "NONE"]]
    /\ undo = reg
    /\ pool = {} /\ sent = {} /\ mined = <<>> /\ depth = 2

ChainsStep ==
    \/ \E t \in Txs : Include(t) \/ Orphan(t) \/ Attest(t)
    \/ \E d \in Deals : OpenDeal(d)
    \/ \E t \in Txs, i \in Inclusions : OutsiderSubmits(t, i)
    \/ \E id \in AllIds : OutsiderApplies(id)
    \/ \E x \in pool : Mine(x) \/ Drop(x)
    \/ GrowChain
    \/ DestReorg
    \/ ForeignTransaction
=============================================================================
