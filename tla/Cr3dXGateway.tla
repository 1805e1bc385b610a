---------------------------- MODULE Cr3dXGateway ----------------------------
(***************************************************************************)
(* contracts/Cr3dXGateway.sol on the source chain: fund and repay move the *)
(* token and leave the event that later becomes evidence.  A source        *)
(* transaction may make several gateway calls, and may carry logs of other *)
(* contracts; it succeeds or fails as a whole.                             *)
(***************************************************************************)
EXTENDS Integers, SequencesExt

CONSTANTS
    Accounts,     \* accounts that pay and receive
    ZeroAccount,  \* address(0)
    DealRefs,     \* deal identifiers payers quote
    ZeroDeal,     \* bytes32(0)
    Calls,        \* gateway calls the environment makes
    Supply,       \* initial token balance of every account
    Gateway,      \* the gateway's address
    Stranger,     \* a contract that declares the same events
    MaxTxs,       \* bound: source transactions mined
    MaxCalls      \* bound: gateway calls in one transaction

Kinds == {"FUNDING", "REPAYMENT"}

AllCalls == [kind: Kinds, dealId: DealRefs \cup {ZeroDeal}, sender: Accounts,
             recipient: Accounts \cup {ZeroAccount}, amount: Nat]

ASSUME GatewayConstants ==
    /\ ZeroAccount \notin Accounts /\ ZeroDeal \notin DealRefs
    /\ Gateway # Stranger
    /\ Calls \subseteq AllCalls
    /\ Supply \in Nat
    /\ MaxTxs \in Nat /\ MaxCalls \in Nat \ {0}

VARIABLES
    nonce,    \* Cr3dXGateway.nonce
    balance,  \* the token's balances (external ERC-20)
    chain     \* mined source transactions, in chain order

gatewayVars == <<nonce, balance, chain>>

\* A gateway event: FundingMade or RepaymentMade with its indexed fields.
Event(emitter, call, n) ==
    [emitter |-> emitter, kind |-> call.kind, dealId |-> call.dealId,
     counterparty |-> call.sender, recipient |-> call.recipient,
     amount |-> call.amount, eventNonce |-> n]

\* The token's transferFrom, which the caller may make to itself.
Transfer(held, from, to, amount) ==
    LET debited == [held EXCEPT ![from] = @ - amount]
    IN  [debited EXCEPT ![to] = @ + amount]

\* Mutation: the result of the token transfer is not checked.
BadEmitAndTransfer(w, call) ==
    IF \/ w.reverted
       \/ call.dealId = ZeroDeal \/ call.recipient = ZeroAccount \/ call.amount = 0
    THEN [w EXCEPT !.reverted = TRUE]
    ELSE LET moved == IF w.balance[call.sender] < call.amount THEN 0 ELSE call.amount
         IN  [w EXCEPT !.nonce = @ + 1,
                       !.logs = Append(@, Event(Gateway, call, w.nonce)),
                       !.balance = Transfer(@, call.sender, call.recipient, moved)]

\* fund / repay.  w is the transaction's view of the state; a failed check or
\* a failed safeTransferFrom reverts everything the transaction did.
EmitAndTransfer(w, call) ==
    IF \/ w.reverted
       \/ call.dealId = ZeroDeal \/ call.recipient = ZeroAccount \/ call.amount = 0
       \/ w.balance[call.sender] < call.amount
    THEN [w EXCEPT !.reverted = TRUE]
    ELSE [w EXCEPT !.nonce = @ + 1,
                   !.logs = Append(@, Event(Gateway, call, w.nonce)),
                   !.balance = Transfer(@, call.sender, call.recipient, call.amount)]

\* What a transaction starts from.
Begin(foreign) ==
    [nonce |-> nonce, balance |-> balance, logs |-> foreign, reverted |-> FALSE]

\* The calls of a transaction, one after the other.
Execute(calls, foreign) ==
    LET after[i \in 0..Len(calls)] ==
            IF i = 0 THEN Begin(foreign) ELSE EmitAndTransfer(after[i - 1], calls[i])
    IN  after[Len(calls)]

\* The next transaction joins the current block or opens the next one.
Positions ==
    IF chain = <<>> THEN {[height |-> 1, txIndex |-> 0]}
    ELSE LET tip == Last(chain)
         IN  {[height |-> tip.height, txIndex |-> tip.txIndex + 1],
              [height |-> tip.height + 1, txIndex |-> 0]}

Mine(calls, foreign) ==
    /\ Len(chain) < MaxTxs
    /\ \E p \in Positions :
        LET w == Execute(calls, foreign)
        IN  /\ chain' = Append(chain, [height |-> p.height, txIndex |-> p.txIndex,
                                       status |-> IF w.reverted THEN 0 ELSE 1,
                                       logs |-> IF w.reverted THEN <<>> ELSE w.logs])
            /\ nonce' = IF w.reverted THEN nonce ELSE w.nonce
            /\ balance' = IF w.reverted THEN balance ELSE w.balance

GatewayInit == nonce = 0 /\ balance = [a \in Accounts |-> Supply] /\ chain = <<>>

GatewayNext ==
    \E calls \in UNION {[1..n -> Calls] : n \in 1..MaxCalls} :
        \* another contract may emit a lookalike of the first event just before
        \* it, under the number of the event after it
        \E foreign \in {<<>>, <<Event(Stranger, calls[1], nonce + 1)>>} : Mine(calls, foreign)
=============================================================================
