----------------------- MODULE SourceToVerifier_proofs -----------------------
(***************************************************************************)
(* From a payment on the source chain to a fact, for any number of         *)
(* transactions, calls, accounts and deals: the gateway's books balance,   *)
(* the verifier records gateway events only, whole transactions at a time, *)
(* and shuts no payment out.                                               *)
(***************************************************************************)
EXTENDS SourceToVerifier, FoldLemmas

-----------------------------------------------------------------------------
(* Logs. *)

Logs == [emitter: {Gateway, Stranger}, kind: Kinds, dealId: DealRefs \cup {ZeroDeal},
         counterparty: Accounts, recipient: Accounts \cup {ZeroAccount}, amount: Nat,
         eventNonce: Nat]

\* Where the gateway's events are among the logs of a transaction.
Ours(logs) == {j \in 1..Len(logs) : logs[j].emitter = Gateway}

\* The gateway emits no event of a payment of nothing, to nobody or for no deal.
Checked(log) ==
    log.emitter = Gateway =>
        log.dealId \in DealRefs /\ log.recipient \in Accounts /\ log.amount \in Nat \ {0}

\* The gateway's events carry the numbers m..n-1, each once.
NumbersUsed(logs, m, n) ==
    /\ \A j \in Ours(logs) : logs[j].eventNonce \in m..(n - 1)
    /\ \A k \in m..(n - 1) : \E j \in Ours(logs) : logs[j].eventNonce = k
    /\ \A i, j \in Ours(logs) : logs[i].eventNonce = logs[j].eventNonce => i = j

\* What an event brings account a, less what it takes from it.
Net(log, a) ==
    (IF log.recipient = a THEN log.amount ELSE 0) - (IF log.counterparty = a THEN log.amount ELSE 0)

NetTerms(logs, a) == [j \in 1..Len(logs) |-> Net(logs[j], a)]

\* What the events of a transaction bring account a.
Flow(logs, a) == SumFunctionOnSet(NetTerms(logs, a), Ours(logs))

\* What a log brings is an integer, and the events of a transaction are finitely
\* many.
LEMMA LogsType ==
  ASSUME NEW logs \in Seq(Logs), NEW a
  PROVE  /\ \A j \in 1..Len(logs) : logs[j] \in Logs /\ Net(logs[j], a) \in Int
         /\ IsFiniteSet(Ours(logs)) /\ Flow(logs, a) \in Int
<1>1. Len(logs) \in Nat /\ \A j \in 1..Len(logs) : logs[j] \in Logs
  OBVIOUS
<1>2. \A j \in 1..Len(logs) : logs[j].amount \in Nat
  BY <1>1 DEF Logs
<1>3. \A j \in 1..Len(logs) : Net(logs[j], a) \in Int
  BY <1>2 DEF Net
<1>4. IsFiniteSet(1..Len(logs)) /\ Ours(logs) \subseteq 1..Len(logs)
  BY <1>1, FS_Interval DEF Ours
<1>5. IsFiniteSet(Ours(logs))
  BY <1>4, FS_Subset
<1>6. \A j \in Ours(logs) : NetTerms(logs, a)[j] \in Int
  BY <1>3, <1>4 DEF NetTerms
<1> QED BY <1>1, <1>3, <1>5, <1>6, SumInt DEF Flow

\* One log more.
LEMMA AppendLog ==
  ASSUME NEW logs \in Seq(Logs), NEW log \in Logs, log.emitter = Gateway
  PROVE  LET more == Append(logs, log)
             k == Len(logs) + 1
         IN  /\ more \in Seq(Logs) /\ Len(more) = k /\ more[k] = log
             /\ \A j \in 1..Len(logs) : more[j] = logs[j]
             /\ Ours(more) = Ours(logs) \cup {k} /\ k \notin Ours(logs)
             /\ \A a : Flow(more, a) = Flow(logs, a) + Net(log, a)
<1> DEFINE more == Append(logs, log)
           k == Len(logs) + 1
<1>1. /\ Len(logs) \in Nat /\ more \in Seq(Logs) /\ Len(more) = k /\ more[k] = log
      /\ \A j \in 1..Len(logs) : more[j] = logs[j]
      /\ 1..k = 1..Len(logs) \cup {k} /\ k \notin 1..Len(logs)
  OBVIOUS
<1> HIDE DEF more, k
<1>2. Ours(more) = Ours(logs) \cup {k} /\ k \notin Ours(logs)
  BY <1>1 DEF Ours
<1>3. ASSUME NEW a PROVE Flow(more, a) = Flow(logs, a) + Net(log, a)
  <2> DEFINE F == NetTerms(more, a)
             S == Ours(logs)
  <2>1. /\ \A j \in S : F[j] \in Int /\ NetTerms(logs, a)[j] = F[j]
        /\ F[k] = Net(log, a) /\ F[k] \in Int
    <3>1. /\ \A j \in 1..Len(more) : Net(more[j], a) \in Int
          /\ k \in 1..Len(more)
          /\ \A j \in S : j \in 1..Len(logs) /\ j \in 1..Len(more)
      BY <1>1, LogsType DEF Ours
    <3> QED BY <1>1, <3>1 DEF NetTerms
  <2>2. IsFiniteSet(S)
    BY LogsType
  <2>3. Flow(logs, a) = SumFunctionOnSet(F, S)
    <3>1. SumFunctionOnSet(NetTerms(logs, a), S) = SumFunctionOnSet(F, S)
      <4> HIDE DEF F, S
      <4> QED BY <2>1, <2>2, SumSame
    <3> QED BY <3>1 DEF Flow
  <2>4. SumFunctionOnSet(F, S \cup {k}) = SumFunctionOnSet(F, S) + F[k]
    <3>1. k \notin S /\ \A j \in S \cup {k} : F[j] \in Int
      BY <1>2, <2>1
    <3> HIDE DEF F, S
    <3> QED BY <2>2, <3>1, SumAdd
  <2>5. Flow(more, a) = SumFunctionOnSet(F, S \cup {k})
    BY <1>2, Zenon DEF Flow
  <2> QED BY <2>1, <2>3, <2>4, <2>5
<1> QED BY <1>1, <1>2, <1>3 DEF more, k

-----------------------------------------------------------------------------
(* The calls of one transaction. *)

\* The views of a transaction that began with counter m and balances b: it has
\* reverted, or its events are numbered from m and explain its balances.
Running(m, b) ==
    {w \in [nonce: Nat, balance: [Accounts -> Nat], logs: Seq(Logs), reverted: BOOLEAN] :
        w.reverted \/
            /\ m <= w.nonce /\ NumbersUsed(w.logs, m, w.nonce)
            /\ \A j \in 1..Len(w.logs) : Checked(w.logs[j])
            /\ \A a \in Accounts : w.balance[a] = b[a] + Flow(w.logs, a)}

\* fund and repay keep the view in order, or revert.
LEMMA EmitRuns ==
  ASSUME NEW m \in Nat, NEW b \in [Accounts -> Nat], NEW w \in Running(m, b), NEW call \in Calls
  PROVE  EmitAndTransfer(w, call) \in Running(m, b)
<1> DEFINE n == EmitAndTransfer(w, call)
<1>1. /\ w.nonce \in Nat /\ w.balance \in [Accounts -> Nat] /\ w.logs \in Seq(Logs)
      /\ w.reverted \in BOOLEAN
      /\ w = [nonce |-> w.nonce, balance |-> w.balance, logs |-> w.logs, reverted |-> w.reverted]
  BY DEF Running
<1>2. /\ call.kind \in Kinds /\ call.dealId \in DealRefs \cup {ZeroDeal}
      /\ call.sender \in Accounts /\ call.recipient \in Accounts \cup {ZeroAccount}
      /\ call.amount \in Nat
  BY GatewayConstants DEF AllCalls
<1> DEFINE refused == \/ w.reverted
                      \/ call.dealId = ZeroDeal \/ call.recipient = ZeroAccount \/ call.amount = 0
                      \/ w.balance[call.sender] < call.amount
<1>3. CASE refused
  <2>1. n = [w EXCEPT !.reverted = TRUE]
    BY <1>3 DEF EmitAndTransfer
  <2> QED BY <1>1, <2>1 DEF Running
<1>4. CASE ~refused
  <2> DEFINE log == Event(Gateway, call, w.nonce)
             moved == Transfer(w.balance, call.sender, call.recipient, call.amount)
             more == Append(w.logs, log)
             k == Len(w.logs) + 1
  <2>1. /\ n.nonce = w.nonce + 1 /\ n.logs = more /\ n.balance = moved
        /\ n.reverted = w.reverted /\ n = [nonce |-> n.nonce, balance |-> n.balance,
                                           logs |-> n.logs, reverted |-> n.reverted]
    BY <1>1, <1>4 DEF EmitAndTransfer
  <2>2. /\ ~w.reverted /\ call.dealId \in DealRefs /\ call.recipient \in Accounts
        /\ call.amount \in Nat \ {0} /\ call.amount <= w.balance[call.sender]
    BY <1>1, <1>2, <1>4
  <2>3. /\ log \in Logs /\ log.emitter = Gateway /\ log.eventNonce = w.nonce /\ Checked(log)
        /\ \A a : Net(log, a) = (IF call.recipient = a THEN call.amount ELSE 0)
                                  - (IF call.sender = a THEN call.amount ELSE 0)
    BY <1>1, <1>2, <2>2 DEF Event, Logs, Checked, Net
  <2>4. /\ moved \in [Accounts -> Nat]
        /\ \A a \in Accounts : moved[a] = w.balance[a] + Net(log, a)
    <3> DEFINE debited == [w.balance EXCEPT ![call.sender] = @ - call.amount]
    <3>1. /\ debited \in [Accounts -> Nat]
          /\ \A a \in Accounts :
                debited[a] = w.balance[a] - IF call.sender = a THEN call.amount ELSE 0
      BY <1>1, <1>2, <2>2
    <3>2. moved = [debited EXCEPT ![call.recipient] = @ + call.amount]
      BY DEF Transfer
    <3> HIDE DEF debited, moved
    <3>3. /\ moved \in [Accounts -> Nat]
          /\ \A a \in Accounts :
                moved[a] = debited[a] + IF call.recipient = a THEN call.amount ELSE 0
      BY <2>2, <3>1, <3>2
    <3>4. \A a \in Accounts : moved[a] = w.balance[a] + Net(log, a)
      <4>1. TAKE a \in Accounts
      <4> DEFINE gained == IF call.recipient = a THEN call.amount ELSE 0
                 spent == IF call.sender = a THEN call.amount ELSE 0
      <4>2. gained \in Nat /\ spent \in Nat /\ w.balance[a] \in Nat
        BY <1>1, <1>2
      <4>3. /\ moved[a] = debited[a] + gained /\ debited[a] = w.balance[a] - spent
            /\ Net(log, a) = gained - spent
        BY <2>3, <3>1, <3>3
      <4> HIDE DEF gained, spent, log
      <4> QED BY <4>2, <4>3
    <3> QED BY <3>3, <3>4
  <2>6. /\ m <= w.nonce /\ NumbersUsed(w.logs, m, w.nonce)
        /\ \A j \in 1..Len(w.logs) : Checked(w.logs[j])
        /\ \A a \in Accounts : w.balance[a] = b[a] + Flow(w.logs, a)
    BY <2>2 DEF Running
  <2> HIDE DEF log, moved, n
  <2>7. /\ more \in Seq(Logs) /\ Len(more) = k /\ more[k] = log
        /\ \A j \in 1..Len(w.logs) : more[j] = w.logs[j]
        /\ Ours(more) = Ours(w.logs) \cup {k} /\ k \notin Ours(w.logs)
        /\ \A a : Flow(more, a) = Flow(w.logs, a) + Net(log, a)
    BY <1>1, <2>3, AppendLog
  <2> HIDE DEF more, k
  <2>8. \A a \in Accounts : moved[a] = b[a] + Flow(more, a)
    <3>1. TAKE a \in Accounts
    <3>2. /\ moved[a] = w.balance[a] + Net(log, a) /\ w.balance[a] = b[a] + Flow(w.logs, a)
          /\ Flow(more, a) = Flow(w.logs, a) + Net(log, a)
      BY <2>4, <2>6, <2>7
    <3>3. Flow(w.logs, a) \in Int /\ Net(log, a) \in Int /\ b[a] \in Int
      <4>1. Flow(w.logs, a) \in Int
        BY <1>1, LogsType
      <4> QED BY <1>2, <2>3, <4>1
    <3> QED BY <3>2, <3>3
  <2>9. NumbersUsed(more, m, w.nonce + 1)
    <3>1. /\ \A j \in Ours(w.logs) : j \in 1..Len(w.logs) /\ more[j].eventNonce = w.logs[j].eventNonce
          /\ more[k].eventNonce = w.nonce
      BY <2>3, <2>7 DEF Ours
    <3>2. \A j \in Ours(more) : more[j].eventNonce \in m..((w.nonce + 1) - 1)
      BY <1>1, <2>6, <2>7, <3>1 DEF NumbersUsed
    <3>3. ASSUME NEW x \in m..((w.nonce + 1) - 1) PROVE \E j \in Ours(more) : more[j].eventNonce = x
      <4>1. CASE x = w.nonce
        BY <2>7, <3>1, <4>1
      <4>2. CASE x # w.nonce
        <5>1. x \in m..(w.nonce - 1)
          BY <1>1, <4>2
        <5> QED BY <2>6, <2>7, <3>1, <5>1 DEF NumbersUsed
      <4> QED BY <4>1, <4>2
    <3>4. \A i, j \in Ours(more) : more[i].eventNonce = more[j].eventNonce => i = j
      <4>1. \A j \in Ours(w.logs) : more[j].eventNonce # w.nonce
        BY <1>1, <2>6, <3>1 DEF NumbersUsed
      <4> QED BY <2>6, <2>7, <3>1, <4>1 DEF NumbersUsed
    <3> QED BY <3>2, <3>3, <3>4 DEF NumbersUsed
  <2>10. \A j \in 1..Len(more) : Checked(more[j])
    <3>1. \A j \in 1..Len(more) : j = k \/ j \in 1..Len(w.logs)
      BY <1>1, <2>7 DEF k
    <3> QED BY <2>3, <2>6, <2>7, <3>1
  <2>11. n \in [nonce: Nat, balance: [Accounts -> Nat], logs: Seq(Logs), reverted: BOOLEAN]
    BY <1>1, <2>1, <2>4, <2>7
  <2>12. m <= n.nonce /\ NumbersUsed(n.logs, m, n.nonce)
    BY <1>1, <2>1, <2>6, <2>9
  <2> QED BY <2>1, <2>8, <2>10, <2>11, <2>12 DEF Running, n
<1> QED BY <1>3, <1>4

\* The calls of a transaction, in turn, keep its view in order.
LEMMA ExecuteRuns ==
  ASSUME NEW calls \in Seq(Calls), NEW foreign,
         nonce \in Nat, balance \in [Accounts -> Nat], Begin(foreign) \in Running(nonce, balance)
  PROVE  Execute(calls, foreign) \in Running(nonce, balance)
<1> DEFINE n == Len(calls)
           G == Running(nonce, balance)
           st == [i \in 1..n |-> [u \in G |-> EmitAndTransfer(u, calls[i])]]
           Body(h) == [i \in 0..n |->
                         IF i = 0 THEN Begin(foreign) ELSE EmitAndTransfer(h[i-1], calls[i])]
           after == CHOOSE h : h = Body(h)
<1>1. n \in Nat /\ \A i \in 1..n : calls[i] \in Calls
  OBVIOUS
<1>2. \A i \in 1..n, u \in G : EmitAndTransfer(u, calls[i]) \in G
  BY <1>1, EmitRuns
<1>3. Execute(calls, foreign) = after[n]
  BY DEF Execute
<1>4. Begin(foreign) \in G
  OBVIOUS
<1> HIDE DEF n, G
<1>5. after = Body(after)
  <2>1. /\ st \in [1..n -> [G -> G]]
        /\ \A i \in 1..n, u \in G : st[i][u] = EmitAndTransfer(u, calls[i])
    BY <1>2
  <2> HIDE DEF st
  <2>2. PICK g : Follows(g, G, Begin(foreign), n, st)
    BY <1>1, <1>4, <2>1, RecursionExists
  <2>3. \A i \in 1..n : g[i] = EmitAndTransfer(g[i-1], calls[i])
    BY <1>1, <2>1, <2>2 DEF Follows
  <2>4. g = Body(g)
    BY <1>1, <2>2, <2>3 DEF Follows
  <2> QED BY <2>4
<1> HIDE DEF after
<1> DEFINE T == {i \in Nat : i <= n => after[i] \in G}
<1>6. 0 \in T
  BY <1>1, <1>4, <1>5
<1>7. ASSUME NEW k \in Nat, k \in T PROVE k + 1 \in T
  <2>1. CASE k + 1 <= n
    <3>1. after[k] \in G /\ k + 1 \in 1..n
      BY <1>1, <1>7, <2>1
    <3>2. after[k+1] = EmitAndTransfer(after[k], calls[k+1])
      BY <1>1, <1>5, <3>1
    <3> QED BY <1>2, <3>1, <3>2
  <2>2. CASE ~ (k + 1 <= n)
    BY <2>2
  <2> QED BY <2>1, <2>2
<1> HIDE DEF T
<1>8. Nat \subseteq T
  BY <1>6, <1>7, NatSetInduction
<1>9. after[n] \in G
  BY <1>1, <1>8 DEF T
<1> QED BY <1>3, <1>9 DEF G

\* A transaction that begins with logs of another contract only is in order.
LEMMA BeginRuns ==
  ASSUME nonce \in Nat, balance \in [Accounts -> Nat],
         NEW foreign \in Seq(Logs), Ours(foreign) = {}
  PROVE  Begin(foreign) \in Running(nonce, balance)
<1>1. \A a : Flow(foreign, a) = 0
  BY SumNothing DEF Flow
<1>2. NumbersUsed(foreign, nonce, nonce)
  BY DEF NumbersUsed
<1>3. \A j \in 1..Len(foreign) : Checked(foreign[j])
  BY DEF Ours, Checked
<1>4. \A a \in Accounts : balance[a] = balance[a] + Flow(foreign, a)
  BY <1>1
<1> QED BY <1>2, <1>3, <1>4 DEF Begin, Running

\* The logs of another contract that a transaction may begin with.
LEMMA ForeignLogs ==
  ASSUME NEW n \in Nat, NEW call \in Calls,
         NEW foreign \in {<<>>, <<Event(Stranger, call, n)>>}
  PROVE  foreign \in Seq(Logs) /\ Ours(foreign) = {}
<1>1. /\ call.kind \in Kinds /\ call.dealId \in DealRefs \cup {ZeroDeal}
      /\ call.sender \in Accounts /\ call.recipient \in Accounts \cup {ZeroAccount}
      /\ call.amount \in Nat
  BY GatewayConstants DEF AllCalls
<1>2. CASE foreign = <<>>
  BY <1>2 DEF Ours
<1>3. CASE foreign = <<Event(Stranger, call, n)>>
  <2> DEFINE log == Event(Stranger, call, n)
  <2>1. log \in Logs /\ log.emitter # Gateway
    BY <1>1, GatewayConstants DEF Event, Logs
  <2> HIDE DEF log
  <2>2. foreign = <<log>>
    BY <1>3 DEF log
  <2> QED BY <2>1, <2>2 DEF Ours
<1> QED BY <1>2, <1>3

-----------------------------------------------------------------------------
(* The chain, by its transactions and by its events. *)

Txs == [height: Nat, txIndex: Nat, status: {0, 1}, logs: Seq(Logs)]

EventsIn(t) == {[tx |-> t, log |-> t.logs[j]] : j \in Ours(t.logs)}

EventsOf(c) == UNION {EventsIn(c[i]) : i \in 1..Len(c)}

\* The fact each event of a transaction stands for.
FactsIn(t) == {Verifier!FactOf(t, t.logs[j]) : j \in Ours(t.logs)}

\* What a set of events brings account a.
NetTerm(E, a) == [e \in E |-> Net(e.log, a)]
NetSum(E, a) == SumFunctionOnSet(NetTerm(E, a), E)

\* A reverted transaction has no events; the events of any other are checked and
\* numbered differently.
TxOK(t) ==
    /\ t.logs # <<>> => t.status = 1
    /\ \A j \in 1..Len(t.logs) : Checked(t.logs[j])
    /\ \A i, j \in Ours(t.logs) : t.logs[i].eventNonce = t.logs[j].eventNonce => i = j

\* The events of set E carry the numbers 0..n-1, each once.
Numbered(E, n) ==
    /\ \A e \in E : e.log \in Logs /\ e.log.eventNonce \in 0..(n - 1)
    /\ \A k \in 0..(n - 1) : \E e \in E : e.log.eventNonce = k
    /\ \A e, f \in E : e.log.eventNonce = f.log.eventNonce => e = f

\* Chain c agrees with counter n and balances b.
ChainOK(c, n, b) ==
    /\ n \in Nat /\ b \in [Accounts -> Nat] /\ c \in Seq(Txs)
    /\ \A i \in 1..Len(c) : TxOK(c[i])
    /\ Numbered(EventsOf(c), n)
    /\ \A a \in Accounts : b[a] = Supply + NetSum(EventsOf(c), a)

\* Evidence ev follows chain c up to height h, by whole transactions.
EvidenceOK(c, h, ev) ==
    /\ \A f \in ev : \E e \in EventsOf(c) : e.tx.height <= h /\ f = Verifier!FactOf(e.tx, e.log)
    /\ \A i \in 1..Len(c) : FactsIn(c[i]) \subseteq ev \/ FactsIn(c[i]) \cap ev = {}

(* The inductive invariant.  The properties speak of events and facts as sets; *)
(* it adds that no two events share a number wherever they are, which is what  *)
(* tells a new event from every recorded one.                                  *)
PathInv ==
    /\ ChainOK(chain, nonce, balance)
    /\ attested \in -1..SourceHeight
    /\ EvidenceOK(chain, attested, evidence)

\* The events of a numbered set are finitely many: there are n of them.
LEMMA NumberedFinite ==
  ASSUME NEW n \in Nat, NEW E, Numbered(E, n)
  PROVE  /\ IsFiniteSet(E) /\ Cardinality(E) = n
         /\ {e.log.eventNonce : e \in E} = 0..(n - 1)
<1> DEFINE D == 0..(n - 1)
           number == [e \in E |-> e.log.eventNonce]
<1>1. IsFiniteSet(D) /\ Cardinality(D) = n
  BY FS_Interval
<1>2. /\ \A e \in E : number[e] \in D
      /\ \A e, f \in E : number[e] = number[f] => e = f
      /\ \A k \in D : \E e \in E : number[e] = k
      /\ number \in [E -> D]
  BY DEF Numbered
<1> HIDE DEF number, D
<1>3. number \in Injection(E, D) /\ number \in Surjection(E, D)
  BY <1>2 DEF Injection, IsInjective, Surjection
<1>4. IsFiniteSet(E) /\ Cardinality(E) = Cardinality(D)
  BY <1>1, <1>3, FS_Injection
<1>5. {e.log.eventNonce : e \in E} = D
  BY DEF Numbered, D
<1> QED BY <1>1, <1>4, <1>5 DEF D

\* What a set of events brings an account is an integer.
LEMMA NetSumType ==
  ASSUME NEW E, IsFiniteSet(E), \A e \in E : e.log \in Logs, NEW a
  PROVE  /\ \A e \in E : Net(e.log, a) \in Int /\ NetTerm(E, a)[e] = Net(e.log, a)
         /\ NetSum(E, a) \in Int
<1>1. \A e \in E : Net(e.log, a) \in Int
  BY DEF Logs, Net
<1>2. \A e \in E : NetTerm(E, a)[e] = Net(e.log, a)
  BY DEF NetTerm
<1>3. \A e \in E : NetTerm(E, a)[e] \in Int
  BY <1>1, <1>2
<1>4. NetSum(E, a) \in Int
  BY <1>3, SumInt DEF NetSum
<1> QED BY <1>1, <1>2, <1>4

\* One transaction more on the chain.
LEMMA AppendEvents ==
  ASSUME NEW c \in Seq(Txs), NEW t \in Txs
  PROVE  LET k == Len(c) + 1
         IN  /\ Append(c, t) \in Seq(Txs) /\ Len(Append(c, t)) = k
             /\ Append(c, t)[k] = t
             /\ \A i \in 1..Len(c) : Append(c, t)[i] = c[i]
             /\ 1..k = 1..Len(c) \cup {k}
             /\ EventsOf(Append(c, t)) = EventsOf(c) \cup EventsIn(t)
<1> DEFINE d == Append(c, t)
           k == Len(c) + 1
<1>1. /\ d \in Seq(Txs) /\ Len(d) = k /\ d[k] = t
      /\ \A i \in 1..Len(c) : d[i] = c[i]
      /\ 1..k = 1..Len(c) \cup {k}
  OBVIOUS
<1> HIDE DEF d, k
<1>2. EventsOf(d) = EventsOf(c) \cup EventsIn(t)
  BY <1>1 DEF EventsOf
<1> QED BY <1>1, <1>2 DEF d, k

\* What the events of one transaction bring, as a set and by their positions.
LEMMA EventsInFlow ==
  ASSUME NEW t \in Txs, TxOK(t), NEW a
  PROVE  /\ IsFiniteSet(EventsIn(t)) /\ \A e \in EventsIn(t) : e.log \in Logs
         /\ NetSum(EventsIn(t), a) = Flow(t.logs, a)
<1> DEFINE S == Ours(t.logs)
           g == [j \in S |-> [tx |-> t, log |-> t.logs[j]]]
           h == NetTerms(t.logs, a)
           E == EventsIn(t)
           F == NetTerm(E, a)
<1>1. t.logs \in Seq(Logs)
  BY DEF Txs
<1>2. /\ \A j \in 1..Len(t.logs) : t.logs[j] \in Logs /\ Net(t.logs[j], a) \in Int
      /\ IsFiniteSet(S)
  BY <1>1, LogsType
<1>3. \A j \in S : j \in 1..Len(t.logs) /\ t.logs[j] \in Logs
  BY <1>2 DEF Ours
<1>4. E = {g[j] : j \in S}
  BY DEF EventsIn
<1>5. \A e \in E : e.log \in Logs
  BY <1>3 DEF EventsIn
<1>6. IsFiniteSet(E)
  <2> HIDE DEF S, g, E
  <2> QED BY <1>2, <1>4, FiniteImage
<1>7. \A i, j \in S : g[i] = g[j] => i = j
  <2>1. ASSUME NEW i \in S, NEW j \in S, g[i] = g[j] PROVE i = j
    <3>1. g[i].log = t.logs[i] /\ g[j].log = t.logs[j]
      OBVIOUS
    <3>2. t.logs[i] = t.logs[j]
      BY <2>1, <3>1
    <3>3. t.logs[i].eventNonce = t.logs[j].eventNonce
      BY <3>2
    <3> QED BY <3>3 DEF TxOK
  <2> HIDE DEF g, S
  <2> QED BY <2>1
<1>8. \A j \in S : h[j] \in Int /\ F[g[j]] = h[j]
  <2>1. TAKE j \in S
  <2>2. g[j] \in E /\ g[j].log = t.logs[j]
    BY DEF EventsIn
  <2>3. F[g[j]] = Net(t.logs[j], a)
    <3> HIDE DEF g, E
    <3> QED BY <2>2 DEF NetTerm
  <2>4. h[j] = Net(t.logs[j], a) /\ h[j] \in Int
    BY <1>2, <1>3 DEF NetTerms
  <2> QED BY <2>3, <2>4
<1>9. SumFunctionOnSet(F, {g[j] : j \in S}) = SumFunctionOnSet(h, S)
  <2> HIDE DEF S, g, h, F
  <2> QED BY <1>2, <1>7, <1>8, SumImage
<1>10. SumFunctionOnSet(F, E) = SumFunctionOnSet(F, {g[j] : j \in S})
  BY <1>4, Zenon
<1>11. NetSum(E, a) = Flow(t.logs, a)
  BY <1>9, <1>10 DEF NetSum, Flow
<1> QED BY <1>5, <1>6, <1>11

\* What two sets of events with none in common bring.
LEMMA NetSumUnion ==
  ASSUME NEW E, IsFiniteSet(E), \A e \in E : e.log \in Logs,
         NEW N, IsFiniteSet(N), \A e \in N : e.log \in Logs, E \cap N = {}, NEW a
  PROVE  NetSum(E \cup N, a) = NetSum(E, a) + NetSum(N, a)
<1> DEFINE A == E \cup N
           F == NetTerm(A, a)
           FE == NetTerm(E, a)
           FN == NetTerm(N, a)
<1>1. \A e \in A : Net(e.log, a) \in Int /\ F[e] = Net(e.log, a)
  BY DEF Logs, Net, NetTerm
<1>2. /\ \A e \in A : F[e] \in Int
      /\ \A e \in E : F[e] \in Int /\ FE[e] = F[e]
      /\ \A e \in N : F[e] \in Int /\ FN[e] = F[e]
  BY <1>1 DEF NetTerm
<1> HIDE DEF F, FE, FN
<1>3. SumFunctionOnSet(FE, E) = SumFunctionOnSet(F, E)
  BY <1>2, SumSame
<1>4. SumFunctionOnSet(FN, N) = SumFunctionOnSet(F, N)
  BY <1>2, SumSame
<1>5. SumFunctionOnSet(F, E \cup N) = SumFunctionOnSet(F, E) + SumFunctionOnSet(F, N)
  BY <1>2, SumUnion DEF A
<1>6. /\ NetSum(E \cup N, a) = SumFunctionOnSet(F, E \cup N)
      /\ NetSum(E, a) = SumFunctionOnSet(FE, E) /\ NetSum(N, a) = SumFunctionOnSet(FN, N)
  BY DEF NetSum, F, FE, FN
<1> QED BY <1>3, <1>4, <1>5, <1>6

\* The events of a transaction take the next numbers.
LEMMA AppendNumbered ==
  ASSUME NEW n \in Nat, NEW m \in Nat, n <= m, NEW E, Numbered(E, n),
         NEW t \in Txs, TxOK(t), NumbersUsed(t.logs, n, m)
  PROVE  E \cap EventsIn(t) = {} /\ Numbered(E \cup EventsIn(t), m)
<1> DEFINE N == EventsIn(t)
           S == Ours(t.logs)
<1>1. /\ \A e \in N : \E j \in S : e = [tx |-> t, log |-> t.logs[j]]
      /\ \A j \in S : [tx |-> t, log |-> t.logs[j]] \in N
  BY DEF EventsIn
<1>2. \A e \in N : \E j \in S : e.tx = t /\ e.log = t.logs[j] /\ e = [tx |-> t, log |-> t.logs[j]]
  BY <1>1
<1>3. /\ \A j \in S : t.logs[j].eventNonce \in n..(m - 1)
      /\ \A k \in n..(m - 1) : \E j \in S : t.logs[j].eventNonce = k
      /\ \A i, j \in S : t.logs[i].eventNonce = t.logs[j].eventNonce => i = j
  BY DEF NumbersUsed
<1>4. \A e \in N : e.log \in Logs
  BY EventsInFlow
<1>5. /\ \A e \in E : e.log \in Logs /\ e.log.eventNonce \in 0..(n - 1)
      /\ \A k \in 0..(n - 1) : \E e \in E : e.log.eventNonce = k
      /\ \A e, f \in E : e.log.eventNonce = f.log.eventNonce => e = f
  BY DEF Numbered
<1> HIDE DEF N, S
<1>6. \A e \in N : e.log.eventNonce \in n..(m - 1)
  BY <1>2, <1>3
<1>7. \A k \in n..(m - 1) : \E e \in N : e.log.eventNonce = k
  <2>1. TAKE k \in n..(m - 1)
  <2>2. PICK j \in S : t.logs[j].eventNonce = k
    BY <1>3
  <2> DEFINE e == [tx |-> t, log |-> t.logs[j]]
  <2>3. e \in N /\ e.log.eventNonce = k
    BY <1>1, <2>2
  <2> QED BY <2>3
<1>8. \A e, f \in N : e.log.eventNonce = f.log.eventNonce => e = f
  <2>1. ASSUME NEW e \in N, NEW f \in N, e.log.eventNonce = f.log.eventNonce PROVE e = f
    <3>1. PICK i \in S : e.log = t.logs[i] /\ e = [tx |-> t, log |-> t.logs[i]]
      BY <1>2
    <3>2. PICK j \in S : f.log = t.logs[j] /\ f = [tx |-> t, log |-> t.logs[j]]
      BY <1>2
    <3>3. i = j
      BY <1>3, <2>1, <3>1, <3>2
    <3> QED BY <3>1, <3>2, <3>3
  <2> QED BY <2>1
<1>9. /\ \A k \in 0..(n - 1) : k \in 0..(m - 1) /\ k \notin n..(m - 1)
      /\ \A k \in n..(m - 1) : k \in 0..(m - 1)
      /\ \A k \in 0..(m - 1) : k \in 0..(n - 1) \/ k \in n..(m - 1)
  OBVIOUS
<1>10. E \cap N = {}
  BY <1>5, <1>6, <1>9
<1>11. \A e \in E \cup N : e.log \in Logs /\ e.log.eventNonce \in 0..(m - 1)
  BY <1>4, <1>5, <1>6, <1>9
<1>12. \A k \in 0..(m - 1) : \E e \in E \cup N : e.log.eventNonce = k
  BY <1>5, <1>7, <1>9
<1>13. \A e, f \in E \cup N : e.log.eventNonce = f.log.eventNonce => e = f
  BY <1>5, <1>6, <1>8, <1>9
<1> QED BY <1>10, <1>11, <1>12, <1>13 DEF Numbered, N

\* A transaction whose events are numbered on from the counter, and that moved
\* what they say, leaves the chain in agreement.
LEMMA AppendBooks ==
  ASSUME NEW c, NEW n, NEW b, ChainOK(c, n, b), NEW t \in Txs, TxOK(t),
         NEW m \in Nat, n <= m, NumbersUsed(t.logs, n, m),
         NEW moved \in [Accounts -> Nat], \A a \in Accounts : moved[a] = b[a] + Flow(t.logs, a)
  PROVE  ChainOK(Append(c, t), m, moved)
<1> DEFINE d == Append(c, t)
           k == Len(c) + 1
           E == EventsOf(c)
           N == EventsIn(t)
<1>1. /\ n \in Nat /\ b \in [Accounts -> Nat] /\ c \in Seq(Txs)
      /\ \A i \in 1..Len(c) : TxOK(c[i])
      /\ Numbered(E, n)
      /\ \A a \in Accounts : b[a] = Supply + NetSum(E, a)
  BY DEF ChainOK
<1>2. /\ d \in Seq(Txs) /\ Len(d) = k /\ d[k] = t
      /\ \A i \in 1..Len(c) : d[i] = c[i]
      /\ 1..k = 1..Len(c) \cup {k}
      /\ EventsOf(d) = E \cup N
  BY <1>1, AppendEvents
<1> HIDE DEF d, k, E, N
<1>3. \A i \in 1..Len(d) : TxOK(d[i])
  BY <1>1, <1>2
<1>4. E \cap N = {} /\ Numbered(E \cup N, m)
  BY <1>1, AppendNumbered DEF N
<1>5. Numbered(EventsOf(d), m)
  BY <1>2, <1>4
<1>6. IsFiniteSet(E) /\ \A e \in E : e.log \in Logs
  BY <1>1, NumberedFinite DEF Numbered
<1>7. \A a \in Accounts : moved[a] = Supply + NetSum(EventsOf(d), a)
  <2>1. TAKE a \in Accounts
  <2>2. /\ IsFiniteSet(N) /\ \A e \in N : e.log \in Logs
        /\ NetSum(N, a) = Flow(t.logs, a)
    BY EventsInFlow DEF N
  <2>3. NetSum(E \cup N, a) = NetSum(E, a) + NetSum(N, a)
    BY <1>4, <1>6, <2>2, NetSumUnion
  <2>4. NetSum(E, a) \in Int /\ NetSum(N, a) \in Int
    BY <1>6, <2>2, NetSumType
  <2>5. NetSum(EventsOf(d), a) = NetSum(E \cup N, a)
    BY <1>2, Zenon
  <2>6. moved[a] = b[a] + Flow(t.logs, a) /\ b[a] = Supply + NetSum(E, a)
    BY <1>1
  <2>7. Supply \in Int
    BY GatewayConstants
  <2> QED BY <2>2, <2>3, <2>4, <2>5, <2>6, <2>7
<1> QED BY <1>2, <1>3, <1>5, <1>7 DEF ChainOK, d

\* A new transaction has no fact on record: its events have new numbers.
LEMMA AppendEvidence ==
  ASSUME NEW c, NEW n, NEW b, ChainOK(c, n, b), NEW h, NEW ev, EvidenceOK(c, h, ev),
         NEW t \in Txs, NEW m, NumbersUsed(t.logs, n, m)
  PROVE  EvidenceOK(Append(c, t), h, ev)
<1> DEFINE d == Append(c, t)
           k == Len(c) + 1
<1>1. c \in Seq(Txs) /\ n \in Nat /\ Numbered(EventsOf(c), n)
  BY DEF ChainOK
<1>2. /\ Len(d) = k /\ d[k] = t
      /\ \A i \in 1..Len(c) : d[i] = c[i]
      /\ 1..k = 1..Len(c) \cup {k}
      /\ EventsOf(c) \subseteq EventsOf(d)
  BY <1>1, AppendEvents
<1> HIDE DEF d, k
<1>3. /\ \A f \in ev : \E e \in EventsOf(c) :
            e.tx.height <= h /\ f = Verifier!FactOf(e.tx, e.log)
      /\ \A i \in 1..Len(c) : FactsIn(c[i]) \subseteq ev \/ FactsIn(c[i]) \cap ev = {}
  BY DEF EvidenceOK
<1>4. \A f \in ev : \E e \in EventsOf(d) : e.tx.height <= h /\ f = Verifier!FactOf(e.tx, e.log)
  BY <1>2, <1>3
<1>5. \A f \in ev : f.eventNonce \in 0..(n - 1)
  <2>1. TAKE f \in ev
  <2>2. PICK e \in EventsOf(c) : f = Verifier!FactOf(e.tx, e.log)
    BY <1>3
  <2>3. f.eventNonce = e.log.eventNonce
    BY <2>2 DEF Verifier!FactOf
  <2> QED BY <1>1, <2>3 DEF Numbered
<1>6. \A f \in FactsIn(t) : f.eventNonce \in n..(m - 1)
  <2>1. TAKE f \in FactsIn(t)
  <2>2. PICK j \in Ours(t.logs) : f = Verifier!FactOf(t, t.logs[j])
    BY DEF FactsIn
  <2>3. f.eventNonce = t.logs[j].eventNonce
    BY <2>2 DEF Verifier!FactOf
  <2> QED BY <2>3 DEF NumbersUsed
<1>7. \A x \in 0..(n - 1) : x \notin n..(m - 1)
  BY <1>1
<1>8. FactsIn(t) \cap ev = {}
  BY <1>5, <1>6, <1>7
<1>9. \A i \in 1..Len(d) : FactsIn(d[i]) \subseteq ev \/ FactsIn(d[i]) \cap ev = {}
  <2>1. TAKE i \in 1..Len(d)
  <2>2. CASE i = k
    <3>1. d[i] = t
      BY <1>2, <2>2
    <3> QED BY <1>8, <3>1
  <2>3. CASE i # k
    <3>1. i \in 1..Len(c) /\ d[i] = c[i]
      BY <1>2, <2>3
    <3> QED BY <1>3, <3>1
  <2> QED BY <2>2, <2>3
<1> QED BY <1>4, <1>9 DEF EvidenceOK, d

-----------------------------------------------------------------------------
(* Facts of transactions. *)

\* Sequences of at most one element.
LEMMA ShortSequences ==
  ASSUME NEW F, NEW x
  PROVE  /\ <<>> \in Seq(F) /\ ToSet(<<>>) = {} /\ Distinct(<<>>)
         /\ x \in F => <<x>> \in Seq(F)
         /\ ToSet(<<x>>) = {x} /\ Distinct(<<x>>)
BY DEF ToSet, Distinct

\* FactsOf brings one fact for each event of a transaction, and repeats none.
LEMMA FactsOfEvents ==
  ASSUME NEW t \in Txs
  PROVE  LET s == Verifier!FactsOf(t)
         IN  /\ s \in Seq(FactsIn(t)) /\ ToSet(s) = FactsIn(t)
             /\ TxOK(t) => Distinct(s)
<1> DEFINE Fact(i) == Verifier!FactOf(t, t.logs[i])
           S == Ours(t.logs)
           n == Len(t.logs)
           per == [i \in 1..n |->
                     IF Verifier!IsGatewayLog(t.logs[i]) THEN <<Fact(i)>> ELSE <<>>]
           s == FlattenSeq(per)
           F == FactsIn(t)
<1>1. Verifier!FactsOf(t) = s
  BY DEF Verifier!FactsOf, Verifier!FlattenSeq, FlattenSeq
<1>2. n \in Nat /\ \A i \in 1..n : t.logs[i] \in Logs
  BY DEF Txs
<1>3. \A i \in 1..n : Verifier!IsGatewayLog(t.logs[i]) <=> i \in S
  BY <1>2 DEF Verifier!IsGatewayLog, Ours, Logs, Kinds
<1>4. F = {Fact(i) : i \in S} /\ \A i \in S : i \in 1..n
  BY DEF FactsIn, Ours
<1>5. \A i \in S : Fact(i).eventNonce = t.logs[i].eventNonce
  BY DEF Verifier!FactOf
<1>6. \A i \in 1..n : per[i] = IF i \in S THEN <<Fact(i)>> ELSE <<>>
  BY <1>3
<1>7. per \in [1..n -> Seq(F)]
  <2>1. \A i \in 1..n : per[i] \in Seq(F)
    <3>1. TAKE i \in 1..n
    <3>2. CASE i \in S
      <4>1. Fact(i) \in F
        BY <1>4, <3>2
      <4>2. per[i] = <<Fact(i)>>
        BY <1>6, <3>2
      <4> HIDE DEF Fact, F, per
      <4> QED BY <4>1, <4>2, ShortSequences
    <3>3. CASE i \notin S
      <4>1. per[i] = <<>>
        BY <1>6, <3>3
      <4> HIDE DEF F, per
      <4> QED BY <4>1, ShortSequences
    <3> QED BY <3>2, <3>3
  <2> HIDE DEF F, Fact, S
  <2> QED BY <2>1
<1> HIDE DEF Fact, S, F, n
<1>8. per \in Seq(Seq(F)) /\ Len(per) = n
  <2> HIDE DEF per
  <2> QED BY <1>2, <1>7
<1> HIDE DEF per
<1>9. \A i \in 1..n : ToSet(per[i]) = (IF i \in S THEN {Fact(i)} ELSE {}) /\ Distinct(per[i])
  <2>1. TAKE i \in 1..n
  <2>2. CASE i \in S
    <3>1. per[i] = <<Fact(i)>>
      BY <1>6, <2>2
    <3> QED BY <2>2, <3>1, ShortSequences
  <2>3. CASE i \notin S
    <3>1. per[i] = <<>>
      BY <1>6, <2>3
    <3> QED BY <2>3, <3>1, ShortSequences
  <2> QED BY <2>2, <2>3
<1>10. ElementsUpto(per, n) = F
  <2>1. \A f \in ElementsUpto(per, n) : f \in F
    BY <1>4, <1>9 DEF ElementsUpto
  <2>2. \A f \in F : f \in ElementsUpto(per, n)
    BY <1>4, <1>9 DEF ElementsUpto
  <2> QED BY <2>1, <2>2
<1>11. TxOK(t) => Apart(per)
  <2> SUFFICES ASSUME TxOK(t) PROVE Apart(per)
    OBVIOUS
  <2>1. \A i, j \in S : Fact(i) = Fact(j) => i = j
    BY <1>5 DEF TxOK, S
  <2>2. \A i, j \in 1..n : i # j => ToSet(per[i]) \cap ToSet(per[j]) = {}
    <3>1. ASSUME NEW i \in 1..n, NEW j \in 1..n, i # j PROVE ToSet(per[i]) \cap ToSet(per[j]) = {}
      <4>1. CASE i \in S /\ j \in S
        <5>1. Fact(i) # Fact(j) /\ ToSet(per[i]) = {Fact(i)} /\ ToSet(per[j]) = {Fact(j)}
          BY <1>9, <2>1, <3>1, <4>1
        <5> QED BY <5>1
      <4>2. CASE i \notin S \/ j \notin S
        <5>1. ToSet(per[i]) = {} \/ ToSet(per[j]) = {}
          BY <1>9, <4>2
        <5> QED BY <5>1
      <4> QED BY <4>1, <4>2
    <3> QED BY <3>1
  <2> QED BY <1>8, <1>9, <2>2 DEF Apart
<1>12. s \in Seq(F) /\ ToSet(s) = ElementsUpto(per, n) /\ (Apart(per) => Distinct(s))
  BY <1>8, FlattenEffect
<1> HIDE DEF s
<1> QED BY <1>1, <1>10, <1>11, <1>12 DEF F

\* A submission brings the facts of its transactions, and repeats none where
\* the transactions share none.
LEMMA SubmittedFactsOf ==
  ASSUME NEW txs \in Seq(Txs)
  PROVE  /\ ToSet(Verifier!SubmittedFacts(txs)) = UNION {FactsIn(txs[i]) : i \in 1..Len(txs)}
         /\ Verifier!SubmittedFacts(txs) \in Seq(UNION {FactsIn(txs[i]) : i \in 1..Len(txs)})
         /\ ( /\ \A i \in 1..Len(txs) : TxOK(txs[i])
              /\ \A i, j \in 1..Len(txs) : i # j => FactsIn(txs[i]) \cap FactsIn(txs[j]) = {} )
            => Distinct(Verifier!SubmittedFacts(txs))
<1> DEFINE n == Len(txs)
           F == UNION {FactsIn(txs[i]) : i \in 1..n}
           per == [i \in 1..n |-> Verifier!FactsOf(txs[i])]
<1>1. n \in Nat /\ \A i \in 1..n : txs[i] \in Txs
  OBVIOUS
<1>2. \A i \in 1..n : per[i] \in Seq(F) /\ ToSet(per[i]) = FactsIn(txs[i])
  <2>1. TAKE i \in 1..n
  <2> DEFINE s == Verifier!FactsOf(txs[i])
             G == FactsIn(txs[i])
  <2>2. s \in Seq(G) /\ ToSet(s) = G
    BY <1>1, FactsOfEvents
  <2>3. G \subseteq F /\ per[i] = s
    OBVIOUS
  <2> HIDE DEF s, G, F, per
  <2>4. s \in Seq(F)
    BY <2>2, <2>3
  <2> QED BY <2>2, <2>3, <2>4 DEF G
<1>3. per \in Seq(Seq(F)) /\ Len(per) = n
  <2>1. per \in [1..n -> Seq(F)]
    BY <1>2
  <2> HIDE DEF per, F
  <2> QED BY <1>1, <2>1
<1>4. Verifier!SubmittedFacts(txs) = FlattenSeq(per)
  BY DEF Verifier!SubmittedFacts, Verifier!FlattenSeq, FlattenSeq
<1>5. ElementsUpto(per, n) = F
  BY <1>2 DEF ElementsUpto
<1>6. ASSUME \A i \in 1..n : TxOK(txs[i]),
             \A i, j \in 1..n : i # j => FactsIn(txs[i]) \cap FactsIn(txs[j]) = {}
      PROVE  Apart(per)
  <2>1. \A i \in 1..n : Distinct(per[i])
    BY <1>1, <1>6, FactsOfEvents
  <2> HIDE DEF per, F, n
  <2>2. \A i, j \in 1..n : i # j => ToSet(per[i]) \cap ToSet(per[j]) = {}
    BY <1>2, <1>6
  <2> QED BY <1>3, <2>1, <2>2 DEF Apart
<1> HIDE DEF per, F, n
<1> DEFINE s == FlattenSeq(per)
<1>7. s \in Seq(F) /\ ToSet(s) = ElementsUpto(per, n) /\ (Apart(per) => Distinct(s))
  BY <1>3, FlattenEffect
<1> HIDE DEF s
<1> QED BY <1>4, <1>5, <1>6, <1>7 DEF s, F, n

\* An event is found by its transaction, and the facts of two transactions of
\* the chain are different.
LEMMA FactsApart ==
  ASSUME NEW c, NEW n, NEW b, ChainOK(c, n, b),
         NEW i \in 1..Len(c), NEW j \in 1..Len(c), NEW f, f \in FactsIn(c[i]), f \in FactsIn(c[j])
  PROVE  c[i] = c[j]
<1>1. PICK k \in Ours(c[i].logs) : f = Verifier!FactOf(c[i], c[i].logs[k])
  BY DEF FactsIn
<1>2. PICK l \in Ours(c[j].logs) : f = Verifier!FactOf(c[j], c[j].logs[l])
  BY DEF FactsIn
<1> DEFINE e == [tx |-> c[i], log |-> c[i].logs[k]]
           g == [tx |-> c[j], log |-> c[j].logs[l]]
<1>3. e \in EventsOf(c) /\ g \in EventsOf(c)
  BY DEF EventsOf, EventsIn
<1>4. e.log.eventNonce = f.eventNonce /\ g.log.eventNonce = f.eventNonce
  BY <1>1, <1>2 DEF Verifier!FactOf
<1>5. e.tx = c[i] /\ g.tx = c[j]
  OBVIOUS
<1> HIDE DEF e, g
<1>6. e = g
  BY <1>3, <1>4 DEF ChainOK, Numbered
<1> QED BY <1>5, <1>6

-----------------------------------------------------------------------------
(* The steps. *)

\* One source transaction, mined or reverted, keeps the books.
LEMMA MineStep ==
  ASSUME PathInv, NEW calls \in Seq(Calls), calls[1] \in Calls,
         NEW foreign \in {<<>>, <<Event(Stranger, calls[1], nonce + 1)>>}, Mine(calls, foreign)
  PROVE  /\ ChainOK(chain', nonce', balance')
         /\ EvidenceOK(chain', attested, evidence)
         /\ SourceHeight' \in Nat /\ SourceHeight <= SourceHeight'
<1> DEFINE w == Execute(calls, foreign)
<1>1. PICK p \in Positions :
        /\ chain' = Append(chain, [height |-> p.height, txIndex |-> p.txIndex,
                                   status |-> IF w.reverted THEN 0 ELSE 1,
                                   logs |-> IF w.reverted THEN <<>> ELSE w.logs])
        /\ nonce' = IF w.reverted THEN nonce ELSE w.nonce
        /\ balance' = IF w.reverted THEN balance ELSE w.balance
  BY DEF Mine
<1> DEFINE logs == IF w.reverted THEN <<>> ELSE w.logs
           t == [height |-> p.height, txIndex |-> p.txIndex,
                 status |-> IF w.reverted THEN 0 ELSE 1, logs |-> logs]
<1>2. /\ nonce \in Nat /\ balance \in [Accounts -> Nat] /\ chain \in Seq(Txs)
      /\ ChainOK(chain, nonce, balance) /\ EvidenceOK(chain, attested, evidence)
  BY DEF PathInv, ChainOK
<1>3. w \in Running(nonce, balance)
  <2>1. foreign \in Seq(Logs) /\ Ours(foreign) = {}
    <3>1. nonce + 1 \in Nat
      BY <1>2
    <3> QED BY <3>1, ForeignLogs
  <2>2. Begin(foreign) \in Running(nonce, balance)
    BY <1>2, <2>1, BeginRuns
  <2> QED BY <1>2, <2>2, ExecuteRuns
<1> HIDE DEF w
<1>4. /\ w.reverted \in BOOLEAN /\ nonce' \in Nat /\ balance' \in [Accounts -> Nat]
      /\ logs \in Seq(Logs)
  BY <1>1, <1>2, <1>3 DEF Running
<1>5. /\ nonce <= nonce' /\ NumbersUsed(logs, nonce, nonce')
      /\ \A j \in 1..Len(logs) : Checked(logs[j])
      /\ \A a \in Accounts : balance'[a] = balance[a] + Flow(logs, a)
  <2>1. CASE w.reverted
    <3>1. logs = <<>> /\ nonce' = nonce /\ balance' = balance
      BY <1>1, <2>1
    <3>2. Ours(<<>>) = {} /\ Len(<<>>) = 0
      BY DEF Ours
    <3>3. \A a : Flow(<<>>, a) = 0
      BY <3>2, SumNothing DEF Flow
    <3> HIDE DEF logs
    <3>4. NumbersUsed(logs, nonce, nonce')
      BY <1>2, <3>1, <3>2 DEF NumbersUsed
    <3>5. \A a \in Accounts : balance'[a] = balance[a] + Flow(logs, a)
      BY <1>2, <3>1, <3>3
    <3> QED BY <1>2, <3>1, <3>2, <3>4, <3>5
  <2>2. CASE ~w.reverted
    <3>1. logs = w.logs /\ nonce' = w.nonce /\ balance' = w.balance
      BY <1>1, <2>2
    <3> QED BY <1>3, <2>2, <3>1 DEF Running
  <2> QED BY <2>1, <2>2
<1>6. /\ p.height \in Nat /\ p.txIndex \in Nat
      /\ SourceHeight \in Nat /\ SourceHeight <= p.height
  <2>1. CASE chain = <<>>
    BY <2>1 DEF Positions, SourceHeight
  <2>2. CASE chain # <<>>
    <3>1. Last(chain) \in Txs
      BY <1>2, <2>2 DEF Last
    <3>2. Last(chain).height \in Nat /\ Last(chain).txIndex \in Nat
      BY <3>1 DEF Txs
    <3> QED BY <2>2, <3>2 DEF Positions, SourceHeight
  <2> QED BY <2>1, <2>2
<1>7. t \in Txs /\ t.logs = logs /\ t.height = p.height
  BY <1>4, <1>6 DEF Txs
<1>8. TxOK(t)
  <2>1. logs # <<>> => t.status = 1
    OBVIOUS
  <2>2. \A i, j \in Ours(logs) : logs[i].eventNonce = logs[j].eventNonce => i = j
    BY <1>5 DEF NumbersUsed
  <2> HIDE DEF t, logs
  <2> QED BY <1>5, <1>7, <2>1, <2>2 DEF TxOK
<1>9. chain' = Append(chain, t)
  BY <1>1
<1> HIDE DEF t, logs
<1>10. ChainOK(chain', nonce', balance')
  <2>1. NumbersUsed(t.logs, nonce, nonce') /\ \A a \in Accounts : balance'[a] = balance[a] + Flow(t.logs, a)
    BY <1>5, <1>7
  <2> DEFINE m == nonce'
             moved == balance'
  <2>2. /\ m \in Nat /\ moved \in [Accounts -> Nat] /\ nonce <= m /\ NumbersUsed(t.logs, nonce, m)
        /\ \A a \in Accounts : moved[a] = balance[a] + Flow(t.logs, a)
    BY <1>4, <1>5, <2>1
  <2> HIDE DEF m, moved
  <2>3. ChainOK(Append(chain, t), m, moved)
    BY <1>2, <1>7, <1>8, <2>2, AppendBooks
  <2> QED BY <1>9, <2>3 DEF m, moved
<1>11. EvidenceOK(chain', attested, evidence)
  <2>1. NumbersUsed(t.logs, nonce, nonce')
    BY <1>5, <1>7
  <2> DEFINE m == nonce'
  <2>2. NumbersUsed(t.logs, nonce, m)
    BY <2>1
  <2> HIDE DEF m
  <2>3. EvidenceOK(Append(chain, t), attested, evidence)
    BY <1>2, <1>7, <2>2, AppendEvidence
  <2> QED BY <1>9, <2>3
<1>12. SourceHeight' = p.height
  <2>1. chain' # <<>> /\ Last(chain') = t
    BY <1>2, <1>7, <1>9 DEF Last
  <2> QED BY <1>7, <2>1 DEF SourceHeight
<1> QED BY <1>6, <1>10, <1>11, <1>12

\* A submission, atomic: all the facts of the transactions it proves.
LEMMA SubmitStep ==
  ASSUME PathInv, NEW txs \in Verifier!Submissions, Verifier!SubmitEvidence(txs)
  PROVE  EvidenceOK(chain, attested, evidence')
<1> DEFINE n == Len(txs)
           new == UNION {FactsIn(txs[i]) : i \in 1..n}
<1>1. /\ ChainOK(chain, nonce, balance) /\ EvidenceOK(chain, attested, evidence)
      /\ chain \in Seq(Txs)
  BY DEF PathInv, ChainOK
<1>2. DOMAIN chain = 1..Len(chain) /\ \A k \in 1..Len(chain) : chain[k] \in Txs
  BY <1>1
<1>3. /\ \A i \in 1..n : txs[i] \in ToSet(chain) /\ txs[i].height <= attested
      /\ evidence' = evidence \cup ToSet(Verifier!SubmittedFacts(txs))
  BY DEF Verifier!SubmitEvidence, Verifier!MaySubmit, Verifier!Provable, Verifier!Recorded,
         Verifier!ToSet, ToSet
<1>4. \A i \in 1..n : \E k \in 1..Len(chain) : txs[i] = chain[k]
  BY <1>2, <1>3 DEF ToSet
<1>5. txs \in Seq(Txs)
  <2>1. txs \in UNION {[1..m -> ToSet(chain)] : m \in 0..MAX_BATCH}
    BY DEF Verifier!Submissions, Verifier!BoundedSeq, Verifier!SeqOf, Verifier!ToSet, ToSet
  <2>2. PICK m \in 0..MAX_BATCH : txs \in [1..m -> ToSet(chain)]
    BY <2>1
  <2>3. m \in Nat /\ ToSet(chain) \subseteq Txs
    BY <1>2, BatchConstant DEF ToSet
  <2> QED BY <2>2, <2>3
<1>6. evidence' = evidence \cup new
  BY <1>3, <1>5, SubmittedFactsOf
<1>7. \A f \in evidence' : \E e \in EventsOf(chain) :
         e.tx.height <= attested /\ f = Verifier!FactOf(e.tx, e.log)
  <2>1. TAKE f \in evidence'
  <2>2. CASE f \in evidence
    BY <1>1, <2>2 DEF EvidenceOK
  <2>3. CASE f \in new
    <3>1. PICK i \in 1..n : f \in FactsIn(txs[i])
      BY <2>3
    <3>2. PICK k \in 1..Len(chain) : txs[i] = chain[k]
      BY <1>4
    <3>3. PICK j \in Ours(chain[k].logs) : f = Verifier!FactOf(chain[k], chain[k].logs[j])
      BY <3>1, <3>2 DEF FactsIn
    <3> DEFINE e == [tx |-> chain[k], log |-> chain[k].logs[j]]
    <3>4. e \in EventsOf(chain) /\ e.tx = chain[k] /\ e.log = chain[k].logs[j]
      BY DEF EventsOf, EventsIn
    <3> HIDE DEF e
    <3>5. e.tx.height <= attested /\ f = Verifier!FactOf(e.tx, e.log)
      BY <1>3, <3>2, <3>3, <3>4
    <3> QED BY <3>4, <3>5
  <2> QED BY <1>6, <2>2, <2>3
<1>8. \A k \in 1..Len(chain) : \/ FactsIn(chain[k]) \subseteq evidence'
                               \/ FactsIn(chain[k]) \cap evidence' = {}
  <2>1. TAKE k \in 1..Len(chain)
  <2>2. CASE FactsIn(chain[k]) \subseteq evidence
    BY <1>6, <2>2
  <2>3. CASE FactsIn(chain[k]) \cap evidence = {} /\ \E i \in 1..n : txs[i] = chain[k]
    <3>1. FactsIn(chain[k]) \subseteq new
      BY <2>3
    <3> QED BY <1>6, <3>1
  <2>4. CASE FactsIn(chain[k]) \cap evidence = {} /\ ~ \E i \in 1..n : txs[i] = chain[k]
    <3>1. ASSUME NEW f \in FactsIn(chain[k]), f \in new PROVE FALSE
      <4>1. PICK i \in 1..n : f \in FactsIn(txs[i])
        BY <3>1
      <4>2. PICK l \in 1..Len(chain) : txs[i] = chain[l]
        BY <1>4
      <4>3. f \in FactsIn(chain[l])
        BY <4>1, <4>2
      <4>4. chain[k] = chain[l]
        BY <1>1, <3>1, <4>3, FactsApart
      <4> QED BY <2>4, <4>2, <4>4
    <3> QED BY <1>6, <2>4, <3>1
  <2>5. FactsIn(chain[k]) \subseteq evidence \/ FactsIn(chain[k]) \cap evidence = {}
    BY <1>1 DEF EvidenceOK
  <2> QED BY <2>2, <2>3, <2>4, <2>5
<1> QED BY <1>7, <1>8 DEF EvidenceOK

\* The empty chain satisfies the invariant.
LEMMA PathInit ==
  ASSUME Init
  PROVE  PathInv
<1>1. /\ nonce = 0 /\ balance = [a \in Accounts |-> Supply] /\ chain = <<>>
      /\ attested = -1 /\ evidence = {}
  BY DEF Init, GatewayInit
<1>2. EventsOf(<<>>) = {} /\ <<>> \in Seq(Txs) /\ Len(<<>>) = 0
  BY DEF EventsOf
<1>3. Numbered({}, 0)
  BY DEF Numbered
<1>4. \A a : NetSum({}, a) = 0
  BY SumNothing DEF NetSum
<1>5. ChainOK(<<>>, 0, balance)
  <2>1. balance \in [Accounts -> Nat] /\ \A a \in Accounts : balance[a] = Supply + 0
    BY <1>1, GatewayConstants
  <2>2. \A a : NetSum(EventsOf(<<>>), a) = 0
    BY <1>2, <1>4
  <2>3. Numbered(EventsOf(<<>>), 0)
    BY <1>2, <1>3
  <2> QED BY <1>2, <2>1, <2>2, <2>3 DEF ChainOK
<1>6. EvidenceOK(<<>>, -1, {})
  BY <1>2 DEF EvidenceOK
<1>7. SourceHeight = 0
  BY <1>1 DEF SourceHeight
<1> QED BY <1>1, <1>5, <1>6, <1>7 DEF PathInv

\* A height that is attested stays attested.
LEMMA EvidenceFollows ==
  ASSUME NEW c, NEW h \in Int, NEW g \in Int, h <= g, NEW ev, EvidenceOK(c, h, ev),
         c \in Seq(Txs)
  PROVE  EvidenceOK(c, g, ev)
<1>1. \A e \in EventsOf(c) : e.tx.height \in Nat
  <2>1. TAKE e \in EventsOf(c)
  <2>2. PICK i \in 1..Len(c) : e \in EventsIn(c[i])
    BY DEF EventsOf
  <2>3. e.tx = c[i] /\ c[i] \in Txs
    BY <2>2 DEF EventsIn
  <2> QED BY <2>3 DEF Txs
<1> QED BY <1>1 DEF EvidenceOK

\* One step of the path, or stuttering.
LEMMA PathStep ==
  ASSUME PathInv, [Next]_vars
  PROVE  PathInv'
<1>0. /\ ChainOK(chain, nonce, balance) /\ EvidenceOK(chain, attested, evidence)
      /\ attested \in -1..SourceHeight /\ chain \in Seq(Txs)
  BY DEF PathInv, ChainOK
<1>1. SourceHeight \in Nat
  <2>1. chain # <<>> => Last(chain) \in Txs
    BY <1>0 DEF Last
  <2> QED BY <2>1 DEF SourceHeight, Txs
<1>2. CASE SourceStep
  <2>1. GatewayNext /\ attested' = attested /\ evidence' = evidence
    BY <1>2 DEF SourceStep
  <2>2. PICK calls \in UNION {[1..n -> Calls] : n \in 1..MaxCalls} :
          \E foreign \in {<<>>, <<Event(Stranger, calls[1], nonce + 1)>>} : Mine(calls, foreign)
    BY <2>1 DEF GatewayNext
  <2>3. PICK foreign \in {<<>>, <<Event(Stranger, calls[1], nonce + 1)>>} : Mine(calls, foreign)
    BY <2>2
  <2>4. calls \in Seq(Calls) /\ calls[1] \in Calls
    <3>1. PICK n \in 1..MaxCalls : calls \in [1..n -> Calls]
      OBVIOUS
    <3>2. n \in Nat /\ 1 \in 1..n
      BY GatewayConstants
    <3> QED BY <3>1, <3>2
  <2>5. /\ ChainOK(chain', nonce', balance') /\ EvidenceOK(chain', attested, evidence)
        /\ SourceHeight' \in Nat /\ SourceHeight <= SourceHeight'
    BY <2>3, <2>4, MineStep
  <2>6. attested' \in -1..SourceHeight'
    BY <1>0, <1>1, <2>1, <2>5
  <2> QED BY <2>1, <2>5, <2>6 DEF PathInv
<1>3. CASE \E h \in 0..SourceHeight : Attest(h)
  <2>1. PICK h \in 0..SourceHeight : Attest(h)
    BY <1>3
  <2>2. /\ attested < h /\ attested' = h
        /\ nonce' = nonce /\ balance' = balance /\ chain' = chain /\ evidence' = evidence
    BY <2>1 DEF Attest
  <2>3. EvidenceOK(chain, h, evidence)
    <3>1. attested \in Int /\ h \in Int /\ attested <= h
      BY <1>0, <1>1, <2>2
    <3> QED BY <1>0, <3>1, EvidenceFollows
  <2>4. SourceHeight' = SourceHeight
    BY <2>2 DEF SourceHeight
  <2>5. attested' \in -1..SourceHeight'
    BY <1>1, <2>2, <2>4
  <2> QED BY <1>0, <2>2, <2>3, <2>5 DEF PathInv
<1>4. CASE \E txs \in Verifier!Submissions : SubmitEvidence(txs)
  <2>1. PICK txs \in Verifier!Submissions : SubmitEvidence(txs)
    BY <1>4
  <2>2. /\ Verifier!SubmitEvidence(txs)
        /\ nonce' = nonce /\ balance' = balance /\ chain' = chain /\ attested' = attested
    BY <2>1 DEF SubmitEvidence
  <2>3. EvidenceOK(chain, attested, evidence')
    BY <2>2, SubmitStep
  <2>4. SourceHeight' = SourceHeight
    BY <2>2 DEF SourceHeight
  <2> QED BY <1>0, <2>2, <2>3, <2>4 DEF PathInv
<1>5. CASE UNCHANGED vars
  <2>1. /\ nonce' = nonce /\ balance' = balance /\ chain' = chain
        /\ attested' = attested /\ evidence' = evidence
    BY <1>5 DEF vars
  <2>2. SourceHeight' = SourceHeight
    BY <2>1 DEF SourceHeight
  <2> QED BY <1>0, <2>1, <2>2 DEF PathInv
<1> QED BY <1>2, <1>3, <1>4, <1>5 DEF Next

\* PathInv holds in every reachable state.
LEMMA PathInvariant == Spec => []PathInv
<1>1. PathInv /\ [Next]_vars => PathInv'
  BY PathStep
<1> QED BY <1>1, PathInit, PTL DEF Spec

-----------------------------------------------------------------------------
(* What the invariant says of the properties' own sets. *)

\* The events on the chain, each with the transaction it is in.
LEMMA EventParts ==
  ASSUME PathInv
  PROVE  /\ GatewayEvents = EventsOf(chain)
         /\ \A e \in EventsOf(chain) : \E i \in 1..Len(chain) : \E j \in Ours(chain[i].logs) :
               /\ e = [tx |-> chain[i], log |-> chain[i].logs[j]]
               /\ e.tx = chain[i] /\ e.log = chain[i].logs[j]
         /\ \A e \in EventsOf(chain) :
               /\ e.log \in Logs /\ e.log.dealId \in DealRefs /\ e.log.amount > 0
               /\ e.tx \in Txs /\ e.tx.status = 1
<1>1. GatewayEvents = EventsOf(chain)
  BY Zenon DEF GatewayEvents, EventsOf, EventsIn, Ours
<1>2. \A e \in EventsOf(chain) : \E i \in 1..Len(chain) : \E j \in Ours(chain[i].logs) :
         /\ e = [tx |-> chain[i], log |-> chain[i].logs[j]]
         /\ e.tx = chain[i] /\ e.log = chain[i].logs[j]
  BY DEF EventsOf, EventsIn
<1>3. ASSUME NEW e \in EventsOf(chain)
      PROVE  /\ e.log \in Logs /\ e.log.dealId \in DealRefs /\ e.log.amount > 0
             /\ e.tx \in Txs /\ e.tx.status = 1
  <2>a. PICK i \in 1..Len(chain) : \E j \in Ours(chain[i].logs) :
           e.tx = chain[i] /\ e.log = chain[i].logs[j]
    BY <1>2
  <2>1. PICK j \in Ours(chain[i].logs) : e.tx = chain[i] /\ e.log = chain[i].logs[j]
    BY <2>a
  <2>2. chain[i] \in Txs /\ TxOK(chain[i])
    BY DEF PathInv, ChainOK
  <2>3. chain[i].logs \in Seq(Logs) /\ j \in 1..Len(chain[i].logs) /\ e.log.emitter = Gateway
    BY <2>1, <2>2 DEF Txs, Ours
  <2>4. e.log \in Logs /\ chain[i].logs # <<>> /\ Checked(e.log)
    BY <2>1, <2>2, <2>3 DEF TxOK
  <2>5. e.log.amount \in Nat \ {0} /\ e.log.dealId \in DealRefs
    BY <2>3, <2>4 DEF Checked
  <2> QED BY <2>1, <2>2, <2>4, <2>5 DEF TxOK
<1> QED BY <1>1, <1>2, <1>3

\* The sum of what events pay to an account, less the sum of what they take from
\* it, is what they bring it.
LEMMA NetIsDifference ==
  ASSUME NEW E, IsFiniteSet(E), \A e \in E : e.log \in Logs, NEW a
  PROVE  /\ SumOf({e \in E : e.log.recipient = a}) \in Int
         /\ SumOf({e \in E : e.log.counterparty = a}) \in Int
         /\ NetSum(E, a) = SumOf({e \in E : e.log.recipient = a})
                              - SumOf({e \in E : e.log.counterparty = a})
<1> DEFINE R == {e \in E : e.log.recipient = a}
           P == {e \in E : e.log.counterparty = a}
           f == [e \in E |-> IF e.log.recipient = a THEN e.log.amount ELSE 0]
           g == [e \in E |-> IF e.log.counterparty = a THEN e.log.amount ELSE 0]
           h == NetTerm(E, a)
           fR == [e \in R |-> e.log.amount]
           gP == [e \in P |-> e.log.amount]
<1>1. \A e \in E : e.log.amount \in Nat
  BY DEF Logs
<1>2. \A e \in E : /\ f[e] \in Int /\ g[e] \in Int
                   /\ h[e] = f[e] - g[e]
  BY <1>1 DEF NetTerm, Net
<1>3. /\ R \in SUBSET E /\ \A e \in E \ R : f[e] = 0
      /\ \A e \in R : fR[e] = f[e]
      /\ P \in SUBSET E /\ \A e \in E \ P : g[e] = 0
      /\ \A e \in P : gP[e] = g[e]
  OBVIOUS
<1>4. SumOf(R) = SumFunctionOnSet(fR, R) /\ SumOf(P) = SumFunctionOnSet(gP, P)
  BY DEF SumOf
<1>5. NetSum(E, a) = SumFunctionOnSet(h, E)
  BY DEF NetSum
<1> HIDE DEF f, g, h, fR, gP, R, P
<1>6. SumFunctionOnSet(h, E) = SumFunctionOnSet(f, E) - SumFunctionOnSet(g, E)
  BY <1>2, SumMinus
<1>7. SumFunctionOnSet(fR, R) = SumFunctionOnSet(f, E)
  BY <1>2, <1>3, SumSupport
<1>8. SumFunctionOnSet(gP, P) = SumFunctionOnSet(g, E)
  BY <1>2, <1>3, SumSupport
<1>9. SumFunctionOnSet(f, E) \in Int /\ SumFunctionOnSet(g, E) \in Int
  BY <1>2, SumInt
<1>10. SumOf(R) \in Int /\ SumOf(P) \in Int /\ NetSum(E, a) = SumOf(R) - SumOf(P)
  BY <1>4, <1>5, <1>6, <1>7, <1>8, <1>9
<1> QED BY <1>10 DEF R, P

-----------------------------------------------------------------------------
(* Theorems of the specification. *)

\* The counter numbers the gateway's events 0, 1, ... without gap or repeat, and
\* the balances are what the events say was paid, whatever reverted.
THEOREM BooksBalance == Spec => []GatewayBooks
<1>1. ASSUME PathInv PROVE GatewayBooks
  <2> DEFINE E == EventsOf(chain)
  <2>1. /\ nonce \in Nat /\ balance \in [Accounts -> Nat] /\ Numbered(E, nonce)
        /\ \A a \in Accounts : balance[a] = Supply + NetSum(E, a)
        /\ attested \in -1..SourceHeight /\ EvidenceOK(chain, attested, evidence)
    BY <1>1 DEF PathInv, ChainOK
  <2>2. GatewayEvents = E /\ \A e \in E : /\ e.log \in Logs /\ e.log.dealId \in DealRefs
                                          /\ e.log.amount > 0
    BY <1>1, EventParts
  <2> HIDE DEF E
  <2>3. \A f \in evidence : f.kind \in Kinds /\ f.amount > 0 /\ f.dealId \in DealRefs
    <3>1. TAKE f \in evidence
    <3>2. PICK e \in E : f = Verifier!FactOf(e.tx, e.log)
      BY <2>1 DEF EvidenceOK, E
    <3>3. f.kind = e.log.kind /\ f.amount = e.log.amount /\ f.dealId = e.log.dealId
      BY <3>2 DEF Verifier!FactOf
    <3> QED BY <2>2, <3>3 DEF Logs
  <2>4. TypeOK
    BY <2>1, <2>3 DEF TypeOK
  <2>5. IsFiniteSet(E) /\ Cardinality(E) = nonce /\ {e.log.eventNonce : e \in E} = 0..(nonce - 1)
    BY <2>1, NumberedFinite
  <2>6. EventsNumberedOnce
    BY <2>2, <2>5 DEF EventsNumberedOnce
  <2>7. MoneyMatchesEvents
    <3>1. SUFFICES ASSUME NEW a \in Accounts
                   PROVE  balance[a] = Supply + SumOf({e \in GatewayEvents : e.log.recipient = a})
                                          - SumOf({e \in GatewayEvents : e.log.counterparty = a})
      BY DEF MoneyMatchesEvents
    <3> DEFINE got == SumOf({e \in E : e.log.recipient = a})
               paid == SumOf({e \in E : e.log.counterparty = a})
    <3>2. got \in Int /\ paid \in Int /\ NetSum(E, a) = got - paid
      BY <2>2, <2>5, NetIsDifference
    <3>3. /\ SumOf({e \in GatewayEvents : e.log.recipient = a}) = got
          /\ SumOf({e \in GatewayEvents : e.log.counterparty = a}) = paid
      BY <2>2, Zenon
    <3>4. balance[a] = Supply + NetSum(E, a) /\ Supply \in Int
      BY <2>1, GatewayConstants
    <3> HIDE DEF got, paid
    <3> QED BY <3>2, <3>3, <3>4
  <2> QED BY <2>4, <2>6, <2>7 DEF GatewayBooks
<1> QED BY <1>1, PathInvariant, PTL

\* Every fact is an event of the gateway in an attested block: a lookalike of
\* another contract, a reverted payment or an unattested block never becomes one.
THEOREM FactsAuthentic == Spec => []FactsAreGatewayEvents
<1>1. ASSUME PathInv PROVE FactsAreGatewayEvents
  <2>1. GatewayEvents = EventsOf(chain)
    BY <1>1, EventParts
  <2>2. \A f \in evidence : \E e \in EventsOf(chain) :
           e.tx.height <= attested /\ f = Verifier!FactOf(e.tx, e.log)
    BY <1>1 DEF PathInv, EvidenceOK
  <2> QED BY <2>1, <2>2 DEF FactsAreGatewayEvents
<1> QED BY <1>1, PathInvariant, PTL

\* A transaction is recorded with all of its payments or with none, and no two
\* of its payments become the same fact.
THEOREM WholeTransactions == Spec => []TransactionAllOrNothing
<1>1. ASSUME PathInv PROVE TransactionAllOrNothing
  <2>1. GatewayEvents = EventsOf(chain)
    BY <1>1, EventParts
  <2>2. SUFFICES ASSUME NEW i \in 1..Len(chain)
                 PROVE  LET events == {e \in EventsOf(chain) : e.tx = chain[i]}
                            facts == {Verifier!FactOf(e.tx, e.log) : e \in events}
                        IN  /\ facts \subseteq evidence \/ facts \cap evidence = {}
                            /\ Cardinality(facts) = Cardinality(events)
    BY <2>1 DEF TransactionAllOrNothing
  <2> DEFINE E == EventsOf(chain)
             events == {e \in E : e.tx = chain[i]}
             g == [e \in events |-> Verifier!FactOf(e.tx, e.log)]
             facts == {Verifier!FactOf(e.tx, e.log) : e \in events}
  <2>3. IsFiniteSet(E) /\ \A e, f \in E : e.log.eventNonce = f.log.eventNonce => e = f
    BY <1>1, NumberedFinite DEF PathInv, ChainOK, Numbered
  <2>4. IsFiniteSet(events)
    <3>1. events \subseteq E
      OBVIOUS
    <3> HIDE DEF E, events
    <3> QED BY <2>3, <3>1, FS_Subset
  <2>5. \A e \in events : g[e].eventNonce = e.log.eventNonce
    BY DEF Verifier!FactOf
  <2>6. g \in Injection(events, facts) /\ g \in Surjection(events, facts)
    <3>1. g \in [events -> facts] /\ \A f \in facts : \E e \in events : g[e] = f
      OBVIOUS
    <3>2. \A d, e \in events : g[d] = g[e] => d = e
      <4>1. \A e \in events : e \in E
        OBVIOUS
      <4> HIDE DEF g, events, E
      <4> QED BY <2>3, <2>5, <4>1
    <3> HIDE DEF g, events, facts
    <3> QED BY <3>1, <3>2 DEF Injection, IsInjective, Surjection
  <2>7. Cardinality(facts) = Cardinality(events)
    <3> HIDE DEF g, events, facts
    <3> QED BY <2>4, <2>6, FS_Surjection
  <2>8. \A f \in facts : f \in FactsIn(chain[i])
    <3>1. TAKE f \in facts
    <3>2. PICK e \in E : e.tx = chain[i] /\ f = Verifier!FactOf(e.tx, e.log)
      OBVIOUS
    <3>a. PICK k \in 1..Len(chain) : \E j \in Ours(chain[k].logs) :
             e.tx = chain[k] /\ e.log = chain[k].logs[j]
      BY <1>1, EventParts
    <3>3. PICK j \in Ours(chain[k].logs) : e.tx = chain[k] /\ e.log = chain[k].logs[j]
      BY <3>a
    <3>4. chain[k] = chain[i]
      BY <3>2, <3>3
    <3> HIDE DEF E, facts
    <3>5. j \in Ours(chain[i].logs) /\ f = Verifier!FactOf(chain[i], chain[i].logs[j])
      BY <3>2, <3>3, <3>4
    <3> QED BY <3>5 DEF FactsIn
  <2>9. FactsIn(chain[i]) \subseteq evidence \/ FactsIn(chain[i]) \cap evidence = {}
    BY <1>1 DEF PathInv, EvidenceOK
  <2>10. facts \subseteq evidence \/ facts \cap evidence = {}
    <3> HIDE DEF facts
    <3> QED BY <2>8, <2>9
  <2> QED BY <2>7, <2>10
<1> QED BY <1>1, PathInvariant, PTL

\* No submission, of whatever batch, shuts out a payment that is attested and
\* not on record: its transaction on its own is accepted.
THEOREM PaymentsStayOpen == Spec => []NoPaymentBlocked
<1>1. ASSUME PathInv PROVE NoPaymentBlocked
  <2>1. GatewayEvents = EventsOf(chain)
    BY <1>1, EventParts
  <2>2. SUFFICES ASSUME NEW e \in EventsOf(chain), e.tx.height <= attested,
                        Verifier!FactOf(e.tx, e.log) \notin evidence
                 PROVE  Verifier!MaySubmit(<<e.tx>>)
    BY <2>1 DEF NoPaymentBlocked
  <2>a. PICK i \in 1..Len(chain) : \E j \in Ours(chain[i].logs) :
           e.tx = chain[i] /\ e.log = chain[i].logs[j]
    BY <1>1, EventParts
  <2>3. PICK j \in Ours(chain[i].logs) : e.tx = chain[i] /\ e.log = chain[i].logs[j]
    BY <2>a
  <2> DEFINE t == chain[i]
             f == Verifier!FactOf(e.tx, e.log)
             txs == <<t>>
             facts == Verifier!SubmittedFacts(txs)
  <2>4. t \in Txs /\ TxOK(t) /\ t.status = 1 /\ t.height <= attested /\ t \in ToSet(chain)
    <3>1. chain \in Seq(Txs) /\ TxOK(t)
      BY <1>1 DEF PathInv, ChainOK
    <3>2. t \in Txs /\ t \in ToSet(chain)
      BY <3>1 DEF ToSet
    <3>3. t.status = 1 /\ t.height <= attested
      BY <1>1, <2>2, <2>3, EventParts
    <3> QED BY <3>1, <3>2, <3>3
  <2>5. f \in FactsIn(t) /\ f \notin evidence
    BY <2>2, <2>3 DEF FactsIn
  <2>6. FactsIn(t) \cap evidence = {}
    <3>1. FactsIn(t) \subseteq evidence \/ FactsIn(t) \cap evidence = {}
      BY <1>1 DEF PathInv, EvidenceOK
    <3> QED BY <2>5, <3>1
  <2> HIDE DEF t, f
  <2>7. ToSet(Verifier!FactsOf(t)) = FactsIn(t) /\ Distinct(Verifier!FactsOf(t))
    BY <2>4, FactsOfEvents
  <2>8. Verifier!FactsOf(t) # <<>>
    BY <2>5, <2>7 DEF ToSet
  <2>9. txs \in Seq(Txs) /\ Len(txs) = 1 /\ 1..1 = {1} /\ txs[1] = t
    BY <2>4
  <2> HIDE DEF txs
  <2>10. facts \in Seq(FactsIn(t)) /\ ToSet(facts) = FactsIn(t) /\ Distinct(facts)
    <3>1. UNION {FactsIn(txs[k]) : k \in 1..Len(txs)} = FactsIn(t)
      BY <2>9
    <3>2. /\ \A k \in 1..Len(txs) : TxOK(txs[k])
          /\ \A k, l \in 1..Len(txs) : k # l => FactsIn(txs[k]) \cap FactsIn(txs[l]) = {}
      BY <2>4, <2>9
    <3> QED BY <2>9, <3>1, <3>2, SubmittedFactsOf
  <2> HIDE DEF facts
  <2>11. Verifier!AllNew(evidence, facts)
    <3>1. \A k \in 1..Len(facts) : facts[k] \in FactsIn(t)
      BY <2>10
    <3>2. ASSUME NEW g \in evidence, NEW h \in FactsIn(t) PROVE g.eventNonce # h.eventNonce
      <4>1. SUFFICES ASSUME g.eventNonce = h.eventNonce PROVE FALSE
        OBVIOUS
      <4>2. PICK d \in EventsOf(chain) : g = Verifier!FactOf(d.tx, d.log)
        BY <1>1 DEF PathInv, EvidenceOK
      <4>3. PICK k \in Ours(t.logs) : h = Verifier!FactOf(t, t.logs[k])
        BY DEF FactsIn
      <4> DEFINE q == [tx |-> t, log |-> t.logs[k]]
      <4>4. q \in EventsOf(chain) /\ q.tx = t /\ q.log = t.logs[k]
        BY DEF EventsOf, EventsIn, t
      <4> HIDE DEF q
      <4>5. d.log.eventNonce = q.log.eventNonce
        BY <4>1, <4>2, <4>3, <4>4 DEF Verifier!FactOf
      <4>6. d = q
        BY <1>1, <4>4, <4>5 DEF PathInv, ChainOK, Numbered
      <4>7. g = h
        BY <4>2, <4>3, <4>4, <4>6
      <4> QED BY <2>6, <4>7
    <3>3. \A k, l \in 1..Len(facts) : k # l => facts[k].eventNonce # facts[l].eventNonce
      <4>1. ASSUME NEW k \in 1..Len(facts), NEW l \in 1..Len(facts),
                   facts[k].eventNonce = facts[l].eventNonce
            PROVE  facts[k] = facts[l]
        <5>1. PICK x \in Ours(t.logs) : facts[k] = Verifier!FactOf(t, t.logs[x])
          BY <3>1 DEF FactsIn
        <5>2. PICK y \in Ours(t.logs) : facts[l] = Verifier!FactOf(t, t.logs[y])
          BY <3>1 DEF FactsIn
        <5>3. x = y
          BY <2>4, <4>1, <5>1, <5>2 DEF TxOK, Verifier!FactOf
        <5> QED BY <5>1, <5>2, <5>3
      <4> QED BY <2>10, <4>1 DEF Distinct
    <3> QED BY <3>1, <3>2, <3>3 DEF Verifier!AllNew, Verifier!Seen, Verifier!EvidenceIdOf
  <2>12. Len(txs) \in 1..MAX_BATCH
    BY <2>9, BatchConstant
  <2>13. Verifier!Provable(t)
    BY <2>4 DEF Verifier!Provable, Verifier!ToSet, ToSet
  <2>14. Verifier!MaySubmit(txs)
    BY <2>4, <2>8, <2>9, <2>11, <2>12, <2>13 DEF Verifier!MaySubmit, facts
  <2> QED BY <2>3, <2>14 DEF txs, t
<1> QED BY <1>1, PathInvariant, PTL
=============================================================================
