--------------------------- MODULE LiveDeal_proofs ---------------------------
(***************************************************************************)
(* The live command, for any amounts, credit limit, number of executions,  *)
(* of runs and of broadcasts, and every failure at any moment.             *)
(***************************************************************************)
EXTENDS LiveDeal, FiniteSetTheorems, SequenceTheorems, TLAPS

-----------------------------------------------------------------------------
(* Types. *)

Plain == [act: Payments \cup Approvals \cup Creations \cup {"topUp", "none"},
          deal: Nat, amount: Nat, nonce: Nat]
Proving == [act: Applications, deal: Nat, amount: Nat, nonce: Nat, proves: Plain]
Transactions == Plain \cup Proving

Closed == {"PAID_ON_TIME", "PAID_LATE"}
Past == {"DEFAULTED"} \cup Closed
LiveStatuses == {"CREATED", "FINANCED", "DEFAULTED"} \cup Closed
Deal == [status: LiveStatuses, due: BOOLEAN, late: SUBSET Plain, by: Plain]

\* What is left to do, from step k on; and what a command may begin with.
Plan(k) == SubSeq(Scenario, k, 16)
Inspect == <<"inspect">>
ToppingUp(steps) == <<"topUp">> \o steps
Plans == {Plan(k) : k \in 1..16} \cup {Inspect, ToppingUp(Scenario), ToppingUp(Inspect)}

Results == {"none", "crash", "timeout", "reverted", "refused", "relayed", "ineligible",
            "mismatch", "reported"}

Commands ==
    [at: {"ended", "step", "sending"}, result: Results, starts: Nat, left: Plans \cup {<<>>},
     deal: Nat, resumes: BOOLEAN, runs: Nat, made: SUBSET Plain, tx: Transactions, tries: Nat,
     observed: BOOLEAN, problems: BOOLEAN, before: [exposure: Nat, score: Nat], limit: Int,
     clean: BOOLEAN]

ChainTypes ==
    /\ usdc \in [{"A", "B"} -> Nat] /\ allowance \in [{"A", "B"} -> Nat]
    /\ events \in SUBSET Plain /\ attested \subseteq events /\ recorded \subseteq attested
    /\ deals \in Seq(Deal) /\ base \in 0..Len(deals)
    /\ pool \in SUBSET Transactions /\ IsFiniteSet(pool)
    /\ mined \in [Accounts -> [count: Nat, last: Transactions, ok: BOOLEAN]]

\* A command at work has a step to take and a run to finish; it sends what that step asks.
ProcTypes ==
    /\ proc \in Commands
    /\ proc.at = "ended" => proc.left = <<>> /\ proc.tx = NoTx
    /\ proc.at # "ended" => proc.left \in Plans /\ proc.runs # 0 /\ proc.result = "none"
    /\ proc.at = "step" => proc.tx = NoTx
    /\ proc.at = "sending" => proc.tx.act = Head(proc.left) /\ proc.tx # NoTx

-----------------------------------------------------------------------------
(* The steps of a plan. *)

\* The end of a sequence that begins at k, and what it leaves behind its head.
LEMMA EndParts ==
  ASSUME NEW S, NEW s, NEW n \in Nat, NEW k \in 1..n, \A i \in 1..n : s[i] \in S
  PROVE  /\ SubSeq(s, k, n) \in Seq(S)
         /\ Len(SubSeq(s, k, n)) = n + 1 - k /\ Head(SubSeq(s, k, n)) = s[k]
         /\ Tail(SubSeq(s, k, n)) = SubSeq(s, k + 1, n)
<1> DEFINE e == SubSeq(s, k, n)
           f == SubSeq(s, k + 1, n)
<1>1. k \in Int /\ n \in Int /\ k =< n /\ k + 1 \in Int /\ k >= 1
  OBVIOUS
<1>2. \A i \in k..n : s[i] \in S
  BY <1>1
<1>3. e \in Seq(S) /\ Len(e) = n - k + 1 /\ \A i \in 1..(n - k + 1) : e[i] = s[k + i - 1]
  BY <1>1, <1>2, SubSeqProperties
<1>4. f \in Seq(S) /\ Len(f) = n - k /\ \A i \in 1..(n - k) : f[i] = s[k + i]
  <2> DEFINE m == k + 1
  <2>1. m \in Int /\ \A i \in m..n : s[i] \in S
    BY <1>1, <1>2
  <2>2. /\ SubSeq(s, m, n) \in Seq(S) /\ Len(SubSeq(s, m, n)) = IF m <= n THEN n-m+1 ELSE 0
        /\ \A i \in 1..(n - m + 1) : SubSeq(s, m, n)[i] = s[m + i - 1]
    <3> HIDE DEF m
    <3> QED BY <1>1, <2>1, SubSeqProperties
  <2> QED BY <1>1, <2>2
<1>5. e # <<>>
  <2> HIDE DEF e
  <2> QED BY <1>1, <1>3, EmptySeq
<1>6. Head(e) = s[k]
  <2>1. Head(e) = e[1]
    <3> HIDE DEF e
    <3> QED BY <1>3
  <2>2. e[1] = s[k]
    BY <1>1, <1>3
  <2> QED BY <2>1, <2>2
<1>7. /\ Tail(e) \in Seq(S) /\ Len(Tail(e)) = n - k
      /\ \A i \in 1..(n - k) : Tail(e)[i] = s[k + i]
  <2> HIDE DEF e
  <2>1. /\ Tail(e) \in Seq(S) /\ Len(Tail(e)) = Len(e) - 1
        /\ \A i \in 1..Len(Tail(e)) : Tail(e)[i] = e[i + 1]
    BY <1>3, <1>5, HeadTailProperties
  <2> QED BY <1>1, <1>3, <2>1
<1>8. Tail(e) = f
  <2> DEFINE t == Tail(e)
  <2> HIDE DEF e, f, t
  <2>1. t \in [1..(n - k) -> S] /\ f \in [1..(n - k) -> S]
    BY <1>4, <1>7, LenProperties DEF t
  <2>2. \A i \in 1..(n - k) : t[i] = f[i]
    BY <1>4, <1>7 DEF t
  <2> QED BY <2>1, <2>2 DEF t
<1> QED BY <1>3, <1>6, <1>8

\* One step in front of a sequence.
LEMMA FrontParts ==
  ASSUME NEW S, NEW s \in Seq(S), NEW a \in S
  PROVE  LET t == <<a>> \o s IN t # <<>> /\ Head(t) = a /\ Tail(t) = s
<1> DEFINE h == <<a>>
           t == h \o s
<1>1. h \in Seq(S) /\ Len(h) = 1 /\ h[1] = a
  OBVIOUS
<1>2. Len(s) \in Nat /\ s \in [1..Len(s) -> S]
  BY LenProperties
<1>3. /\ t \in Seq(S) /\ Len(t) = 1 + Len(s)
      /\ \A i \in 1..(1 + Len(s)) : t[i] = IF i <= 1 THEN h[i] ELSE s[i - 1]
  <2> HIDE DEF h
  <2>1. /\ h \o s \in Seq(S) /\ Len(h \o s) = Len(h) + Len(s)
        /\ \A i \in 1..(Len(h) + Len(s)) : (h \o s)[i] = IF i <= Len(h) THEN h[i] ELSE s[i - Len(h)]
    BY <1>1, ConcatProperties
  <2> HIDE DEF t
  <2>2. t = h \o s
    BY DEF t
  <2> QED BY <1>1, <2>1, <2>2
<1> HIDE DEF t, h
<1>4. t # <<>>
  BY <1>2, <1>3, EmptySeq
<1>5. Head(t) = a
  BY <1>1, <1>2, <1>3
<1>6. Tail(t) = s
  <2>1. /\ Tail(t) \in Seq(S) /\ Len(Tail(t)) = Len(s)
        /\ \A i \in 1..Len(s) : Tail(t)[i] = t[i + 1]
    BY <1>2, <1>3, <1>4, HeadTailProperties
  <2>2. \A i \in 1..Len(s) : Tail(t)[i] = s[i]
    BY <1>2, <1>3, <2>1
  <2>3. Tail(t) \in [1..Len(s) -> S]
    BY <2>1, LenProperties
  <2> QED BY <1>2, <2>2, <2>3
<1> QED BY <1>4, <1>5, <1>6 DEF t, h

\* The steps, by number.
LEMMA ScenarioSteps ==
  /\ Scenario[1] = "begin" /\ Scenario[2] = "create" /\ Scenario[3] = "approveFund"
  /\ Scenario[4] = "fund" /\ Scenario[5] = "approveImpostor" /\ Scenario[6] = "impostor"
  /\ Scenario[7] = "wait" /\ Scenario[8] = "applyFund" /\ Scenario[9] = "checkFinanced"
  /\ Scenario[10] = "applyImpostor" /\ Scenario[11] = "approveRepay" /\ Scenario[12] = "repay"
  /\ Scenario[13] = "wait" /\ Scenario[14] = "applyRepay" /\ Scenario[15] = "checkClosed"
  /\ Scenario[16] = "createReserved"
BY DEF Scenario

\* Any set that has all the steps.
Steps == {Scenario[i] : i \in 1..16} \cup {"topUp", "inspect"}

\* What is left from a step on, and after it.
LEMMA PlanParts ==
  ASSUME NEW k \in 1..16
  PROVE  /\ Plan(k) \in Seq(Steps) /\ Plan(k) # <<>> /\ Len(Plan(k)) = 17 - k
         /\ Head(Plan(k)) = Scenario[k]
         /\ k # 16 => Tail(Plan(k)) = Plan(k + 1)
         /\ k = 16 => Tail(Plan(k)) = <<>>
<1> DEFINE n == 16
<1>1. n \in Nat /\ k \in 1..n /\ \A i \in 1..n : Scenario[i] \in Steps
  BY DEF Steps
<1>2. Plan(k) = SubSeq(Scenario, k, n) /\ Plan(k + 1) = SubSeq(Scenario, k + 1, n)
  BY DEF Plan
<1>3. k = n => SubSeq(Scenario, k + 1, n) = <<>>
  <2> DEFINE m == k + 1
  <2>1. k = n => m \in Int /\ n \in Int /\ n < m
    OBVIOUS
  <2> HIDE DEF m, n
  <2> QED BY <2>1, SubSeqEmpty DEF m
<1> HIDE DEF n
<1>4. /\ Plan(k) \in Seq(Steps) /\ Plan(k) # <<>> /\ Len(Plan(k)) = n + 1 - k
      /\ Head(Plan(k)) = Scenario[k] /\ Tail(Plan(k)) = Plan(k + 1)
  <2> DEFINE e == SubSeq(Scenario, k, n)
  <2>1. /\ e \in Seq(Steps) /\ Len(e) = n + 1 - k /\ Head(e) = Scenario[k]
        /\ Tail(e) = SubSeq(Scenario, k + 1, n)
    BY ONLY <1>1, EndParts
  <2> HIDE DEF e
  <2>2. e # <<>>
    BY <1>1, <2>1, EmptySeq
  <2> QED BY Zenon, <1>2, <2>1, <2>2 DEF e
<1>5. Len(Plan(k)) = 17 - k /\ (k = 16 => Tail(Plan(k)) = <<>>)
  BY <1>2, <1>3, <1>4 DEF n
<1> QED BY <1>4, <1>5

\* The numbers of the steps that send, and of those that look.
LEMMA StepNumbers ==
  ASSUME NEW k \in 1..16
  PROVE  LET act == Scenario[k] IN
         /\ act \notin {"topUp", "inspect", "none"}
         /\ (act = "begin" <=> k = 1) /\ (act = "create" <=> k = 2)
         /\ (act = "createReserved" <=> k = 16)
         /\ (act \in Approvals <=> k \in {3, 5, 11})
         /\ (act \in Payments <=> k \in {4, 6, 12})
         /\ (act \in Applications <=> k \in {8, 10, 14})
         /\ (act = "wait" <=> k \in {7, 13})
         /\ (act = "fund" <=> k = 4) /\ (act = "repay" <=> k = 12) /\ (act = "impostor" <=> k = 6)
         /\ (act = "applyFund" <=> k = 8) /\ (act = "applyImpostor" <=> k = 10)
         /\ (act = "applyRepay" <=> k = 14)
         /\ (act = "checkFinanced" <=> k = 9) /\ (act = "checkClosed" <=> k = 15)
<1>1. \/ k = 1 \/ k = 2 \/ k = 3 \/ k = 4 \/ k = 5 \/ k = 6 \/ k = 7 \/ k = 8
      \/ k = 9 \/ k = 10 \/ k = 11 \/ k = 12 \/ k = 13 \/ k = 14 \/ k = 15 \/ k = 16
  OBVIOUS
<1> QED BY <1>1, ScenarioSteps DEF Approvals, Payments, Applications

\* Whole plans begin anew, and the parts of the others are theirs.
LEMMA PlanNames ==
  /\ Scenario = Plan(1) /\ RepayOn = Plan(11) /\ ReserveOn = Plan(16)
  /\ Head(Inspect) = "inspect" /\ Inspect # <<>>
  /\ Head(ToppingUp(Scenario)) = "topUp" /\ Tail(ToppingUp(Scenario)) = Scenario
  /\ Head(ToppingUp(Inspect)) = "topUp" /\ Tail(ToppingUp(Inspect)) = Inspect
  /\ ToppingUp(Scenario) # <<>> /\ ToppingUp(Inspect) # <<>>
<1>1. Scenario = Plan(1) /\ RepayOn = Plan(11) /\ ReserveOn = Plan(16)
  BY DEF Scenario, Plan, RepayOn, ReserveOn
<1>2. Scenario \in Seq(Steps) /\ Inspect \in Seq(Steps) /\ "topUp" \in Steps
  <2>1. "inspect" \in Steps /\ "topUp" \in Steps
    BY DEF Steps
  <2> QED BY <1>1, <2>1, PlanParts DEF Inspect
<1>3. Head(Inspect) = "inspect" /\ Inspect # <<>>
  BY DEF Inspect
<1> QED BY <1>1, <1>2, <1>3, FrontParts DEF ToppingUp

\* A plan is known by what it has left.
LEMMA PlanIsOne ==
  ASSUME NEW k \in 1..16
  PROVE  /\ Plan(k) \notin {<<>>, Inspect, ToppingUp(Scenario), ToppingUp(Inspect)}
         /\ \A j \in 1..16 : Plan(j) = Plan(k) => j = k
         /\ Inspect # ToppingUp(Inspect) /\ ToppingUp(Scenario) # ToppingUp(Inspect)
         /\ Inspect # ToppingUp(Scenario)
<1>1. Plan(k) \notin {<<>>, Inspect, ToppingUp(Scenario), ToppingUp(Inspect)}
  <2>1. Plan(k) # <<>> /\ Head(Plan(k)) \notin {"inspect", "topUp"}
    <3> DEFINE a == Scenario[k]
    <3>1. Plan(k) # <<>> /\ Head(Plan(k)) = a
      BY PlanParts
    <3>2. a \notin {"topUp", "inspect", "none"}
      BY StepNumbers
    <3> QED BY ONLY <3>1, <3>2
  <2>2. Plan(k) # Inspect /\ Plan(k) # ToppingUp(Scenario) /\ Plan(k) # ToppingUp(Inspect)
    BY <2>1, PlanNames
  <2> QED BY <2>1, <2>2
<1>2. \A j \in 1..16 : Plan(j) = Plan(k) => j = k
  <2> SUFFICES ASSUME NEW j \in 1..16, Plan(j) = Plan(k) PROVE j = k
    OBVIOUS
  <2>1. 17 - j = 17 - k
    BY PlanParts
  <2> QED BY <2>1
<1>3. Scenario # Inspect
  <2>1. Head(Scenario) = "begin"
    BY PlanNames, PlanParts, ScenarioSteps
  <2> QED BY <2>1, PlanNames
<1> QED BY <1>1, <1>2, <1>3, PlanNames

\* What a command may be at, and what follows a step that is not the last.
LEMMA PlanCases ==
  ASSUME NEW p \in Plans
  PROVE  /\ \/ \E k \in 1..16 : p = Plan(k)
            \/ p \in {Inspect, ToppingUp(Scenario), ToppingUp(Inspect)}
         /\ p # <<>>
         /\ Head(p) \notin {"createReserved", "inspect"} => Tail(p) \in Plans
<1>1. CASE \E k \in 1..16 : p = Plan(k)
  <2>1. PICK k \in 1..16 : p = Plan(k)
    BY <1>1
  <2>2. p # <<>> /\ Head(p) = Scenario[k] /\ (k # 16 => Tail(p) = Plan(k + 1))
    BY <2>1, PlanParts
  <2>3. Head(p) # "createReserved" => k # 16
    BY <2>2, ScenarioSteps
  <2>4. k # 16 => k + 1 \in 1..16
    OBVIOUS
  <2>5. k # 16 => Tail(p) \in Plans
    BY <2>2, <2>4 DEF Plans
  <2> QED BY <1>1, <2>2, <2>3, <2>5
<1>2. CASE p \in {Inspect, ToppingUp(Scenario), ToppingUp(Inspect)}
  <2>1. Scenario \in Plans /\ Inspect \in Plans
    <3>1. 1 \in 1..16
      OBVIOUS
    <3>2. Plan(1) \in Plans
      BY <3>1 DEF Plans
    <3> QED BY <3>2, PlanNames DEF Plans
  <2> QED BY <1>2, <2>1, PlanNames
<1> QED BY <1>1, <1>2 DEF Plans

\* The wallet a transaction is sent from.
LEMMA Senders ==
  /\ \A act : From(act) \in Accounts
  /\ \A act \in Payments \cup Approvals : From(act) \in {"A", "B"}
  /\ \A act \in Creations : From(act) = "B_CTC"
  /\ From("fund") = "A" /\ From("repay") = "B" /\ From("impostor") = "B"
BY DEF From, Accounts, Payments, Approvals, Creations

\* What a transaction is does not depend on what it is typed as.
LEMMA TransactionParts ==
  ASSUME NEW x \in Transactions
  PROVE  /\ x.act \in Payments \cup Approvals \cup Applications \cup Creations \cup {"topUp", "none"}
         /\ x.deal \in Nat /\ x.amount \in Nat /\ x.nonce \in Nat
         /\ x.act \in Applications => x.proves \in Plain
         /\ x.act \notin Applications => x \in Plain
<1>1. CASE x \in Plain
  BY <1>1 DEF Plain, Payments, Approvals, Creations, Applications
<1>2. CASE x \in Proving
  BY <1>2 DEF Proving
<1> QED BY <1>1, <1>2 DEF Transactions

LEMMA NoTxTypes == NoTx \in Plain /\ NoTx \in Transactions /\ NoTx.act = "none"
BY DEF NoTx, Plain, Transactions

-----------------------------------------------------------------------------
(* Types are kept. *)

LEMMA NoCommandTypes ==
  /\ NoCommand \in Commands
  /\ NoCommand.at = "ended" /\ NoCommand.left = <<>> /\ NoCommand.tx = NoTx
  /\ NoCommand.result = "none" /\ NoCommand.made = {}
<1> DEFINE L == Plans \cup {<<>>}
           T == Transactions
           M == SUBSET Plain
           z == NoTx
           e == {}
           l == <<>>
           b == [exposure |-> 0, score |-> 0]
<1>1. l \in L /\ z \in T /\ e \in M /\ b \in [exposure: Nat, score: Nat]
  BY NoTxTypes
<1>2. /\ NoCommand = [at |-> "ended", result |-> "none", starts |-> 0, left |-> l, deal |-> 0,
              resumes |-> FALSE, runs |-> 0, made |-> e, tx |-> z, tries |-> 0,
              observed |-> FALSE, problems |-> FALSE, before |-> b, limit |-> 0,
              clean |-> TRUE]
      /\ Commands = [at: {"ended", "step", "sending"}, result: Results, starts: Nat, left: L,
              deal: Nat, resumes: BOOLEAN, runs: Nat, made: M, tx: T, tries: Nat,
              observed: BOOLEAN, problems: BOOLEAN, before: [exposure: Nat, score: Nat],
              limit: Int, clean: BOOLEAN]
  BY DEF NoCommand, Commands
<1>3. "none" \in Results
  BY DEF Results
<1> HIDE DEF L, T, M, z, e, l, b
<1>4. NoCommand \in Commands
  BY <1>1, <1>2, <1>3
<1>5. NoCommand.at = "ended" /\ NoCommand.left = l /\ NoCommand.tx = z /\ NoCommand.result = "none"
      /\ NoCommand.made = e
  BY <1>2
<1> QED BY <1>4, <1>5 DEF l, z, e

LEMMA InitTypes == Init => ChainTypes /\ ProcTypes
<1> SUFFICES ASSUME Init PROVE ChainTypes /\ ProcTypes
  OBVIOUS
<1> USE LiveConstants DEF Init
<1>1. usdc \in [{"A", "B"} -> Nat] /\ allowance \in [{"A", "B"} -> Nat]
  OBVIOUS
<1>2. /\ events \in SUBSET Plain /\ attested \subseteq events /\ recorded \subseteq attested
      /\ pool \in SUBSET Transactions /\ IsFiniteSet(pool)
  BY FS_EmptySet
<1>3. deals \in Seq(Deal) /\ base \in 0..Len(deals)
  BY EmptySeq
<1>4. mined \in [Accounts -> [count: Nat, last: Transactions, ok: BOOLEAN]]
  BY NoTxTypes
<1>5. ProcTypes
  BY NoCommandTypes DEF ProcTypes
<1> QED BY <1>1, <1>2, <1>3, <1>4, <1>5 DEF ChainTypes

\* The scores and the limits they give.
LEMMA LimitTypes ==
  ASSUME ChainTypes
  PROVE  /\ \A s : IsFiniteSet(WithStatus(s)) /\ Cardinality(WithStatus(s)) \in Nat
         /\ Score \in Nat /\ CreditLimit \in Int /\ LimitAt(BASE_SCORE) \in Int
         /\ Account \in [exposure: Nat, score: Nat]
<1>1. \A s : IsFiniteSet(WithStatus(s)) /\ Cardinality(WithStatus(s)) \in Nat
  <2> SUFFICES ASSUME NEW s PROVE IsFiniteSet(WithStatus(s)) /\ Cardinality(WithStatus(s)) \in Nat
    OBVIOUS
  <2> DEFINE n == Len(deals)
             T == 1..n
             W == WithStatus(s)
  <2>1. n \in Nat /\ DOMAIN deals = T
    BY LenProperties DEF ChainTypes
  <2>2. W \subseteq T
    BY <2>1 DEF WithStatus, Recorded
  <2>3. IsFiniteSet(T)
    <3> HIDE DEF n
    <3>1. 1 \in Int /\ n \in Int
      BY <2>1
    <3> QED BY <3>1, FS_Interval
  <2> HIDE DEF T, W
  <2>4. IsFiniteSet(W)
    BY <2>2, <2>3, FS_Subset
  <2>5. Cardinality(W) \in Nat
    BY <2>4, FS_CardinalityType
  <2> QED BY <2>4, <2>5 DEF W
<1>2. Score \in Nat
  <2> DEFINE a == Cardinality(WithStatus("PAID_ON_TIME"))
             b == Cardinality(WithStatus("PAID_LATE"))
             c == Cardinality(WithStatus("DEFAULTED"))
             t == BASE_SCORE + 25 * a - 50 * b - 200 * c
  <2>1. a \in Nat /\ b \in Nat /\ c \in Nat
    BY <1>1
  <2> HIDE DEF a, b, c
  <2>2. t \in Int
    BY <2>1 DEF BASE_SCORE
  <2>3. Score = IF t < 300 THEN 300 ELSE IF t > 850 THEN 850 ELSE t
    BY DEF Score, a, b, c
  <2> HIDE DEF t
  <2> QED BY <2>2, <2>3
<1>3. \A n \in Nat : LimitAt(n) \in Int
  BY LiveConstants DEF LimitAt, BASE_SCORE
<1>4. CreditLimit \in Int /\ LimitAt(BASE_SCORE) \in Int
  BY <1>2, <1>3 DEF CreditLimit, BASE_SCORE
<1>5. Account \in [exposure: Nat, score: Nat]
  <2> DEFINE U == WithStatus("FINANCED") \cup WithStatus("DEFAULTED")
  <2>1. IsFiniteSet(U)
    BY <1>1, FS_Union
  <2> HIDE DEF U
  <2>2. Cardinality(U) \in Nat
    BY <2>1, FS_CardinalityType
  <2>3. Account = [exposure |-> Cardinality(U), score |-> Score]
    BY DEF Account, U
  <2> QED BY <1>2, <2>2, <2>3
<1> QED BY <1>1, <1>2, <1>4, <1>5

\* However a command stops.
LEMMA Stops ==
  ASSUME ProcTypes, NEW r \in Results, proc' = Stop(r)
  PROVE  /\ ProcTypes'
         /\ proc'.at = "ended" /\ proc'.result = r /\ proc'.left = <<>> /\ proc'.tx = NoTx
         /\ proc'.deal = proc.deal /\ proc'.resumes = proc.resumes /\ proc'.clean = proc.clean
         /\ proc'.limit = proc.limit
<1> DEFINE L == Plans \cup {<<>>}
           T == Transactions
           M == SUBSET Plain
           z == NoTx
           e == {}
           l == <<>>
<1>1. l \in L /\ z \in T /\ e \in M
  BY NoTxTypes
<1>2. /\ proc' = [proc EXCEPT !.at = "ended", !.result = r, !.left = l, !.tx = z,
                             !.tries = 0, !.observed = FALSE, !.made = e]
      /\ Commands = [at: {"ended", "step", "sending"}, result: Results, starts: Nat, left: L,
              deal: Nat, resumes: BOOLEAN, runs: Nat, made: M, tx: T, tries: Nat,
              observed: BOOLEAN, problems: BOOLEAN, before: [exposure: Nat, score: Nat],
              limit: Int, clean: BOOLEAN]
      /\ proc \in Commands
  BY DEF Stop, Commands, ProcTypes
<1> HIDE DEF L, T, M, z, e, l
<1>3. proc' \in Commands
  <2>1. PICK c \in Commands : c = proc
    BY <1>2
  <2>2. [c EXCEPT !.at = "ended", !.result = r, !.left = l] \in Commands
    BY <1>1, <1>2
  <2>3. PICK c2 \in Commands : c2 = [c EXCEPT !.at = "ended", !.result = r, !.left = l]
    BY <2>2
  <2>4. [c2 EXCEPT !.tx = z, !.tries = 0, !.observed = FALSE, !.made = e] \in Commands
    BY <1>1, <1>2
  <2>5. proc' = [c2 EXCEPT !.tx = z, !.tries = 0, !.observed = FALSE, !.made = e]
    BY <1>2, <2>1, <2>3
  <2> QED BY <2>4, <2>5
<1>4. /\ proc'.at = "ended" /\ proc'.result = r /\ proc'.left = l /\ proc'.tx = z
      /\ proc'.deal = proc.deal /\ proc'.resumes = proc.resumes /\ proc'.clean = proc.clean
      /\ proc'.limit = proc.limit
  BY <1>2
<1> QED BY <1>3, <1>4 DEF ProcTypes, l, z

\* A command that starts has a plan from the beginning on, with the CTC B lacks in front.
Ample == proc.starts + 1 \notin Poor

LEMMA Starts ==
  ASSUME ProcTypes, NEW s \in {Scenario, Inspect}
  PROVE  /\ Start(s) \in Commands
         /\ Start(s).at = "step" /\ Start(s).tx = NoTx /\ Start(s).result = "none"
         /\ Start(s).left \in {s, ToppingUp(s)} /\ Start(s).resumes = FALSE
         /\ (Start(s).clean <=> pool = {}) /\ (Start(s).left = s <=> Ample)
         /\ Start(s).made = {}
<1> DEFINE n == NoCommand
           p == (IF proc.starts + 1 \in Poor THEN <<"topUp">> ELSE <<>>) \o s
           e == (pool = {})
           o == {}
           q == Start(s)
<1>1. s \in Seq(Steps) /\ s \in Plans /\ ToppingUp(s) \in Plans /\ ToppingUp(s) # s
  <2>1. Scenario \in Seq(Steps) /\ Scenario \in Plans
    <3>1. 1 \in 1..16
      OBVIOUS
    <3>2. Plan(1) \in Seq(Steps) /\ Plan(1) \in Plans
      BY <3>1, PlanParts DEF Plans
    <3> QED BY <3>2, PlanNames
  <2>2. Inspect \in Seq(Steps) /\ Inspect \in Plans /\ ToppingUp(s) \in Plans
    <3>1. "inspect" \in Steps
      BY DEF Steps
    <3>2. Inspect \in Seq(Steps)
      BY <3>1 DEF Inspect
    <3> QED BY <3>2 DEF Plans
  <2>3. ToppingUp(s) # s
    <3>1. 1 \in 1..16
      OBVIOUS
    <3>2. Plan(1) \notin {<<>>, Inspect, ToppingUp(Scenario), ToppingUp(Inspect)}
          /\ Inspect # ToppingUp(Inspect)
      BY <3>1, PlanIsOne
    <3> QED BY <3>2, PlanNames
  <2> QED BY <2>1, <2>2, <2>3
<1>2. (Ample => p = s) /\ (~Ample => p = ToppingUp(s))
  <2>1. <<>> \o s = s
    BY <1>1, ConcatEmptySeq
  <2> QED BY <2>1 DEF ToppingUp, Ample
<1>3. q = [n EXCEPT !.at = "step", !.starts = proc.starts + 1, !.clean = e, !.left = p]
  BY DEF Start
<1>4. n \in Commands /\ n.tx = NoTx /\ n.result = "none" /\ n.resumes = FALSE /\ n.made = o
  BY NoCommandTypes DEF NoCommand
<1>5. e \in BOOLEAN /\ proc.starts \in Nat
  BY DEF ProcTypes, Commands
<1>6. p \in Plans /\ p \in {s, ToppingUp(s)} /\ (p = s <=> Ample)
  BY Zenon, <1>1, <1>2
<1> HIDE DEF n, p, e, o, q
<1>7. /\ q \in Commands /\ q.at = "step" /\ q.left = p /\ q.tx = NoTx /\ q.result = "none"
      /\ q.resumes = FALSE /\ q.clean = e /\ q.made = o
  <2> DEFINE i == proc.starts + 1
  <2>1. i \in Nat
    BY <1>5
  <2> HIDE DEF i
  <2>2. [n EXCEPT !.at = "step", !.starts = i, !.clean = e, !.left = p] \in Commands
    BY <1>4, <1>5, <1>6, <2>1 DEF Commands
  <2>3. q = [n EXCEPT !.at = "step", !.starts = i, !.clean = e, !.left = p]
    BY <1>3 DEF i
  <2>4. /\ q.at = "step" /\ q.left = p /\ q.tx = NoTx /\ q.result = "none"
        /\ q.resumes = FALSE /\ q.clean = e /\ q.made = o
    BY <1>4, <2>3 DEF Commands
  <2> QED BY <2>2, <2>3, <2>4
<1>8. q.clean <=> pool = {}
  BY Zenon, <1>7 DEF e
<1>9. q.left \in {s, ToppingUp(s)} /\ (q.left = s <=> Ample)
  BY Zenon, <1>6, <1>7
<1> QED BY Zenon, <1>7, <1>8, <1>9 DEF q, o

LEMMA StartRunsTypes ==
  ASSUME ChainTypes, ProcTypes, NEW fresh \in BOOLEAN, NEW r \in 1..MaxRuns, StartRuns(fresh, r)
  PROVE  /\ ChainTypes' /\ ProcTypes'
         /\ proc'.left \in {Plan(1), ToppingUp(Scenario)} /\ proc'.at = "step" /\ proc'.tx = NoTx
         /\ proc'.result = "none" /\ proc'.resumes = FALSE /\ proc'.runs = r
         /\ (proc'.clean <=> pool = {}) /\ (proc'.left = Plan(1) <=> Ample) /\ proc'.made = {}
         /\ proc'.limit = IF fresh THEN LimitAt(BASE_SCORE) ELSE CreditLimit
<1>1. base' \in 0..Len(deals)
  <2>1. Len(deals) \in Nat /\ base \in 0..Len(deals)
    BY LenProperties DEF ChainTypes
  <2> QED BY <2>1 DEF StartRuns
<1>2. ChainTypes'
  BY <1>1 DEF ChainTypes, StartRuns
<1> DEFINE s == Scenario
           q == Start(s)
           m == IF fresh THEN LimitAt(BASE_SCORE) ELSE CreditLimit
<1>3. /\ q \in Commands /\ q.at = "step" /\ q.tx = NoTx /\ q.result = "none"
      /\ q.left \in {s, ToppingUp(s)} /\ q.resumes = FALSE
      /\ (q.clean <=> pool = {}) /\ (q.left = s <=> Ample) /\ q.made = {}
  BY Starts
<1>4. proc' = [q EXCEPT !.runs = r, !.limit = m] /\ r \in Nat /\ r # 0 /\ m \in Int
  BY LiveConstants, LimitTypes DEF StartRuns
<1>5. s = Plan(1) /\ s \in Plans /\ ToppingUp(s) \in Plans
  <2>1. 1 \in 1..16
    OBVIOUS
  <2> QED BY <2>1, PlanNames DEF Plans
<1> HIDE DEF s, q, m
<1>6. /\ proc' \in Commands /\ proc'.at = "step" /\ proc'.tx = NoTx /\ proc'.result = "none"
      /\ proc'.left = q.left /\ proc'.resumes = FALSE /\ proc'.runs = r /\ proc'.clean = q.clean
      /\ proc'.made = q.made /\ proc'.limit = m
  BY <1>3, <1>4 DEF Commands
<1>7. proc'.left \in Plans /\ proc'.left \in {s, ToppingUp(s)}
  BY <1>3, <1>5, <1>6
<1>8. ProcTypes'
  BY <1>4, <1>6, <1>7 DEF ProcTypes
<1>9. (proc'.clean <=> pool = {}) /\ (proc'.left = Plan(1) <=> Ample)
  BY Zenon, <1>3, <1>5, <1>6
<1> QED BY <1>2, <1>3, <1>5, <1>6, <1>7, <1>8, <1>9 DEF s, m

LEMMA ResumeTypes ==
  ASSUME ChainTypes, ProcTypes, NEW d \in DOMAIN deals, Resume(d)
  PROVE  /\ ChainTypes' /\ ProcTypes'
         /\ proc'.left \in {Inspect, ToppingUp(Inspect)} /\ proc'.at = "step" /\ proc'.tx = NoTx
         /\ proc'.result = "none" /\ proc'.resumes = TRUE /\ proc'.deal = d
         /\ proc'.made = {}
<1>1. ChainTypes'
  BY DEF ChainTypes, Resume, chainVars
<1> DEFINE s == Inspect
           q == Start(s)
<1>2. /\ q \in Commands /\ q.at = "step" /\ q.tx = NoTx /\ q.result = "none"
      /\ q.left \in {s, ToppingUp(s)} /\ q.made = {}
  BY Starts
<1> DEFINE m == CreditLimit
<1>3. proc' = [q EXCEPT !.runs = 1, !.deal = d, !.resumes = TRUE, !.limit = m] /\ m \in Int
  BY LimitTypes DEF Resume, Inspect
<1>4. d \in Nat
  BY LenProperties DEF ChainTypes
<1>5. s \in Plans /\ ToppingUp(s) \in Plans
  BY DEF Plans
<1> HIDE DEF s, q, m
<1>6. /\ proc' \in Commands /\ proc'.at = "step" /\ proc'.tx = NoTx /\ proc'.result = "none"
      /\ proc'.left = q.left /\ proc'.resumes = TRUE /\ proc'.runs = 1 /\ proc'.deal = d
      /\ proc'.made = q.made
  BY <1>2, <1>3, <1>4 DEF Commands
<1>7. proc'.left \in Plans /\ proc'.left \in {s, ToppingUp(s)}
  BY <1>2, <1>5, <1>6
<1>8. ProcTypes'
  BY <1>6, <1>7 DEF ProcTypes
<1> QED BY <1>1, <1>2, <1>6, <1>7, <1>8 DEF s

Signable == Payments \cup Approvals \cup Applications \cup Creations \cup {"topUp"}

LEMMA AmountTypes == \A act : Amount(act) \in Nat
BY LiveConstants DEF Amount

\* The next nonce is beyond every transaction mined.
LEMMA NextNonce ==
  ASSUME ChainTypes, NEW w \in Accounts
  PROVE  PendingNonce(w) \in Nat /\ PendingNonce(w) >= mined[w].count
<1>1. Cardinality(Pending(w)) \in Nat
  BY FS_Subset, FS_CardinalityType DEF ChainTypes, Pending
<1>2. mined[w].count \in Nat
  BY DEF ChainTypes
<1> QED BY <1>1, <1>2 DEF PendingNonce

\* What is signed for a step.
LEMMA SignedParts ==
  ASSUME ChainTypes, ProcTypes, NEW act \in Signable,
         act \in Applications => \E e \in proc.made : e.act = Proven(act)
  PROVE  /\ Signed(act) \in Transactions /\ Signed(act).act = act
         /\ Signed(act).deal = (IF act = "create" THEN 0 ELSE proc.deal)
         /\ Signed(act).amount = Amount(act)
         /\ Signed(act).nonce >= mined[From(act)].count
         /\ act \in Applications =>
               Signed(act).proves \in proc.made /\ Signed(act).proves.act = Proven(act)
<1> DEFINE d == IF act = "create" THEN 0 ELSE proc.deal
           a == Amount(act)
           n == PendingNonce(From(act))
           p == CHOOSE e \in proc.made : e.act = Proven(act)
           q == Signed(act)
<1>1. d \in Nat /\ a \in Nat /\ n \in Nat /\ n >= mined[From(act)].count
  BY AmountTypes, NextNonce, Senders DEF ProcTypes, Commands
<1>2. act \in Applications => p \in proc.made /\ p.act = Proven(act) /\ p \in Plain
  BY DEF ProcTypes, Commands
<1>3. /\ act \notin Applications => q = [act |-> act, deal |-> d, amount |-> a, nonce |-> n]
      /\ act \in Applications =>
            q = [act |-> act, deal |-> d, amount |-> a, nonce |-> n, proves |-> p]
  BY DEF Signed, Applications
<1> HIDE DEF d, a, n, p, q
<1>5. CASE act \in Applications
  <2>1. q = [act |-> act, deal |-> d, amount |-> a, nonce |-> n, proves |-> p]
    BY <1>3, <1>5
  <2>2. q \in Proving
    BY <1>1, <1>2, <1>5, <2>1 DEF Proving
  <2>3. q.act = act /\ q.deal = d /\ q.amount = a /\ q.nonce = n /\ q.proves = p
    BY <2>1
  <2>4. q \in Transactions
    BY <2>2 DEF Transactions
  <2> QED BY <1>1, <1>2, <1>5, <2>3, <2>4 DEF d, a, n, p, q
<1>6. CASE act \notin Applications
  <2>1. q = [act |-> act, deal |-> d, amount |-> a, nonce |-> n]
    BY <1>3, <1>6
  <2>2. q \in Plain
    BY <1>1, <1>6, <2>1 DEF Plain, Signable
  <2>3. q.act = act /\ q.deal = d /\ q.amount = a /\ q.nonce = n
    BY <2>1
  <2>4. q \in Transactions
    BY <2>2 DEF Transactions
  <2> QED BY <1>1, <1>6, <2>3, <2>4 DEF d, a, n, q
<1> QED BY <1>5, <1>6

\* What a step of the command leaves alone, and how it ends one.
Same == /\ proc'.deal = proc.deal /\ proc'.resumes = proc.resumes /\ proc'.result = proc.result
        /\ proc'.clean = proc.clean /\ proc'.limit = proc.limit
Halted(r) == /\ proc'.at = "ended" /\ proc'.result = r /\ proc'.left = <<>> /\ proc'.tx = NoTx
             /\ proc'.resumes = proc.resumes /\ proc'.deal = proc.deal /\ proc'.clean = proc.clean
             /\ proc'.limit = proc.limit
Stepping == proc'.at = "step" /\ proc'.tx = NoTx

LEMMA Halts ==
  ASSUME ProcTypes, NEW r \in Results, proc' = Stop(r)
  PROVE  ProcTypes' /\ Halted(r)
BY Stops DEF Halted

\* A step is over, and the next one begins.
LEMMA SkipTypes ==
  ASSUME ProcTypes, SkipApproval
  PROVE  /\ ProcTypes' /\ Same /\ Stepping /\ proc'.left = Tail(proc.left)
         /\ proc'.made = proc.made /\ proc'.problems = proc.problems /\ proc'.runs = proc.runs
         /\ proc.at = "step"
<1> DEFINE t == Tail(proc.left)
<1>1. t \in Plans
  BY PlanCases DEF ProcTypes, SkipApproval, Approvals
<1>2. proc' = [proc EXCEPT !.left = t] /\ proc.at = "step"
  BY DEF SkipApproval
<1> HIDE DEF t
<1>3. /\ proc' \in Commands /\ proc'.left = t /\ Same /\ proc'.at = "step" /\ proc'.tx = proc.tx
      /\ proc'.made = proc.made /\ proc'.problems = proc.problems /\ proc'.runs = proc.runs
  BY <1>1, <1>2 DEF ProcTypes, Commands, Same
<1> QED BY <1>1, <1>2, <1>3 DEF ProcTypes, Stepping, t, Same

LEMMA WaitTypes ==
  ASSUME ProcTypes, Wait
  PROVE  /\ ProcTypes' /\ proc.at = "step" /\ Head(proc.left) = "wait"
         /\ \/ Halted("timeout")
            \/ /\ Same /\ Stepping /\ proc'.left = Tail(proc.left)
               /\ proc'.made = proc.made /\ proc'.problems = proc.problems /\ proc'.runs = proc.runs
<1> DEFINE t == Tail(proc.left)
<1>1. CASE proc' = Stop("timeout")
  <2>1. "timeout" \in Results
    BY DEF Results
  <2> QED BY <1>1, <2>1, Halts DEF Wait
<1>2. CASE proc' = [proc EXCEPT !.left = t]
  <2>1. t \in Plans
    BY PlanCases DEF ProcTypes, Wait
  <2>2. proc.at = "step" /\ Head(proc.left) = "wait"
    BY DEF Wait
  <2> HIDE DEF t
  <2>3. /\ proc' \in Commands /\ proc'.left = t /\ Same /\ proc'.at = "step" /\ proc'.tx = proc.tx
        /\ proc'.made = proc.made /\ proc'.problems = proc.problems /\ proc'.runs = proc.runs
    BY <1>2, <2>1, <2>2 DEF ProcTypes, Commands, Same
  <2> QED BY <2>1, <2>2, <2>3 DEF ProcTypes, Stepping, t, Same
<1> QED BY <1>1, <1>2 DEF Wait

LEMMA BroadcastTypes ==
  ASSUME ChainTypes, ProcTypes, Broadcast
  PROVE  /\ ProcTypes' /\ ChainTypes' /\ Same /\ proc.at = "sending" /\ proc'.at = "sending"
         /\ proc'.tx = proc.tx /\ proc'.left = proc.left /\ proc'.made = proc.made
         /\ proc'.problems = proc.problems /\ proc'.runs = proc.runs
         /\ pool' \in {pool, pool \cup {proc.tx}}
<1>1. /\ \/ proc' = [proc EXCEPT !.tries = @ + 1, !.observed = TRUE]
         \/ proc' = [proc EXCEPT !.tries = @ + 1]
      /\ proc.at = "sending"
      /\ pool' \in {pool, pool \cup {proc.tx}}
  BY DEF Broadcast, Rebroadcast
<1>2. /\ proc' \in Commands /\ Same /\ proc'.at = "sending"
      /\ proc'.tx = proc.tx /\ proc'.left = proc.left /\ proc'.made = proc.made
      /\ proc'.problems = proc.problems /\ proc'.runs = proc.runs
  <2>1. CASE proc' = [proc EXCEPT !.tries = @ + 1, !.observed = TRUE]
    <3> DEFINE i == proc.tries + 1
    <3>1. i \in Nat
      BY DEF ProcTypes, Commands
    <3> HIDE DEF i
    <3>2. [proc EXCEPT !.tries = i] \in Commands
      BY <3>1 DEF ProcTypes, Commands
    <3>3. proc' = [proc EXCEPT !.tries = i, !.observed = TRUE]
      BY <2>1 DEF i
    <3>4. PICK c \in Commands : c = [proc EXCEPT !.tries = i]
      BY <3>2
    <3>5. proc' = [c EXCEPT !.observed = TRUE] /\ proc \in Commands
      BY <3>3, <3>4 DEF ProcTypes, Commands
    <3>6. proc' \in Commands
      BY <3>4, <3>5 DEF Commands
    <3>7. /\ Same /\ proc'.at = proc.at /\ proc'.tx = proc.tx /\ proc'.left = proc.left
          /\ proc'.made = proc.made /\ proc'.problems = proc.problems /\ proc'.runs = proc.runs
      BY <3>3, <3>5 DEF Commands, Same
    <3> QED BY <1>1, <3>6, <3>7
  <2>2. CASE proc' = [proc EXCEPT !.tries = @ + 1]
    BY <1>1, <2>2 DEF ProcTypes, Commands, Same
  <2> QED BY <1>1, <2>1, <2>2
<1>3. ProcTypes'
  BY <1>1, <1>2 DEF ProcTypes, Same
<1>4. pool' \in SUBSET Transactions /\ IsFiniteSet(pool')
  <2>1. proc.tx \in Transactions /\ pool \in SUBSET Transactions /\ IsFiniteSet(pool)
    BY DEF ProcTypes, Commands, ChainTypes
  <2> DEFINE t == proc.tx
             p == pool \cup {t}
  <2>2. IsFiniteSet(p)
    BY <2>1, FS_AddElement
  <2> QED BY <1>1, <2>1, <2>2
<1>5. ChainTypes'
  BY <1>4 DEF ChainTypes, Broadcast
<1> QED BY <1>1, <1>2, <1>3, <1>5

\* Signing needs the payment an application is to prove.
Payable == proc.at = "step" /\ Head(proc.left) \in Applications =>
               \E e \in proc.made : e.act = Proven(Head(proc.left))

LEMMA SignTypes ==
  ASSUME ChainTypes, ProcTypes, Payable, Sign
  PROVE  /\ ProcTypes' /\ proc.at = "step" /\ Head(proc.left) \in Signable
         /\ \/ \E r \in {"relayed", "refused"} : Halted(r)
            \/ /\ Same /\ proc'.at = "sending" /\ proc'.left = proc.left
               /\ proc'.tx = Signed(Head(proc.left))
               /\ proc'.made = proc.made /\ proc'.problems = proc.problems /\ proc'.runs = proc.runs
<1> DEFINE a == Head(proc.left)
           x == Signed(a)
<1>1. a \in Signable /\ proc.at = "step"
  BY DEF Sign, Signable
<1>2. x \in Transactions /\ x.act = a
  BY <1>1, SignedParts DEF Payable
<1>3. x # NoTx
  BY <1>1, <1>2 DEF NoTx, Signable, Payments, Approvals, Applications, Creations
<1>4. \/ proc' = Stop("relayed") \/ proc' = Stop("refused")
      \/ proc' = [proc EXCEPT !.at = "sending", !.tx = x]
  BY DEF Sign
<1>5. CASE proc' = Stop("relayed") \/ proc' = Stop("refused")
  <2>1. "relayed" \in Results /\ "refused" \in Results
    BY DEF Results
  <2> QED BY <1>1, <1>5, <2>1, Halts
<1>6. CASE proc' = [proc EXCEPT !.at = "sending", !.tx = x]
  <2> HIDE DEF x
  <2>1. proc' \in Commands
    BY <1>2, <1>6 DEF ProcTypes, Commands
  <2>2. /\ Same /\ proc'.at = "sending" /\ proc'.left = proc.left /\ proc'.tx = x
        /\ proc'.made = proc.made /\ proc'.problems = proc.problems /\ proc'.runs = proc.runs
    BY <1>6 DEF ProcTypes, Commands, Same
  <2>3. ProcTypes'
    BY <1>1, <1>2, <1>3, <2>1, <2>2 DEF ProcTypes, Same
  <2> QED BY <1>1, <2>2, <2>3 DEF x
<1> QED BY <1>4, <1>5, <1>6

LEMMA GiveUpTypes ==
  ASSUME ProcTypes, GiveUp \/ Crash
  PROVE  ProcTypes' /\ \E r \in {"timeout", "crash"} : Halted(r)
<1>1. "timeout" \in Results /\ "crash" \in Results
  BY DEF Results
<1>2. proc' = Stop("timeout") \/ proc' = Stop("crash")
  BY DEF GiveUp, Crash
<1> QED BY <1>1, <1>2, Halts

\* The step that looked at the registry, and what it made of it.
LEMMA LookTypes ==
  ASSUME ChainTypes, ProcTypes, Look
  PROVE  /\ ProcTypes' /\ proc.at = "step"
         /\ Head(proc.left) \in {"begin", "inspect", "checkFinanced", "checkClosed"}
         /\ \/ Halted("ineligible")
            \/ /\ Same /\ Stepping /\ Head(proc.left) = "inspect" /\ Eligible(proc.deal)
               /\ proc'.left = IF deals[proc.deal].status = "FINANCED" THEN Plan(11) ELSE Plan(16)
               /\ proc'.made = proc.made /\ proc'.runs = proc.runs
            \/ /\ Same /\ Stepping /\ Head(proc.left) # "inspect"
               /\ proc'.left = Tail(proc.left)
               /\ (proc'.problems <=> proc.problems \/ Mismatch(Head(proc.left)))
               /\ proc'.made = proc.made /\ proc'.runs = proc.runs
<1> DEFINE a == Head(proc.left)
           t == Tail(proc.left)
           l == IF deals[proc.deal].status = "FINANCED" THEN RepayOn ELSE ReserveOn
           c == Account
           m == proc.problems \/ Mismatch(a)
           b == IF a = "begin" THEN c ELSE proc.before
<1>1. a \in {"begin", "inspect", "checkFinanced", "checkClosed"} /\ proc.at = "step"
  BY DEF Look
<1>2. \/ proc' = Stop("ineligible")
      \/ /\ a = "inspect" /\ Eligible(proc.deal)
         /\ proc' = [proc EXCEPT !.before = c, !.left = l]
      \/ a # "inspect" /\ proc' = [proc EXCEPT !.left = t, !.problems = m, !.before = b]
  BY DEF Look
<1>3. CASE proc' = Stop("ineligible")
  <2>1. "ineligible" \in Results
    BY DEF Results
  <2> QED BY <1>1, <1>3, <2>1, Halts
<1>4. CASE a = "inspect" /\ Eligible(proc.deal) /\ proc' = [proc EXCEPT !.before = c, !.left = l]
  <2>1. l = (IF deals[proc.deal].status = "FINANCED" THEN Plan(11) ELSE Plan(16)) /\ l \in Plans
    <3>1. 11 \in 1..16 /\ 16 \in 1..16
      OBVIOUS
    <3> QED BY <3>1, PlanNames DEF Plans
  <2>2. c \in [exposure: Nat, score: Nat]
    BY LimitTypes
  <2> HIDE DEF l, c
  <2>3. proc' \in Commands
    BY <1>4, <2>1, <2>2 DEF ProcTypes, Commands
  <2>4. /\ Same /\ proc'.at = proc.at /\ proc'.left = l /\ proc'.tx = proc.tx
        /\ proc'.made = proc.made /\ proc'.runs = proc.runs
    BY <1>4 DEF ProcTypes, Commands, Same
  <2>5. ProcTypes' /\ Stepping
    BY <1>1, <2>1, <2>3, <2>4 DEF ProcTypes, Same, Stepping
  <2> QED BY <1>1, <1>4, <2>1, <2>4, <2>5
<1>5. CASE a # "inspect" /\ proc' = [proc EXCEPT !.left = t, !.problems = m, !.before = b]
  <2>1. t \in Plans
    BY <1>1, <1>5, PlanCases DEF ProcTypes
  <2>2. c \in [exposure: Nat, score: Nat]
    BY LimitTypes
  <2>3. m \in BOOLEAN
    BY Zenon
  <2>4. b \in [exposure: Nat, score: Nat]
    BY <2>2 DEF ProcTypes, Commands
  <2> HIDE DEF t, c, m, b
  <2>5. [proc EXCEPT !.left = t, !.problems = m, !.before = b] \in Commands
    BY <2>1, <2>3, <2>4 DEF ProcTypes, Commands
  <2>6. /\ Same /\ proc'.at = proc.at /\ proc'.left = t /\ proc'.tx = proc.tx /\ proc'.problems = m
        /\ proc'.made = proc.made /\ proc'.runs = proc.runs
    BY <1>5 DEF ProcTypes, Commands, Same
  <2>7. ProcTypes' /\ Stepping
    BY <1>1, <1>5, <2>1, <2>5, <2>6 DEF ProcTypes, Same, Stepping
  <2>8. proc'.problems <=> proc.problems \/ Mismatch(a)
    BY Zenon, <2>6 DEF m
  <2> QED BY <1>1, <1>5, <2>6, <2>7, <2>8 DEF t
<1> QED BY <1>2, <1>3, <1>4, <1>5

\* A receipt: what a successful transaction has brought about is known.
Receipts == proc.at = "sending" =>
    LET x == proc.tx
        m == mined[From(x.act)] IN
    m.last = x /\ m.ok /\ x.act \in Creations => \E d \in DOMAIN deals : deals[d].by = x

LEMMA ReceiptTypes ==
  ASSUME ChainTypes, ProcTypes, Receipts, Receipt
  PROVE  /\ ProcTypes' /\ proc.at = "sending" /\ mined[From(proc.tx.act)].last = proc.tx
         /\ \/ Halted("reverted")
            \/ /\ mined[From(proc.tx.act)].ok
               /\ \/ /\ Same /\ Stepping /\ proc.tx.act \in Payments
                     /\ proc'.left = Tail(proc.left) /\ proc'.made = proc.made \cup {proc.tx}
                     /\ proc'.problems = proc.problems /\ proc'.runs = proc.runs
                  \/ /\ Stepping /\ proc.tx.act = "create"
                     /\ proc'.deal \in DOMAIN deals /\ deals[proc'.deal].by = proc.tx
                     /\ proc'.resumes = proc.resumes /\ proc'.result = proc.result
                     /\ proc'.clean = proc.clean /\ proc'.limit = proc.limit
                     /\ proc'.left = Tail(proc.left) /\ proc'.made = proc.made
                     /\ proc'.problems = proc.problems /\ proc'.runs = proc.runs
                  \/ /\ Same /\ Stepping /\ proc.tx.act = "createReserved" /\ proc.runs > 1
                     /\ proc'.left = Plan(1) /\ proc'.made = {}
                     /\ proc'.problems = proc.problems /\ proc'.runs = proc.runs - 1
                  \/ /\ proc.tx.act = "createReserved" /\ proc.runs = 1
                     /\ Halted(IF proc.problems THEN "mismatch" ELSE "reported")
                  \/ /\ Same /\ Stepping /\ proc.tx.act \notin Payments \cup Creations
                     /\ proc'.left = Tail(proc.left) /\ proc'.made = proc.made
                     /\ proc'.problems = proc.problems /\ proc'.runs = proc.runs
<1> DEFINE x == proc.tx
           w == mined[From(x.act)]
           t == Tail(proc.left)
           z == NoTx
           s == Scenario
           e == {}
           o == proc.made \cup {x}
           c == CHOOSE d \in DOMAIN deals : deals[d].by = x
           n == [proc EXCEPT !.at = "step", !.left = t, !.tx = z, !.tries = 0, !.observed = FALSE]
<1>1. proc.at = "sending" /\ w.last = x /\ x.act = Head(proc.left) /\ x \in Transactions
      /\ proc \in Commands /\ proc.left \in Plans /\ proc.runs # 0 /\ proc.result = "none"
  BY DEF Receipt, ProcTypes, Commands
<1>2. /\ x.act \notin {"createReserved", "inspect"} => t \in Plans
      /\ t \in Plans \cup {<<>>}
  <2>1. x.act \notin {"createReserved", "inspect"} => t \in Plans
    BY <1>1, PlanCases
  <2>2. x.act # "inspect"
    BY <1>1, TransactionParts DEF Payments, Approvals, Applications, Creations
  <2>3. x.act = "createReserved" => t = <<>>
    <3> SUFFICES ASSUME x.act = "createReserved" PROVE t = <<>>
      OBVIOUS
    <3>1. Head(proc.left) = "createReserved"
      BY <1>1
    <3>2. PICK k \in 1..16 : proc.left = Plan(k)
      BY <1>1, <3>1, PlanNames DEF Plans
    <3>3. Scenario[k] = "createReserved"
      BY <3>1, <3>2, PlanParts
    <3>4. k = 16
      BY <3>3, StepNumbers
    <3> QED BY <3>2, <3>4, PlanParts
  <2> QED BY <2>1, <2>2, <2>3
<1>3. z \in Transactions /\ e \in SUBSET Plain
  BY NoTxTypes
<1>4. s = Plan(1) /\ s \in Plans
  <2>1. 1 \in 1..16
    OBVIOUS
  <2> QED BY <2>1, PlanNames DEF Plans
<1>5. /\ n \in Commands /\ n.at = "step" /\ n.left = t /\ n.tx = z /\ n.deal = proc.deal
      /\ n.resumes = proc.resumes /\ n.result = proc.result /\ n.clean = proc.clean /\ n.limit = proc.limit
      /\ n.made = proc.made /\ n.problems = proc.problems /\ n.runs = proc.runs
  <2> HIDE DEF t, z
  <2>1. PICK b \in Commands : b = [proc EXCEPT !.at = "step", !.left = t, !.tx = z]
    <3>1. [proc EXCEPT !.at = "step", !.left = t, !.tx = z] \in Commands
      BY <1>1, <1>2, <1>3 DEF Commands
    <3> QED BY <3>1
  <2>2. n = [b EXCEPT !.tries = 0, !.observed = FALSE]
    BY <1>1, <2>1 DEF Commands
  <2>3. n \in Commands
    BY <2>1, <2>2 DEF Commands
  <2>4. /\ n.at = "step" /\ n.left = t /\ n.tx = z /\ n.deal = proc.deal
        /\ n.resumes = proc.resumes /\ n.result = proc.result /\ n.clean = proc.clean /\ n.limit = proc.limit
        /\ n.made = proc.made /\ n.problems = proc.problems /\ n.runs = proc.runs
    BY <1>1 DEF Commands
  <2> QED BY <2>3, <2>4
<1>6. \/ ~w.ok /\ proc' = Stop("reverted")
      \/ w.ok /\ x.act = "create" /\ proc' = [n EXCEPT !.deal = c]
      \/ w.ok /\ x.act \in Payments /\ proc' = [n EXCEPT !.made = @ \cup {x}]
      \/ /\ w.ok /\ x.act = "createReserved" /\ proc.runs > 1
         /\ proc' = [n EXCEPT !.left = s, !.runs = @ - 1, !.made = e]
      \/ /\ w.ok /\ x.act = "createReserved" /\ proc.runs = 1
         /\ proc' = Stop(IF proc.problems THEN "mismatch" ELSE "reported")
      \/ w.ok /\ x.act \notin Payments \cup Creations /\ proc' = n
  <2>1. proc.runs > 1 \/ proc.runs = 1
    BY <1>1 DEF Commands
  <2>2. w.ok \in BOOLEAN
    BY Senders DEF ChainTypes
  <2> QED BY <2>1, <2>2 DEF Receipt, Creations, Payments
<1>7. CASE ~w.ok /\ proc' = Stop("reverted")
  <2>1. "reverted" \in Results
    BY DEF Results
  <2> QED BY <1>1, <1>7, <2>1, Halts
<1>8. CASE w.ok /\ x.act = "create" /\ proc' = [n EXCEPT !.deal = c]
  <2>1. c \in DOMAIN deals /\ deals[c].by = x
    BY <1>1, <1>8 DEF Receipts, Creations
  <2>2. c \in Nat
    BY <2>1, LenProperties DEF ChainTypes
  <2>3. t \in Plans
    BY <1>2, <1>8
  <2> HIDE DEF n, c, t, z, x
  <2>4. proc' \in Commands
    BY <1>5, <1>8, <2>2 DEF Commands
  <2>5. /\ proc'.at = "step" /\ proc'.left = t /\ proc'.tx = z /\ proc'.deal = c
        /\ proc'.resumes = proc.resumes /\ proc'.result = proc.result /\ proc'.clean = proc.clean
        /\ proc'.limit = proc.limit /\ proc'.made = proc.made /\ proc'.problems = proc.problems /\ proc'.runs = proc.runs
    BY <1>5, <1>8 DEF Commands
  <2>6. ProcTypes' /\ Stepping
    BY <1>1, <2>3, <2>4, <2>5 DEF ProcTypes, Stepping, z
  <2> QED BY <1>1, <1>8, <2>1, <2>5, <2>6 DEF t, x
<1>9. CASE w.ok /\ x.act \in Payments /\ proc' = [n EXCEPT !.made = @ \cup {x}]
  <2>1. x \in Plain
    BY <1>1, <1>9, TransactionParts DEF Payments, Applications
  <2>2. o \in SUBSET Plain
    BY <1>1, <2>1 DEF Commands
  <2>3. t \in Plans
    BY <1>2, <1>9 DEF Payments
  <2>4. proc' = [n EXCEPT !.made = o]
    BY <1>5, <1>9
  <2> HIDE DEF n, t, z, x, o
  <2>5. proc' \in Commands
    BY <1>5, <2>2, <2>4 DEF Commands
  <2>6. /\ proc'.at = "step" /\ proc'.left = t /\ proc'.tx = z /\ proc'.deal = proc.deal
        /\ proc'.resumes = proc.resumes /\ proc'.result = proc.result /\ proc'.clean = proc.clean
        /\ proc'.limit = proc.limit /\ proc'.made = o /\ proc'.problems = proc.problems /\ proc'.runs = proc.runs
    BY <1>5, <2>4 DEF Commands
  <2>7. ProcTypes' /\ Stepping /\ Same
    BY <1>1, <2>3, <2>5, <2>6 DEF ProcTypes, Stepping, z, Same
  <2> QED BY <1>1, <1>9, <2>6, <2>7 DEF t, x, o
<1>10. CASE /\ w.ok /\ x.act = "createReserved" /\ proc.runs > 1
            /\ proc' = [n EXCEPT !.left = s, !.runs = @ - 1, !.made = e]
  <2> DEFINE r == proc.runs - 1
  <2>1. r \in Nat /\ r # 0
    BY <1>1, <1>10 DEF Commands
  <2>2. proc' = [n EXCEPT !.left = s, !.runs = r, !.made = e]
    BY <1>5, <1>10
  <2> HIDE DEF n, t, z, x, s, e, r
  <2>3. proc' \in Commands
    BY <1>3, <1>4, <1>5, <2>1, <2>2 DEF Commands
  <2>4. /\ proc'.at = "step" /\ proc'.left = s /\ proc'.tx = z /\ proc'.deal = proc.deal
        /\ proc'.resumes = proc.resumes /\ proc'.result = proc.result /\ proc'.clean = proc.clean
        /\ proc'.limit = proc.limit /\ proc'.made = e /\ proc'.problems = proc.problems /\ proc'.runs = r
    BY <1>5, <2>2 DEF Commands
  <2>5. ProcTypes' /\ Stepping /\ Same
    BY <1>1, <1>4, <2>1, <2>3, <2>4 DEF ProcTypes, Stepping, z, Same
  <2> QED BY <1>1, <1>4, <1>10, <2>4, <2>5 DEF x, e, r
<1>11. CASE /\ w.ok /\ x.act = "createReserved" /\ proc.runs = 1
            /\ proc' = Stop(IF proc.problems THEN "mismatch" ELSE "reported")
  <2> DEFINE r == IF proc.problems THEN "mismatch" ELSE "reported"
  <2>1. r \in Results
    BY DEF Results
  <2> HIDE DEF r
  <2>2. ProcTypes' /\ Halted(r)
    BY <1>11, <2>1, Halts DEF r
  <2> QED BY <1>1, <1>11, <2>2 DEF r
<1>12. CASE w.ok /\ x.act \notin Payments \cup Creations /\ proc' = n
  <2>1. t \in Plans
    <3>1. x.act # "inspect" /\ x.act # "createReserved"
      BY <1>1, <1>12, TransactionParts DEF Payments, Approvals, Applications, Creations
    <3> QED BY <1>2, <3>1
  <2> HIDE DEF n, t, z, x
  <2>2. ProcTypes' /\ Stepping /\ Same
    BY <1>1, <1>5, <1>12, <2>1 DEF ProcTypes, Stepping, z, Same
  <2> QED BY <1>1, <1>5, <1>12, <2>2 DEF t, x
<1> QED BY <1>6, <1>7, <1>8, <1>9, <1>10, <1>11, <1>12

-----------------------------------------------------------------------------
(* What the chains do. *)

\* A deal goes on, one status at a time.
Later(s, t) ==
    \/ t = s
    \/ s = "CREATED" /\ t = "FINANCED"
    \/ s = "FINANCED" /\ t \in {"DEFAULTED"} \cup Closed
    \/ s = "DEFAULTED" /\ t \in Closed

\* One deal of the registry changes.
LEMMA OneDealChanges ==
  ASSUME ChainTypes, NEW i \in DOMAIN deals, NEW r \in Deal,
         r.by = deals[i].by, Later(deals[i].status, r.status)
  PROVE  LET q == [deals EXCEPT ![i] = r] IN
         /\ q \in Seq(Deal) /\ Len(q) = Len(deals) /\ DOMAIN q = DOMAIN deals /\ q[i] = r
         /\ \A d \in DOMAIN deals :
               /\ q[d].by = deals[d].by /\ Later(deals[d].status, q[d].status)
               /\ d # i => q[d] = deals[d]
<1> DEFINE q == [deals EXCEPT ![i] = r]
<1>1. deals \in Seq(Deal) /\ i \in 1..Len(deals) /\ DOMAIN deals = 1..Len(deals)
  BY LenProperties DEF ChainTypes
<1>2. q \in Seq(Deal) /\ Len(q) = Len(deals)
  BY <1>1, ExceptSeq
<1>3. DOMAIN q = DOMAIN deals /\ \A d \in DOMAIN deals : q[d] = IF d = i THEN r ELSE deals[d]
  BY <1>1, <1>2, ExceptSeq
<1>4. q[i] = r
  BY <1>3
<1> HIDE DEF q
<1>5. ASSUME NEW d \in DOMAIN deals
      PROVE  /\ q[d].by = deals[d].by /\ Later(deals[d].status, q[d].status)
             /\ d # i => q[d] = deals[d]
  BY <1>3 DEF Later
<1> QED BY <1>2, <1>3, <1>4, <1>5 DEF q

LEMMA DealParts ==
  ASSUME ChainTypes, NEW d \in DOMAIN deals
  PROVE  /\ deals[d] \in Deal /\ deals[d].status \in LiveStatuses /\ deals[d].by \in Plain
         /\ deals[d].late \in SUBSET Plain /\ d \in Nat /\ d \in 1..Len(deals)
<1>1. deals \in Seq(Deal) /\ d \in 1..Len(deals) /\ Len(deals) \in Nat
  BY LenProperties DEF ChainTypes
<1>2. deals[d] \in Deal
  BY <1>1, ElementOfSeq
<1> QED BY <1>1, <1>2 DEF Deal

\* What an event does to the deal it names.
StatusAfter(e) ==
    LET s == deals[e.deal].status IN
    CASE e.act = "fund" /\ s = "CREATED" -> "FINANCED"
      [] e.act = "repay" /\ s \in {"FINANCED", "DEFAULTED"} ->
           IF e \in deals[e.deal].late THEN "PAID_LATE" ELSE "PAID_ON_TIME"
      [] OTHER -> s

LEMMA AppliedParts ==
  ASSUME ChainTypes, NEW e, e.deal \in DOMAIN deals
  PROVE  /\ Applied(e) \in Seq(Deal) /\ Len(Applied(e)) = Len(deals)
         /\ DOMAIN Applied(e) = DOMAIN deals
         /\ \A d \in DOMAIN deals :
               /\ Applied(e)[d].by = deals[d].by /\ Later(deals[d].status, Applied(e)[d].status)
               /\ d # e.deal => Applied(e)[d] = deals[d]
         /\ Applied(e)[e.deal].status = StatusAfter(e)
<1> DEFINE i == e.deal
           s == StatusAfter(e)
           r == [deals[i] EXCEPT !.status = s]
           q == [deals EXCEPT ![i] = r]
<1>1. i \in DOMAIN deals /\ deals[i] \in Deal /\ deals[i].status \in LiveStatuses
  BY DealParts
<1>2. s \in LiveStatuses /\ Later(deals[i].status, s)
  BY <1>1 DEF StatusAfter, Later, LiveStatuses, Closed
<1>3. Applied(e) = q
  BY DEF Applied, StatusAfter
<1> HIDE DEF s
<1>4. r \in Deal /\ r.by = deals[i].by /\ r.status = s
  BY <1>1, <1>2 DEF Deal
<1> HIDE DEF r, i
<1>5. /\ q \in Seq(Deal) /\ Len(q) = Len(deals) /\ DOMAIN q = DOMAIN deals /\ q[i] = r
      /\ \A d \in DOMAIN deals :
            /\ q[d].by = deals[d].by /\ Later(deals[d].status, q[d].status)
            /\ d # i => q[d] = deals[d]
  BY <1>1, <1>2, <1>4, OneDealChanges
<1> HIDE DEF q
<1> QED BY <1>3, <1>4, <1>5 DEF s, i

-----------------------------------------------------------------------------
(* What the chains hold and the command has sent. *)

Created == {deals[d].by : d \in DOMAIN deals}
Sent == events \cup pool \cup {proc.tx} \cup Created
Doing(act, d) == {x \in Sent : x.act = act /\ x.deal = d}

\* Transactions name deals there are, and a deal was created by a transaction that was mined.
Named ==
    /\ \A e \in events : e.act \in Payments
    /\ \A x \in Sent : x.act \in Payments \cup {"createReserved"} => x.deal \in DOMAIN deals
    /\ \A x \in Created : x.act \in Creations /\ x.nonce < mined["B_CTC"].count

\* What the last transaction of an account did is there to be read.
Done ==
    \A w \in Accounts :
        LET x == mined[w].last IN
        mined[w].ok =>
            /\ x.act \in Payments => x \in events
            /\ x.act \in Creations => \E d \in DOMAIN deals : deals[d].by = x
            /\ x.act \in Applications => x.proves \in recorded

\* Deals are added, and go on.
DealsGrow ==
    /\ \A d \in DOMAIN deals : d \in DOMAIN deals' /\ deals'[d].by = deals[d].by
                               /\ Later(deals[d].status, deals'[d].status)
    /\ \A d \in DOMAIN deals' : d \in DOMAIN deals \/ d = Len(deals) + 1
    /\ Len(deals) <= Len(deals')

LEMMA OneMoreDeal ==
  ASSUME ChainTypes, NEW n \in Deal, deals' = Append(deals, n)
  PROVE  /\ deals' \in Seq(Deal) /\ DealsGrow /\ Len(deals) + 1 \in DOMAIN deals'
         /\ deals'[Len(deals) + 1] = n /\ \A d \in DOMAIN deals : deals'[d] = deals[d]
<1> DEFINE l == Len(deals)
<1>1. deals \in Seq(Deal) /\ l \in Nat /\ DOMAIN deals = 1..l
  BY LenProperties DEF ChainTypes
<1>2. /\ deals' \in Seq(Deal) /\ Len(deals') = l + 1
      /\ \A i \in 1..l : deals'[i] = deals[i]
      /\ deals'[l + 1] = n
  BY <1>1, AppendProperties
<1>3. DOMAIN deals' = 1..(l + 1)
  BY <1>2, LenProperties
<1> HIDE DEF l
<1>4. \A d \in DOMAIN deals : d \in DOMAIN deals' /\ deals'[d] = deals[d]
  BY <1>1, <1>2, <1>3
<1>5. l + 1 \in DOMAIN deals' /\ \A d \in DOMAIN deals' : d \in DOMAIN deals \/ d = l + 1
  BY <1>1, <1>3
<1>6. l <= Len(deals')
  BY <1>1, <1>2
<1>7. DealsGrow
  BY <1>4, <1>5, <1>6 DEF DealsGrow, Later, l
<1> QED BY <1>2, <1>4, <1>5, <1>7 DEF l

LEMMA DealsStay ==
  ASSUME ChainTypes, deals' = deals
  PROVE  deals' \in Seq(Deal) /\ DealsGrow
BY LenProperties DEF ChainTypes, DealsGrow, Later

\* An event that is attested belongs to a deal.
LEMMA AttestedParts ==
  ASSUME ChainTypes, Named, NEW e \in attested
  PROVE  e \in events /\ e \in Plain /\ e.act \in Payments /\ e.deal \in DOMAIN deals
BY DEF ChainTypes, Named, Sent

\* An event is applied.
LEMMA ApplyGrows ==
  ASSUME ChainTypes, Named, NEW e \in attested, deals' = Applied(e)
  PROVE  /\ deals' \in Seq(Deal) /\ DealsGrow /\ DOMAIN deals' = DOMAIN deals
         /\ deals'[e.deal].status = StatusAfter(e)
         /\ \A d \in DOMAIN deals : d # e.deal => deals'[d] = deals[d]
<1>1. e.deal \in DOMAIN deals
  BY AttestedParts
<1> DEFINE q == Applied(e)
<1>2. /\ q \in Seq(Deal) /\ Len(q) = Len(deals) /\ DOMAIN q = DOMAIN deals
      /\ \A d \in DOMAIN deals :
            /\ q[d].by = deals[d].by /\ Later(deals[d].status, q[d].status)
            /\ d # e.deal => q[d] = deals[d]
      /\ q[e.deal].status = StatusAfter(e)
  BY <1>1, AppliedParts
<1>3. Len(deals) \in Nat
  BY LenProperties DEF ChainTypes
<1> HIDE DEF q
<1>4. deals' = q
  BY DEF q
<1> QED BY <1>2, <1>3, <1>4 DEF DealsGrow

\* A repayment comes late, or a deal falls due.
LEMMA MarkGrows ==
  ASSUME ChainTypes, NEW i \in DOMAIN deals, NEW r \in Deal,
         r.by = deals[i].by, r.status = deals[i].status, deals' = [deals EXCEPT ![i] = r]
  PROVE  /\ deals' \in Seq(Deal) /\ DealsGrow /\ DOMAIN deals' = DOMAIN deals
         /\ \A d \in DOMAIN deals : deals'[d].status = deals[d].status
<1> DEFINE q == [deals EXCEPT ![i] = r]
<1>1. Later(deals[i].status, r.status)
  BY DEF Later
<1>2. /\ q \in Seq(Deal) /\ Len(q) = Len(deals) /\ DOMAIN q = DOMAIN deals /\ q[i] = r
      /\ \A d \in DOMAIN deals :
            /\ q[d].by = deals[d].by /\ Later(deals[d].status, q[d].status)
            /\ d # i => q[d] = deals[d]
  BY <1>1, OneDealChanges
<1>3. Len(deals) \in Nat
  BY LenProperties DEF ChainTypes
<1> HIDE DEF q
<1>4. deals' = q
  BY DEF q
<1>5. \A d \in DOMAIN deals : q[d].status = deals[d].status
  BY <1>2
<1>6. deals' \in Seq(Deal) /\ DealsGrow /\ DOMAIN deals' = DOMAIN deals
  BY ONLY <1>2, <1>3, <1>4 DEF DealsGrow
<1> QED BY <1>4, <1>5, <1>6

\* A financed deal is marked in default.
Alike(s, t) == t = s \/ (s = "FINANCED" /\ t = "DEFAULTED")

LEMMA DefaultGrows ==
  ASSUME ChainTypes, NEW i \in DOMAIN deals, NEW r \in Deal,
         r.by = deals[i].by, deals[i].status = "FINANCED", r.status = "DEFAULTED",
         deals' = [deals EXCEPT ![i] = r]
  PROVE  /\ deals' \in Seq(Deal) /\ DealsGrow /\ DOMAIN deals' = DOMAIN deals
         /\ \A d \in DOMAIN deals : Alike(deals[d].status, deals'[d].status)
<1> DEFINE q == [deals EXCEPT ![i] = r]
<1>1. Later(deals[i].status, r.status)
  BY DEF Later
<1>2. /\ q \in Seq(Deal) /\ Len(q) = Len(deals) /\ DOMAIN q = DOMAIN deals /\ q[i] = r
      /\ \A d \in DOMAIN deals :
            /\ q[d].by = deals[d].by /\ Later(deals[d].status, q[d].status)
            /\ d # i => q[d] = deals[d]
  BY <1>1, OneDealChanges
<1>3. Len(deals) \in Nat
  BY LenProperties DEF ChainTypes
<1> HIDE DEF q
<1>4. deals' = q
  BY DEF q
<1>5. \A d \in DOMAIN deals : Alike(deals[d].status, q[d].status)
  BY <1>2 DEF Alike
<1>6. deals' \in Seq(Deal) /\ DealsGrow /\ DOMAIN deals' = DOMAIN deals
  BY ONLY <1>2, <1>3, <1>4 DEF DealsGrow
<1> QED BY <1>4, <1>5, <1>6

\* A transaction is mined: the deals it makes or moves.
LEMMA MineDeals ==
  ASSUME ChainTypes, Named, NEW x \in pool, Include(x)
  PROVE  /\ deals' \in Seq(Deal) /\ DealsGrow
         /\ \A d \in DOMAIN deals' :
               d \in DOMAIN deals
               \/ (x.act \in Creations /\ deals'[d].by = x /\ deals'[d].status = "CREATED")
         /\ WouldSucceed(x) /\ x.act \in Creations => \E d \in DOMAIN deals' : deals'[d].by = x
         /\ \/ /\ WouldSucceed(x) /\ x.act \in Applications
               /\ x.proves \in attested /\ recorded' = recorded \cup {x.proves}
               /\ deals' = Applied(x.proves)
            \/ /\ recorded' = recorded
               /\ \A d \in DOMAIN deals : deals'[d].status = deals[d].status
<1>1. x \in Transactions /\ x \in Sent
  BY DEF ChainTypes, Sent
<1> DEFINE ok == WouldSucceed(x)
           i == x.deal
<1>2. CASE ok /\ x.act \in Creations
  <2> DEFINE n == [status |-> "CREATED", due |-> FALSE, late |-> {}, by |-> x]
             l == Len(deals) + 1
  <2>1. deals' = Append(deals, n) /\ recorded' = recorded
    BY <1>2 DEF Include, Creations, Applications, Payments
  <2>2. n \in Deal /\ n.by = x /\ n.status = "CREATED"
    <3>1. x \in Plain
      BY <1>1, <1>2, TransactionParts DEF Applications, Creations
    <3> QED BY <3>1 DEF Deal, LiveStatuses
  <2> HIDE DEF n
  <2>3. /\ deals' \in Seq(Deal) /\ DealsGrow /\ l \in DOMAIN deals'
        /\ deals'[l] = n /\ \A d \in DOMAIN deals : deals'[d] = deals[d]
    BY <2>1, <2>2, OneMoreDeal
  <2>4. \A d \in DOMAIN deals' : d \in DOMAIN deals \/ d = l
    BY <2>3 DEF DealsGrow
  <2> HIDE DEF l
  <2> QED BY <1>2, <2>1, <2>2, <2>3, <2>4
<1>3. CASE ok /\ x.act \in Applications
  <2>1. deals' = Applied(x.proves) /\ recorded' = recorded \cup {x.proves}
    BY <1>3 DEF Include, Creations, Applications, Payments
  <2>2. x.proves \in attested
    BY <1>3 DEF WouldSucceed, Payments, Creations, Applications
  <2>3. deals' \in Seq(Deal) /\ DealsGrow /\ DOMAIN deals' = DOMAIN deals
    BY <2>1, <2>2, ApplyGrows
  <2>4. x.act \notin Creations
    BY <1>3 DEF Creations, Applications
  <2> QED BY <1>3, <2>1, <2>2, <2>3, <2>4
<1>4. CASE ok /\ x.act = "repay" /\ deals[i].due
  <2>1. recorded' = recorded /\ deals' = [deals EXCEPT ![i].late = @ \cup {x}]
    BY <1>4 DEF Include, Creations, Applications, Payments
  <2>2. i \in DOMAIN deals
    BY <1>1, <1>4 DEF Named, Payments
  <2> DEFINE r == [deals[i] EXCEPT !.late = @ \cup {x}]
             late == deals[i].late \cup {x}
  <2>3. late \in SUBSET Plain
    <3>1. x \in Plain
      BY <1>1, <1>4, TransactionParts DEF Applications
    <3> QED BY <2>2, <3>1, DealParts
  <2>4. r = [deals[i] EXCEPT !.late = late]
    BY <2>2, DealParts DEF Deal
  <2> HIDE DEF late
  <2>5. r \in Deal /\ r.by = deals[i].by /\ r.status = deals[i].status
    BY <2>2, <2>3, <2>4, DealParts DEF Deal
  <2>6. deals' = [deals EXCEPT ![i] = r]
    BY <2>1
  <2> HIDE DEF r, i
  <2>7. /\ deals' \in Seq(Deal) /\ DealsGrow /\ DOMAIN deals' = DOMAIN deals
        /\ \A d \in DOMAIN deals : deals'[d].status = deals[d].status
    BY <2>2, <2>5, <2>6, MarkGrows
  <2> QED BY <1>4, <2>1, <2>7 DEF Creations
<1>5. CASE ~(ok /\ x.act \in Creations) /\ ~(ok /\ x.act \in Applications)
           /\ ~(ok /\ x.act = "repay" /\ deals[i].due)
  <2>1. deals' = deals /\ recorded' = recorded
    BY <1>5 DEF Include
  <2> QED BY <1>5, <2>1, DealsStay
<1> QED BY <1>2, <1>3, <1>4, <1>5

\* What decides a transaction.
LEMMA SucceedParts ==
  ASSUME NEW x
  PROVE  /\ WouldSucceed(x) \in BOOLEAN
         /\ x.act \in Payments /\ WouldSucceed(x) =>
               usdc[From(x.act)] >= x.amount /\ allowance[From(x.act)] >= x.amount
         /\ x.act \in Creations /\ WouldSucceed(x) => Available > 0
         /\ x.act \in Applications => (WouldSucceed(x) <=> x.proves \in attested \ recorded)
<1> DEFINE a == usdc[From(x.act)] >= x.amount /\ allowance[From(x.act)] >= x.amount
           b == Available > 0
           c == x.proves \in attested \ recorded
           p == x.act \in Payments
           q == x.act \in Creations
           r == x.act \in Applications
           o == WouldSucceed(x)
<1>1. o = CASE p -> a [] q -> b [] r -> c [] OTHER -> TRUE
  BY DEF WouldSucceed, Payer
<1>2. ~(p /\ q) /\ ~(p /\ r) /\ ~(q /\ r)
  BY DEF Payments, Creations, Applications
<1>3. p \in BOOLEAN /\ q \in BOOLEAN /\ r \in BOOLEAN /\ a \in BOOLEAN /\ b \in BOOLEAN
      /\ c \in BOOLEAN
  <2>1. p \in BOOLEAN
    OBVIOUS
  <2>2. q \in BOOLEAN
    OBVIOUS
  <2>3. r \in BOOLEAN
    OBVIOUS
  <2>4. a \in BOOLEAN
    OBVIOUS
  <2>5. b \in BOOLEAN
    OBVIOUS
  <2>6. c \in BOOLEAN
    OBVIOUS
  <2> QED BY <2>1, <2>2, <2>3, <2>4, <2>5, <2>6
<1> HIDE DEF a, b, c, p, q, r, o
<1>4. /\ p => o = a
      /\ q => o = b
      /\ r => o = c
      /\ ~p /\ ~q /\ ~r => o = TRUE
  BY <1>1, <1>2, <1>3
<1>5. o \in BOOLEAN
  BY <1>3, <1>4
<1>6. (p /\ o => a) /\ (q /\ o => b) /\ (r => (o <=> c))
  BY <1>3, <1>4
<1> QED BY <1>5, <1>6 DEF a, b, c, p, q, r, o

\* A transaction is mined: everything else.
LEMMA MineTypes ==
  ASSUME ChainTypes, ProcTypes, Named, NEW x \in pool, Include(x)
  PROVE  ChainTypes' /\ ProcTypes'
<1> DEFINE w == From(x.act)
           ok == WouldSucceed(x)
           pays == ok /\ x.act \in Payments
<1>1. /\ x \in Transactions /\ w \in Accounts
      /\ x.act \in Payments \cup Approvals => w \in {"A", "B"}
      /\ x.amount \in Nat
  BY Senders, TransactionParts DEF ChainTypes
<1>2. usdc' \in [{"A", "B"} -> Nat]
  <2>1. CASE pays
    <3> DEFINE a == x.amount
               p == [usdc EXCEPT ![w] = @ - a]
               t == IF x.act = "repay" THEN "A" ELSE "B"
    <3>1. usdc[w] >= a /\ w \in {"A", "B"} /\ a \in Nat /\ usdc \in [{"A", "B"} -> Nat]
      BY <1>1, <2>1, SucceedParts DEF ChainTypes
    <3>2. usdc' = [p EXCEPT ![t] = @ + a]
      BY <2>1 DEF Include, Moved, Payer
    <3>3. t \in {"A", "B"}
      OBVIOUS
    <3> HIDE DEF t, w, a
    <3>4. p \in [{"A", "B"} -> Nat]
      BY <3>1
    <3> HIDE DEF p
    <3> QED BY <3>1, <3>2, <3>3, <3>4
  <2>2. CASE ~pays
    BY <2>2 DEF Include, ChainTypes
  <2> QED BY <2>1, <2>2
<1>3. allowance' \in [{"A", "B"} -> Nat]
  <2>1. CASE pays
    <3> DEFINE a == x.amount
    <3>1. allowance[w] >= a /\ w \in {"A", "B"} /\ a \in Nat /\ allowance \in [{"A", "B"} -> Nat]
      BY <1>1, <2>1, SucceedParts DEF ChainTypes
    <3>2. allowance' = [allowance EXCEPT ![w] = @ - a]
      BY <2>1 DEF Include, Payments, Approvals
    <3> HIDE DEF w, a
    <3> QED BY <3>1, <3>2
  <2>2. CASE ~pays /\ x.act \in Approvals
    <3>1. allowance' = [allowance EXCEPT ![w] = x.amount]
      BY <2>2 DEF Include
    <3> QED BY <1>1, <2>2, <3>1 DEF ChainTypes
  <2>3. CASE ~pays /\ x.act \notin Approvals
    BY <2>3 DEF Include, ChainTypes
  <2> QED BY <2>1, <2>2, <2>3
<1>4. events' \in SUBSET Plain /\ attested' \subseteq events'
  <2>1. x.act \in Payments => x \in Plain
    BY <1>1, TransactionParts DEF Payments, Applications
  <2> QED BY <2>1 DEF Include, ChainTypes
<1>5. recorded' \subseteq attested'
  <2>1. \/ x.proves \in attested /\ recorded' = recorded \cup {x.proves}
        \/ recorded' = recorded
    BY MineDeals
  <2> QED BY <2>1 DEF Include, ChainTypes
<1>6. deals' \in Seq(Deal) /\ base' \in 0..Len(deals')
  <2>1. deals' \in Seq(Deal) /\ Len(deals) <= Len(deals')
    BY MineDeals DEF DealsGrow
  <2>2. Len(deals) \in Nat /\ Len(deals') \in Nat /\ base \in 0..Len(deals) /\ base' = base
    BY <2>1, LenProperties DEF ChainTypes, Include
  <2> QED BY <2>1, <2>2
<1>7. pool' \in SUBSET Transactions /\ IsFiniteSet(pool')
  <2>1. pool' = pool \ {x} /\ pool' \subseteq pool
    BY DEF Include
  <2> QED BY <2>1, FS_Subset DEF ChainTypes
<1>8. mined' \in [Accounts -> [count: Nat, last: Transactions, ok: BOOLEAN]]
  <2> DEFINE R == [count: Nat, last: Transactions, ok: BOOLEAN]
             c == mined[w].count + 1
             r == [count |-> c, last |-> x, ok |-> ok]
  <2>1. ok \in BOOLEAN
    BY SucceedParts
  <2>2. c \in Nat
    BY <1>1 DEF ChainTypes
  <2> HIDE DEF ok, c
  <2>3. r \in R
    BY <1>1, <2>1, <2>2
  <2>4. mined' = [mined EXCEPT ![w] = r]
    BY DEF Include, ok, c
  <2> HIDE DEF r, R, w
  <2>5. mined \in [Accounts -> R]
    BY DEF ChainTypes, R
  <2>6. mined' \in [Accounts -> R]
    BY <1>1, <2>3, <2>4, <2>5
  <2> QED BY <2>6 DEF R
<1>9. ProcTypes'
  BY DEF Include, ProcTypes
<1> QED BY <1>2, <1>3, <1>4, <1>5, <1>6, <1>7, <1>8, <1>9 DEF ChainTypes

\* What happens on the chains while the command does nothing.
ChainStep ==
    \/ \E w \in Accounts : Mine(w)
    \/ \E x \in pool : Drop(x)
    \/ \E e \in events \ attested : Attest(e)
    \/ \E e \in attested \ recorded : Relay(e)
    \/ \E d \in DOMAIN deals : FallDue(d)
    \/ \E d \in DOMAIN deals : MarkDefaulted(d)

\* Facts are never undone, and only the command sends.
Kept ==
    /\ events \subseteq events' /\ recorded \subseteq recorded'
    /\ DealsGrow
    /\ \A x \in Sent' : x \in Sent \/ x = NoTx

LEMMA MineKept ==
  ASSUME ChainTypes, ProcTypes, Named, NEW x \in pool, Include(x)
  PROVE  Kept
<1>1. events \subseteq events' /\ events' \subseteq events \cup {x} /\ pool' \subseteq pool
      /\ proc' = proc
  BY DEF Include
<1>2. DealsGrow
  BY MineDeals
<1>3. recorded \subseteq recorded'
  BY DEF Include
<1>4. Created' \subseteq Created \cup {x}
  <2>1. \A d \in DOMAIN deals' : d \in DOMAIN deals \/ deals'[d].by = x
    BY MineDeals
  <2>2. \A d \in DOMAIN deals : deals'[d].by = deals[d].by
    BY <1>2 DEF DealsGrow
  <2> QED BY <2>1, <2>2 DEF Created
<1>5. Sent' \subseteq Sent
  BY <1>1, <1>4 DEF Sent
<1> QED BY <1>2, <1>3, <1>1, <1>5 DEF Kept

\* Deals that only go on were sent before.
LEMMA GrowSent ==
  ASSUME DealsGrow, DOMAIN deals' = DOMAIN deals
  PROVE  Created' = Created
BY DEF DealsGrow, Created

LEMMA DefaultStep ==
  ASSUME ChainTypes, NEW i \in DOMAIN deals, MarkDefaulted(i)
  PROVE  /\ deals' \in Seq(Deal) /\ DealsGrow /\ DOMAIN deals' = DOMAIN deals
         /\ \A d \in DOMAIN deals : Alike(deals[d].status, deals'[d].status)
<1> DEFINE r == [deals[i] EXCEPT !.status = "DEFAULTED"]
<1>1. "DEFAULTED" \in LiveStatuses /\ deals[i].status = "FINANCED"
  BY DEF LiveStatuses, MarkDefaulted
<1>2. r \in Deal /\ r.by = deals[i].by /\ r.status = "DEFAULTED"
  BY <1>1, DealParts DEF Deal
<1>3. deals' = [deals EXCEPT ![i] = r]
  BY DEF MarkDefaulted
<1> HIDE DEF r
<1> QED BY <1>1, <1>2, <1>3, DefaultGrows

LEMMA ChainStepParts ==
  ASSUME ChainTypes, ProcTypes, Named, ChainStep
  PROVE  ChainTypes' /\ ProcTypes' /\ proc' = proc /\ base' = base /\ Kept
<1>1. CASE \E w \in Accounts : Mine(w)
  <2>1. PICK w \in Accounts : Mine(w)
    BY <1>1
  <2>2. PICK x \in pool : Include(x)
    BY <2>1 DEF Mine
  <2>3. proc' = proc /\ base' = base
    BY <2>2 DEF Include
  <2> QED BY <2>2, <2>3, MineTypes, MineKept
<1>2. CASE \E x \in pool : Drop(x)
  <2>1. PICK x \in pool : Drop(x)
    BY <1>2
  <2>2. pool' \in SUBSET Transactions /\ IsFiniteSet(pool') /\ pool' \subseteq pool
    <3>1. pool' \subseteq pool
      BY <2>1 DEF Drop
    <3> QED BY <3>1, FS_Subset DEF ChainTypes
  <2>3. ChainTypes' /\ ProcTypes' /\ proc' = proc /\ base' = base
    BY <2>1, <2>2 DEF ChainTypes, ProcTypes, Drop
  <2>4. DealsGrow /\ Created' = Created
    BY <2>1, DealsStay DEF Drop, Created
  <2>5. Sent' \subseteq Sent
    BY <2>1, <2>2, <2>4 DEF Sent, Drop
  <2> QED BY <2>1, <2>3, <2>4, <2>5 DEF Kept, Drop
<1>3. CASE \E e \in events \ attested : Attest(e)
  <2>1. PICK e \in events \ attested : Attest(e)
    BY <1>3
  <2>2. ChainTypes' /\ ProcTypes' /\ proc' = proc /\ base' = base
    BY <2>1 DEF ChainTypes, ProcTypes, Attest
  <2>3. DealsGrow /\ Created' = Created
    BY <2>1, DealsStay DEF Attest, Created
  <2>4. Sent' \subseteq Sent
    BY <2>1, <2>3 DEF Sent, Attest
  <2> QED BY <2>1, <2>2, <2>3, <2>4 DEF Kept, Attest
<1>4. CASE \E e \in attested \ recorded : Relay(e)
  <2>1. PICK e \in attested : Relay(e)
    BY <1>4
  <2>2. deals' \in Seq(Deal) /\ DealsGrow /\ DOMAIN deals' = DOMAIN deals
    BY <2>1, ApplyGrows DEF Relay
  <2>3. base' \in 0..Len(deals')
    <3>1. Len(deals) \in Nat /\ Len(deals') \in Nat /\ base \in 0..Len(deals) /\ base' = base
          /\ Len(deals) <= Len(deals')
      BY <2>1, <2>2, LenProperties DEF ChainTypes, Relay, DealsGrow
    <3> QED BY <3>1
  <2>4. recorded' \subseteq attested'
    BY <2>1 DEF Relay, ChainTypes
  <2>5. ChainTypes' /\ ProcTypes' /\ proc' = proc /\ base' = base
    BY <2>1, <2>2, <2>3, <2>4 DEF ChainTypes, ProcTypes, Relay
  <2>6. Created' = Created
    BY <2>2, GrowSent
  <2>7. Sent' \subseteq Sent
    BY <2>1, <2>6 DEF Sent, Relay
  <2> QED BY <2>1, <2>2, <2>5, <2>7 DEF Kept, Relay
<1>5. CASE \E d \in DOMAIN deals : FallDue(d)
  <2>1. PICK d \in DOMAIN deals : FallDue(d)
    BY <1>5
  <2> DEFINE r == [deals[d] EXCEPT !.due = TRUE]
  <2>2. r \in Deal /\ r.by = deals[d].by /\ r.status = deals[d].status
    BY DealParts DEF Deal
  <2>3. deals' = [deals EXCEPT ![d] = r]
    BY <2>1 DEF FallDue
  <2> HIDE DEF r
  <2>4. deals' \in Seq(Deal) /\ DealsGrow /\ DOMAIN deals' = DOMAIN deals
    BY <2>2, <2>3, MarkGrows
  <2>5. base' \in 0..Len(deals')
    <3>1. Len(deals) \in Nat /\ Len(deals') \in Nat /\ base \in 0..Len(deals) /\ base' = base
          /\ Len(deals) <= Len(deals')
      BY <2>1, <2>4, LenProperties DEF ChainTypes, FallDue, DealsGrow
    <3> QED BY <3>1
  <2>6. ChainTypes' /\ ProcTypes' /\ proc' = proc /\ base' = base
    BY <2>1, <2>4, <2>5 DEF ChainTypes, ProcTypes, FallDue
  <2>7. Created' = Created
    BY <2>4, GrowSent
  <2>8. Sent' \subseteq Sent
    BY <2>1, <2>7 DEF Sent, FallDue
  <2> QED BY <2>1, <2>4, <2>6, <2>8 DEF Kept, FallDue
<1>6. CASE \E d \in DOMAIN deals : MarkDefaulted(d)
  <2>1. PICK d \in DOMAIN deals : MarkDefaulted(d)
    BY <1>6
  <2>2. deals' \in Seq(Deal) /\ DealsGrow /\ DOMAIN deals' = DOMAIN deals
    BY <2>1, DefaultStep
  <2>3. base' \in 0..Len(deals')
    <3>1. Len(deals) \in Nat /\ Len(deals') \in Nat /\ base \in 0..Len(deals) /\ base' = base
          /\ Len(deals) <= Len(deals')
      BY <2>1, <2>2, LenProperties DEF ChainTypes, MarkDefaulted, DealsGrow
    <3> QED BY <3>1
  <2>4. ChainTypes' /\ ProcTypes' /\ proc' = proc /\ base' = base
    BY <2>1, <2>2, <2>3 DEF ChainTypes, ProcTypes, MarkDefaulted
  <2>5. Created' = Created
    BY <2>2, GrowSent
  <2>6. Sent' \subseteq Sent
    BY <2>1, <2>5 DEF Sent, MarkDefaulted
  <2> QED BY <2>1, <2>2, <2>4, <2>6 DEF Kept, MarkDefaulted
<1> QED BY <1>1, <1>2, <1>3, <1>4, <1>5, <1>6 DEF ChainStep

-----------------------------------------------------------------------------
(* A deal is funded once; what is recorded of it is what its status says. *)

\* What is sent at most once for a deal: a deal is only resumed by hand.
OnceActs == {"fund"} \cup (IF Inspects THEN {"repay", "createReserved"} ELSE {})

Once ==
    \A d \in DOMAIN deals :
        /\ \A act \in OnceActs : \A x, y \in Doing(act, d) : x = y
        /\ \A x \in Doing("repay", d) : deals[d].status # "CREATED"

\* The status of a deal tells which of its payments are recorded.
Facts ==
    \A d \in DOMAIN deals :
        /\ (\E e \in recorded : e.act = "fund" /\ e.deal = d) <=> deals[d].status # "CREATED"
        /\ (\E e \in recorded : e.act = "repay" /\ e.deal = d) <=> deals[d].status \in Closed

\* What was not done for a deal is not done by what only keeps.
LEMMA KeptDoing ==
  ASSUME Kept, NEW act \in {"fund", "repay", "createReserved"}, NEW d
  PROVE  Doing(act, d)' \subseteq Doing(act, d)
<1> SUFFICES ASSUME NEW x \in Sent', x.act = act, x.deal = d PROVE x \in Doing(act, d)
  BY DEF Doing
<1>1. x \in Sent \/ x = NoTx
  BY DEF Kept
<1>2. x # NoTx
  BY NoTxTypes
<1> QED BY <1>1, <1>2 DEF Doing

LEMMA OnceActsAre == OnceActs \subseteq {"fund", "repay", "createReserved"} /\ "fund" \in OnceActs
BY DEF OnceActs

LEMMA KeptOnce ==
  ASSUME Named, Once, Kept
  PROVE  Once'
<1>1. SUFFICES ASSUME NEW d \in DOMAIN deals'
               PROVE  /\ \A act \in OnceActs : \A x, y \in Doing(act, d)' : x = y
                      /\ \A x \in Doing("repay", d)' : deals'[d].status # "CREATED"
  BY DEF Once
<1>2. ASSUME NEW act \in {"fund", "repay", "createReserved"}, d \notin DOMAIN deals
      PROVE  Doing(act, d) = {}
  BY <1>2 DEF Doing, Named, Payments
<1>3. ASSUME NEW act \in OnceActs, NEW x \in Doing(act, d)', NEW y \in Doing(act, d)'
      PROVE  x = y
  <2>1. act \in {"fund", "repay", "createReserved"}
    BY OnceActsAre
  <2>2. x \in Doing(act, d) /\ y \in Doing(act, d)
    BY <2>1, KeptDoing
  <2>3. d \in DOMAIN deals
    BY <1>2, <2>1, <2>2
  <2> QED BY <2>2, <2>3 DEF Once
<1>4. ASSUME NEW x \in Doing("repay", d)' PROVE deals'[d].status # "CREATED"
  <2>1. x \in Doing("repay", d)
    BY KeptDoing
  <2>2. d \in DOMAIN deals
    BY <1>2, <2>1
  <2>3. deals[d].status # "CREATED"
    BY <2>1, <2>2 DEF Once
  <2> QED BY <2>2, <2>3 DEF Kept, DealsGrow, Later, Closed
<1> QED BY <1>3, <1>4

\* An event is applied: its deal moves as the record does.
LEMMA ApplyFacts ==
  ASSUME ChainTypes, Named, Once, Facts, NEW e \in attested, deals' = Applied(e),
         recorded' = recorded \cup {e}
  PROVE  Facts'
<1>1. e \in events /\ e.act \in Payments /\ e.deal \in DOMAIN deals
  BY AttestedParts
<1>2. /\ DOMAIN deals' = DOMAIN deals
      /\ deals'[e.deal].status = StatusAfter(e)
      /\ \A d \in DOMAIN deals : d # e.deal => deals'[d] = deals[d]
  BY ApplyGrows
<1> SUFFICES ASSUME NEW d \in DOMAIN deals
             PROVE  /\ (\E x \in recorded' : x.act = "fund" /\ x.deal = d)
                          <=> deals'[d].status # "CREATED"
                    /\ (\E x \in recorded' : x.act = "repay" /\ x.deal = d)
                          <=> deals'[d].status \in Closed
  BY <1>2 DEF Facts
<1>3. CASE d # e.deal
  <2>1. deals'[d] = deals[d]
    BY <1>2, <1>3
  <2> QED BY <1>3, <2>1 DEF Facts
<1>4. CASE d = e.deal
  <2>1. deals[d].status \in LiveStatuses
    BY DealParts
  <2>2. e.act = "repay" => deals[d].status # "CREATED"
    BY <1>1, <1>4 DEF Once, Doing, Sent
  <2>3. /\ (\E x \in recorded : x.act = "fund" /\ x.deal = d) <=> deals[d].status # "CREATED"
        /\ (\E x \in recorded : x.act = "repay" /\ x.deal = d) <=> deals[d].status \in Closed
    BY DEF Facts
  <2>4. deals'[d].status = StatusAfter(e)
    BY <1>2, <1>4
  <2>5. CASE e.act = "fund"
    <3>1. deals'[d].status = IF deals[d].status = "CREATED" THEN "FINANCED" ELSE deals[d].status
      BY <1>4, <2>4, <2>5 DEF StatusAfter
    <3> QED BY <1>4, <2>3, <2>5, <3>1 DEF Closed
  <2>6. CASE e.act = "repay"
    <3>1. deals'[d].status \in Closed
      BY <1>4, <2>1, <2>2, <2>4, <2>6 DEF StatusAfter, LiveStatuses, Closed
    <3> QED BY <1>4, <2>2, <2>3, <2>6, <3>1 DEF Closed
  <2>7. CASE e.act \notin {"fund", "repay"}
    <3>1. deals'[d].status = deals[d].status
      BY <1>4, <2>4, <2>7 DEF StatusAfter
    <3> QED BY <1>4, <2>3, <2>7, <3>1
  <2> QED BY <2>5, <2>6, <2>7
<1> QED BY <1>3, <1>4

\* Nothing recorded is about a deal that is only now created.
LEMMA StayFacts ==
  ASSUME ChainTypes, Named, Facts, recorded' = recorded, DealsGrow,
         \A d \in DOMAIN deals : Alike(deals[d].status, deals'[d].status),
         \A d \in DOMAIN deals' : d \in DOMAIN deals \/ deals'[d].status = "CREATED"
  PROVE  Facts'
<1> SUFFICES ASSUME NEW d \in DOMAIN deals'
             PROVE  /\ (\E x \in recorded : x.act = "fund" /\ x.deal = d)
                          <=> deals'[d].status # "CREATED"
                    /\ (\E x \in recorded : x.act = "repay" /\ x.deal = d)
                          <=> deals'[d].status \in Closed
  BY DEF Facts
<1>1. CASE d \in DOMAIN deals
  BY <1>1 DEF Facts, Alike, Closed
<1>2. CASE d \notin DOMAIN deals
  <2>1. \A e \in recorded : e.deal \in DOMAIN deals
    BY AttestedParts DEF ChainTypes
  <2> QED BY <1>2, <2>1 DEF Closed
<1> QED BY <1>1, <1>2

BaseInv == ChainTypes /\ ProcTypes /\ Named /\ Done /\ Facts /\ Once

\* Nothing is lost of what accounts did.
LEMMA KeptDone ==
  ASSUME Done, Kept, mined' = mined
  PROVE  Done'
<1> SUFFICES ASSUME NEW w \in Accounts, mined[w].ok
             PROVE  /\ mined[w].last.act \in Payments => mined[w].last \in events'
                    /\ mined[w].last.act \in Creations =>
                          \E d \in DOMAIN deals' : deals'[d].by = mined[w].last
                    /\ mined[w].last.act \in Applications => mined[w].last.proves \in recorded'
  BY DEF Done
<1> QED BY DEF Done, Kept, DealsGrow

LEMMA KeptNamed ==
  ASSUME Named, Kept, events' = events, Created' = Created, mined' = mined
  PROVE  Named'
<1>1. \A x \in Sent' : x.act \in Payments \cup {"createReserved"} => x.deal \in DOMAIN deals'
  <2> SUFFICES ASSUME NEW x \in Sent', x.act \in Payments \cup {"createReserved"}
               PROVE  x.deal \in DOMAIN deals'
    OBVIOUS
  <2>1. x # NoTx
    BY NoTxTypes DEF Payments
  <2> QED BY <2>1 DEF Named, Kept, DealsGrow
<1> QED BY <1>1 DEF Named

LEMMA MineBase ==
  ASSUME BaseInv, NEW x \in pool, x.nonce = mined[From(x.act)].count, Include(x)
  PROVE  Named' /\ Done' /\ Facts'
<1> USE DEF BaseInv
<1> DEFINE w == From(x.act)
           ok == WouldSucceed(x)
<1>1. Kept /\ x \in Transactions /\ x \in Sent /\ w \in Accounts
  BY MineKept, Senders DEF ChainTypes, Sent
<1>2. /\ mined'[w].last = x /\ (mined'[w].ok <=> ok) /\ mined'[w].count = mined[w].count + 1
      /\ \A v \in Accounts : v # w => mined'[v] = mined[v]
  <2> DEFINE r == [count |-> mined[w].count + 1, last |-> x, ok |-> ok]
  <2>1. mined' = [mined EXCEPT ![w] = r]
    BY DEF Include
  <2>2. r.last = x /\ r.count = mined[w].count + 1 /\ r.ok = ok
    OBVIOUS
  <2> HIDE DEF r, ok
  <2>3. mined'[w] = r /\ \A v \in Accounts : v # w => mined'[v] = mined[v]
    BY <1>1, <2>1 DEF ChainTypes
  <2> QED BY <2>2, <2>3
<1>3. events' = (IF ok /\ x.act \in Payments THEN events \cup {x} ELSE events)
  BY DEF Include
<1>4. /\ \A d \in DOMAIN deals' :
               d \in DOMAIN deals
               \/ (x.act \in Creations /\ deals'[d].by = x /\ deals'[d].status = "CREATED")
      /\ ok /\ x.act \in Creations => \E d \in DOMAIN deals' : deals'[d].by = x
      /\ \/ /\ ok /\ x.act \in Applications
            /\ x.proves \in attested /\ recorded' = recorded \cup {x.proves}
            /\ deals' = Applied(x.proves)
         \/ /\ recorded' = recorded
            /\ \A d \in DOMAIN deals : deals'[d].status = deals[d].status
  BY MineDeals
<1>5. Named'
  <2>1. \A e \in events' : e.act \in Payments
    BY <1>3 DEF Named
  <2>2. \A y \in Sent' : y.act \in Payments \cup {"createReserved"} => y.deal \in DOMAIN deals'
    <3> SUFFICES ASSUME NEW y \in Sent', y.act \in Payments \cup {"createReserved"}
                 PROVE  y.deal \in DOMAIN deals'
      OBVIOUS
    <3>1. y # NoTx
      BY NoTxTypes DEF Payments
    <3> QED BY <1>1, <3>1 DEF Named, Kept, DealsGrow
  <2>3. ASSUME NEW d \in DOMAIN deals'
        PROVE  deals'[d].by.act \in Creations /\ deals'[d].by.nonce < mined'["B_CTC"].count
    <3>1. "B_CTC" \in Accounts /\ mined["B_CTC"].count \in Nat
      BY DEF Accounts, ChainTypes
    <3>2. CASE d \in DOMAIN deals
      <4>1. deals'[d].by = deals[d].by
        BY <1>1, <3>2 DEF Kept, DealsGrow
      <4>2. deals[d].by.act \in Creations /\ deals[d].by.nonce < mined["B_CTC"].count
        BY <3>2 DEF Named, Created
      <4>3. deals[d].by.nonce \in Nat
        BY <3>2, DealParts DEF Plain
      <4>4. mined'["B_CTC"].count \in {mined["B_CTC"].count, mined["B_CTC"].count + 1}
        <5>1. CASE w = "B_CTC"
          BY <1>2, <5>1
        <5>2. CASE w # "B_CTC"
          BY <1>2, <3>1, <5>2
        <5> QED BY <5>1, <5>2
      <4> QED BY <3>1, <4>1, <4>2, <4>3, <4>4
    <3>3. CASE d \notin DOMAIN deals
      <4>1. x.act \in Creations /\ deals'[d].by = x
        BY <1>4, <3>3
      <4>2. w = "B_CTC"
        BY <4>1, Senders
      <4> QED BY <1>2, <3>1, <4>1, <4>2
    <3> QED BY <3>2, <3>3
  <2> QED BY <2>1, <2>2, <2>3 DEF Named, Created
<1>6. Done'
  <2> SUFFICES ASSUME NEW v \in Accounts, mined'[v].ok
               PROVE  /\ mined'[v].last.act \in Payments => mined'[v].last \in events'
                      /\ mined'[v].last.act \in Creations =>
                            \E d \in DOMAIN deals' : deals'[d].by = mined'[v].last
                      /\ mined'[v].last.act \in Applications => mined'[v].last.proves \in recorded'
    BY DEF Done
  <2>1. CASE v = w
    <3>1. mined'[v].last = x /\ ok
      BY <1>2, <2>1
    <3>2. x.act \in Applications => x.proves \in recorded'
      BY <3>1 DEF Include
    <3> HIDE DEF ok
    <3> QED BY <1>3, <1>4, <3>1, <3>2
  <2>2. CASE v # w
    <3>1. mined'[v] = mined[v]
      BY <1>2, <2>2
    <3>2. mined[v].ok
      BY <3>1
    <3> QED BY <1>1, <3>1, <3>2 DEF Done, Kept, DealsGrow
  <2> QED BY <2>1, <2>2
<1>7. Facts'
  <2>1. CASE /\ x.proves \in attested /\ recorded' = recorded \cup {x.proves}
             /\ deals' = Applied(x.proves)
    BY <2>1, ApplyFacts
  <2>2. CASE recorded' = recorded /\ \A d \in DOMAIN deals : deals'[d].status = deals[d].status
    <3>1. DealsGrow
      BY <1>1 DEF Kept
    <3>2. \A d \in DOMAIN deals' : d \in DOMAIN deals \/ deals'[d].status = "CREATED"
      BY <1>4
    <3> QED BY <2>2, <3>1, <3>2, StayFacts DEF Alike
  <2> QED BY <1>4, <2>1, <2>2
<1> QED BY <1>5, <1>6, <1>7

LEMMA ChainStepBase ==
  ASSUME BaseInv, ChainStep
  PROVE  BaseInv' /\ proc' = proc /\ base' = base /\ Kept
<1> USE DEF BaseInv
<1>1. ChainTypes' /\ ProcTypes' /\ proc' = proc /\ base' = base /\ Kept
  BY ChainStepParts
<1>2. Once'
  BY <1>1, KeptOnce
<1>3. Named' /\ Done' /\ Facts'
  <2>1. CASE \E w \in Accounts : Mine(w)
    <3>1. PICK w \in Accounts : Mine(w)
      BY <2>1
    <3>2. PICK x \in pool : x.nonce = mined[From(x.act)].count /\ Include(x)
      BY <3>1 DEF Mine
    <3> QED BY <3>2, MineBase
  <2>2. CASE \E x \in pool : Drop(x)
    <3>1. deals' = deals /\ recorded' = recorded /\ mined' = mined /\ events' = events
      BY <2>2 DEF Drop
    <3> QED BY <1>1, <3>1, KeptDone, KeptNamed DEF Facts, Created
  <2>3. CASE \E e \in events \ attested : Attest(e)
    <3>1. deals' = deals /\ recorded' = recorded /\ mined' = mined /\ events' = events
      BY <2>3 DEF Attest
    <3> QED BY <1>1, <3>1, KeptDone, KeptNamed DEF Facts, Created
  <2>4. CASE \E e \in attested \ recorded : Relay(e)
    <3>1. PICK e \in attested : Relay(e)
      BY <2>4
    <3>2. mined' = mined /\ events' = events /\ deals' = Applied(e)
          /\ recorded' = recorded \cup {e}
      BY <3>1 DEF Relay
    <3>3. DOMAIN deals' = DOMAIN deals
      BY <3>2, ApplyGrows
    <3>4. Created' = Created
      BY <1>1, <3>3, GrowSent DEF Kept
    <3> QED BY <1>1, <3>2, <3>4, KeptDone, KeptNamed, ApplyFacts
  <2>5. CASE \E d \in DOMAIN deals : FallDue(d)
    <3>1. PICK d \in DOMAIN deals : FallDue(d)
      BY <2>5
    <3>2. recorded' = recorded /\ mined' = mined /\ events' = events
          /\ deals' = [deals EXCEPT ![d].due = TRUE]
      BY <3>1 DEF FallDue
    <3> DEFINE r == [deals[d] EXCEPT !.due = TRUE]
    <3>3. r \in Deal /\ r.by = deals[d].by /\ r.status = deals[d].status
      BY DealParts DEF Deal
    <3>4. deals' = [deals EXCEPT ![d] = r]
      BY <3>2
    <3> HIDE DEF r
    <3>5. /\ DealsGrow /\ DOMAIN deals' = DOMAIN deals
          /\ \A i \in DOMAIN deals : deals'[i].status = deals[i].status
      BY <3>3, <3>4, MarkGrows
    <3>6. Created' = Created
      BY <3>5, GrowSent
    <3>7. Facts'
      BY <3>2, <3>5, StayFacts DEF Alike
    <3> QED BY <1>1, <3>2, <3>6, <3>7, KeptDone, KeptNamed
  <2>6. CASE \E d \in DOMAIN deals : MarkDefaulted(d)
    <3>1. PICK d \in DOMAIN deals : MarkDefaulted(d)
      BY <2>6
    <3>2. recorded' = recorded /\ mined' = mined /\ events' = events
      BY <3>1 DEF MarkDefaulted
    <3>3. /\ DealsGrow /\ DOMAIN deals' = DOMAIN deals
          /\ \A i \in DOMAIN deals : Alike(deals[i].status, deals'[i].status)
      BY <3>1, DefaultStep
    <3>4. Created' = Created
      BY <3>3, GrowSent
    <3>5. Facts'
      BY <3>2, <3>3, StayFacts
    <3> QED BY <1>1, <3>2, <3>4, <3>5, KeptDone, KeptNamed
  <2> QED BY <2>1, <2>2, <2>3, <2>4, <2>5, <2>6 DEF ChainStep
<1> QED BY <1>1, <1>2, <1>3

-----------------------------------------------------------------------------
(* Where the command is on its plan. *)

\* The steps that pay and that reserve.
Place(act) == CASE act = "fund" -> 4 [] act = "repay" -> 12 [] OTHER -> 16

Untried(act, d) == \A x \in Sent : ~(x.act = act /\ x.deal = d)

\* What is behind and ahead of step k of a deal.
Standing(k) ==
    LET d == proc.deal IN
    /\ d \in DOMAIN deals /\ d > base
    /\ \A act \in OnceActs :
          k < Place(act) \/ (k = Place(act) /\ proc.at = "step") => Untried(act, d)
    /\ proc.at = "sending" =>
          /\ proc.tx.deal = d
          /\ proc.tx.act \in Applications =>
                proc.tx.proves.act = Proven(proc.tx.act) /\ proc.tx.proves.deal = d
    /\ \A e \in proc.made : e \in events /\ e.deal = d
    /\ k \in 5..10 => \E e \in proc.made : e.act = "fund"
    /\ k \in 7..10 => \E e \in proc.made : e.act = "impostor"
    /\ k \in 13..14 => \E e \in proc.made : e.act = "repay"
    /\ k > 8 => deals[d].status # "CREATED"
    /\ k > 10 /\ ~proc.resumes => \E e \in recorded : e.act = "impostor" /\ e.deal = d
    /\ k > 14 => deals[d].status \in Closed
    /\ k > 15 => proc.problems \/ deals[d].status = "PAID_ON_TIME"

OnPlan == \A k \in 3..16 : proc.left = Plan(k) => Standing(k)

\* Nothing is paid before there is a deal, or before it was looked at.
NothingMade ==
    proc.left \in {Plan(1), Plan(2), Inspect, ToppingUp(Scenario), ToppingUp(Inspect)} =>
        proc.made = {}

\* The operator resumes a deal that did not get further.
Inspecting ==
    proc.left \in {Inspect, ToppingUp(Inspect)} =>
        LET d == proc.deal IN
        /\ d \in DOMAIN deals /\ proc.resumes
        /\ Inspects => /\ Untried("createReserved", d)
                       /\ deals[d].status \notin Past => Untried("repay", d)

\* A deal that is being created is in nobody's hands yet.
Creating ==
    proc.at = "sending" /\ proc.tx.act = "create" =>
        \A d \in DOMAIN deals : deals[d].by = proc.tx =>
            d > base /\ \A act \in OnceActs : Untried(act, d)

Reported ==
    proc.result = "reported" =>
        \E d \in DOMAIN deals :
            /\ d > base /\ deals[d].status = "PAID_ON_TIME"
            /\ ~proc.resumes => \E e \in recorded : e.act = "impostor" /\ e.deal = d
            /\ \E k \in DOMAIN deals : deals[k].by.act = "createReserved" /\ deals[k].by.deal = d

PlanInv == OnPlan /\ NothingMade /\ Inspecting /\ Creating /\ Reported

LEMMA KeptUntried ==
  ASSUME Kept, NEW act \in {"fund", "repay", "createReserved"}, NEW d, Untried(act, d)
  PROVE  Untried(act, d)'
BY NoTxTypes DEF Kept, Untried

LEMMA NewDealUntried ==
  ASSUME Named, NEW act \in {"fund", "repay", "createReserved"}, NEW d, d \notin DOMAIN deals
  PROVE  Untried(act, d)
BY DEF Named, Untried, Payments

\* What the chains do takes a plan no step back.
LEMMA KeptStanding ==
  ASSUME Kept, proc' = proc, base' = base, NEW k \in 3..16, Standing(k)
  PROVE  Standing(k)'
<1>1. PICK d : d = proc.deal
  OBVIOUS
<1>2. d \in DOMAIN deals /\ d > base /\ d \in DOMAIN deals'
  BY <1>1 DEF Standing, Kept, DealsGrow
<1>3. ASSUME NEW act \in OnceActs, k < Place(act) \/ (k = Place(act) /\ proc.at = "step")
      PROVE  Untried(act, d)'
  <2>1. Untried(act, d)
    BY <1>1, <1>3 DEF Standing
  <2>2. act \in {"fund", "repay", "createReserved"}
    BY OnceActsAre
  <2> QED BY <2>1, <2>2, KeptUntried
<1>4. Later(deals[d].status, deals'[d].status)
  BY <1>2 DEF Kept, DealsGrow
<1>5. /\ k > 8 => deals'[d].status # "CREATED"
      /\ k > 14 => deals'[d].status \in Closed
      /\ k > 15 => proc.problems \/ deals'[d].status = "PAID_ON_TIME"
  <2>1. /\ k > 8 => deals[d].status # "CREATED"
        /\ k > 14 => deals[d].status \in Closed
        /\ k > 15 => proc.problems \/ deals[d].status = "PAID_ON_TIME"
    BY <1>1 DEF Standing
  <2> QED BY <1>4, <2>1 DEF Later, Closed
<1>6. events \subseteq events' /\ recorded \subseteq recorded'
  BY DEF Kept
<1>7. /\ proc.at = "sending" =>
            /\ proc.tx.deal = d
            /\ proc.tx.act \in Applications =>
                  proc.tx.proves.act = Proven(proc.tx.act) /\ proc.tx.proves.deal = d
      /\ \A e \in proc.made : e \in events' /\ e.deal = d
      /\ k \in 5..10 => \E e \in proc.made : e.act = "fund"
      /\ k \in 7..10 => \E e \in proc.made : e.act = "impostor"
      /\ k \in 13..14 => \E e \in proc.made : e.act = "repay"
      /\ k > 10 /\ ~proc.resumes => \E e \in recorded' : e.act = "impostor" /\ e.deal = d
  BY <1>1, <1>6 DEF Standing
<1> QED BY <1>1, <1>2, <1>3, <1>5, <1>7 DEF Standing

LEMMA ChainStepPlan ==
  ASSUME ChainTypes, Named, PlanInv, Kept, proc' = proc, base' = base
  PROVE  PlanInv'
<1> USE DEF PlanInv
<1>1. OnPlan'
  BY KeptStanding DEF OnPlan
<1>2. NothingMade'
  BY DEF NothingMade
<1>3. Inspecting'
  <2> SUFFICES ASSUME proc.left \in {Inspect, ToppingUp(Inspect)}
               PROVE  /\ proc.deal \in DOMAIN deals' /\ proc.resumes
                      /\ Inspects => /\ Untried("createReserved", proc.deal)'
                                     /\ deals'[proc.deal].status \notin Past =>
                                           Untried("repay", proc.deal)'
    BY DEF Inspecting
  <2>1. PICK d : d = proc.deal
    OBVIOUS
  <2>2. /\ d \in DOMAIN deals /\ proc.resumes
        /\ Inspects => /\ Untried("createReserved", d)
                       /\ deals[d].status \notin Past => Untried("repay", d)
    BY <2>1 DEF Inspecting
  <2>3. d \in DOMAIN deals' /\ Later(deals[d].status, deals'[d].status)
    BY <2>2 DEF Kept, DealsGrow
  <2>4. deals'[d].status \notin Past => deals[d].status \notin Past
    BY <2>3 DEF Later, Closed, Past
  <2>5. /\ Untried("createReserved", d) => Untried("createReserved", d)'
        /\ Untried("repay", d) => Untried("repay", d)'
    BY KeptUntried
  <2> QED BY <2>1, <2>2, <2>3, <2>4, <2>5
<1>4. Creating'
  <2> SUFFICES ASSUME proc.at = "sending", proc.tx.act = "create",
                      NEW d \in DOMAIN deals', deals'[d].by = proc.tx, NEW act \in OnceActs
               PROVE  d > base /\ Untried(act, d)'
    <3>1. "fund" \in OnceActs
      BY OnceActsAre
    <3> QED BY <3>1 DEF Creating
  <2>1. act \in {"fund", "repay", "createReserved"}
    BY OnceActsAre
  <2>2. CASE d \in DOMAIN deals
    <3>1. deals[d].by = proc.tx
      BY <2>2 DEF Kept, DealsGrow
    <3>2. d > base /\ Untried(act, d)
      BY <2>2, <3>1 DEF Creating
    <3> QED BY <2>1, <3>2, KeptUntried
  <2>3. CASE d \notin DOMAIN deals
    <3>1. d = Len(deals) + 1
      BY <2>3 DEF Kept, DealsGrow
    <3>2. Len(deals) \in Nat /\ base \in 0..Len(deals)
      BY LenProperties DEF ChainTypes
    <3>3. d > base
      BY <3>1, <3>2
    <3> QED BY <2>1, <2>3, <3>3, NewDealUntried, KeptUntried
  <2> QED BY <2>2, <2>3
<1>5. Reported'
  <2> SUFFICES ASSUME proc.result = "reported" PROVE Reported'
    BY DEF Reported
  <2>1. PICK d \in DOMAIN deals :
            /\ d > base /\ deals[d].status = "PAID_ON_TIME"
            /\ ~proc.resumes => \E e \in recorded : e.act = "impostor" /\ e.deal = d
            /\ \E k \in DOMAIN deals : deals[k].by.act = "createReserved" /\ deals[k].by.deal = d
    BY DEF Reported
  <2>2. d \in DOMAIN deals' /\ deals'[d].status = "PAID_ON_TIME"
    BY <2>1 DEF Kept, DealsGrow, Later
  <2>3. ~proc.resumes => \E e \in recorded' : e.act = "impostor" /\ e.deal = d
    BY <2>1 DEF Kept
  <2>4. \E k \in DOMAIN deals' : deals'[k].by.act = "createReserved" /\ deals'[k].by.deal = d
    BY <2>1 DEF Kept, DealsGrow
  <2> QED BY <2>1, <2>2, <2>3, <2>4 DEF Reported
<1> QED BY <1>1, <1>2, <1>3, <1>4, <1>5

-----------------------------------------------------------------------------
(* What the command does. *)

\* A step that sends nothing new.
LEMMA QuietBase ==
  ASSUME BaseInv, UNCHANGED <<events, recorded, deals, mined>>,
         pool' \subseteq pool \cup {proc.tx}, proc'.tx \in {proc.tx, NoTx}
  PROVE  Kept /\ Named' /\ Done' /\ Facts' /\ Once'
<1> USE DEF BaseInv
<1>1. DealsGrow /\ Created' = Created
  BY DealsStay DEF Created
<1>2. \A x \in Sent' : x \in Sent \/ x = NoTx
  BY <1>1 DEF Sent
<1>3. Kept
  BY <1>1, <1>2 DEF Kept
<1>4. Facts'
  BY DEF Facts
<1> QED BY <1>1, <1>3, <1>4, KeptNamed, KeptDone, KeptOnce

LEMMA QuietChain ==
  ASSUME ChainTypes, UNCHANGED chainVars
  PROVE  /\ ChainTypes' /\ UNCHANGED <<events, recorded, deals, mined, base, pool>>
         /\ pool' \subseteq pool \cup {proc.tx}
BY DEF ChainTypes, chainVars

\* A command that is at a plan is at one step of it.
LEMMA OnePlan ==
  ASSUME NEW k \in 1..16, NEW j \in 1..16, NEW p, p = Plan(k), p = Plan(j)
  PROVE  j = k
BY PlanIsOne

\* It goes on to the next step, having done what this one is for.
LEMMA Advance ==
  ASSUME ProcTypes, NEW k \in 3..15, proc.left = Plan(k), Standing(k), Kept,
         UNCHANGED <<events, recorded, deals, base>>,
         Stepping, proc'.left = Tail(proc.left), proc'.deal = proc.deal,
         proc'.resumes = proc.resumes, proc'.result = "none",
         proc.made \subseteq proc'.made,
         \A e \in proc'.made : e \in events /\ e.deal = proc.deal,
         k = 4 => \E e \in proc'.made : e.act = "fund",
         k = 6 => \E e \in proc'.made : e.act = "impostor",
         k = 12 => \E e \in proc'.made : e.act = "repay",
         k = 8 => deals[proc.deal].status # "CREATED",
         k = 10 /\ ~proc.resumes => \E e \in recorded : e.act = "impostor" /\ e.deal = proc.deal,
         k = 14 => deals[proc.deal].status \in Closed,
         proc.problems => proc'.problems,
         k = 15 => proc'.problems \/ deals[proc.deal].status = "PAID_ON_TIME"
  PROVE  PlanInv'
<1> DEFINE j == k + 1
<1>1. j \in 3..16 /\ j \in 1..16 /\ k \in 1..16 /\ k # 16
  OBVIOUS
<1>2. proc'.left = Plan(j)
  BY <1>1, PlanParts
<1>3. /\ \A i \in 1..16 : proc'.left = Plan(i) => i = j
      /\ proc'.left \notin {Plan(1), Plan(2), Inspect, ToppingUp(Scenario), ToppingUp(Inspect)}
  <2> HIDE DEF j
  <2>1. \A i \in 1..16 : proc'.left = Plan(i) => i = j
    BY <1>1, <1>2, PlanIsOne
  <2>2. proc'.left \notin {Inspect, ToppingUp(Scenario), ToppingUp(Inspect)}
    BY <1>1, <1>2, PlanIsOne
  <2>3. j # 1 /\ j # 2
    BY DEF j
  <2>4. proc'.left # Plan(1) /\ proc'.left # Plan(2)
    BY ONLY <2>1, <2>3
  <2> QED BY <2>1, <2>2, <2>4
<1>4. PICK d : d = proc.deal
  OBVIOUS
<1>5. /\ d \in DOMAIN deals /\ d > base
      /\ k \in 5..10 => \E e \in proc.made : e.act = "fund"
      /\ k \in 7..10 => \E e \in proc.made : e.act = "impostor"
      /\ k \in 13..14 => \E e \in proc.made : e.act = "repay"
      /\ k > 8 => deals[d].status # "CREATED"
      /\ k > 10 /\ ~proc.resumes => \E e \in recorded : e.act = "impostor" /\ e.deal = d
      /\ k > 14 => deals[d].status \in Closed
  BY <1>4 DEF Standing
<1>6. ASSUME NEW act \in OnceActs, j < Place(act) \/ j = Place(act)
      PROVE  Untried(act, d)'
  <2>1. Place(act) \in Nat
    BY DEF Place
  <2>2. Untried(act, d)
    BY <1>4, <1>6, <2>1 DEF Standing
  <2>3. act \in {"fund", "repay", "createReserved"}
    BY OnceActsAre
  <2> QED BY <2>2, <2>3, KeptUntried
<1>7. /\ j \in 5..10 => \E e \in proc'.made : e.act = "fund"
      /\ j \in 7..10 => \E e \in proc'.made : e.act = "impostor"
      /\ j \in 13..14 => \E e \in proc'.made : e.act = "repay"
  <2>1. /\ j \in 5..10 => k = 4 \/ k \in 5..10
        /\ j \in 7..10 => k = 6 \/ k \in 7..10
        /\ j \in 13..14 => k = 12 \/ k \in 13..14
    OBVIOUS
  <2> HIDE DEF j
  <2> QED BY <1>5, <2>1
<1>8. /\ j > 8 => deals[d].status # "CREATED"
      /\ j > 10 /\ ~proc.resumes => \E e \in recorded : e.act = "impostor" /\ e.deal = d
      /\ j > 14 => deals[d].status \in Closed
      /\ j > 15 => proc'.problems \/ deals[d].status = "PAID_ON_TIME"
  <2>1. /\ j > 8 => k = 8 \/ k > 8
        /\ j > 10 => k = 10 \/ k > 10
        /\ j > 14 => k = 14 \/ k > 14
        /\ j > 15 => k = 15
    OBVIOUS
  <2> HIDE DEF j
  <2> QED BY <1>4, <1>5, <2>1
<1> HIDE DEF j
<1>9. Standing(j)'
  BY <1>4, <1>5, <1>6, <1>7, <1>8 DEF Standing, Stepping
<1>10. OnPlan'
  <2>1. SUFFICES ASSUME NEW i \in 3..16, proc'.left = Plan(i) PROVE Standing(i)'
    BY DEF OnPlan
  <2>2. i \in 1..16
    OBVIOUS
  <2>3. i = j
    BY Zenon, <1>3, <2>1, <2>2
  <2> QED BY <1>9, <2>3
<1>11. NothingMade' /\ Inspecting' /\ Creating' /\ Reported'
  BY <1>3 DEF NothingMade, Inspecting, Creating, Reported, Stepping
<1> QED BY <1>10, <1>11 DEF PlanInv

\* A command that has ended, and has not just reported, has no plan.
LEMMA HaltPlan ==
  ASSUME NEW r \in Results \ {"reported"}, Halted(r)
  PROVE  PlanInv'
<1>1. /\ \A k \in 1..16 : proc'.left # Plan(k)
      /\ proc'.left \notin {Inspect, ToppingUp(Scenario), ToppingUp(Inspect)}
  <2>1. \A k \in 1..16 : proc'.left # Plan(k)
    BY PlanIsOne DEF Halted
  <2>2. proc'.left \notin {Inspect, ToppingUp(Scenario), ToppingUp(Inspect)}
    BY PlanNames DEF Halted
  <2> QED BY <2>1, <2>2
<1>2. OnPlan'
  BY <1>1 DEF OnPlan
<1>3. NothingMade' /\ Inspecting'
  <2>1. 1 \in 1..16 /\ 2 \in 1..16
    OBVIOUS
  <2>2. proc'.left # Plan(1) /\ proc'.left # Plan(2)
    BY Zenon, <1>1, <2>1
  <2> QED BY <1>1, <2>2 DEF NothingMade, Inspecting
<1>4. Creating' /\ Reported'
  BY DEF Creating, Reported, Halted
<1> QED BY <1>2, <1>3, <1>4 DEF PlanInv

\* The beginning of a scenario.
LEMMA BeginPlan ==
  ASSUME Stepping, proc'.left \in {Plan(1), Plan(2), ToppingUp(Scenario)}, proc'.made = {},
         proc'.result = "none"
  PROVE  PlanInv'
<1>1. /\ \A k \in 3..16 : proc'.left # Plan(k)
      /\ proc'.left \notin {Inspect, ToppingUp(Inspect)}
  <2>1. ASSUME NEW i \in {1, 2}, proc'.left = Plan(i)
        PROVE  /\ \A k \in 3..16 : proc'.left # Plan(k)
               /\ proc'.left \notin {Inspect, ToppingUp(Inspect)}
    BY <2>1, PlanIsOne
  <2>2. ASSUME proc'.left = ToppingUp(Scenario)
        PROVE  /\ \A k \in 3..16 : proc'.left # Plan(k)
               /\ proc'.left \notin {Inspect, ToppingUp(Inspect)}
    <3>1. \A k \in 1..16 : /\ Plan(k) # ToppingUp(Scenario)
                           /\ Inspect # ToppingUp(Scenario)
                           /\ ToppingUp(Scenario) # ToppingUp(Inspect)
      BY PlanIsOne
    <3>2. \A k \in 3..16 : k \in 1..16
      OBVIOUS
    <3>3. 1 \in 1..16
      OBVIOUS
    <3> QED BY <2>2, <3>1, <3>2, <3>3, Zenon
  <2> QED BY <2>1, <2>2
<1>2. OnPlan'
  BY <1>1 DEF OnPlan
<1>3. NothingMade' /\ Inspecting'
  BY <1>1 DEF NothingMade, Inspecting
<1>4. Creating' /\ Reported'
  BY DEF Creating, Reported, Stepping
<1> QED BY <1>2, <1>3, <1>4 DEF PlanInv

\* The beginning of a resumed run.
LEMMA InspectPlan ==
  ASSUME Stepping, proc'.left \in {Inspect, ToppingUp(Inspect)}, proc'.made = {},
         proc'.result = "none", Inspecting'
  PROVE  PlanInv'
<1>1. \A k \in 3..16 : proc'.left # Plan(k)
  BY PlanIsOne
<1>2. OnPlan'
  BY <1>1 DEF OnPlan
<1>3. NothingMade'
  BY DEF NothingMade
<1>4. Creating' /\ Reported'
  BY DEF Creating, Reported, Stepping
<1> QED BY <1>2, <1>3, <1>4 DEF PlanInv

LiveInv == BaseInv /\ PlanInv

LEMMA LiveInit == Init => LiveInv
<1> SUFFICES ASSUME Init PROVE LiveInv
  OBVIOUS
<1>1. ChainTypes /\ ProcTypes
  BY InitTypes
<1>2. proc = NoCommand /\ proc.at = "ended" /\ proc.left = <<>> /\ proc.tx = NoTx
      /\ proc.result = "none"
  BY NoCommandTypes DEF Init
<1>3. DOMAIN deals = {} /\ events = {} /\ pool = {} /\ recorded = {} /\ Created = {}
  BY DEF Init, Created
<1>4. Sent = {NoTx}
  BY <1>2, <1>3 DEF Sent
<1>5. Named
  BY <1>3, <1>4, NoTxTypes DEF Named, Payments
<1>6. Done
  <2>1. \A w \in Accounts : mined[w].last = NoTx
    BY DEF Init
  <2> QED BY <2>1, NoTxTypes DEF Done, Payments, Creations, Applications
<1>7. Facts /\ Once
  BY <1>3 DEF Facts, Once
<1>8. PlanInv
  <2>1. \A k \in 1..16 : proc.left # Plan(k)
    BY <1>2, PlanIsOne
  <2>2. proc.left \notin {Inspect, ToppingUp(Scenario), ToppingUp(Inspect)}
    BY <1>2, PlanNames
  <2>3. OnPlan
    BY <2>1 DEF OnPlan
  <2>4. NothingMade /\ Inspecting
    <3>1. 1 \in 1..16 /\ 2 \in 1..16
      OBVIOUS
    <3>2. proc.left # Plan(1) /\ proc.left # Plan(2)
      BY Zenon, <2>1, <3>1
    <3> QED BY <2>2, <3>2 DEF NothingMade, Inspecting
  <2>5. Creating /\ Reported
    BY <1>2 DEF Creating, Reported
  <2> QED BY <2>3, <2>4, <2>5 DEF PlanInv
<1> QED BY <1>1, <1>5, <1>6, <1>7, <1>8 DEF LiveInv, BaseInv

LEMMA ChainStepLive == ASSUME LiveInv, ChainStep PROVE LiveInv'
BY ChainStepBase, ChainStepPlan DEF LiveInv, BaseInv

LEMMA StartRunsLive ==
  ASSUME LiveInv, NEW fresh \in BOOLEAN, NEW r \in 1..MaxRuns, StartRuns(fresh, r)
  PROVE  LiveInv'
<1> USE DEF LiveInv, BaseInv
<1>1. /\ ChainTypes' /\ ProcTypes'
      /\ proc'.left \in {Plan(1), ToppingUp(Scenario)} /\ proc'.at = "step" /\ proc'.tx = NoTx
      /\ proc'.result = "none" /\ proc'.made = {}
  BY StartRunsTypes
<1>2. UNCHANGED <<events, recorded, deals, mined>> /\ pool' \subseteq pool \cup {proc.tx}
  BY DEF StartRuns
<1>3. Named' /\ Done' /\ Facts' /\ Once'
  BY <1>1, <1>2, QuietBase
<1>4. PlanInv'
  BY <1>1, BeginPlan DEF Stepping
<1> QED BY <1>1, <1>3, <1>4

LEMMA ResumeLive ==
  ASSUME LiveInv, NEW d \in DOMAIN deals, Resume(d)
  PROVE  LiveInv'
<1> USE DEF LiveInv, BaseInv
<1>1. /\ ChainTypes' /\ ProcTypes'
      /\ proc'.left \in {Inspect, ToppingUp(Inspect)} /\ proc'.at = "step" /\ proc'.tx = NoTx
      /\ proc'.result = "none" /\ proc'.resumes = TRUE /\ proc'.deal = d /\ proc'.made = {}
  BY ResumeTypes
<1>2. UNCHANGED <<events, recorded, deals, mined>> /\ pool' \subseteq pool \cup {proc.tx}
  BY DEF Resume, chainVars
<1>3. Kept /\ Named' /\ Done' /\ Facts' /\ Once'
  BY <1>1, <1>2, QuietBase
<1>4. Inspects => /\ Untried("createReserved", d)
                  /\ deals[d].status \notin Past => Untried("repay", d)
  <2> SUFFICES ASSUME Inspects
               PROVE  /\ Untried("createReserved", d)
                      /\ deals[d].status \notin Past => Untried("repay", d)
    OBVIOUS
  <2>1. Untouched(d) /\ proc.at = "ended"
    BY DEF Resume
  <2>2. proc.tx.act = "none"
    BY <2>1, NoTxTypes DEF ProcTypes
  <2>3. \A x \in Created \cup pool : ~(x.act = "createReserved" /\ x.deal = d)
    BY <2>1 DEF Untouched, Reserves, Created
  <2>4. \A e \in events : e.act # "createReserved"
    BY DEF Named, Payments
  <2>5. Untried("createReserved", d)
    BY <2>2, <2>3, <2>4 DEF Untried, Sent
  <2>6. ASSUME deals[d].status \notin Past PROVE Untried("repay", d)
    <3>1. deals[d].status \in {"CREATED", "FINANCED"}
      BY <2>6, DealParts DEF LiveStatuses, Past
    <3>2. CASE deals[d].status = "CREATED"
      BY <3>2 DEF Once, Doing, Untried
    <3>3. CASE deals[d].status = "FINANCED"
      <4>1. \A x \in events \cup pool : ~(x.act = "repay" /\ x.deal = d)
        BY <2>1, <3>3 DEF Untouched, EventOf
      <4>2. \A x \in Created : x.act # "repay"
        BY DEF Named, Creations
      <4> QED BY <2>2, <4>1, <4>2 DEF Untried, Sent
    <3> QED BY <3>1, <3>2, <3>3
  <2> QED BY <2>5, <2>6
<1>5. Inspecting'
  <2>1. d \in DOMAIN deals' /\ deals'[d].status = deals[d].status
    BY <1>2
  <2>2. /\ Untried("createReserved", d) => Untried("createReserved", d)'
        /\ Untried("repay", d) => Untried("repay", d)'
    BY <1>3, KeptUntried
  <2> QED BY <1>1, <1>4, <2>1, <2>2 DEF Inspecting
<1>6. PlanInv'
  BY <1>1, <1>5, InspectPlan DEF Stepping
<1> QED BY <1>1, <1>3, <1>6

\* The step a command at work is at.
LEMMA AtStep ==
  ASSUME ProcTypes, proc.at # "ended"
  PROVE  \/ \E k \in 1..16 : proc.left = Plan(k) /\ Head(proc.left) = Scenario[k]
         \/ proc.left = Inspect /\ Head(proc.left) = "inspect"
         \/ proc.left \in {ToppingUp(Scenario), ToppingUp(Inspect)} /\ Head(proc.left) = "topUp"
<1>1. proc.left \in Plans
  BY DEF ProcTypes
<1>2. CASE \E k \in 1..16 : proc.left = Plan(k)
  <2>1. PICK k \in 1..16 : proc.left = Plan(k)
    BY <1>2
  <2> QED BY <2>1, PlanParts
<1>3. CASE proc.left \in {Inspect, ToppingUp(Scenario), ToppingUp(Inspect)}
  BY <1>3, PlanNames
<1> QED BY <1>1, <1>2, <1>3, PlanCases

\* A step of the middle of the plan, that brings about nothing by itself.
LEMMA Passes ==
  ASSUME LiveInv, NEW k \in {3, 5, 7, 9, 11, 13}, proc.left = Plan(k), proc.at # "ended",
         UNCHANGED chainVars, Same, Stepping, proc'.left = Tail(proc.left),
         proc'.made = proc.made, proc.problems => proc'.problems
  PROVE  LiveInv' \/ ~ProcTypes'
<1> USE DEF LiveInv, BaseInv
<1>1. /\ ChainTypes' /\ UNCHANGED <<events, recorded, deals, mined, base, pool>>
      /\ pool' \subseteq pool \cup {proc.tx}
  BY QuietChain
<1>2. Kept /\ Named' /\ Done' /\ Facts' /\ Once'
  BY <1>1, QuietBase DEF Stepping
<1>3. k \in 3..15 /\ k # 4 /\ k # 6 /\ k # 12 /\ k # 8 /\ k # 10 /\ k # 14 /\ k # 15 /\ k \in 3..16
  OBVIOUS
<1>4. Standing(k)
  BY <1>3 DEF PlanInv, OnPlan
<1>5. /\ proc'.deal = proc.deal /\ proc'.resumes = proc.resumes /\ proc'.result = "none"
      /\ proc.made \subseteq proc'.made
      /\ \A e \in proc'.made : e \in events /\ e.deal = proc.deal
  BY <1>4 DEF Same, ProcTypes, Standing
<1>6. PlanInv'
  BY <1>1, <1>2, <1>3, <1>4, <1>5, Advance
<1> QED BY <1>1, <1>2, <1>6

LEMMA SkipLive == ASSUME LiveInv, SkipApproval PROVE LiveInv'
<1> USE DEF LiveInv, BaseInv
<1>1. /\ ProcTypes' /\ Same /\ Stepping /\ proc'.left = Tail(proc.left)
      /\ proc'.made = proc.made /\ proc'.problems = proc.problems /\ proc.at = "step"
  BY SkipTypes
<1>2. Head(proc.left) \in Approvals /\ UNCHANGED chainVars
  BY DEF SkipApproval
<1>3. PICK k \in 1..16 : proc.left = Plan(k) /\ Head(proc.left) = Scenario[k]
  BY <1>1, <1>2, AtStep DEF Approvals
<1>4. k \in {3, 5, 7, 9, 11, 13}
  BY <1>2, <1>3, StepNumbers
<1>5. LiveInv' \/ ~ProcTypes'
  BY <1>1, <1>2, <1>3, <1>4, Passes
<1> QED BY <1>1, <1>5

LEMMA WaitLive == ASSUME LiveInv, Wait PROVE LiveInv'
<1> USE DEF LiveInv, BaseInv
<1>1. /\ ProcTypes' /\ proc.at = "step" /\ Head(proc.left) = "wait"
      /\ \/ Halted("timeout")
         \/ /\ Same /\ Stepping /\ proc'.left = Tail(proc.left)
            /\ proc'.made = proc.made /\ proc'.problems = proc.problems
  BY WaitTypes
<1>2. UNCHANGED chainVars
  BY DEF Wait
<1>3. /\ ChainTypes' /\ UNCHANGED <<events, recorded, deals, mined, base, pool>>
      /\ pool' \subseteq pool \cup {proc.tx}
  BY <1>2, QuietChain
<1>4. CASE Halted("timeout")
  <2>1. Named' /\ Done' /\ Facts' /\ Once'
    BY <1>3, <1>4, QuietBase DEF Halted
  <2>2. "timeout" \in Results \ {"reported"}
    BY DEF Results
  <2> QED BY <1>1, <1>3, <1>4, <2>1, <2>2, HaltPlan
<1>5. CASE /\ Same /\ Stepping /\ proc'.left = Tail(proc.left)
           /\ proc'.made = proc.made /\ proc'.problems = proc.problems
  <2>1. PICK k \in 1..16 : proc.left = Plan(k) /\ Head(proc.left) = Scenario[k]
    BY <1>1, AtStep
  <2>2. k \in {3, 5, 7, 9, 11, 13}
    BY <1>1, <2>1, StepNumbers
  <2>3. LiveInv' \/ ~ProcTypes'
    BY <1>1, <1>2, <1>5, <2>1, <2>2, Passes
  <2> QED BY <1>1, <2>3
<1> QED BY <1>1, <1>4, <1>5

LEMMA GiveUpLive == ASSUME LiveInv, GiveUp \/ Crash PROVE LiveInv'
<1> USE DEF LiveInv, BaseInv
<1>1. PICK r \in {"timeout", "crash"} : Halted(r)
  BY GiveUpTypes
<1>2. ProcTypes'
  BY GiveUpTypes
<1>3. UNCHANGED chainVars
  BY DEF GiveUp, Crash
<1>4. /\ ChainTypes' /\ UNCHANGED <<events, recorded, deals, mined, base, pool>>
      /\ pool' \subseteq pool \cup {proc.tx}
  BY <1>3, QuietChain
<1>5. Named' /\ Done' /\ Facts' /\ Once'
  BY <1>1, <1>4, QuietBase DEF Halted
<1>6. r \in Results \ {"reported"}
  BY DEF Results
<1>7. PlanInv'
  BY <1>1, <1>6, HaltPlan
<1> QED BY <1>2, <1>4, <1>5, <1>7

LEMMA BroadcastLive == ASSUME LiveInv, Broadcast PROVE LiveInv'
<1> USE DEF LiveInv, BaseInv
<1>1. /\ ProcTypes' /\ ChainTypes' /\ Same /\ proc.at = "sending" /\ proc'.at = "sending"
      /\ proc'.tx = proc.tx /\ proc'.left = proc.left /\ proc'.made = proc.made
      /\ proc'.problems = proc.problems
      /\ pool' \in {pool, pool \cup {proc.tx}}
  BY BroadcastTypes
<1>2. UNCHANGED <<events, recorded, deals, mined, base>>
  BY DEF Broadcast
<1>3. Kept /\ Named' /\ Done' /\ Facts' /\ Once'
  BY <1>1, <1>2, QuietBase
<1>4. Sent' \subseteq Sent
  BY <1>1, <1>2 DEF Sent, Created
<1>5. PlanInv'
  <2>1. \A k \in 3..16 : Standing(k) => Standing(k)'
    BY <1>1, <1>2, <1>4 DEF Standing, Untried, Same
  <2>2. OnPlan'
    BY <1>1, <2>1 DEF OnPlan, PlanInv
  <2>3. NothingMade' /\ Inspecting' /\ Creating' /\ Reported'
    BY <1>1, <1>2, <1>4 DEF NothingMade, Inspecting, Creating, Reported, PlanInv, Untried, Same
  <2> QED BY <2>2, <2>3 DEF PlanInv
<1> QED BY <1>1, <1>3, <1>5

\* A plan that begins in the middle, or goes there.
LEMMA JumpPlan ==
  ASSUME NEW j \in 3..16, proc'.left = Plan(j), Standing(j)', Stepping, proc'.result = "none"
  PROVE  PlanInv'
<1>1. j \in 1..16
  OBVIOUS
<1>2. \A i \in 1..16 : proc'.left = Plan(i) => i = j
  BY <1>1, PlanIsOne
<1>3. proc'.left \notin {Plan(1), Plan(2), Inspect, ToppingUp(Scenario), ToppingUp(Inspect)}
  <2>1. proc'.left \notin {Inspect, ToppingUp(Scenario), ToppingUp(Inspect)}
    BY <1>1, PlanIsOne
  <2>2. j # 1 /\ j # 2 /\ 1 \in 1..16 /\ 2 \in 1..16
    OBVIOUS
  <2>3. proc'.left # Plan(1) /\ proc'.left # Plan(2)
    BY ONLY <1>2, <2>2
  <2> QED BY <2>1, <2>3
<1>4. OnPlan'
  <2>1. SUFFICES ASSUME NEW i \in 3..16, proc'.left = Plan(i) PROVE Standing(i)'
    BY DEF OnPlan
  <2>2. i \in 1..16
    OBVIOUS
  <2>3. i = j
    BY Zenon, <1>2, <2>1, <2>2
  <2> QED BY <2>3
<1>5. NothingMade' /\ Inspecting' /\ Creating' /\ Reported'
  BY <1>3 DEF NothingMade, Inspecting, Creating, Reported, Stepping
<1> QED BY <1>4, <1>5 DEF PlanInv

\* The run of a deal that was inspected.
LEMMA InspectLive ==
  ASSUME LiveInv, ProcTypes', proc.at = "step", UNCHANGED chainVars,
         Same, Stepping, Head(proc.left) = "inspect", Eligible(proc.deal),
         proc'.left = IF deals[proc.deal].status = "FINANCED" THEN Plan(11) ELSE Plan(16),
         proc'.made = proc.made
  PROVE  LiveInv'
<1> USE DEF LiveInv, BaseInv
<1>1. /\ ChainTypes' /\ UNCHANGED <<events, recorded, deals, mined, base, pool>>
      /\ pool' \subseteq pool \cup {proc.tx}
  BY QuietChain
<1>2. Kept /\ Named' /\ Done' /\ Facts' /\ Once'
  BY <1>1, QuietBase DEF Stepping
<1>3. proc.left = Inspect
  <2>1. \A k \in 1..16 : Scenario[k] # "inspect"
    BY StepNumbers
  <2> QED BY <2>1, AtStep
<1>4. PICK d : d = proc.deal
  OBVIOUS
<1>5. /\ d \in DOMAIN deals /\ proc.resumes
      /\ Inspects => /\ Untried("createReserved", d)
                     /\ deals[d].status \notin Past => Untried("repay", d)
  BY <1>3, <1>4 DEF PlanInv, Inspecting
<1>6. d > base /\ deals[d].status \in {"FINANCED", "PAID_ON_TIME"}
  BY <1>4 DEF Eligible, WithStatus, Recorded
<1>7. proc'.made = {} /\ proc'.deal = d /\ proc'.resumes = TRUE /\ proc'.result = "none"
      /\ deals'[d].status = deals[d].status /\ d \in DOMAIN deals'
  <2>1. proc.resumes = TRUE
    BY <1>5 DEF ProcTypes, Commands
  <2> QED BY <1>1, <1>3, <1>4, <1>5, <2>1 DEF PlanInv, NothingMade, Same, ProcTypes
<1>8. Inspects => /\ Untried("createReserved", d)'
                  /\ deals[d].status \notin Past => Untried("repay", d)'
  <2>1. /\ Untried("createReserved", d) => Untried("createReserved", d)'
        /\ Untried("repay", d) => Untried("repay", d)'
    BY <1>2, KeptUntried
  <2> QED BY <1>5, <2>1
<1>9. CASE deals[d].status = "FINANCED"
  <2>1. \A act \in OnceActs : 11 < Place(act) \/ 11 = Place(act) => Untried(act, d)'
    <3> SUFFICES ASSUME NEW act \in OnceActs, 11 < Place(act) \/ 11 = Place(act)
                 PROVE  Untried(act, d)'
      OBVIOUS
    <3>1. act \in {"repay", "createReserved"} /\ Inspects
      BY DEF OnceActs, Place
    <3> QED BY <1>8, <1>9, <3>1 DEF Closed, Past
  <2>2. Standing(11)'
    BY <1>1, <1>6, <1>7, <1>9, <2>1 DEF Standing, Stepping
  <2>3. 11 \in 3..16 /\ proc'.left = Plan(11)
    BY <1>4, <1>9
  <2>4. PlanInv'
    BY <1>7, <2>2, <2>3, JumpPlan
  <2> QED BY <1>1, <1>2, <2>4
<1>10. CASE deals[d].status = "PAID_ON_TIME"
  <2>1. \A act \in OnceActs : 16 < Place(act) \/ 16 = Place(act) => Untried(act, d)'
    <3> SUFFICES ASSUME NEW act \in OnceActs, 16 < Place(act) \/ 16 = Place(act)
                 PROVE  Untried(act, d)'
      OBVIOUS
    <3>1. act = "createReserved" /\ Inspects
      BY DEF OnceActs, Place
    <3> QED BY <1>8, <3>1
  <2>2. Standing(16)'
    BY <1>1, <1>6, <1>7, <1>10, <2>1 DEF Standing, Stepping, Closed
  <2>3. 16 \in 3..16 /\ proc'.left = Plan(16)
    BY <1>4, <1>10
  <2>4. PlanInv'
    BY <1>7, <2>2, <2>3, JumpPlan
  <2> QED BY <1>1, <1>2, <2>4
<1> QED BY <1>6, <1>9, <1>10

LEMMA LookLive == ASSUME LiveInv, Look PROVE LiveInv'
<1> USE DEF LiveInv, BaseInv
<1>1. /\ ProcTypes' /\ proc.at = "step"
      /\ Head(proc.left) \in {"begin", "inspect", "checkFinanced", "checkClosed"}
      /\ \/ Halted("ineligible")
         \/ /\ Same /\ Stepping /\ Head(proc.left) = "inspect" /\ Eligible(proc.deal)
            /\ proc'.left = IF deals[proc.deal].status = "FINANCED" THEN Plan(11) ELSE Plan(16)
            /\ proc'.made = proc.made
         \/ /\ Same /\ Stepping /\ Head(proc.left) # "inspect"
            /\ proc'.left = Tail(proc.left)
            /\ (proc'.problems <=> proc.problems \/ Mismatch(Head(proc.left)))
            /\ proc'.made = proc.made
  BY LookTypes
<1>2. UNCHANGED chainVars
  BY DEF Look
<1>3. /\ ChainTypes' /\ UNCHANGED <<events, recorded, deals, mined, base, pool>>
      /\ pool' \subseteq pool \cup {proc.tx}
  BY <1>2, QuietChain
<1>4. CASE Halted("ineligible")
  <2>1. Named' /\ Done' /\ Facts' /\ Once'
    BY <1>3, <1>4, QuietBase DEF Halted
  <2>2. "ineligible" \in Results \ {"reported"}
    BY DEF Results
  <2>3. PlanInv'
    BY <1>4, <2>2, HaltPlan
  <2> QED BY <1>1, <1>3, <2>1, <2>3
<1>5. CASE /\ Same /\ Stepping /\ Head(proc.left) = "inspect" /\ Eligible(proc.deal)
           /\ proc'.left = IF deals[proc.deal].status = "FINANCED" THEN Plan(11) ELSE Plan(16)
           /\ proc'.made = proc.made
  BY <1>1, <1>2, <1>5, InspectLive
<1>6. CASE /\ Same /\ Stepping /\ Head(proc.left) # "inspect"
           /\ proc'.left = Tail(proc.left)
           /\ (proc'.problems <=> proc.problems \/ Mismatch(Head(proc.left)))
           /\ proc'.made = proc.made
  <2>1. PICK k \in 1..16 : proc.left = Plan(k) /\ Head(proc.left) = Scenario[k]
    BY <1>1, <1>6, AtStep
  <2>2. k \in {1, 9, 15}
    BY <1>1, <1>6, <2>1, StepNumbers
  <2>3. CASE k = 1
    <3>1. proc'.left = Plan(2)
      BY <1>6, <2>1, <2>3, PlanParts
    <3>2. proc'.made = {} /\ proc'.result = "none"
      BY <1>1, <1>6, <2>1, <2>3 DEF PlanInv, NothingMade, Same, ProcTypes
    <3>3. PlanInv'
      BY <1>6, <3>1, <3>2, BeginPlan
    <3>4. Named' /\ Done' /\ Facts' /\ Once'
      BY <1>3, <1>6, QuietBase DEF Stepping
    <3> QED BY <1>1, <1>3, <3>3, <3>4
  <2>4. CASE k = 9
    <3>1. k \in {3, 5, 7, 9, 11, 13}
      BY <2>4
    <3>2. proc.at # "ended" /\ (proc.problems => proc'.problems)
      BY <1>1, <1>6
    <3>3. LiveInv' \/ ~ProcTypes'
      BY <1>2, <1>6, <2>1, <3>1, <3>2, Passes
    <3> QED BY <1>1, <3>3
  <2>5. CASE k = 15
    <3>1. Kept /\ Named' /\ Done' /\ Facts' /\ Once'
      BY <1>3, <1>6, QuietBase DEF Stepping
    <3>2. Standing(15) /\ proc.left = Plan(15) /\ 15 \in 3..15
      <4>1. 15 \in 3..16
        OBVIOUS
      <4> QED BY <2>1, <2>5, <4>1 DEF PlanInv, OnPlan
    <3>3. Head(proc.left) = "checkClosed"
      BY <2>1, <2>5, ScenarioSteps
    <3>4. proc'.problems \/ deals[proc.deal].status = "PAID_ON_TIME"
      <4>1. ~Mismatch("checkClosed") => deals[proc.deal].status = "PAID_ON_TIME"
        BY DEF Mismatch
      <4> QED BY <1>6, <3>3, <4>1
    <3>5. /\ proc'.deal = proc.deal /\ proc'.resumes = proc.resumes /\ proc'.result = "none"
          /\ proc.made \subseteq proc'.made
          /\ \A e \in proc'.made : e \in events /\ e.deal = proc.deal
          /\ (proc.problems => proc'.problems)
      BY <1>1, <1>6, <3>2 DEF Same, ProcTypes, Standing
    <3> DEFINE n == 15
    <3>6. n # 4 /\ n # 6 /\ n # 12 /\ n # 8 /\ n # 10 /\ n # 14
      OBVIOUS
    <3>7. n \in 3..15 /\ proc.left = Plan(n) /\ Standing(n)
      BY <3>2
    <3> HIDE DEF n
    <3>8. PlanInv'
      BY <1>3, <1>6, <3>1, <3>4, <3>5, <3>6, <3>7, Advance
    <3> QED BY <1>1, <1>3, <3>1, <3>8
  <2> QED BY <2>2, <2>3, <2>4, <2>5
<1> QED BY <1>1, <1>4, <1>5, <1>6

\* What a payment that is due needs was made before.
LEMMA PayableHolds == ASSUME LiveInv PROVE Payable
<1> USE DEF LiveInv, BaseInv
<1> SUFFICES ASSUME proc.at = "step", Head(proc.left) \in Applications
             PROVE  \E e \in proc.made : e.act = Proven(Head(proc.left))
  BY DEF Payable
<1>1. PICK k \in 1..16 : proc.left = Plan(k) /\ Head(proc.left) = Scenario[k]
  BY AtStep DEF Applications
<1>2. k \in {8, 10, 14} /\ k \in 3..16
  BY <1>1, StepNumbers
<1>3. Standing(k)
  BY <1>1, <1>2 DEF PlanInv, OnPlan
<1>4. CASE k = 8
  <2>1. Head(proc.left) = "applyFund" /\ k \in 5..10
    BY <1>1, <1>4, ScenarioSteps
  <2> QED BY <1>3, <2>1 DEF Standing, Proven
<1>5. CASE k = 10
  <2>1. Head(proc.left) = "applyImpostor" /\ k \in 7..10
    BY <1>1, <1>5, ScenarioSteps
  <2> QED BY <1>3, <2>1 DEF Standing, Proven
<1>6. CASE k = 14
  <2>1. Head(proc.left) = "applyRepay" /\ k \in 13..14
    BY <1>1, <1>6, ScenarioSteps
  <2> QED BY <1>3, <2>1 DEF Standing, Proven
<1> QED BY <1>2, <1>4, <1>5, <1>6

\* A step that has just been signed.
LEMMA SendLive ==
  ASSUME LiveInv, ProcTypes', UNCHANGED chainVars, proc.at = "step",
         NEW a \in Signable, a = Head(proc.left), NEW x, x = Signed(a),
         Same, proc'.at = "sending", proc'.left = proc.left, proc'.tx = x,
         proc'.made = proc.made, proc'.problems = proc.problems
  PROVE  LiveInv'
<1> USE DEF LiveInv, BaseInv
<1>1. /\ ChainTypes' /\ UNCHANGED <<events, recorded, deals, mined, base, pool>>
  BY QuietChain
<1>2. PICK d : d = proc.deal
  OBVIOUS
<1>3. /\ x \in Transactions /\ x.act = a
      /\ x.deal = (IF a = "create" THEN 0 ELSE d)
      /\ x.nonce >= mined[From(a)].count
      /\ a \in Applications => x.proves \in proc.made /\ x.proves.act = Proven(a)
  BY <1>2, PayableHolds, SignedParts DEF Payable
<1>4. \A y \in Sent' : y \in Sent \/ y = x
  BY <1>1 DEF Sent, Created
<1>5. \/ \E k \in 1..16 : proc.left = Plan(k) /\ a = Scenario[k]
      \/ proc.left \in {ToppingUp(Scenario), ToppingUp(Inspect)} /\ a = "topUp"
  <2>1. a # "inspect"
    BY DEF Signable, Payments, Approvals, Applications, Creations
  <2> QED BY <2>1, AtStep
<1>6. ASSUME NEW k \in 3..16, proc.left = Plan(k)
      PROVE  /\ Standing(k) /\ a = Scenario[k] /\ k \in 1..16 /\ a # "create" /\ x.deal = d
  <2>1. k \in 1..16 /\ k # 2
    OBVIOUS
  <2>2. a = Scenario[k]
    BY <1>6, <2>1, PlanParts
  <2>3. a # "create"
    BY <2>1, <2>2, StepNumbers
  <2> QED BY <1>3, <1>6, <2>1, <2>2, <2>3 DEF PlanInv, OnPlan
<1>7. ASSUME a \in Payments \cup Applications \cup {"createReserved"}
      PROVE  \E k \in 3..16 : proc.left = Plan(k) /\ a = Scenario[k]
  <2>1. a # "topUp"
    BY <1>7 DEF Payments, Applications
  <2>2. PICK k \in 1..16 : proc.left = Plan(k) /\ a = Scenario[k]
    BY <1>5, <2>1
  <2>3. k \in 3..16
    BY <1>7, <2>2, StepNumbers
  <2> QED BY <2>2, <2>3
<1>8. Named'
  <2>1. ASSUME NEW y \in Sent', y.act \in Payments \cup {"createReserved"}
        PROVE  y.deal \in DOMAIN deals
    <3>1. CASE y \in Sent
      BY <2>1, <3>1 DEF Named
    <3>2. CASE y = x
      <4>1. PICK k \in 3..16 : proc.left = Plan(k)
        BY <1>3, <1>7, <2>1, <3>2
      <4>2. x.deal = d /\ d \in DOMAIN deals
        BY <1>2, <1>6, <4>1 DEF Standing
      <4> QED BY <3>2, <4>2
    <3> QED BY <1>4, <3>1, <3>2
  <2> QED BY <1>1, <2>1 DEF Named, Created
<1>9. Done' /\ Facts'
  BY <1>1 DEF Done, Facts
<1>10. ASSUME NEW act \in OnceActs, a = act
       PROVE  Untried(act, d) /\ x.deal = d
  <2>1. act \in {"fund", "repay", "createReserved"}
    BY OnceActsAre
  <2>2. PICK k \in 3..16 : proc.left = Plan(k) /\ a = Scenario[k]
    BY <1>7, <1>10, <2>1 DEF Payments
  <2>3. Standing(k) /\ x.deal = d /\ k \in 1..16
    BY <1>6, <2>2
  <2>4. k = Place(act)
    BY <1>10, <2>1, <2>2, <2>3, StepNumbers DEF Place
  <2>5. Untried(act, d)
    BY <1>2, <2>3, <2>4 DEF Standing
  <2> QED BY <2>3, <2>5
<1>11. Once'
  <2>1. ASSUME NEW i \in DOMAIN deals, NEW act \in OnceActs,
               NEW y \in Doing(act, i)', NEW z \in Doing(act, i)'
        PROVE  y = z
    <3>1. /\ y.act = act /\ y.deal = i /\ z.act = act /\ z.deal = i
          /\ (y \in Sent \/ y = x) /\ (z \in Sent \/ z = x)
      BY <1>4 DEF Doing
    <3>2. CASE y \in Sent /\ z \in Sent
      BY <3>1, <3>2 DEF Once, Doing
    <3>3. CASE y = x \/ z = x
      <4>1. a = act /\ x.deal = i
        BY <1>3, <3>1, <3>3
      <4>2. Untried(act, i)
        BY <1>10, <4>1
      <4> QED BY <3>1, <3>3, <4>2 DEF Untried
    <3> QED BY <3>1, <3>2, <3>3
  <2>2. ASSUME NEW i \in DOMAIN deals, NEW y \in Doing("repay", i)'
        PROVE  deals[i].status # "CREATED"
    <3>1. y.act = "repay" /\ y.deal = i /\ (y \in Sent \/ y = x)
      BY <1>4 DEF Doing
    <3>2. CASE y \in Sent
      BY <3>1, <3>2 DEF Once, Doing
    <3>3. CASE y = x
      <4>1. a = "repay"
        BY <1>3, <3>1, <3>3
      <4>2. PICK k \in 3..16 : proc.left = Plan(k) /\ a = Scenario[k]
        BY <1>7, <4>1 DEF Payments
      <4>3. Standing(k) /\ x.deal = d /\ k \in 1..16
        BY <1>6, <4>2
      <4>4. k = 12
        BY <4>1, <4>2, <4>3, StepNumbers
      <4> QED BY <1>2, <3>1, <3>3, <4>3, <4>4 DEF Standing
    <3> QED BY <3>1, <3>2, <3>3
  <2> QED BY <1>1, <2>1, <2>2 DEF Once
<1>12. ASSUME NEW act \in {"fund", "repay", "createReserved"}, NEW i, Untried(act, i), a # act
       PROVE  Untried(act, i)'
  BY <1>3, <1>4, <1>12 DEF Untried
<1>13. OnPlan'
  <2>1. SUFFICES ASSUME NEW k \in 3..16, proc'.left = Plan(k) PROVE Standing(k)'
    BY DEF OnPlan
  <2>2. proc.left = Plan(k)
    BY <2>1
  <2>3. Standing(k) /\ a = Scenario[k] /\ k \in 1..16 /\ x.deal = d
    BY <1>6, <2>2
  <2>4. ASSUME NEW act \in OnceActs, k < Place(act) PROVE Untried(act, d)'
    <3>1. act \in {"fund", "repay", "createReserved"}
      BY OnceActsAre
    <3>2. Untried(act, d)
      BY <1>2, <2>3, <2>4 DEF Standing
    <3>3. a # act
      BY <2>3, <2>4, <3>1, StepNumbers DEF Place
    <3> QED BY <1>12, <3>1, <3>2, <3>3
  <2>5. x.act \in Applications => x.proves.act = Proven(x.act) /\ x.proves.deal = d
    BY <1>2, <1>3, <2>3 DEF Standing
  <2> QED BY <1>1, <1>2, <2>3, <2>4, <2>5 DEF Standing, Same
<1>14. NothingMade'
  BY DEF NothingMade, PlanInv
<1>15. Inspecting'
  <2> SUFFICES ASSUME proc.left \in {Inspect, ToppingUp(Inspect)} PROVE Inspecting'
    BY DEF Inspecting
  <2>1. /\ d \in DOMAIN deals /\ proc.resumes
        /\ Inspects => /\ Untried("createReserved", d)
                       /\ deals[d].status \notin Past => Untried("repay", d)
    BY <1>2 DEF Inspecting, PlanInv
  <2>2. a # "repay" /\ a # "createReserved"
    <3>1. \A k \in 1..16 : proc.left # Plan(k)
      BY PlanIsOne
    <3> QED BY <1>5, <3>1
  <2>3. Inspects => /\ Untried("createReserved", d)'
                    /\ deals[d].status \notin Past => Untried("repay", d)'
    BY <1>12, <2>1, <2>2
  <2> QED BY <1>1, <1>2, <2>1, <2>3 DEF Inspecting, Same
<1>16. Creating'
  <2> SUFFICES ASSUME x.act = "create", NEW i \in DOMAIN deals, deals[i].by = x PROVE FALSE
    BY <1>1 DEF Creating
  <2>1. From(a) = "B_CTC"
    BY <1>3, Senders DEF Creations
  <2>2. x \in Created
    BY DEF Created
  <2>3. x.nonce < mined["B_CTC"].count /\ x.nonce \in Nat /\ mined["B_CTC"].count \in Nat
    BY <1>3, <2>2, TransactionParts DEF Named, ChainTypes, Accounts
  <2> QED BY <1>3, <2>1, <2>3
<1>17. Reported'
  BY DEF Reported, Same, ProcTypes
<1> QED BY <1>1, <1>8, <1>9, <1>11, <1>13, <1>14, <1>15, <1>16, <1>17 DEF PlanInv

LEMMA SignLive == ASSUME LiveInv, Sign PROVE LiveInv'
<1> USE DEF LiveInv, BaseInv
<1>1. /\ ProcTypes' /\ proc.at = "step" /\ Head(proc.left) \in Signable
      /\ \/ \E r \in {"relayed", "refused"} : Halted(r)
         \/ /\ Same /\ proc'.at = "sending" /\ proc'.left = proc.left
            /\ proc'.tx = Signed(Head(proc.left))
            /\ proc'.made = proc.made /\ proc'.problems = proc.problems
  BY PayableHolds, SignTypes
<1>2. UNCHANGED chainVars
  BY DEF Sign
<1>3. CASE \E r \in {"relayed", "refused"} : Halted(r)
  <2>1. PICK r \in {"relayed", "refused"} : Halted(r)
    BY <1>3
  <2>2. /\ ChainTypes' /\ UNCHANGED <<events, recorded, deals, mined, base, pool>>
        /\ pool' \subseteq pool \cup {proc.tx}
    BY <1>2, QuietChain
  <2>3. Named' /\ Done' /\ Facts' /\ Once'
    BY <2>1, <2>2, QuietBase DEF Halted
  <2>4. r \in Results \ {"reported"}
    BY DEF Results
  <2>5. PlanInv'
    BY <2>1, <2>4, HaltPlan
  <2> QED BY <1>1, <2>2, <2>3, <2>5
<1>4. CASE /\ Same /\ proc'.at = "sending" /\ proc'.left = proc.left
           /\ proc'.tx = Signed(Head(proc.left))
           /\ proc'.made = proc.made /\ proc'.problems = proc.problems
  <2>1. PICK a \in Signable : a = Head(proc.left)
    BY <1>1
  <2>2. PICK x : x = Signed(a)
    OBVIOUS
  <2>3. proc'.tx = x
    BY <1>4, <2>1, <2>2
  <2> QED BY <1>1, <1>2, <1>4, <2>1, <2>2, <2>3, SendLive
<1> QED BY <1>1, <1>3, <1>4

\* A step of the middle of the plan was sent, and has succeeded.
LEMMA SentPasses ==
  ASSUME LiveInv, ProcTypes', UNCHANGED chainVars, proc.at = "sending",
         mined[From(proc.tx.act)].last = proc.tx, mined[From(proc.tx.act)].ok,
         NEW k \in 3..15, proc.left = Plan(k), proc.tx.act = Scenario[k],
         Same, Stepping, proc'.left = Tail(proc.left),
         proc'.made = IF proc.tx.act \in Payments THEN proc.made \cup {proc.tx} ELSE proc.made,
         proc'.problems = proc.problems
  PROVE  LiveInv'
<1> USE DEF LiveInv, BaseInv
<1>1. /\ ChainTypes' /\ UNCHANGED <<events, recorded, deals, mined, base, pool>>
      /\ pool' \subseteq pool \cup {proc.tx}
  BY QuietChain
<1>2. Kept /\ Named' /\ Done' /\ Facts' /\ Once'
  BY <1>1, QuietBase DEF Stepping
<1>3. Standing(k) /\ k \in 1..16
  <2>1. k \in 3..16 /\ k \in 1..16
    OBVIOUS
  <2> QED BY <2>1 DEF PlanInv, OnPlan
<1>4. PICK x : x = proc.tx
  OBVIOUS
<1>5. PICK d : d = proc.deal
  OBVIOUS
<1>6. /\ x.deal = d /\ d \in DOMAIN deals
      /\ x.act \in Applications => x.proves.act = Proven(x.act) /\ x.proves.deal = d
      /\ \A e \in proc.made : e \in events /\ e.deal = d
  BY <1>3, <1>4, <1>5 DEF Standing
<1>7. /\ x.act \in Payments => x \in events
      /\ x.act \in Applications => x.proves \in recorded
  BY <1>4, Senders DEF Done
<1>8. \A e \in proc'.made : e \in events /\ e.deal = d
  BY <1>4, <1>6, <1>7
<1>9. x.act \in Payments => x \in proc'.made
  BY <1>4
<1>10. /\ k = 4 => x.act = "fund"
       /\ k = 6 => x.act = "impostor"
       /\ k = 12 => x.act = "repay"
       /\ k = 8 => x.act = "applyFund"
       /\ k = 10 => x.act = "applyImpostor"
       /\ k = 14 => x.act = "applyRepay"
       /\ k = 15 => x.act = "checkClosed"
  BY <1>4, ScenarioSteps
<1>11. /\ k = 4 => \E e \in proc'.made : e.act = "fund"
       /\ k = 6 => \E e \in proc'.made : e.act = "impostor"
       /\ k = 12 => \E e \in proc'.made : e.act = "repay"
  BY <1>9, <1>10 DEF Payments
<1>12. k = 8 => deals[d].status # "CREATED"
  <2> SUFFICES ASSUME k = 8 PROVE deals[d].status # "CREATED"
    OBVIOUS
  <2>1. x.act = "applyFund"
    BY <1>10
  <2>2. x.proves \in recorded /\ x.proves.act = "fund" /\ x.proves.deal = d
    BY <1>6, <1>7, <2>1 DEF Applications, Proven
  <2> QED BY <1>6, <2>2 DEF Facts
<1>13. k = 10 => \E e \in recorded : e.act = "impostor" /\ e.deal = d
  <2> SUFFICES ASSUME k = 10 PROVE \E e \in recorded : e.act = "impostor" /\ e.deal = d
    OBVIOUS
  <2>1. x.act = "applyImpostor"
    BY <1>10
  <2>2. x.proves \in recorded /\ x.proves.act = "impostor" /\ x.proves.deal = d
    BY <1>6, <1>7, <2>1 DEF Applications, Proven
  <2> QED BY <2>2
<1>14. k = 14 => deals[d].status \in Closed
  <2> SUFFICES ASSUME k = 14 PROVE deals[d].status \in Closed
    OBVIOUS
  <2>1. x.act = "applyRepay"
    BY <1>10
  <2>2. x.proves \in recorded /\ x.proves.act = "repay" /\ x.proves.deal = d
    BY <1>6, <1>7, <2>1 DEF Applications, Proven
  <2> QED BY <1>6, <2>2 DEF Facts
<1>15. k # 15
  <2>1. proc.tx \in Transactions /\ proc.tx # NoTx
    BY DEF ProcTypes, Commands
  <2>2. x.act # "checkClosed"
    BY <1>4, <2>1, TransactionParts DEF Payments, Approvals, Applications, Creations
  <2> QED BY <1>10, <2>2
<1>16. /\ proc'.deal = proc.deal /\ proc'.resumes = proc.resumes /\ proc'.result = "none"
       /\ proc.made \subseteq proc'.made /\ (proc.problems => proc'.problems)
  BY DEF Same, ProcTypes
<1>17. PlanInv'
  BY <1>1, <1>2, <1>3, <1>5, <1>8, <1>11, <1>12, <1>13, <1>14, <1>15, <1>16, Advance
<1> QED BY <1>1, <1>2, <1>17

\* The first transaction of a run created its deal.
LEMMA CreatedLive ==
  ASSUME LiveInv, ProcTypes', UNCHANGED chainVars, proc.at = "sending", proc.tx.act = "create",
         Stepping, proc'.deal \in DOMAIN deals, deals[proc'.deal].by = proc.tx,
         proc'.resumes = proc.resumes, proc'.result = proc.result,
         proc'.left = Tail(proc.left), proc'.made = proc.made
  PROVE  LiveInv'
<1> USE DEF LiveInv, BaseInv
<1>1. /\ ChainTypes' /\ UNCHANGED <<events, recorded, deals, mined, base, pool>>
      /\ pool' \subseteq pool \cup {proc.tx}
  BY QuietChain
<1>2. Kept /\ Named' /\ Done' /\ Facts' /\ Once'
  BY <1>1, QuietBase DEF Stepping
<1>3. proc.left = Plan(2)
  <2>1. Head(proc.left) = "create"
    BY DEF ProcTypes
  <2>2. PICK k \in 1..16 : proc.left = Plan(k) /\ Head(proc.left) = Scenario[k]
    BY <2>1, AtStep
  <2>3. k = 2
    BY <2>1, <2>2, StepNumbers
  <2> QED BY <2>2, <2>3
<1>4. proc'.left = Plan(3)
  <2>1. 2 \in 1..16 /\ 2 # 16 /\ 2 + 1 = 3
    OBVIOUS
  <2> QED BY <1>3, <2>1, PlanParts
<1>5. PICK d : d = proc'.deal
  OBVIOUS
<1>6. d \in DOMAIN deals /\ d > base /\ \A act \in OnceActs : Untried(act, d)
  BY <1>5 DEF PlanInv, Creating
<1>7. \A act \in OnceActs : Untried(act, d)'
  BY <1>2, <1>6, KeptUntried, OnceActsAre
<1>8. proc'.made = {} /\ proc'.result = "none"
  BY <1>3 DEF PlanInv, NothingMade, ProcTypes
<1>9. Standing(3)'
  BY <1>1, <1>5, <1>6, <1>7, <1>8 DEF Standing, Stepping
<1>10. PlanInv'
  <2>1. 3 \in 3..16
    OBVIOUS
  <2> QED BY <1>4, <1>8, <1>9, <2>1, JumpPlan
<1> QED BY <1>1, <1>2, <1>10

\* The last transaction of a run reserved its deal, and the command reports.
LEMMA ReportLive ==
  ASSUME LiveInv, ProcTypes', UNCHANGED chainVars, proc.at = "sending",
         mined[From(proc.tx.act)].last = proc.tx, mined[From(proc.tx.act)].ok,
         proc.tx.act = "createReserved",
         Halted(IF proc.problems THEN "mismatch" ELSE "reported")
  PROVE  LiveInv'
<1> USE DEF LiveInv, BaseInv
<1>1. /\ ChainTypes' /\ UNCHANGED <<events, recorded, deals, mined, base, pool>>
      /\ pool' \subseteq pool \cup {proc.tx}
  BY QuietChain
<1>2. Kept /\ Named' /\ Done' /\ Facts' /\ Once'
  BY <1>1, QuietBase DEF Halted
<1>3. CASE proc.problems
  <2>1. "mismatch" \in Results \ {"reported"} /\ Halted("mismatch")
    BY <1>3 DEF Results
  <2> QED BY <1>1, <1>2, <2>1, HaltPlan
<1>4. CASE ~proc.problems
  <2>1. Halted("reported")
    BY <1>4
  <2>2. proc.left = Plan(16)
    <3>1. Head(proc.left) = "createReserved"
      BY DEF ProcTypes
    <3>2. PICK k \in 1..16 : proc.left = Plan(k) /\ Head(proc.left) = Scenario[k]
      BY <3>1, AtStep
    <3>3. k = 16
      BY <3>1, <3>2, StepNumbers
    <3> QED BY <3>2, <3>3
  <2>3. Standing(16)
    <3>1. 16 \in 3..16
      OBVIOUS
    <3> QED BY <2>2, <3>1 DEF PlanInv, OnPlan
  <2>4. PICK d : d = proc.deal
    OBVIOUS
  <2>5. /\ d \in DOMAIN deals /\ d > base /\ proc.tx.deal = d
        /\ ~proc.resumes => \E e \in recorded : e.act = "impostor" /\ e.deal = d
        /\ deals[d].status = "PAID_ON_TIME"
    BY <1>4, <2>3, <2>4 DEF Standing
  <2>6. \E k \in DOMAIN deals : deals[k].by = proc.tx
    BY Senders DEF Done, Creations
  <2>7. Reported'
    BY <1>1, <2>1, <2>5, <2>6 DEF Reported, Halted
  <2>8. /\ \A k \in 1..16 : proc'.left # Plan(k)
        /\ proc'.left \notin {Inspect, ToppingUp(Scenario), ToppingUp(Inspect)}
        /\ 1 \in 1..16 /\ 2 \in 1..16
    <3>1. \A k \in 1..16 : proc'.left # Plan(k)
      BY <2>1, PlanIsOne DEF Halted
    <3>2. proc'.left \notin {Inspect, ToppingUp(Scenario), ToppingUp(Inspect)}
      BY <2>1, PlanNames DEF Halted
    <3> QED BY <3>1, <3>2
  <2>9. OnPlan'
    BY <2>8 DEF OnPlan
  <2>10. NothingMade' /\ Inspecting'
    <3>1. proc'.left # Plan(1) /\ proc'.left # Plan(2)
      BY Zenon, <2>8
    <3> QED BY <2>8, <3>1 DEF NothingMade, Inspecting
  <2>11. Creating'
    BY <2>1 DEF Creating, Halted
  <2> QED BY <1>1, <1>2, <2>7, <2>9, <2>10, <2>11 DEF PlanInv
<1> QED BY <1>3, <1>4

\* The CTC that B lacked has arrived.
LEMMA ToppedUpLive ==
  ASSUME LiveInv, ProcTypes', UNCHANGED chainVars, proc.at = "sending",
         proc.left \in {ToppingUp(Scenario), ToppingUp(Inspect)},
         Same, Stepping, proc'.left = Tail(proc.left), proc'.made = proc.made
  PROVE  LiveInv'
<1> USE DEF LiveInv, BaseInv
<1>1. /\ ChainTypes' /\ UNCHANGED <<events, recorded, deals, mined, base, pool>>
      /\ pool' \subseteq pool \cup {proc.tx}
  BY QuietChain
<1>2. Kept /\ Named' /\ Done' /\ Facts' /\ Once'
  BY <1>1, QuietBase DEF Stepping
<1>3. proc'.made = {} /\ proc'.result = "none"
  BY DEF PlanInv, NothingMade, Same, ProcTypes
<1>4. CASE proc.left = ToppingUp(Scenario)
  <2>1. proc'.left = Plan(1)
    BY <1>4, PlanNames
  <2>2. PlanInv'
    BY <1>3, <2>1, BeginPlan
  <2> QED BY <1>1, <1>2, <2>2
<1>5. CASE proc.left = ToppingUp(Inspect)
  <2>1. proc'.left = Inspect
    BY <1>5, PlanNames
  <2>2. PICK d : d = proc.deal
    OBVIOUS
  <2>3. /\ d \in DOMAIN deals /\ proc.resumes
        /\ Inspects => /\ Untried("createReserved", d)
                       /\ deals[d].status \notin Past => Untried("repay", d)
    BY <1>5, <2>2 DEF PlanInv, Inspecting
  <2>4. /\ Untried("createReserved", d) => Untried("createReserved", d)'
        /\ Untried("repay", d) => Untried("repay", d)'
    BY <1>2, KeptUntried
  <2>5. Inspecting'
    BY <1>1, <2>2, <2>3, <2>4 DEF Inspecting, Same
  <2>6. PlanInv'
    BY <1>3, <2>1, <2>5, InspectPlan
  <2> QED BY <1>1, <1>2, <2>6
<1> QED BY <1>4, <1>5

LEMMA ReceiptLive == ASSUME LiveInv, Receipt PROVE LiveInv'
<1> USE DEF LiveInv, BaseInv
<1>1. Receipts
  BY Senders DEF Receipts, Done
<1> DEFINE a == proc.tx.act
           ok == mined[From(a)].ok
<1>2. /\ ProcTypes' /\ proc.at = "sending" /\ mined[From(a)].last = proc.tx
      /\ \/ Halted("reverted")
         \/ /\ ok
            /\ \/ /\ Same /\ Stepping /\ a \in Payments
                  /\ proc'.left = Tail(proc.left) /\ proc'.made = proc.made \cup {proc.tx}
                  /\ proc'.problems = proc.problems
               \/ /\ Stepping /\ a = "create"
                  /\ proc'.deal \in DOMAIN deals /\ deals[proc'.deal].by = proc.tx
                  /\ proc'.resumes = proc.resumes /\ proc'.result = proc.result
                  /\ proc'.left = Tail(proc.left) /\ proc'.made = proc.made
               \/ /\ Same /\ Stepping /\ proc'.left = Plan(1) /\ proc'.made = {}
               \/ /\ a = "createReserved"
                  /\ Halted(IF proc.problems THEN "mismatch" ELSE "reported")
               \/ /\ Same /\ Stepping /\ a \notin Payments \cup Creations
                  /\ proc'.left = Tail(proc.left) /\ proc'.made = proc.made
                  /\ proc'.problems = proc.problems
  BY <1>1, ReceiptTypes
<1>3. UNCHANGED chainVars
  BY DEF Receipt
<1>4. /\ ChainTypes' /\ UNCHANGED <<events, recorded, deals, mined, base, pool>>
      /\ pool' \subseteq pool \cup {proc.tx}
  BY <1>3, QuietChain
<1>5. a = Head(proc.left) /\ proc.tx \in Transactions
  BY <1>2 DEF ProcTypes, Commands
<1>6. a \notin {"begin", "wait", "checkFinanced", "checkClosed", "inspect"}
  BY <1>5, TransactionParts DEF Payments, Approvals, Applications, Creations
<1>7. CASE Halted("reverted")
  <2>1. Named' /\ Done' /\ Facts' /\ Once'
    BY <1>4, <1>7, QuietBase DEF Halted
  <2>2. "reverted" \in Results \ {"reported"}
    BY DEF Results
  <2>3. PlanInv'
    BY <1>7, <2>2, HaltPlan
  <2> QED BY <1>2, <1>4, <2>1, <2>3
<1>8. CASE ok /\ Same /\ Stepping /\ a \in Payments
           /\ proc'.left = Tail(proc.left) /\ proc'.made = proc.made \cup {proc.tx}
           /\ proc'.problems = proc.problems
  <2>1. PICK k \in 1..16 : proc.left = Plan(k) /\ Head(proc.left) = Scenario[k]
    BY <1>2, <1>5, <1>8, AtStep DEF Payments
  <2>2. k \in {4, 6, 12} /\ k \in 3..15
    BY <1>5, <1>8, <2>1, StepNumbers
  <2> QED BY <1>2, <1>3, <1>5, <1>8, <2>1, <2>2, SentPasses
<1>9. CASE /\ Stepping /\ a = "create"
           /\ proc'.deal \in DOMAIN deals /\ deals[proc'.deal].by = proc.tx
           /\ proc'.resumes = proc.resumes /\ proc'.result = proc.result
           /\ proc'.left = Tail(proc.left) /\ proc'.made = proc.made
  BY <1>2, <1>3, <1>9, CreatedLive
<1>10. CASE Same /\ Stepping /\ proc'.left = Plan(1) /\ proc'.made = {}
  <2>1. Named' /\ Done' /\ Facts' /\ Once'
    BY <1>4, <1>10, QuietBase DEF Stepping
  <2>2. proc'.result = "none"
    BY <1>2, <1>10 DEF Same, ProcTypes
  <2>3. PlanInv'
    BY <1>10, <2>2, BeginPlan
  <2> QED BY <1>2, <1>4, <2>1, <2>3
<1>11. CASE ok /\ a = "createReserved" /\ Halted(IF proc.problems THEN "mismatch" ELSE "reported")
  BY <1>2, <1>3, <1>11, ReportLive
<1>12. CASE ok /\ Same /\ Stepping /\ a \notin Payments \cup Creations
            /\ proc'.left = Tail(proc.left) /\ proc'.made = proc.made
            /\ proc'.problems = proc.problems
  <2>1. CASE proc.left \in {ToppingUp(Scenario), ToppingUp(Inspect)}
    BY <1>2, <1>3, <1>12, <2>1, ToppedUpLive
  <2>2. CASE \E k \in 1..16 : proc.left = Plan(k) /\ Head(proc.left) = Scenario[k]
    <3>1. PICK k \in 1..16 : proc.left = Plan(k) /\ Head(proc.left) = Scenario[k]
      BY <2>2
    <3>2. k # 1 /\ k # 2 /\ k # 16
      BY <1>5, <1>6, <1>12, <3>1, ScenarioSteps DEF Creations
    <3>3. k \in 3..15
      BY <3>2
    <3> QED BY <1>2, <1>3, <1>5, <1>12, <3>1, <3>3, SentPasses
  <2> QED BY <1>2, <1>5, <1>6, <2>1, <2>2, AtStep
<1> QED BY <1>2, <1>7, <1>8, <1>9, <1>10, <1>11, <1>12

LEMMA LiveStep == LiveInv /\ [Next]_vars => LiveInv'
<1> SUFFICES ASSUME LiveInv, [Next]_vars PROVE LiveInv'
  OBVIOUS
<1>1. CASE \E fresh \in BOOLEAN, r \in 1..MaxRuns : StartRuns(fresh, r)
  BY <1>1, StartRunsLive
<1>2. CASE \E d \in DOMAIN deals : Resume(d)
  BY <1>2, ResumeLive
<1>3. CASE Command
  BY <1>3, SkipLive, SignLive, BroadcastLive, ReceiptLive, GiveUpLive, WaitLive, LookLive
     DEF Command
<1>4. CASE Crash
  BY <1>4, GiveUpLive
<1>5. CASE ChainStep
  BY <1>5, ChainStepLive
<1>6. CASE UNCHANGED vars
  <2>1. ChainTypes' /\ ProcTypes'
    BY <1>6 DEF LiveInv, BaseInv, ChainTypes, ProcTypes, vars, chainVars
  <2>2. Named' /\ Done' /\ Facts' /\ Once'
    BY <1>6, QuietBase DEF LiveInv, vars, chainVars
  <2>3. \A k \in 3..16 : Standing(k) => Standing(k)'
    BY <1>6 DEF Standing, Untried, Sent, Created, vars, chainVars
  <2>4. PlanInv'
    <3>1. OnPlan'
      BY <1>6, <2>3 DEF LiveInv, PlanInv, OnPlan, vars
    <3>2. NothingMade' /\ Inspecting' /\ Creating' /\ Reported'
      BY <1>6 DEF LiveInv, PlanInv, NothingMade, Inspecting, Creating, Reported, Untried, Sent,
                  Created, vars, chainVars
    <3> QED BY <3>1, <3>2 DEF PlanInv
  <2> QED BY <2>1, <2>2, <2>4 DEF LiveInv, BaseInv
<1> QED BY <1>1, <1>2, <1>3, <1>4, <1>5, <1>6 DEF Next, ChainStep

THEOREM LiveInvariant == Spec => []LiveInv
<1>1. Init => LiveInv
  BY LiveInit
<1>2. LiveInv /\ [Next]_vars => LiveInv'
  BY LiveStep
<1> QED BY <1>1, <1>2, PTL DEF Spec

-----------------------------------------------------------------------------
(* What the invariant says of every execution. *)

LEMMA AtMostOne ==
  ASSUME NEW S, \A x, y \in S : x = y
  PROVE  Cardinality(S) <= 1 /\ (S # {} => Cardinality(S) = 1)
<1>1. CASE S = {}
  BY <1>1, FS_EmptySet
<1>2. CASE S # {}
  <2>1. PICK x : x \in S
    BY <1>2
  <2>2. S = {x}
    BY <2>1
  <2> QED BY <2>2, FS_Singleton
<1> QED BY <1>1, <1>2

LEMMA EventsOnce ==
  ASSUME Once, NEW d \in DOMAIN deals, NEW act \in OnceActs
  PROVE  Cardinality(EventOf(act, d)) <= 1
<1>1. EventOf(act, d) \subseteq Doing(act, d)
  BY DEF EventOf, Doing, Sent
<1>2. \A x, y \in EventOf(act, d) : x = y
  BY <1>1 DEF Once
<1> QED BY <1>2, AtMostOne

LEMMA ReservesOnce ==
  ASSUME Once, Inspects, NEW d \in DOMAIN deals
  PROVE  Cardinality(Reserves(d)) <= 1 /\ (Reserves(d) # {} => Cardinality(Reserves(d)) = 1)
<1>1. Reserves(d) \subseteq Doing("createReserved", d)
  BY DEF Reserves, Doing, Sent, Created
<1>2. \A x, y \in Reserves(d) : x = y
  <2>1. "createReserved" \in OnceActs
    BY DEF OnceActs
  <2>2. \A x, y \in Doing("createReserved", d) : x = y
    BY <2>1 DEF Once
  <2> QED BY <1>1, <2>2
<1> QED BY <1>2, AtMostOne

LEMMA TypesImplied == LiveInv => TypeOK
<1> SUFFICES ASSUME LiveInv PROVE TypeOK
  OBVIOUS
<1>1. ChainTypes /\ ProcTypes
  BY DEF LiveInv, BaseInv
<1>2. \A d \in DOMAIN deals :
        deals[d].status \in {"CREATED", "FINANCED", "DEFAULTED", "PAID_ON_TIME", "PAID_LATE"}
  BY <1>1, DealParts DEF LiveStatuses, Closed
<1>3. proc.at # "ended" => proc.left # <<>>
  BY <1>1, PlanCases DEF ProcTypes
<1> QED BY <1>1, <1>2, <1>3 DEF TypeOK, ChainTypes, ProcTypes

\* For any number of executions of the command, stopped anywhere by a crash, a
\* timeout or a lost answer, with every transaction free to be mined later or
\* never: deal-live.ts pays the funding of a deal once; and when the operator
\* resumes only a deal that did not get further, it repays it once and follows it
\* by one reserved deal.
THEOREM RepeatsNothing == Spec => []NothingRepeated
<1>1. LiveInv => NothingRepeated
  <2> SUFFICES ASSUME LiveInv PROVE NothingRepeated
    OBVIOUS
  <2>1. TypeOK
    BY TypesImplied
  <2>2. Once
    BY DEF LiveInv, BaseInv
  <2>3. ASSUME NEW d \in DOMAIN deals
        PROVE  /\ Cardinality(EventOf("fund", d)) <= 1
               /\ Inspects => /\ Cardinality(EventOf("repay", d)) <= 1
                              /\ Cardinality(Reserves(d)) <= 1
    <3>1. Cardinality(EventOf("fund", d)) <= 1
      BY <2>2, EventsOnce, OnceActsAre
    <3>2. Inspects => Cardinality(EventOf("repay", d)) <= 1
      <4>1. Inspects => "repay" \in OnceActs
        BY DEF OnceActs
      <4> QED BY <2>2, <4>1, EventsOnce
    <3>3. Inspects => Cardinality(Reserves(d)) <= 1
      BY <2>2, ReservesOnce
    <3> QED BY <3>1, <3>2, <3>3
  <2> QED BY <2>1, <2>3 DEF NothingRepeated
<1> QED BY <1>1, LiveInvariant, PTL

\* The report of a command can be believed: the deal it ends with is closed on
\* time on the recorded registry, with its funding, its repayment and (unless it
\* was resumed) its unauthorized funding recorded.
LEMMA ReportedDeal ==
  ASSUME LiveInv, proc.result = "reported"
  PROVE  \E d \in Recorded :
            /\ deals[d].status = "PAID_ON_TIME"
            /\ (IF proc.resumes THEN {"fund", "repay"} ELSE Payments)
                 \subseteq {e.act : e \in {x \in recorded : x.deal = d}}
            /\ Reserves(d) # {}
<1>1. PICK d \in DOMAIN deals :
            /\ d > base /\ deals[d].status = "PAID_ON_TIME"
            /\ ~proc.resumes => \E e \in recorded : e.act = "impostor" /\ e.deal = d
            /\ \E k \in DOMAIN deals : deals[k].by.act = "createReserved" /\ deals[k].by.deal = d
  BY DEF LiveInv, PlanInv, Reported
<1>2. d \in Recorded
  BY <1>1 DEF Recorded
<1>3. (\E e \in recorded : e.act = "fund" /\ e.deal = d)
        /\ (\E e \in recorded : e.act = "repay" /\ e.deal = d)
  BY <1>1 DEF LiveInv, BaseInv, Facts, Closed
<1>4. (IF proc.resumes THEN {"fund", "repay"} ELSE Payments)
        \subseteq {e.act : e \in {x \in recorded : x.deal = d}}
  BY <1>1, <1>3 DEF Payments
<1>5. Reserves(d) # {}
  BY <1>1 DEF Reserves
<1> QED BY <1>1, <1>2, <1>4, <1>5

\* Whatever was relayed, delayed or lost on the way, a command that reports
\* success has done what it reports, for an operator who resumes a deal only as
\* resumeFinancedScenario's comment takes for granted: exactly one reserved deal
\* follows the one it closed.
THEOREM ReportsTruth == ASSUME Inspects PROVE Spec => []ReportIsTrue
<1>1. ASSUME Inspects PROVE LiveInv => ReportIsTrue
  <2> SUFFICES ASSUME LiveInv, proc.result = "reported"
               PROVE \E d \in Recorded :
            /\ deals[d].status = "PAID_ON_TIME"
            /\ (IF proc.resumes THEN {"fund", "repay"} ELSE Payments)
                 \subseteq {e.act : e \in {x \in recorded : x.deal = d}}
            /\ Cardinality(Reserves(d)) = 1
    BY DEF ReportIsTrue
  <2>1. PICK d \in Recorded :
            /\ deals[d].status = "PAID_ON_TIME"
            /\ (IF proc.resumes THEN {"fund", "repay"} ELSE Payments)
                 \subseteq {e.act : e \in {x \in recorded : x.deal = d}}
            /\ Reserves(d) # {}
    BY ReportedDeal
  <2>2. Cardinality(Reserves(d)) = 1
    <3>1. Once /\ d \in DOMAIN deals
      BY DEF LiveInv, BaseInv, Recorded
    <3> QED BY <1>1, <2>1, <3>1, ReservesOnce
  <2> QED BY <2>1, <2>2
<1> QED BY <1>1, LiveInvariant, PTL

-----------------------------------------------------------------------------
(* What the preflight covers: the runs of a command that works alone. *)

\* The steps of a command that starts from the beginning: topping up is number 0.
Left(k) == IF k = 0 THEN ToppingUp(Scenario) ELSE Plan(k)
Act(k) == IF k = 0 THEN "topUp" ELSE Scenario[k]

LEMMA LeftParts ==
  ASSUME NEW k \in 0..16
  PROVE  /\ Left(k) \in Plans /\ Head(Left(k)) = Act(k)
         /\ k # 16 => Tail(Left(k)) = Left(k + 1)
<1>1. CASE k = 0
  <2>1. 1 \in 1..16
    OBVIOUS
  <2>2. Left(0) = ToppingUp(Scenario) /\ Left(1) = Scenario /\ Act(0) = "topUp"
    BY PlanNames DEF Left, Act
  <2> QED BY <1>1, <2>2, PlanNames DEF Plans
<1>2. CASE k # 0
  <2>1. k \in 1..16 /\ (k # 16 => k + 1 \in 1..16 /\ k + 1 # 0)
    BY <1>2
  <2>2. Left(k) = Plan(k) /\ Act(k) = Scenario[k] /\ (k # 16 => Left(k + 1) = Plan(k + 1))
    BY <1>2, <2>1 DEF Left, Act
  <2> QED BY <2>1, <2>2, PlanParts DEF Plans
<1> QED BY <1>1, <1>2

\* Nothing but the command's own transaction is on its way.
Alone == proc.at # "ended" /\ proc.clean /\ ~proc.resumes
Mined == proc.at = "sending" /\ mined[From(proc.tx.act)].last = proc.tx
InHand == IF proc.at = "sending" /\ ~Mined THEN {proc.tx} ELSE {}

\* The deals that take up the credit limit, and the run's own among them.
Open == WithStatus("CREATED") \cup WithStatus("FINANCED") \cup WithStatus("DEFAULTED")
Own(k) ==
    IF k \in 3..16
    THEN {d \in DOMAIN deals : IF proc.at = "sending" /\ proc.tx.act = "create"
                               THEN deals[d].by = proc.tx ELSE d = proc.deal}
    ELSE {}
Room(S, n) == Cardinality(S) + n <= proc.limit

Spare == FACE_VALUE - FUNDING
Saved(r) == Spare * (r - 1)

\* What the rest of the runs takes, before step k: B lends what A funded until it
\* repays, and keeps what each further run costs it.
Purse(k) ==
    /\ k \notin 5..12 => usdc["A"] >= FUNDING
    /\ usdc["B"] >= Saved(proc.runs) + (IF k < 5 THEN Spare ELSE IF k < 13 THEN FACE_VALUE ELSE 0)
    /\ k = 4 => allowance["A"] >= FUNDING
    /\ k = 6 => allowance["B"] >= IMPOSTOR_AMOUNT
    /\ k = 12 => allowance["B"] >= FACE_VALUE
Holds(k) ==
    /\ Purse(k)
    /\ Room(Open \ Own(k), IF k = 17 THEN proc.runs - 1 ELSE proc.runs)

At(k) ==
    /\ proc.left = Left(k) /\ pool \subseteq InHand
    /\ IF Mined THEN mined[From(proc.tx.act)].ok => Holds(k + 1) ELSE Holds(k)
Covered == Alone => \E k \in 0..16 : At(k)

\* An account's transactions are mined in their order, and a deal is created by one of its own.
Ordered ==
    /\ \A w \in Accounts : mined[w].last = NoTx \/ mined[w].last.nonce < mined[w].count
    /\ \A c, d \in DOMAIN deals : deals[c].by = deals[d].by => c = d
Priced == proc.at = "sending" => proc.tx.amount = Amount(proc.tx.act)

CoverInv == LiveInv /\ Ordered /\ Priced /\ Covered

LEMMA SavedParts ==
  /\ Spare \in Nat /\ Spare + FUNDING = FACE_VALUE
  /\ \A r \in Nat \ {0} : Saved(r) \in Nat
  /\ \A r \in Nat : r > 1 => Saved(r) = Saved(r - 1) + Spare
  /\ \A r \in Nat \ {0} : Spare * r = Saved(r) + Spare
<1>1. FUNDING \in Nat /\ FACE_VALUE \in Nat /\ FUNDING < FACE_VALUE
  BY LiveConstants
<1>2. Spare \in Nat /\ Spare + FUNDING = FACE_VALUE
  BY <1>1 DEF Spare
<1>3. ASSUME NEW r \in Nat \ {0} PROVE Saved(r) \in Nat /\ Spare * r = Saved(r) + Spare
  <2> DEFINE q == r - 1
  <2>1. q \in Nat /\ r = q + 1
    OBVIOUS
  <2>2. Saved(r) = Spare * q
    BY DEF Saved
  <2> HIDE DEF q
  <2>3. Spare * q \in Nat /\ Spare * (q + 1) = Spare * q + Spare
    BY <1>2, <2>1
  <2> QED BY <2>1, <2>2, <2>3
<1>4. ASSUME NEW r \in Nat, r > 1 PROVE Saved(r) = Saved(r - 1) + Spare
  <2> DEFINE q == r - 1
  <2>1. q \in Nat \ {0}
    BY <1>4
  <2>2. Saved(r) = Spare * q
    BY DEF Saved
  <2> HIDE DEF q
  <2>3. Spare * q = Saved(q) + Spare
    BY <1>3, <2>1
  <2> QED BY <2>2, <2>3 DEF q
<1> QED BY <1>2, <1>3, <1>4

LEMMA OpenFinite ==
  ASSUME ChainTypes
  PROVE  /\ IsFiniteSet(Open) /\ Cardinality(Open) \in Nat
         /\ CreditLimit \in Int /\ Available = CreditLimit - Cardinality(Open)
<1>1. /\ IsFiniteSet(WithStatus("CREATED")) /\ IsFiniteSet(WithStatus("FINANCED"))
      /\ IsFiniteSet(WithStatus("DEFAULTED"))
  BY LimitTypes
<1>2. IsFiniteSet(Open)
  <2>1. IsFiniteSet(WithStatus("CREATED") \cup WithStatus("FINANCED"))
    BY <1>1, FS_Union
  <2> QED BY <1>1, <2>1, FS_Union DEF Open
<1>3. Cardinality(Open) \in Nat
  BY <1>2, FS_CardinalityType
<1> QED BY <1>2, <1>3, LimitTypes DEF Available, Open

\* Room that is left is not taken by fewer deals.
LEMMA RoomStays ==
  ASSUME proc.limit \in Int, NEW S, IsFiniteSet(S), NEW T, T \subseteq S, NEW n \in Int,
         Room(S, n)
  PROVE  Room(T, n) /\ IsFiniteSet(T)
<1>1. IsFiniteSet(T) /\ Cardinality(T) <= Cardinality(S)
  BY FS_Subset
<1>2. Cardinality(T) \in Nat /\ Cardinality(S) \in Nat
  BY <1>1, FS_CardinalityType
<1> QED BY <1>1, <1>2 DEF Room

\* One more deal takes one place.
LEMMA RoomTaken ==
  ASSUME proc.limit \in Int, NEW S, IsFiniteSet(S), NEW T, NEW d, T \subseteq S \cup {d},
         NEW n \in Int, Room(S, n)
  PROVE  Room(T, n - 1)
<1> DEFINE U == S \cup {d}
<1>1. IsFiniteSet(U) /\ Cardinality(U) <= Cardinality(S) + 1
  <2>1. IsFiniteSet(U) /\ Cardinality(U) = IF d \in S THEN Cardinality(S) ELSE Cardinality(S) + 1
    BY FS_AddElement
  <2>2. Cardinality(S) \in Nat
    BY FS_CardinalityType
  <2> QED BY <2>1, <2>2
<1>2. Cardinality(U) \in Nat /\ Cardinality(S) \in Nat
  BY <1>1, FS_CardinalityType
<1> DEFINE m == n - 1
<1>3. Room(U, m) /\ m \in Int
  BY <1>1, <1>2 DEF Room
<1> HIDE DEF U, m
<1>4. T \subseteq U
  BY DEF U
<1>5. Room(T, m)
  BY <1>1, <1>3, <1>4, RoomStays
<1> QED BY <1>5 DEF m

\* A deal that is open was open, or is new.
LEMMA OpenGoesOn ==
  ASSUME ChainTypes, DealsGrow, base' = base
  PROVE  Open' \subseteq Open \cup (DOMAIN deals' \ DOMAIN deals)
<1> SUFFICES ASSUME NEW d \in Open', d \in DOMAIN deals PROVE d \in Open
  BY DEF Open, WithStatus, Recorded
<1>1. d > base /\ deals'[d].status \in {"CREATED", "FINANCED", "DEFAULTED"}
  BY DEF Open, WithStatus, Recorded
<1>2. Later(deals[d].status, deals'[d].status)
  BY DEF DealsGrow
<1>3. deals[d].status \in {"CREATED", "FINANCED", "DEFAULTED"}
  BY <1>1, <1>2 DEF Later, Closed
<1> QED BY <1>1, <1>3 DEF Open, WithStatus, Recorded

LEMMA RunsParts ==
  ASSUME ProcTypes, proc.at # "ended"
  PROVE  /\ proc.runs \in Nat \ {0} /\ proc.result = "none" /\ Saved(proc.runs) \in Nat
         /\ proc.limit \in Int
<1>1. proc.runs \in Nat \ {0} /\ proc.result = "none" /\ proc.limit \in Int
  BY DEF ProcTypes, Commands
<1> QED BY <1>1, SavedParts

\* What holds is not undone by what others do to the deals.
LEMMA HoldsStays ==
  ASSUME ChainTypes, ProcTypes, proc.at # "ended", NEW k \in 0..17, Holds(k),
         UNCHANGED <<usdc, allowance, base, proc>>,
         DealsGrow, DOMAIN deals' = DOMAIN deals
  PROVE  Holds(k)'
<1>1. Open' \subseteq Open
  BY OpenGoesOn
<1>2. Own(k)' = Own(k)
  BY DEF Own, DealsGrow
<1> DEFINE S == Open \ Own(k)
           T == (Open \ Own(k))'
           n == IF k = 17 THEN proc.runs - 1 ELSE proc.runs
<1>3. IsFiniteSet(S) /\ T \subseteq S
  <2>1. IsFiniteSet(Open)
    BY OpenFinite
  <2>2. IsFiniteSet(S)
    BY <2>1, FS_Subset
  <2> QED BY <1>1, <1>2, <2>2
<1>4. n \in Int /\ proc.limit \in Int /\ Room(S, n)
  BY RunsParts DEF Holds
<1>5. Room(T, n)
  <2> HIDE DEF S, T, n
  <2> QED BY <1>3, <1>4, RoomStays
<1>6. Purse(k)'
  BY DEF Holds, Purse
<1> QED BY <1>5, <1>6 DEF Holds, Room

\* The steps that send, by number; each kind takes its amount from one purse.
LEMMA ActNumbers ==
  ASSUME NEW k \in 0..16
  PROVE  /\ Act(k) \in Signable <=> k \notin {1, 7, 9, 13, 15}
         /\ Act(k) \in Payments <=> k \in {4, 6, 12}
         /\ Act(k) \in Approvals <=> k \in {3, 5, 11}
         /\ Act(k) \in Applications <=> k \in {8, 10, 14}
         /\ Act(k) = "create" <=> k = 2
         /\ Act(k) = "createReserved" <=> k = 16
         /\ Act(k) = "topUp" <=> k = 0
         /\ Act(k) = "wait" <=> k \in {7, 13}
         /\ Act(k) \in {"begin", "checkFinanced", "checkClosed"} <=> k \in {1, 9, 15}
         /\ Act(k) # "inspect"
<1>1. \/ k = 0 \/ k = 1 \/ k = 2 \/ k = 3 \/ k = 4 \/ k = 5 \/ k = 6 \/ k = 7 \/ k = 8
      \/ k = 9 \/ k = 10 \/ k = 11 \/ k = 12 \/ k = 13 \/ k = 14 \/ k = 15 \/ k = 16
  OBVIOUS
<1> QED BY <1>1, ScenarioSteps DEF Act, Signable, Approvals, Payments, Applications, Creations

LEMMA ActParts ==
  /\ From(Act(3)) = "A" /\ Amount(Act(3)) = FUNDING
  /\ From(Act(4)) = "A" /\ Amount(Act(4)) = FUNDING /\ Act(4) = "fund"
  /\ From(Act(5)) = "B" /\ Amount(Act(5)) = IMPOSTOR_AMOUNT
  /\ From(Act(6)) = "B" /\ Amount(Act(6)) = IMPOSTOR_AMOUNT /\ Act(6) = "impostor"
  /\ From(Act(11)) = "B" /\ Amount(Act(11)) = FACE_VALUE
  /\ From(Act(12)) = "B" /\ Amount(Act(12)) = FACE_VALUE /\ Act(12) = "repay"
BY ScenarioSteps DEF Act, From, Amount

\* Where the money is once a transaction was mined.
LEMMA MinedMoney ==
  ASSUME ChainTypes, NEW x \in pool, WouldSucceed(x), Include(x)
  PROVE  /\ x.act = "fund" => /\ usdc'["A"] = usdc["A"] - x.amount
                              /\ usdc'["B"] = usdc["B"] + x.amount
         /\ x.act = "impostor" => usdc' = usdc
         /\ x.act = "repay" => /\ usdc'["A"] = usdc["A"] + x.amount
                               /\ usdc'["B"] = usdc["B"] - x.amount
         /\ x.act \notin Payments => usdc' = usdc
         /\ x.act \in Approvals => allowance'[From(x.act)] = x.amount
         /\ x.act \notin Payments \cup Approvals => allowance' = allowance
<1>1. x.amount \in Nat
  BY TransactionParts DEF ChainTypes
<1> DEFINE a == x.amount
           w == From(x.act)
           to == IF x.act = "repay" THEN "A" ELSE "B"
           paid == [usdc EXCEPT ![w] = @ - a]
           q == [paid EXCEPT ![to] = @ + a]
<1>2. /\ x.act \in Payments => usdc' = q
      /\ x.act \notin Payments => usdc' = usdc
      /\ x.act \in Approvals => allowance' = [allowance EXCEPT ![w] = a]
      /\ x.act \notin Payments \cup Approvals => allowance' = allowance
  <2>1. ~(x.act \in Payments /\ x.act \in Approvals)
    BY DEF Payments, Approvals
  <2> QED BY <2>1 DEF Include, Moved, Payer
<1>3. usdc \in [{"A", "B"} -> Nat] /\ allowance \in [{"A", "B"} -> Nat] /\ a \in Nat
  BY <1>1 DEF ChainTypes
<1>4. x.act \in Approvals => allowance'[w] = a
  <2>1. x.act \in Approvals => w \in {"A", "B"}
    BY Senders
  <2> HIDE DEF a, w
  <2> QED BY <1>2, <1>3, <2>1
<1>5. CASE x.act = "fund"
  <2>1. w = "A" /\ to = "B"
    BY <1>5, Senders
  <2> HIDE DEF a, w, to
  <2>2. q["A"] = usdc["A"] - a /\ q["B"] = usdc["B"] + a
    BY <1>3, <2>1
  <2> QED BY <1>2, <1>4, <1>5, <2>2 DEF Payments, Approvals, a
<1>6. CASE x.act = "impostor"
  <2>1. w = "B" /\ to = "B"
    BY <1>6, Senders
  <2> HIDE DEF a, w, to
  <2>2. q = usdc
    <3>1. q \in [{"A", "B"} -> Int] /\ usdc \in [{"A", "B"} -> Int]
      BY <1>3, <2>1
    <3>2. q["A"] = usdc["A"] /\ q["B"] = usdc["B"]
      BY <1>3, <2>1
    <3> QED BY <3>1, <3>2
  <2> QED BY <1>2, <1>4, <1>6, <2>2 DEF Payments, Approvals, a
<1>7. CASE x.act = "repay"
  <2>1. w = "B" /\ to = "A"
    BY <1>7, Senders
  <2> HIDE DEF a, w, to
  <2>2. q["A"] = usdc["A"] + a /\ q["B"] = usdc["B"] - a
    BY <1>3, <2>1
  <2> QED BY <1>2, <1>4, <1>7, <2>2 DEF Payments, Approvals, a
<1>8. CASE x.act \notin Payments
  BY <1>2, <1>4, <1>8 DEF Payments
<1> QED BY <1>5, <1>6, <1>7, <1>8 DEF Payments

\* What step k has brought about is what the next one needs.
LEMMA MinedPurse ==
  ASSUME ChainTypes, ProcTypes, proc.at = "sending", NEW k \in 0..16, Holds(k),
         NEW x \in pool, WouldSucceed(x), Include(x),
         x.act = Act(k), Act(k) \in Signable, x.amount = Amount(Act(k))
  PROVE  Purse(k + 1)'
<1>1. /\ FUNDING \in Nat /\ FACE_VALUE \in Nat /\ IMPOSTOR_AMOUNT \in Nat
      /\ Spare \in Nat /\ Spare + FUNDING = FACE_VALUE
  BY LiveConstants, SavedParts
<1>2. proc' = proc
  BY DEF Include
<1>3. Saved(proc.runs) \in Nat
  BY RunsParts
<1>4. /\ usdc["A"] \in Nat /\ usdc["B"] \in Nat
  BY DEF ChainTypes
<1>5. k \in {0, 2, 3, 4, 5, 6, 8, 10, 11, 12, 14, 16}
  BY ActNumbers
<1>7. CASE k = 4
  <2>1. usdc'["A"] = usdc["A"] - FUNDING /\ usdc'["B"] = usdc["B"] + FUNDING
    BY <1>7, ActParts, MinedMoney
  <2> QED BY <1>1, <1>2, <1>3, <1>4, <1>7, <2>1 DEF Holds, Purse
<1>8. CASE k = 12
  <2>1. usdc'["A"] = usdc["A"] + FACE_VALUE /\ usdc'["B"] = usdc["B"] - FACE_VALUE
    BY <1>8, ActParts, MinedMoney
  <2>2. FACE_VALUE >= FUNDING
    BY <1>1
  <2>3. usdc["A"] + FACE_VALUE >= FUNDING
    BY <1>1, <1>4, <2>2
  <2> QED BY <1>1, <1>2, <1>3, <1>4, <1>8, <2>1, <2>3 DEF Holds, Purse
<1>9. CASE k = 6
  <2>1. usdc' = usdc
    BY <1>9, ActParts, MinedMoney
  <2> QED BY <1>2, <1>9, <2>1 DEF Holds, Purse
<1>10. CASE k \in {3, 5, 11}
  <2>1. usdc' = usdc /\ allowance'[From(Act(k))] = Amount(Act(k))
    BY <1>10, ActNumbers, MinedMoney DEF Payments, Approvals
  <2>2. /\ k = 3 => allowance'["A"] >= FUNDING
        /\ k = 5 => allowance'["B"] >= IMPOSTOR_AMOUNT
        /\ k = 11 => allowance'["B"] >= FACE_VALUE
    BY <1>1, <2>1, ActParts
  <2> QED BY <1>2, <1>10, <2>1, <2>2 DEF Holds, Purse
<1>11. CASE k \in {0, 2, 8, 10, 14, 16}
  <2>1. usdc' = usdc
    BY <1>11, ActNumbers, MinedMoney
  <2> QED BY <1>2, <1>11, <2>1 DEF Holds, Purse
<1> QED BY <1>5, <1>7, <1>8, <1>9, <1>10, <1>11

\* The deals that are open once step k is mined leave as much room as before; a
\* reserved deal takes the place that its run had kept for it.
LEMMA MinedRoom ==
  ASSUME ChainTypes, ProcTypes, Named, proc.at = "sending", NEW k \in 0..16, Holds(k),
         NEW x \in pool, x = proc.tx, WouldSucceed(x), Include(x),
         x.act = Act(k), Act(k) \in Signable,
         k = 16 => deals[proc.deal].status \in Closed
  PROVE  Room((Open \ Own(k + 1))', IF k + 1 = 17 THEN proc.runs - 1 ELSE proc.runs)
<1> DEFINE S == Open \ Own(k)
           T == (Open \ Own(k + 1))'
           r == proc.runs
<1>1. proc' = proc /\ base' = base /\ DealsGrow
  BY MineDeals DEF Include
<1>2. \A d \in DOMAIN deals' : d \in DOMAIN deals
                               \/ (x.act \in Creations /\ deals'[d].by = x /\ d = Len(deals) + 1)
  BY MineDeals DEF DealsGrow
<1>3. Open' \subseteq Open \cup (DOMAIN deals' \ DOMAIN deals)
  BY <1>1, OpenGoesOn
<1>4. IsFiniteSet(S)
  <2>1. IsFiniteSet(Open)
    BY OpenFinite
  <2> QED BY <2>1, FS_Subset
<1>5. r \in Int /\ proc.limit \in Int
  BY RunsParts
<1>6. CASE k = 16
  <2> DEFINE e == Len(deals) + 1
             n == r - 1
  <2>1. Own(k + 1)' = {}
    BY <1>6 DEF Own
  <2>2. Open \subseteq S
    <3>1. \A d \in Own(k) : d = proc.deal
      <4>1. Act(k) # "create"
        BY <1>6, ActNumbers
      <4> QED BY <1>6, <4>1 DEF Own
    <3>2. proc.deal \notin Open
      BY <1>6 DEF Open, WithStatus, Closed
    <3> QED BY <3>1, <3>2
  <2>3. T \subseteq S \cup {e}
    BY <1>2, <1>3, <2>1, <2>2
  <2>4. Room(S, r)
    BY <1>6 DEF Holds
  <2>5. Room(T, n)
    <3> HIDE DEF S, T, e, r
    <3> QED BY <1>4, <1>5, <2>3, <2>4, RoomTaken
  <2> QED BY <1>6, <2>5
<1>7. CASE k # 16
  <2>1. T \subseteq S
    <3>1. CASE k = 2
      <4>1. Own(k) = {} /\ Act(k) = "create"
        BY <1>7, <3>1, ActNumbers DEF Own
      <4>2. \A d \in DOMAIN deals' : deals'[d].by = x => d \in Own(k + 1)'
        BY <1>1, <3>1, <4>1 DEF Own
      <4> QED BY <1>2, <1>3, <4>1, <4>2
    <3>2. CASE k # 2
      <4>1. x.act \notin Creations
        BY <1>7, <3>2, ActNumbers DEF Creations
      <4>2. Open' \subseteq Open /\ DOMAIN deals' = DOMAIN deals
        BY <1>1, <1>2, <1>3, <4>1 DEF DealsGrow
      <4>3. Own(k) \subseteq Own(k + 1)'
        BY <1>1, <1>7, <4>1, <4>2 DEF Own, Creations
      <4> QED BY <4>2, <4>3
    <3> QED BY <3>1, <3>2
  <2>2. Room(S, r)
    BY DEF Holds
  <2>3. Room(T, r)
    <3> HIDE DEF S, T, r
    <3> QED BY <1>4, <1>5, <2>1, <2>2, RoomStays
  <2> QED BY <1>7, <2>3
<1> QED BY <1>6, <1>7

\* The command's transaction is mined: its step is done, or has failed.
LEMMA MineCovers ==
  ASSUME CoverInv, NEW x \in pool, Include(x)
  PROVE  Covered'
<1> USE DEF CoverInv, LiveInv, BaseInv
<1>1. proc' = proc
  BY DEF Include
<1> SUFFICES ASSUME Alone PROVE \E k \in 0..16 : At(k)'
  BY <1>1 DEF Covered, Alone
<1>2. PICK k \in 0..16 : At(k)
  BY DEF Covered
<1>3. x = proc.tx /\ proc.at = "sending" /\ ~Mined /\ Holds(k) /\ proc.left = Left(k)
  BY <1>2 DEF At, InHand
<1>4. x.act = Act(k) /\ x.amount = Amount(Act(k))
  <2>1. x.act = Head(proc.left)
    BY <1>3 DEF ProcTypes
  <2> QED BY <1>3, <2>1, LeftParts DEF Priced
<1>5. Act(k) \in Signable
  <2>1. x \in Transactions /\ x # NoTx
    BY <1>3 DEF ProcTypes, Commands
  <2>2. x.act \in Signable \cup {"none"}
    BY <2>1, TransactionParts DEF Signable
  <2>3. Act(k) # "none"
    <3>1. k # 0 => k \in 1..16
      OBVIOUS
    <3> QED BY <3>1, StepNumbers DEF Act
  <2> QED BY <1>4, <2>2, <2>3
<1>6. k = 16 => deals[proc.deal].status \in Closed
  <2> SUFFICES ASSUME k = 16 PROVE deals[proc.deal].status \in Closed
    OBVIOUS
  <2>1. proc.left = Plan(16)
    BY <1>3 DEF Left
  <2>2. Standing(16)
    BY <2>1 DEF PlanInv, OnPlan
  <2> QED BY <2>2 DEF Standing
<1>7. /\ mined'[From(x.act)].last = x
      /\ mined'[From(x.act)].ok = WouldSucceed(x)
      /\ pool' \subseteq pool \ {x}
  <2>1. From(x.act) \in Accounts
    BY Senders
  <2> QED BY <2>1 DEF Include, ChainTypes
<1>8. Mined'
  BY <1>1, <1>3, <1>7 DEF Mined
<1>9. pool' = {}
  BY <1>2, <1>3, <1>7 DEF At, InHand
<1>10. ASSUME WouldSucceed(x) PROVE Holds(k + 1)'
  <2>1. Purse(k + 1)'
    BY <1>3, <1>4, <1>5, <1>10, MinedPurse
  <2>2. Room((Open \ Own(k + 1))', IF k + 1 = 17 THEN proc.runs - 1 ELSE proc.runs)
    BY <1>3, <1>4, <1>5, <1>6, <1>10, MinedRoom
  <2> QED BY <1>1, <2>1, <2>2 DEF Holds, Room
<1>11. At(k)'
  BY <1>1, <1>3, <1>7, <1>8, <1>9, <1>10 DEF At
<1> QED BY <1>11

\* Others change deals, and may lose a transaction.
LEMMA OthersCover ==
  ASSUME CoverInv, pool' \subseteq pool, UNCHANGED <<usdc, allowance, base, mined, proc>>,
         DealsGrow, DOMAIN deals' = DOMAIN deals
  PROVE  Covered'
<1> USE DEF CoverInv, LiveInv, BaseInv
<1> SUFFICES ASSUME Alone PROVE \E k \in 0..16 : At(k)'
  BY DEF Covered, Alone
<1>1. PICK k \in 0..16 : At(k)
  BY DEF Covered
<1>2. (Mined' <=> Mined) /\ InHand' = InHand /\ proc.at # "ended"
  BY DEF Mined, InHand, Alone
<1>3. k \in 0..17 /\ k + 1 \in 0..17
  OBVIOUS
<1>4. Holds(k) => Holds(k)'
  BY <1>2, <1>3, HoldsStays
<1>5. Holds(k + 1) => Holds(k + 1)'
  <2> DEFINE j == k + 1
  <2> HIDE DEF j
  <2>1. j \in 0..17
    BY <1>3 DEF j
  <2>2. Holds(j) => Holds(j)'
    BY <1>2, <2>1, HoldsStays
  <2> QED BY <2>2 DEF j
<1>6. At(k)'
  BY <1>1, <1>2, <1>4, <1>5 DEF At
<1> QED BY <1>6

LEMMA MineOrdered ==
  ASSUME ChainTypes, Named, Ordered, NEW x \in pool, x.nonce = mined[From(x.act)].count, Include(x)
  PROVE  Ordered'
<1> DEFINE w == From(x.act)
           n == mined[w].count + 1
           ok == WouldSucceed(x)
           m == [count |-> n, last |-> x, ok |-> ok]
<1>1. w \in Accounts /\ mined[w].count \in Nat /\ mined' = [mined EXCEPT ![w] = m]
  BY Senders DEF Include, ChainTypes
<1>2. ASSUME NEW v \in Accounts
      PROVE  mined'[v].last = NoTx \/ mined'[v].last.nonce < mined'[v].count
  <2>1. m.last = x /\ m.count = n /\ x.nonce < n
    BY <1>1
  <2>2. mined'[v] = IF v = w THEN m ELSE mined[v]
    BY <1>1 DEF ChainTypes
  <2> HIDE DEF m, n
  <2> QED BY <2>1, <2>2 DEF Ordered
<1>3. ASSUME NEW c \in DOMAIN deals', NEW d \in DOMAIN deals', deals'[c].by = deals'[d].by
      PROVE  c = d
  <2>1. /\ \A i \in DOMAIN deals : deals'[i].by = deals[i].by
        /\ \A i \in DOMAIN deals' :
              i \in DOMAIN deals
              \/ (x.act \in Creations /\ deals'[i].by = x /\ i = Len(deals) + 1)
    BY MineDeals DEF DealsGrow
  <2>2. \A i \in DOMAIN deals : x.act \in Creations => deals[i].by # x
    <3> SUFFICES ASSUME NEW i \in DOMAIN deals, x.act \in Creations, deals[i].by = x PROVE FALSE
      OBVIOUS
    <3>1. x.nonce < mined["B_CTC"].count
      BY DEF Named, Created
    <3>2. mined["B_CTC"].count = x.nonce /\ mined["B_CTC"].count \in Nat
      BY <1>1, Senders
    <3> QED BY <3>1, <3>2
  <2> QED BY <1>3, <2>1, <2>2 DEF Ordered
<1> QED BY <1>2, <1>3 DEF Ordered

LEMMA ChainStepCovers == ASSUME CoverInv, ChainStep PROVE CoverInv'
<1> USE DEF CoverInv, LiveInv, BaseInv
<1>1. LiveInv'
  BY ChainStepLive
<1>2. proc' = proc /\ base' = base
  BY ChainStepParts
<1>3. Priced'
  BY <1>2 DEF Priced
<1>4. CASE \E w \in Accounts : Mine(w)
  <2>1. PICK w \in Accounts : Mine(w)
    BY <1>4
  <2>2. PICK x \in pool : x.nonce = mined[From(x.act)].count /\ Include(x)
    BY <2>1 DEF Mine
  <2> QED BY <1>1, <1>3, <2>2, MineCovers, MineOrdered
<1>5. ASSUME pool' \subseteq pool, UNCHANGED <<usdc, allowance, base, mined, proc>>,
             DealsGrow, DOMAIN deals' = DOMAIN deals
      PROVE  CoverInv'
  <2>1. Ordered'
    BY <1>5 DEF Ordered, DealsGrow
  <2>2. Covered'
    BY <1>5, OthersCover
  <2> QED BY <1>1, <1>3, <2>1, <2>2
<1>6. CASE \E x \in pool : Drop(x)
  BY <1>5, <1>6, DealsStay DEF Drop
<1>7. CASE \E e \in events \ attested : Attest(e)
  BY <1>5, <1>7, DealsStay DEF Attest
<1>8. CASE \E e \in attested \ recorded : Relay(e)
  BY <1>5, <1>8, ApplyGrows DEF Relay
<1>9. CASE \E d \in DOMAIN deals : FallDue(d)
  <2>1. PICK d \in DOMAIN deals : FallDue(d)
    BY <1>9
  <2> DEFINE r == [deals[d] EXCEPT !.due = TRUE]
  <2>2. r \in Deal /\ r.by = deals[d].by /\ r.status = deals[d].status
    BY DealParts DEF Deal
  <2>3. deals' = [deals EXCEPT ![d] = r]
    BY <2>1 DEF FallDue
  <2> HIDE DEF r
  <2>4. DealsGrow /\ DOMAIN deals' = DOMAIN deals
    BY <2>2, <2>3, MarkGrows
  <2> QED BY <1>5, <2>1, <2>4 DEF FallDue
<1>10. CASE \E d \in DOMAIN deals : MarkDefaulted(d)
  BY <1>5, <1>10, DefaultStep DEF MarkDefaulted
<1> QED BY <1>4, <1>6, <1>7, <1>8, <1>9, <1>10 DEF ChainStep

\* Nothing is mined for a command between two sends.
LEMMA NotMined ==
  ASSUME proc.at = "step"
  PROVE  ~Mined /\ InHand = {}
BY DEF Mined, InHand

\* The preflight has asked for all that the runs take.
LEMMA StartRunsCovers ==
  ASSUME CoverInv, NEW fresh \in BOOLEAN, NEW r \in 1..MaxRuns, StartRuns(fresh, r)
  PROVE  CoverInv'
<1> USE DEF CoverInv, LiveInv, BaseInv
<1>1. LiveInv'
  BY StartRunsLive
<1>2. /\ proc'.left \in {Plan(1), ToppingUp(Scenario)} /\ proc'.at = "step"
      /\ proc'.result = "none" /\ proc'.runs = r
      /\ (proc'.clean <=> pool = {}) /\ (proc'.left = Plan(1) <=> Ample)
      /\ proc'.limit = IF fresh THEN LimitAt(BASE_SCORE) ELSE CreditLimit
  BY StartRunsTypes
<1>3. /\ Preflight(fresh, r) /\ base' = IF fresh THEN Len(deals) ELSE base
      /\ UNCHANGED <<usdc, allowance, deals, pool, mined>>
  BY DEF StartRuns
<1>4. Ordered' /\ Priced'
  BY <1>2, <1>3 DEF Ordered, Priced
<1>5. Covered'
  <2> SUFFICES ASSUME pool = {} PROVE \E k \in 0..16 : At(k)'
    BY <1>2 DEF Covered, Alone
  <2>1. r \in Nat \ {0} /\ Saved(r) \in Nat /\ Spare * r = Saved(r) + Spare
    <3>1. r \in Nat \ {0}
      BY LiveConstants
    <3> QED BY <3>1, SavedParts
  <2>2. PICK k \in {0, 1} : k = IF Ample THEN 1 ELSE 0
    OBVIOUS
  <2>3. k \in 0..16 /\ k < 5 /\ k # 17
    BY <2>2
  <2>4. proc'.left = Left(k)
    BY <1>2, <2>2 DEF Left
  <2>5. usdc["A"] >= FUNDING /\ usdc["B"] >= Saved(r) + Spare
    BY <1>3, <2>1 DEF Preflight, requiredBorrowerUsdc, Spare
  <2>6. Purse(k)'
    BY <1>2, <1>3, <2>3, <2>5 DEF Purse
  <2>7. Own(k)' = {}
    BY <2>3 DEF Own
  <2>8. Cardinality(Open') + r <= proc'.limit
    <3>1. /\ CreditLimit \in Int /\ LimitAt(BASE_SCORE) \in Int /\ Cardinality(Open) \in Nat
          /\ Available = CreditLimit - Cardinality(Open)
      BY OpenFinite, LimitTypes
    <3>2. CASE fresh
      <4>1. Open' = {}
        <5>1. DOMAIN deals = 1..Len(deals) /\ Len(deals) \in Nat
          BY LenProperties DEF ChainTypes
        <5> QED BY <1>3, <3>2, <5>1 DEF Open, WithStatus, Recorded
      <4>2. LimitAt(BASE_SCORE) >= r
        BY <1>3, <2>1, <3>1, <3>2 DEF Preflight, runCapacity
      <4>3. Cardinality(Open') = 0
        BY <4>1, FS_EmptySet
      <4> QED BY <1>2, <2>1, <3>1, <3>2, <4>2, <4>3
    <3>3. CASE ~fresh
      <4>1. Open' = Open
        BY <1>3, <3>3 DEF Open, WithStatus, Recorded
      <4>2. Available >= r
        BY <1>3, <2>1, <3>1, <3>3 DEF Preflight, runCapacity
      <4>3. Cardinality(Open) + r <= CreditLimit
        BY <2>1, <3>1, <4>2
      <4> QED BY <1>2, <3>3, <4>1, <4>3
    <3> QED BY <3>2, <3>3
  <2>9. Cardinality((Open \ Own(k))') + r <= proc'.limit
    <3>1. (Open \ Own(k))' = Open'
      BY <2>7
    <3> QED BY <2>8, <3>1
  <2>10. Holds(k)'
    BY <1>2, <1>3, <2>3, <2>6, <2>9 DEF Holds, Room
  <2>11. ~Mined' /\ InHand' = {}
    BY <1>2 DEF Mined, InHand
  <2>12. At(k)'
    BY <1>3, <2>4, <2>10, <2>11 DEF At
  <2> QED BY <2>3, <2>12
<1> QED BY <1>1, <1>4, <1>5

LEMMA ResumeCovers ==
  ASSUME CoverInv, NEW d \in DOMAIN deals, Resume(d)
  PROVE  CoverInv'
<1> USE DEF CoverInv, LiveInv, BaseInv
<1>1. LiveInv'
  BY ResumeLive
<1>2. proc'.at = "step" /\ proc'.resumes = TRUE /\ proc'.result = "none"
  BY ResumeTypes
<1>3. UNCHANGED chainVars
  BY DEF Resume
<1> QED BY <1>1, <1>2, <1>3 DEF Ordered, Priced, Covered, Alone, chainVars

\* A step that ends the command.
LEMMA HaltCovers ==
  ASSUME CoverInv, LiveInv', UNCHANGED chainVars, proc.at # "ended", NEW r, Halted(r)
  PROVE  CoverInv'
BY DEF CoverInv, Halted, Ordered, Priced, Covered, Alone, chainVars

\* What holds on the chains holds for the next step, once the last one is over.
LEMMA HoldsOn ==
  ASSUME UNCHANGED chainVars, NEW k \in 0..17, Holds(k), Stepping, proc'.runs = proc.runs,
         proc'.limit = proc.limit, k \in 3..16 => Own(k)' = Own(k)
  PROVE  Holds(k)'
<1>1. Own(k)' = Own(k)
  BY DEF Own
<1>2. Open' = Open
  BY DEF Open, WithStatus, Recorded, chainVars
<1>3. Purse(k)'
  BY DEF Holds, Purse, chainVars
<1> QED BY <1>1, <1>2, <1>3 DEF Holds, Room, chainVars

\* A command that works alone goes on to step k.
LEMMA StepCovers ==
  ASSUME CoverInv, LiveInv', UNCHANGED chainVars, proc.at # "ended", Stepping,
         proc'.resumes = proc.resumes, proc'.clean = proc.clean,
         Alone => \E k \in 0..16 : proc'.left = Left(k) /\ Holds(k)' /\ pool = {}
  PROVE  CoverInv'
<1>1. Ordered' /\ Priced'
  BY DEF CoverInv, Ordered, Priced, Stepping, chainVars
<1>2. Covered'
  <2> SUFFICES ASSUME Alone PROVE \E k \in 0..16 : At(k)'
    BY DEF Covered, Alone
  <2>1. PICK k \in 0..16 : proc'.left = Left(k) /\ Holds(k)' /\ pool = {}
    OBVIOUS
  <2>2. ~Mined' /\ InHand' = {}
    BY DEF Mined, InHand, Stepping
  <2>3. At(k)'
    BY <2>1, <2>2 DEF At, chainVars
  <2> QED BY <2>3
<1> QED BY <1>1, <1>2 DEF CoverInv

\* Where a command that works alone is, between two sends.
LEMMA AloneStep ==
  ASSUME CoverInv, Alone, proc.at = "step"
  PROVE  \E k \in 0..16 : /\ proc.left = Left(k) /\ Head(proc.left) = Act(k)
                          /\ Holds(k) /\ pool = {}
<1>1. PICK k \in 0..16 : At(k)
  BY DEF CoverInv, Covered
<1>2. Holds(k) /\ proc.left = Left(k) /\ pool = {}
  BY <1>1, NotMined DEF At
<1> QED BY <1>2, LeftParts

\* A step that sends nothing.
LEMMA PassCovers ==
  ASSUME CoverInv, LiveInv', UNCHANGED chainVars, proc.at = "step", Same, Stepping,
         proc'.runs = proc.runs, proc'.left = Tail(proc.left),
         \/ Head(proc.left) \in {"begin", "wait", "checkFinanced", "checkClosed"}
         \/ /\ Head(proc.left) \in Approvals
            /\ allowance[From(Head(proc.left))] >= Amount(Head(proc.left))
  PROVE  CoverInv'
<1>1. ASSUME Alone PROVE \E k \in 0..16 : proc'.left = Left(k) /\ Holds(k)' /\ pool = {}
  <2>1. PICK k \in 0..16 : /\ proc.left = Left(k) /\ Head(proc.left) = Act(k)
                           /\ Holds(k) /\ pool = {}
    BY <1>1, AloneStep
  <2>2. k \in {1, 3, 5, 7, 9, 11, 13, 15}
    BY <2>1, ActNumbers
  <2> DEFINE j == k + 1
  <2>3. j \in 0..16 /\ j \in 0..17 /\ j # 17 /\ k # 17 /\ k # 0 /\ k # 16
    BY <2>2
  <2>4. Purse(j)
    <3>1. /\ k = 3 => allowance["A"] >= FUNDING
          /\ k = 5 => allowance["B"] >= IMPOSTOR_AMOUNT
          /\ k = 11 => allowance["B"] >= FACE_VALUE
      BY <2>1, ActNumbers, ActParts
    <3> QED BY <2>1, <2>2, <3>1 DEF Holds, Purse
  <2>5. Own(j) = Own(k)
    BY <2>2 DEF Own
  <2>6. proc'.left = Left(j)
    <3>1. Tail(Left(k)) = Left(j)
      BY <2>3, LeftParts
    <3> QED BY <2>1, <3>1
  <2>7. Own(j)' = Own(j)
    BY DEF Own, Stepping, Same, chainVars
  <2> HIDE DEF j
  <2>8. Holds(j)
    BY <2>1, <2>3, <2>4, <2>5 DEF Holds
  <2>9. Holds(j)'
    BY <2>3, <2>7, <2>8, HoldsOn DEF Same
  <2> QED BY <2>1, <2>3, <2>6, <2>9
<1> QED BY <1>1, StepCovers DEF Same

LEMMA SkipCovers == ASSUME CoverInv, SkipApproval PROVE CoverInv'
<1> USE DEF CoverInv, LiveInv, BaseInv
<1>1. LiveInv'
  BY SkipLive
<1>2. /\ Same /\ Stepping /\ proc'.left = Tail(proc.left) /\ proc'.runs = proc.runs
      /\ proc.at = "step"
  BY SkipTypes
<1>3. /\ UNCHANGED chainVars /\ Head(proc.left) \in Approvals
      /\ allowance[From(Head(proc.left))] >= Amount(Head(proc.left))
  BY DEF SkipApproval
<1> QED BY <1>1, <1>2, <1>3, PassCovers

LEMMA WaitCovers == ASSUME CoverInv, Wait PROVE CoverInv'
<1> USE DEF CoverInv, LiveInv, BaseInv
<1>1. LiveInv' /\ UNCHANGED chainVars
  BY WaitLive DEF Wait
<1>2. /\ proc.at = "step" /\ Head(proc.left) = "wait"
      /\ \/ Halted("timeout")
         \/ Same /\ Stepping /\ proc'.left = Tail(proc.left) /\ proc'.runs = proc.runs
  BY WaitTypes
<1>3. CASE Halted("timeout")
  BY <1>1, <1>2, <1>3, HaltCovers
<1>4. CASE Same /\ Stepping /\ proc'.left = Tail(proc.left) /\ proc'.runs = proc.runs
  BY <1>1, <1>2, <1>4, PassCovers
<1> QED BY <1>2, <1>3, <1>4

LEMMA GiveUpCovers == ASSUME CoverInv, GiveUp \/ Crash PROVE CoverInv'
<1> USE DEF CoverInv, LiveInv, BaseInv
<1>1. LiveInv' /\ UNCHANGED chainVars /\ proc.at # "ended"
  BY GiveUpLive DEF GiveUp, Crash
<1>2. PICK r \in {"timeout", "crash"} : Halted(r)
  BY GiveUpTypes
<1> QED BY <1>1, <1>2, HaltCovers

LEMMA LookCovers == ASSUME CoverInv, Look PROVE CoverInv'
<1> USE DEF CoverInv, LiveInv, BaseInv
<1>1. LiveInv' /\ UNCHANGED chainVars
  BY LookLive DEF Look
<1>2. /\ proc.at = "step"
      /\ Head(proc.left) \in {"begin", "inspect", "checkFinanced", "checkClosed"}
      /\ \/ Halted("ineligible")
         \/ Same /\ Stepping /\ Head(proc.left) = "inspect" /\ proc'.runs = proc.runs
         \/ /\ Same /\ Stepping /\ Head(proc.left) # "inspect"
            /\ proc'.left = Tail(proc.left) /\ proc'.runs = proc.runs
  BY LookTypes
<1>3. CASE Halted("ineligible")
  BY <1>1, <1>2, <1>3, HaltCovers
<1>4. CASE Same /\ Stepping /\ Head(proc.left) = "inspect"
  <2>1. ~Alone
    BY <1>2, <1>4, AloneStep, ActNumbers
  <2> QED BY <1>1, <1>2, <1>4, <2>1, StepCovers DEF Same
<1>5. CASE /\ Same /\ Stepping /\ Head(proc.left) # "inspect"
           /\ proc'.left = Tail(proc.left) /\ proc'.runs = proc.runs
  BY <1>1, <1>2, <1>5, PassCovers
<1> QED BY <1>2, <1>3, <1>4, <1>5

\* What a transaction needs is enough for it.
LEMMA SucceedWhen ==
  ASSUME NEW x, x.act \notin Applications,
         x.act \in Payments =>
            usdc[From(x.act)] >= x.amount /\ allowance[From(x.act)] >= x.amount,
         x.act \in Creations => Available > 0
  PROVE  WouldSucceed(x)
<1>1. ~(x.act \in Payments /\ x.act \in Creations)
  BY DEF Payments, Creations
<1>2. CASE x.act \in Payments
  BY <1>1, <1>2 DEF WouldSucceed, Payer
<1>3. CASE x.act \in Creations
  BY <1>1, <1>3 DEF WouldSucceed
<1>4. CASE x.act \notin Payments \cup Creations
  BY <1>4 DEF WouldSucceed
<1> QED BY <1>2, <1>3, <1>4

\* What the preflight covered is there when it is asked for, or the limit has fallen.
LEMMA NotRefused ==
  ASSUME CoverInv, NEW k \in 0..16, Holds(k), proc.left = Left(k), proc.at = "step",
         NEW x, x.act = Act(k), x.amount = Amount(Act(k)), x.act \notin Applications
  PROVE  WouldSucceed(x) \/ (Act(k) \in Creations /\ CreditLimit < proc.limit)
<1> USE DEF CoverInv, LiveInv, BaseInv
<1>1. /\ FUNDING \in Nat /\ FACE_VALUE \in Nat /\ IMPOSTOR_AMOUNT \in Nat
      /\ IMPOSTOR_AMOUNT <= FACE_VALUE
  BY LiveConstants
<1>2. proc.runs \in Nat \ {0} /\ Saved(proc.runs) \in Nat /\ proc.limit \in Int
  BY RunsParts
<1>3. /\ usdc["A"] \in Nat /\ usdc["B"] \in Nat
  BY DEF ChainTypes
<1>4. x.act \in Payments =>
         usdc[From(x.act)] >= x.amount /\ allowance[From(x.act)] >= x.amount
  <2> SUFFICES ASSUME k \in {4, 6, 12}
               PROVE  usdc[From(x.act)] >= x.amount /\ allowance[From(x.act)] >= x.amount
    BY ActNumbers
  <2>1. CASE k = 4
    BY <2>1, ActParts DEF Holds, Purse
  <2>2. CASE k = 6
    <3>1. usdc["B"] >= Saved(proc.runs) + FACE_VALUE /\ allowance["B"] >= IMPOSTOR_AMOUNT
      BY <2>2 DEF Holds, Purse
    <3>2. usdc["B"] >= IMPOSTOR_AMOUNT
      BY <1>1, <1>2, <1>3, <3>1
    <3> QED BY <2>2, <3>1, <3>2, ActParts
  <2>3. CASE k = 12
    <3>1. usdc["B"] >= Saved(proc.runs) + FACE_VALUE /\ allowance["B"] >= FACE_VALUE
      BY <2>3 DEF Holds, Purse
    <3>2. usdc["B"] >= FACE_VALUE
      BY <1>1, <1>2, <1>3, <3>1
    <3> QED BY <2>3, <3>1, <3>2, ActParts
  <2> QED BY <2>1, <2>2, <2>3
<1>5. x.act \in Creations => Available > 0 \/ CreditLimit < proc.limit
  <2> SUFFICES ASSUME k \in {2, 16} PROVE Available > 0 \/ CreditLimit < proc.limit
    BY ActNumbers DEF Creations
  <2>1. Open \ Own(k) = Open
    <3>1. CASE k = 2
      BY <3>1 DEF Own
    <3>2. CASE k = 16
      <4>1. Standing(16)
        BY <3>2 DEF PlanInv, OnPlan, Left
      <4>2. deals[proc.deal].status \in Closed
        BY <4>1 DEF Standing
      <4>3. proc.deal \notin Open
        BY <4>2 DEF Open, WithStatus, Closed
      <4> QED BY <4>3 DEF Own
    <3> QED BY <3>1, <3>2
  <2>2. Room(Open, proc.runs)
    BY <2>1 DEF Holds
  <2>3. /\ Cardinality(Open) \in Nat /\ CreditLimit \in Int
        /\ Available = CreditLimit - Cardinality(Open)
    BY OpenFinite
  <2>4. Cardinality(Open) + proc.runs <= proc.limit
    BY <2>2 DEF Room
  <2> QED BY <1>2, <2>3, <2>4
<1> QED BY <1>4, <1>5, SucceedWhen

\* A command that is refused was refused what it signed.
LEMMA RefusedParts ==
  ASSUME ProcTypes, Sign, proc'.result = "refused"
  PROVE  ~WouldSucceed(Signed(Head(proc.left))) /\ Head(proc.left) \notin Applications
<1> DEFINE a == Head(proc.left)
           x == Signed(a)
           ok == WouldSucceed(x)
           z == IF a \in Applications THEN "relayed" ELSE "refused"
           s == Stop(z)
           p == [proc EXCEPT !.at = "sending", !.tx = x]
<1>1. proc.at = "step" /\ proc.result = "none" /\ proc \in Commands
  BY DEF Sign, ProcTypes
<1>2. p.result = "none"
  <2> HIDE DEF x
  <2> QED BY <1>1 DEF Commands
<1>3. s.result = z
  <2> HIDE DEF z
  <2> QED BY <1>1 DEF Stop, Commands
<1>4. proc' = IF ok THEN p ELSE s
  BY DEF Sign
<1>5. ok \in BOOLEAN
  BY SucceedParts
<1> HIDE DEF ok, p, s
<1>6. ~ok /\ z = "refused"
  BY <1>2, <1>3, <1>4, <1>5
<1> QED BY <1>6 DEF ok

LEMMA SignCovers == ASSUME CoverInv, Sign PROVE CoverInv'
<1> USE DEF CoverInv, LiveInv, BaseInv
<1>1. LiveInv' /\ UNCHANGED chainVars
  BY SignLive DEF Sign
<1>2. /\ proc.at = "step" /\ Head(proc.left) \in Signable
      /\ \/ \E r \in {"relayed", "refused"} : Halted(r)
         \/ /\ Same /\ proc'.at = "sending" /\ proc'.left = proc.left
            /\ proc'.tx = Signed(Head(proc.left)) /\ proc'.runs = proc.runs
  BY PayableHolds, SignTypes
<1>3. PICK a \in Signable : a = Head(proc.left)
  BY <1>2
<1>4. PICK x : x = Signed(a)
  OBVIOUS
<1>5. /\ x.act = a /\ x.amount = Amount(a) /\ x.nonce >= mined[From(a)].count /\ x.nonce \in Nat
  <2>1. a \in Applications => \E e \in proc.made : e.act = Proven(a)
    BY <1>2, <1>3, PayableHolds DEF Payable
  <2>2. x \in Transactions
    BY <1>4, <2>1, SignedParts
  <2> QED BY <1>4, <2>1, <2>2, SignedParts, TransactionParts
<1>6. CASE \E r \in {"relayed", "refused"} : Halted(r)
  BY <1>1, <1>2, <1>6, HaltCovers
<1>7. CASE /\ Same /\ proc'.at = "sending" /\ proc'.left = proc.left
           /\ proc'.tx = Signed(Head(proc.left)) /\ proc'.runs = proc.runs
  <2>1. proc'.tx = x
    BY <1>3, <1>4, <1>7
  <2>2. Ordered' /\ Priced'
    BY <1>1, <1>2, <1>5, <1>7, <2>1 DEF Ordered, Priced, Same, chainVars
  <2>3. Covered'
    <3> SUFFICES ASSUME Alone PROVE \E k \in 0..16 : At(k)'
      BY <1>2, <1>7 DEF Covered, Alone, Same
    <3>1. PICK k \in 0..16 : /\ proc.left = Left(k) /\ Head(proc.left) = Act(k)
                             /\ Holds(k) /\ pool = {}
      BY <1>2, AloneStep
    <3>2. ~Mined'
      <4>1. x # NoTx
        BY <1>1, <1>7, <2>1 DEF ProcTypes
      <4>2. From(a) \in Accounts /\ mined[From(a)].count \in Nat
        BY Senders DEF ChainTypes
      <4>3. mined[From(a)].last # x
        BY <1>5, <4>1, <4>2 DEF Ordered
      <4> QED BY <1>1, <1>5, <2>1, <4>3 DEF Mined, chainVars
    <3>3. Holds(k)'
      <4>1. Own(k)' = Own(k)
        <5>1. k \in 3..16 => x.act # "create"
          BY <1>3, <1>5, <3>1, ActNumbers
        <5> QED BY <1>1, <1>2, <1>7, <2>1, <5>1 DEF Own, Same, chainVars
      <4>2. Open' = Open
        BY <1>1 DEF Open, WithStatus, Recorded, chainVars
      <4>3. Purse(k)'
        BY <1>1, <1>7, <3>1 DEF Holds, Purse, chainVars
      <4> QED BY <1>1, <1>7, <3>1, <4>1, <4>2, <4>3 DEF Holds, Room, Same, chainVars
    <3>4. At(k)'
      BY <1>1, <1>7, <3>1, <3>2, <3>3 DEF At, chainVars
    <3> QED BY <3>4
  <2> QED BY <1>1, <2>2, <2>3
<1> QED BY <1>2, <1>6, <1>7

LEMMA BroadcastCovers == ASSUME CoverInv, Broadcast PROVE CoverInv'
<1> USE DEF CoverInv, LiveInv, BaseInv
<1>1. LiveInv'
  BY BroadcastLive
<1>2. /\ Same /\ proc.at = "sending" /\ proc'.at = "sending" /\ proc'.tx = proc.tx
      /\ proc'.left = proc.left /\ proc'.runs = proc.runs
      /\ pool' \in {pool, pool \cup {proc.tx}}
  BY BroadcastTypes
<1>3. UNCHANGED <<usdc, allowance, deals, base, mined>>
  BY DEF Broadcast
<1>4. Mined => pool' = pool
  <2> SUFFICES ASSUME Mined PROVE pool' = pool
    OBVIOUS
  <2>1. proc.tx # NoTx /\ mined[From(proc.tx.act)].last = proc.tx
    BY <1>2 DEF ProcTypes, Mined
  <2>2. proc.tx.nonce < mined[From(proc.tx.act)].count
    BY <2>1, Senders DEF Ordered
  <2> QED BY <2>2 DEF Broadcast, Rebroadcast
<1>5. Ordered' /\ Priced'
  BY <1>2, <1>3 DEF Ordered, Priced, Same
<1>6. Covered'
  <2> SUFFICES ASSUME Alone PROVE \E k \in 0..16 : At(k)'
    BY <1>2 DEF Covered, Alone, Same
  <2>1. PICK k \in 0..16 : At(k)
    BY DEF Covered
  <2>2. (Mined' <=> Mined) /\ InHand' = InHand
    BY <1>2, <1>3 DEF Mined, InHand
  <2>3. pool' \subseteq InHand
    BY <1>2, <1>4, <2>1 DEF At, InHand
  <2>4. \A j \in 0..17 : Holds(j) => Holds(j)'
    <3> SUFFICES ASSUME NEW j \in 0..17, Holds(j) PROVE Holds(j)'
      OBVIOUS
    <3>1. Own(j)' = Own(j) /\ Open' = Open
      BY <1>2, <1>3 DEF Own, Open, WithStatus, Recorded, Same
    <3>2. Purse(j)'
      BY <1>2, <1>3 DEF Holds, Purse
    <3> QED BY <1>2, <1>3, <3>1, <3>2 DEF Holds, Room, Same
  <2>5. k \in 0..17 /\ k + 1 \in 0..17
    OBVIOUS
  <2>6. At(k)'
    BY <1>2, <1>3, <2>1, <2>2, <2>3, <2>4, <2>5 DEF At
  <2> QED BY <2>6
<1> QED BY <1>1, <1>5, <1>6

\* Where a command that works alone is, once it has a receipt.
LEMMA AloneSent ==
  ASSUME CoverInv, Alone, Mined, mined[From(proc.tx.act)].ok
  PROVE  \E k \in 0..16 : /\ proc.left = Left(k) /\ proc.tx.act = Act(k)
                          /\ Holds(k + 1) /\ pool = {}
<1>1. PICK k \in 0..16 : At(k)
  BY DEF CoverInv, Covered
<1>2. Holds(k + 1) /\ proc.left = Left(k) /\ pool = {}
  BY <1>1 DEF At, InHand
<1>3. proc.tx.act = Head(proc.left)
  BY DEF CoverInv, LiveInv, BaseInv, ProcTypes, Mined
<1> QED BY <1>2, <1>3, LeftParts

LEMMA ReceiptCovers == ASSUME CoverInv, Receipt PROVE CoverInv'
<1> USE DEF CoverInv, LiveInv, BaseInv
<1>1. LiveInv' /\ UNCHANGED chainVars
  BY ReceiptLive DEF Receipt
<1>2. Receipts
  BY Senders DEF Receipts, Done
<1> DEFINE a == proc.tx.act
           ok == mined[From(a)].ok
<1>3. /\ proc.at = "sending" /\ mined[From(a)].last = proc.tx
      /\ \/ Halted("reverted")
         \/ /\ ok
            /\ \/ /\ Same /\ Stepping /\ a \in Payments
                  /\ proc'.left = Tail(proc.left) /\ proc'.runs = proc.runs
               \/ /\ Stepping /\ a = "create"
                  /\ proc'.deal \in DOMAIN deals /\ deals[proc'.deal].by = proc.tx
                  /\ proc'.resumes = proc.resumes /\ proc'.result = proc.result
                  /\ proc'.clean = proc.clean /\ proc'.limit = proc.limit
                  /\ proc'.left = Tail(proc.left) /\ proc'.runs = proc.runs
               \/ /\ Same /\ Stepping /\ a = "createReserved" /\ proc.runs > 1
                  /\ proc'.left = Plan(1) /\ proc'.runs = proc.runs - 1
               \/ /\ a = "createReserved"
                  /\ Halted(IF proc.problems THEN "mismatch" ELSE "reported")
               \/ /\ Same /\ Stepping /\ a \notin Payments \cup Creations
                  /\ proc'.left = Tail(proc.left) /\ proc'.runs = proc.runs
  BY <1>2, ReceiptTypes
<1>4. Mined
  BY <1>3 DEF Mined
<1>5. CASE Halted("reverted")
  BY <1>1, <1>3, <1>5, HaltCovers
<1>6. CASE Halted(IF proc.problems THEN "mismatch" ELSE "reported")
  <2> DEFINE r == IF proc.problems THEN "mismatch" ELSE "reported"
  <2>1. Halted(r)
    BY <1>6
  <2> HIDE DEF r
  <2> QED BY <1>1, <1>3, <2>1, HaltCovers
<1>7. CASE /\ ok /\ Stepping /\ a # "createReserved"
           /\ (IF a = "create" THEN proc'.deal \in DOMAIN deals /\ deals[proc'.deal].by = proc.tx
               ELSE proc'.deal = proc.deal)
           /\ proc'.resumes = proc.resumes /\ proc'.result = proc.result
           /\ proc'.clean = proc.clean /\ proc'.limit = proc.limit
           /\ proc'.left = Tail(proc.left) /\ proc'.runs = proc.runs
  <2>1. ASSUME Alone PROVE \E k \in 0..16 : proc'.left = Left(k) /\ Holds(k)' /\ pool = {}
    <3>1. PICK k \in 0..16 : /\ proc.left = Left(k) /\ a = Act(k)
                             /\ Holds(k + 1) /\ pool = {}
      BY <1>4, <1>7, <2>1, AloneSent
    <3> DEFINE j == k + 1
    <3>2. k # 16
      BY <1>7, <3>1, ActNumbers
    <3>3. j \in 0..16 /\ j \in 0..17 /\ (k = 2 <=> j = 3)
      BY <3>2
    <3>4. proc'.left = Left(j)
      <4>1. Tail(Left(k)) = Left(j)
        BY <3>2, LeftParts
      <4> QED BY <1>7, <3>1, <4>1
    <3>5. j \in 3..16 => Own(j)' = Own(j)
      <4>1. CASE a = "create"
        <5>1. \A d \in DOMAIN deals : deals[d].by = proc.tx <=> d = proc'.deal
          BY <1>7, <4>1 DEF Ordered
        <5> QED BY <1>1, <1>3, <1>7, <4>1, <5>1 DEF Own, Stepping, chainVars
      <4>2. CASE a # "create"
        BY <1>1, <1>3, <1>7, <4>2 DEF Own, Stepping, chainVars
      <4> QED BY <4>1, <4>2
    <3>6. Holds(j)
      BY <3>1
    <3> HIDE DEF j
    <3>7. Holds(j)'
      BY <1>1, <1>7, <3>3, <3>5, <3>6, HoldsOn
    <3> QED BY <3>1, <3>3, <3>4, <3>7
  <2> QED BY <1>1, <1>3, <1>7, <2>1, StepCovers
<1>8. CASE /\ ok /\ Same /\ Stepping /\ a = "createReserved" /\ proc.runs > 1
           /\ proc'.left = Plan(1) /\ proc'.runs = proc.runs - 1
  <2>1. ASSUME Alone PROVE \E k \in 0..16 : proc'.left = Left(k) /\ Holds(k)' /\ pool = {}
    <3>1. PICK k \in 0..16 : /\ proc.left = Left(k) /\ a = Act(k)
                             /\ Holds(k + 1) /\ pool = {}
      BY <1>4, <1>8, <2>1, AloneSent
    <3>2. k = 16
      BY <1>8, <3>1, ActNumbers
    <3> DEFINE j == 17
               n == proc.runs - 1
               i == 1
    <3>3. Holds(j)
      BY <3>1, <3>2
    <3>4. proc.runs \in Nat /\ n \in Nat \ {0} /\ Saved(proc.runs) = Saved(n) + Spare
      <4>1. proc.runs \in Nat
        BY DEF ProcTypes, Commands
      <4> QED BY <1>8, <4>1, SavedParts
    <3>5. usdc["A"] >= FUNDING /\ usdc["B"] >= Saved(n) + Spare
      <4>1. usdc["A"] >= FUNDING /\ usdc["B"] >= Saved(proc.runs) + 0
        BY <3>3 DEF Holds, Purse
      <4>2. Saved(n) \in Nat /\ Spare \in Nat /\ usdc["B"] \in Nat
        BY <3>4, SavedParts DEF ChainTypes
      <4> QED BY <3>4, <4>1, <4>2
    <3>6. Room(Open, n)
      <4>1. Open \ Own(j) = Open
        BY DEF Own
      <4> QED BY <3>3, <4>1 DEF Holds
    <3>7. Open' = Open /\ Own(i)' = {}
      BY <1>1 DEF Open, WithStatus, Recorded, Own, chainVars
    <3>8. Purse(i)'
      BY <1>1, <1>8, <3>5 DEF Purse, chainVars
    <3>9. Holds(i)'
      BY <1>1, <1>8, <3>6, <3>7, <3>8 DEF Holds, Room, Same, chainVars
    <3>10. i \in 0..16 /\ proc'.left = Left(i)
      BY <1>8 DEF Left
    <3> HIDE DEF i
    <3> QED BY <3>1, <3>9, <3>10
  <2> QED BY <1>1, <1>3, <1>8, <2>1, StepCovers DEF Same
<1>9. a \in Payments => a # "create" /\ a # "createReserved"
  BY DEF Payments
<1> QED BY <1>3, <1>5, <1>6, <1>7, <1>8, <1>9 DEF Same, Creations

LEMMA CoverInit == Init => CoverInv
<1> SUFFICES ASSUME Init PROVE CoverInv
  OBVIOUS
<1>1. LiveInv
  BY LiveInit
<1>2. proc.at = "ended" /\ proc.result = "none"
  BY NoCommandTypes DEF Init
<1>3. DOMAIN deals = {} /\ \A w \in Accounts : mined[w].last = NoTx
  BY DEF Init
<1> QED BY <1>1, <1>2, <1>3 DEF CoverInv, Ordered, Priced, Covered, Alone

LEMMA CoverStep == CoverInv /\ [Next]_vars => CoverInv'
<1> SUFFICES ASSUME CoverInv, [Next]_vars PROVE CoverInv'
  OBVIOUS
<1>1. CASE \E fresh \in BOOLEAN, r \in 1..MaxRuns : StartRuns(fresh, r)
  BY <1>1, StartRunsCovers
<1>2. CASE \E d \in DOMAIN deals : Resume(d)
  BY <1>2, ResumeCovers
<1>3. CASE Command
  BY <1>3, SkipCovers, SignCovers, BroadcastCovers, ReceiptCovers, GiveUpCovers, WaitCovers,
     LookCovers DEF Command
<1>4. CASE Crash
  BY <1>4, GiveUpCovers
<1>5. CASE ChainStep
  BY <1>5, ChainStepCovers
<1>6. CASE UNCHANGED vars
  <2>1. LiveInv'
    BY <1>6, LiveStep DEF CoverInv
  <2>2. Ordered' /\ Priced'
    BY <1>6 DEF CoverInv, Ordered, Priced, vars, chainVars
  <2>3. Covered'
    <3>1. DealsGrow /\ DOMAIN deals' = DOMAIN deals
      BY <1>6, DealsStay DEF CoverInv, LiveInv, BaseInv, vars, chainVars
    <3> QED BY <1>6, <3>1, OthersCover DEF vars, chainVars
  <2> QED BY <2>1, <2>2, <2>3 DEF CoverInv
<1> QED BY <1>1, <1>2, <1>3, <1>4, <1>5, <1>6 DEF Next, ChainStep

\* A command is refused when it signs, and by nothing else.
LEMMA OnlySignRefuses ==
  ASSUME CoverInv, [Next]_vars, proc.result # "refused", proc'.result = "refused"
  PROVE  Sign
<1> USE DEF CoverInv, LiveInv, BaseInv
<1>1. ~(proc' = proc)
  OBVIOUS
<1>2. ~(\E fresh \in BOOLEAN, r \in 1..MaxRuns : StartRuns(fresh, r))
  BY StartRunsTypes
<1>3. ~(\E d \in DOMAIN deals : Resume(d))
  BY ResumeTypes
<1>4. ~ChainStep
  BY <1>1, ChainStepParts
<1>5. ~SkipApproval /\ ~Broadcast
  BY SkipTypes, BroadcastTypes DEF Same
<1>6. ~Receipt
  <2>1. Receipts
    BY Senders DEF Receipts, Done
  <2>2. ~Halted("reverted") /\ ~Halted(IF proc.problems THEN "mismatch" ELSE "reported")
    BY DEF Halted
  <2> QED BY <2>1, <2>2, ReceiptTypes DEF Same
<1>7. ~GiveUp /\ ~Crash
  <2>1. ~Halted("timeout") /\ ~Halted("crash")
    BY DEF Halted
  <2> QED BY <2>1, GiveUpTypes
<1>8. ~Wait /\ ~Look
  <2>1. ~Halted("timeout") /\ ~Halted("ineligible")
    BY DEF Halted
  <2> QED BY <2>1, WaitTypes, LookTypes DEF Same
<1>9. ~UNCHANGED vars
  BY <1>1 DEF vars
<1> QED BY <1>2, <1>3, <1>4, <1>5, <1>6, <1>7, <1>8, <1>9 DEF Next, Command, ChainStep

\* A command that works alone is refused only a deal, when the limit has fallen.
LEMMA RefusedAtLimit ==
  ASSUME CoverInv, Sign, proc'.result = "refused"
  PROVE  \/ ~proc.clean \/ proc.resumes
         \/ Head(proc.left) \in Creations /\ CreditLimit < proc.limit
<1> USE DEF CoverInv, LiveInv, BaseInv
<1> SUFFICES ASSUME proc.clean, ~proc.resumes
             PROVE  Head(proc.left) \in Creations /\ CreditLimit < proc.limit
  OBVIOUS
<1>1. proc.at = "step" /\ Head(proc.left) \in Signable
  BY PayableHolds, SignTypes
<1>2. Alone
  BY <1>1 DEF Alone
<1>3. PICK a \in Signable : a = Head(proc.left)
  BY <1>1
<1>4. PICK x : x = Signed(a)
  OBVIOUS
<1>5. x.act = a /\ x.amount = Amount(a)
  <2>1. a \in Applications => \E e \in proc.made : e.act = Proven(a)
    BY <1>1, <1>3, PayableHolds DEF Payable
  <2> QED BY <1>4, <2>1, SignedParts
<1>6. PICK k \in 0..16 : proc.left = Left(k) /\ Head(proc.left) = Act(k) /\ Holds(k)
  BY <1>1, <1>2, AloneStep
<1>7. ~WouldSucceed(x) /\ a \notin Applications
  BY <1>3, <1>4, RefusedParts
<1> QED BY <1>1, <1>3, <1>5, <1>6, <1>7, NotRefused

\* "Every blocker is checked before the first transaction": for any amounts, limit
\* and number of runs, however payments are relayed and whatever is lost on the
\* way, runs that began with no transaction of an earlier command on its way are
\* never refused for want of USDC or allowance; nor for want of credit, unless an
\* outcome has taken the limit below what the preflight read.  Gas is left out.
THEOREM PreflightSuffices == Spec => PreflightCovers
<1> DEFINE Refusal == proc.result # "refused" /\ proc'.result = "refused" =>
             \/ ~proc.clean \/ proc.resumes
             \/ Head(proc.left) \in Creations /\ CreditLimit < proc.limit
<1>1. Init => CoverInv
  BY CoverInit
<1>2. CoverInv /\ [Next]_vars => CoverInv'
  BY CoverStep
<1>3. CoverInv /\ [Next]_vars => [Refusal]_vars
  BY OnlySignRefuses, RefusedAtLimit
<1>4. Spec => [][Refusal]_vars
  <2> HIDE DEF Refusal
  <2> QED BY <1>1, <1>2, <1>3, PTL DEF Spec
<1> QED BY <1>4 DEF PreflightCovers
=============================================================================
