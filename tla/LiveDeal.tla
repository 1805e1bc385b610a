------------------------------- MODULE LiveDeal -------------------------------
(***************************************************************************)
(* scripts/deal-live.ts: a command the operator runs by hand, which drives *)
(* whole deals over both live chains with the wallets of the investor (A)  *)
(* and of the borrower (B).  It keeps nothing on disk: when it stops, the  *)
(* operator starts it again, with --resume-deal to finish a deal.  What it *)
(* sent may be mined after it stopped, and anyone may relay its payments.  *)
(* Debts and limits are counted in deals: every deal has the same face.    *)
(***************************************************************************)
EXTENDS Integers, SequencesExt, FiniteSetsExt

CONSTANTS
    FUNDING, FACE_VALUE, IMPOSTOR_AMOUNT,
    StartA, StartB,    \* USDC of the two wallets
    BaseLimit,         \* credit limit at BASE_SCORE
    MaxExecutions,     \* bound: times the command is started
    MaxRuns,           \* bound: --runs
    MaxBroadcasts,     \* broadcastAttempts (6)
    Poor,              \* the executions that find B with little CTC
    Inspects,          \* the operator resumes only what did not get further
    Faults             \* what may go wrong

VARIABLES
    usdc,       \* balances on the source chain
    allowance,  \* what the gateway may take from each wallet
    events,     \* gateway events, each named by its transaction
    attested,   \* those a proof can be built for
    recorded,   \* those the verifier has recorded and the registry applied
    deals,      \* every deal created
    base,       \* the recorded registry holds the deals after this one
    pool,       \* transactions in the two mempools
    mined,      \* mined[w]: how many transactions of w, and the last of them
    proc        \* the running command

chainVars == <<usdc, allowance, events, attested, recorded, deals, base, pool, mined>>
vars == <<chainVars, proc>>

ASSUME LiveConstants ==
    /\ {FUNDING, FACE_VALUE, IMPOSTOR_AMOUNT, MaxExecutions, MaxRuns, MaxBroadcasts} \subseteq Nat \ {0}
    /\ FUNDING < FACE_VALUE /\ IMPOSTOR_AMOUNT <= FACE_VALUE
    /\ {StartA, StartB, BaseLimit} \subseteq Nat
    /\ Poor \subseteq Nat /\ Inspects \in BOOLEAN
    /\ Faults \subseteq {"crash", "drop", "reply", "slow", "relay", "late"}

\* Accounts: a wallet has a nonce on each chain.
Accounts == {"A", "B", "A_CTC", "B_CTC"}
From(act) == CASE act \in {"approveFund", "fund"} -> "A"
               [] act \in {"approveImpostor", "impostor", "approveRepay", "repay"} -> "B"
               [] act \in {"topUp", "applyFund", "applyImpostor", "applyRepay"} -> "A_CTC"
               [] OTHER -> "B_CTC"
NoTx == [act |-> "none", deal |-> 0, amount |-> 0, nonce |-> 0]

Payments == {"fund", "impostor", "repay"}
Approvals == {"approveFund", "approveImpostor", "approveRepay"}
Applications == {"applyFund", "applyImpostor", "applyRepay"}
Creations == {"create", "createReserved"}

\* The payment an evidence transaction proves.
Proven(act) == CASE act = "applyFund" -> "fund" [] act = "applyImpostor" -> "impostor"
                 [] OTHER -> "repay"

-----------------------------------------------------------------------------
(* The chains. *)

Recorded == {d \in DOMAIN deals : d > base}
WithStatus(s) == {d \in Recorded : deals[d].status = s}

\* Counted deals and their weights, in the width of a signed sum.
BASE_SCORE == 500
Score ==
    LET sum == BASE_SCORE + 25 * Cardinality(WithStatus("PAID_ON_TIME"))
                 - 50 * Cardinality(WithStatus("PAID_LATE")) - 200 * Cardinality(WithStatus("DEFAULTED")) IN
    IF sum < 300 THEN 300 ELSE IF sum > 850 THEN 850 ELSE sum

\* limitOf, as the number of deals there is room for.
LimitAt(score) == ((BaseLimit * score) \div BASE_SCORE) \div FACE_VALUE
CreditLimit == LimitAt(Score)

\* limit - reserved - exposure; a deal in default keeps its exposure.
Available ==
    CreditLimit - Cardinality(WithStatus("CREATED") \cup WithStatus("FINANCED") \cup WithStatus("DEFAULTED"))

EventOf(kind, d) == {e \in events : e.act = kind /\ e.deal = d}
Payer(x) == From(x.act)

\* What eth_estimateGas answers, and what decides a transaction when it is mined.
WouldSucceed(x) ==
    CASE x.act \in Payments ->
           usdc[Payer(x)] >= x.amount /\ allowance[Payer(x)] >= x.amount
      [] x.act \in Creations -> Available > 0
      [] x.act \in Applications ->
           x.proves \in attested \ recorded
      [] OTHER -> TRUE

Moved(x) ==
    LET to == IF x.act = "repay" THEN "A" ELSE "B"
        paid == [usdc EXCEPT ![Payer(x)] = @ - x.amount] IN
    [paid EXCEPT ![to] = @ + x.amount]

\* A deal after the registry applies an event of it.
Applied(e) ==
    [deals EXCEPT ![e.deal].status =
        CASE e.act = "fund" /\ @ = "CREATED" -> "FINANCED"
          [] e.act = "repay" /\ @ \in {"FINANCED", "DEFAULTED"} ->
               IF e \in deals[e.deal].late THEN "PAID_LATE" ELSE "PAID_ON_TIME"
          [] OTHER -> @]

\* A transaction is mined, and succeeds or reverts.
Include(x) ==
    LET w == From(x.act)
        ok == WouldSucceed(x)
        pays == ok /\ x.act \in Payments
        creates == ok /\ x.act \in Creations
        applies == ok /\ x.act \in Applications IN
    /\ pool' = pool \ {x}
    /\ mined' = [mined EXCEPT ![w] = [count |-> @.count + 1, last |-> x, ok |-> ok]]
    /\ usdc' = IF pays THEN Moved(x) ELSE usdc
    /\ allowance' = CASE pays -> [allowance EXCEPT ![w] = @ - x.amount]
                      [] x.act \in Approvals -> [allowance EXCEPT ![w] = x.amount]
                      [] OTHER -> allowance
    /\ events' = IF pays THEN events \cup {x} ELSE events
    /\ recorded' = IF applies THEN recorded \cup {x.proves} ELSE recorded
    /\ deals' = CASE creates -> Append(deals, [status |-> "CREATED", due |-> FALSE,
                                               late |-> {}, by |-> x])
                  [] applies -> Applied(x.proves)
                  [] pays /\ x.act = "repay" /\ deals[x.deal].due ->
                       [deals EXCEPT ![x.deal].late = @ \cup {x}]
                  [] OTHER -> deals
    /\ UNCHANGED <<attested, base, proc>>

\* The next transaction of an account.
Mine(w) == \E x \in pool : From(x.act) = w /\ x.nonce = mined[w].count /\ Include(x)

\* The mempool forgets the last transaction of an account.
Drop(x) ==
    /\ "drop" \in Faults /\ x \in pool
    /\ \A y \in pool : From(y.act) = From(x.act) => y.nonce <= x.nonce
    /\ pool' = pool \ {x}
    /\ UNCHANGED <<usdc, allowance, events, attested, recorded, deals, base, mined, proc>>

Attest(e) ==
    /\ attested' = attested \cup {e}
    /\ UNCHANGED <<usdc, allowance, events, recorded, deals, base, pool, mined, proc>>

\* The worker of S6, or anyone else, submits a payment first.
Relay(e) ==
    /\ "relay" \in Faults
    /\ recorded' = recorded \cup {e}
    /\ deals' = Applied(e)
    /\ UNCHANGED <<usdc, allowance, events, attested, base, pool, mined, proc>>

\* DUE_BLOCK_MARGIN source blocks have passed; it matters to a deal that is not closed.
FallDue(d) ==
    /\ "late" \in Faults /\ ~deals[d].due /\ deals[d].status \in {"CREATED", "FINANCED"}
    /\ deals[d].by.act = "create"
    /\ deals' = [deals EXCEPT ![d].due = TRUE]
    /\ UNCHANGED <<usdc, allowance, events, attested, recorded, base, pool, mined, proc>>

\* Anyone may call markDefaulted once the grace period of a financed deal is over too.
MarkDefaulted(d) ==
    /\ deals[d].due /\ deals[d].status = "FINANCED"
    /\ deals' = [deals EXCEPT ![d].status = "DEFAULTED"]
    /\ UNCHANGED <<usdc, allowance, events, attested, recorded, base, pool, mined, proc>>

-----------------------------------------------------------------------------
(* The command.  left: the steps it has still to take; tx, tries, observed: *)
(* the call of sendKnownTransaction it is in; limit, before: what it read   *)
(* in its preflight and at the start of a run.                              *)

Scenario == <<"begin", "create", "approveFund", "fund", "approveImpostor", "impostor", "wait",
              "applyFund", "checkFinanced", "applyImpostor", "approveRepay", "repay", "wait",
              "applyRepay", "checkClosed", "createReserved">>
BadRepayOn == SubSeq(Scenario, 3, 16)

RepayOn == SubSeq(Scenario, 11, 16)
ReserveOn == SubSeq(Scenario, 16, 16)

NoCommand == [at |-> "ended", result |-> "none", starts |-> 0, left |-> <<>>, deal |-> 0,
              resumes |-> FALSE, runs |-> 0, made |-> {}, tx |-> NoTx, tries |-> 0,
              observed |-> FALSE, problems |-> FALSE, before |-> [exposure |-> 0, score |-> 0],
              limit |-> 0, clean |-> TRUE]

runCapacity(balance, perRun) == balance \div perRun
requiredBorrowerUsdc(runs) == (FACE_VALUE - FUNDING) * runs

\* preflightAll: a fresh registry will have all of the limit free.
BadPreflight(fresh, runs) ==
    /\ usdc["A"] >= FUNDING
    /\ usdc["B"] >= requiredBorrowerUsdc(1)
    /\ runCapacity(IF fresh THEN LimitAt(BASE_SCORE) ELSE Available, 1) >= runs

Preflight(fresh, runs) ==
    /\ usdc["A"] >= FUNDING
    /\ usdc["B"] >= requiredBorrowerUsdc(runs)
    /\ runCapacity(usdc["B"], FACE_VALUE - FUNDING) >= runs
    /\ runCapacity(IF fresh THEN LimitAt(BASE_SCORE) ELSE Available, 1) >= runs

\* resumeFinancedScenario refuses any other status.
Eligible(d) == d \in WithStatus("FINANCED") \cup WithStatus("PAID_ON_TIME")

Reserves(d) == {x \in {deals[k].by : k \in DOMAIN deals} \cup pool :
                  x.act = "createReserved" /\ x.deal = d}

\* What its comment takes for granted: the run had not reached the steps that
\* are taken now, not even with a transaction that is still on its way.
Untouched(d) ==
    /\ Reserves(d) = {}
    /\ deals[d].status = "FINANCED" =>
         EventOf("repay", d) \cup {x \in pool : x.act = "repay" /\ x.deal = d} = {}

\* A gives B some CTC first if B has less than MIN_BORROWER_CTC.
Start(steps) ==
    [NoCommand EXCEPT !.at = "step", !.starts = proc.starts + 1, !.clean = (pool = {}),
                      !.left = (IF proc.starts + 1 \in Poor THEN <<"topUp">> ELSE <<>>) \o steps]

\* main, up to the first transaction.  In fresh mode deploy-deals.ts records a
\* new registry; a command whose preflight is blocked changes nothing.
StartRuns(fresh, runs) ==
    /\ proc.at = "ended" /\ proc.starts < MaxExecutions
    /\ Preflight(fresh, runs)
    /\ base' = IF fresh THEN Len(deals) ELSE base
    /\ proc' = [Start(Scenario) EXCEPT !.runs = runs,
                  !.limit = IF fresh THEN LimitAt(BASE_SCORE) ELSE CreditLimit]
    /\ UNCHANGED <<usdc, allowance, events, attested, recorded, deals, pool, mined>>

Resume(d) ==
    /\ proc.at = "ended" /\ proc.starts < MaxExecutions
    /\ Preflight(FALSE, 1)
    /\ Inspects => Untouched(d)
    /\ proc' = [Start(<<"inspect">>) EXCEPT !.runs = 1, !.deal = d, !.resumes = TRUE,
                  !.limit = CreditLimit]
    /\ UNCHANGED chainVars

Stop(result) == [proc EXCEPT !.at = "ended", !.result = result, !.left = <<>>, !.tx = NoTx,
                             !.tries = 0, !.observed = FALSE, !.made = {}]

\* The transactions of an account that wait for no other, and the nonce after them.
Pending(w) == {x \in pool : From(x.act) = w /\ \A n \in mined[w].count..x.nonce :
                                \E y \in pool : From(y.act) = w /\ y.nonce = n}
PendingNonce(w) == mined[w].count + Cardinality(Pending(w))

Amount(act) ==
    CASE act \in {"approveFund", "fund"} -> FUNDING
      [] act \in {"approveImpostor", "impostor"} -> IMPOSTOR_AMOUNT
      [] act \in {"approveRepay", "repay"} -> FACE_VALUE
      [] OTHER -> 0

\* An application carries a fresh proof of the payment made in this run.
Signed(act) ==
    LET next == PendingNonce(From(act)) IN
    IF act \in Applications
    THEN [act |-> act, deal |-> proc.deal, amount |-> Amount(act), nonce |-> next,
          proves |-> CHOOSE e \in proc.made : e.act = Proven(act)]
    ELSE [act |-> act, deal |-> IF act = "create" THEN 0 ELSE proc.deal,
          amount |-> Amount(act), nonce |-> next]

\* ensureAllowance finds enough.
SkipApproval ==
    /\ proc.at = "step" /\ Head(proc.left) \in Approvals
    /\ allowance[From(Head(proc.left))] >= Amount(Head(proc.left))
    /\ proc' = [proc EXCEPT !.left = Tail(@)]
    /\ UNCHANGED chainVars

\* sendKnownTransaction signs what the node estimates to succeed; otherwise, as
\* when a payment was relayed before it could be proven, the command ends.
Sign ==
    /\ proc.at = "step"
    /\ LET act == Head(proc.left) IN
       /\ act \in Payments \cup Approvals \cup Applications \cup Creations \cup {"topUp"}
       /\ act \in Approvals => allowance[From(act)] < Amount(act)
       /\ proc' = IF WouldSucceed(Signed(act))
                  THEN [proc EXCEPT !.at = "sending", !.tx = Signed(act)]
                  ELSE Stop(IF act \in Applications THEN "relayed" ELSE "refused")
    /\ UNCHANGED chainVars

\* The same bytes again: the network takes them once.
Rebroadcast(x) == IF x.nonce < mined[From(x.act)].count THEN pool ELSE pool \cup {x}

\* A broadcast whose answer is lost may have arrived.
Broadcast ==
    /\ proc.at = "sending" /\ ~proc.observed /\ proc.tries < MaxBroadcasts
    /\ \/ pool' = Rebroadcast(proc.tx) /\ proc' = [proc EXCEPT !.tries = @ + 1, !.observed = TRUE]
       \/ /\ "reply" \in Faults
          /\ pool' \in {pool, Rebroadcast(proc.tx)}
          /\ proc' = [proc EXCEPT !.tries = @ + 1]
    /\ UNCHANGED <<usdc, allowance, events, attested, recorded, deals, base, mined>>

Account == [exposure |-> Cardinality(WithStatus("FINANCED") \cup WithStatus("DEFAULTED")),
            score |-> Score]

BadMismatch(step) == step = "checkFinanced" /\ deals[proc.deal].status # "FINANCED"

\* What the run checks once a payment is applied; it goes on either way.
Mismatch(step) ==
    LET status == deals[proc.deal].status IN
    CASE step = "checkFinanced" -> status # "FINANCED"
      [] step = "checkClosed" /\ proc.resumes ->
           status # "PAID_ON_TIME" \/ Account.exposure # proc.before.exposure - 1
      [] step = "checkClosed" /\ ~proc.resumes ->
           status # "PAID_ON_TIME" \/ Account.exposure # proc.before.exposure
           \/ Account.score # (IF proc.before.score + 25 > 850 THEN 850 ELSE proc.before.score + 25)
      [] OTHER -> FALSE

\* The steps that only read the registry.
Look ==
    /\ proc.at = "step"
    /\ LET step == Head(proc.left) IN
       /\ step \in {"begin", "inspect", "checkFinanced", "checkClosed"}
       /\ proc' =
            CASE step = "inspect" /\ ~Eligible(proc.deal) -> Stop("ineligible")
              [] step = "inspect" /\ Eligible(proc.deal) ->
                   [proc EXCEPT !.before = Account,
                      !.left = IF deals[proc.deal].status = "FINANCED" THEN RepayOn ELSE ReserveOn]
              [] OTHER ->
                   [proc EXCEPT !.left = Tail(@), !.problems = @ \/ Mismatch(step),
                                !.before = IF step = "begin" THEN Account ELSE @]
    /\ UNCHANGED chainVars

\* A successful receipt: on to the next step, the next run, or the report.
Receipt ==
    /\ proc.at = "sending"
    /\ LET x == proc.tx
           w == mined[From(x.act)]
           next == [proc EXCEPT !.at = "step", !.left = Tail(@), !.tx = NoTx, !.tries = 0,
                                !.observed = FALSE] IN
       /\ w.last = x
       /\ proc' =
            CASE ~w.ok -> Stop("reverted")
              [] w.ok /\ x.act = "create" ->
                   [next EXCEPT !.deal = CHOOSE d \in DOMAIN deals : deals[d].by = x]
              [] w.ok /\ x.act \in Payments -> [next EXCEPT !.made = @ \cup {x}]
              [] w.ok /\ x.act = "createReserved" /\ proc.runs > 1 ->
                   [next EXCEPT !.left = Scenario, !.runs = @ - 1, !.made = {}]
              [] w.ok /\ x.act = "createReserved" /\ proc.runs = 1 ->
                   Stop(IF proc.problems THEN "mismatch" ELSE "reported")
              [] OTHER -> next
    /\ UNCHANGED chainVars

\* The receipt does not come within ten minutes.
GiveUp ==
    /\ proc.at = "sending" /\ proc.tries > 0
    /\ mined[From(proc.tx.act)].last # proc.tx
    /\ "slow" \in Faults \/ proc.tx \notin pool
    /\ proc' = Stop("timeout")
    /\ UNCHANGED chainVars

\* waitForAttestation: every payment made so far, or 45 minutes.
Wait ==
    /\ proc.at = "step" /\ Head(proc.left) = "wait"
    /\ \/ proc.made \subseteq attested /\ proc' = [proc EXCEPT !.left = Tail(@)]
       \/ "slow" \in Faults /\ ~(proc.made \subseteq attested) /\ proc' = Stop("timeout")
    /\ UNCHANGED chainVars

\* The operator stops it, a node does not answer, or there is no gas left for the next
\* transaction: the thresholds of preflightAll are the same for any number of runs.
Crash ==
    /\ "crash" \in Faults /\ proc.at # "ended"
    /\ proc' = Stop("crash")
    /\ UNCHANGED chainVars

-----------------------------------------------------------------------------

Init ==
    /\ usdc = [w \in {"A", "B"} |-> IF w = "A" THEN StartA ELSE StartB]
    /\ allowance = [w \in {"A", "B"} |-> 0]
    /\ events = {} /\ attested = {} /\ recorded = {}
    /\ deals = <<>> /\ base = 0
    /\ pool = {}
    /\ mined = [w \in Accounts |-> [count |-> 0, last |-> NoTx, ok |-> TRUE]]
    /\ proc = NoCommand

Command == SkipApproval \/ Sign \/ Broadcast \/ Receipt \/ GiveUp \/ Wait \/ Look

Next ==
    \/ \E fresh \in BOOLEAN, runs \in 1..MaxRuns : StartRuns(fresh, runs)
    \/ \E d \in DOMAIN deals : Resume(d)
    \/ Command
    \/ Crash
    \/ \E w \in Accounts : Mine(w)
    \/ \E x \in pool : Drop(x)
    \/ \E e \in events \ attested : Attest(e)
    \/ \E e \in attested \ recorded : Relay(e)
    \/ \E d \in DOMAIN deals : FallDue(d) \/ MarkDefaulted(d)

Spec == Init /\ [][Next]_vars
-----------------------------------------------------------------------------

\* Types: nothing is recorded before it is attested, and a command at work has a
\* step to take.
TypeOK ==
    /\ usdc \in [{"A", "B"} -> Nat] /\ allowance \in [{"A", "B"} -> Nat]
    /\ recorded \subseteq attested /\ attested \subseteq events
    /\ base \in 0..Len(deals)
    /\ \A d \in DOMAIN deals :
         deals[d].status \in {"CREATED", "FINANCED", "DEFAULTED", "PAID_ON_TIME", "PAID_LATE"}
    /\ proc.at = "sending" => proc.tx # NoTx
    /\ proc.at # "ended" => proc.left # <<>>

\* However often the command is started and wherever it stopped, a deal is funded
\* once by A, and, when the operator resumes only what its comment allows, repaid
\* once and followed by one reserved deal: no lost answer, timeout or late
\* transaction makes it pay twice.
NothingRepeated ==
    /\ TypeOK
    /\ \A d \in DOMAIN deals :
          /\ Cardinality(EventOf("fund", d)) <= 1
          /\ Inspects => /\ Cardinality(EventOf("repay", d)) <= 1
                         /\ Cardinality(Reserves(d)) <= 1

\* "Every blocker is checked before the first transaction": several runs that
\* began with no transaction of an earlier command on its way are never refused
\* for want of USDC or allowance, and for want of credit only where an outcome has
\* taken the limit below what preflightAll read.
PreflightCovers ==
    [][proc.result # "refused" /\ proc'.result = "refused" =>
         \/ ~proc.clean \/ proc.resumes
         \/ Head(proc.left) \in Creations /\ CreditLimit < proc.limit]_vars

\* A command that reports success has closed its deal on time, its unauthorized
\* funding is on record beside the real one, and its reserved deal stays open.
ReportIsTrue ==
    proc.result = "reported" =>
        \E d \in Recorded :
            /\ deals[d].status = "PAID_ON_TIME"
            /\ (IF proc.resumes THEN {"fund", "repay"} ELSE Payments)
                 \subseteq {e.act : e \in {x \in recorded : x.deal = d}}
            /\ Cardinality(Reserves(d)) = 1
=============================================================================
