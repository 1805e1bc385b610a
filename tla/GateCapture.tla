----------------------------- MODULE GateCapture -----------------------------
(***************************************************************************)
(* scripts/capture-gate-fixtures.ts: a chain of payments made once on the  *)
(* live source chain, whose proofs become the fixtures of the verifier's   *)
(* tests; scripts/verify-live.ts, which submits those fixtures; and the    *)
(* plan of lib/live-plan.ts, by which preflight.ts and the capture decide  *)
(* whether the balances let a run begin, and advise the operator.  A run   *)
(* may stop anywhere, and what it sent may be mined later.                 *)
(***************************************************************************)
EXTENDS Integers, SequencesExt, FiniteSetsExt

CONSTANTS
    FUNDING, FACE_VALUE, PARTIAL_A, PARTIAL_B,
    Balances,   \* what A and B may hold at first
    Strays,     \* what somebody may have sent to a helper deployed before
    MaxRuns,    \* bound: times the capture is started
    Faults      \* what may go wrong: crash, lost, slow

VARIABLES
    usdc,       \* balances of A, of B and of the fixture helper
    allowance,  \* A's and B's to the gateway, A's to the last helper
    helper,     \* helpers deployed, and the one in deployments/sepolia.json (0: none)
    pool,       \* transactions that are on their way
    events,     \* payments made on the source chain
    attested,   \* payments a proof can be built for
    files,      \* the fixture files: the payment each of them holds
    index,      \* what index.json lists
    recorded,   \* payments the verifier has recorded
    run,        \* the capture
    check       \* verify-live

chainVars == <<usdc, allowance, helper, pool, events, attested>>
vars == <<usdc, allowance, helper, pool, events, attested, files, index, recorded, run, check>>

-----------------------------------------------------------------------------
(* lib/live-plan.ts *)

INITIAL_USDC_A == FUNDING
INITIAL_USDC_B == FACE_VALUE - FUNDING
PARTIALS == PARTIAL_A + PARTIAL_B

Held(a, b, h) == [A |-> a, B |-> b, H |-> h]
MINIMUM_START == Held(INITIAL_USDC_A, INITIAL_USDC_B, 0)

LIVE_MOVEMENTS ==
    <<[from |-> "A", to |-> "B", amount |-> FUNDING],
      [from |-> "B", to |-> "A", amount |-> FACE_VALUE],
      [from |-> "A", to |-> "H", amount |-> PARTIALS],
      [from |-> "H", to |-> "B", amount |-> PARTIALS]>>

Moved(state, m) == [[state EXCEPT ![m.from] = @ - m.amount] EXCEPT ![m.to] = @ + m.amount]

\* projectUsdc: the state before each movement, as far as they are affordable.
Project(start) ==
    LET before[k \in 1..(Len(LIVE_MOVEMENTS) + 1)] ==
            IF k = 1 THEN start ELSE Moved(before[k - 1], LIVE_MOVEMENTS[k - 1])
    IN before

Unaffordable(start) ==
    {k \in DOMAIN LIVE_MOVEMENTS : Project(start)[k][LIVE_MOVEMENTS[k].from] < LIVE_MOVEMENTS[k].amount}

BadStages ==
    <<MINIMUM_START, Held(0, FUNDING, 0), Held(FACE_VALUE, 0, 0), Held(FACE_VALUE - PARTIALS, INITIAL_USDC_A, 0)>>

CANONICAL_STAGES ==
    <<MINIMUM_START, Held(0, FACE_VALUE, 0), Held(FACE_VALUE, 0, 0),
      Held(FACE_VALUE - PARTIALS, INITIAL_USDC_A, 0)>>

Stages(state) == {k \in DOMAIN CANONICAL_STAGES : CANONICAL_STAGES[k] = state}

Ready(state) == Unaffordable(state) = {}
Partial(state) == Stages(state) \ {1} # {} \/ state.H > 0
Verdict(state) == CASE Ready(state) -> "ready" [] ~Ready(state) /\ Partial(state) -> "skewed"
                    [] OTHER -> "underfunded"

\* The actions diagnose prints: who is short of how much, and who could give it.
BadAdvice(state) ==
    LET k == Min(Unaffordable(state))
        at == Project(state)[k]
        short == LIVE_MOVEMENTS[k].from IN
    {[to |-> short, missing |-> LIVE_MOVEMENTS[k].amount - at[short], donors |-> {}]}

Advice(state) ==
    LET k == Min(Unaffordable(state))
        at == Project(state)[k]
        short == LIVE_MOVEMENTS[k].from
        missing == LIVE_MOVEMENTS[k].amount - at[short] IN
    IF Partial(state)
    THEN {[to |-> short, missing |-> missing,
           donors |-> {w \in {"A", "B"} \ {short} : at[w] >= missing}]}
    ELSE {[to |-> w, missing |-> MINIMUM_START[w] - state[w],
           donors |-> {v \in {"A", "B"} \ {w} :
                          state[v] - MINIMUM_START[v] >= MINIMUM_START[w] - state[w]}] :
            w \in {v \in {"A", "B"} : state[v] < MINIMUM_START[v]}}

-----------------------------------------------------------------------------
(* The source chain. *)

Kinds == <<"fund", "repay", "double">>
Wallet(step) == IF step \in {"approveB", "repay"} THEN "B" ELSE "A"
Step(name, n) == [step |-> name, run |-> n]

\* The helper takes the tokens of A and pays B twice in one transaction.
Payment(kind) ==
    CASE kind = "fund" -> [from |-> "A", to |-> "B", amount |-> FUNDING, by |-> "A"]
      [] kind = "repay" -> [from |-> "B", to |-> "A", amount |-> FACE_VALUE, by |-> "B"]
      [] kind = "double" -> [from |-> "A", to |-> "B", amount |-> PARTIALS, by |-> "H"]

Covered(kind) ==
    LET m == Payment(kind) IN usdc[m.from] >= m.amount /\ allowance[m.by] >= m.amount

Mine(x) ==
    /\ \A y \in pool : Wallet(y.step) = Wallet(x.step) => x.run <= y.run
    /\ pool' = pool \ {x}
    /\ LET pays == x.step \in Range(Kinds) /\ Covered(x.step) IN
       /\ usdc' = IF pays THEN Moved(usdc, Payment(x.step)) ELSE usdc
       /\ events' = IF pays THEN events \cup {x} ELSE events
       /\ allowance' =
            CASE pays -> [allowance EXCEPT ![Payment(x.step).by] = @ - Payment(x.step).amount]
              [] x.step = "approveA" -> [allowance EXCEPT !.A = FUNDING]
              [] x.step = "approveB" -> [allowance EXCEPT !.B = FACE_VALUE]
              [] x.step = "approveHelper" -> [allowance EXCEPT !.H = PARTIALS]
              [] x.step = "deploy" -> [allowance EXCEPT !.H = 0]
              [] OTHER -> allowance
       /\ helper' = IF x.step = "deploy" THEN [helper EXCEPT !.deployed = @ + 1] ELSE helper
    /\ UNCHANGED <<attested, files, index, recorded, run, check>>

Attest(e) ==
    /\ attested' = attested \cup {e}
    /\ UNCHANGED <<usdc, allowance, helper, pool, events, files, index, recorded, run, check>>

-----------------------------------------------------------------------------
(* The capture. *)

Order == <<"approveA", "fund", "requireB", "approveB", "repay", "requireA", "deploy",
           "approveHelper", "double", "record", "wait", "fund.json", "repay.json",
           "double.json", "index">>

Sends == {"approveA", "fund", "approveB", "repay", "deploy", "approveHelper", "double"}
FileOf(step) == CASE step = "fund.json" -> "fund" [] step = "repay.json" -> "repay"
                  [] OTHER -> "double"

Idle == run.next = 0
Doing == IF Idle THEN "nothing" ELSE Order[run.next]
Advance == [run EXCEPT !.next = (@ + 1) % (Len(Order) + 1), !.sent = FALSE,
                       !.result = IF run.next = Len(Order) THEN "done" ELSE @]
Stop(result) == [run EXCEPT !.next = 0, !.sent = FALSE, !.result = result]

\* main, up to the first transaction: it refuses to begin unless ready.
StartCapture ==
    /\ Idle /\ check.left = {} /\ run.number < MaxRuns
    /\ Verdict(usdc) = "ready"
    /\ run' = [number |-> run.number + 1, next |-> 1, sent |-> FALSE, result |-> "running",
               origin |-> usdc, clean |-> pool = {}, moved |-> FALSE]
    /\ UNCHANGED <<chainVars, files, index, recorded, check>>

\* ensureAllowance and ensureFixtureHelper find that nothing is to be sent.
Unneeded(step) ==
    CASE step = "approveA" -> allowance.A >= FUNDING
      [] step = "approveB" -> allowance.B >= FACE_VALUE
      [] step = "approveHelper" -> allowance.H >= PARTIALS
      [] step = "deploy" -> helper.known # 0
      [] OTHER -> FALSE

Skip ==
    /\ ~run.sent /\ Unneeded(Doing)
    /\ run' = Advance
    /\ UNCHANGED <<chainVars, files, index, recorded, check>>

\* A payment the node estimates to fail is not sent; an answer that is lost ends
\* the run whether or not the transaction arrived.
Send ==
    /\ Doing \in Sends /\ ~run.sent /\ ~Unneeded(Doing)
    /\ LET x == Step(Doing, run.number) IN
       \/ Doing \in Range(Kinds) /\ ~Covered(Doing) /\ run' = Stop("unpaid") /\ UNCHANGED pool
       \/ /\ Doing \in Range(Kinds) => Covered(Doing)
          /\ pool' = pool \cup {x} /\ run' = [run EXCEPT !.sent = TRUE]
       \/ "lost" \in Faults /\ pool' \in {pool, pool \cup {x}} /\ run' = Stop("lost")
    /\ UNCHANGED <<usdc, allowance, helper, events, attested, files, index, recorded, check>>

\* tx.wait(): a payment that was mined without success has failed.
Confirm ==
    /\ run.sent /\ Step(Doing, run.number) \notin pool
    /\ run' = IF Doing \in Range(Kinds) /\ Step(Doing, run.number) \notin events
              THEN Stop("failed") ELSE Advance
    /\ UNCHANGED <<chainVars, files, index, recorded, check>>

\* requireTokenBalance, between two transactions.
Require ==
    /\ Doing \in {"requireA", "requireB"}
    /\ run' = IF (Doing = "requireB" /\ usdc.B >= FACE_VALUE)
                 \/ (Doing = "requireA" /\ usdc.A >= PARTIALS)
              THEN Advance ELSE Stop("unpaid")
    /\ UNCHANGED <<chainVars, files, index, recorded, check>>

\* writeDeployment: only now is the helper remembered.
Record ==
    /\ Doing = "record"
    /\ helper' = [helper EXCEPT !.known = helper.deployed]
    /\ run' = Advance
    /\ UNCHANGED <<usdc, allowance, pool, events, attested, files, index, recorded, check>>

Captured == {Step(kind, run.number) : kind \in Range(Kinds)}

\* waitForAttestation covers the highest block, or 45 minutes have passed.
Wait ==
    /\ Doing = "wait"
    /\ \/ Captured \subseteq attested /\ run' = Advance
       \/ /\ "slow" \in Faults /\ ~(Captured \subseteq attested)
          /\ run' = Stop("waited")
    /\ UNCHANGED <<chainVars, files, index, recorded, check>>

\* getProof and buildFixture; the index is written when every file is.
Save ==
    /\ \/ /\ Doing \in {"fund.json", "repay.json", "double.json"}
          /\ files' = [files EXCEPT ![FileOf(Doing)] = Step(FileOf(Doing), run.number)]
          /\ UNCHANGED index
       \/ Doing = "index" /\ index' = Captured /\ UNCHANGED files
    /\ run' = Advance
    /\ UNCHANGED <<chainVars, recorded, check>>

Crash ==
    /\ "crash" \in Faults
    /\ \/ ~Idle /\ run' = Stop("crash") /\ UNCHANGED check
       \/ check.left # {} /\ check' = [check EXCEPT !.left = {}, !.result = "crash"] /\ UNCHANGED run
    /\ UNCHANGED <<chainVars, files, index, recorded>>

\* The operator does what preflight printed, all of it, in one way or the other.
FollowAdvice ==
    /\ Idle /\ check.left = {} /\ run.number < MaxRuns /\ Verdict(usdc) # "ready"
    /\ \E faucet \in BOOLEAN :
         usdc' = FoldSet(LAMBDA need, held :
                    IF faucet \/ need.donors = {}
                    THEN [held EXCEPT ![need.to] = @ + need.missing]
                    ELSE Moved(held, [from |-> CHOOSE w \in need.donors : TRUE,
                                      to |-> need.to, amount |-> need.missing]),
                    usdc, Advice(usdc))
    /\ run' = [run EXCEPT !.moved = TRUE]
    /\ UNCHANGED <<allowance, helper, pool, events, attested, files, index, recorded, check>>

-----------------------------------------------------------------------------
(* verify-live *)

NoFile == Step("none", 0)

StartVerify ==
    /\ Idle /\ check.left = {}
    /\ \E kind \in DOMAIN files : files[kind] # NoFile
    /\ check' = [left |-> {kind \in DOMAIN files : files[kind] # NoFile}, failures |-> 0,
                 before |-> recorded, result |-> "running"]
    /\ UNCHANGED <<chainVars, files, index, recorded, run>>

\* A fixture with a fresh proof: the dry run fails when it is already recorded.
Verify(kind) ==
    /\ kind \in check.left
    /\ LET failures == check.failures + IF files[kind] \in recorded THEN 1 ELSE 0 IN
       check' = [check EXCEPT
                   !.left = @ \ {kind}, !.failures = failures,
                   !.result = CASE check.left # {kind} -> "running"
                              [] check.left = {kind} /\ failures > 0 -> "failed"
                              [] OTHER -> "passed"]
    /\ recorded' = recorded \cup {files[kind]}
    /\ UNCHANGED <<chainVars, files, index, run>>

-----------------------------------------------------------------------------

Init ==
    /\ \E first \in 0..1, h \in Strays \cup {0} :
          /\ helper = [deployed |-> first, known |-> first]
          /\ first = 0 => h = 0
          /\ usdc \in {Held(a, b, h) : a \in Balances, b \in Balances}
    /\ allowance = Held(0, 0, 0)
    /\ pool = {} /\ events = {} /\ attested = {} /\ recorded = {} /\ index = {}
    /\ files = [kind \in Range(Kinds) |-> NoFile]
    /\ run = [number |-> 0, next |-> 0, sent |-> FALSE, result |-> "none", origin |-> usdc,
              clean |-> TRUE, moved |-> FALSE]
    /\ check = [left |-> {}, failures |-> 0, before |-> {}, result |-> "none"]

Next ==
    \/ StartCapture \/ Skip \/ Send \/ Confirm \/ Require \/ Record \/ Wait \/ Save
    \/ Crash
    \/ FollowAdvice
    \/ StartVerify
    \/ \E kind \in Range(Kinds) : Verify(kind)
    \/ \E x \in pool : Mine(x)
    \/ \E e \in events \ attested : Attest(e)

Spec == Init /\ [][Next]_vars

-----------------------------------------------------------------------------

\* Types: the index lists only what was attested when its proof was fetched.
TypeOK ==
    /\ usdc \in [{"A", "B", "H"} -> Nat] /\ allowance \in [{"A", "B", "H"} -> Nat]
    /\ helper.known <= helper.deployed
    /\ attested \subseteq events /\ recorded \subseteq attested
    /\ index \subseteq attested /\ run.next \in 0..Len(Order)

\* The projection tells what will happen: a run that was ready, with nothing of an
\* earlier one on its way, never finds itself short of tokens between two steps.
ReadyRunIsPaid == run.result \in {"unpaid", "failed"} => ~run.clean

\* A run funded with exactly the minimum leaves balances that name the payment it
\* got to, and only a run that paid nothing leaves what is taken for a start.
StoppedRunIsRecognised ==
    LET made == {e \in events : e.run = run.number} IN
    Idle /\ pool = {} /\ run.clean /\ ~run.moved /\ run.origin = MINIMUM_START =>
        /\ usdc = CANONICAL_STAGES[Cardinality(made) + 1]
        /\ Verdict(usdc) = IF made = {} THEN "ready" ELSE "skewed"

\* What preflight advises is enough when the helper holds nothing: when all of it is
\* done, in either way it offers, the next run is ready.  With tokens at the helper
\* only the first payment that cannot be made is looked at, whatever it is that is
\* wrong: what is advised then makes that one affordable and unmakes none before it,
\* so that a second round may be needed and a third never is.
AdvisedIsReady ==
    FollowAdvice =>
        \/ Ready(usdc')
        \/ usdc.H > 0 /\ Min(Unaffordable(usdc)) = 1 /\ Min(Unaffordable(usdc')) = 2

\* verify-live passes only if it recorded every fixture itself: after a run of it
\* that got half way, or a second time, it does not.
PassedIsRecorded ==
    check.left # {} /\ check'.result = "passed" =>
        \A kind \in DOMAIN files : files[kind] # NoFile =>
            files[kind] \in recorded' \ check.before

\* What the plan says of balances is so, in every state of a run.
PlanIsTrue == TypeOK /\ ReadyRunIsPaid /\ StoppedRunIsRecognised

\* What the two commands tell the operator is so.
WordIsKept == [][AdvisedIsReady /\ PassedIsRecorded]_vars
=============================================================================
