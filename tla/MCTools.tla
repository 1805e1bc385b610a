------------------------------- MODULE MCTools -------------------------------
(* Small instances of the parts that run on their own: a behaviour is one of *)
(* the wallet file, of the deployment scripts, of the dashboard, of the      *)
(* probe or of the gate capture, while the others stay as they began.  They  *)
(* share no state, so nothing is lost, and their states add up instead of    *)
(* multiplying.  The wallet file's properties hold of its resting state too  *)
(* and are taken as they are; the others are asked of their own part.        *)
EXTENDS WalletFile, Sequences

CONSTANTS
    MaxNonce, MaxReads,
    MaxBlocks, MaxRefreshes, Levels,
    Interval, MaxCatchup, DefaultInterval, DefaultCatchup, SUBMISSION_ALLOWANCE_BLOCKS,
    BlocksPerHour, BatchLimit, batchMax, lagSamples, MaxHead, MaxSampled,
    FUNDING, FACE_VALUE, PARTIAL_A, PARTIAL_B, Balances, Strays, MaxRuns

ASSUME DeployConstants == MaxNonce \in Nat \ {0}
ASSUME ProbeConstants ==
    /\ Interval \in Nat \ {0} /\ MaxCatchup \in Nat
    /\ DefaultInterval \in Nat /\ DefaultCatchup \in Nat
    /\ SUBMISSION_ALLOWANCE_BLOCKS \in Nat /\ BlocksPerHour \in Nat \ {0}
    /\ lagSamples \in Nat \ {0} /\ MaxHead \in Nat
ASSUME GateConstants ==
    /\ FUNDING \in Nat \ {0} /\ FACE_VALUE \in Nat /\ FUNDING < FACE_VALUE /\ FACE_VALUE # 2 * FUNDING
    /\ PARTIAL_A \in Nat /\ PARTIAL_B \in Nat /\ PARTIAL_A + PARTIAL_B = FUNDING
    /\ Balances \cup Strays \subseteq Nat /\ MaxRuns \in Nat

VARIABLES tool,
          nonce, trusts, source, target, script, reads, guarded,
          heads, view, refreshes,
          head, attestedHeight, section, probe, lag, deal,
          usdc, allowance, helper, pool, events, attested, files, index, recorded, run, check

deployVars == <<nonce, trusts, source, target, script, reads, guarded>>
refreshVars == <<heads, view, refreshes>>
probeVars == <<head, attestedHeight, section, probe, lag, deal>>
gateVars == <<usdc, allowance, helper, pool, events, attested, files, index, recorded, run, check>>

Deploys == INSTANCE Deployments
Refresh == INSTANCE LiveRefresh
Probing == INSTANCE Probe WITH attested <- attestedHeight
Gate == INSTANCE GateCapture

ToolsInit ==
    /\ tool \in {"wallets", "deploys", "refresh", "probe", "gate"}
    /\ Init /\ (tool # "wallets" => env.state = "missing")
    /\ Deploys!Init /\ (tool # "deploys" => nonce["source"] = 1 /\ nonce["target"] = 1)
    /\ Refresh!Init
    /\ Probing!Init
    /\ Gate!Init /\ (tool # "gate" => usdc = Gate!Held(0, 0, 0) /\ helper.known = 0)

ToolsNext ==
    /\ UNCHANGED tool
    /\ \/ /\ tool = "wallets" /\ Next
          /\ UNCHANGED <<deployVars, refreshVars, probeVars, gateVars>>
       \/ /\ tool = "deploys" /\ Deploys!Next
          /\ UNCHANGED <<walletVars, refreshVars, probeVars, gateVars>>
       \/ /\ tool = "refresh" /\ Refresh!Next
          /\ UNCHANGED <<walletVars, deployVars, probeVars, gateVars>>
       \/ /\ tool = "probe" /\ Probing!Next
          /\ UNCHANGED <<walletVars, deployVars, refreshVars, gateVars>>
       \/ /\ tool = "gate" /\ Gate!Next
          /\ UNCHANGED <<walletVars, deployVars, refreshVars, probeVars>>

ToolsSpec == ToolsInit /\ [][ToolsNext]_<<tool, walletVars, deployVars, refreshVars, probeVars, gateVars>>

-----------------------------------------------------------------------------
(* The properties of the instanced modules under their own names, each asked *)
(* of its part only.                                                         *)

\* The verifier on record is not at the address of the gateway it trusts, though other
\* transactions move the nonce after its guard, nor is the registry unless one moved it
\* after its own; the verifier the registry trusts is on record with it, and so is the
\* gateway the verifier on record trusts, though another may be deployed since.
RecordsAreSound == tool = "deploys" => Deploys!RecordsAreSound

\* What the dashboard shows is all of one read, the last that succeeded, and when it
\* says MATCH the chain was in the accepted state after one of the changes it spanned.
ShownIsTrue == tool = "refresh" => Refresh!ShownIsTrue

\* A finished report leaves no section unanswered, but for the grace period when the
\* sampling failed, and with the grace period it derives a deal paid in time is not
\* marked defaulted before the proof arrives.
ReportIsSound == tool = "probe" => Probing!ReportIsSound

\* A run that the projection called ready is never short of tokens half way, and a
\* stopped run's balances name the payment it got to.
PlanIsTrue == tool = "gate" => Gate!PlanIsTrue

\* What preflight advises is enough to make the next run ready, or with tokens at the
\* helper the one after, and verify-live passes only if it recorded every fixture itself.
WordIsKept == [][tool = "gate" => Gate!AdvisedIsReady /\ Gate!PassedIsRecorded]_gateVars
=============================================================================
