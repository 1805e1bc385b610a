# A verification development of Cr3dX

Cr3dX is a credit registry on Creditcoin for invoice deals whose money moves on
another chain. A payer calls a small *gateway* contract on the source chain; the
event it leaves is proven on Creditcoin by a native block prover; a *verifier*
records the event as an immutable fact; a *registry* gives the fact a meaning for
a deal; a *credit* contract keeps limits, exposure and a score per borrower. An
off-chain *worker* carries proofs from one chain to the other. Around them stand
the operator's tools: scripts that create wallets, probe the networks, deploy the
contracts and drive real deals, and a page that shows one deal live.

This directory holds TLA+ modules of the on-chain protocol, of the worker and of
the tools, the TLC configurations that check them on small instances, and TLAPS
proofs, for every value of the constants, of all the safety properties of the
contracts and of the worker, and of those of the tools.

Paths below are relative to the repository root. `INV-n` are the invariants the
repository's own documents number; the properties quote them where one is meant.

## 1. Inventory

| Component | Code | State | Operations | Modelled in |
|---|---|---|---|---|
| Source gateway | `contracts/Cr3dXGateway.sol` | one event counter `nonce` | `fund`, `repay` | `Cr3dXGateway` |
| Evidence verifier | `contracts/Cr3dXVerifier.sol` | facts by identifier | `submitEvidence`, `submitEvidenceBatch`, views | `Cr3dXVerifier` |
| Deal registry | `contracts/Cr3dXDeals.sol` | `_deals`, `_applications`, `_nextDealSeq` | `createDeal`, `markDefaulted`, `applyEvidence`, `submitAndApply(Batch)` | `Cr3dXDeals` |
| Credit layer | `contracts/Cr3dXCredit.sol` | records, `reserved`, `exposure`, outcome counters | `openDeal`, `markFinanced`, `reduceExposure`, `recordOutcome`, score and limit views | `Cr3dXCredit` |
| Attestcoin precompiles | `contracts/interfaces/IBlockProver.sol`, `IChainInfo.sol` | attested height, proof checks | external | `Attest`, `Provable` |
| Worker engine | `worker/engine.ts`, `policy.ts`, `state.ts`, `enrollment.ts` | one JSON task per source transaction; cursor, alarms, enrollments | scan, tick, attempt, reconcile, resume, enroll | `SourceScan` (discovery), `WorkerEngine` (everything after it) |
| Worker chain access and commands | `worker/chain.ts`, `cli.ts`, `config.ts`, `launch.sh` | a lock | RPC reads, signing, broadcast, operator commands | `WorkerChains`, as the worker's environment; the commands in the two modules above |
| User interface | `ui/src/live-state.ts`, `main.ts`, `rpc.ts` | last observation shown | refresh, compare, mark stale | `LiveRefresh` |
| Wallet environment file | `scripts/lib/env-persistence.ts`, `create-wallets.ts` | one file with secrets | inspect, read, generate, write, check, rename | `WalletFile` |
| Deployment scripts | `scripts/deploy-*.ts`, `lib/artifacts.ts` | `deployments/*.json` | guard, deploy, recheck, merge | `Deployments` |
| Live deal command | `scripts/deal-live.ts`, `lib/s5-plan.ts` | none of its own | preflight, scenario, resume, send a known transaction | `LiveDeal` |
| Gate capture and live check | `scripts/capture-gate-fixtures.ts`, `verify-live.ts`, `preflight.ts`, `lib/live-plan.ts` | fixture files and their index | project, diagnose, advise, pay, wait, save, verify | `GateCapture` |
| Network probe | `scripts/probe.ts`, `lib/report.ts` | a report | sections, lag sampling, grace period | `Probe` |
| Fixture capture, script libraries | `scripts/capture-fixtures.ts`, `lib/proofs.ts`, `precompiles.ts`, `rpc.ts` | none | single reads | not modelled |

### How they interact

* The **gateway** numbers its events with one counter over both kinds, emits
  before it transfers, and relies on the revert of the transfer to withdraw the
  event.
* The **verifier** is open to anyone. It proves a whole source transaction,
  keeps only logs of the gateway's address, and records all of them or reverts.
* The **registry** calls the verifier in `submitAndApply` and reads it in
  `applyEvidence`. A fact it cannot use yet leaves no trace in the registry: it
  is decided by a later call. Settlement is *derived* from three totals
  (`fundedAmount`, `repaidAmount`, `onTimeRepaid`) each time one moves.
* The registry calls the **credit layer** in the same transaction, on three paths
  (financing, repayment, outcome). A revert there undoes the whole submission.
* The **worker** discovers gateway events, waits for attestation, and sends
  submissions and applications through one nonce lane. It persists a signed
  transaction before it broadcasts it. It competes with anybody else who submits.
* The **UI** reads the contracts when asked to and compares what it reads with an
  accepted snapshot.
* The **scripts** are run by hand, one after another or beside each other. The probe's
  grace period is built into the registry the deployment scripts deploy; each script
  finds its predecessor's contract in a file; the live command and the gate capture
  send real payments with the wallets of the environment file. None of them keeps a
  journal: after a stop the operator starts again, and only the chains know what
  was done.

### What is hard

* **Order.** Proofs arrive in any order, in one submission or several: a repayment
  before its funding, a default before the proof of a timely payment, an
  outcome refined twice. The contracts promise that only *when money moved*
  matters, never when it was proven.
* **Two ledgers.** A deal's status and its canonical outcome live in different
  contracts and are written on three paths.
* **Saturating arithmetic.** `Cr3dXCredit` subtracts with a floor at zero, so a
  double conversion or an overpayment would leave no revert behind, only a wrong
  limit for every other deal of the borrower.
* **Atomicity.** A batch records everything or nothing. Nothing anybody submitted
  earlier may make a payment unrecordable.
* **Limits of the range.** A due block near the top of `uint64` plus the grace
  period exceeds it.
* **Off-chain.** Crash between sign, persist and broadcast; source reorganisation;
  retry epochs that expire; an operator's resume; a cursor over a chain that forks.
* **Run by hand.** A script may stop anywhere and be run again while what it sent is
  still on its way; several may share a file, a wallet's nonces or its balances.

The full list, at its lines, is `hazards` in `PROJECT.json`.

### What makes each component correct

* Gateway: events are numbered 0, 1, 2, ... without gap or repeat, and the
  balances are exactly what the events say.
* Verifier: a fact is a gateway event of an attested successful transaction;
  all-or-nothing per transaction; no payment can be shut out.
* Credit: counters are a recount of canonical outcomes, the checked decrement
  never reverts, reserve and exposure are sums over the borrower's own deals, a
  commitment that grows respects the limit.
* Registry: totals are sums over the applied facts; status is the function of the
  totals the lifecycle defines; both ledgers agree; a fact is refused for exactly
  one reason and for good; the result forgets delivery order; no fact is stranded;
  defaults are earned.
* Worker: one signature per nonce, whose bytes are kept until they are final;
  whatever it believes of the destination is so; deadlines hold; a payment on the
  canonical source chain is carried to a decision, waits for its deal, or is raised
  to an operator. Scan: the cursor passes nothing, a partly enrolled transaction is
  never set going, unless the operator resumes it.
* Tools: no payment twice, no key or deployment lost, no promise of readiness that
  the next step breaks, no report or display of what was not so.

## 2. Modules

| Module | Role |
|---|---|
| `Cr3dXGateway` | the source chain: calls, logs, reverts, blocks |
| `Cr3dXVerifier` | proof of transactions into facts; the source history is a parameter |
| `SourceToVerifier` | gateway + verifier + attestation |
| `Cr3dXCredit` | storage operators of the credit layer, and the contract under any caller |
| `DealLedger` | abstract: status as a function of the *set* of facts counted |
| `Cr3dXDeals` | registry + verifier + credit layer, one action per transaction |
| `WorkerChains` | both chains as the worker meets them, other parties included |
| `WorkerRegistry` | the two halves put together: `Cr3dXDeals` as the registry of `WorkerChains` |
| `WorkerEngine` | the worker's process, its task files and alarms, over `WorkerChains` |
| `SourceScan` | the worker's scan: cursor, windows, enrollment, admission, forks |
| `LiveDeal` | the live command, both chains and the operator who repeats it |
| `GateCapture` | the gate capture, the plan of its balances and the check of its fixtures |
| `Deployments` | the deployment scripts, their records and the deployer's nonces |
| `Probe` | the probe, the attestation lag beside it and the deal its constant is for |
| `LiveRefresh` | the dashboard's refresh over a chain that moves |
| `WalletFile` | runs of the wallet command and an editor on one file |
| `FoldLemmas` | lemmas: recursion over `0..n`, folds and concatenation of sequences, sums over finite sets |
| `Cr3dXCredit_proofs`, `Cr3dXDeals_proofs`, `SourceToVerifier_proofs`, `SourceScan_proofs`, `WorkerEngine_proofs`, `LiveDeal_proofs` | theorems, each on the module it is named after |
| `Tools_proofs` | theorems on the tools that `MCTools` runs: wallet file, deployments, page, probe, gate capture |
| `MC*` | small instances; `MCTools` chooses one of five tools and runs it alone |

### Correspondence with the code

A Creditcoin transaction is atomic, so an action is one transaction. An external
function of the credit layer is a pair of operators on its storage, `MayX` (the
function does not revert) and `X` (what it leaves). Inside a registry transaction
the state reached so far is a record `w`; `CallCredit` either threads the credit
storage through or marks `w` reverted, and `Commit` lets the action happen only if
`w` did not revert. `_applySubmitted`'s two stable passes (fundings, then
repayments) are folds over the facts in returned order. `Classify` is the
uncached classification a submission uses; `Apply` is `applyEvidence`, which
returns early for a decided fact.

Abstractions, and why they lose nothing the properties tell apart:

* `dealIdOf` hashes the terms and the sequence number. The model uses the pair as
  the identifier: it is unique, known before the deal exists, and carries the
  immutable fields, which `deals` therefore does not repeat. A quoted identifier
  that never becomes a deal behaves as one not created yet.
* `uint256` and `uint64` values are naturals, except that heights have a maximum and
  the default threshold is computed beyond it, as the code's widened sum is.
  Token amounts cannot approach 2^256 on a chain whose supply is a `uint256`.
* Block prover and ChainInfo are external: a transaction is provable when its block
  is attested; the attested height grows by jumps of any size. A source
  reorganisation below an attested height is outside the protocol's trust model and
  excluded.
* In `Cr3dXDeals` the whole source history is a constant, `SourceTxs`; the attested
  height decides how much of it can be proven. `SourceToVerifier` grows the history
  by gateway calls.
* Views, constructor wiring, events of Creditcoin contracts and revert payloads are
  left out.

### The worker

`worker/engine.ts` is one sequential process whose every `await` may take any time.
`tasks` is the directory of task files, `alarms` the `globalAttentionReasons` of the
state file; both survive a crash. `proc` is the process: the place it has reached,
the task and event it works on, and what it has read so far. An action runs from one
read of a chain to the next one *whose order matters*, or to a durable write or a
broadcast. So the identifiers of an inclusion are read one at a time (`ReadSeen`,
the code's `Promise.all` over `seen`), a receipt is read before the semantic state
and the nonces last (`ReadReceipt`, `ReconcileEnvelopeSemantic`, `Resend`), the
canonical hash before the head (`ReadReceipt`, `ReadHead`), logs before receipts
(`FindLogs`, `IngestReceipt`), while `evidenceState` and `dealView` of the facts of
one task are read together. `persistSignedEnvelope` is one action: it reads the
nonces and ends in the write of the envelope. A re-inclusion whose old evidence is
recorded is two writes (`CheckInclusion`, `RaiseIncident`), and a crash may come
between them.

| Code | Model |
|---|---|
| `currentInclusion` | `inc`, the number of the inclusion, 0 for none; `events` its records |
| `submissionEpoch`, `applicationEpoch` | `epoch`: `NONE`, `OPEN`, `EXPIRED` |
| `prerequisiteSnapshot` | `snapshot`: the deal's status (its designated investor is fixed at creation) |
| `inFlight`, `resolutionDeadlineAt` | `inFlight.signed`, `inFlight.window`; `NONE` while `broadcastCount` is 0 |
| `operationHistory` | `nonces`: all `expectedNextNonce` reads of it |
| `APPLIED`, `REJECTED_PERMANENT` | `DECIDED`: the engine treats both alike |
| an exception of an RPC call | `ReadFails`: a retry inside an attempt, the end of the pass elsewhere |

`WorkerChains` keeps of the contracts what the worker can observe: which identifiers
are recorded and decided, and the status of each deal. Recording is all or nothing,
applying is idempotent and needs the deal, financing for a repayment: what the
modules above establish. An identifier is a transaction, an inclusion of it and a log,
since `evidenceIdOf` hashes the height and index of the inclusion. A transaction of
the signer is in the mempool, mined with an outcome, or lost; the last mined block
can be replaced until two blocks are built on it.

`WorkerRegistry` joins the two halves: it reads the registry of `Cr3dXDeals` as the worker
does through `chain.ts` (`RegistryRead`: `seen`, `evidenceStateOf`, `getDeal`) and
instantiates `WorkerChains` with that. `createDeal` is `OpenDeal`, `applyEvidence` is
`OutsiderApplies`, a submission of one transaction is `OutsiderSubmits`; a batch records
and applies the facts of several at once (`Submitted`), which leaves what the same
submissions and applications leave one after another. A default and an attestation
change nothing the worker reads of the registry. `WorkerChains` knows neither amounts nor
credit: that it needs none is what `mc_deals_edge` and the theorems show, for payments that
reach the required sum (`FundingsSuffice`), the one kind of funding `WorkerChains` has.
A funding that falls short is in `Cr3dXDeals` only. A source transaction that is
included again has another height, so it is another of `SourceTxs`.

Left out of `WorkerEngine`: the block cursor and its windows (each scan sees every
transaction on the chain, as the rescan of a hundred blocks does for recent ones;
`SourceScan` has them), the limits on events and tasks (likewise), delays between
retries (a retry may be due or not when reads can fail; five seconds between
broadcasts: any tick may be too soon), fees and balance (a nondeterministic stop),
bootstrap (at nonce 0), the informational writes of a receipt's block into the
envelope, and `FAILED` and `OBSERVED`, which the engine never writes.

### The scan

`SourceScan` is `scanOnce` in detail, with `WorkerEngine`'s tasks reduced to what
discovery can tell apart. `head`, `forks` and `mined` are the source chain: a block is
told from its replacement by the fork it was built on, as the code tells them by
hash. The cursor, the alarms, the tasks and the enrollments are on disk; `pass` is
what a stop loses. A pass checks the inclusion of every task (`CheckInclusion`), reads
the head, then a window's logs (`FindLogs`), then receipt after receipt
(`IngestReceipt`), and writes the cursor at the end of the window (`Advance`); the
chain may grow or fork between any two of these. The two writes of a re-inclusion that
must be stopped are one step with a crash between them as another (`Interrupted`).
`Enroll` and `Resume` happen between passes only: `launch.sh` holds a lock that the commands
and the worker share. `Resume` sets a stopped task going under the inclusion it has, whatever
stopped it (`engine.ts:167-186`). `Carry` stands for the engine's `tick`. An envelope in flight
across a reorganization is the business of `WorkerEngine`.

### The tools

A read of a chain or a file whose order matters, a write and a transaction are actions;
what lies between is one step.

* `LiveDeal`: `proc.left` is the rest of the scenario, so the order of the code's steps
  is a sequence, and a resumed command takes its tail. `sendKnownTransaction` is
  `Sign`, `Broadcast` (the same bytes, with an answer or without), `Receipt` and
  `GiveUp`. Both chains mine by nonce. Debts and limits are counted in deals, since
  every deal has one face value; the limit follows the score, which the deals closed on time,
  late and in default make. `Relay` is anybody else's submission, `MarkDefaulted`
  anybody's call. Gas is left out: the thresholds of the preflight are not scaled by the
  number of runs (`deal-live.ts:402,438-441`), so that it promises nothing of the runs
  after the first, and a command that runs out of gas is one that stops (`Crash`).
* `GateCapture`: `LIVE_MOVEMENTS`, `CANONICAL_STAGES`, the projection, the verdict and the
  advice are operators on balances, as in `lib/live-plan.ts`; `Order` is the capture's script;
  `FollowAdvice` is an operator who does what was printed. A helper may stand there from the
  beginning and hold tokens somebody sent it (`Strays`).
* `Deployments`: an address is the nonce it was deployed at, so a coincidence of addresses on
  two chains is an equality. A merge is two steps, since the record is read again before it is
  written. The operator may delete the gateway's entry to deploy a fresh one (`DeleteGateway`),
  as `deploy-gateway.ts:42-45` tells him.
* `Probe`: the sampling task runs beside the sections. `Backlog` says how far
  attestation may trail: what was measured plus one leap, the premise on which the
  code derives the constant. The deal at the end uses the registry's rule
  (`height > dueBlock + grace`, at the attested height).
* `LiveRefresh`: `rpc.ts` reads in two groups without fixing a block; each value is
  taken after one of the changes the refresh spans. A block of the model is one change of
  the borrower; of several in one block of the chain only the last can be read, and what
  is said of one change is not said of such a block.
* `WalletFile`: the identity (`stamp`) is taken before the content is read and compared
  before the rename. A symbolic link is what it resolves to.

Several instances of one deployment script at once on one file, and the loss of the
process between two bytes of a write, other than as a record that does not parse, are
left out.

## 3. Runs

| Run | Question |
|---|---|
| `mc_credit` | Does the credit layer keep its books whatever an authorised caller does? Calls come in *every* order, so nothing depends on the registry. |
| `mc_source` | Is a fact always a payment, and can every payment become a fact? |
| `mc_deals` | The registry's accounting, lifecycle and independence of delivery order. |
| `mc_deals_edge` | Deadlines at both ends of the height range, a limit that shrinks and recovers, refinement of `DealLedger`; the contracts do, and refuse, what the worker's model expects of them; with retries, no proven payment of a financed deal waits forever. |
| `worker_lane` | Is a nonce ever signed twice, whatever happens to the process, the destination or the key? |
| `worker_faults` | Do deadlines, stops, reorganizations of the source, failures and the operator's commands leave a fact that looks in flight or ready and is not, a belief about the destination that is not so, an envelope altered or forgotten, or a deadline that begins again by itself? |
| `worker_live` | Is every payment carried through, and no envelope released early? |
| `scan` | Does the cursor ever pass an event the worker should serve, is a partly enrolled transaction ever set going but by the operator's resume, is every event met? |
| `live_deal` | Can stops, lost answers, late transactions, defaults and reruns make the command pay twice, be refused after its preflight for want of USDC, allowance or a credit limit that did not fall, or report what is not so? |
| `tools` | The wallet file, the deployments, the page, the probe and the capture, each alone: what section 1 asks of them. |
| `worker_find_*` | Two disagreements of code and documents, below. |

A property that joins named parts (`AmountsAreSums`, `PlanIsTrue`, ...) is one invariant
of a run; the parts are stated and commented on their own in the module.

Bounds.

* `MCCredit`: three deals, two borrowers, amounts 3 and 6, `BaseLimit` 10. Three
  deals allow one reserved, one financed and one closed for one borrower at once,
  and the two amounts make the limit bind after one or two openings. Deals and
  borrowers are symmetric. (The height only has to exist or not: two heights.)
* `MCSourceToVerifier`: three source transactions of one or two calls, a supply of 3
  so that the second payment of 2 by one account fails, a lookalike contract, every
  call the gateway refuses, batches of two. The chain is finite, so the system
  stops and deadlock is not checked.
* `MCDeals`: two deals of one borrower and six source transactions chosen so that
  both deals can end in every status, funding is split, in surplus and from the
  wrong investor, repayments are early, late, over the debt, by a third party and to
  the wrong payee, and one transaction repays before it funds. Batches of two cover
  order within a log list and between transactions.
* `MCDealsEdge`: a deal due at height 0 and one due at the maximum, so that one default
  is possible at once and the other never is; two borrowers; terms `createDeal`
  refuses; failed and foreign transactions; a limit of 8 that falls to 4 after a
  default and recovers to 7 after a late payment. The instance serves `WorkerRegistry`
  too: fundings of the required sum and beyond it, and a transaction that funds and repays
  a deal. A submission is one transaction; for batches there is the theorem.
* `MCWorker`: one transaction with a funding and a repayment (`Together`: application order,
  pending facts, partial visibility), two transactions alike (`Apart`: two tasks compete for the
  nonce lane; they are interchangeable, which `SYMMETRY` uses), or one fact (`SingleLogs`). Two
  inclusions are needed for a reorganization to be followed by a re-inclusion; one nonce is
  spent per submission and per application: four let every fact be submitted, applied in vain
  and applied again, and fewer where two tasks or an operator multiply the states. At `MaxNonce`
  the worker stops as it does when the rolling budget is spent. `Faults` is what may go wrong in
  a run: each run takes those that can disturb its properties, since all thirteen at once exceed
  the time of a run. `outsider` is absent from the lane's run, since other parties spend no
  nonce of the signer; `destReorg` and `foreign` are present there only (that the worker's other
  properties hold with them, or which of them ask for a destination that does not go back, is
  proved). `worker_faults` has one task and ten faults at once.
* `MCScan`: a payment of one deal and a transaction that pays for two, which is partly
  enrolled until both are. Windows of two and an overlap of one over four blocks make
  the scan cross a window, come back over the overlap, and meet a fork inside either;
  the code has 1000 and 100. One fork of one block, no deeper than the overlap: what is
  re-included below the overlap is beyond what the code claims. One unfinished task at
  a time makes the limit bind; two enrollments, one failure or stop. `Earlier` is
  empty: enrollments from a past block are allowed by the module, and are served only
  within the overlap (below). The limit on events of a transaction is not reached.
* `MCLiveDeal`: two starts of the command, up to two deals each, balances for two deals
  and no more; two broadcasts where the code has six. `BaseLimit` is the limit of two deals:
  at the score a late payment or a default leaves, it is that of one. The first start finds
  B with little CTC (`Poor`), the second does not.
  `Inspects` is the precondition the code's own comment states for `--resume-deal`: the
  operator resumes only what got no further, nothing of it being on its way. Without it
  a repayment can be made twice.
* `MCTools`: two runs of the wallet command and two edits; five nonces and five reads for the
  deployment scripts, enough for each to be deployed, redeployed and disturbed; three changes
  and two refreshes; an attestation interval of 2 and a leap of 4 against defaults of 1 and 3,
  so that the defaults are too small and are told from the real values; balances around every
  amount the capture's plan compares with, and a helper with nothing or with one unit of its
  own. The command line stops, so deadlock is not checked.

Fairness. `FairSpec` of `SourceScan` is weak fairness of the pass as a whole: `cli.ts` begins
another when one ends. `FairSpec` of `Cr3dXDeals` assumes weak fairness of `ApplyEvidence(f)`
for each fact: the function is permissionless and idempotent, it needs nothing but gas, and both
the worker (which retries waiting events) and the payer have a reason to call it. Nothing is
assumed about new deals, proofs, defaults or attestation.

`WorkerEngine`'s `FairSpec` assumes what the endless loop of `cli.ts` gives: the
process goes on with the pass it is in (`Step`, weakly fair), begins scans and ticks
again and again (strongly fair: each is enabled only between passes), is restarted
after a crash, and does find five seconds passed at some tick. Of the chains it
assumes that a block that stays is attested, and that the destination mines what it
holds and grows. Crashes and losses from the mempool happen any finite number of
times. Nothing is assumed of deals, other parties or the operator. In `Carried`, a
payment is settled when an alarm or an attention state has told an operator: what
the engine does about needless alarms is the subject of the findings.

Each property has a mutant in `PROJECT.json`: a plausible bug in a mapped
definition (operators named `Bad...`, never used by the specifications) under
which the run's configuration must report that property violated.

### Where code and documents disagree

Each is a run that TLC must find violated; `findings` in `PROJECT.json` quotes the lines.

1. `PendingIsRevisited` (`engine.ts:707`). A confirmed application that left its fact
   pending takes the snapshot of the deal at finalization (or while it is in flight,
   `engine.ts:421-424`), blocks after it ran. If what it waits for appeared in between, the
   snapshot already shows it: no change is ever seen (`engine.ts:425`), and nothing
   applies the fact. Such an application comes from the operator's `resume`
   (`engine.ts:178-183`), which sets a pending fact ready whether its deal is or not;
   otherwise one is attempted only when the deal is. In the run it is a funding, resumed
   before its deal exists, whose deal is created before the application is final: its
   snapshot says CREATED, and it stays pending.
2. `IncidentStopsTask` (`engine.ts:292`). A recorded inclusion that disappears and then
   comes back elsewhere is submitted again: the history that would show the old
   evidence has been moved out of `currentInclusion`. If it is replaced within one
   scan, the incident is raised as specified.

More behaviours were met while modelling and belong to no run of their own. Of the
worker:

* the identifiers of an inclusion are read by separate calls (`engine.ts:389`): another
  account's submission between two of them looks like a mixed set, which
  `docs/S6_WORKER_SPEC.md:346` takes for corruption, and stops the worker for good;
* the worker's own transaction may be mined after its receipt was found missing and
  before its nonce is read (`engine.ts:646`): `UNEXPECTED_SIGNER_NONCE`, with no other
  holder of the key;
* a failed call to the destination while a receipt is admitted, one already known
  included, is a global stop (`engine.ts:134`, the alarm `SOURCE_ADMISSION`);
* a fact in `ATTENTION_REQUIRED` after six hours of attempts is set back to
  `VERIFIED_PENDING` by the next reconciliation (`engine.ts:434`, the last arms of
  `Reconciled`);
* the canonical hash of a receipt is checked before the head is read, and the block
  may be replaced in between (`engine.ts:582`, `ReadHead`): `ReleasedOnlyWhenFinal`
  fails with `destReorg`, and so does `EnvelopeIsExact`, since the envelope is finalized
  (`engine.ts:576-583`) although its receipt is gone;
* the operator's `resume` sets a task stopped for `MIXED_ADMISSION` ready for proof under the
  same inclusion, without asking whether its deals are enrolled by now
  (`engine.ts:167-186`); `docs/S6_WORKER_SPEC.md:98` says of such a transaction that it is
  not partially submitted. The submission it then makes is of the whole transaction;
* a receipt that contradicts the logs read before it stops the worker after a shallow
  source reorganization (`engine.ts:126`), as `docs/S6_WORKER_SPEC.md:115` asks;
* a re-inclusion none of whose deals is enrolled for its block returns early
  (`engine.ts:247`) and leaves the old inclusion current, where
  `docs/S6_WORKER_SPEC.md:478` has a task that fails admission stopped;
* `enroll --effective-from` does not move the cursor back (`engine.ts:112`): events
  further behind it than the overlap are not served, and
  `docs/S6_WORKER_RUNBOOK.md:55` does not say so;
* a partly enrolled transaction ends the pass at its window (`engine.ts:312`), but the
  next accepts it as known (`engine.ts:291`), so that the cursor stops for one pass,
  not, as `docs/S6_WORKER_ARCHITECTURE.md:79` reads, until an operator acts;
* a task that was orphaned and comes back is not counted against the limit on
  unfinished tasks.

Of the tools:

* the preflight asks that A hold the funding even for `--resume-deal`, which funds
  nothing (`scripts/deal-live.ts:434`; `docs/S5_LIVE_RUNBOOK.md:208` lists no such
  condition);
* the same preflight reads the credit limit once (`scripts/deal-live.ts:419-427`), and a late
  payment or a default that counts later lowers it: a creation of the same command can then be
  refused. Its gas thresholds are those of one run, whatever `--runs` says (`402,438-441`);
* a fixture helper that holds tokens makes every diagnosis one of a run that stopped
  (`lib/live-plan.ts:203`), and the advice of that branch names one gap only
  (`204-210,226`): with empty wallets it has A funded, and the next run is short at B.
  `AdvisedIsReady` says that a second round is then enough;
* after the entry of the gateway is deleted and a fresh one deployed
  (`deploy-gateway.ts:42-45`), the verifier on record trusts the old one, and
  `deploy-deals.ts:81-86` builds a registry on that verifier; `preflight.ts:281-286` is the
  only place that compares the two. Nor does `deploy-gateway.ts` look at the addresses of
  the contracts of the other network, as the two other scripts do;
* a capture that times out says "rerun to prove them" (`capture-gate-fixtures.ts:350`),
  while a rerun pays again or is refused;
* `deploy-deals.ts:109` speaks of "the same guard the verifier deployment carries", but
  does not look at the address again after the deployment, as `deploy-verifier.ts:87`
  does: `NamesApart` is stated accordingly;
* any failure of the batch over the limit is reported as confirming the limit
  (`probe.ts:340`, `Confirmed`).

## 4. Proofs

`Cr3dXCredit_proofs`, for every finite set of deals, all borrowers, limits,
amounts and heights:

* `TypeCorrect`, `CountersCorrect` (INV-5), `OutcomeCallSafe`, and the last two together as
  `CountersAlwaysSound`. They need each other: the decrement is safe because the counter is a
  recount of a set that contains the deal. `CountersMatchOutcomes` with the type invariant is
  inductive; each call changes the counted set of one borrower by one deal.
* `CommitmentCorrect`: reserve and exposure are sums over the borrower's own deals. One
  call changes one term of one sum by what the floor at zero lets through, and the
  floor is never reached: no deal's own part exceeds the sum.
* `LimitEnforced`: a step that raises a commitment leaves it within the limit.

`Cr3dXDeals_proofs`, for every set of accounts, terms, source history, batch size,
limit and grace period:

* `TypeCorrect`, `LayersAlwaysAgree`, `StatusAlwaysMatches`, `DecisionsCorrect`,
  `DefaultsEarned`, `LifecycleRises`.

The inductive invariant is `DealsInv`: types, a per-deal conjunct `DealOK` and a
per-fact conjunct `DecidedOK`. None of the stated invariants is inductive alone:
the status matches the totals after a repayment only if the credit record held the
same outcome before, which in turn needs that a deal is in the credit layer exactly
when it is in the registry, with the same borrower and face value. A transaction
applies any number of facts, so preservation is stated for a single `Classify`
step on the record `w` and lifted to the two folds of a submission by
`FoldLemmas`: a recursion over `0..n` whose steps stay in a set ends in that set.
The set is that of the records satisfying the invariant and above the initial
statuses, which also gives the action property `LifecycleRises`.

The second part of the module, the books, adds the amounts to it, for the same constants:

* `AmountsCorrect`: a deal's three totals are the sums over the facts applied to it,
  a borrower's commitment the sum over his deals, with the remaining reserve and
  exposure of each deal worked out from its status and totals.
* `FactsNeverStranded`, `SubmissionsThorough`: a recorded fact that can be decided can
  be applied without a revert, and a submission leaves none of its own behind.
* `OrderForgotten`: totals, status and outcome of a deal depend on the set of its
  facts, not on the order in which they were delivered.
* `RegistryImplementsLedger`: every step of the registry is a step of `DealLedger`, or
  leaves it alone.

`BooksInv` is `DealsInv` with `Books`: the sums of facts and of deals, and that a
repayment is applied to a financed deal only. `Sound` says the same of the record `w`
inside a transaction, and that `w` has not reverted: from sound books a fact is always
classified without a revert of the credit layer, which is what `FactsNeverStranded`
needs. `submitAndApply` and `applyEvidence` have in common that they commit a sound
record in which decisions already made stand (`Counting`). The order theorem follows:
once totals are sums over sets of facts, and a fact that waits can only be a repayment
of a deal not financed, there is nothing left for the order to change. In the refinement
a `Counting` step is the ledger's `Count`, whatever number of facts it decides.

The third part is about `WorkerRegistry`, for the same constants and a source history whose
events are numbered (`EventsAreNumbered`, which `BooksBalance` below establishes of the
gateway):

* `SubmitsCorrect`, if a submission of one is allowed (`1 <= MAX_BATCH`): the contracts
  accept a served transaction exactly when the worker's model does, that is when its block
  is attested and none of its facts is recorded (`SubmitsAsExpected`);
* `RegistryServesWorker`, if moreover each funding reaches the required sum
  (`FundingsSuffice`): `ServesTheWorker`, that is the former and that every transaction of
  the registry is a step of the worker's model (`ExpectedStep`) or changes nothing the
  worker reads.

`EvidenceServed` (a recorded fact is of a transaction the worker serves) joins `BooksInv`.
The decision of a fact in `Cr3dXDeals` depends on totals and on the facts before it in the
submission; in the worker's model, on the status a deal rises to and on the set of facts
submitted. `CountingDecides` closes the gap with the books alone: after a `Counting` step a
deal is financed exactly if it was, or if a funding of its investor is among the facts,
because totals are sums and the status is the one they call for; and what is left
undecided is what `MayWait` allows. `AcceptedApplies` is the other half: from sound
books no submission the verifier accepts is reverted by the credit layer.

`SourceToVerifier_proofs`, for every set of accounts and deals, every supply, any
number of calls in a transaction and of transactions in a batch:

* `BooksBalance`: events are numbered without gap or repeat, and balances are what the
  events say. `WholeTransactions`: of one source transaction all payments are recorded
  or none. `PaymentsStayOpen`: a payment of an attested transaction is recorded or can
  be. `FactsAuthentic`: a fact is such a payment.

The inductive invariant is `PathInv`: counter, balances and chain agree, and the facts are
events of the chain up to the attested height, by whole transactions. The numbers of events are
unique over the whole chain and not within a block or transaction only. That is what separates
the facts of a transaction that is being submitted from all recorded ones: without it the replay
refusal could shut a payment out. One source transaction runs any number of calls, so `Running`
is shown for one call and carried through `Execute` by the recursion lemmas.

`SourceScan_proofs`, for every set of transactions and deals, any windows, limits, forks
no deeper than the overlap, enrollments, failures and stops:

* `CursorPassesNothing`: the cursor leaves nothing behind that the worker serves.
* `StoppedUntilWhole`: a stopped task is released only under another inclusion with
  all its deals enrolled for its block, or by the operator's `resume`.

`NothingPassed` speaks of the cursor alone; the invariant `ScanInv` adds what a pass
that is about to move it knows: what lies before its window has been met, and what lies
in the window has been met or is in the list of receipts to read (`InWindow`,
`InReceipts`). Both except the blocks above `pass.head - Overlap` (`Settled`), since a
fork may put a transaction there behind the pass; as the cursor never passes
`pass.head`, the exception lies in the blocks that the next pass reads again. That is where the
overlap has to be as deep as a fork. An enrollment counts for blocks above the head it
was made at only, so that it never makes an old block count.

`WorkerEngine_proofs`, for every set of transactions and deals, any logs, numbers of
inclusions and nonces, and every set of faults:

* `NoncesSpentOnce`, `SignaturesArePersisted`: a nonce is signed once, and the bytes that
  were ever broadcast are on disk or history. `AutomationBacked`: what automation says
  of a fact has an envelope or an epoch behind it. `DeadlinesAreHeld`: a window or epoch
  that is over does not begin again.
* where the destination takes no block back (`"destReorg" \notin Faults`):
  `ReleasesAreFinal`, `EnvelopesAreExact`: an envelope keeps its bytes until their own receipt
  is under two blocks, and its nonce is then history; `BeliefsAreFacts`: what the files
  say of the registry is so.

The first four rest on `WorkInv`. `OutstandingIsPersisted` is not inductive: what
`Broadcast` sends is what the file of the process's task holds by then, so the place of
the process has to agree with the files (`ProcOK`, `Fits`): a pass at a place of
`Carrying` has an envelope on disk, whatever the operator or the clock did since it began.
Nor is `AutomationIsBacked`, since a fact's automation and the envelope that carries it are
separate fields of a file; `TaskOK` says of each file that they belong together. From
there the nonces need no more: signing asks for an empty lane, with which everything
ever sent is history, and the next nonce is above all of history. That a worker
reads a stale chain, is killed between any two writes, or shares its key with others
plays no part in it.

`FinalInv` adds what the process has read: the receipt it found is mined, the head it
found is two blocks above it, the identifiers it saw are recorded (`PlaceOK`). Nothing
makes such readings stale but the loss of a destination block, hence the hypothesis; without it
`ReleasedOnlyWhenFinal` is false, for the reason given in section 3. With them,
`NoncesInOrder` says that a transaction of the signer stands at the place of its nonce,
which makes the receipt found for an envelope its own.

The steps of the process are reduced to six kinds before anything is shown of them
(`AnyStep`): a step of the chains, one that writes files and signs nothing (`StepOK`), a
broadcast, a signature (`SigningOK`), a resumption (`ResumingOK`), and none. `StepOK` holds
what a write may do (`Rewrites`: the signature stays or is released, no deadline begins
again; `Honest`: no file claims more than is so), one lemma per action; the theorems are
about the six kinds.

`LiveDeal_proofs`, for any amounts, credit limit and balances, any number of executions,
runs and broadcasts, and every set of faults:

* `RepeatsNothing`: a deal is funded once by the command; when the operator resumes only
  what got no further (`Inspects`), it is repaid once and followed by one reserved deal.
* `ReportsTruth`, under the same precondition: a command that reports success has done
  what it reports. That the payments are recorded needs no precondition
  (`ReportedDeal`); that one reserved deal follows, not two, does.

That at most one funding event exists is not inductive: a funding may be in the
mempool, or signed and not yet broadcast, when the command is killed. So `Once` counts
everything sent for a deal, the events, the mempools, the transaction in hand and the
creations of deals together (`Sent`), and the nonce of a transaction tells it from every
other of its account. When the command signs again, nothing of the kind may be in
`Sent`; that follows from where it is. A command is at step `k` of the scenario when
`proc.left` is the rest from `k` on (`Plan(k)`), and `Standing(k)` says what must be
behind and ahead of it there: the payments of later steps have not been tried by anyone,
those of earlier steps are events, and the status of the deal is what their records make it
(`Facts`). Another submitter of the evidence can only bring a status further
(`Later`), so nothing that stands is undone between two steps; the mempool may lose a
transaction but not gain an unknown one. `Creating` bridges the one moment at which a
deal exists and the command does not know of it: its creation is mined and the receipt
not yet read. `Inspecting` takes the operator's word over to the first step of a resumed
run, and fails without it. As for the worker, the steps are reduced to kinds: one of the chains
(`ChainStep`), which needs no more than that the command stays where it is, an
advance to the next step, a jump, a halt, and a beginning.

* `PreflightSuffices`: runs that began with no transaction of an earlier command on its way are
  never refused for want of USDC or allowance, nor is a creation for want of credit unless the
  limit has fallen below the one the preflight read. It does not ask how the operator resumes.

The preflight is read once and the scenario spends for a long time after, so `CoverInv` is an
account of what remains: `Holds(k)` says what must still be there before step `k`, in the purses
(`Purse`: from the funding to the repayment B holds a whole face value, and `Saved` for the runs
to come), in allowances, and under the credit limit the preflight read, which the command keeps
as `proc.limit` (`Room`, where the run's own deal does not count: it was given its place at the
beginning, and the reserved deal takes that place when the deal is closed; a default keeps its
exposure). Between a signature and its receipt the account is that before the step until the
transaction is mined, and that after it from then on (`At`). That the mempool holds nothing else
follows from the beginning (`clean`): in a run that resumes, or with an old transaction about,
the account is not true, and the property claims nothing.

`Tools_proofs` is about the tools `MCTools` chooses from: `Spec` is that of `WalletFile`,
`ToolsSpec` that of the whole, where a behaviour is of one tool and the invariant is that
of this tool (`ToolsInv`).

* `WalletTypes`, `PrintedKeys`, `NothingLost`, for any set of runs, any number of edits and
  crashes. The inductive invariant adds to the
  types, for each run, `Sound`: the identity it took is at most the present one, and
  while the two are equal the content it read is the content of the file; its keys
  are a completion of that content, and are acceptable once it got past the check of
  them. The identity is taken before the content and only grows, so a run whose
  identity is still current at the check has seen all there is: without this link
  between `stamp`, `env` and a run's private copy neither property is inductive.
* `RecordsSound` (`RecordsAreSound`), for any number of runs of the three scripts, nonces taken
  by others, deletions of the gateway's entry and crashes. `DeployInv` says of the chains that
  an address is below the next nonce and that every verifier trusts a gateway that was deployed
  (`Deployed`); of the record, and of each copy of it a script holds, that it names only what
  was deployed and the verifier its registry trusts (`Recorded`). The hard part is the window
  between `ReadAgain` and `Record`, in which the verifier's script and the registry's can both
  hold a copy that is no longer the file. `Orderly` relates the file and the two scripts' four
  copies: what the verifier's script will write keeps every verifier on record when it began,
  the registry's writes back a list that has the verifier it trusts. One of the two may drop the
  other's entry (`deploy-deals.ts` can undo a redeployment of the verifier beside it), but not
  the one a registry on record needs.
* `ShownTrue` (`ShownIsTrue`), for any chain, any number of reads and failures. `RefreshInv`
  says that each answer is of the state after a change since the read began (`Honest`), that
  what is shown is the read that succeeded last, and that a read in flight is the last begun
  while the button is disabled (`OneInFlight`). That MATCH was true then is about the states
  before and after one change: each of the eight values is of one or the other
  (`OneOfTwoMatches`), and as a change moves the score, the reservations and the exposure in
  step, values that match one by one leave one of the two states matching in all.
* `ReportSound` (`ReportIsSound`), for any interval, catch-up, allowance, number of samples
  and leaps. `Sampling` and `Answered` say which sections are answered at which place of
  `main`, with the lag sampled beside it. `Timely` is the arithmetic behind
  the grace period: before a payment is seen by the prover the head is at most the largest lag and
  one catch-up (`Leap`) ahead of what is attested, from then on it is at most the allowance ahead
  of the block it was seen at, which was at most a leap after the payment; the
  grace period is at least the sum.
* `PlanTrue` (`PlanIsTrue`) and `WordKept` (`WordIsKept`), for any amounts with a funding below
  the face value, any balances, tokens at the helper and number of runs, transactions that
  arrive late, and crashes. The projection is made before the first payment, and the run it
  allows spends for a long time after; so `Account` keeps, for a run that began with nothing on
  its way, how many of its three payments are made (`Standing(m)`): the balances are those of
  the beginning moved by `m` payments, its own events are these payments, and the mempool has at
  most the transaction it is at, whose payment counts once it is mined. `CleanIsCovered` then
  says that the next payment can be made, and `StoppedIsRecognised` that what a run leaves
  behind is told from what the other stages leave. The amounts matter there: with a face value
  of twice the funding the balances after the last payment would be those a run begins with.
  `AdviceIsEnough` follows the advice through the fold that carries it out. What the helper held
  before a run it holds throughout (`Shape`); with tokens there the advice fills one gap
  (`FilledIsHelped`), the first that the projection meets, and leaves at most the one of B after
  it. `Checking` is about `verify-live`: as long as nothing failed, each fixture examined so far
  was recorded after the run began.

Assumptions on the constants, all evaluated by the runs:

* `CreditConstants`: the set of deals is finite. `DealsConstants`: so are the sets of terms
  and source transactions, and the source history is one the gateway can produce, with
  deal identifiers, accounts and heights of the model.
* `SourceHistory`: the logs of a transaction are a sequence.
* `EventsAreNumbered`, `FundingsSuffice`: hypotheses of the two theorems of `WorkerRegistry`
  only; `MCDealsEdge` assumes them of its instance.
* `GatewayConstants`, `BatchConstant`: the zero account and the zero identifier are nobody's,
  the bounds are numbers.
* `ScanConstants`: a transaction has at least one event; the overlap is as deep as a fork,
  the assumption the code's 100 blocks rest on.
* `ChainsConstants`, `EngineConstants`: the logs of a transaction are a sequence that is not
  empty, the bounds are numbers, no transaction is called `Nobody`.
* `LiveConstants`: the amounts are at least one unit, the funding is below the face value and the
  impostor's amount is not above the face value, as in `lib/live-plan.ts:12-13` and
  `deal-live.ts:56`; balances, limit and bounds are numbers.
* `DeployConstants`, `ProbeConstants`: the bounds, intervals and allowances are numbers, a
  block interval, an hour and the number of samples are not zero.
* `GateConstants`: the amounts are those of `live-plan.ts:12-15` as far as the proofs use
  them: a funding above zero and below the face value, which is not twice the funding, and
  partial payments that sum to the funding. Balances, `Strays` and bounds are numbers.

`DefaultsEarned` uses that the height compared with the threshold is the height recorded.

Only model-checked: liveness under fairness (`EveryFactDecided`, `Carried`,
`EveryEventMet`), which is out of the prover's reach. Every invariant and every action
property of the runs has a theorem.

Proving changed the model four times: `Reorganize` could replace blocks below the first one;
the filter of a transaction's logs is now written log by log, as the code goes
through them; the nonce a node proposes counts the transactions of the account that wait for
no other (`Pending`), where it counted all in the mempool; and a sampling of the lag that had
failed could take another sample. No run had shown any of
them: the third takes a transaction that is lost once the next one is signed, and a third
start of the command. What `resume` makes of a task, a second reading of an event, the
inclusion of a transaction and a record without entries got names of their own (`Resumed`,
`Reread`, `Include`, `Blank`), with no change of meaning.

## 5. Plan

1. `SourceScan` and `WorkerEngine` over one task directory: the scan admits what the engine
   then carries. Their product exceeds the time of a run, so it would be a refinement to
   prove.

## 6. Not modelled

* The Merkle and continuity checks inside the native prover: not in this repository.
  Its answers are external definitions (`Provable`, `Attest`).
* `capture-fixtures.ts`, `lib/proofs.ts`, `lib/precompiles.ts`, `lib/rpc.ts`: single reads
  of the networks written to test data, a client of the proof service, ABI tables and
  bounded retries. Nothing in them is kept between two steps.
* What `preflight.ts` prints beside the diagnosis of balances, gas figures and rendering
  of the probe, cost accounting of the live command, the static page and its formatting.
* Decoding of receipts and logs, transport, configuration and the arithmetic of fees and
  delays in the worker; its one-time bootstrap.
* Two runs of one deployment script at once, and a worker started without `launch.sh`.
