---------------------------- MODULE WorkerEngine ----------------------------
(***************************************************************************)
(* worker/engine.ts: the process that carries source payments to the       *)
(* registry.  Its memory is lost in a crash; its task files and the global *)
(* attention reasons are not.  An action is what the process does between  *)
(* two reads of a chain whose order matters, or up to a durable write or a *)
(* broadcast.  Every field a handler changes in memory is written before   *)
(* its next such read, so the process itself remembers only where it is.   *)
(***************************************************************************)
EXTENDS WorkerChains

CONSTANTS
    Enrolled,   \* deals the worker serves
    Nobody      \* the task of an idle process

VARIABLES
    tasks,      \* task files
    alarms,     \* globalAttentionReasons
    proc        \* the process

workerVars == <<tasks, alarms, proc>>
vars == <<chainVars, workerVars>>

ASSUME EngineConstants ==
    /\ Enrolled \subseteq Deals
    /\ Nobody \notin Txs

SubmissionStates == {"WAITING_ATTESTATION", "READY_FOR_PROOF", "SUBMITTING",
                     "SUBMISSION_IN_FLIGHT", "SUBMITTED", "ORPHANED", "ATTENTION_REQUIRED"}

AutomationStates == {"UNSEEN", "VERIFIED_PENDING", "READY_TO_APPLY",
                     "APPLICATION_IN_FLIGHT", "DECIDED", "ATTENTION_REQUIRED"}

\* An attempt epoch or a resolution window: not begun, running, past its deadline.
Clock == {"NONE", "OPEN", "EXPIRED"}

\* snapshot: the deal status the event was last found pending under.
Evidence == [contract: {"UNSEEN", "VERIFIED_PENDING", "DECIDED"}, automation: AutomationStates,
             epoch: Clock, snapshot: Statuses \cup {"UNKNOWN"}]

NewEvidence == [contract |-> "UNSEEN", automation |-> "UNSEEN",
                epoch |-> "NONE", snapshot |-> "UNKNOWN"]

\* The exact envelope; its window opens with the first broadcast, so that it is
\* "NONE" exactly while broadcastCount is 0.
NoEnvelope == [signed |-> NoTx, window |-> "NONE"]

NoTask == [state |-> "NONE", inc |-> 0, epoch |-> "NONE", events |-> <<>>,
           inFlight |-> NoEnvelope, nonces |-> {}]

FreshEvents(t) == [k \in DOMAIN Logs[t] |-> NewEvidence]

-----------------------------------------------------------------------------
(* Derived from the task files. *)

Exists(t) == tasks[t].state # "NONE"
HasEnvelope(task) == task.inFlight.signed # NoTx

\* unresolvedLane
Lane == {t \in Txs : HasEnvelope(tasks[t])}

ConfirmedNonces == UNION {tasks[t].nonces : t \in Txs}

BadExpectedNextNonce == LatestNonce

\* Derived from the confirmed operations, whoever used the nonces in between;
\* the state directory was bootstrapped at nonce 0.
ExpectedNextNonce == IF ConfirmedNonces = {} THEN 0 ELSE Max(ConfirmedNonces) + 1

\* Admission is decided for a whole transaction.
EnrolledLogs(t) == {k \in DOMAIN Logs[t] : Logs[t][k].deal \in Enrolled}
Mixed(t) == EnrolledLogs(t) # {} /\ EnrolledLogs(t) # DOMAIN Logs[t]

\* isApplicationReady
ApplicationReady(event, status) ==
    /\ status # "NONE"
    /\ event.kind = "REPAYMENT" => status # "CREATED"

-----------------------------------------------------------------------------
(* The process: where it is, the task it works on, what it has still to     *)
(* read and what it found there, the event it applies (0: it submits), and  *)
(* how it got there.                                                        *)

Idle == [at |-> "Idle", task |-> Nobody, left |-> {}, found |-> {}, log |-> 0,
         guarded |-> FALSE, manual |-> FALSE, todo |-> {}]

At(place) == proc.at = place /\ proc.left = {}

Go(place) == [proc EXCEPT !.at = place, !.left = {}, !.found = {}]
GoReading(place, ids) == [proc EXCEPT !.at = place, !.left = ids, !.found = {}]

\* processTask has returned: tick is done once a task holds an envelope, and
\* goes on with the next task otherwise.
Return(task) ==
    IF HasEnvelope(task) \/ proc.todo \subseteq {proc.task}
    THEN Idle
    ELSE [Idle EXCEPT !.at = "Tick", !.todo = proc.todo \ {proc.task}]

Me == tasks[proc.task]
Write(task) == tasks' = [tasks EXCEPT ![proc.task] = task]

\* Promise.all over seen(): each identifier is read on its own.
ReadSeen(id) ==
    /\ proc.at # "Receipts"
    /\ id \in proc.left
    /\ proc' = [proc EXCEPT !.left = @ \ {id}, !.found = @ \cup ({id} \cap reg.recorded)]
    /\ UNCHANGED <<chainVars, tasks, alarms>>

\* reconcileSeen
Visibility(ids) ==
    CASE proc.found = ids /\ ids # {} -> "ALL_TRUE"
      [] proc.found = {} /\ ids # {}  -> "ALL_FALSE"
      [] OTHER                        -> "MIXED"

BadRetried(task, k) ==
    IF k = 0 THEN [task EXCEPT !.state = "READY_FOR_PROOF", !.epoch = "OPEN"] ELSE task

\* scheduleRetry, or attention when the epoch is over.
Retried(task, k) ==
    IF k = 0
    THEN [task EXCEPT !.state = IF task.epoch = "EXPIRED" THEN "ATTENTION_REQUIRED"
                                                          ELSE "READY_FOR_PROOF"]
    ELSE IF task.events[k].epoch = "EXPIRED"
         THEN [task EXCEPT !.events[k].automation = "ATTENTION_REQUIRED"] ELSE task

Attention(task, k) ==
    IF k = 0 THEN [task EXCEPT !.state = "ATTENTION_REQUIRED"]
             ELSE [task EXCEPT !.events[k].automation = "ATTENTION_REQUIRED"]

-----------------------------------------------------------------------------
(* The loop and the operator's commands. *)

\* tick: an unresolved envelope first, in spite of any alarm; else every task.
StartTick ==
    /\ proc = Idle
    /\ IF Lane # {}
       THEN \E t \in Lane : proc' = [Idle EXCEPT !.at = "Envelope", !.task = t]
       ELSE /\ alarms = {}
            /\ \E t \in Txs : Exists(t)
            /\ proc' = [Idle EXCEPT !.at = "Tick", !.todo = {t \in Txs : Exists(t)}]
    /\ UNCHANGED <<chainVars, tasks, alarms>>

\* advance: one task of the operator's choice, alarms or not.
Advance(t) ==
    /\ "operator" \in Faults
    /\ proc = Idle
    /\ Exists(t) /\ Lane = {}
    /\ proc' = [Idle EXCEPT !.at = "Tick", !.todo = {t}]
    /\ UNCHANGED <<chainVars, tasks, alarms>>

Unseen(events) == \E k \in DOMAIN events : events[k].contract = "UNSEEN"

Retryable(event) == event.contract = "VERIFIED_PENDING" \/ event.automation = "ATTENTION_REQUIRED"

\* New epochs, and a pending event is taken for ready.
Resumed(task) ==
    [task EXCEPT
        !.state = IF Unseen(task.events) THEN "READY_FOR_PROOF" ELSE @,
        !.epoch = IF Unseen(task.events) THEN "OPEN" ELSE @,
        !.events = [k \in DOMAIN task.events |->
            IF Retryable(task.events[k])
            THEN [task.events[k] EXCEPT !.automation = "READY_TO_APPLY", !.epoch = "OPEN"]
            ELSE task.events[k]]]

Resume(t) ==
    /\ "operator" \in Faults
    /\ proc = Idle
    /\ Exists(t) /\ t \notin Lane /\ tasks[t].inc # 0
    /\ Unseen(tasks[t].events) \/ \E k \in DOMAIN tasks[t].events : Retryable(tasks[t].events[k])
    /\ tasks' = [tasks EXCEPT ![t] = Resumed(tasks[t])]
    /\ UNCHANGED <<chainVars, alarms, proc>>

ResumeBroadcast(t) ==
    /\ "operator" \in Faults
    /\ proc = Idle
    /\ t \in Lane
    /\ proc' = [Idle EXCEPT !.at = "Envelope", !.task = t, !.manual = TRUE]
    /\ UNCHANGED <<chainVars, tasks, alarms>>

\* processTask, up to the first read.
ProcessTask(t) ==
    /\ proc.at = "Tick" /\ t \in proc.todo
    /\ IF tasks[t].inc = 0 \/ tasks[t].state = "ORPHANED"
       THEN proc' = IF proc.todo = {t} THEN Idle ELSE [proc EXCEPT !.todo = @ \ {t}]
       ELSE proc' = [proc EXCEPT !.at = "Semantic", !.task = t, !.left = Ids(t, tasks[t].inc)]
    /\ UNCHANGED <<chainVars, tasks, alarms>>

-----------------------------------------------------------------------------
(* reconcileSemantic, and what processTask does next. *)

IsInFlight(task, id) ==
    task.inFlight.signed.log # 0 /\ HasEnvelope(task) /\
    id = [tx |-> task.inFlight.signed.tx, inc |-> task.inFlight.signed.inc,
          log |-> task.inFlight.signed.log]

BadReconciled(task, id) ==
    LET e == [task.events[id.log] EXCEPT !.contract = ContractState(id)]
        status == DealStatus(id)
    IN CASE e.contract = "UNSEEN" -> [e EXCEPT !.automation = "ATTENTION_REQUIRED"]
         [] e.contract = "DECIDED" -> [e EXCEPT !.automation = "DECIDED"]
         [] e.snapshot = "UNKNOWN" /\ ApplicationReady(EventOf(id), status) ->
              [e EXCEPT !.snapshot = status, !.automation = "READY_TO_APPLY", !.epoch = "OPEN"]
         [] e.automation = "READY_TO_APPLY" -> e
         [] OTHER -> [e EXCEPT !.snapshot = status, !.automation = "VERIFIED_PENDING"]

\* One event of a fully recorded inclusion.
Reconciled(task, id) ==
    LET e == [task.events[id.log] EXCEPT !.contract = ContractState(id)]
        status == DealStatus(id)
        ready == ApplicationReady(EventOf(id), status)
    IN CASE e.contract = "UNSEEN" ->
              IF IsInFlight(task, id) THEN e
              ELSE [e EXCEPT !.automation = "ATTENTION_REQUIRED"]
         [] e.contract = "DECIDED" ->
              IF IsInFlight(task, id) THEN e ELSE [e EXCEPT !.automation = "DECIDED"]
         [] IsInFlight(task, id) -> [e EXCEPT !.snapshot = status]
         [] e.automation = "READY_TO_APPLY" /\ e.epoch # "NONE" -> e
         [] e.snapshot = status -> [e EXCEPT !.automation = "VERIFIED_PENDING"]
         [] OTHER ->
              [e EXCEPT !.snapshot = status,
                        !.automation = IF ready THEN "READY_TO_APPLY" ELSE "VERIFIED_PENDING",
                        !.epoch = IF ready /\ @ = "NONE" THEN "OPEN" ELSE @]

Forgotten(e) ==
    [e EXCEPT !.contract = "UNSEEN",
              !.automation = IF @ = "APPLICATION_IN_FLIGHT" THEN @ ELSE "UNSEEN"]

Semantic(t, visibility) ==
    LET task == tasks[t] IN
    CASE visibility = "MIXED" -> Attention(task, 0)
      [] visibility = "ALL_FALSE" ->
           [task EXCEPT !.events = [k \in DOMAIN Logs[t] |-> Forgotten(@[k])]]
      [] visibility = "ALL_TRUE" ->
           [task EXCEPT !.state = IF @ = "ATTENTION_REQUIRED" THEN @ ELSE "SUBMITTED",
                        !.events = [k \in DOMAIN Logs[t] |->
                            Reconciled(task, [tx |-> t, inc |-> task.inc, log |-> k])]]

ReadyLogs(task) == {k \in DOMAIN task.events : task.events[k].automation = "READY_TO_APPLY"}

\* processTask goes on unless the task is stopped; finalizeEnvelope and
\* attemptSubmission do not.
AfterSemantic(task) ==
    IF proc.at = "Reconcile" \/ task.state = "ATTENTION_REQUIRED" THEN Return(task)
    ELSE IF \E k \in DOMAIN task.events : task.events[k].contract = "UNSEEN" THEN Go("Attested")
    ELSE IF ReadyLogs(task) # {} THEN [Go("Apply") EXCEPT !.log = Min(ReadyLogs(task))]
    ELSE Return(task)

\* The reads of one event do not depend on another's: they are taken together.
ReconcileSemantic ==
    /\ At("Semantic") \/ At("Reconcile")
    /\ LET seen == Visibility(Ids(proc.task, Me.inc))
           task == Semantic(proc.task, seen)
       IN /\ Write(task)
          /\ alarms' = IF seen = "MIXED" THEN alarms \cup {"MIXED"} ELSE alarms
          /\ proc' = AfterSemantic(task)
    /\ UNCHANGED chainVars

-----------------------------------------------------------------------------
(* An attempt, up to the signature. *)

\* attestedHeight counts blocks: it can pass an inclusion that is no longer there.
HeightReached(t) ==
    IF <<t, tasks[t].inc>> \in attested THEN {TRUE}
    ELSE IF source[t].now = tasks[t].inc THEN {FALSE} ELSE BOOLEAN

\* A retry may not be due yet: one was scheduled by a read that failed.
RetryNotDue == "rpc" \in Faults

CheckAttested ==
    /\ At("Attested")
    /\ \E reached \in HeightReached(proc.task), due \in {TRUE, ~RetryNotDue} :
        LET ready == [Me EXCEPT !.epoch = IF @ = "NONE" THEN "OPEN" ELSE @]
        IN IF ~reached
           THEN /\ Write([Me EXCEPT !.state = "WAITING_ATTESTATION"])
                /\ proc' = Return(Me)
           ELSE IF ready.epoch = "OPEN" /\ ~due
           THEN /\ Write([ready EXCEPT !.state = "READY_FOR_PROOF"])
                /\ proc' = Return(Me)
           ELSE IF ready.epoch = "EXPIRED"
           THEN /\ Write([ready EXCEPT !.state = "ATTENTION_REQUIRED"])
                /\ proc' = Return(Me)
           ELSE /\ Write([ready EXCEPT !.state = "SUBMITTING"])
                /\ proc' = [Go("Prove") EXCEPT !.guarded = TRUE, !.log = 0]
    /\ UNCHANGED <<chainVars, alarms>>

\* A fresh proof, of whichever inclusion the prover has, and its simulation.
Prove ==
    /\ At("Prove")
    /\ \E i \in {j \in Inclusions : <<proc.task, j>> \in attested} :
        IF i # Me.inc
        THEN /\ Write(Attention(Me, 0))
             /\ proc' = Return(Me)
        ELSE /\ UNCHANGED tasks
             /\ proc' = IF Recordable(proc.task, i, reg) THEN Go("Sign")
                        ELSE GoReading("AlreadyRecorded", Ids(proc.task, i))
    /\ UNCHANGED <<chainVars, alarms>>

\* EvidenceAlreadyRecorded from the simulation: is the whole set there?
AlreadyRecorded ==
    /\ At("AlreadyRecorded")
    /\ LET seen == Visibility(Ids(proc.task, Me.inc)) IN
       IF seen = "ALL_TRUE"
       THEN /\ proc' = GoReading("Reconcile", Ids(proc.task, Me.inc))
            /\ UNCHANGED <<tasks, alarms>>
       ELSE /\ Write(Attention(Me, 0))
            /\ alarms' = IF seen = "MIXED" THEN alarms \cup {"MIXED"} ELSE alarms
            /\ proc' = Return(Me)
    /\ UNCHANGED chainVars

\* applyEvidence reverts only for a fact the verifier does not hold.  A fact that
\* is ready has an epoch.
AttemptApplication ==
    /\ At("Apply")
    /\ LET id == [tx |-> proc.task, inc |-> Me.inc, log |-> proc.log] IN
       CASE Me.events[proc.log].epoch = "EXPIRED" \/ id \notin reg.recorded ->
              proc' = Return(Me) /\ Write(Attention(Me, proc.log))
         [] OTHER ->
              /\ proc' \in {[Go("Sign") EXCEPT !.guarded = TRUE]} \cup
                           (IF RetryNotDue THEN {Return(Me)} ELSE {})
              /\ UNCHANGED tasks
    /\ UNCHANGED <<chainVars, alarms>>

\* eth_call failed without revert data: FAIL_CLOSED.
SimulationFails ==
    /\ "call" \in Faults
    /\ At("Prove") \/ (At("Apply") /\ Me.events[proc.log].epoch = "OPEN")
    /\ Write(Attention(Me, proc.log))
    /\ proc' = Return(Me)
    /\ UNCHANGED <<chainVars, alarms>>

\* The only transaction the worker would sign here.
NextTransaction ==
    [nonce |-> ExpectedNextNonce, tx |-> proc.task, inc |-> Me.inc, log |-> proc.log]

Enveloped(task, x) ==
    LET signed == [task EXCEPT !.inFlight = [signed |-> x, window |-> "NONE"]]
    IN IF x.log = 0 THEN [signed EXCEPT !.state = "SUBMISSION_IN_FLIGHT"]
                    ELSE [signed EXCEPT !.events[x.log].automation = "APPLICATION_IN_FLIGHT"]

NonceIsExpected == LatestNonce = ExpectedNextNonce /\ PendingNonce = ExpectedNextNonce

\* Gas estimation reverts where the transaction would.
EstimateReverts == ~Succeeds(NextTransaction)

\* persistSignedEnvelope: one durable write, before any broadcast.  The rolling
\* budget is spent, if not before, when the bound on the nonces is reached.
PersistSignedEnvelope ==
    /\ At("Sign")
    /\ Lane = {}
    /\ \/ /\ ~NonceIsExpected
          /\ alarms' = alarms \cup {"NONCE"}
          /\ proc' = Return(Me)
          /\ UNCHANGED tasks
       \/ /\ NonceIsExpected /\ ~EstimateReverts
          /\ ExpectedNextNonce < MaxNonce
          /\ Write(Enveloped(Me, NextTransaction))
          /\ proc' = Go("Envelope")
          /\ UNCHANGED alarms
       \/ /\ NonceIsExpected /\ ~EstimateReverts
          /\ "budget" \in Faults \/ ExpectedNextNonce = MaxNonce
          /\ Write(Attention(Me, proc.log))
          /\ proc' = Return(Me)
          /\ UNCHANGED alarms
    /\ UNCHANGED chainVars

-----------------------------------------------------------------------------
(* reconcileEnvelope. *)

Signed == Me.inFlight.signed
SignedIds == IF Signed.log = 0 THEN Ids(Signed.tx, Signed.inc) ELSE {}

\* A canonical receipt, or else the semantic state.
ReadReceipt ==
    /\ At("Envelope")
    /\ proc' = IF Mined(Signed) THEN Go("Depth") ELSE GoReading("EnvelopeSemantic", SignedIds)
    /\ UNCHANGED <<chainVars, tasks, alarms>>

BadReadHead ==
    /\ At("Depth")
    /\ proc' = GoReading("Finalize", SignedIds)
    /\ UNCHANGED <<chainVars, tasks, alarms>>

\* The head is read after the canonical hash: if the block was replaced in
\* between, the head may be high enough all the same.
ReadHead ==
    /\ At("Depth")
    /\ \E deep \in IF Mined(Signed) THEN {Confirmed(Signed)} ELSE BOOLEAN :
        proc' = IF deep THEN GoReading("Finalize", SignedIds) ELSE Idle
    /\ UNCHANGED <<chainVars, tasks, alarms>>

\* The fact an envelope applies, read again before the envelope is sent again.
Reread(e, id) ==
    [e EXCEPT !.contract = ContractState(id),
              !.snapshot = IF ContractState(id) = "VERIFIED_PENDING" THEN DealStatus(id) ELSE @]

\* reconcileEnvelopeSemantic
ReconcileEnvelopeSemantic ==
    /\ At("EnvelopeSemantic")
    /\ LET seen == Visibility(SignedIds)
           id == [tx |-> Signed.tx, inc |-> Signed.inc, log |-> Signed.log]
       IN IF Signed.log = 0
          THEN /\ Write(CASE seen = "MIXED" -> Attention(Me, 0)
                          [] seen = "ALL_TRUE" /\ Me.inc = Signed.inc
                               /\ Me.state # "ATTENTION_REQUIRED" ->
                                 [Me EXCEPT !.state = "SUBMITTED"]
                          [] OTHER -> Me)
               /\ alarms' = IF seen = "MIXED" THEN alarms \cup {"MIXED"} ELSE alarms
          ELSE /\ Write(IF Me.inc = Signed.inc
                        THEN [Me EXCEPT !.events[id.log] = Reread(@, id)]
                        ELSE Me)
               /\ UNCHANGED alarms
    /\ proc' = Go("Resend")
    /\ UNCHANGED chainVars

\* envelopeNonceIsCompatible
NonceIsCompatible ==
    /\ LatestNonce = Signed.nonce
    /\ PendingNonce \in {Signed.nonce, Signed.nonce + 1}

\* Five seconds have not passed since the last broadcast.
TooSoon ==
    /\ At("Resend")
    /\ Me.inFlight.window = "OPEN" /\ ~proc.manual
    /\ proc' = Idle
    /\ UNCHANGED <<chainVars, tasks, alarms>>

\* The window has expired and nobody asked for more.
WindowOver ==
    /\ At("Resend")
    /\ Me.inFlight.window = "EXPIRED" /\ ~proc.manual
    /\ Write(Attention(Me, 0))
    /\ proc' = Idle
    /\ UNCHANGED <<chainVars, alarms>>

\* The broadcast is written down; the window opens with the first one.
Resend ==
    /\ At("Resend")
    /\ Me.inFlight.window # "EXPIRED" \/ proc.manual
    /\ IF NonceIsCompatible
       THEN /\ Write([Me EXCEPT !.inFlight.window = IF @ = "NONE" THEN "OPEN" ELSE @])
            /\ proc' = Go("Broadcast")
            /\ UNCHANGED alarms
       ELSE /\ alarms' = alarms \cup {"NONCE"}
            /\ proc' = Idle
            /\ UNCHANGED tasks
    /\ UNCHANGED chainVars

BadBroadcast ==
    /\ At("Broadcast")
    /\ \/ Receive(Signed) /\ UNCHANGED tasks
       \/ /\ "rpc" \in Faults /\ sent' = sent \cup {Signed} /\ UNCHANGED pool
          /\ Write([Me EXCEPT !.inFlight = NoEnvelope])
    /\ proc' = Idle
    /\ UNCHANGED <<source, attested, reg, mined, depth, undo, alarms>>

\* broadcastExact: the answer is ambiguous, and ignored.
Broadcast ==
    /\ At("Broadcast")
    /\ \/ Receive(Signed)
       \/ "rpc" \in Faults /\ sent' = sent \cup {Signed} /\ UNCHANGED pool
    /\ proc' = Idle
    /\ UNCHANGED <<source, attested, reg, mined, depth, undo, tasks, alarms>>

BadApplied(e, id, ok) ==
    LET now == [e EXCEPT !.contract = ContractState(id)] IN
    CASE ok /\ now.contract = "VERIFIED_PENDING" ->
           [now EXCEPT !.snapshot = DealStatus(id), !.epoch = "NONE"]
      [] now.contract = "DECIDED" -> [now EXCEPT !.automation = "DECIDED"]
      [] OTHER -> [now EXCEPT !.automation = "ATTENTION_REQUIRED"]

\* What a confirmed application left of its event.
Applied(e, id, ok) ==
    LET now == [e EXCEPT !.contract = ContractState(id)] IN
    CASE ok /\ now.contract = "VERIFIED_PENDING" ->
           [now EXCEPT !.automation = "VERIFIED_PENDING", !.snapshot = DealStatus(id),
                       !.epoch = "NONE"]
      [] now.contract = "DECIDED" -> [now EXCEPT !.automation = "DECIDED"]
      [] OTHER -> [now EXCEPT !.automation = "ATTENTION_REQUIRED"]

\* finalizeEnvelope: the operation becomes history in the write that releases the
\* envelope; then the semantic state once more.
FinalizeEnvelope ==
    /\ At("Finalize")
    /\ \E ok \in IF Mined(Signed) THEN {ReceiptOk(Signed)} ELSE BOOLEAN :
        LET seen == Visibility(SignedIds)
            id == [tx |-> Signed.tx, inc |-> Signed.inc, log |-> Signed.log]
            released == [Me EXCEPT !.inFlight = NoEnvelope, !.nonces = @ \cup {Signed.nonce}]
            task == CASE Signed.log = 0 /\ seen # "ALL_TRUE" -> Attention(released, 0)
                      [] Signed.log # 0 /\ Me.inc = Signed.inc ->
                           [released EXCEPT !.events[id.log] = Applied(@, id, ok)]
                      [] OTHER -> released
        IN /\ Write(task)
           /\ alarms' = IF Signed.log = 0 /\ seen = "MIXED" THEN alarms \cup {"MIXED"}
                                                            ELSE alarms
           /\ proc' = IF (ok \/ Signed.log = 0) /\ Me.inc # 0
                      THEN GoReading("Reconcile", Ids(proc.task, Me.inc)) ELSE Idle
    /\ UNCHANGED chainVars

-----------------------------------------------------------------------------
(* scanOnce: the inclusion of every task, then the gateway's logs. *)

ScanNext(left) ==
    IF left # {} THEN [Idle EXCEPT !.at = "Scan", !.todo = left]
    ELSE IF alarms = {} THEN [Idle EXCEPT !.at = "Logs"] ELSE Idle

StartScan ==
    /\ proc = Idle
    /\ proc' = ScanNext({t \in Txs : tasks[t].inc # 0 /\ tasks[t].state # "ORPHANED"})
    /\ UNCHANGED <<chainVars, tasks, alarms>>

AnySeen(t) == tasks[t].inc # 0 /\ Ids(t, tasks[t].inc) \cap reg.recorded # {}

BadReadmittedKeepsState(t) ==
    [tasks[t] EXCEPT
        !.inc = source[t].now, !.epoch = "NONE", !.events = FreshEvents(t),
        !.state = IF HasEnvelope(tasks[t]) \/ Mixed(t) THEN "ATTENTION_REQUIRED" ELSE @]

BadReadmittedAnew(t) ==
    [NoTask EXCEPT
        !.inc = source[t].now, !.events = FreshEvents(t), !.nonces = tasks[t].nonces,
        !.state = IF Mixed(t) THEN "ATTENTION_REQUIRED" ELSE "WAITING_ATTESTATION"]

\* ingestReceipt of a transaction that has a task, under a new inclusion.
Readmitted(t) ==
    [tasks[t] EXCEPT
        !.inc = source[t].now, !.epoch = "NONE", !.events = FreshEvents(t),
        !.state = IF HasEnvelope(tasks[t]) \/ Mixed(t) THEN "ATTENTION_REQUIRED"
                                                       ELSE "WAITING_ATTESTATION"]

Removed(t, state) == [tasks[t] EXCEPT !.inc = 0, !.events = <<>>, !.state = state]

\* reconcileSourceCanonicality, for one task.
CheckInclusion(t) ==
    /\ proc.at = "Scan" /\ t \in proc.todo
    /\ \/ /\ source[t].now = tasks[t].inc
          /\ proc' = ScanNext(proc.todo \ {t})
          /\ UNCHANGED tasks
       \/ /\ source[t].now = 0
          /\ tasks' = [tasks EXCEPT ![t] =
                Removed(t, IF HasEnvelope(tasks[t]) \/ AnySeen(t)
                           THEN "ATTENTION_REQUIRED" ELSE "ORPHANED")]
          /\ proc' = ScanNext(proc.todo \ {t})
       \/ /\ source[t].now \notin {0, tasks[t].inc}
          /\ tasks' = [tasks EXCEPT ![t] = Readmitted(t)]
          /\ proc' = IF AnySeen(t) THEN [proc EXCEPT !.at = "Incident", !.task = t]
                                   ELSE ScanNext(proc.todo \ {t})
       \/ /\ source[t].now \notin {0, tasks[t].inc} /\ "rpc" \in Faults
          /\ tasks' = [tasks EXCEPT ![t] = Removed(t, "ATTENTION_REQUIRED")]
          /\ proc' = ScanNext(proc.todo \ {t})
    /\ UNCHANGED <<chainVars, alarms>>

\* Evidence of the old inclusion is recorded: a second write stops the task.
RaiseIncident ==
    /\ At("Incident")
    /\ Write(Attention(Me, 0))
    /\ proc' = ScanNext(proc.todo \ {proc.task})
    /\ UNCHANGED <<chainVars, alarms>>

\* candidateLogs
FindLogs ==
    /\ At("Logs")
    /\ LET found == {<<t, source[t].now>> : t \in {x \in Txs : source[x].now # 0}}
       IN proc' = IF found = {} THEN Idle ELSE [Idle EXCEPT !.at = "Receipts", !.left = found]
    /\ UNCHANGED <<chainVars, tasks, alarms>>

NextReceipt(c) ==
    IF proc.left = {c} THEN Idle ELSE [proc EXCEPT !.left = @ \ {c}]

Admitted(t) ==
    [NoTask EXCEPT !.state = IF Mixed(t) THEN "ATTENTION_REQUIRED" ELSE "WAITING_ATTESTATION",
                   !.inc = source[t].now, !.events = FreshEvents(t)]

\* The receipt of a candidate is read after the logs.  A mixed admission, and an
\* old inclusion already recorded, end the scan.
IngestReceipt(c) ==
    LET t == c[1] IN
    /\ proc.at = "Receipts" /\ c \in proc.left
    /\ \/ /\ source[t].now # c[2]
          /\ alarms' = alarms \cup {"SOURCE_RECEIPT"}
          /\ proc' = Idle
          /\ UNCHANGED tasks
       \/ /\ source[t].now = c[2]
          /\ EnrolledLogs(t) = {} \/ tasks[t].inc = c[2]
          /\ proc' = NextReceipt(c)
          /\ UNCHANGED <<tasks, alarms>>
       \/ /\ source[t].now = c[2] /\ EnrolledLogs(t) # {} /\ tasks[t].inc # c[2]
          /\ tasks' = [tasks EXCEPT ![t] =
                CASE ~Exists(t) -> Admitted(t)
                  [] Exists(t) /\ AnySeen(t) -> Attention(@, 0)
                  [] OTHER -> Readmitted(t)]
          /\ proc' = IF Mixed(t) \/ AnySeen(t) THEN Idle ELSE NextReceipt(c)
          /\ UNCHANGED alarms
       \/ /\ source[t].now = c[2] /\ EnrolledLogs(t) # {} /\ "rpc" \in Faults
          /\ alarms' = alarms \cup {"SOURCE_ADMISSION"}
          /\ proc' = Idle
          /\ UNCHANGED tasks
    /\ UNCHANGED chainVars

-----------------------------------------------------------------------------
(* Failures. *)

\* Reads outside the admission of a receipt: while attemptSubmission or
\* attemptApplication is on the stack an error schedules a retry, even if the
\* envelope exists by then; elsewhere it ends the pass.
ReadFails ==
    /\ proc.at \in {"Semantic", "Reconcile", "Attested", "Prove", "AlreadyRecorded", "Sign",
                    "Envelope", "Depth", "EnvelopeSemantic", "Resend", "Finalize", "Scan", "Logs"}
    /\ \/ "rpc" \in Faults
       \/ At("Prove") /\ \A i \in Inclusions : <<proc.task, i>> \notin attested
       \/ At("Sign") /\ NonceIsExpected /\ EstimateReverts
    /\ IF proc.guarded
       THEN /\ Write(Retried(Me, proc.log))
            /\ proc' = Return(Me)
       ELSE proc' = Idle /\ UNCHANGED tasks
    /\ UNCHANGED <<chainVars, alarms>>

Crash ==
    /\ "crash" \in Faults
    /\ proc.at \notin {"Idle", "Down"}
    /\ proc' = [Idle EXCEPT !.at = "Down"]
    /\ UNCHANGED <<chainVars, tasks, alarms>>

\* startupChecks find the state directory as the crash left it.
Restart ==
    /\ At("Down")
    /\ proc' = Idle
    /\ UNCHANGED <<chainVars, tasks, alarms>>

\* Six hours pass.
Expire(t) ==
    /\ "expiry" \in Faults
    /\ \/ tasks[t].epoch = "OPEN" /\ tasks' = [tasks EXCEPT ![t].epoch = "EXPIRED"]
       \/ tasks[t].inFlight.window = "OPEN" /\
          tasks' = [tasks EXCEPT ![t].inFlight.window = "EXPIRED"]
       \/ \E k \in DOMAIN tasks[t].events :
             /\ tasks[t].events[k].epoch = "OPEN"
             /\ tasks' = [tasks EXCEPT ![t].events[k].epoch = "EXPIRED"]
    /\ UNCHANGED <<chainVars, alarms, proc>>

-----------------------------------------------------------------------------

Init ==
    /\ ChainsInit
    /\ tasks = [t \in Txs |-> NoTask]
    /\ alarms = {}
    /\ proc = Idle

\* A step of the pass the process is in.
Step ==
    \/ \E t \in Txs : ProcessTask(t) \/ CheckInclusion(t)
    \/ \E id \in AllIds : ReadSeen(id)
    \/ \E c \in Txs \X Inclusions : IngestReceipt(c)
    \/ ReconcileSemantic \/ CheckAttested \/ Prove \/ AlreadyRecorded
    \/ AttemptApplication \/ SimulationFails \/ PersistSignedEnvelope
    \/ ReadReceipt \/ ReadHead \/ ReconcileEnvelopeSemantic
    \/ TooSoon \/ WindowOver \/ Resend \/ Broadcast \/ FinalizeEnvelope
    \/ RaiseIncident \/ FindLogs \/ ReadFails

Operator == \E t \in Txs : Advance(t) \/ Resume(t) \/ ResumeBroadcast(t)

Next ==
    \/ ChainsStep /\ UNCHANGED workerVars
    \/ StartScan
    \/ StartTick
    \/ Step
    \/ Crash
    \/ Restart
    \/ \E t \in Txs : Expire(t)
    \/ Operator

Spec == Init /\ [][Next]_vars

\* The loop of the cli scans and ticks for ever, a pass ends, and some tick finds
\* that five seconds have passed since the last broadcast; the source chain
\* is attested, the destination chain includes what it holds and grows.  Crashes
\* and losses from the mempool may happen, but not for ever.
FairSpec ==
    /\ Spec
    /\ WF_vars(Step) /\ WF_vars(Restart)
    /\ SF_vars(StartTick) /\ SF_vars(StartScan) /\ SF_vars(Resend)
    /\ \A t \in Txs : WF_chainVars(Attest(t))
    /\ WF_chainVars(\E x \in pool : Mine(x)) /\ WF_chainVars(GrowChain)
    /\ <>[][proc'.at # "Down"]_vars
    /\ <>[][pool \subseteq pool' \/ mined' # mined]_vars

-----------------------------------------------------------------------------
(* Safety. *)

Task == [state: SubmissionStates \cup {"NONE"}, inc: 0..MaxInclusions, epoch: Clock,
         events: Seq(Evidence),
         inFlight: [signed: SignerTxs \cup {NoTx}, window: Clock], nonces: SUBSET (0..MaxNonce)]

TypeOK ==
    /\ ChainsTypeOK
    /\ tasks \in [Txs -> Task]
    /\ alarms \subseteq {"MIXED", "NONCE", "SOURCE_RECEIPT", "SOURCE_ADMISSION"}
    /\ proc.task \in Txs \cup {Nobody}
    /\ \A t \in Txs : tasks[t].inc # 0 => Len(tasks[t].events) = Len(Logs[t])

Envelopes == {tasks[t].inFlight.signed : t \in Txs} \ {NoTx}

\* A nonce is spent on one signature only: the worker never signs a nonce of which
\* another signature is in an envelope or was ever broadcast.  No crash, lost
\* broadcast, late read or command makes it sign twice.
NonceSpentOnce ==
    [][\A x \in Envelopes' \ Envelopes :
        /\ \A y \in sent \cup Envelopes : y.nonce # x.nonce
        /\ \A y \in Envelopes' : y.nonce = x.nonce => y = x]_vars

\* The exact bytes outlive every crash: what was ever broadcast is still held in
\* its envelope, or was confirmed and entered in the history of its task.
OutstandingIsPersisted ==
    \A x \in sent : x \in Envelopes \/ x.nonce \in tasks[x.tx].nonces

\* An envelope is released by nothing but its own receipt under two blocks.
ReleasedOnlyWhenFinal ==
    \A t \in Txs : \A n \in tasks[t].nonces :
        /\ n < LatestNonce
        /\ mined[n + 1].tx.tx = t
        /\ Confirmed(mined[n + 1].tx)

\* What automation says of a fact is backed: in flight, by the exact envelope that
\* carries it; ready, by an epoch that bounds the attempts.  (Types besides.)
AutomationIsBacked ==
    /\ TypeOK
    /\ \A t \in Txs : tasks[t].inc # 0 => \A k \in DOMAIN Logs[t] :
          /\ tasks[t].events[k].automation = "APPLICATION_IN_FLIGHT" =>
                IsInFlight(tasks[t], [tx |-> t, inc |-> tasks[t].inc, log |-> k])
          /\ tasks[t].events[k].automation = "READY_TO_APPLY" =>
                tasks[t].events[k].epoch # "NONE"

\* The worker believes only what is so: a task is SUBMITTED when its whole
\* inclusion is recorded, and automation ends for a fact once it is decided.
BelievesFacts ==
    \A t \in Txs : tasks[t].inc # 0 =>
        /\ tasks[t].state = "SUBMITTED" => Ids(t, tasks[t].inc) \subseteq reg.recorded
        /\ \A k \in DOMAIN Logs[t] :
              tasks[t].events[k].automation = "DECIDED" =>
                  [tx |-> t, inc |-> tasks[t].inc, log |-> k] \in reg.decided

\* On a destination that takes no block back, no incident alters or deletes an
\* envelope: the bytes stay until their own receipt is under two blocks, and are
\* history from then on.
EnvelopeIsExact ==
    [][\A t \in Lane :
        LET x == tasks[t].inFlight.signed IN
        \/ tasks'[t].inFlight.signed = x
        \/ Confirmed(x) /\ x.nonce \in tasks'[t].nonces]_vars

\* The resolution window of an envelope begins once: neither a restart nor any
\* rebroadcast, the operator's included, gives it more time.
WindowHolds(t) ==
    tasks[t].inFlight.window = "EXPIRED" =>
        tasks'[t].inFlight \in {tasks[t].inFlight, NoEnvelope}

\* Unless the operator resumes it, the epoch of a submission stays over until its
\* transaction is included anew, that of a fact until it was applied to no effect.
EpochsHold(t) ==
    tasks[t].inc = tasks'[t].inc /\ ~Resume(t) =>
        /\ tasks[t].epoch = "EXPIRED" => tasks'[t].epoch = "EXPIRED"
        /\ \A k \in DOMAIN tasks[t].events :
              tasks[t].events[k].epoch = "EXPIRED" =>
                  \/ tasks'[t].events[k].epoch = "EXPIRED"
                  \/ HasEnvelope(tasks[t]) /\ ~HasEnvelope(tasks'[t])

\* No deadline that is over begins again by itself.
DeadlinesHold == [][\A t \in Txs : WindowHolds(t) /\ EpochsHold(t)]_vars

-----------------------------------------------------------------------------
(* Liveness. *)

\* Nothing is left to do for a source transaction: every fact of its inclusion is
\* decided, or waits for a deal that is not ready; or an operator has been told.
Settled(t) ==
    \/ alarms # {} \/ tasks[t].state = "ATTENTION_REQUIRED"
    \/ /\ tasks[t].inc = source[t].now
       /\ \A k \in DOMAIN Logs[t] :
            LET id == [tx |-> t, inc |-> source[t].now, log |-> k] IN
            \/ tasks[t].events[k].automation \in {"DECIDED", "ATTENTION_REQUIRED"}
            \/ tasks[t].events[k].automation = "VERIFIED_PENDING"
               /\ ~ApplicationReady(EventOf(id), DealStatus(id))

\* Every payment on the source chain is carried through, whatever crashes on the
\* way and whoever else submits it.
Carried == []<>(\A t \in Txs : source[t].now # 0 => Settled(t))

-----------------------------------------------------------------------------
(* What the documents say and the engine does not do. *)

\* S6_WORKER_SPEC 13: pending evidence is evaluated again when its prerequisites
\* change; it does not wait for ever for a deal that is ready.
PendingIsRevisited ==
    \A t \in Txs : \A k \in DOMAIN Logs[t] :
        []<>(~ /\ tasks[t].inc # 0 /\ alarms = {} /\ tasks[t].state = "SUBMITTED"
               /\ tasks[t].events[k].automation = "VERIFIED_PENDING"
               /\ ApplicationReady(Logs[t][k], reg.status[Logs[t][k].deal]))

\* S6_WORKER_SPEC 10.1: once evidence of an inclusion that is gone is recorded,
\* automation for its task stops; no other inclusion of it is submitted.
IncidentStopsTask ==
    \A t \in Lane :
        LET x == tasks[t].inFlight.signed IN
        \A i \in Inclusions \ {x.inc} : Ids(t, i) \cap reg.recorded = {}
=============================================================================
