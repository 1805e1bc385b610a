------------------------- MODULE WorkerEngine_proofs -------------------------
(***************************************************************************)
(* The worker's process, for any number of tasks, facts, inclusions and    *)
(* nonces, and every failure at any moment: what it signs, what it keeps   *)
(* of it, and what it may believe of the destination.                      *)
(***************************************************************************)
EXTENDS WorkerEngine, SequenceTheorems, WellFoundedInduction, TLAPS

-----------------------------------------------------------------------------
(* A task file, by itself. *)

\* The events of an inclusion, none without one.
EventLogs(i, t) == IF i = 0 THEN {} ELSE DOMAIN Logs[t]

\* An envelope belongs to its task, and has no window without its bytes.
EnvelopeOK(inFlight, t) ==
    /\ inFlight.signed = NoTx => inFlight = NoEnvelope
    /\ inFlight.signed # NoTx =>
          inFlight.signed.tx = t /\ inFlight.signed.log \in {0} \cup DOMAIN Logs[t]

\* What automation says of an event is backed, by the envelope x or by an epoch.
EventBacked(x, i, t, k, e) ==
    /\ e.automation = "APPLICATION_IN_FLIGHT" =>
          x # NoTx /\ x.log # 0 /\ x.tx = t /\ x.inc = i /\ x.log = k
    /\ e.automation = "READY_TO_APPLY" => e.epoch # "NONE"

EventsBacked(f, x, i, t) == \A k \in DOMAIN f : EventBacked(x, i, t, k, f[k])

TaskOK(task, t) ==
    /\ task \in Task
    /\ task.events \in [EventLogs(task.inc, t) -> Evidence]
    /\ task.state = "NONE" => task = NoTask
    /\ EnvelopeOK(task.inFlight, t)
    /\ EventsBacked(task.events, task.inFlight.signed, task.inc, t)

-----------------------------------------------------------------------------
(* The process. *)

\* Places of a pass over a task that holds no envelope yet, or over one that does.
Working == {"Semantic", "Reconcile", "Attested", "Prove", "AlreadyRecorded", "Apply", "Sign"}
Carrying == {"Envelope", "Depth", "EnvelopeSemantic", "Resend", "Broadcast", "Finalize"}
Resting == {"Idle", "Down", "Tick", "Scan", "Logs", "Receipts"}

Procs ==
    [at: Working \cup Carrying \cup Resting \cup {"Incident"}, task: Txs \cup {Nobody},
     left: SUBSET (AllIds \cup (Txs \X Inclusions)), found: SUBSET AllIds, log: Nat,
     guarded: BOOLEAN, manual: BOOLEAN, todo: SUBSET Txs]

\* A place a, task p, event k, guard b and tasks d left to do that agree with the files f.
Fits(f, a, p, k, b, d) ==
    /\ \A t \in d : f[t].state # "NONE"
    /\ a \in Working => p \in Txs /\ f[p].state # "NONE" /\ f[p].inc # 0
    /\ a \in Carrying => p \in Txs /\ HasEnvelope(f[p])
    /\ a = "Incident" => p \in Txs
    /\ a = "Apply" => k \in DOMAIN Logs[p]
    /\ a \in {"Prove", "Sign"} => b
    /\ b => /\ a \in Working \cup Carrying
            /\ p \in Txs /\ f[p].inc # 0 /\ k \in {0} \cup DOMAIN Logs[p]

ProcOK ==
    /\ proc \in Procs
    /\ Fits(tasks, proc.at, proc.task, proc.log, proc.guarded, proc.todo)

TasksOK == tasks \in [Txs -> Task] /\ \A t \in Txs : TaskOK(tasks[t], t)

Alarms == {"MIXED", "NONCE", "SOURCE_RECEIPT", "SOURCE_ADMISSION"}

(* The inductive invariant.  A nonce is spent once because every signature that was *)
(* ever broadcast is on disk; that needs the place of the process to agree with the *)
(* files, since what it broadcasts is what the file of its task holds by then.      *)
WorkInv ==
    /\ ChainsTypeOK
    /\ TasksOK
    /\ alarms \subseteq Alarms
    /\ ProcOK
    /\ OutstandingIsPersisted

\* What a task says is so: of the registry, and by way of its confirmed nonces of the chain.
Believed(task, t) ==
    task.inc # 0 =>
        /\ task.state = "SUBMITTED" => Ids(t, task.inc) \subseteq reg.recorded
        /\ \A k \in DOMAIN Logs[t] :
              task.events[k].automation = "DECIDED" =>
                  [tx |-> t, inc |-> task.inc, log |-> k] \in reg.decided

NoncesInOrder == \A n \in DOMAIN mined : mined[n].tx # NoTx => mined[n].tx.nonce = n - 1

\* What the process has read is so.
PlaceOK ==
    /\ proc.at = "Depth" => Mined(Signed)
    /\ proc.at = "Finalize" => Confirmed(Signed)
    /\ proc.found \subseteq reg.recorded

\* Where the destination keeps what it has mined, what the process has read stays so.
FinalInv ==
    /\ NoncesInOrder
    /\ PlaceOK
    /\ ReleasedOnlyWhenFinal
    /\ \A t \in Txs : Believed(tasks[t], t)

-----------------------------------------------------------------------------
(* Task files and what is done to them. *)

States == SubmissionStates \cup {"NONE"}
Flights == [signed: SignerTxs \cup {NoTx}, window: Clock]

\* A set of naturals has a least element.
LEMMA SmallestOf ==
  ASSUME NEW S, S \subseteq Nat, S # {}
  PROVE  Min(S) \in S /\ \A y \in S : Min(S) =< y
<1> DEFINE R == OpToRel(<, Nat)
<1>1. IsWellFoundedOn(R, Nat)
  BY NatLessThanWellFounded
<1>2. \A x, y \in Nat : x < y => <<x, y>> \in R
  BY DEF OpToRel
<1> HIDE DEF R
<1>3. PICK x \in S : \A y \in S : ~ (<<y, x>> \in R)
  BY <1>1, WFMin
<1>4. ASSUME NEW y \in S PROVE x =< y
  <2>1. x \in Nat /\ y \in Nat
    OBVIOUS
  <2>2. ~(y < x)
    BY <1>2, <1>3, <2>1
  <2> QED BY <2>1, <2>2
<1> QED BY <1>4 DEF Min

\* A bounded one has a greatest.
LEMMA GreatestOf ==
  ASSUME NEW S, NEW n \in Nat, S \subseteq 0..n, S # {}
  PROVE  Max(S) \in S /\ \A y \in S : Max(S) >= y
<1> DEFINE T == {n - y : y \in S}
<1>0. PICK s \in S : TRUE
  OBVIOUS
<1>1. T \subseteq Nat /\ n - s \in T
  BY SMT
<1>2. Min(T) \in T /\ \A y \in T : Min(T) =< y
  BY <1>1, SmallestOf, T # {}
<1>3. PICK x \in S : Min(T) = n - x
  BY <1>2
<1>4. ASSUME NEW y \in S PROVE x >= y
  <2>1. n - x =< n - y
    BY <1>2, <1>3
  <2>2. x \in Nat /\ y \in Nat
    OBVIOUS
  <2> QED BY <2>1, <2>2
<1> QED BY <1>4 DEF Max

\* A transaction has logs, each about a deal.
LEMMA LogsType ==
  ASSUME NEW t \in Txs
  PROVE  /\ Logs[t] \in Seq([kind: Kinds, deal: Deals]) /\ Len(Logs[t]) \in Nat
         /\ DOMAIN Logs[t] = 1..Len(Logs[t]) /\ 0 \notin DOMAIN Logs[t]
         /\ \A k \in DOMAIN Logs[t] : Logs[t][k].deal \in Deals
<1>1. Logs[t] \in Seq([kind: Kinds, deal: Deals])
  BY ChainsConstants
<1>2. DOMAIN Logs[t] = 1..Len(Logs[t]) /\ Len(Logs[t]) \in Nat
  BY <1>1, LenProperties
<1>3. \A k \in 1..Len(Logs[t]) : Logs[t][k] \in [kind: Kinds, deal: Deals]
  BY <1>1, ElementOfSeq
<1>4. 0 \notin 1..Len(Logs[t])
  BY <1>2
<1> QED BY <1>1, <1>2, <1>3, <1>4

\* The identifiers of an inclusion.
LEMMA IdsType ==
  ASSUME NEW t \in Txs, NEW i \in Inclusions
  PROVE  /\ Ids(t, i) \subseteq AllIds /\ Ids(t, i) # {}
         /\ \A k \in DOMAIN Logs[t] : [tx |-> t, inc |-> i, log |-> k] \in Ids(t, i)
<1>1. 1 \in DOMAIN Logs[t]
  BY LogsType, ChainsConstants
<1>2. Ids(t, i) \subseteq AllIds
  BY DEF AllIds
<1>3. \A k \in DOMAIN Logs[t] : [tx |-> t, inc |-> i, log |-> k] \in Ids(t, i)
  BY DEF Ids
<1> QED BY <1>1, <1>2, <1>3

\* The events of a task are a list, as long as the logs.
LEMMA EventsAreSeq ==
  ASSUME NEW t \in Txs, NEW i, NEW f \in [EventLogs(i, t) -> Evidence]
  PROVE  f \in Seq(Evidence) /\ (i # 0 => Len(f) = Len(Logs[t]))
<1>1. CASE i = 0
  <2>1. DOMAIN f = {} /\ {} = 1..0
    BY <1>1 DEF EventLogs
  <2>2. f \in [1..0 -> Evidence]
    BY <2>1
  <2> QED BY <1>1, <2>2, SeqDef
<1>2. CASE i # 0
  <2>1. f \in [1..Len(Logs[t]) -> Evidence] /\ Len(Logs[t]) \in Nat
    BY <1>2, LogsType DEF EventLogs
  <2>2. f \in Seq(Evidence)
    BY <2>1, SeqDef
  <2>3. DOMAIN f = 1..Len(f) /\ DOMAIN f = 1..Len(Logs[t]) /\ Len(f) \in Nat
    BY <2>1, <2>2, LenProperties
  <2> QED BY <2>1, <2>2, <2>3
<1> QED BY <1>1, <1>2

\* Nothing is what there is of a task that was never admitted.
LEMMA NoTaskOK ==
  ASSUME NEW t \in Txs
  PROVE  TaskOK(NoTask, t) /\ NoTask.inc = 0 /\ ~HasEnvelope(NoTask) /\ NoTask.nonces = {}
<1>1. <<>> \in [{} -> Evidence] /\ <<>> \in Seq(Evidence) /\ DOMAIN <<>> = {}
  <2>1. <<>> \in Seq(Evidence) /\ Len(<<>>) = 0
    BY EmptySeq
  <2>2. DOMAIN <<>> = 1..0
    BY <2>1, LenProperties
  <2>3. DOMAIN <<>> = {}
    BY <2>2
  <2>4. <<>> \in [1..0 -> Evidence]
    BY <2>1, SeqDef, <2>2
  <2>5. 1..0 = {}
    OBVIOUS
  <2> QED BY <2>1, <2>3, <2>4, <2>5, Zenon
<1>2. MaxInclusions \in Nat
  BY ChainsConstants
<1>3. NoTask \in Task
  BY <1>1, <1>2 DEF NoTask, Task, NoEnvelope, Clock
<1>4. NoTask.inc = 0 /\ NoTask.events = <<>> /\ NoTask.inFlight = NoEnvelope /\ NoTask.nonces = {}
      /\ NoEnvelope.signed = NoTx
  BY DEF NoTask, NoEnvelope
<1>5. NoTask.events \in [EventLogs(NoTask.inc, t) -> Evidence]
  BY <1>1, <1>4 DEF EventLogs
<1>6. EventsBacked(NoTask.events, NoTask.inFlight.signed, NoTask.inc, t)
  BY <1>1, <1>4 DEF EventsBacked
<1> QED BY <1>3, <1>4, <1>5, <1>6 DEF TaskOK, EnvelopeOK, HasEnvelope

\* The parts of a sound task.
LEMMA TaskParts ==
  ASSUME NEW t \in Txs, NEW task, TaskOK(task, t)
  PROVE  /\ task.state \in States /\ task.inc \in 0..MaxInclusions /\ task.epoch \in Clock
         /\ task.inFlight \in Flights /\ task.nonces \subseteq 0..MaxNonce
         /\ task.events \in [EventLogs(task.inc, t) -> Evidence]
         /\ DOMAIN task.events = EventLogs(task.inc, t)
         /\ task.inc # 0 => task.inc \in Inclusions /\ DOMAIN task.events = DOMAIN Logs[t]
         /\ task.state = "NONE" =>
               task.inc = 0 /\ DOMAIN task.events = {} /\ ~HasEnvelope(task) /\ task.nonces = {}
         /\ HasEnvelope(task) =>
               /\ task.inFlight.signed \in SignerTxs /\ task.inFlight.signed.tx = t
               /\ task.inFlight.signed.log \in {0} \cup DOMAIN Logs[t]
         /\ ~HasEnvelope(task) => task.inFlight = NoEnvelope
         /\ EventsBacked(task.events, task.inFlight.signed, task.inc, t)
<1>1. /\ task.state \in States /\ task.inc \in 0..MaxInclusions /\ task.epoch \in Clock
      /\ task.inFlight \in Flights /\ task.nonces \subseteq 0..MaxNonce
  BY DEF TaskOK, Task, States, Flights
<1>2. task.events \in [EventLogs(task.inc, t) -> Evidence] /\ DOMAIN task.events = EventLogs(task.inc, t)
  BY DEF TaskOK
<1>3. task.inc # 0 => task.inc \in Inclusions /\ DOMAIN task.events = DOMAIN Logs[t]
  BY <1>1, <1>2, ChainsConstants DEF EventLogs, Inclusions
<1>4. task.state = "NONE" =>
         task.inc = 0 /\ DOMAIN task.events = {} /\ ~HasEnvelope(task) /\ task.nonces = {}
  <2> SUFFICES ASSUME task.state = "NONE"
               PROVE  task.inc = 0 /\ DOMAIN task.events = {} /\ ~HasEnvelope(task) /\ task.nonces = {}
    OBVIOUS
  <2>1. task = NoTask
    BY DEF TaskOK
  <2>2. task.inc = 0 /\ ~HasEnvelope(task) /\ task.nonces = {}
    BY <2>1, NoTaskOK
  <2> QED BY <1>2, <2>2 DEF EventLogs
<1>5. HasEnvelope(task) =>
        /\ task.inFlight.signed \in SignerTxs /\ task.inFlight.signed.tx = t
        /\ task.inFlight.signed.log \in {0} \cup DOMAIN Logs[t]
  BY <1>1 DEF TaskOK, EnvelopeOK, HasEnvelope, Flights
<1>6. ~HasEnvelope(task) => task.inFlight = NoEnvelope
  BY DEF TaskOK, EnvelopeOK, HasEnvelope
<1> QED BY <1>1, <1>2, <1>3, <1>4, <1>5, <1>6 DEF TaskOK

\* A task file, by its fields.
Made(s, i, c, f, x, n) ==
    [state |-> s, inc |-> i, epoch |-> c, events |-> f, inFlight |-> x, nonces |-> n]

\* Sound fields make a sound task.
LEMMA MadeOK ==
  ASSUME NEW t \in Txs, NEW s \in SubmissionStates, NEW i \in 0..MaxInclusions, NEW c \in Clock,
         NEW f \in [EventLogs(i, t) -> Evidence], NEW x \in Flights, NEW n \in SUBSET (0..MaxNonce),
         EnvelopeOK(x, t), EventsBacked(f, x.signed, i, t),
         NEW new, new = Made(s, i, c, f, x, n)
  PROVE  /\ TaskOK(new, t) /\ new.state = s /\ new.state # "NONE" /\ new.inc = i /\ new.epoch = c
         /\ new.events = f /\ new.inFlight = x /\ new.nonces = n
<1>1. f \in Seq(Evidence)
  BY EventsAreSeq
<1>2. /\ new.state = s /\ new.inc = i /\ new.epoch = c
      /\ new.events = f /\ new.inFlight = x /\ new.nonces = n
  BY DEF Made
<1>3. s # "NONE"
  BY DEF SubmissionStates
<1>4. new \in Task
  BY <1>1 DEF Made, Task, Flights
<1> QED BY <1>2, <1>3, <1>4 DEF TaskOK

\* A task is made of its fields.
LEMMA TaskIsMade ==
  ASSUME NEW t \in Txs, NEW task, TaskOK(task, t)
  PROVE  task = Made(task.state, task.inc, task.epoch, task.events, task.inFlight, task.nonces)
BY DEF TaskOK, Task, Made

-----------------------------------------------------------------------------
(* What may be written over a task file. *)

\* The process is about to enter the operation of t into the history.
Releases(t) == proc.at = "Finalize" /\ proc.task = t

\* No deadline that is over begins again.
Holds(old, new) ==
    /\ old.inFlight.window = "EXPIRED" => new.inFlight \in {old.inFlight, NoEnvelope}
    /\ old.inc = new.inc =>
          /\ old.epoch = "EXPIRED" => new.epoch = "EXPIRED"
          /\ \A k \in DOMAIN old.events :
                old.events[k].epoch = "EXPIRED" =>
                    \/ new.events[k].epoch = "EXPIRED"
                    \/ HasEnvelope(old) /\ ~HasEnvelope(new)

\* The exact signature stays until it is history.
Keeps(t, old, new) ==
    \/ new.inFlight.signed = old.inFlight.signed /\ new.nonces = old.nonces
    \/ /\ HasEnvelope(old) /\ ~HasEnvelope(new) /\ Releases(t)
       /\ new.nonces = old.nonces \cup {old.inFlight.signed.nonce}

\* A write that signs nothing.
Rewrites(t, new) ==
    TaskOK(new, t) /\ new.state # "NONE" /\ Keeps(t, tasks[t], new) /\ Holds(tasks[t], new)

\* A write that claims nothing.
Modest(old, new) ==
    /\ new.state = "SUBMITTED" => old.inc = new.inc /\ old.state = "SUBMITTED"
    /\ \A k \in DOMAIN new.events :
          new.events[k].automation = "DECIDED" =>
              old.inc = new.inc /\ old.events[k].automation = "DECIDED"

\* A state and an epoch.
Relabel(task, s, c) == [task EXCEPT !.state = s, !.epoch = c]

\* Another state, and an epoch that was not over, leave the rest of a task as it was.
LEMMA Relabelled ==
  ASSUME NEW t \in Txs, NEW task, TaskOK(task, t), NEW s \in SubmissionStates, NEW c \in Clock,
         NEW new, new = Relabel(task, s, c)
  PROVE  /\ TaskOK(new, t) /\ new.state = s /\ new.state # "NONE" /\ new.epoch = c /\ new.inc = task.inc
         /\ new.events = task.events /\ new.inFlight = task.inFlight /\ new.nonces = task.nonces
<1>1. new = Made(s, task.inc, c, task.events, task.inFlight, task.nonces)
  BY DEF TaskOK, Task, Relabel, Made
<1>2. EnvelopeOK(task.inFlight, t) /\ EventsBacked(task.events, task.inFlight.signed, task.inc, t)
  BY DEF TaskOK
<1> QED BY <1>1, <1>2, TaskParts, MadeOK

\* The same as a write of the process.
LEMMA Relabels ==
  ASSUME NEW t \in Txs, TaskOK(tasks[t], t), NEW s \in SubmissionStates, NEW c \in Clock,
         tasks[t].epoch = "EXPIRED" => c = "EXPIRED",
         NEW new, new = Relabel(tasks[t], s, c)
  PROVE  /\ Rewrites(t, new) /\ new.inc = tasks[t].inc /\ new.inFlight = tasks[t].inFlight
         /\ new.events = tasks[t].events /\ new.state = s
         /\ s # "SUBMITTED" => Modest(tasks[t], new)
<1>1. /\ TaskOK(new, t) /\ new.state = s /\ new.state # "NONE" /\ new.epoch = c /\ new.inc = tasks[t].inc
      /\ new.events = tasks[t].events /\ new.inFlight = tasks[t].inFlight /\ new.nonces = tasks[t].nonces
  BY Relabelled
<1> QED BY <1>1 DEF Rewrites, Keeps, Holds, Modest

\* The file with other events, or with another event, of the same inclusion.
ReplaceEvents(task, s, f) == [task EXCEPT !.state = s, !.events = f]
ReplaceEvent(task, k, e) == [task EXCEPT !.events[k] = e]

EpochHolds(e, new) == e.epoch = "EXPIRED" => new.epoch = "EXPIRED"
EpochsStay(f, g) == \A k \in DOMAIN f : EpochHolds(f[k], g[k])

\* New events are a sound rewriting if none claims to be in flight anew and no epoch
\* that is over begins again; a modest one if none is decided anew.
LEMMA EventsReplaced ==
  ASSUME NEW t \in Txs, TaskOK(tasks[t], t), NEW s \in SubmissionStates,
         NEW f \in [EventLogs(tasks[t].inc, t) -> Evidence],
         EventsBacked(f, tasks[t].inFlight.signed, tasks[t].inc, t),
         EpochsStay(tasks[t].events, f),
         NEW new, new = ReplaceEvents(tasks[t], s, f)
  PROVE  /\ Rewrites(t, new) /\ new.state = s /\ new.inc = tasks[t].inc
         /\ new.events = f /\ new.inFlight = tasks[t].inFlight /\ new.nonces = tasks[t].nonces
<1>1. new = Made(s, tasks[t].inc, tasks[t].epoch, f, tasks[t].inFlight, tasks[t].nonces)
  BY DEF TaskOK, Task, ReplaceEvents, Made
<1>2. EnvelopeOK(tasks[t].inFlight, t)
  BY DEF TaskOK
<1>3. /\ TaskOK(new, t) /\ new.state = s /\ new.state # "NONE" /\ new.inc = tasks[t].inc
      /\ new.epoch = tasks[t].epoch
      /\ new.events = f /\ new.inFlight = tasks[t].inFlight /\ new.nonces = tasks[t].nonces
  BY <1>1, <1>2, TaskParts, MadeOK
<1> QED BY <1>3 DEF Rewrites, Keeps, Holds, EpochsStay, EpochHolds

\* One event of it.
LEMMA EventReplaced ==
  ASSUME NEW t \in Txs, TaskOK(tasks[t], t), NEW k \in DOMAIN tasks[t].events, NEW e \in Evidence,
         EventBacked(tasks[t].inFlight.signed, tasks[t].inc, t, k, e),
         EpochHolds(tasks[t].events[k], e),
         NEW new, new = ReplaceEvent(tasks[t], k, e)
  PROVE  /\ Rewrites(t, new) /\ new.state = tasks[t].state /\ new.inc = tasks[t].inc
         /\ new.inFlight = tasks[t].inFlight
         /\ DOMAIN new.events = DOMAIN tasks[t].events /\ new.events[k] = e
         /\ \A j \in DOMAIN tasks[t].events : j # k => new.events[j] = tasks[t].events[j]
<1> DEFINE f == [tasks[t].events EXCEPT ![k] = e]
<1>1. /\ tasks[t].events \in [EventLogs(tasks[t].inc, t) -> Evidence]
      /\ DOMAIN tasks[t].events = EventLogs(tasks[t].inc, t)
      /\ EventsBacked(tasks[t].events, tasks[t].inFlight.signed, tasks[t].inc, t)
  BY TaskParts
<1>2. /\ f \in [EventLogs(tasks[t].inc, t) -> Evidence] /\ f[k] = e
      /\ DOMAIN f = DOMAIN tasks[t].events
      /\ \A j \in DOMAIN tasks[t].events : j # k => f[j] = tasks[t].events[j]
  BY <1>1
<1>3. tasks[t].state \in SubmissionStates
  BY TaskParts DEF States
<1>4. new = ReplaceEvents(tasks[t], tasks[t].state, f)
  BY DEF ReplaceEvent, ReplaceEvents, TaskOK, Task
<1> HIDE DEF f
<1>5. EventsBacked(f, tasks[t].inFlight.signed, tasks[t].inc, t)
  BY <1>1, <1>2 DEF EventsBacked
<1>6. EpochsStay(tasks[t].events, f)
  BY <1>2 DEF EpochsStay, EpochHolds
<1>7. /\ Rewrites(t, new) /\ new.state = tasks[t].state /\ new.inc = tasks[t].inc
      /\ new.events = f /\ new.inFlight = tasks[t].inFlight
  BY <1>2, <1>3, <1>4, <1>5, <1>6, EventsReplaced
<1> QED BY <1>2, <1>7

\* Stopping a task or one of its events.
LEMMA AttentionRewrites ==
  ASSUME NEW t \in Txs, TaskOK(tasks[t], t), NEW k \in {0} \cup DOMAIN tasks[t].events,
         NEW new, new = Attention(tasks[t], k)
  PROVE  Rewrites(t, new) /\ Modest(tasks[t], new) /\ new.inc = tasks[t].inc
         /\ new.inFlight = tasks[t].inFlight
<1>1. CASE k = 0
  <2>1. new = Relabel(tasks[t], "ATTENTION_REQUIRED", tasks[t].epoch)
    BY <1>1 DEF Attention, TaskOK, Task, Relabel
  <2>2. "ATTENTION_REQUIRED" \in SubmissionStates /\ tasks[t].epoch \in Clock
    BY TaskParts DEF SubmissionStates
  <2> QED BY <2>1, <2>2, Relabels
<1>2. CASE k # 0
  <2> DEFINE e == [tasks[t].events[k] EXCEPT !.automation = "ATTENTION_REQUIRED"]
  <2>1. k \in DOMAIN tasks[t].events /\ tasks[t].events[k] \in Evidence
    BY <1>2, TaskParts
  <2>2. e \in Evidence /\ e.automation = "ATTENTION_REQUIRED" /\ e.epoch = tasks[t].events[k].epoch
    BY <2>1 DEF Evidence, AutomationStates
  <2>3. new = ReplaceEvent(tasks[t], k, e)
    BY <1>2 DEF Attention, ReplaceEvent
  <2> HIDE DEF e
  <2>4. EventBacked(tasks[t].inFlight.signed, tasks[t].inc, t, k, e) /\ EpochHolds(tasks[t].events[k], e)
    BY <2>2 DEF EventBacked, EpochHolds
  <2>5. /\ Rewrites(t, new) /\ new.state = tasks[t].state /\ new.inc = tasks[t].inc
        /\ new.inFlight = tasks[t].inFlight
        /\ DOMAIN new.events = DOMAIN tasks[t].events /\ new.events[k] = e
        /\ \A j \in DOMAIN tasks[t].events : j # k => new.events[j] = tasks[t].events[j]
    BY <2>1, <2>2, <2>3, <2>4, EventReplaced
  <2> QED BY <2>2, <2>5 DEF Modest
<1> QED BY <1>1, <1>2

\* A retry is scheduled, or refused.
LEMMA RetriedRewrites ==
  ASSUME NEW t \in Txs, TaskOK(tasks[t], t), tasks[t].state # "NONE",
         NEW k \in {0} \cup DOMAIN tasks[t].events,
         NEW new, new = Retried(tasks[t], k)
  PROVE  Rewrites(t, new) /\ Modest(tasks[t], new) /\ new.inc = tasks[t].inc
         /\ new.inFlight = tasks[t].inFlight
<1>1. CASE k = 0
  <2> DEFINE s == IF tasks[t].epoch = "EXPIRED" THEN "ATTENTION_REQUIRED" ELSE "READY_FOR_PROOF"
  <2>1. new = Relabel(tasks[t], s, tasks[t].epoch)
    BY <1>1 DEF Retried, TaskOK, Task, Relabel
  <2>2. s \in SubmissionStates /\ s # "SUBMITTED" /\ tasks[t].epoch \in Clock
    BY TaskParts DEF SubmissionStates
  <2> HIDE DEF s
  <2> QED BY <2>1, <2>2, Relabels
<1>2. CASE k # 0 /\ tasks[t].events[k].epoch = "EXPIRED"
  <2>1. new = Attention(tasks[t], k)
    BY <1>2 DEF Retried, Attention
  <2> QED BY <2>1, AttentionRewrites
<1>3. CASE k # 0 /\ tasks[t].events[k].epoch # "EXPIRED"
  <2>1. new = tasks[t]
    BY <1>3 DEF Retried
  <2> QED BY <2>1 DEF Rewrites, Keeps, Holds, Modest
<1> QED BY <1>1, <1>2, <1>3

-----------------------------------------------------------------------------
(* What the process reads. *)

\* The registry answers for every fact of a deal.
LEMMA ReadTypes ==
  ASSUME ChainsTypeOK, NEW t \in Txs, NEW i, NEW k \in DOMAIN Logs[t],
         NEW id, id = [tx |-> t, inc |-> i, log |-> k]
  PROVE  /\ ContractState(id) \in {"UNSEEN", "VERIFIED_PENDING", "DECIDED"}
         /\ DealStatus(id) \in Statuses
         /\ ContractState(id) = "DECIDED" => id \in reg.decided
<1>1. EventOf(id).deal \in Deals
  BY LogsType DEF EventOf
<1>2. reg.status \in [Deals -> Statuses]
  BY DEF ChainsTypeOK
<1> QED BY <1>1, <1>2 DEF DealStatus, ContractState

\* A fact that is not there is not forgotten to be in flight.
LEMMA ForgottenEvent ==
  ASSUME NEW x, NEW i, NEW t, NEW k, NEW e \in Evidence, EventBacked(x, i, t, k, e),
         NEW new, new = Forgotten(e)
  PROVE  /\ new \in Evidence /\ EventBacked(x, i, t, k, new) /\ EpochHolds(e, new)
         /\ new.automation # "DECIDED"
<1>1. /\ new \in Evidence /\ new.epoch = e.epoch
      /\ new.automation = IF e.automation = "APPLICATION_IN_FLIGHT" THEN e.automation ELSE "UNSEEN"
  BY DEF Forgotten, Evidence, AutomationStates
<1> QED BY <1>1 DEF EventBacked, EpochHolds

\* A fact in flight stays so; another is decided only by the registry.
LEMMA ReconciledEvent ==
  ASSUME ChainsTypeOK, NEW t \in Txs, NEW task, TaskOK(task, t), task.inc # 0, NEW k \in DOMAIN Logs[t],
         NEW id, id = [tx |-> t, inc |-> task.inc, log |-> k],
         NEW new, new = Reconciled(task, id)
  PROVE  /\ new \in Evidence /\ EventBacked(task.inFlight.signed, task.inc, t, k, new)
         /\ EpochHolds(task.events[k], new)
         /\ new.automation = "DECIDED" =>
               id \in reg.decided \/ task.events[k].automation = "DECIDED"
<1> DEFINE o == task.events[k]
           e == [o EXCEPT !.contract = ContractState(id)]
           status == DealStatus(id)
           ready == ApplicationReady(EventOf(id), status)
<1>1. o \in Evidence /\ EventBacked(task.inFlight.signed, task.inc, t, k, o)
  BY TaskParts DEF EventsBacked
<1>2. /\ ContractState(id) \in {"UNSEEN", "VERIFIED_PENDING", "DECIDED"} /\ status \in Statuses
      /\ ContractState(id) = "DECIDED" => id \in reg.decided
  BY ReadTypes
<1>3. /\ e \in Evidence /\ e.contract = ContractState(id) /\ e.automation = o.automation
      /\ e.epoch = o.epoch /\ e.snapshot = o.snapshot
  BY <1>1, <1>2 DEF Evidence
<1>4. IsInFlight(task, id) \/ o.automation # "APPLICATION_IN_FLIGHT"
  <2>1. 0 \notin DOMAIN Logs[t]
    BY LogsType
  <2> QED BY <1>1, <2>1 DEF EventBacked, IsInFlight, HasEnvelope
<1>5. id.log = k
  OBVIOUS
<1>6. new = CASE e.contract = "UNSEEN" ->
              IF IsInFlight(task, id) THEN e
              ELSE [e EXCEPT !.automation = "ATTENTION_REQUIRED"]
         [] e.contract = "DECIDED" ->
              IF IsInFlight(task, id) THEN e ELSE [e EXCEPT !.automation = "DECIDED"]
         [] IsInFlight(task, id) -> [e EXCEPT !.snapshot = status]
         [] e.automation = "READY_TO_APPLY" /\ e.epoch # "NONE" -> e
         [] e.snapshot = status -> [e EXCEPT !.automation = "VERIFIED_PENDING"]
         [] OTHER ->
              [e EXCEPT !.snapshot = status,
                        !.automation = IF ready THEN "READY_TO_APPLY" ELSE "VERIFIED_PENDING",
                        !.epoch = IF ready /\ @ = "NONE" THEN "OPEN" ELSE @]
  BY <1>5 DEF Reconciled
<1> HIDE DEF e, ready, status, o
<1>7. EventBacked(task.inFlight.signed, task.inc, t, k, e) /\ EpochHolds(o, e)
  BY <1>1, <1>3 DEF EventBacked, EpochHolds
<1>8. CASE new = e
  BY <1>3, <1>7, <1>8 DEF o
<1>9. CASE new = [e EXCEPT !.snapshot = status]
  <2>1. new \in Evidence /\ new.automation = e.automation /\ new.epoch = e.epoch
    BY <1>2, <1>3, <1>9 DEF Evidence
  <2> QED BY <2>1, <1>3, <1>7 DEF EventBacked, EpochHolds, o
<1>10. ASSUME NEW a \in {"ATTENTION_REQUIRED", "VERIFIED_PENDING", "DECIDED"},
              new = [e EXCEPT !.automation = a], a = "DECIDED" => id \in reg.decided
       PROVE  /\ new \in Evidence /\ EventBacked(task.inFlight.signed, task.inc, t, k, new)
              /\ EpochHolds(o, new)
              /\ new.automation = "DECIDED" => id \in reg.decided
  <2>1. new \in Evidence /\ new.automation = a /\ new.epoch = o.epoch
    BY <1>3, <1>10 DEF Evidence, AutomationStates
  <2> QED BY <2>1, <1>10 DEF EventBacked, EpochHolds
<1>11. CASE new = [e EXCEPT !.snapshot = status,
                        !.automation = IF ready THEN "READY_TO_APPLY" ELSE "VERIFIED_PENDING",
                        !.epoch = IF ready /\ @ = "NONE" THEN "OPEN" ELSE @]
  <2>1. /\ new \in Evidence
        /\ new.automation = IF ready THEN "READY_TO_APPLY" ELSE "VERIFIED_PENDING"
        /\ new.epoch = IF ready /\ o.epoch = "NONE" THEN "OPEN" ELSE o.epoch
    BY <1>2, <1>3, <1>11 DEF Evidence, AutomationStates, Clock
  <2> QED BY <2>1 DEF EventBacked, EpochHolds, o
<1>12. e.contract = "DECIDED" => id \in reg.decided
  BY <1>2, <1>3
<1>13. \/ new = e
       \/ new = [e EXCEPT !.snapshot = status]
       \/ new = [e EXCEPT !.automation = "ATTENTION_REQUIRED"]
       \/ new = [e EXCEPT !.automation = "VERIFIED_PENDING"]
       \/ new = [e EXCEPT !.automation = "DECIDED"] /\ e.contract = "DECIDED"
       \/ new = [e EXCEPT !.snapshot = status,
                        !.automation = IF ready THEN "READY_TO_APPLY" ELSE "VERIFIED_PENDING",
                        !.epoch = IF ready /\ @ = "NONE" THEN "OPEN" ELSE @]
  BY <1>6
<1> QED BY <1>8, <1>9, <1>10, <1>11, <1>12, <1>13 DEF o

\* The whole inclusion, as it was found recorded, absent or in part.
LEMMA SemanticRewrites ==
  ASSUME ChainsTypeOK, NEW t \in Txs, TaskOK(tasks[t], t), tasks[t].inc # 0,
         NEW v \in {"MIXED", "ALL_TRUE", "ALL_FALSE"},
         NEW new, new = Semantic(t, v)
  PROVE  /\ Rewrites(t, new) /\ new.inc = tasks[t].inc /\ new.inFlight = tasks[t].inFlight
         /\ Believed(tasks[t], t) /\ (v = "ALL_TRUE" => Ids(t, tasks[t].inc) \subseteq reg.recorded) =>
               Believed(new, t)
<1>1. /\ tasks[t].events \in [DOMAIN Logs[t] -> Evidence] /\ DOMAIN tasks[t].events = DOMAIN Logs[t]
      /\ EventLogs(tasks[t].inc, t) = DOMAIN Logs[t] /\ tasks[t].state \in SubmissionStates
      /\ EventsBacked(tasks[t].events, tasks[t].inFlight.signed, tasks[t].inc, t)
  BY TaskParts DEF EventLogs, States
<1>2. CASE v = "MIXED"
  <2>1. new = Attention(tasks[t], 0)
    BY <1>2 DEF Semantic
  <2>2. Rewrites(t, new) /\ Modest(tasks[t], new) /\ new.inc = tasks[t].inc
         /\ new.inFlight = tasks[t].inFlight
    BY <2>1, AttentionRewrites
  <2>3. DOMAIN new.events = DOMAIN Logs[t]
    BY <2>2, <1>1, TaskParts DEF Rewrites
  <2> QED BY <2>2, <2>3 DEF Modest, Believed
<1>3. CASE v = "ALL_FALSE"
  <2> DEFINE f == [k \in DOMAIN Logs[t] |-> Forgotten(tasks[t].events[k])]
  <2>1. new = ReplaceEvents(tasks[t], tasks[t].state, f)
    BY <1>3 DEF Semantic, ReplaceEvents, TaskOK, Task
  <2>2. ASSUME NEW k \in DOMAIN Logs[t]
        PROVE  /\ f[k] \in Evidence /\ EventBacked(tasks[t].inFlight.signed, tasks[t].inc, t, k, f[k])
               /\ EpochHolds(tasks[t].events[k], f[k]) /\ f[k].automation # "DECIDED"
    BY <1>1, ForgottenEvent DEF EventsBacked
  <2>3. DOMAIN f = DOMAIN Logs[t]
    OBVIOUS
  <2>4. f = [k \in DOMAIN Logs[t] |-> f[k]]
    OBVIOUS
  <2> HIDE DEF f
  <2>5. f \in [EventLogs(tasks[t].inc, t) -> Evidence]
    BY <1>1, <2>2, <2>4
  <2>6. EventsBacked(f, tasks[t].inFlight.signed, tasks[t].inc, t) /\ EpochsStay(tasks[t].events, f)
    BY <1>1, <2>2, <2>3 DEF EventsBacked, EpochsStay
  <2>7. /\ Rewrites(t, new) /\ new.state = tasks[t].state /\ new.inc = tasks[t].inc
        /\ new.events = f /\ new.inFlight = tasks[t].inFlight
    BY <1>1, <2>1, <2>5, <2>6, EventsReplaced
  <2> QED BY <2>2, <2>7 DEF Believed
<1>4. CASE v = "ALL_TRUE"
  <2> DEFINE f == [k \in DOMAIN Logs[t] |->
                      Reconciled(tasks[t], [tx |-> t, inc |-> tasks[t].inc, log |-> k])]
             s == IF tasks[t].state = "ATTENTION_REQUIRED" THEN tasks[t].state ELSE "SUBMITTED"
  <2>1. new = ReplaceEvents(tasks[t], s, f)
    BY <1>4 DEF Semantic, ReplaceEvents, TaskOK, Task
  <2>2. ASSUME NEW k \in DOMAIN Logs[t]
        PROVE  /\ f[k] \in Evidence /\ EventBacked(tasks[t].inFlight.signed, tasks[t].inc, t, k, f[k])
               /\ EpochHolds(tasks[t].events[k], f[k])
               /\ f[k].automation = "DECIDED" =>
                     \/ [tx |-> t, inc |-> tasks[t].inc, log |-> k] \in reg.decided
                     \/ tasks[t].events[k].automation = "DECIDED"
    BY ReconciledEvent
  <2>3. DOMAIN f = DOMAIN Logs[t]
    OBVIOUS
  <2>4. f = [k \in DOMAIN Logs[t] |-> f[k]]
    OBVIOUS
  <2>5. s \in SubmissionStates
    BY DEF SubmissionStates
  <2> HIDE DEF f, s
  <2>6. f \in [EventLogs(tasks[t].inc, t) -> Evidence]
    BY <1>1, <2>2, <2>4
  <2>7. EventsBacked(f, tasks[t].inFlight.signed, tasks[t].inc, t) /\ EpochsStay(tasks[t].events, f)
    BY <1>1, <2>2, <2>3 DEF EventsBacked, EpochsStay
  <2>8. /\ Rewrites(t, new) /\ new.inc = tasks[t].inc
        /\ new.events = f /\ new.inFlight = tasks[t].inFlight
    BY <1>1, <2>1, <2>5, <2>6, <2>7, EventsReplaced
  <2> QED BY <1>4, <2>2, <2>8 DEF Believed
<1> QED BY <1>2, <1>3, <1>4

\* Every event anew, under another inclusion.
LEMMA FreshOK ==
  ASSUME NEW t \in Txs, NEW i \in Inclusions, NEW x
  PROVE  /\ FreshEvents(t) \in [EventLogs(i, t) -> Evidence] /\ i \in 0..MaxInclusions /\ i # 0
         /\ EventsBacked(FreshEvents(t), x, i, t)
         /\ \A k \in DOMAIN FreshEvents(t) : FreshEvents(t)[k].automation = "UNSEEN"
<1>1. NewEvidence \in Evidence /\ NewEvidence.automation = "UNSEEN"
  BY DEF NewEvidence, Evidence, AutomationStates, Clock
<1>2. i \in 0..MaxInclusions /\ i # 0
  BY ChainsConstants DEF Inclusions
<1>3. /\ FreshEvents(t) \in [EventLogs(i, t) -> Evidence]
      /\ \A k \in DOMAIN FreshEvents(t) : FreshEvents(t)[k] = NewEvidence
  BY <1>1, <1>2 DEF FreshEvents, EventLogs
<1> QED BY <1>1, <1>2, <1>3 DEF EventsBacked, EventBacked

\* Another inclusion, with an envelope still out or not.
LEMMA ReadmittedRewrites ==
  ASSUME NEW t \in Txs, TaskOK(tasks[t], t), source[t].now \in Inclusions,
         source[t].now # tasks[t].inc,
         NEW new, new = Readmitted(t)
  PROVE  Rewrites(t, new) /\ Modest(tasks[t], new)
<1> DEFINE s == IF HasEnvelope(tasks[t]) \/ Mixed(t) THEN "ATTENTION_REQUIRED"
                                                     ELSE "WAITING_ATTESTATION"
<1>1. new = Made(s, source[t].now, "NONE", FreshEvents(t), tasks[t].inFlight, tasks[t].nonces)
  BY DEF Readmitted, TaskOK, Task, Made
<1>2. s \in SubmissionStates /\ s # "SUBMITTED" /\ "NONE" \in Clock
  BY DEF SubmissionStates, Clock
<1> HIDE DEF s
<1>3. /\ FreshEvents(t) \in [EventLogs(source[t].now, t) -> Evidence]
      /\ source[t].now \in 0..MaxInclusions
      /\ EventsBacked(FreshEvents(t), tasks[t].inFlight.signed, source[t].now, t)
      /\ \A k \in DOMAIN FreshEvents(t) : FreshEvents(t)[k].automation = "UNSEEN"
  BY FreshOK
<1>4. EnvelopeOK(tasks[t].inFlight, t) /\ tasks[t].inFlight \in Flights
      /\ tasks[t].nonces \in SUBSET (0..MaxNonce)
  BY TaskParts DEF TaskOK
<1>5. /\ TaskOK(new, t) /\ new.state = s /\ new.state # "NONE" /\ new.inc = source[t].now
      /\ new.events = FreshEvents(t) /\ new.inFlight = tasks[t].inFlight
      /\ new.nonces = tasks[t].nonces
  BY <1>1, <1>2, <1>3, <1>4, MadeOK
<1> QED BY <1>2, <1>3, <1>5 DEF Rewrites, Keeps, Holds, Modest

\* The first inclusion of a transaction.
LEMMA AdmittedRewrites ==
  ASSUME NEW t \in Txs, TaskOK(tasks[t], t), source[t].now \in Inclusions, ~Exists(t),
         NEW new, new = Admitted(t)
  PROVE  Rewrites(t, new) /\ Modest(tasks[t], new)
<1> DEFINE s == IF Mixed(t) THEN "ATTENTION_REQUIRED" ELSE "WAITING_ATTESTATION"
<1>1. new = Made(s, source[t].now, "NONE", FreshEvents(t), NoEnvelope, {})
  BY DEF Admitted, NoTask, Made
<1>2. s \in SubmissionStates /\ s # "SUBMITTED" /\ "NONE" \in Clock
  BY DEF SubmissionStates, Clock
<1> HIDE DEF s
<1>3. /\ FreshEvents(t) \in [EventLogs(source[t].now, t) -> Evidence]
      /\ source[t].now \in 0..MaxInclusions /\ source[t].now # 0
      /\ EventsBacked(FreshEvents(t), NoEnvelope.signed, source[t].now, t)
      /\ \A k \in DOMAIN FreshEvents(t) : FreshEvents(t)[k].automation = "UNSEEN"
  BY FreshOK
<1>4. EnvelopeOK(NoEnvelope, t) /\ NoEnvelope \in Flights
  BY DEF EnvelopeOK, NoEnvelope, Flights, Clock
<1>5. /\ TaskOK(new, t) /\ new.state = s /\ new.state # "NONE" /\ new.inc = source[t].now
      /\ new.events = FreshEvents(t) /\ new.inFlight = NoEnvelope /\ new.nonces = {}
  BY <1>1, <1>2, <1>3, <1>4, MadeOK
<1>6. tasks[t] = NoTask
  BY DEF Exists, TaskOK
<1>7. tasks[t].inc = 0 /\ tasks[t].inFlight = NoEnvelope /\ tasks[t].nonces = {}
  BY <1>6 DEF NoTask
<1> QED BY <1>2, <1>3, <1>5, <1>7 DEF Rewrites, Keeps, Holds, Modest

\* No inclusion any more.
LEMMA RemovedRewrites ==
  ASSUME NEW t \in Txs, TaskOK(tasks[t], t), NEW s \in {"ATTENTION_REQUIRED", "ORPHANED"},
         NEW new, new = Removed(t, s)
  PROVE  Rewrites(t, new) /\ Modest(tasks[t], new)
<1> DEFINE f == <<>>
           i == 0
<1>1. new = Made(s, i, tasks[t].epoch, f, tasks[t].inFlight, tasks[t].nonces)
  BY DEF Removed, TaskOK, Task, Made
<1>2. s \in SubmissionStates /\ s # "SUBMITTED"
  BY DEF SubmissionStates
<1>3. f \in [EventLogs(i, t) -> Evidence] /\ i \in 0..MaxInclusions
  <2>1. NoTask.events = f /\ NoTask.inc = i
    BY DEF NoTask
  <2>2. NoTask.events \in [EventLogs(NoTask.inc, t) -> Evidence]
    BY NoTaskOK DEF TaskOK
  <2> QED BY <2>1, <2>2, ChainsConstants DEF EventLogs
<1>4. i = 0 /\ DOMAIN f = {}
  BY <1>3 DEF EventLogs
<1> HIDE DEF f, i
<1>5. EventsBacked(f, tasks[t].inFlight.signed, i, t)
  BY <1>4 DEF EventsBacked
<1>6. EnvelopeOK(tasks[t].inFlight, t) /\ tasks[t].inFlight \in Flights /\ tasks[t].epoch \in Clock
      /\ tasks[t].nonces \in SUBSET (0..MaxNonce)
  BY TaskParts DEF TaskOK
<1>7. /\ TaskOK(new, t) /\ new.state = s /\ new.state # "NONE" /\ new.inc = i
      /\ new.epoch = tasks[t].epoch
      /\ new.events = f /\ new.inFlight = tasks[t].inFlight /\ new.nonces = tasks[t].nonces
  BY <1>1, <1>2, <1>3, <1>5, <1>6, MadeOK
<1>8. tasks[t].inc = 0 => DOMAIN tasks[t].events = {}
  BY TaskParts DEF EventLogs
<1> QED BY <1>2, <1>3, <1>4, <1>7, <1>8 DEF Rewrites, Keeps, Holds, Modest

-----------------------------------------------------------------------------
(* The envelope. *)

\* A transaction of the signer.
LEMMA SignerTxType ==
  ASSUME NEW x \in SignerTxs
  PROVE  /\ x.nonce \in 0..MaxNonce /\ x.tx \in Txs /\ x.inc \in Inclusions /\ x.inc # 0
         /\ x # NoTx
<1>1. PICK n \in 0..MaxNonce, t \in Txs, i \in Inclusions, k \in UNION {0..Len(Logs[u]) : u \in Txs} :
         x = [nonce |-> n, tx |-> t, inc |-> i, log |-> k]
  BY DEF SignerTxs
<1>2. x.nonce \in 0..MaxNonce /\ x.tx \in Txs /\ x.inc \in Inclusions
  BY <1>1
<1>3. x.inc # 0 /\ x.nonce # -1
  BY <1>2, ChainsConstants DEF Inclusions
<1>4. NoTx.nonce = -1
  BY DEF NoTx
<1> QED BY <1>2, <1>3, <1>4

\* A record of its fields is one.
LEMMA SignerTxMade ==
  ASSUME NEW n \in 0..MaxNonce, NEW t \in Txs, NEW i \in Inclusions, NEW k \in {0} \cup DOMAIN Logs[t],
         NEW x, x = [nonce |-> n, tx |-> t, inc |-> i, log |-> k]
  PROVE  x \in SignerTxs
<1>1. k \in 0..Len(Logs[t])
  BY LogsType
<1>2. k \in UNION {0..Len(Logs[u]) : u \in Txs}
  BY <1>1
<1> QED BY <1>2 DEF SignerTxs

\* The one write that signs.
LEMMA EnvelopedOK ==
  ASSUME NEW t \in Txs, TaskOK(tasks[t], t), tasks[t].inc # 0, ~HasEnvelope(tasks[t]),
         NEW x \in SignerTxs, x.tx = t, x.inc = tasks[t].inc, x.log \in {0} \cup DOMAIN Logs[t],
         x # NoTx, NEW new, new = Enveloped(tasks[t], x)
  PROVE  /\ TaskOK(new, t) /\ new.state # "NONE" /\ new.inc = tasks[t].inc
         /\ new.inFlight.signed = x /\ new.nonces = tasks[t].nonces
         /\ Holds(tasks[t], new) /\ Modest(tasks[t], new)
<1> DEFINE w == [signed |-> x, window |-> "NONE"]
           s == IF x.log = 0 THEN "SUBMISSION_IN_FLIGHT" ELSE tasks[t].state
           k == x.log
           f == IF k = 0 THEN tasks[t].events
                ELSE [tasks[t].events EXCEPT ![k] = [@ EXCEPT !.automation = "APPLICATION_IN_FLIGHT"]]
<1>1. /\ tasks[t].events \in [DOMAIN Logs[t] -> Evidence] /\ DOMAIN tasks[t].events = DOMAIN Logs[t]
      /\ EventLogs(tasks[t].inc, t) = DOMAIN Logs[t] /\ tasks[t].state \in SubmissionStates
      /\ EventsBacked(tasks[t].events, tasks[t].inFlight.signed, tasks[t].inc, t)
      /\ tasks[t].inFlight = NoEnvelope /\ tasks[t].inFlight.signed = NoTx
  BY TaskParts DEF EventLogs, States, HasEnvelope
<1>2. 0 \notin DOMAIN Logs[t]
  BY LogsType
<1>3. new = Made(s, tasks[t].inc, tasks[t].epoch, f, w, tasks[t].nonces)
  BY DEF Enveloped, TaskOK, Task, Made
<1>4. s \in SubmissionStates /\ (s = "SUBMITTED" => tasks[t].state = "SUBMITTED")
  BY <1>1 DEF SubmissionStates
<1>5. w \in Flights /\ EnvelopeOK(w, t) /\ w.signed = x /\ w.window = "NONE"
  BY DEF Flights, Clock, EnvelopeOK
<1>6. CASE k = 0
  <2>1. f = tasks[t].events
    BY <1>6
  <2> HIDE DEF f, s, w
  <2>2. EventsBacked(f, x, tasks[t].inc, t)
    BY <1>1, <2>1 DEF EventsBacked, EventBacked
  <2>3. /\ TaskOK(new, t) /\ new.state = s /\ new.state # "NONE" /\ new.inc = tasks[t].inc
        /\ new.epoch = tasks[t].epoch
        /\ new.events = f /\ new.inFlight = w /\ new.nonces = tasks[t].nonces
    BY <1>1, <1>3, <1>4, <1>5, <2>1, <2>2, TaskParts, MadeOK
  <2>4. NoEnvelope.window # "EXPIRED"
    BY DEF NoEnvelope
  <2> QED BY <1>1, <1>4, <1>5, <2>1, <2>3, <2>4 DEF Holds, Modest
<1>7. CASE k # 0
  <2> DEFINE e == [tasks[t].events[k] EXCEPT !.automation = "APPLICATION_IN_FLIGHT"]
  <2>1. k \in DOMAIN Logs[t] /\ tasks[t].events[k] \in Evidence
    BY <1>1, <1>7
  <2>2. f = [tasks[t].events EXCEPT ![k] = e]
    BY <1>7
  <2>3. e \in Evidence /\ e.automation = "APPLICATION_IN_FLIGHT" /\ e.epoch = tasks[t].events[k].epoch
    BY <2>1 DEF Evidence, AutomationStates
  <2> HIDE DEF e, f, s, w
  <2>4. /\ f \in [DOMAIN Logs[t] -> Evidence] /\ f[k] = e /\ DOMAIN f = DOMAIN Logs[t]
        /\ \A j \in DOMAIN Logs[t] : j # k => f[j] = tasks[t].events[j]
    BY <1>1, <2>1, <2>2, <2>3
  <2>5. ASSUME NEW j \in DOMAIN f PROVE EventBacked(x, tasks[t].inc, t, j, f[j])
    <3>1. CASE j = k
      BY <1>7, <2>3, <2>4, <3>1 DEF EventBacked
    <3>2. CASE j # k
      <4>1. f[j] = tasks[t].events[j] /\ j \in DOMAIN tasks[t].events
        BY <1>1, <2>4, <3>2
      <4>2. EventBacked(NoTx, tasks[t].inc, t, j, f[j])
        BY <1>1, <4>1 DEF EventsBacked
      <4> QED BY <4>2 DEF EventBacked
    <3> QED BY <3>1, <3>2
  <2>6. EventsBacked(f, x, tasks[t].inc, t)
    BY <2>5 DEF EventsBacked
  <2>7. f \in [EventLogs(tasks[t].inc, t) -> Evidence]
    BY <1>1, <2>4
  <2>8. /\ TaskOK(new, t) /\ new.state = s /\ new.state # "NONE" /\ new.inc = tasks[t].inc
        /\ new.epoch = tasks[t].epoch
        /\ new.events = f /\ new.inFlight = w /\ new.nonces = tasks[t].nonces
    BY <1>3, <1>4, <1>5, <2>6, <2>7, TaskParts, MadeOK
  <2>9. NoEnvelope.window # "EXPIRED"
    BY DEF NoEnvelope
  <2>10. Holds(tasks[t], new)
    BY <1>1, <2>3, <2>4, <2>8, <2>9 DEF Holds
  <2>11. Modest(tasks[t], new)
    BY <1>1, <1>4, <2>3, <2>4, <2>8 DEF Modest
  <2> QED BY <1>5, <2>8, <2>10, <2>11
<1> QED BY <1>6, <1>7

\* The file with its resolution window opened or closed.
Windowed(task, c) == [task EXCEPT !.inFlight.window = c]

\* A window that is not over may be opened or closed.
LEMMA WindowRewrites ==
  ASSUME NEW t \in Txs, TaskOK(tasks[t], t), HasEnvelope(tasks[t]), NEW c \in Clock,
         tasks[t].inFlight.window = "EXPIRED" => c = "EXPIRED",
         NEW new, new = Windowed(tasks[t], c)
  PROVE  /\ Rewrites(t, new) /\ Modest(tasks[t], new) /\ new.inc = tasks[t].inc
         /\ new.inFlight.signed = tasks[t].inFlight.signed
<1> DEFINE w == [tasks[t].inFlight EXCEPT !.window = c]
<1>1. /\ tasks[t].inFlight \in Flights /\ tasks[t].inFlight.signed # NoTx
      /\ EnvelopeOK(tasks[t].inFlight, t)
      /\ EventsBacked(tasks[t].events, tasks[t].inFlight.signed, tasks[t].inc, t)
  BY TaskParts DEF TaskOK, HasEnvelope
<1>2. w \in Flights /\ w.signed = tasks[t].inFlight.signed /\ EnvelopeOK(w, t)
  BY <1>1 DEF Flights, EnvelopeOK
<1>3. w.window = c /\ (tasks[t].inFlight.window = c => w = tasks[t].inFlight)
  BY <1>1 DEF Flights
<1>4. /\ tasks[t].state \in SubmissionStates /\ tasks[t].epoch \in Clock
      /\ tasks[t].inc \in 0..MaxInclusions /\ tasks[t].nonces \in SUBSET (0..MaxNonce)
      /\ tasks[t].events \in [EventLogs(tasks[t].inc, t) -> Evidence]
  BY TaskParts DEF States
<1>5. new = Made(tasks[t].state, tasks[t].inc, tasks[t].epoch, tasks[t].events, w, tasks[t].nonces)
  BY DEF TaskOK, Task, Made, Windowed
<1>6. w \in Flights /\ EnvelopeOK(w, t) /\ EventsBacked(tasks[t].events, w.signed, tasks[t].inc, t)
  BY <1>1, <1>2
<1> HIDE DEF w
<1>7. /\ TaskOK(new, t) /\ new.state = tasks[t].state /\ new.state # "NONE" /\ new.inc = tasks[t].inc
      /\ new.epoch = tasks[t].epoch
      /\ new.events = tasks[t].events /\ new.inFlight = w /\ new.nonces = tasks[t].nonces
  BY <1>4, <1>5, <1>6, MadeOK
<1> QED BY <1>2, <1>3, <1>7 DEF Rewrites, Keeps, Holds, Modest

\* The operation is history, and nothing of it in flight.
LEMMA ReleaseRewrites ==
  ASSUME NEW t \in Txs, TaskOK(tasks[t], t), HasEnvelope(tasks[t]), Releases(t),
         NEW s \in SubmissionStates, NEW f \in [EventLogs(tasks[t].inc, t) -> Evidence],
         EventsBacked(f, NoTx, tasks[t].inc, t),
         NEW n, n = tasks[t].nonces \cup {tasks[t].inFlight.signed.nonce},
         NEW new, new = Made(s, tasks[t].inc, tasks[t].epoch, f, NoEnvelope, n)
  PROVE  /\ Rewrites(t, new) /\ new.state = s /\ new.inc = tasks[t].inc
         /\ new.events = f /\ ~HasEnvelope(new)
<1>1. tasks[t].inFlight.signed \in SignerTxs
  BY TaskParts
<1>2. tasks[t].inFlight.signed.nonce \in 0..MaxNonce
  BY <1>1, SignerTxType
<1>3. n \in SUBSET (0..MaxNonce)
  BY <1>2, TaskParts
<1>4. NoEnvelope \in Flights /\ EnvelopeOK(NoEnvelope, t) /\ NoEnvelope.signed = NoTx
  BY DEF NoEnvelope, Flights, Clock, EnvelopeOK
<1>5. EventsBacked(f, NoEnvelope.signed, tasks[t].inc, t)
  BY <1>4
<1>6. /\ TaskOK(new, t) /\ new.state = s /\ new.state # "NONE" /\ new.inc = tasks[t].inc
      /\ new.epoch = tasks[t].epoch
      /\ new.events = f /\ new.inFlight = NoEnvelope /\ new.nonces = n
  BY <1>3, <1>4, <1>5, TaskParts, MadeOK
<1>7. ~HasEnvelope(new)
  BY <1>4, <1>6 DEF HasEnvelope
<1> QED BY <1>6, <1>7 DEF Rewrites, Keeps, Holds

\* A fact read again, without a claim.
LEMMA RereadRewrites ==
  ASSUME ChainsTypeOK, NEW t \in Txs, TaskOK(tasks[t], t), NEW k \in DOMAIN Logs[t], tasks[t].inc # 0,
         NEW id, id = [tx |-> t, inc |-> tasks[t].inc, log |-> k],
         NEW new, new = ReplaceEvent(tasks[t], k, Reread(tasks[t].events[k], id))
  PROVE  /\ Rewrites(t, new) /\ Modest(tasks[t], new) /\ new.inc = tasks[t].inc
         /\ new.inFlight = tasks[t].inFlight
<1> DEFINE o == tasks[t].events[k]
           e == Reread(o, id)
<1>1. /\ o \in Evidence /\ EventBacked(tasks[t].inFlight.signed, tasks[t].inc, t, k, o)
      /\ DOMAIN tasks[t].events = DOMAIN Logs[t]
  BY TaskParts DEF EventsBacked
<1>2. /\ ContractState(id) \in {"UNSEEN", "VERIFIED_PENDING", "DECIDED"}
      /\ DealStatus(id) \in Statuses
  BY ReadTypes
<1>3. e \in Evidence /\ e.automation = o.automation /\ e.epoch = o.epoch
  BY <1>1, <1>2 DEF Reread, Evidence
<1>4. new = ReplaceEvent(tasks[t], k, e)
  OBVIOUS
<1> HIDE DEF e
<1>5. EventBacked(tasks[t].inFlight.signed, tasks[t].inc, t, k, e) /\ EpochHolds(tasks[t].events[k], e)
  BY <1>1, <1>3 DEF EventBacked, EpochHolds
<1>6. /\ Rewrites(t, new) /\ new.state = tasks[t].state /\ new.inc = tasks[t].inc
      /\ new.inFlight = tasks[t].inFlight
      /\ DOMAIN new.events = DOMAIN tasks[t].events /\ new.events[k] = e
      /\ \A j \in DOMAIN tasks[t].events : j # k => new.events[j] = tasks[t].events[j]
  BY <1>1, <1>3, <1>4, <1>5, EventReplaced
<1> QED BY <1>3, <1>6 DEF Modest

\* What a confirmed application leaves is not in flight.
LEMMA AppliedEvent ==
  ASSUME ChainsTypeOK, NEW t \in Txs, NEW i, NEW k \in DOMAIN Logs[t],
         NEW id, id = [tx |-> t, inc |-> i, log |-> k],
         NEW e \in Evidence, NEW ok, NEW new, new = Applied(e, id, ok)
  PROVE  /\ new \in Evidence
         /\ new.automation \in {"VERIFIED_PENDING", "DECIDED", "ATTENTION_REQUIRED"}
         /\ new.automation = "DECIDED" => id \in reg.decided
<1> DEFINE now == [e EXCEPT !.contract = ContractState(id)]
           status == DealStatus(id)
<1>1. /\ ContractState(id) \in {"UNSEEN", "VERIFIED_PENDING", "DECIDED"} /\ status \in Statuses
      /\ ContractState(id) = "DECIDED" => id \in reg.decided
  BY ReadTypes
<1>2. now \in Evidence /\ now.contract = ContractState(id)
  BY <1>1 DEF Evidence
<1>3. \/ new = [now EXCEPT !.automation = "VERIFIED_PENDING", !.snapshot = status, !.epoch = "NONE"]
      \/ new = [now EXCEPT !.automation = "DECIDED"] /\ now.contract = "DECIDED"
      \/ new = [now EXCEPT !.automation = "ATTENTION_REQUIRED"]
  BY DEF Applied
<1> HIDE DEF now, status
<1>4. CASE new = [now EXCEPT !.automation = "VERIFIED_PENDING", !.snapshot = status, !.epoch = "NONE"]
  BY <1>1, <1>2, <1>4 DEF Evidence, AutomationStates, Clock
<1>5. CASE new = [now EXCEPT !.automation = "DECIDED"] /\ now.contract = "DECIDED"
  BY <1>1, <1>2, <1>5 DEF Evidence, AutomationStates
<1>6. CASE new = [now EXCEPT !.automation = "ATTENTION_REQUIRED"]
  BY <1>2, <1>6 DEF Evidence, AutomationStates
<1> QED BY <1>3, <1>4, <1>5, <1>6

\* The file that finalizeEnvelope leaves.
Release(task) ==
    [task EXCEPT !.inFlight = NoEnvelope, !.nonces = @ \cup {task.inFlight.signed.nonce}]

\* It is that file by its fields, without the envelope and with one nonce more.
LEMMA ReleaseMade ==
  ASSUME NEW s, NEW i, NEW c, NEW f, NEW x, NEW n, NEW task, task = Made(s, i, c, f, x, n)
  PROVE  Release(task) = Made(s, i, c, f, NoEnvelope, n \cup {x.signed.nonce})
<1> DEFINE m == n \cup {x.signed.nonce}
<1>1. task.nonces \cup {task.inFlight.signed.nonce} = m
  BY DEF Made
<1>2. Release(task) = [task EXCEPT !.inFlight = NoEnvelope, !.nonces = m]
  BY <1>1 DEF Release
<1> HIDE DEF m
<1>3. Release(task) = Made(s, i, c, f, NoEnvelope, m)
  BY <1>2 DEF Made
<1> QED BY <1>3 DEF m

\* And what becomes of the fact it applied, or of the submission nobody can see.
Finalized(task, seen, id, ok) ==
    CASE task.inFlight.signed.log = 0 /\ seen # "ALL_TRUE" -> Attention(Release(task), 0)
      [] task.inFlight.signed.log # 0 /\ task.inc = task.inFlight.signed.inc ->
           [Release(task) EXCEPT !.events[id.log] = Applied(@, id, ok)]
      [] OTHER -> Release(task)

\* The release is a sound rewriting where the process is at finalizeEnvelope, and
\* claims a fact decided only if it is.
LEMMA FinalizedRewrites ==
  ASSUME ChainsTypeOK, NEW t \in Txs, TaskOK(tasks[t], t), HasEnvelope(tasks[t]), Releases(t),
         NEW seen, NEW ok,
         NEW id, id = [tx |-> tasks[t].inFlight.signed.tx, inc |-> tasks[t].inFlight.signed.inc,
                       log |-> tasks[t].inFlight.signed.log],
         NEW new, new = Finalized(tasks[t], seen, id, ok)
  PROVE  Rewrites(t, new) /\ new.inc = tasks[t].inc /\ (Believed(tasks[t], t) => Believed(new, t))
<1> DEFINE x == tasks[t].inFlight.signed
           s == IF x.log = 0 /\ seen # "ALL_TRUE" THEN "ATTENTION_REQUIRED" ELSE tasks[t].state
           applies == x.log # 0 /\ tasks[t].inc = x.inc
           k == x.log
           f == IF applies THEN [tasks[t].events EXCEPT ![k] = Applied(@, id, ok)] ELSE tasks[t].events
           n == tasks[t].nonces \cup {x.nonce}
<1>1. /\ tasks[t].events \in [EventLogs(tasks[t].inc, t) -> Evidence] /\ tasks[t].state \in SubmissionStates
      /\ DOMAIN tasks[t].events = EventLogs(tasks[t].inc, t)
      /\ EventsBacked(tasks[t].events, x, tasks[t].inc, t)
      /\ x.tx = t /\ x.log \in {0} \cup DOMAIN Logs[t] /\ x \in SignerTxs
  BY TaskParts DEF States
<1>2. x.inc # 0
  BY <1>1, SignerTxType
<1>3. new = Made(s, tasks[t].inc, tasks[t].epoch, f, NoEnvelope, n)
  <2>1. tasks[t] = Made(tasks[t].state, tasks[t].inc, tasks[t].epoch, tasks[t].events,
                        tasks[t].inFlight, tasks[t].nonces)
    BY TaskIsMade
  <2>2. Release(tasks[t]) = Made(tasks[t].state, tasks[t].inc, tasks[t].epoch, tasks[t].events,
                                 NoEnvelope, n)
    BY <2>1, ReleaseMade
  <2> HIDE DEF n
  <2>3. CASE x.log = 0 /\ seen # "ALL_TRUE"
    <3>1. new = Attention(Release(tasks[t]), 0)
      BY <2>3 DEF Finalized
    <3> QED BY <2>2, <2>3, <3>1 DEF Attention, Made
  <2>4. CASE applies
    <3>1. new = [Release(tasks[t]) EXCEPT !.events[k] = Applied(@, id, ok)]
      BY <2>4 DEF Finalized
    <3> QED BY <2>2, <2>4, <3>1 DEF Made
  <2>5. CASE ~(x.log = 0 /\ seen # "ALL_TRUE") /\ ~applies
    <3>1. new = Release(tasks[t])
      BY <2>5 DEF Finalized
    <3> QED BY <2>2, <2>5, <3>1
  <2> QED BY <2>3, <2>4, <2>5
<1>4. s \in SubmissionStates /\ (s = "SUBMITTED" => tasks[t].state = "SUBMITTED")
  BY <1>1 DEF SubmissionStates
<1>5. CASE ~applies
  <2>0. n = tasks[t].nonces \cup {tasks[t].inFlight.signed.nonce}
    OBVIOUS
  <2>1. f = tasks[t].events
    BY <1>5
  <2>2. EventsBacked(tasks[t].events, NoTx, tasks[t].inc, t)
    BY <1>1, <1>5 DEF EventsBacked, EventBacked
  <2> HIDE DEF f, s, applies, k, n
  <2>3. /\ Rewrites(t, new) /\ new.state = s /\ new.inc = tasks[t].inc /\ new.events = f
    BY <1>1, <1>3, <1>4, <2>1, <2>2, <2>0, ReleaseRewrites
  <2> QED BY <1>4, <2>1, <2>3 DEF Believed
<1>6. CASE applies
  <2>0. n = tasks[t].nonces \cup {tasks[t].inFlight.signed.nonce}
    OBVIOUS
  <2> DEFINE e == Applied(tasks[t].events[k], id, ok)
  <2>1. k \in DOMAIN Logs[t] /\ tasks[t].inc # 0 /\ DOMAIN tasks[t].events = DOMAIN Logs[t]
        /\ EventLogs(tasks[t].inc, t) = DOMAIN Logs[t] /\ tasks[t].events[k] \in Evidence
    BY <1>1, <1>2, <1>6 DEF EventLogs
  <2>2. id = [tx |-> t, inc |-> tasks[t].inc, log |-> k]
    BY <1>1, <1>6
  <2>3. /\ e \in Evidence
        /\ e.automation \in {"VERIFIED_PENDING", "DECIDED", "ATTENTION_REQUIRED"}
        /\ e.automation = "DECIDED" => id \in reg.decided
    BY <2>1, <2>2, AppliedEvent
  <2>4. f = [tasks[t].events EXCEPT ![k] = e]
    BY <1>6
  <2>5. \A j \in DOMAIN tasks[t].events : j # k =>
            tasks[t].events[j].automation # "APPLICATION_IN_FLIGHT"
    BY <1>1 DEF EventsBacked, EventBacked
  <2> HIDE DEF e, f, s, applies, n
  <2>6. /\ f \in [EventLogs(tasks[t].inc, t) -> Evidence] /\ f[k] = e /\ DOMAIN f = DOMAIN Logs[t]
        /\ \A j \in DOMAIN Logs[t] : j # k => f[j] = tasks[t].events[j]
    BY <1>1, <2>1, <2>3, <2>4
  <2>7. EventsBacked(f, NoTx, tasks[t].inc, t)
    <3> SUFFICES ASSUME NEW j \in DOMAIN f PROVE EventBacked(NoTx, tasks[t].inc, t, j, f[j])
      BY DEF EventsBacked
    <3>1. CASE j = k
      BY <2>3, <2>6, <3>1 DEF EventBacked
    <3>2. CASE j # k
      BY <1>1, <2>1, <2>5, <2>6, <3>2 DEF EventsBacked, EventBacked
    <3> QED BY <3>1, <3>2
  <2>8. /\ Rewrites(t, new) /\ new.state = s /\ new.inc = tasks[t].inc /\ new.events = f
    BY <1>3, <1>4, <2>6, <2>7, <2>0, ReleaseRewrites
  <2>9. ASSUME Believed(tasks[t], t) PROVE Believed(new, t)
    <3>1. ASSUME NEW j \in DOMAIN Logs[t], f[j].automation = "DECIDED"
          PROVE  [tx |-> t, inc |-> tasks[t].inc, log |-> j] \in reg.decided
      BY <2>1, <2>2, <2>3, <2>6, <2>9, <3>1 DEF Believed
    <3>2. s = "SUBMITTED" => Ids(t, tasks[t].inc) \subseteq reg.recorded
      BY <1>4, <2>1, <2>9 DEF Believed
    <3> QED BY <2>8, <3>1, <3>2 DEF Believed
  <2> QED BY <2>8, <2>9
<1> QED BY <1>5, <1>6

-----------------------------------------------------------------------------
(* The operator, and time. *)

\* New epochs for what has not come to an end.
LEMMA ResumedOK ==
  ASSUME NEW t \in Txs, TaskOK(tasks[t], t), ~HasEnvelope(tasks[t]), tasks[t].inc # 0,
         NEW new, new = Resumed(tasks[t])
  PROVE  /\ TaskOK(new, t) /\ new.state # "NONE" /\ new.inc = tasks[t].inc
         /\ new.inFlight = tasks[t].inFlight /\ new.nonces = tasks[t].nonces
         /\ Modest(tasks[t], new)
<1> DEFINE u == Unseen(tasks[t].events)
           s == IF u THEN "READY_FOR_PROOF" ELSE tasks[t].state
           c == IF u THEN "OPEN" ELSE tasks[t].epoch
           g(e) == IF Retryable(e) THEN [e EXCEPT !.automation = "READY_TO_APPLY", !.epoch = "OPEN"] ELSE e
           f == [k \in DOMAIN tasks[t].events |-> g(tasks[t].events[k])]
<1>1. /\ tasks[t].events \in [EventLogs(tasks[t].inc, t) -> Evidence] /\ tasks[t].state \in SubmissionStates
      /\ DOMAIN tasks[t].events = EventLogs(tasks[t].inc, t)
      /\ EventsBacked(tasks[t].events, tasks[t].inFlight.signed, tasks[t].inc, t)
      /\ tasks[t].epoch \in Clock /\ EnvelopeOK(tasks[t].inFlight, t)
  BY TaskParts DEF States, TaskOK
<1>2. new = Made(s, tasks[t].inc, c, f, tasks[t].inFlight, tasks[t].nonces)
  BY DEF Resumed, TaskOK, Task, Made
<1>3. s \in SubmissionStates /\ c \in Clock /\ (s = "SUBMITTED" => tasks[t].state = "SUBMITTED")
  BY <1>1 DEF SubmissionStates, Clock
<1>4. ASSUME NEW k \in DOMAIN tasks[t].events
      PROVE  /\ f[k] \in Evidence /\ EventBacked(tasks[t].inFlight.signed, tasks[t].inc, t, k, f[k])
             /\ f[k].automation = "DECIDED" => tasks[t].events[k].automation = "DECIDED"
  <2> DEFINE e == tasks[t].events[k]
  <2>1. e \in Evidence /\ EventBacked(tasks[t].inFlight.signed, tasks[t].inc, t, k, e)
    BY <1>1 DEF EventsBacked
  <2>2. f[k] = g(e)
    OBVIOUS
  <2>3. CASE Retryable(e)
    <3>1. f[k] = [e EXCEPT !.automation = "READY_TO_APPLY", !.epoch = "OPEN"]
      BY <2>2, <2>3
    <3> HIDE DEF f, g, e
    <3>2. f[k] \in Evidence /\ f[k].automation = "READY_TO_APPLY" /\ f[k].epoch = "OPEN"
      BY <2>1, <3>1 DEF Evidence, AutomationStates, Clock
    <3> QED BY <3>2 DEF EventBacked
  <2>4. CASE ~Retryable(e)
    BY <2>1, <2>2, <2>4
  <2> QED BY <2>3, <2>4
<1>5. DOMAIN f = DOMAIN tasks[t].events
  OBVIOUS
<1>6. f = [k \in DOMAIN tasks[t].events |-> f[k]]
  OBVIOUS
<1> HIDE DEF f, s, c
<1>7. f \in [EventLogs(tasks[t].inc, t) -> Evidence]
  BY <1>1, <1>4, <1>6
<1>8. EventsBacked(f, tasks[t].inFlight.signed, tasks[t].inc, t)
  BY <1>4, <1>5 DEF EventsBacked
<1>9. /\ TaskOK(new, t) /\ new.state = s /\ new.state # "NONE" /\ new.inc = tasks[t].inc
      /\ new.epoch = c
      /\ new.events = f /\ new.inFlight = tasks[t].inFlight /\ new.nonces = tasks[t].nonces
  BY <1>1, <1>2, <1>3, <1>7, <1>8, TaskParts, MadeOK
<1> QED BY <1>3, <1>4, <1>5, <1>9 DEF Modest

-----------------------------------------------------------------------------
(* A step of the process that signs nothing. *)

\* Every file it writes is a sound rewriting.
Faithful ==
    /\ tasks' \in [Txs -> Task]
    /\ \A t \in Txs : tasks'[t] = tasks[t] \/ Rewrites(t, tasks'[t])

\* No file claims more than is so.
Honest == \A t \in Txs : Believed(tasks[t], t) => Believed(tasks'[t], t)

\* Such a step, wherever it takes the process.
StepOK == Faithful /\ ProcOK' /\ (PlaceOK => PlaceOK' /\ Honest)

\* No task is lost.
Lasting == \A u \in Txs : Exists(u) => tasks'[u].state # "NONE"

\* The process, by its fields.
MadeProc(a, p, l, g, k, b, m, d) ==
    [at |-> a, task |-> p, left |-> l, found |-> g, log |-> k, guarded |-> b, manual |-> m, todo |-> d]

\* A write of one task is faithful.
LEMMA Written ==
  ASSUME TasksOK, NEW t \in Txs, NEW new, Rewrites(t, new), tasks' = [tasks EXCEPT ![t] = new]
  PROVE  /\ Faithful /\ tasks'[t] = new /\ \A u \in Txs : u # t => tasks'[u] = tasks[u]
         /\ Lasting
<1>1. tasks \in [Txs -> Task]
  BY DEF TasksOK
<1>2. new \in Task /\ new.state # "NONE"
  BY DEF Rewrites, TaskOK
<1>3. tasks' \in [Txs -> Task] /\ tasks'[t] = new /\ \A u \in Txs : u # t => tasks'[u] = tasks[u]
  BY <1>1, <1>2
<1> QED BY <1>2, <1>3 DEF Faithful, Exists, Lasting

\* It is honest if the new file is.
LEMMA WrittenHonest ==
  ASSUME TasksOK, NEW t \in Txs, NEW new, tasks' = [tasks EXCEPT ![t] = new],
         Believed(tasks[t], t) => Believed(new, t)
  PROVE  Honest
<1>1. tasks \in [Txs -> Task]
  BY DEF TasksOK
<1>2. tasks'[t] = new /\ \A u \in Txs : u # t => tasks'[u] = tasks[u]
  BY <1>1
<1> QED BY <1>2 DEF Honest

\* A file that claims no more than the old one.
LEMMA ModestBelieved ==
  ASSUME NEW t \in Txs, NEW old, NEW new, TaskOK(new, t), Modest(old, new), Believed(old, t)
  PROVE  Believed(new, t)
<1> SUFFICES ASSUME new.inc # 0 PROVE Believed(new, t)
  BY DEF Believed
<1>1. DOMAIN new.events = DOMAIN Logs[t]
  BY TaskParts
<1> QED BY <1>1 DEF Modest, Believed

\* Writing nothing is faithful and honest.
LEMMA Unwritten ==
  ASSUME TasksOK, UNCHANGED tasks
  PROVE  Faithful /\ Honest /\ Lasting
BY DEF TasksOK, Faithful, Honest, Exists, Lasting

\* Where the process may go.
LEMMA ProcMade ==
  ASSUME NEW a \in Working \cup Carrying \cup Resting \cup {"Incident"}, NEW p \in Txs \cup {Nobody},
         NEW l \in SUBSET (AllIds \cup (Txs \X Inclusions)), NEW g \in SUBSET AllIds, NEW k \in Nat,
         NEW b \in BOOLEAN, NEW m \in BOOLEAN, NEW d \in SUBSET Txs,
         proc' = MadeProc(a, p, l, g, k, b, m, d), Fits(tasks', a, p, k, b, d), reg' = reg
  PROVE  /\ ProcOK'
         /\ a \notin {"Depth", "Finalize"} /\ g \subseteq reg.recorded => PlaceOK'
<1>1. /\ proc'.at = a /\ proc'.task = p /\ proc'.found = g /\ proc'.log = k
      /\ proc'.guarded = b /\ proc'.todo = d
  BY DEF MadeProc
<1>2. proc' \in Procs
  BY DEF MadeProc, Procs
<1> QED BY <1>1, <1>2 DEF ProcOK, PlaceOK

\* The fields of the process.
LEMMA ProcParts ==
  ASSUME ProcOK
  PROVE  /\ proc.at \in Working \cup Carrying \cup Resting \cup {"Incident"}
         /\ proc.task \in Txs \cup {Nobody}
         /\ proc.left \in SUBSET (AllIds \cup (Txs \X Inclusions)) /\ proc.found \in SUBSET AllIds
         /\ proc.log \in Nat /\ proc.guarded \in BOOLEAN /\ proc.manual \in BOOLEAN
         /\ proc.todo \in SUBSET Txs
         /\ \A t \in proc.todo : Exists(t)
         /\ proc = MadeProc(proc.at, proc.task, proc.left, proc.found, proc.log, proc.guarded,
                            proc.manual, proc.todo)
         /\ Fits(tasks, proc.at, proc.task, proc.log, proc.guarded, proc.todo)
<1>1. proc \in Procs /\ Fits(tasks, proc.at, proc.task, proc.log, proc.guarded, proc.todo)
  BY DEF ProcOK
<1>2. \A t \in proc.todo : Exists(t)
  BY <1>1 DEF Fits, Exists
<1>3. proc = MadeProc(proc.at, proc.task, proc.left, proc.found, proc.log, proc.guarded,
                            proc.manual, proc.todo)
  BY <1>1 DEF Procs, MadeProc
<1> QED BY <1>1, <1>2, <1>3 DEF Procs

\* A process that rests has only existing tasks left.
LEMMA Rests ==
  ASSUME NEW a \in Resting, NEW d \in SUBSET Txs, \A t \in d : tasks'[t].state # "NONE", reg' = reg,
         NEW l \in SUBSET (AllIds \cup (Txs \X Inclusions)),
         proc' = MadeProc(a, Nobody, l, {}, 0, FALSE, FALSE, d)
  PROVE  ProcOK' /\ PlaceOK'
<1>1. Fits(tasks', a, Nobody, 0, FALSE, d)
  BY DEF Fits, Working, Carrying, Resting
<1>2. /\ proc'.at = a /\ proc'.task = Nobody /\ proc'.found = {} /\ proc'.log = 0
      /\ proc'.guarded = FALSE /\ proc'.todo = d
  BY DEF MadeProc
<1>3. proc' \in Procs
  BY DEF MadeProc, Procs
<1>4. a \notin {"Depth", "Finalize"}
  BY DEF Resting
<1> QED BY <1>1, <1>2, <1>3, <1>4 DEF ProcOK, PlaceOK

\* The pass is over.
LEMMA ToIdle ==
  ASSUME reg' = reg, proc' = Idle
  PROVE  ProcOK' /\ PlaceOK'
<1> DEFINE d == {} a == "Idle"
<1>1. proc' = MadeProc(a, Nobody, d, {}, 0, FALSE, FALSE, d)
  BY DEF Idle, MadeProc
<1>2. a \in Resting
  BY DEF Resting
<1>3. d \in SUBSET Txs /\ d \in SUBSET (AllIds \cup (Txs \X Inclusions)) /\ \A t \in d : tasks'[t].state # "NONE"
  OBVIOUS
<1> HIDE DEF d, a
<1> QED BY <1>1, <1>2, <1>3, Rests

\* It goes on with the next task, if any.
LEMMA Returns ==
  ASSUME ProcOK, Lasting, reg' = reg, NEW task, proc' = Return(task)
  PROVE  ProcOK' /\ PlaceOK'
<1>1. CASE proc' = Idle
  BY <1>1, ToIdle
<1>2. CASE proc' # Idle
  <2> DEFINE d == proc.todo \ {proc.task} a == "Tick" l == {}
  <2>1. proc' = MadeProc(a, Nobody, l, {}, 0, FALSE, FALSE, d)
    BY <1>2 DEF Return, Idle, MadeProc
  <2>2. a \in Resting
    BY DEF Resting
  <2>3. d \in SUBSET Txs /\ l \in SUBSET (AllIds \cup (Txs \X Inclusions))
    BY ProcParts
  <2>4. \A t \in d : tasks'[t].state # "NONE"
    BY ProcParts DEF Lasting
  <2> HIDE DEF d, a, l
  <2> QED BY <2>1, <2>2, <2>3, <2>4, Rests
<1> QED BY <1>1, <1>2

\* The scan goes on with the tasks left.
LEMMA Scans ==
  ASSUME Lasting, NEW d \in SUBSET Txs, \A t \in d : Exists(t), reg' = reg, proc' = ScanNext(d)
  PROVE  ProcOK' /\ PlaceOK'
<1> DEFINE l == {} a == IF d # {} THEN "Scan" ELSE "Logs"
<1>1. CASE proc' = Idle
  BY <1>1, ToIdle
<1>2. CASE proc' # Idle
  <2>1. proc' = MadeProc(a, Nobody, l, {}, 0, FALSE, FALSE, d)
    BY <1>2 DEF ScanNext, Idle, MadeProc
  <2>2. a \in Resting
    BY DEF Resting
  <2>3. l \in SUBSET (AllIds \cup (Txs \X Inclusions)) /\ \A t \in d : tasks'[t].state # "NONE"
    BY DEF Lasting
  <2> HIDE DEF a, l
  <2> QED BY <2>1, <2>2, <2>3, Rests
<1> QED BY <1>1, <1>2

\* A pass goes on to another place, with nothing found there yet.
LEMMA Goes ==
  ASSUME ProcOK, NEW a \in Working \cup Carrying, NEW l \in SUBSET AllIds, NEW k \in Nat,
         NEW b \in BOOLEAN, Lasting, reg' = reg,
         proc' = MadeProc(a, proc.task, l, {}, k, b, proc.manual, proc.todo),
         Fits(tasks', a, proc.task, k, b, {})
  PROVE  ProcOK' /\ (a \notin {"Depth", "Finalize"} => PlaceOK')
<1>1. Fits(tasks', a, proc.task, k, b, proc.todo)
  <2>1. \A t \in proc.todo : tasks'[t].state # "NONE"
    BY ProcParts DEF Lasting
  <2> QED BY <2>1 DEF Fits
<1>2. /\ proc'.at = a /\ proc'.task = proc.task /\ proc'.found = {} /\ proc'.log = k
      /\ proc'.guarded = b /\ proc'.todo = proc.todo
  BY DEF MadeProc
<1>3. proc' \in Procs
  <2>1. l \in SUBSET (AllIds \cup (Txs \X Inclusions)) /\ {} \in SUBSET AllIds
    OBVIOUS
  <2> QED BY <2>1, ProcParts DEF MadeProc, Procs
<1> QED BY <1>1, <1>2, <1>3 DEF ProcOK, PlaceOK

\* Where Go leads.
LEMMA GoMade ==
  ASSUME ProcOK, NEW a, NEW l
  PROVE  /\ Go(a) = MadeProc(a, proc.task, {}, {}, proc.log, proc.guarded, proc.manual, proc.todo)
         /\ GoReading(a, l) = MadeProc(a, proc.task, l, {}, proc.log, proc.guarded, proc.manual, proc.todo)
<1>1. proc = MadeProc(proc.at, proc.task, proc.left, proc.found, proc.log, proc.guarded,
                            proc.manual, proc.todo)
  BY ProcParts
<1> DEFINE z == {}
<1>2. /\ Go(a) = [proc EXCEPT !.at = a, !.left = z, !.found = z]
      /\ GoReading(a, l) = [proc EXCEPT !.at = a, !.left = l, !.found = z]
  BY DEF Go, GoReading
<1> HIDE DEF z
<1>3. Go(a) = MadeProc(a, proc.task, z, z, proc.log, proc.guarded, proc.manual, proc.todo)
  BY <1>1, <1>2 DEF MadeProc
<1>4. GoReading(a, l) = MadeProc(a, proc.task, l, z, proc.log, proc.guarded, proc.manual, proc.todo)
  BY <1>1, <1>2 DEF MadeProc
<1> QED BY <1>3, <1>4 DEF z

\* An attempt begins: what fails in it from now on is retried.
LEMMA GuardedMade ==
  ASSUME ProcOK, NEW a, NEW k
  PROVE  /\ [Go(a) EXCEPT !.guarded = TRUE, !.log = k] =
              MadeProc(a, proc.task, {}, {}, k, TRUE, proc.manual, proc.todo)
         /\ [Go(a) EXCEPT !.guarded = TRUE] =
              MadeProc(a, proc.task, {}, {}, proc.log, TRUE, proc.manual, proc.todo)
<1> DEFINE z == {} r == Go(a)
           g == [r EXCEPT !.guarded = TRUE, !.log = k]
           h == [r EXCEPT !.guarded = TRUE]
<1>1. r = MadeProc(a, proc.task, z, z, proc.log, proc.guarded, proc.manual, proc.todo)
  BY GoMade
<1>2. PICK b \in BOOLEAN : b = TRUE
  OBVIOUS
<1> HIDE DEF z, r
<1>3. g = [r EXCEPT !.guarded = b, !.log = k] /\ h = [r EXCEPT !.guarded = b]
  BY <1>2, Zenon
<1> HIDE DEF g, h
<1>4. g = MadeProc(a, proc.task, z, z, k, b, proc.manual, proc.todo)
  BY <1>1, <1>3 DEF MadeProc
<1>5. h = MadeProc(a, proc.task, z, z, proc.log, b, proc.manual, proc.todo)
  BY <1>1, <1>3 DEF MadeProc
<1> QED BY <1>2, <1>4, <1>5, Zenon DEF z, g, h, r

\* A pass over a task without an envelope, and what it reads.
LEMMA AtWork ==
  ASSUME WorkInv, proc.at \in Working
  PROVE  /\ proc.task \in Txs /\ TaskOK(tasks[proc.task], proc.task) /\ Me.state # "NONE"
         /\ Me.inc # 0 /\ Me.inc \in Inclusions /\ DOMAIN Me.events = DOMAIN Logs[proc.task]
         /\ Me = tasks[proc.task] /\ Exists(proc.task)
         /\ Ids(proc.task, Me.inc) \in SUBSET AllIds /\ Ids(proc.task, Me.inc) # {}
         /\ proc.guarded \/ proc.at \in {"Prove", "Sign"} =>
               proc.log \in {0} \cup DOMAIN Logs[proc.task]
         /\ proc.at = "Apply" => proc.log \in DOMAIN Logs[proc.task]
         /\ ProcOK /\ TasksOK /\ ChainsTypeOK
<1>1. ProcOK /\ TasksOK /\ ChainsTypeOK /\ Fits(tasks, proc.at, proc.task, proc.log, proc.guarded, proc.todo)
  BY ProcParts DEF WorkInv
<1>2. proc.task \in Txs /\ Me.state # "NONE" /\ Me.inc # 0 /\ Me = tasks[proc.task] /\ Exists(proc.task)
  BY <1>1 DEF Fits, Me, Exists
<1>3. TaskOK(tasks[proc.task], proc.task)
  BY <1>1, <1>2 DEF TasksOK
<1>4. Me.inc \in Inclusions /\ DOMAIN Me.events = DOMAIN Logs[proc.task]
  BY <1>2, <1>3, TaskParts DEF Me
<1>5. Ids(proc.task, Me.inc) \in SUBSET AllIds /\ Ids(proc.task, Me.inc) # {}
  BY <1>2, <1>4, IdsType
<1>6. /\ proc.guarded \/ proc.at \in {"Prove", "Sign"} =>
               proc.log \in {0} \cup DOMAIN Logs[proc.task]
      /\ proc.at = "Apply" => proc.log \in DOMAIN Logs[proc.task]
  BY <1>1 DEF Fits
<1> QED BY <1>1, <1>2, <1>3, <1>4, <1>5, <1>6

\* A pass over a task that holds an envelope.
LEMMA AtEnvelope ==
  ASSUME WorkInv, proc.at \in Carrying
  PROVE  /\ proc.task \in Txs /\ TaskOK(tasks[proc.task], proc.task) /\ Me.state # "NONE"
         /\ Me = tasks[proc.task] /\ Exists(proc.task) /\ HasEnvelope(tasks[proc.task])
         /\ Signed = tasks[proc.task].inFlight.signed
         /\ Signed \in SignerTxs /\ Signed.tx = proc.task /\ Signed.inc \in Inclusions /\ Signed.inc # 0
         /\ Signed.log \in {0} \cup DOMAIN Logs[proc.task] /\ SignedIds \in SUBSET AllIds
         /\ proc.guarded => Me.inc # 0 /\ proc.log \in {0} \cup DOMAIN Logs[proc.task]
         /\ ProcOK /\ TasksOK /\ ChainsTypeOK
<1>1. ProcOK /\ TasksOK /\ ChainsTypeOK /\ Fits(tasks, proc.at, proc.task, proc.log, proc.guarded, proc.todo)
  BY ProcParts DEF WorkInv
<1>2. proc.task \in Txs /\ Me = tasks[proc.task] /\ HasEnvelope(tasks[proc.task])
  BY <1>1 DEF Fits, Me
<1>3. TaskOK(tasks[proc.task], proc.task)
  BY <1>1, <1>2 DEF TasksOK
<1>4. Me.state # "NONE" /\ Exists(proc.task)
  BY <1>2, <1>3, TaskParts DEF Exists
<1>5. /\ Signed = tasks[proc.task].inFlight.signed
      /\ Signed \in SignerTxs /\ Signed.tx = proc.task /\ Signed.log \in {0} \cup DOMAIN Logs[proc.task]
  BY <1>2, <1>3, TaskParts DEF Signed
<1>6. Signed.inc \in Inclusions /\ Signed.inc # 0
  BY <1>5, SignerTxType
<1>7. SignedIds \in SUBSET AllIds
  BY <1>2, <1>5, <1>6, IdsType DEF SignedIds
<1>8. proc.guarded => Me.inc # 0 /\ proc.log \in {0} \cup DOMAIN Logs[proc.task]
  BY <1>1, <1>2 DEF Fits
<1> QED BY <1>1, <1>2, <1>3, <1>4, <1>5, <1>6, <1>7, <1>8

\* What a set of identifiers was found to be.
LEMMA VisibilityType ==
  ASSUME NEW ids
  PROVE  /\ Visibility(ids) \in {"MIXED", "ALL_TRUE", "ALL_FALSE"}
         /\ Visibility(ids) = "ALL_TRUE" => proc.found = ids
BY DEF Visibility

-----------------------------------------------------------------------------
(* The steps of the process, one by one. *)

\* One identifier is read.
LEMMA ReadSeenStep ==
  ASSUME WorkInv, NEW id \in AllIds, ReadSeen(id)
  PROVE  StepOK
<1>1. TasksOK /\ ProcOK /\ UNCHANGED tasks /\ reg' = reg /\ mined' = mined /\ depth' = depth
  BY DEF WorkInv, ReadSeen, chainVars
<1>2. Faithful /\ Honest /\ Lasting
  BY <1>1, Unwritten
<1> DEFINE l == proc.left \ {id} g == proc.found \cup ({id} \cap reg.recorded)
<1>3. proc' = [proc EXCEPT !.left = l, !.found = g]
  BY DEF ReadSeen
<1>4. proc' = MadeProc(proc.at, proc.task, l, g, proc.log, proc.guarded, proc.manual, proc.todo)
  BY <1>1, <1>3, ProcParts DEF MadeProc
<1>5. l \in SUBSET (AllIds \cup (Txs \X Inclusions)) /\ g \in SUBSET AllIds
      /\ (proc.found \subseteq reg.recorded => g \subseteq reg.recorded)
  BY <1>1, ProcParts
<1> HIDE DEF l, g
<1>6. Fits(tasks', proc.at, proc.task, proc.log, proc.guarded, proc.todo)
  BY <1>1, ProcParts
<1>7. ProcOK'
  BY <1>1, <1>4, <1>5, <1>6, ProcParts, ProcMade
<1>8. proc'.at = proc.at /\ proc'.task = proc.task /\ proc'.found = g
  BY <1>4 DEF MadeProc
<1>9. PlaceOK => PlaceOK'
  BY <1>1, <1>5, <1>8 DEF PlaceOK, Mined, Confirmed, Signed, Me
<1> QED BY <1>2, <1>7, <1>9 DEF StepOK

\* The process as it takes up the envelope of a task.
TakingUp(t, m) == MadeProc("Envelope", t, {}, {}, 0, FALSE, m, {})

\* It may take up any envelope there is.
LEMMA TakesUp ==
  ASSUME WorkInv, UNCHANGED tasks, reg' = reg, NEW t \in Lane, NEW m \in BOOLEAN,
         proc' = TakingUp(t, m)
  PROVE  ProcOK' /\ PlaceOK'
<1> DEFINE a == "Envelope" z == {}
<1>1. proc' = MadeProc(a, t, z, z, 0, FALSE, m, z)
  BY DEF TakingUp
<1>2. t \in Txs /\ HasEnvelope(tasks'[t])
  BY DEF Lane
<1>3. a \in Carrying /\ a \notin {"Depth", "Finalize"} /\ a \notin Working /\ a # "Incident" /\ a # "Apply"
      /\ a \notin {"Prove", "Sign"}
  BY DEF Carrying, Working
<1>4. /\ z \in SUBSET (AllIds \cup (Txs \X Inclusions)) /\ z \in SUBSET AllIds /\ z \in SUBSET Txs
      /\ z \subseteq reg.recorded /\ \A u \in z : FALSE
  OBVIOUS
<1> HIDE DEF z, a
<1>5. Fits(tasks', a, t, 0, FALSE, z)
  BY <1>2, <1>3, <1>4 DEF Fits
<1>6. proc'.at = a /\ proc'.task = t /\ proc'.found = z /\ proc'.log = 0
      /\ proc'.guarded = FALSE /\ proc'.todo = z
  BY <1>1 DEF MadeProc
<1>7. proc' \in Procs
  BY <1>1, <1>2, <1>3, <1>4 DEF MadeProc, Procs
<1> QED BY <1>3, <1>4, <1>5, <1>6, <1>7 DEF ProcOK, PlaceOK

\* A tick begins, with an envelope or with every task.
LEMMA StartTickStep ==
  ASSUME WorkInv, StartTick
  PROVE  StepOK
<1>1. TasksOK /\ UNCHANGED tasks /\ reg' = reg
  BY DEF WorkInv, StartTick, chainVars
<1>2. Faithful /\ Honest /\ Lasting
  BY <1>1, Unwritten
<1>3. CASE Lane # {}
  <2>1. PICK t \in Lane : proc' = [Idle EXCEPT !.at = "Envelope", !.task = t]
    BY <1>3 DEF StartTick
  <2>2. proc' = TakingUp(t, FALSE)
    BY <2>1 DEF Idle, TakingUp, MadeProc
  <2>3. ProcOK' /\ PlaceOK'
    BY <1>1, <2>2, TakesUp
  <2> QED BY <1>2, <2>3 DEF StepOK
<1>4. CASE Lane = {}
  <2> DEFINE d == {t \in Txs : Exists(t)} a == "Tick" z == {}
  <2>1. proc' = MadeProc(a, Nobody, z, {}, 0, FALSE, FALSE, d)
    BY <1>4 DEF StartTick, Idle, MadeProc
  <2>2. a \in Resting
    BY DEF Resting
  <2>3. d \in SUBSET Txs /\ (\A t \in d : tasks'[t].state # "NONE")
        /\ z \in SUBSET (AllIds \cup (Txs \X Inclusions))
    BY <1>2 DEF Lasting
  <2> HIDE DEF d, a, z
  <2>4. ProcOK' /\ PlaceOK'
    BY <1>1, <2>1, <2>2, <2>3, Rests
  <2> QED BY <1>2, <2>4 DEF StepOK
<1> QED BY <1>3, <1>4

\* The operator asks for one task.
LEMMA AdvanceStep ==
  ASSUME WorkInv, NEW t \in Txs, Advance(t)
  PROVE  StepOK
<1>1. TasksOK /\ UNCHANGED tasks /\ reg' = reg
  BY DEF WorkInv, Advance, chainVars
<1>2. Faithful /\ Honest /\ Lasting
  BY <1>1, Unwritten
<1> DEFINE d == {t} a == "Tick" z == {}
<1>3. proc' = MadeProc(a, Nobody, z, {}, 0, FALSE, FALSE, d)
  BY DEF Advance, Idle, MadeProc
<1>4. a \in Resting
  BY DEF Resting
<1>5. d \in SUBSET Txs /\ (\A u \in d : tasks'[u].state # "NONE")
      /\ z \in SUBSET (AllIds \cup (Txs \X Inclusions))
  BY <1>2 DEF Lasting, Advance
<1> HIDE DEF d, a, z
<1>6. ProcOK' /\ PlaceOK'
  BY <1>1, <1>3, <1>4, <1>5, Rests
<1> QED BY <1>2, <1>6 DEF StepOK

\* The operator asks for an envelope to be sent again.
LEMMA ResumeBroadcastStep ==
  ASSUME WorkInv, NEW t \in Txs, ResumeBroadcast(t)
  PROVE  StepOK
<1>1. TasksOK /\ UNCHANGED tasks /\ reg' = reg /\ t \in Lane
      /\ proc' = TakingUp(t, TRUE)
  BY DEF WorkInv, ResumeBroadcast, chainVars, Idle, TakingUp, MadeProc
<1>2. Faithful /\ Honest
  BY <1>1, Unwritten
<1>3. ProcOK' /\ PlaceOK'
  BY <1>1, TakesUp
<1> QED BY <1>2, <1>3 DEF StepOK

\* The pass takes the next task, or leaves it out.
LEMMA ProcessTaskStep ==
  ASSUME WorkInv, NEW t \in Txs, ProcessTask(t)
  PROVE  StepOK
<1>1. TasksOK /\ ProcOK /\ UNCHANGED tasks /\ reg' = reg /\ proc.at = "Tick" /\ t \in proc.todo
  BY DEF WorkInv, ProcessTask, chainVars
<1>2. Faithful /\ Honest /\ Lasting
  BY <1>1, Unwritten
<1>3. proc.at \notin Working \cup Carrying /\ proc.guarded = FALSE
  <2>1. "Tick" \notin Working \cup Carrying
    BY DEF Working, Carrying
  <2> QED BY <1>1, <2>1, ProcParts DEF Fits
<1>4. CASE proc' = Idle
  BY <1>1, <1>2, <1>4, ToIdle DEF StepOK
<1>5. CASE proc' = [proc EXCEPT !.todo = @ \ {t}]
  <2> DEFINE d == proc.todo \ {t}
  <2>1. proc' = [proc EXCEPT !.todo = d]
    BY <1>5
  <2>2. d \in SUBSET Txs /\ \A u \in d : tasks'[u].state # "NONE"
    BY <1>1, <1>2, ProcParts DEF Lasting
  <2> HIDE DEF d
  <2>3. proc' = MadeProc(proc.at, proc.task, proc.left, proc.found, proc.log, proc.guarded, proc.manual, d)
    BY <1>1, <2>1, ProcParts DEF MadeProc
  <2>4. Fits(tasks', proc.at, proc.task, proc.log, proc.guarded, d)
    BY <1>1, <1>3, <2>2 DEF Fits
  <2>5. ProcOK' /\ (proc.found \subseteq reg.recorded => PlaceOK')
    BY <1>1, <2>2, <2>3, <2>4, ProcParts, ProcMade
  <2> QED BY <1>2, <2>5 DEF StepOK, PlaceOK
<1>6. CASE /\ ~(tasks[t].inc = 0 \/ tasks[t].state = "ORPHANED")
           /\ proc' = [proc EXCEPT !.at = "Semantic", !.task = t, !.left = Ids(t, tasks[t].inc)]
  <2> DEFINE l == Ids(t, tasks[t].inc) a == "Semantic"
  <2>1. proc' = [proc EXCEPT !.at = a, !.task = t, !.left = l]
    BY <1>6
  <2>2. tasks[t].inc # 0 /\ tasks[t].state # "NONE" /\ TaskOK(tasks[t], t)
    BY <1>1, <1>6, ProcParts DEF Exists, TasksOK
  <2>3. l \in SUBSET (AllIds \cup (Txs \X Inclusions))
    BY <2>2, TaskParts, IdsType
  <2>4. a \in Working /\ a \notin Carrying /\ a \notin {"Depth", "Finalize", "Prove", "Sign", "Incident", "Apply"}
    BY DEF Working, Carrying
  <2> HIDE DEF l, a
  <2>5. proc' = MadeProc(a, t, l, proc.found, proc.log, proc.guarded, proc.manual, proc.todo)
    BY <1>1, <2>1, ProcParts DEF MadeProc
  <2>6. Fits(tasks', a, t, proc.log, proc.guarded, proc.todo)
    BY <1>1, <1>3, <2>2, <2>4, ProcParts DEF Fits
  <2>7. ProcOK' /\ (proc.found \subseteq reg.recorded => PlaceOK')
    BY <1>1, <2>3, <2>4, <2>5, <2>6, ProcParts, ProcMade
  <2> QED BY <1>2, <2>7 DEF StepOK, PlaceOK
<1> QED BY <1>4, <1>5, <1>6 DEF ProcessTask

\* A written step is in order if its file and its next place are.
LEMMA WrittenStep ==
  ASSUME TasksOK, NEW t \in Txs, NEW new, Rewrites(t, new), tasks' = [tasks EXCEPT ![t] = new],
         ProcOK', PlaceOK => PlaceOK' /\ (Believed(tasks[t], t) => Believed(new, t))
  PROVE  StepOK
<1>1. Faithful
  BY Written
<1>2. ASSUME PlaceOK PROVE Honest
  <2>1. Believed(tasks[t], t) => Believed(new, t)
    BY <1>2
  <2> QED BY <2>1, WrittenHonest
<1> QED BY <1>1, <1>2 DEF StepOK

\* The whole inclusion is judged; the pass goes on where there is something to do.
LEMMA ReconcileSemanticStep ==
  ASSUME WorkInv, ReconcileSemantic
  PROVE  StepOK
<1> DEFINE p == proc.task
           seen == Visibility(Ids(p, Me.inc))
           new == Semantic(p, seen)
<1>1. proc.at \in {"Semantic", "Reconcile"} /\ proc.at \in Working
  BY DEF ReconcileSemantic, At, Working
<1>2. /\ p \in Txs /\ TaskOK(tasks[p], p) /\ Me.inc # 0 /\ Me.inc \in Inclusions /\ Me = tasks[p]
      /\ ProcOK /\ TasksOK /\ ChainsTypeOK
      /\ proc.guarded => proc.log \in {0} \cup DOMAIN Logs[p]
  BY <1>1, AtWork
<1>3. tasks' = [tasks EXCEPT ![p] = new] /\ reg' = reg /\ proc' = AfterSemantic(new)
  BY DEF ReconcileSemantic, Write, chainVars
<1>4. seen \in {"MIXED", "ALL_TRUE", "ALL_FALSE"} /\ (seen = "ALL_TRUE" => proc.found = Ids(p, Me.inc))
  BY VisibilityType
<1> HIDE DEF seen
<1>5. /\ Rewrites(p, new) /\ new.inc = tasks[p].inc /\ new.inFlight = tasks[p].inFlight
      /\ Believed(tasks[p], p) /\ (seen = "ALL_TRUE" => Ids(p, tasks[p].inc) \subseteq reg.recorded) =>
               Believed(new, p)
  BY <1>2, <1>4, SemanticRewrites
<1> HIDE DEF new
<1>6. PlaceOK => (Believed(tasks[p], p) => Believed(new, p))
  BY <1>2, <1>4, <1>5 DEF PlaceOK
<1>7. Lasting /\ tasks'[p] = new /\ new.state # "NONE" /\ new.inc # 0
  BY <1>2, <1>3, <1>5, Written DEF Rewrites
<1>8. ProcOK' /\ PlaceOK'
  <2> DEFINE z == {}
  <2>1. CASE proc' = Return(new)
    BY <1>2, <1>3, <1>7, <2>1, Returns
  <2>2. CASE proc' = Go("Attested")
    <3> DEFINE a == "Attested"
    <3>1. a \in Working /\ a \notin Carrying /\ a \notin {"Depth", "Finalize", "Prove", "Sign", "Incident", "Apply"}
      BY DEF Working, Carrying
    <3>2. proc' = MadeProc(a, p, z, z, proc.log, proc.guarded, proc.manual, proc.todo)
      BY <1>2, <2>2, GoMade
    <3>3. Fits(tasks', a, p, proc.log, proc.guarded, z)
      BY <1>2, <1>7, <3>1 DEF Fits
    <3>4. z \in SUBSET AllIds
      OBVIOUS
    <3> HIDE DEF a
    <3> QED BY <1>2, <1>3, <1>7, <3>1, <3>2, <3>3, <3>4, ProcParts, Goes
  <2>3. CASE ReadyLogs(new) # {} /\ proc' = [Go("Apply") EXCEPT !.log = Min(ReadyLogs(new))]
    <3> DEFINE a == "Apply" k == Min(ReadyLogs(new))
    <3>1. a \in Working /\ a \notin Carrying /\ a \notin {"Depth", "Finalize", "Prove", "Sign", "Incident"}
      BY DEF Working, Carrying
    <3>2. k \in DOMAIN Logs[p] /\ k \in Nat
      <4>1. ReadyLogs(new) \subseteq DOMAIN Logs[p]
        BY <1>2, <1>5, <1>7, TaskParts DEF Rewrites, ReadyLogs
      <4>2. DOMAIN Logs[p] = 1..Len(Logs[p])
        BY <1>2, LogsType
      <4>3. ReadyLogs(new) \subseteq Nat
        BY <4>1, <4>2
      <4>4. k \in ReadyLogs(new)
        BY <2>3, <4>3, SmallestOf
      <4> QED BY <4>1, <4>3, <4>4
    <3> HIDE DEF k, a
    <3>3. proc' = MadeProc(a, p, z, z, k, proc.guarded, proc.manual, proc.todo)
      <4>1. Go("Apply") = MadeProc(a, p, z, z, proc.log, proc.guarded, proc.manual, proc.todo)
        BY <1>2, GoMade DEF a
      <4> HIDE DEF z
      <4>2. proc' = [Go("Apply") EXCEPT !.log = k]
        BY <2>3 DEF k
      <4> QED BY <4>1, <4>2 DEF MadeProc
    <3>4. Fits(tasks', a, p, k, proc.guarded, z)
      BY <1>2, <1>7, <3>1, <3>2 DEF Fits
    <3>5. z \in SUBSET AllIds
      OBVIOUS
    <3> QED BY <1>2, <1>3, <1>7, <3>1, <3>2, <3>3, <3>4, <3>5, ProcParts, Goes
  <2> QED BY <1>3, <2>1, <2>2, <2>3 DEF AfterSemantic
<1> QED BY <1>2, <1>3, <1>5, <1>6, <1>8, WrittenStep

\* The pass over the task is at an end.
Ends == proc' = Idle \/ \E task : proc' = Return(task)

\* A write after which it is.
LEMMA WritesAndReturns ==
  ASSUME TasksOK, ProcOK, NEW t \in Txs, NEW new, Rewrites(t, new), Modest(tasks[t], new),
         tasks' = [tasks EXCEPT ![t] = new], reg' = reg, Ends
  PROVE  StepOK
<1>1. Lasting
  BY Written
<1>2. ProcOK' /\ PlaceOK'
  BY <1>1, Returns, ToIdle DEF Ends
<1>3. TaskOK(new, t)
  BY DEF Rewrites
<1>4. Believed(tasks[t], t) => Believed(new, t)
  BY <1>3, ModestBelieved
<1> QED BY <1>2, <1>4, WrittenStep

\* Going on with the same task.
LEMMA GoesOn ==
  ASSUME WorkInv, proc.at \in Working, NEW a \in Working, a # "Apply", NEW l \in SUBSET AllIds,
         NEW k \in {0} \cup DOMAIN Logs[proc.task], k \in Nat, NEW b \in BOOLEAN,
         a \in {"Prove", "Sign"} => b, Lasting, tasks'[proc.task].inc # 0, reg' = reg,
         proc' = MadeProc(a, proc.task, l, {}, k, b, proc.manual, proc.todo)
  PROVE  ProcOK' /\ PlaceOK'
<1>1. a \notin Carrying /\ a \notin {"Depth", "Finalize", "Incident"}
  BY DEF Working, Carrying
<1>2. proc.task \in Txs /\ Exists(proc.task) /\ ProcOK
  BY AtWork
<1>3. tasks'[proc.task].state # "NONE"
  BY <1>2 DEF Lasting
<1>4. Fits(tasks', a, proc.task, k, b, {})
  BY <1>1, <1>2, <1>3 DEF Fits
<1> QED BY <1>1, <1>2, <1>4, Goes

\* The attempt begins, waits or is over.
LEMMA CheckAttestedStep ==
  ASSUME WorkInv, CheckAttested
  PROVE  StepOK
<1> DEFINE p == proc.task
           c == IF Me.epoch = "NONE" THEN "OPEN" ELSE Me.epoch
           ready == [Me EXCEPT !.epoch = IF @ = "NONE" THEN "OPEN" ELSE @]
<1>1. proc.at \in Working
  BY DEF CheckAttested, At, Working
<1>2. /\ p \in Txs /\ TaskOK(tasks[p], p) /\ Me.inc # 0 /\ Me = tasks[p] /\ ProcOK /\ TasksOK
      /\ reg' = reg
  BY <1>1, AtWork DEF CheckAttested, chainVars
<1>3. /\ c \in Clock /\ Me.epoch \in Clock /\ (tasks[p].epoch = "EXPIRED" => c = "EXPIRED")
  BY <1>2, TaskParts DEF Clock
<1>4. \A s : [ready EXCEPT !.state = s] = Relabel(tasks[p], s, c)
  BY <1>2 DEF Relabel, TaskOK, Task
<1>5. \A s : [Me EXCEPT !.state = s] = Relabel(tasks[p], s, tasks[p].epoch)
  BY <1>2 DEF Relabel, TaskOK, Task
<1> HIDE DEF c
<1>6. ASSUME NEW s \in SubmissionStates, s # "SUBMITTED", NEW d \in {c, Me.epoch},
             tasks' = [tasks EXCEPT ![p] = Relabel(tasks[p], s, d)], proc' = Return(Me)
      PROVE  StepOK
  <2> DEFINE new == Relabel(tasks[p], s, d)
  <2>1. d \in Clock /\ (tasks[p].epoch = "EXPIRED" => d = "EXPIRED")
    BY <1>2, <1>3
  <2>2. Rewrites(p, new) /\ Modest(tasks[p], new)
    BY <1>2, <1>6, <2>1, Relabels
  <2>3. tasks' = [tasks EXCEPT ![p] = new] /\ Ends
    BY <1>6 DEF Ends
  <2> HIDE DEF new
  <2> QED BY <1>2, <2>2, <2>3, WritesAndReturns
<1>7. ASSUME tasks' = [tasks EXCEPT ![p] = Relabel(tasks[p], "SUBMITTING", c)],
             proc' = [Go("Prove") EXCEPT !.guarded = TRUE, !.log = 0]
      PROVE  StepOK
  <2> DEFINE s == "SUBMITTING" new == Relabel(tasks[p], s, c) z == {} a == "Prove" k == 0 b == TRUE
  <2>1. s \in SubmissionStates /\ s # "SUBMITTED"
    BY DEF SubmissionStates
  <2>2. tasks' = [tasks EXCEPT ![p] = new]
    BY <1>7
  <2>0. proc' = [Go(a) EXCEPT !.guarded = b, !.log = k]
    BY <1>7
  <2>3. k \in Nat /\ b \in BOOLEAN /\ k \in {0} \cup DOMAIN Logs[p] /\ z \in SUBSET AllIds /\ (a \in {"Prove", "Sign"} => b)
    BY <1>7
  <2>4. a \in Working /\ a # "Apply"
    BY DEF Working
  <2>5. Go(a) = MadeProc(a, p, z, z, proc.log, proc.guarded, proc.manual, proc.todo)
    BY <1>2, GoMade
  <2> HIDE DEF s, z, a, k
  <2>6. Rewrites(p, new) /\ Modest(tasks[p], new) /\ new.inc = tasks[p].inc /\ TaskOK(new, p)
    BY <1>2, <1>3, <2>1, Relabels DEF Rewrites
  <2> HIDE DEF new
  <2>7. Lasting /\ tasks'[p].inc # 0
    BY <1>2, <2>2, <2>6, Written
  <2>8. proc' = MadeProc(a, p, z, z, k, b, proc.manual, proc.todo)
    BY <1>2, <2>0, GuardedMade, Zenon DEF a, k, b, z
  <2>9. ProcOK' /\ PlaceOK'
    BY <1>1, <1>2, <2>3, <2>4, <2>7, <2>8, GoesOn DEF z
  <2>10. Believed(tasks[p], p) => Believed(new, p)
    BY <1>2, <2>6, ModestBelieved
  <2> QED BY <1>2, <2>2, <2>6, <2>9, <2>10, WrittenStep
<1>8. PICK reached \in HeightReached(p), due \in {TRUE, ~RetryNotDue} :
        IF ~reached
           THEN /\ Write([Me EXCEPT !.state = "WAITING_ATTESTATION"])
                /\ proc' = Return(Me)
           ELSE IF ready.epoch = "OPEN" /\ ~due
           THEN /\ Write([ready EXCEPT !.state = "READY_FOR_PROOF"])
                /\ proc' = Return(Me)
           ELSE IF ready.epoch = "EXPIRED"
           THEN /\ Write([ready EXCEPT !.state = "ATTENTION_REQUIRED"])
                /\ proc' = Return(Me)
           ELSE /\ Write([ready EXCEPT !.state = "SUBMITTING"])
                /\ proc' = [Go("Prove") EXCEPT !.guarded = TRUE, !.log = 0]
  BY DEF CheckAttested
<1> HIDE DEF ready
<1>9. \/ /\ tasks' = [tasks EXCEPT ![p] = Relabel(tasks[p], "WAITING_ATTESTATION", Me.epoch)]
         /\ proc' = Return(Me)
      \/ /\ tasks' = [tasks EXCEPT ![p] = Relabel(tasks[p], "READY_FOR_PROOF", c)]
         /\ proc' = Return(Me)
      \/ /\ tasks' = [tasks EXCEPT ![p] = Relabel(tasks[p], "ATTENTION_REQUIRED", c)]
         /\ proc' = Return(Me)
      \/ /\ tasks' = [tasks EXCEPT ![p] = Relabel(tasks[p], "SUBMITTING", c)]
         /\ proc' = [Go("Prove") EXCEPT !.guarded = TRUE, !.log = 0]
  BY <1>2, <1>4, <1>5, <1>8 DEF Write
<1>10. {"WAITING_ATTESTATION", "READY_FOR_PROOF", "ATTENTION_REQUIRED"} \subseteq SubmissionStates
  BY DEF SubmissionStates
<1> QED BY <1>6, <1>7, <1>9, <1>10

\* A pass may raise attention for its submission or its fact, and return.
LEMMA StopsAndReturns ==
  ASSUME TasksOK, ProcOK, NEW t \in Txs, NEW k \in {0} \cup DOMAIN tasks[t].events,
         tasks' = [tasks EXCEPT ![t] = Attention(tasks[t], k)], reg' = reg, Ends
  PROVE  StepOK
<1> DEFINE new == Attention(tasks[t], k)
<1>1. TaskOK(tasks[t], t)
  BY DEF TasksOK
<1>2. Rewrites(t, new) /\ Modest(tasks[t], new)
  BY <1>1, AttentionRewrites
<1>3. tasks' = [tasks EXCEPT ![t] = new]
  OBVIOUS
<1> HIDE DEF new
<1> QED BY <1>2, <1>3, WritesAndReturns

\* Nothing written, and the pass is at an end.
LEMMA JustReturns ==
  ASSUME WorkInv, UNCHANGED tasks, reg' = reg, Ends
  PROVE  StepOK
<1>1. TasksOK /\ ProcOK
  BY DEF WorkInv
<1>2. Faithful /\ Honest /\ Lasting
  BY <1>1, Unwritten
<1>3. ProcOK' /\ PlaceOK'
  BY <1>1, <1>2, Returns, ToIdle DEF Ends
<1> QED BY <1>2, <1>3 DEF StepOK

\* Nothing written, and on with the same task.
LEMMA JustGoesOn ==
  ASSUME WorkInv, proc.at \in Working, UNCHANGED tasks, reg' = reg,
         NEW a \in Working, a # "Apply", NEW l \in SUBSET AllIds,
         NEW k \in {0} \cup DOMAIN Logs[proc.task], k \in Nat, NEW b \in BOOLEAN,
         a \in {"Prove", "Sign"} => b,
         proc' = MadeProc(a, proc.task, l, {}, k, b, proc.manual, proc.todo)
  PROVE  StepOK
<1>1. TasksOK /\ proc.task \in Txs /\ Me.inc # 0 /\ Me = tasks[proc.task]
  BY AtWork
<1>2. Faithful /\ Honest /\ Lasting /\ tasks'[proc.task].inc # 0
  BY <1>1, Unwritten
<1>3. ProcOK' /\ PlaceOK'
  BY <1>2, GoesOn
<1> QED BY <1>2, <1>3 DEF StepOK

\* A proof and its simulation, or another inclusion than the one of the task.
LEMMA ProveStep ==
  ASSUME WorkInv, Prove
  PROVE  StepOK
<1> DEFINE p == proc.task
<1>1. proc.at = "Prove" /\ proc.at \in Working
  BY DEF Prove, At, Working
<1>2. /\ p \in Txs /\ Me = tasks[p] /\ ProcOK /\ TasksOK /\ reg' = reg
      /\ proc.log \in {0} \cup DOMAIN Logs[p] /\ proc.log \in Nat
  BY <1>1, AtWork, ProcParts DEF Prove, chainVars
<1>3. proc.guarded = TRUE
  BY <1>1, <1>2, ProcParts DEF Fits
<1>4. PICK i \in Inclusions :
        IF i # Me.inc
        THEN /\ Write(Attention(Me, 0))
             /\ proc' = Return(Me)
        ELSE /\ UNCHANGED tasks
             /\ proc' = IF Recordable(p, i, reg) THEN Go("Sign")
                        ELSE GoReading("AlreadyRecorded", Ids(p, i))
  BY DEF Prove
<1>5. CASE tasks' = [tasks EXCEPT ![p] = Attention(tasks[p], 0)] /\ proc' = Return(Me)
  <2> DEFINE k == 0
  <2>1. k \in {0} \cup DOMAIN tasks[p].events /\ tasks' = [tasks EXCEPT ![p] = Attention(tasks[p], k)] /\ Ends
    BY <1>5 DEF Ends
  <2> HIDE DEF k
  <2> QED BY <1>2, <2>1, StopsAndReturns
<1>6. CASE UNCHANGED tasks /\ proc' = Go("Sign")
  <2> DEFINE a == "Sign" z == {}
  <2>1. a \in Working /\ a # "Apply" /\ z \in SUBSET AllIds
    BY DEF Working
  <2>2. proc' = MadeProc(a, p, z, {}, proc.log, proc.guarded, proc.manual, proc.todo)
    BY <1>2, <1>6, GoMade
  <2> HIDE DEF a, z
  <2> QED BY <1>1, <1>2, <1>3, <1>6, <2>1, <2>2, ProcParts, JustGoesOn
<1>7. CASE UNCHANGED tasks /\ proc' = GoReading("AlreadyRecorded", Ids(p, i))
  <2> DEFINE a == "AlreadyRecorded" l == Ids(p, i)
  <2>1. a \in Working /\ a # "Apply" /\ l \in SUBSET AllIds
    BY <1>2, IdsType DEF Working
  <2>2. proc' = MadeProc(a, p, l, {}, proc.log, proc.guarded, proc.manual, proc.todo)
    BY <1>2, <1>7, GoMade
  <2> HIDE DEF a, l
  <2> QED BY <1>1, <1>2, <1>3, <1>7, <2>1, <2>2, ProcParts, JustGoesOn
<1> QED BY <1>2, <1>4, <1>5, <1>6, <1>7 DEF Write

\* The set is there after all, or the task is stopped.
LEMMA AlreadyRecordedStep ==
  ASSUME WorkInv, AlreadyRecorded
  PROVE  StepOK
<1> DEFINE p == proc.task
<1>1. proc.at = "AlreadyRecorded" /\ proc.at \in Working
  BY DEF AlreadyRecorded, At, Working
<1>2. /\ p \in Txs /\ Me = tasks[p] /\ ProcOK /\ TasksOK /\ reg' = reg
      /\ Ids(p, Me.inc) \in SUBSET AllIds
      /\ proc.guarded => proc.log \in {0} \cup DOMAIN Logs[p]
  BY <1>1, AtWork DEF AlreadyRecorded, chainVars
<1>3. CASE tasks' = [tasks EXCEPT ![p] = Attention(tasks[p], 0)] /\ proc' = Return(Me)
  <2> DEFINE k == 0
  <2>1. k \in {0} \cup DOMAIN tasks[p].events /\ tasks' = [tasks EXCEPT ![p] = Attention(tasks[p], k)] /\ Ends
    BY <1>3 DEF Ends
  <2> HIDE DEF k
  <2> QED BY <1>2, <2>1, StopsAndReturns
<1>4. CASE UNCHANGED tasks /\ proc' = GoReading("Reconcile", Ids(p, Me.inc))
  <2> DEFINE a == "Reconcile" l == Ids(p, Me.inc) z == {}
  <2>1. a \in Working /\ a \notin Carrying /\ a \notin {"Apply", "Depth", "Finalize", "Prove", "Sign", "Incident"}
    BY DEF Working, Carrying
  <2>2. proc' = MadeProc(a, p, l, {}, proc.log, proc.guarded, proc.manual, proc.todo)
    BY <1>2, <1>4, GoMade
  <2>3. Faithful /\ Honest /\ Lasting
    BY <1>2, <1>4, Unwritten
  <2>4. tasks'[p].inc # 0 /\ tasks'[p].state # "NONE"
    BY <1>1, <1>2, <1>4, AtWork
  <2> HIDE DEF a, l, z
  <2>5. Fits(tasks', a, p, proc.log, proc.guarded, z)
    BY <1>2, <2>1, <2>4 DEF Fits, z
  <2>6. ProcOK' /\ PlaceOK'
    BY <1>2, <2>1, <2>2, <2>3, <2>5, ProcParts, Goes DEF z, l
  <2> QED BY <2>3, <2>6 DEF StepOK
<1> QED BY <1>2, <1>3, <1>4 DEF AlreadyRecorded, Write

\* An application is signed, waits or is over.
LEMMA AttemptApplicationStep ==
  ASSUME WorkInv, AttemptApplication
  PROVE  StepOK
<1> DEFINE p == proc.task k == proc.log
<1>1. proc.at = "Apply" /\ proc.at \in Working
  BY DEF AttemptApplication, At, Working
<1>2. /\ p \in Txs /\ Me = tasks[p] /\ ProcOK /\ TasksOK /\ reg' = reg /\ Me.inc # 0
      /\ k \in DOMAIN Logs[p] /\ DOMAIN Me.events = DOMAIN Logs[p] /\ k \in Nat
  BY <1>1, AtWork, ProcParts DEF AttemptApplication, chainVars
<1>3. \/ tasks' = [tasks EXCEPT ![p] = Attention(tasks[p], k)] /\ proc' = Return(Me)
      \/ UNCHANGED tasks /\ proc' = Return(Me)
      \/ UNCHANGED tasks /\ proc' = [Go("Sign") EXCEPT !.guarded = TRUE]
  BY <1>2 DEF AttemptApplication, Write
<1> HIDE DEF k
<1>4. CASE tasks' = [tasks EXCEPT ![p] = Attention(tasks[p], k)] /\ proc' = Return(Me)
  BY <1>2, <1>4, StopsAndReturns DEF Ends
<1>5. CASE UNCHANGED tasks /\ proc' = Return(Me)
  BY <1>2, <1>5, JustReturns DEF Ends
<1>6. CASE UNCHANGED tasks /\ proc' = [Go("Sign") EXCEPT !.guarded = TRUE]
  <2> DEFINE a == "Sign" z == {} b == TRUE
  <2>1. a \in Working /\ a # "Apply" /\ z \in SUBSET AllIds /\ b \in BOOLEAN /\ b
    BY DEF Working
  <2>2. proc' = MadeProc(a, p, z, {}, k, b, proc.manual, proc.todo)
    BY <1>2, <1>6, GuardedMade, Zenon DEF k
  <2> HIDE DEF a, z, b
  <2> QED BY <1>1, <1>2, <1>6, <2>1, <2>2, JustGoesOn
<1> QED BY <1>3, <1>4, <1>5, <1>6

\* A simulation that fails closed.
LEMMA SimulationFailsStep ==
  ASSUME WorkInv, SimulationFails
  PROVE  StepOK
<1> DEFINE p == proc.task k == proc.log
<1>1. proc.at \in {"Prove", "Apply"} /\ proc.at \in Working
  BY DEF SimulationFails, At, Working
<1>2. /\ p \in Txs /\ Me = tasks[p] /\ ProcOK /\ TasksOK /\ reg' = reg
      /\ k \in {0} \cup DOMAIN Logs[p] /\ DOMAIN Me.events = DOMAIN Logs[p]
  BY <1>1, AtWork DEF SimulationFails, chainVars
<1>3. tasks' = [tasks EXCEPT ![p] = Attention(tasks[p], k)] /\ proc' = Return(Me)
  BY <1>2 DEF SimulationFails, Write
<1> HIDE DEF k
<1> QED BY <1>2, <1>3, StopsAndReturns DEF Ends

\* The signature is on disk before anything else happens.
Signs(t, x) ==
    /\ tasks' \in [Txs -> Task] /\ \A u \in Txs : u # t => tasks'[u] = tasks[u]
    /\ TaskOK(tasks'[t], t) /\ tasks'[t].state # "NONE"
    /\ tasks'[t].inFlight.signed = x /\ tasks'[t].nonces = tasks[t].nonces
    /\ Holds(tasks[t], tasks'[t]) /\ Modest(tasks[t], tasks'[t])

\* A step that signs, with no signature out and the nonces as expected.
SigningOK ==
    /\ Lane = {} /\ NonceIsExpected
    /\ \E t \in Txs, x \in SignerTxs : x.nonce = ExpectedNextNonce /\ Signs(t, x)
    /\ ProcOK' /\ PlaceOK'

\* The nonce to be signed is a natural number.
LEMMA NoncesBelow ==
  ASSUME TasksOK
  PROVE  /\ ConfirmedNonces \subseteq 0..MaxNonce /\ MaxNonce \in Nat
         /\ ExpectedNextNonce \in Nat
         /\ \A n \in ConfirmedNonces : n < ExpectedNextNonce
<1>1. MaxNonce \in Nat
  BY ChainsConstants
<1>2. ASSUME NEW t \in Txs PROVE tasks[t].nonces \subseteq 0..MaxNonce
  BY TaskParts DEF TasksOK
<1>3. ConfirmedNonces \subseteq 0..MaxNonce
  BY <1>2 DEF ConfirmedNonces
<1>4. CASE ConfirmedNonces = {}
  BY <1>1, <1>3, <1>4 DEF ExpectedNextNonce
<1>5. CASE ConfirmedNonces # {}
  <2> DEFINE m == Max(ConfirmedNonces)
  <2>1. m \in ConfirmedNonces /\ \A n \in ConfirmedNonces : m >= n
    BY <1>1, <1>3, <1>5, GreatestOf
  <2>2. ExpectedNextNonce = m + 1
    BY <1>5 DEF ExpectedNextNonce
  <2>3. \A n \in ConfirmedNonces : n \in Nat
    BY <1>1, <1>3
  <2> HIDE DEF m
  <2>4. ASSUME NEW n \in ConfirmedNonces PROVE n < ExpectedNextNonce
    BY <2>1, <2>2, <2>3
  <2> QED BY <1>1, <1>3, <2>1, <2>2, <2>3, <2>4
<1> QED BY <1>4, <1>5

\* It signs, or the pass is at an end.
LEMMA PersistSignedEnvelopeStep ==
  ASSUME WorkInv, PersistSignedEnvelope
  PROVE  StepOK \/ SigningOK
<1> DEFINE p == proc.task k == proc.log x == NextTransaction
<1>1. proc.at = "Sign" /\ proc.at \in Working /\ Lane = {}
  BY DEF PersistSignedEnvelope, At, Working
<1>2. /\ p \in Txs /\ Me = tasks[p] /\ ProcOK /\ TasksOK /\ reg' = reg /\ Me.inc # 0 /\ Me.inc \in Inclusions
      /\ k \in {0} \cup DOMAIN Logs[p] /\ DOMAIN Me.events = DOMAIN Logs[p] /\ TaskOK(tasks[p], p)
  BY <1>1, AtWork DEF PersistSignedEnvelope, chainVars
<1>3. CASE ~NonceIsExpected
  BY <1>2, <1>3, JustReturns DEF PersistSignedEnvelope, Ends
<1>4. CASE tasks' = [tasks EXCEPT ![p] = Attention(tasks[p], k)] /\ proc' = Return(Me)
  <2> HIDE DEF k
  <2> QED BY <1>2, <1>4, StopsAndReturns DEF Ends
<1>5. CASE /\ NonceIsExpected /\ ExpectedNextNonce < MaxNonce
           /\ tasks' = [tasks EXCEPT ![p] = Enveloped(tasks[p], x)]
           /\ proc' = Go("Envelope")
  <2> DEFINE new == Enveloped(tasks[p], x)
  <2>1. ExpectedNextNonce \in 0..MaxNonce
    BY <1>2, <1>5, NoncesBelow
  <2>2. x = [nonce |-> ExpectedNextNonce, tx |-> p, inc |-> Me.inc, log |-> k]
    BY DEF NextTransaction
  <2> HIDE DEF x
  <2>3. x \in SignerTxs
    BY <1>2, <2>1, <2>2, SignerTxMade
  <2>4. x.tx = p /\ x.inc = tasks[p].inc /\ x.log = k /\ x # NoTx /\ x.nonce = ExpectedNextNonce
    BY <1>2, <2>2, <2>3, SignerTxType
  <2>5. ~HasEnvelope(tasks[p]) /\ tasks[p].inc # 0
    BY <1>1, <1>2 DEF Lane
  <2>6. /\ TaskOK(new, p) /\ new.state # "NONE" /\ new.inc = tasks[p].inc
        /\ new.inFlight.signed = x /\ new.nonces = tasks[p].nonces
        /\ Holds(tasks[p], new) /\ Modest(tasks[p], new)
    BY <1>2, <2>3, <2>4, <2>5, EnvelopedOK
  <2>7. tasks' = [tasks EXCEPT ![p] = new]
    BY <1>5
  <2> HIDE DEF new, k
  <2>8. tasks' \in [Txs -> Task] /\ tasks'[p] = new /\ \A u \in Txs : u # p => tasks'[u] = tasks[u]
    BY <1>2, <2>6, <2>7 DEF TasksOK, TaskOK
  <2>9. Signs(p, x)
    BY <2>6, <2>8 DEF Signs
  <2>10. Lasting
    BY <2>6, <2>8 DEF Lasting, Exists
  <2>11. ProcOK' /\ PlaceOK'
    <3> DEFINE a == "Envelope" z == {}
    <3>1. a \in Carrying /\ a \notin Working /\ a \notin {"Apply", "Depth", "Finalize", "Prove", "Sign", "Incident"}
      BY DEF Working, Carrying
    <3>2. proc' = MadeProc(a, p, z, {}, proc.log, proc.guarded, proc.manual, proc.todo)
      BY <1>2, <1>5, GoMade
    <3>3. HasEnvelope(tasks'[p]) /\ tasks'[p].inc # 0
      BY <2>3, <2>4, <2>5, <2>6, <2>8 DEF HasEnvelope
    <3>4. z \in SUBSET AllIds
      OBVIOUS
    <3> HIDE DEF a, z
    <3>5. Fits(tasks', a, p, proc.log, proc.guarded, {})
      BY <1>2, <3>1, <3>3 DEF Fits, k
    <3> QED BY <1>2, <2>10, <3>1, <3>2, <3>4, <3>5, ProcParts, Goes
  <2> QED BY <1>1, <1>2, <1>5, <2>3, <2>4, <2>9, <2>11 DEF SigningOK
<1> QED BY <1>2, <1>3, <1>4, <1>5 DEF PersistSignedEnvelope, Write

\* Going on with an envelope.
LEMMA CarriesOn ==
  ASSUME WorkInv, proc.at \in Carrying, NEW a \in Carrying, NEW l \in SUBSET AllIds, Lasting, reg' = reg,
         HasEnvelope(tasks'[proc.task]), tasks'[proc.task].inc = tasks[proc.task].inc,
         proc' = MadeProc(a, proc.task, l, {}, proc.log, proc.guarded, proc.manual, proc.todo)
  PROVE  /\ ProcOK' /\ (a \notin {"Depth", "Finalize"} => PlaceOK')
         /\ proc'.at = a /\ proc'.task = proc.task /\ proc'.found = {}
<1>1. a \notin Working /\ a \notin {"Apply", "Prove", "Sign", "Incident"}
  BY DEF Working, Carrying
<1>2. proc.task \in Txs /\ ProcOK /\ (proc.guarded => Me.inc # 0 /\ proc.log \in {0} \cup DOMAIN Logs[proc.task])
      /\ Me = tasks[proc.task]
  BY AtEnvelope
<1>3. Fits(tasks', a, proc.task, proc.log, proc.guarded, {})
  BY <1>1, <1>2 DEF Fits
<1>4. proc'.at = a /\ proc'.task = proc.task /\ proc'.found = {}
  BY DEF MadeProc
<1> QED BY <1>2, <1>3, <1>4, ProcParts, Goes

\* Nothing written, and on with the envelope.
LEMMA JustCarriesOn ==
  ASSUME WorkInv, proc.at \in Carrying, UNCHANGED tasks, NEW a \in Carrying, NEW l \in SUBSET AllIds,
         reg' = reg,
         proc' = MadeProc(a, proc.task, l, {}, proc.log, proc.guarded, proc.manual, proc.todo)
  PROVE  /\ Faithful /\ Honest /\ ProcOK' /\ Signed' = Signed /\ proc'.at = a /\ proc'.found = {}
         /\ a \notin {"Depth", "Finalize"} => StepOK
<1>1. TasksOK /\ HasEnvelope(tasks[proc.task])
  BY AtEnvelope
<1>2. Faithful /\ Honest /\ Lasting /\ HasEnvelope(tasks'[proc.task])
      /\ tasks'[proc.task].inc = tasks[proc.task].inc
  BY <1>1, Unwritten
<1>3. /\ ProcOK' /\ (a \notin {"Depth", "Finalize"} => PlaceOK')
      /\ proc'.at = a /\ proc'.task = proc.task /\ proc'.found = {}
  BY <1>2, CarriesOn
<1>4. Signed' = Signed
  BY <1>3 DEF Signed, Me
<1> QED BY <1>2, <1>3, <1>4 DEF StepOK

\* The envelope is found mined, or its facts are read.
LEMMA ReadReceiptStep ==
  ASSUME WorkInv, ReadReceipt
  PROVE  StepOK
<1>1. proc.at = "Envelope" /\ proc.at \in Carrying
  BY DEF ReadReceipt, At, Carrying
<1>2. ProcOK /\ SignedIds \in SUBSET AllIds
  BY <1>1, AtEnvelope
<1>3. UNCHANGED tasks /\ reg' = reg /\ mined' = mined
  BY DEF ReadReceipt, chainVars
<1>4. CASE Mined(Signed) /\ proc' = Go("Depth")
  <2> DEFINE a == "Depth" z == {}
  <2>1. a \in Carrying /\ z \in SUBSET AllIds
    BY DEF Carrying
  <2>2. proc' = MadeProc(a, proc.task, z, {}, proc.log, proc.guarded, proc.manual, proc.todo)
    BY <1>2, <1>4, GoMade
  <2> HIDE DEF a, z
  <2>3. Faithful /\ Honest /\ ProcOK' /\ Signed' = Signed /\ proc'.at = a /\ proc'.found = {}
    BY <1>1, <1>3, <2>1, <2>2, JustCarriesOn
  <2>4. PlaceOK'
    BY <1>3, <1>4, <2>3 DEF PlaceOK, Mined, a
  <2> QED BY <2>3, <2>4 DEF StepOK
<1>5. CASE proc' = GoReading("EnvelopeSemantic", SignedIds)
  <2> DEFINE a == "EnvelopeSemantic" z == SignedIds
  <2>1. a \in Carrying /\ z \in SUBSET AllIds /\ a \notin {"Depth", "Finalize"}
    BY <1>2 DEF Carrying
  <2>2. proc' = MadeProc(a, proc.task, z, {}, proc.log, proc.guarded, proc.manual, proc.todo)
    BY <1>2, <1>5, GoMade
  <2> HIDE DEF a, z
  <2> QED BY <1>1, <1>3, <2>1, <2>2, JustCarriesOn
<1> QED BY <1>4, <1>5 DEF ReadReceipt

\* Two blocks on the block that was just read: the chain has not let go of it.
LEMMA ReadHeadStep ==
  ASSUME WorkInv, ReadHead
  PROVE  StepOK
<1>1. proc.at = "Depth" /\ proc.at \in Carrying
  BY DEF ReadHead, At, Carrying
<1>2. ProcOK /\ SignedIds \in SUBSET AllIds
  BY <1>1, AtEnvelope
<1>3. UNCHANGED tasks /\ reg' = reg /\ mined' = mined /\ depth' = depth
  BY DEF ReadHead, chainVars
<1>4. CASE proc' = Idle
  BY <1>3, <1>4, JustReturns DEF Ends
<1>5. CASE (Mined(Signed) => Confirmed(Signed)) /\ proc' = GoReading("Finalize", SignedIds)
  <2> DEFINE a == "Finalize" z == SignedIds
  <2>1. a \in Carrying /\ z \in SUBSET AllIds
    BY <1>2 DEF Carrying
  <2>2. proc' = MadeProc(a, proc.task, z, {}, proc.log, proc.guarded, proc.manual, proc.todo)
    BY <1>2, <1>5, GoMade
  <2> HIDE DEF a, z
  <2>3. Faithful /\ Honest /\ ProcOK' /\ Signed' = Signed /\ proc'.at = a /\ proc'.found = {}
    BY <1>1, <1>3, <2>1, <2>2, JustCarriesOn
  <2>4. PlaceOK => PlaceOK'
    BY <1>1, <1>3, <1>5, <2>3 DEF PlaceOK, Confirmed, a
  <2> QED BY <2>3, <2>4 DEF StepOK
<1> QED BY <1>4, <1>5 DEF ReadHead

\* A task that was written over, and keeps its envelope.
LEMMA WritesAndCarriesOn ==
  ASSUME WorkInv, proc.at \in Carrying, NEW a \in Carrying, a \notin {"Depth", "Finalize"}, reg' = reg,
         NEW new, Rewrites(proc.task, new), new.inc = tasks[proc.task].inc, HasEnvelope(new),
         tasks' = [tasks EXCEPT ![proc.task] = new],
         PlaceOK => (Believed(tasks[proc.task], proc.task) => Believed(new, proc.task)),
         proc' = Go(a)
  PROVE  StepOK
<1> DEFINE p == proc.task z == {}
<1>1. TasksOK /\ ProcOK /\ p \in Txs
  BY AtEnvelope
<1>2. Lasting /\ tasks'[p] = new
  BY <1>1, Written
<1>3. proc' = MadeProc(a, p, z, {}, proc.log, proc.guarded, proc.manual, proc.todo)
  BY <1>1, GoMade
<1>4. z \in SUBSET AllIds
  OBVIOUS
<1> HIDE DEF z
<1>5. ProcOK' /\ PlaceOK'
  BY <1>2, <1>3, <1>4, CarriesOn
<1> QED BY <1>1, <1>5, WrittenStep

\* The window is over.
LEMMA WindowOverStep ==
  ASSUME WorkInv, WindowOver
  PROVE  StepOK
<1> DEFINE p == proc.task k == 0
<1>1. proc.at \in Carrying
  BY DEF WindowOver, At, Carrying
<1>2. p \in Txs /\ Me = tasks[p] /\ ProcOK /\ TasksOK
  BY <1>1, AtEnvelope
<1>3. tasks' = [tasks EXCEPT ![p] = Attention(tasks[p], k)] /\ reg' = reg /\ Ends
      /\ k \in {0} \cup DOMAIN tasks[p].events
  BY <1>2 DEF WindowOver, Write, chainVars, Ends
<1> HIDE DEF k
<1> QED BY <1>2, <1>3, StopsAndReturns

\* The broadcast is written down before it is made.
LEMMA ResendStep ==
  ASSUME WorkInv, Resend
  PROVE  StepOK
<1> DEFINE p == proc.task c == IF Me.inFlight.window = "NONE" THEN "OPEN" ELSE Me.inFlight.window
           new == Windowed(tasks[p], c)
<1>1. proc.at \in Carrying
  BY DEF Resend, At, Carrying
<1>2. /\ p \in Txs /\ Me = tasks[p] /\ ProcOK /\ TasksOK /\ TaskOK(tasks[p], p) /\ HasEnvelope(tasks[p])
      /\ reg' = reg
  BY <1>1, AtEnvelope DEF Resend, chainVars
<1>3. CASE UNCHANGED tasks /\ proc' = Idle
  BY <1>2, <1>3, JustReturns DEF Ends
<1>4. CASE tasks' = [tasks EXCEPT ![p] = new] /\ proc' = Go("Broadcast")
  <2> DEFINE a == "Broadcast"
  <2>1. c \in Clock /\ (tasks[p].inFlight.window = "EXPIRED" => c = "EXPIRED")
    BY <1>2, TaskParts DEF Flights, Clock
  <2> HIDE DEF c
  <2>2. /\ Rewrites(p, new) /\ Modest(tasks[p], new) /\ new.inc = tasks[p].inc
        /\ new.inFlight.signed = tasks[p].inFlight.signed
    BY <1>2, <2>1, WindowRewrites
  <2>3. tasks' = [tasks EXCEPT ![p] = new] /\ proc' = Go(a) /\ a \in Carrying /\ a \notin {"Depth", "Finalize"}
    BY <1>4 DEF Carrying
  <2> HIDE DEF new, a
  <2>4. HasEnvelope(new) /\ (Believed(tasks[p], p) => Believed(new, p))
    BY <1>2, <2>2, ModestBelieved DEF HasEnvelope, Rewrites
  <2> QED BY <1>1, <1>2, <2>2, <2>3, <2>4, WritesAndCarriesOn
<1> QED BY <1>2, <1>3, <1>4 DEF Resend, Write, Windowed

\* What an envelope was meant to bring about is read once more.
LEMMA ReconcileEnvelopeSemanticStep ==
  ASSUME WorkInv, ReconcileEnvelopeSemantic
  PROVE  StepOK
<1> DEFINE p == proc.task seen == Visibility(SignedIds)
           id == [tx |-> Signed.tx, inc |-> Signed.inc, log |-> Signed.log]
           a == "Resend"
<1>1. proc.at = "EnvelopeSemantic" /\ proc.at \in Carrying /\ a \in Carrying /\ a \notin {"Depth", "Finalize"}
  BY DEF ReconcileEnvelopeSemantic, At, Carrying
<1>2. /\ p \in Txs /\ Me = tasks[p] /\ ProcOK /\ TasksOK /\ ChainsTypeOK /\ TaskOK(tasks[p], p)
      /\ HasEnvelope(tasks[p]) /\ Me.state # "NONE"
      /\ Signed.tx = p /\ Signed.inc # 0 /\ Signed.log \in {0} \cup DOMAIN Logs[p]
  BY <1>1, AtEnvelope
<1>3. reg' = reg /\ proc' = Go(a)
  BY DEF ReconcileEnvelopeSemantic, chainVars
<1>4. seen = "ALL_TRUE" => proc.found = SignedIds
  BY VisibilityType
<1> HIDE DEF a, seen
<1>5. ASSUME NEW new, Rewrites(p, new), new.inc = tasks[p].inc, new.inFlight = tasks[p].inFlight,
             tasks' = [tasks EXCEPT ![p] = new],
             PlaceOK => (Believed(tasks[p], p) => Believed(new, p))
      PROVE  StepOK
  <2>1. HasEnvelope(new)
    BY <1>2, <1>5 DEF HasEnvelope
  <2> QED BY <1>1, <1>3, <1>5, <2>1, WritesAndCarriesOn
<1>6. CASE tasks' = [tasks EXCEPT ![p] = Attention(Me, 0)]
  <2> DEFINE k == 0 new == Attention(tasks[p], k)
  <2>1. k \in {0} \cup DOMAIN tasks[p].events /\ tasks' = [tasks EXCEPT ![p] = new]
    BY <1>2, <1>6
  <2> HIDE DEF k
  <2>2. Rewrites(p, new) /\ Modest(tasks[p], new) /\ new.inc = tasks[p].inc /\ new.inFlight = tasks[p].inFlight
    BY <1>2, <2>1, AttentionRewrites
  <2> HIDE DEF new
  <2>3. Believed(tasks[p], p) => Believed(new, p)
    BY <1>2, <2>2, ModestBelieved DEF Rewrites
  <2> QED BY <1>5, <2>1, <2>2, <2>3
<1>7. CASE /\ Signed.log = 0 /\ seen = "ALL_TRUE" /\ Me.inc = Signed.inc
           /\ tasks' = [tasks EXCEPT ![p] = [Me EXCEPT !.state = "SUBMITTED"]]
  <2> DEFINE s == "SUBMITTED" c == tasks[p].epoch new == Relabel(tasks[p], s, c)
  <2>1. s \in SubmissionStates /\ c \in Clock
    BY <1>2, TaskParts DEF SubmissionStates
  <2>2. [Me EXCEPT !.state = "SUBMITTED"] = new
    BY <1>2 DEF Relabel, TaskOK, Task
  <2>3. tasks' = [tasks EXCEPT ![p] = new]
    BY <1>7, <2>2
  <2> HIDE DEF s
  <2>4. Rewrites(p, new) /\ new.inc = tasks[p].inc /\ new.inFlight = tasks[p].inFlight
         /\ new.events = tasks[p].events
    BY <1>2, <2>1, Relabels
  <2> HIDE DEF new, c
  <2>5. ASSUME PlaceOK, Believed(tasks[p], p) PROVE Believed(new, p)
    <3>1. SignedIds = Ids(p, tasks[p].inc)
      BY <1>2, <1>7 DEF SignedIds
    <3>2. Ids(p, new.inc) \subseteq reg.recorded
      BY <1>4, <1>7, <2>4, <2>5, <3>1 DEF PlaceOK
    <3> QED BY <2>4, <2>5, <3>2 DEF Believed
  <2> QED BY <1>5, <2>3, <2>4, <2>5
<1>8. CASE tasks' = [tasks EXCEPT ![p] = Me]
  <2>1. Rewrites(p, tasks[p])
    BY <1>2 DEF Rewrites, Keeps, Holds
  <2> QED BY <1>2, <1>5, <1>8, <2>1
<1>9. CASE /\ Signed.log # 0 /\ Me.inc = Signed.inc
           /\ tasks' = [tasks EXCEPT ![p] = [Me EXCEPT !.events[id.log] = Reread(@, id)]]
  <2> DEFINE k == Signed.log new == ReplaceEvent(tasks[p], k, Reread(tasks[p].events[k], id))
  <2>1. k \in DOMAIN Logs[p] /\ tasks[p].inc # 0 /\ id = [tx |-> p, inc |-> tasks[p].inc, log |-> k]
    BY <1>2, <1>9
  <2>2. tasks' = [tasks EXCEPT ![p] = new]
    BY <1>2, <1>9 DEF ReplaceEvent
  <2> HIDE DEF id, k
  <2>3. Rewrites(p, new) /\ Modest(tasks[p], new) /\ new.inc = tasks[p].inc /\ new.inFlight = tasks[p].inFlight
    BY <1>2, <2>1, RereadRewrites
  <2> HIDE DEF new
  <2>4. Believed(tasks[p], p) => Believed(new, p)
    BY <1>2, <2>3, ModestBelieved DEF Rewrites
  <2> QED BY <1>5, <2>2, <2>3, <2>4
<1> QED BY <1>6, <1>7, <1>8, <1>9 DEF ReconcileEnvelopeSemantic, Write, seen

\* The operation becomes history.
LEMMA FinalizeEnvelopeStep ==
  ASSUME WorkInv, FinalizeEnvelope
  PROVE  StepOK
<1> DEFINE p == proc.task seen == Visibility(SignedIds)
           id == [tx |-> Signed.tx, inc |-> Signed.inc, log |-> Signed.log]
<1>1. proc.at = "Finalize" /\ proc.at \in Carrying
  BY DEF FinalizeEnvelope, At, Carrying
<1>2. /\ p \in Txs /\ Me = tasks[p] /\ ProcOK /\ TasksOK /\ ChainsTypeOK /\ TaskOK(tasks[p], p)
      /\ HasEnvelope(tasks[p]) /\ Signed = tasks[p].inFlight.signed
      /\ proc.guarded => Me.inc # 0 /\ proc.log \in {0} \cup DOMAIN Logs[p]
  BY <1>1, AtEnvelope
<1>3. PICK ok \in IF Mined(Signed) THEN {ReceiptOk(Signed)} ELSE BOOLEAN :
        LET released == [Me EXCEPT !.inFlight = NoEnvelope, !.nonces = @ \cup {Signed.nonce}]
            task == CASE Signed.log = 0 /\ seen # "ALL_TRUE" -> Attention(released, 0)
                      [] Signed.log # 0 /\ Me.inc = Signed.inc ->
                           [released EXCEPT !.events[id.log] = Applied(@, id, ok)]
                      [] OTHER -> released
        IN /\ Write(task)
           /\ alarms' = IF Signed.log = 0 /\ seen = "MIXED" THEN alarms \cup {"MIXED"}
                                                            ELSE alarms
           /\ proc' = IF (ok \/ Signed.log = 0) /\ Me.inc # 0
                      THEN GoReading("Reconcile", Ids(proc.task, Me.inc)) ELSE Idle
  BY Zenon DEF FinalizeEnvelope
<1> DEFINE new == Finalized(tasks[p], seen, id, ok)
<1>4. tasks' = [tasks EXCEPT ![p] = new] /\ reg' = reg
  BY <1>2, <1>3 DEF Write, Finalized, Release, FinalizeEnvelope, chainVars
<1>5. Releases(p)
  BY <1>1 DEF Releases
<1>6. id = [tx |-> tasks[p].inFlight.signed.tx, inc |-> tasks[p].inFlight.signed.inc,
            log |-> tasks[p].inFlight.signed.log]
  BY <1>2
<1> HIDE DEF id, seen
<1>7. Rewrites(p, new) /\ new.inc = tasks[p].inc /\ (Believed(tasks[p], p) => Believed(new, p))
  BY <1>2, <1>5, <1>6, FinalizedRewrites
<1> HIDE DEF new
<1>8. Lasting /\ tasks'[p] = new
  BY <1>2, <1>4, <1>7, Written
<1>9. ProcOK' /\ PlaceOK'
  <2>1. CASE proc' = Idle
    BY <1>4, <2>1, ToIdle
  <2>2. CASE Me.inc # 0 /\ proc' = GoReading("Reconcile", Ids(p, Me.inc))
    <3> DEFINE a == "Reconcile" l == Ids(p, Me.inc) z == {}
    <3>1. a \in Working /\ a \notin Carrying /\ a \notin {"Apply", "Depth", "Finalize", "Prove", "Sign", "Incident"}
      BY DEF Working, Carrying
    <3>2. proc' = MadeProc(a, p, l, {}, proc.log, proc.guarded, proc.manual, proc.todo)
      BY <1>2, <2>2, GoMade
    <3>3. new.state # "NONE" /\ new.inc # 0
      BY <1>2, <1>7, <2>2 DEF Rewrites
    <3>4. l \in SUBSET AllIds
      BY <1>2, <2>2, TaskParts, IdsType
    <3> HIDE DEF a, l, z
    <3>5. Fits(tasks', a, p, proc.log, proc.guarded, z)
      BY <1>2, <1>8, <3>1, <3>3 DEF Fits, z
    <3> QED BY <1>2, <1>4, <1>8, <3>1, <3>2, <3>4, <3>5, ProcParts, Goes DEF z
  <2> QED BY <1>3, <2>1, <2>2
<1> QED BY <1>2, <1>4, <1>7, <1>9, WrittenStep

-----------------------------------------------------------------------------
(* The scan. *)

\* The tasks with an inclusion.
LEMMA StartScanStep ==
  ASSUME WorkInv, StartScan
  PROVE  StepOK
<1> DEFINE d == {t \in Txs : tasks[t].inc # 0 /\ tasks[t].state # "ORPHANED"}
<1>1. TasksOK /\ UNCHANGED tasks /\ reg' = reg /\ proc' = ScanNext(d)
  BY DEF WorkInv, StartScan, chainVars
<1>2. Faithful /\ Honest /\ Lasting
  BY <1>1, Unwritten
<1>3. d \in SUBSET Txs /\ \A t \in d : Exists(t)
  BY <1>1, TaskParts DEF TasksOK, Exists
<1> HIDE DEF d
<1>4. ProcOK' /\ PlaceOK'
  BY <1>1, <1>2, <1>3, Scans
<1> QED BY <1>2, <1>4 DEF StepOK

\* The scan has come to a task, whose file it may write.
LEMMA ScanWrites ==
  ASSUME WorkInv, NEW t \in Txs, NEW new, Rewrites(t, new), Modest(tasks[t], new),
         tasks' = [tasks EXCEPT ![t] = new], reg' = reg, NEW u, proc' = ScanNext(proc.todo \ {u})
  PROVE  StepOK
<1> DEFINE d == proc.todo \ {u}
<1>1. TasksOK /\ ProcOK
  BY DEF WorkInv
<1>2. Lasting
  BY <1>1, Written
<1>3. d \in SUBSET Txs /\ (\A v \in d : Exists(v)) /\ proc' = ScanNext(d)
  BY <1>1, ProcParts
<1> HIDE DEF d
<1>4. ProcOK' /\ PlaceOK'
  BY <1>2, <1>3, Scans
<1>5. Believed(tasks[t], t) => Believed(new, t)
  BY ModestBelieved DEF Rewrites
<1> QED BY <1>1, <1>4, <1>5, WrittenStep

\* The same inclusion, none any more, or another.
LEMMA CheckInclusionStep ==
  ASSUME WorkInv, NEW t \in Txs, CheckInclusion(t)
  PROVE  StepOK
<1> DEFINE d == proc.todo \ {t}
<1>1. TasksOK /\ ProcOK /\ reg' = reg /\ TaskOK(tasks[t], t) /\ ChainsTypeOK /\ proc.at = "Scan"
  BY DEF WorkInv, CheckInclusion, chainVars, TasksOK
<1>2. d \in SUBSET Txs /\ \A v \in d : Exists(v)
  BY <1>1, ProcParts
<1>3. CASE UNCHANGED tasks /\ proc' = ScanNext(d)
  <2>1. Faithful /\ Honest /\ Lasting
    BY <1>1, <1>3, Unwritten
  <2> HIDE DEF d
  <2>2. ProcOK' /\ PlaceOK'
    BY <1>1, <1>2, <1>3, <2>1, Scans
  <2> QED BY <2>1, <2>2 DEF StepOK
<1>4. ASSUME NEW s \in {"ATTENTION_REQUIRED", "ORPHANED"},
             tasks' = [tasks EXCEPT ![t] = Removed(t, s)], proc' = ScanNext(d)
      PROVE  StepOK
  <2> DEFINE new == Removed(t, s)
  <2>1. Rewrites(t, new) /\ Modest(tasks[t], new)
    BY <1>1, RemovedRewrites
  <2>2. tasks' = [tasks EXCEPT ![t] = new]
    BY <1>4
  <2> HIDE DEF new
  <2> QED BY <1>1, <1>4, <2>1, <2>2, ScanWrites
<1>5. CASE /\ source[t].now \notin {0, tasks[t].inc}
           /\ tasks' = [tasks EXCEPT ![t] = Readmitted(t)]
           /\ \/ proc' = [proc EXCEPT !.at = "Incident", !.task = t]
              \/ proc' = ScanNext(d)
  <2> DEFINE new == Readmitted(t)
  <2>1. source[t].now \in Inclusions /\ source[t].now # tasks[t].inc
    BY <1>1, <1>5, ChainsConstants DEF ChainsTypeOK, Inclusions
  <2>2. Rewrites(t, new) /\ Modest(tasks[t], new)
    BY <1>1, <2>1, ReadmittedRewrites
  <2>3. tasks' = [tasks EXCEPT ![t] = new]
    BY <1>5
  <2> HIDE DEF new
  <2>4. CASE proc' = ScanNext(d)
    BY <1>1, <2>2, <2>3, <2>4, ScanWrites
  <2>5. CASE proc' = [proc EXCEPT !.at = "Incident", !.task = t]
    <3> DEFINE a == "Incident"
    <3>1. a \notin Working /\ a \notin Carrying /\ a \notin {"Depth", "Finalize", "Apply", "Prove", "Sign"}
          /\ "Scan" \notin Working \cup Carrying
      BY DEF Working, Carrying
    <3>2. proc' = MadeProc(a, t, proc.left, proc.found, proc.log, proc.guarded, proc.manual, proc.todo)
      BY <1>1, <2>5, ProcParts DEF MadeProc
    <3>3. proc.guarded = FALSE
      BY <1>1, <3>1, ProcParts DEF Fits
    <3>4. Lasting
      BY <1>1, <2>2, <2>3, Written
    <3>5. \A u \in proc.todo : tasks'[u].state # "NONE"
      BY <1>1, <3>4, ProcParts DEF Lasting
    <3>6. a \in Working \cup Carrying \cup Resting \cup {"Incident"} /\ a = "Incident"
      OBVIOUS
    <3> HIDE DEF a
    <3>7. Fits(tasks', a, t, proc.log, proc.guarded, proc.todo)
      BY <3>1, <3>3, <3>5 DEF Fits
    <3>8. ProcOK' /\ (proc.found \subseteq reg.recorded => PlaceOK')
      BY <1>1, <3>1, <3>2, <3>6, <3>7, ProcParts, ProcMade
    <3>9. Believed(tasks[t], t) => Believed(new, t)
      BY <2>2, ModestBelieved DEF Rewrites
    <3>10. PlaceOK => PlaceOK'
      BY <3>8 DEF PlaceOK
    <3> QED BY <1>1, <2>2, <2>3, <3>8, <3>9, <3>10, WrittenStep
  <2> QED BY <1>5, <2>4, <2>5
<1> HIDE DEF d
<1> QED BY <1>3, <1>4, <1>5 DEF CheckInclusion, d

\* The second write of an incident.
LEMMA RaiseIncidentStep ==
  ASSUME WorkInv, RaiseIncident
  PROVE  StepOK
<1> DEFINE p == proc.task k == 0 new == Attention(tasks[p], k)
<1>1. TasksOK /\ ProcOK /\ reg' = reg /\ proc.at = "Incident" /\ proc' = ScanNext(proc.todo \ {p})
  BY DEF WorkInv, RaiseIncident, At, chainVars
<1>2. p \in Txs
  BY <1>1, ProcParts DEF Fits
<1>3. TaskOK(tasks[p], p) /\ k \in {0} \cup DOMAIN tasks[p].events
  BY <1>1, <1>2 DEF TasksOK
<1>4. tasks' = [tasks EXCEPT ![p] = new]
  BY DEF RaiseIncident, Write, Me
<1> HIDE DEF k
<1>5. Rewrites(p, new) /\ Modest(tasks[p], new)
  BY <1>2, <1>3, AttentionRewrites
<1> HIDE DEF new
<1> QED BY <1>1, <1>2, <1>4, <1>5, ScanWrites

\* A scan of the logs, with the receipts left to read.
LEMMA FindLogsStep ==
  ASSUME WorkInv, FindLogs
  PROVE  StepOK
<1> DEFINE l == {<<t, source[t].now>> : t \in {x \in Txs : source[x].now # 0}}
<1>1. TasksOK /\ UNCHANGED tasks /\ reg' = reg /\ ChainsTypeOK
  BY DEF WorkInv, FindLogs, chainVars
<1>2. Faithful /\ Honest
  BY <1>1, Unwritten
<1>3. l \in SUBSET (AllIds \cup (Txs \X Inclusions))
  <2>1. \A t \in Txs : source[t].now # 0 => source[t].now \in Inclusions
    BY <1>1, ChainsConstants DEF ChainsTypeOK, Inclusions
  <2> QED BY <2>1
<1>4. proc' = Idle \/ proc' = [Idle EXCEPT !.at = "Receipts", !.left = l]
  BY DEF FindLogs
<1> HIDE DEF l
<1>5. CASE proc' = Idle
  BY <1>1, <1>2, <1>5, ToIdle DEF StepOK
<1>6. CASE proc' = [Idle EXCEPT !.at = "Receipts", !.left = l]
  <2> DEFINE a == "Receipts" d == {}
  <2>1. proc' = MadeProc(a, Nobody, l, {}, 0, FALSE, FALSE, d)
    BY <1>6 DEF Idle, MadeProc
  <2>2. a \in Resting /\ d \in SUBSET Txs /\ \A t \in d : tasks'[t].state # "NONE"
    BY DEF Resting
  <2> HIDE DEF a, d
  <2>3. ProcOK' /\ PlaceOK'
    BY <1>1, <1>3, <2>1, <2>2, Rests
  <2> QED BY <1>2, <2>3 DEF StepOK
<1> QED BY <1>4, <1>5, <1>6

\* One receipt, and the scan goes on with the others or ends.
LEMMA ReceiptRead ==
  ASSUME WorkInv, proc.at = "Receipts", Lasting, reg' = reg, NEW c,
         proc' = Idle \/ proc' = NextReceipt(c)
  PROVE  ProcOK' /\ (PlaceOK => PlaceOK')
<1>1. ProcOK
  BY DEF WorkInv
<1>2. CASE proc' = Idle
  BY <1>2, ToIdle
<1>3. CASE proc' = [proc EXCEPT !.left = @ \ {c}]
  <2> DEFINE l == proc.left \ {c}
  <2>1. "Receipts" \notin Working /\ "Receipts" \notin Carrying
    BY DEF Working, Carrying
  <2>2. proc.guarded = FALSE
    BY <1>1, <2>1, ProcParts DEF Fits
  <2>3. proc' = MadeProc(proc.at, proc.task, l, proc.found, proc.log, proc.guarded, proc.manual, proc.todo)
    BY <1>1, <1>3, ProcParts DEF MadeProc
  <2>4. \A u \in proc.todo : tasks'[u].state # "NONE"
    BY <1>1, ProcParts DEF Lasting
  <2>5. Fits(tasks', proc.at, proc.task, proc.log, proc.guarded, proc.todo)
    BY <2>1, <2>2, <2>4 DEF Fits
  <2>6. l \in SUBSET (AllIds \cup (Txs \X Inclusions))
    BY <1>1, ProcParts
  <2> HIDE DEF l
  <2> DEFINE a == proc.at p == proc.task g == proc.found k == proc.log b == proc.guarded
             m == proc.manual d == proc.todo
  <2>7. /\ a \in Working \cup Carrying \cup Resting \cup {"Incident"} /\ p \in Txs \cup {Nobody}
        /\ g \in SUBSET AllIds /\ k \in Nat /\ b \in BOOLEAN /\ m \in BOOLEAN /\ d \in SUBSET Txs
        /\ proc' = MadeProc(a, p, l, g, k, b, m, d) /\ Fits(tasks', a, p, k, b, d)
    BY <1>1, <2>3, <2>5, ProcParts
  <2> HIDE DEF a, p, g, k, b, m, d
  <2>8. ProcOK' /\ (a \notin {"Depth", "Finalize"} /\ g \subseteq reg.recorded => PlaceOK')
    BY <2>6, <2>7, ProcMade
  <2>9. PlaceOK => g \subseteq reg.recorded
    BY DEF PlaceOK, g
  <2> QED BY <2>8, <2>9 DEF a
<1> QED BY <1>2, <1>3 DEF NextReceipt

\* A new task, another inclusion of one, an old inclusion that is recorded, or a gap.
LEMMA IngestReceiptStep ==
  ASSUME WorkInv, NEW c \in Txs \X Inclusions, IngestReceipt(c)
  PROVE  StepOK
<1> DEFINE t == c[1]
<1>1. TasksOK /\ ProcOK /\ reg' = reg /\ ChainsTypeOK /\ proc.at = "Receipts" /\ t \in Txs
      /\ c[2] \in Inclusions
  BY DEF WorkInv, IngestReceipt, chainVars
<1>2. TaskOK(tasks[t], t)
  BY <1>1 DEF TasksOK
<1>3. proc' = Idle \/ proc' = NextReceipt(c)
  BY DEF IngestReceipt
<1>4. CASE UNCHANGED tasks
  <2>1. Faithful /\ Honest /\ Lasting
    BY <1>1, <1>4, Unwritten
  <2> QED BY <1>1, <1>3, <2>1, ReceiptRead DEF StepOK
<1>5. ASSUME NEW new, Rewrites(t, new), Modest(tasks[t], new), tasks' = [tasks EXCEPT ![t] = new]
      PROVE  StepOK
  <2>1. Lasting
    BY <1>1, <1>5, Written
  <2>2. Believed(tasks[t], t) => Believed(new, t)
    BY <1>1, <1>5, ModestBelieved DEF Rewrites
  <2>3. ProcOK' /\ (PlaceOK => PlaceOK')
    BY <1>1, <1>3, <2>1, ReceiptRead
  <2> QED BY <1>1, <1>5, <2>2, <2>3, WrittenStep
<1> DEFINE k == 0
<1>6. CASE /\ source[t].now = c[2] /\ tasks[t].inc # c[2]
           /\ tasks' = [tasks EXCEPT ![t] =
                CASE ~Exists(t) -> Admitted(t)
                  [] Exists(t) /\ AnySeen(t) -> Attention(@, 0)
                  [] OTHER -> Readmitted(t)]
  <2>0. k \in {0} \cup DOMAIN tasks[t].events
    OBVIOUS
  <2>1. \/ ~Exists(t) /\ tasks' = [tasks EXCEPT ![t] = Admitted(t)]
        \/ tasks' = [tasks EXCEPT ![t] = Attention(tasks[t], k)]
        \/ tasks' = [tasks EXCEPT ![t] = Readmitted(t)]
    BY <1>6
  <2> HIDE DEF k
  <2>2. CASE ~Exists(t) /\ tasks' = [tasks EXCEPT ![t] = Admitted(t)]
    <3> DEFINE new == Admitted(t)
    <3>1. Rewrites(t, new) /\ Modest(tasks[t], new)
      BY <1>1, <1>2, <1>6, <2>2, AdmittedRewrites
    <3>2. tasks' = [tasks EXCEPT ![t] = new]
      BY <2>2
    <3> HIDE DEF new
    <3> QED BY <1>5, <3>1, <3>2
  <2>3. CASE tasks' = [tasks EXCEPT ![t] = Attention(tasks[t], k)]
    <3> DEFINE new == Attention(tasks[t], k)
    <3>1. Rewrites(t, new) /\ Modest(tasks[t], new)
      BY <1>1, <1>2, <2>0, AttentionRewrites
    <3>2. tasks' = [tasks EXCEPT ![t] = new]
      BY <2>3
    <3> HIDE DEF new
    <3> QED BY <1>5, <3>1, <3>2
  <2>4. CASE tasks' = [tasks EXCEPT ![t] = Readmitted(t)]
    <3> DEFINE new == Readmitted(t)
    <3>1. Rewrites(t, new) /\ Modest(tasks[t], new)
      BY <1>1, <1>2, <1>6, ReadmittedRewrites
    <3>2. tasks' = [tasks EXCEPT ![t] = new]
      BY <2>4
    <3> HIDE DEF new
    <3> QED BY <1>5, <3>1, <3>2
  <2> QED BY <2>1, <2>2, <2>3, <2>4
<1> QED BY <1>4, <1>6 DEF IngestReceipt

-----------------------------------------------------------------------------
(* Failures, and time. *)

\* A read that fails, and the retry it schedules if an attempt is under way.
LEMMA ReadFailsStep ==
  ASSUME WorkInv, ReadFails
  PROVE  StepOK
<1> DEFINE p == proc.task k == proc.log new == Retried(tasks[p], k)
<1>1. TasksOK /\ ProcOK /\ reg' = reg
  BY DEF WorkInv, ReadFails, chainVars
<1>2. CASE proc.guarded
  <2>1. p \in Txs /\ tasks[p].inc # 0 /\ k \in {0} \cup DOMAIN Logs[p]
    BY <1>1, <1>2, ProcParts DEF Fits
  <2>2. TaskOK(tasks[p], p)
    BY <1>1, <2>1 DEF TasksOK
  <2>3. tasks[p].state # "NONE" /\ k \in {0} \cup DOMAIN tasks[p].events
    BY <2>1, <2>2, TaskParts
  <2>4. tasks' = [tasks EXCEPT ![p] = new] /\ Ends
    BY <1>2 DEF ReadFails, Write, Me, Ends
  <2> HIDE DEF k
  <2>5. Rewrites(p, new) /\ Modest(tasks[p], new)
    BY <2>1, <2>2, <2>3, RetriedRewrites
  <2> HIDE DEF new
  <2> QED BY <1>1, <2>1, <2>4, <2>5, WritesAndReturns
<1>3. CASE ~proc.guarded
  BY <1>1, <1>3, JustReturns DEF ReadFails, Ends
<1> QED BY <1>2, <1>3

\* The process loses what it knew, or finds the files again.
LEMMA CrashStep ==
  ASSUME WorkInv, Crash \/ Restart
  PROVE  StepOK
<1>1. TasksOK /\ UNCHANGED tasks /\ reg' = reg
  BY DEF WorkInv, Crash, Restart, chainVars
<1>2. Faithful /\ Honest
  BY <1>1, Unwritten
<1>3. CASE proc' = Idle
  BY <1>1, <1>2, <1>3, ToIdle DEF StepOK
<1>4. CASE proc' = [Idle EXCEPT !.at = "Down"]
  <2> DEFINE a == "Down" d == {} l == {}
  <2>1. proc' = MadeProc(a, Nobody, l, {}, 0, FALSE, FALSE, d)
    BY <1>4 DEF Idle, MadeProc
  <2>2. a \in Resting /\ d \in SUBSET Txs /\ (\A t \in d : tasks'[t].state # "NONE")
        /\ l \in SUBSET (AllIds \cup (Txs \X Inclusions))
    BY DEF Resting
  <2> HIDE DEF a, d, l
  <2>3. ProcOK' /\ PlaceOK'
    BY <1>1, <2>1, <2>2, Rests
  <2> QED BY <1>2, <2>3 DEF StepOK
<1> QED BY <1>3, <1>4 DEF Crash, Restart

\* A write beside the process, which stays where it is.
LEMMA Stays ==
  ASSUME WorkInv, UNCHANGED <<proc, reg, mined, depth>>, NEW t \in Txs, NEW new,
         tasks' = [tasks EXCEPT ![t] = new], new.state # "NONE", new.inc = tasks[t].inc,
         new.inFlight.signed = tasks[t].inFlight.signed
  PROVE  ProcOK' /\ (PlaceOK => PlaceOK')
<1>1. tasks \in [Txs -> Task] /\ ProcOK
  BY DEF WorkInv, TasksOK
<1>2. /\ tasks'[t] = new
      /\ \A u \in Txs : u # t => tasks'[u] = tasks[u]
  BY <1>1
<1>3. \A u \in Txs : /\ tasks[u].state # "NONE" => tasks'[u].state # "NONE"
                     /\ tasks'[u].inc = tasks[u].inc
                     /\ tasks'[u].inFlight.signed = tasks[u].inFlight.signed
  BY <1>2
<1>4. \A u \in Txs : HasEnvelope(tasks[u]) => HasEnvelope(tasks'[u])
  BY <1>3 DEF HasEnvelope
<1>5. proc.todo \subseteq Txs
  BY <1>1, ProcParts
<1>6. Fits(tasks', proc.at, proc.task, proc.log, proc.guarded, proc.todo)
  BY <1>1, <1>3, <1>4, <1>5, ProcParts DEF Fits
<1>7. proc' = proc /\ proc \in Procs
  BY <1>1 DEF ProcOK
<1>8. ProcOK'
  BY <1>6, <1>7 DEF ProcOK
<1>9. proc.at \in {"Depth", "Finalize"} => Signed' = Signed
  <2>1. proc.at \in {"Depth", "Finalize"} => proc.task \in Txs
    BY <1>1, ProcParts DEF Fits, Carrying
  <2> QED BY <1>3, <1>7, <2>1 DEF Signed, Me
<1>10. PlaceOK => PlaceOK'
  BY <1>7, <1>9 DEF PlaceOK, Mined, Confirmed
<1> QED BY <1>8, <1>10

\* A deadline passes.
LEMMA ExpireStep ==
  ASSUME WorkInv, NEW t \in Txs, Expire(t)
  PROVE  StepOK
<1>1. TasksOK /\ TaskOK(tasks[t], t) /\ UNCHANGED <<proc, reg, mined, depth>>
  BY DEF WorkInv, TasksOK, Expire, chainVars
<1>2. ASSUME NEW new, Rewrites(t, new), Modest(tasks[t], new), new.inc = tasks[t].inc,
             new.inFlight.signed = tasks[t].inFlight.signed, tasks' = [tasks EXCEPT ![t] = new]
      PROVE  StepOK
  <2>1. ProcOK' /\ (PlaceOK => PlaceOK')
    BY <1>1, <1>2, Stays DEF Rewrites
  <2>2. Believed(tasks[t], t) => Believed(new, t)
    BY <1>2, ModestBelieved DEF Rewrites
  <2> QED BY <1>1, <1>2, <2>1, <2>2, WrittenStep
<1> DEFINE c == "EXPIRED"
<1>3. c \in Clock /\ c = "EXPIRED"
  BY DEF Clock
<1>4. CASE tasks[t].epoch = "OPEN" /\ tasks' = [tasks EXCEPT ![t].epoch = "EXPIRED"]
  <2> DEFINE s == tasks[t].state new == Relabel(tasks[t], s, c)
  <2>1. s # "NONE"
    BY <1>1, <1>4 DEF TaskOK, NoTask
  <2>2. s \in SubmissionStates
    BY <1>1, <2>1, TaskParts DEF States
  <2>3. tasks' = [tasks EXCEPT ![t] = new]
    BY <1>1, <1>4 DEF Relabel, TaskOK, Task
  <2> HIDE DEF c
  <2>4. Rewrites(t, new) /\ new.inc = tasks[t].inc /\ new.inFlight = tasks[t].inFlight
        /\ new.events = tasks[t].events /\ new.state = tasks[t].state
    BY <1>1, <1>3, <2>2, Relabels
  <2> HIDE DEF new, s
  <2>5. Modest(tasks[t], new)
    BY <2>4 DEF Modest
  <2> QED BY <1>2, <2>3, <2>4, <2>5
<1>5. CASE tasks[t].inFlight.window = "OPEN" /\ tasks' = [tasks EXCEPT ![t].inFlight.window = "EXPIRED"]
  <2> DEFINE new == Windowed(tasks[t], c)
  <2>1. HasEnvelope(tasks[t])
    BY <1>1, <1>5, TaskParts DEF NoEnvelope
  <2>2. tasks' = [tasks EXCEPT ![t] = new]
    BY <1>5 DEF Windowed
  <2> HIDE DEF c
  <2>3. /\ Rewrites(t, new) /\ Modest(tasks[t], new) /\ new.inc = tasks[t].inc
        /\ new.inFlight.signed = tasks[t].inFlight.signed
    BY <1>1, <1>3, <2>1, WindowRewrites
  <2> HIDE DEF new
  <2> QED BY <1>2, <2>2, <2>3
<1>6. ASSUME NEW k \in DOMAIN tasks[t].events,
             tasks' = [tasks EXCEPT ![t].events[k].epoch = "EXPIRED"]
      PROVE  StepOK
  <2> DEFINE o == tasks[t].events[k] e == [o EXCEPT !.epoch = "EXPIRED"]
             new == ReplaceEvent(tasks[t], k, e)
  <2>1. o \in Evidence /\ EventBacked(tasks[t].inFlight.signed, tasks[t].inc, t, k, o)
    BY <1>1, TaskParts DEF EventsBacked
  <2>2. e \in Evidence /\ e.automation = o.automation /\ e.epoch = "EXPIRED"
    BY <2>1 DEF Evidence, Clock
  <2>3. tasks' = [tasks EXCEPT ![t] = new]
    BY <1>6 DEF ReplaceEvent
  <2> HIDE DEF e
  <2>4. EventBacked(tasks[t].inFlight.signed, tasks[t].inc, t, k, e) /\ EpochHolds(tasks[t].events[k], e)
    BY <2>1, <2>2 DEF EventBacked, EpochHolds
  <2>5. /\ Rewrites(t, new) /\ new.state = tasks[t].state /\ new.inc = tasks[t].inc
        /\ new.inFlight = tasks[t].inFlight
        /\ DOMAIN new.events = DOMAIN tasks[t].events /\ new.events[k] = e
        /\ \A j \in DOMAIN tasks[t].events : j # k => new.events[j] = tasks[t].events[j]
    BY <1>1, <2>2, <2>4, EventReplaced
  <2> HIDE DEF new
  <2>6. Modest(tasks[t], new)
    BY <2>2, <2>5 DEF Modest
  <2> QED BY <1>2, <2>3, <2>5, <2>6
<1> QED BY <1>4, <1>5, <1>6 DEF Expire

\* It is too soon to send again.
LEMMA TooSoonStep ==
  ASSUME WorkInv, TooSoon
  PROVE  StepOK
BY JustReturns DEF TooSoon, chainVars, Ends

\* The bytes are given to the network: those of an envelope.
LEMMA BroadcastStep ==
  ASSUME WorkInv, Broadcast
  PROVE  /\ StepOK /\ UNCHANGED <<source, attested, reg, mined, depth, undo, tasks, alarms>>
         /\ \E x \in Envelopes \cap SignerTxs :
               sent' = sent \cup {x} /\ pool' \in {pool, pool \cup {x}}
<1>1. proc.at \in Carrying
  BY DEF Broadcast, At, Carrying
<1>2. proc.task \in Txs /\ HasEnvelope(tasks[proc.task]) /\ Signed = tasks[proc.task].inFlight.signed
      /\ Signed \in SignerTxs
  BY <1>1, AtEnvelope
<1>3. UNCHANGED <<source, attested, reg, mined, depth, undo, tasks, alarms>> /\ proc' = Idle
  BY DEF Broadcast
<1>4. StepOK
  BY <1>3, JustReturns DEF Ends
<1>5. Signed \in Envelopes
  BY <1>2 DEF Envelopes, HasEnvelope
<1>6. sent' = sent \cup {Signed} /\ pool' \in {pool, pool \cup {Signed}}
  BY DEF Broadcast, Receive
<1> QED BY <1>2, <1>3, <1>4, <1>5, <1>6

\* The operator gives a task new epochs.
ResumingOK(t) ==
    /\ Resume(t) /\ t \in Txs
    /\ tasks' \in [Txs -> Task] /\ \A u \in Txs : u # t => tasks'[u] = tasks[u]
    /\ TaskOK(tasks'[t], t) /\ tasks'[t].inFlight = tasks[t].inFlight
    /\ tasks'[t].nonces = tasks[t].nonces /\ Modest(tasks[t], tasks'[t])
    /\ tasks'[t].inc = tasks[t].inc /\ tasks'[t].state # "NONE"
    /\ ProcOK' /\ (PlaceOK => PlaceOK')

\* No envelope is out on it then.
LEMMA ResumeStep ==
  ASSUME WorkInv, NEW t \in Txs, Resume(t)
  PROVE  ResumingOK(t)
<1> DEFINE new == Resumed(tasks[t])
<1>1. TasksOK /\ TaskOK(tasks[t], t) /\ UNCHANGED <<proc, reg, mined, depth>>
  BY DEF WorkInv, TasksOK, Resume, chainVars
<1>2. tasks[t].inc # 0 /\ ~HasEnvelope(tasks[t]) /\ tasks' = [tasks EXCEPT ![t] = new]
  BY DEF Resume, Lane
<1>3. /\ TaskOK(new, t) /\ new.state # "NONE" /\ new.inc = tasks[t].inc
      /\ new.inFlight = tasks[t].inFlight /\ new.nonces = tasks[t].nonces
      /\ Modest(tasks[t], new)
  BY <1>1, <1>2, ResumedOK
<1> HIDE DEF new
<1>4. ProcOK' /\ (PlaceOK => PlaceOK')
  BY <1>1, <1>2, <1>3, Stays
<1>5. tasks' \in [Txs -> Task] /\ tasks'[t] = new /\ \A u \in Txs : u # t => tasks'[u] = tasks[u]
  BY <1>1, <1>2, <1>3 DEF TasksOK, TaskOK
<1> QED BY <1>3, <1>4, <1>5 DEF ResumingOK

-----------------------------------------------------------------------------
(* The chains, by themselves. *)

Registry == [recorded: SUBSET AllIds, decided: SUBSET AllIds, status: [Deals -> Statuses]]

Grows(old, new) == old.recorded \subseteq new.recorded /\ old.decided \subseteq new.decided

\* Applying facts records none, and undoes no decision.
LEMMA ApplyingType ==
  ASSUME NEW r \in Registry, NEW ids \in SUBSET AllIds
  PROVE  AfterApplying(ids, r) \in Registry /\ Grows(r, AfterApplying(ids, r))
<1> DEFINE funded == {EventOf(id).deal : id \in {x \in ids : EventOf(x).kind = "FUNDING"}}
           status == [d \in Deals |-> IF d \in funded /\ r.status[d] = "CREATED"
                                     THEN "FINANCED" ELSE r.status[d]]
           decided == r.decided \cup {id \in ids : Decides(EventOf(id), status[EventOf(id).deal])}
           new == AfterApplying(ids, r)
<1>1. new = [r EXCEPT !.status = status, !.decided = decided]
  BY DEF AfterApplying
<1>2. status \in [Deals -> Statuses] /\ decided \in SUBSET AllIds /\ r.decided \subseteq decided
  BY DEF Registry, Statuses
<1> HIDE DEF new, status, decided
<1>3. new.recorded = r.recorded /\ new.decided = decided /\ new.status = status
  BY <1>1 DEF Registry
<1>4. new \in Registry
  BY <1>1, <1>2 DEF Registry
<1> QED BY <1>2, <1>3, <1>4 DEF Grows, new

\* Nor does recording a whole inclusion, applied or not.
LEMMA RecordingType ==
  ASSUME NEW r \in Registry, NEW t \in Txs, NEW i \in Inclusions
  PROVE  /\ AfterRecording(t, i, r) \in Registry /\ Grows(r, AfterRecording(t, i, r))
         /\ AfterSubmitting(t, i, r) \in Registry /\ Grows(r, AfterSubmitting(t, i, r))
<1> DEFINE new == AfterRecording(t, i, r) ids == Ids(t, i)
<1>1. ids \in SUBSET AllIds
  BY IdsType
<1>2. new = [r EXCEPT !.recorded = r.recorded \cup ids]
  BY DEF AfterRecording
<1>3. AfterSubmitting(t, i, r) = AfterApplying(ids, new)
  BY DEF AfterSubmitting
<1> HIDE DEF new, ids
<1>4. new \in Registry /\ Grows(r, new)
  BY <1>1, <1>2 DEF Registry, Grows
<1>5. AfterApplying(ids, new) \in Registry /\ Grows(new, AfterApplying(ids, new))
  BY <1>1, <1>4, ApplyingType
<1> QED BY <1>3, <1>4, <1>5 DEF Grows, new

\* Nor does a transaction of the signer.
LEMMA EffectType ==
  ASSUME ChainsTypeOK, NEW x \in SignerTxs, Succeeds(x)
  PROVE  Effect(x) \in Registry /\ Grows(reg, Effect(x))
<1>1. x.tx \in Txs /\ x.inc \in Inclusions /\ reg \in Registry
  BY SignerTxType DEF ChainsTypeOK, Registry
<1>2. CASE x.log = 0
  BY <1>1, <1>2, RecordingType DEF Effect
<1>3. CASE x.log # 0
  <2> DEFINE ids == {[tx |-> x.tx, inc |-> x.inc, log |-> x.log]}
  <2>1. ids \in SUBSET AllIds
    BY <1>1, <1>3 DEF Succeeds, Registry
  <2>2. Effect(x) = AfterApplying(ids, reg)
    BY <1>3 DEF Effect
  <2> HIDE DEF ids
  <2> QED BY <1>1, <2>1, <2>2, ApplyingType
<1> QED BY <1>2, <1>3

\* What the destination has mined; without a lost block it only grows.
Blocks == Seq([tx: SignerTxs \cup {NoTx}, ok: BOOLEAN])

Extends == /\ Len(mined) =< Len(mined') /\ \A n \in DOMAIN mined : mined'[n] = mined[n]
           /\ \A n \in DOMAIN mined : n < Len(mined) \/ depth = 2 => n < Len(mined') \/ depth' = 2

\* A block more.
LEMMA BlockAdded ==
  ASSUME mined \in Blocks, NEW b \in [tx: SignerTxs \cup {NoTx}, ok: BOOLEAN],
         mined' = Append(mined, b)
  PROVE  /\ mined' \in Blocks /\ Extends /\ Len(mined') = Len(mined) + 1
         /\ mined'[Len(mined) + 1] = b /\ DOMAIN mined' = DOMAIN mined \cup {Len(mined) + 1}
<1>1. /\ mined' \in Blocks /\ Len(mined') = Len(mined) + 1 /\ mined'[Len(mined) + 1] = b
      /\ \A n \in 1..Len(mined) : mined'[n] = mined[n]
  BY AppendProperties DEF Blocks
<1>2. /\ DOMAIN mined = 1..Len(mined) /\ Len(mined) \in Nat /\ DOMAIN mined' = 1..Len(mined')
  BY <1>1, LenProperties DEF Blocks
<1>3. DOMAIN mined' = DOMAIN mined \cup {Len(mined) + 1}
  BY <1>1, <1>2
<1> QED BY <1>1, <1>2, <1>3 DEF Extends

\* What a step of the chains may do to them; only the loss of a block takes back.
ChainsOK ==
    /\ ChainsTypeOK' /\ sent' = sent
    /\ "destReorg" \notin Faults =>
          Extends /\ Grows(reg, reg') /\ (NoncesInOrder => NoncesInOrder')

\* This holds of a step that leaves the signer's transactions alone.
LEMMA SideStep ==
  ASSUME ChainsTypeOK,
         source' \in [Txs -> [now: 0..MaxInclusions, last: 0..MaxInclusions]],
         attested' \subseteq Txs \X Inclusions, reg' \in Registry, Grows(reg, reg'),
         pool' \subseteq pool, UNCHANGED <<sent, mined, depth, undo>>
  PROVE  ChainsOK
<1>1. undo' = undo /\ sent' = sent /\ mined' = mined /\ depth' = depth
  OBVIOUS
<1>2. undo \in Registry
  BY DEF ChainsTypeOK, Registry
<1>3. ChainsTypeOK'
  BY <1>1, <1>2 DEF ChainsTypeOK, Registry
<1>4. Len(mined) \in Nat
  BY LenProperties DEF ChainsTypeOK
<1>5. Extends
  BY <1>1, <1>4 DEF Extends
<1>6. NoncesInOrder => NoncesInOrder'
  BY <1>1 DEF NoncesInOrder
<1> QED BY <1>1, <1>3, <1>5, <1>6 DEF ChainsOK

\* On the source.
LEMMA SourceSteps ==
  ASSUME ChainsTypeOK, NEW t \in Txs, Include(t) \/ Orphan(t) \/ Attest(t)
  PROVE  ChainsOK
<1> DEFINE S == [now: 0..MaxInclusions, last: 0..MaxInclusions]
<1>1. source \in [Txs -> S] /\ reg \in Registry /\ attested \subseteq Txs \X Inclusions
      /\ Grows(reg, reg) /\ MaxInclusions \in Nat
  BY ChainsConstants DEF ChainsTypeOK, Registry, Grows
<1>2. CASE Include(t)
  <2> DEFINE n == source[t].last + 1
  <2>1. n \in 0..MaxInclusions
    BY <1>1, <1>2 DEF Include
  <2>2. source' = [source EXCEPT ![t] = [now |-> n, last |-> n]]
    BY <1>2 DEF Include
  <2> HIDE DEF n
  <2>3. source' \in [Txs -> S]
    BY <1>1, <2>1, <2>2
  <2> QED BY <1>1, <1>2, <2>3, SideStep DEF Include
<1>3. CASE Orphan(t)
  <2>1. source' \in [Txs -> S]
    BY <1>1, <1>3 DEF Orphan
  <2> QED BY <1>1, <1>3, <2>1, SideStep DEF Orphan
<1>4. CASE Attest(t)
  <2>1. source[t].now \in Inclusions
    BY <1>1, <1>4 DEF Attest, Inclusions
  <2>2. attested' \subseteq Txs \X Inclusions
    BY <1>1, <1>4, <2>1 DEF Attest
  <2> QED BY <1>1, <1>4, <2>2, SideStep DEF Attest
<1> QED BY <1>2, <1>3, <1>4

\* Of others on the destination, and in its mempool.
LEMMA OutsiderSteps ==
  ASSUME ChainsTypeOK,
         \/ \E d \in Deals : OpenDeal(d)
         \/ \E t \in Txs, i \in Inclusions : OutsiderSubmits(t, i)
         \/ \E id \in AllIds : OutsiderApplies(id)
         \/ \E x \in pool : Drop(x)
  PROVE  ChainsOK
<1>1. /\ source \in [Txs -> [now: 0..MaxInclusions, last: 0..MaxInclusions]] /\ reg \in Registry
      /\ attested \subseteq Txs \X Inclusions /\ Grows(reg, reg)
  BY DEF ChainsTypeOK, Registry, Grows
<1>2. ASSUME NEW d \in Deals, OpenDeal(d) PROVE ChainsOK
  <2>1. reg' \in Registry /\ Grows(reg, reg')
    BY <1>1, <1>2 DEF OpenDeal, Registry, Grows, Statuses
  <2> QED BY <1>1, <1>2, <2>1, SideStep DEF OpenDeal
<1>3. ASSUME NEW t \in Txs, NEW i \in Inclusions, OutsiderSubmits(t, i) PROVE ChainsOK
  <2>1. reg' = AfterSubmitting(t, i, reg) \/ reg' = AfterRecording(t, i, reg)
    BY <1>3 DEF OutsiderSubmits
  <2>2. reg' \in Registry /\ Grows(reg, reg')
    BY <1>1, <2>1, RecordingType
  <2> QED BY <1>1, <1>3, <2>2, SideStep DEF OutsiderSubmits
<1>4. ASSUME NEW id \in AllIds, OutsiderApplies(id) PROVE ChainsOK
  <2> DEFINE ids == {id}
  <2>1. ids \in SUBSET AllIds /\ reg' = AfterApplying(ids, reg)
    BY <1>4 DEF OutsiderApplies
  <2> HIDE DEF ids
  <2>2. reg' \in Registry /\ Grows(reg, reg')
    BY <1>1, <2>1, ApplyingType
  <2> QED BY <1>1, <1>4, <2>2, SideStep DEF OutsiderApplies
<1>5. ASSUME NEW x \in pool, Drop(x) PROVE ChainsOK
  BY <1>1, <1>5, SideStep DEF Drop
<1> QED BY <1>2, <1>3, <1>4, <1>5

\* A transaction of the signer is mined, at its nonce.
LEMMA MineStep ==
  ASSUME ChainsTypeOK, NEW x \in pool, Mine(x)
  PROVE  ChainsOK
<1>1. /\ x \in SignerTxs /\ x.nonce = Len(mined) /\ reg \in Registry /\ mined \in Blocks
      /\ source' = source /\ attested' = attested /\ sent' = sent /\ undo' = reg /\ depth' = 0
      /\ pool' = pool \ {x} /\ (mined = <<>> \/ depth = 2)
  BY DEF ChainsTypeOK, Registry, Blocks, Mine, LatestNonce
<1>2. PICK ok \in {Succeeds(x)} \cup (IF "revert" \in Faults THEN {FALSE} ELSE {}) :
        /\ mined' = Append(mined, [tx |-> x, ok |-> ok])
        /\ reg' = IF ok THEN Effect(x) ELSE reg
  BY Zenon DEF Mine
<1>3. ok \in BOOLEAN /\ (ok => Succeeds(x))
  <2>1. Succeeds(x) \in BOOLEAN
    <3>1. CASE x.log = 0
      <4>1. Succeeds(x) = Recordable(x.tx, x.inc, reg)
        BY <3>1 DEF Succeeds
      <4>2. Recordable(x.tx, x.inc, reg) \in BOOLEAN
        BY Zenon DEF Recordable
      <4> QED BY <4>1, <4>2, Zenon
    <3>2. CASE x.log # 0
      <4> DEFINE id == [tx |-> x.tx, inc |-> x.inc, log |-> x.log]
      <4>1. Succeeds(x) = (id \in reg.recorded)
        BY <3>2 DEF Succeeds
      <4> HIDE DEF id
      <4>2. (id \in reg.recorded) \in BOOLEAN
        OBVIOUS
      <4> QED BY <4>1, <4>2, Zenon
    <3> QED BY <3>1, <3>2
  <2> QED BY <1>2, <2>1, Zenon
<1> DEFINE b == [tx |-> x, ok |-> ok]
<1>4. b \in [tx: SignerTxs \cup {NoTx}, ok: BOOLEAN] /\ b.tx = x
  BY <1>1, <1>3
<1>5. mined' = Append(mined, b)
  BY <1>2
<1> HIDE DEF b
<1>6. /\ mined' \in Blocks /\ Extends /\ Len(mined') = Len(mined) + 1 /\ mined'[Len(mined) + 1] = b
      /\ DOMAIN mined' = DOMAIN mined \cup {Len(mined) + 1}
  BY <1>1, <1>4, <1>5, BlockAdded
<1>7. reg' \in Registry /\ Grows(reg, reg')
  <2>1. CASE ok
    BY <1>1, <1>2, <1>3, <2>1, EffectType
  <2>2. CASE ~ok
    BY <1>1, <1>2, <2>2 DEF Grows
  <2> QED BY <2>1, <2>2
<1>8. ChainsTypeOK'
  BY <1>1, <1>6, <1>7 DEF ChainsTypeOK, Registry, Blocks
<1>9. NoncesInOrder => NoncesInOrder'
  <2>1. Len(mined) \in Nat
    BY <1>1, LenProperties DEF Blocks
  <2> QED BY <1>1, <1>4, <1>6, <2>1 DEF NoncesInOrder, Extends
<1> QED BY <1>1, <1>6, <1>7, <1>8, <1>9 DEF ChainsOK

\* The chain grows, or a nonce is used by somebody else.
LEMMA GrowingSteps ==
  ASSUME ChainsTypeOK, GrowChain \/ ForeignTransaction
  PROVE  ChainsOK
<1>1. reg \in Registry /\ mined \in Blocks /\ depth \in 0..2 /\ reg' = reg /\ sent' = sent
  BY DEF ChainsTypeOK, Registry, Blocks, GrowChain, ForeignTransaction
<1>2. Len(mined) \in Nat /\ Grows(reg, reg') /\ DOMAIN mined = 1..Len(mined)
  BY <1>1, LenProperties DEF Grows, Blocks
<1>3. CASE GrowChain
  <2>1. mined' = mined /\ depth' = depth + 1 /\ depth < 2
    BY <1>3 DEF GrowChain
  <2>2. ChainsTypeOK'
    BY <1>1, <1>3, <2>1 DEF ChainsTypeOK, GrowChain
  <2>3. Extends
    BY <1>1, <1>2, <2>1 DEF Extends
  <2>4. NoncesInOrder => NoncesInOrder'
    BY <2>1 DEF NoncesInOrder
  <2> QED BY <1>1, <1>2, <2>2, <2>3, <2>4 DEF ChainsOK
<1>4. CASE ForeignTransaction
  <2>1. PICK yes \in BOOLEAN : yes = TRUE
    OBVIOUS
  <2> DEFINE b == [tx |-> NoTx, ok |-> yes]
  <2>2. b \in [tx: SignerTxs \cup {NoTx}, ok: BOOLEAN] /\ b.tx = NoTx
    BY <2>1
  <2>3. mined' = Append(mined, b)
    BY <1>4, <2>1, Zenon DEF ForeignTransaction
  <2> HIDE DEF b
  <2>4. /\ mined' \in Blocks /\ Extends /\ Len(mined') = Len(mined) + 1
        /\ mined'[Len(mined) + 1] = b /\ DOMAIN mined' = DOMAIN mined \cup {Len(mined) + 1}
    BY <1>1, <2>2, <2>3, BlockAdded
  <2>5. ChainsTypeOK'
    BY <1>1, <1>4, <2>4 DEF ChainsTypeOK, ForeignTransaction, Blocks, Registry
  <2>6. NoncesInOrder => NoncesInOrder'
    BY <2>2, <2>4 DEF NoncesInOrder, Extends
  <2> QED BY <1>1, <1>2, <2>4, <2>5, <2>6 DEF ChainsOK
<1> QED BY <1>3, <1>4

\* The last block is replaced.
LEMMA DestReorgStep ==
  ASSUME ChainsTypeOK, DestReorg
  PROVE  ChainsOK
<1> DEFINE B == [tx: SignerTxs \cup {NoTx}, ok: BOOLEAN] x == Last(mined).tx
<1>1. /\ mined \in Seq(B) /\ mined # <<>> /\ mined' = Front(mined) /\ x # NoTx
      /\ reg' = undo /\ undo' = undo /\ depth' = 2 /\ pool' \in {pool, pool \cup {x}}
      /\ source' = source /\ attested' = attested /\ sent' = sent /\ "destReorg" \in Faults
  BY DEF ChainsTypeOK, DestReorg
<1>2. mined' \in Seq(B) /\ Last(mined) \in B
  <2> DEFINE n == Len(mined)
  <2> HIDE DEF B
  <2>1. n \in Nat /\ n # 0 /\ DOMAIN mined = 1..n
    BY <1>1, EmptySeq, LenProperties
  <2>2. \A i \in 1..n : mined[i] \in B
    BY <1>1, ElementOfSeq
  <2>3. Last(mined) = mined[n] /\ Front(mined) = SubSeq(mined, 1, n - 1)
    BY DEF Last, Front
  <2> HIDE DEF n
  <2> DEFINE m == n - 1
  <2>4. m \in Int /\ \A i \in 1..m : mined[i] \in B
    BY <2>1, <2>2
  <2> HIDE DEF m
  <2>5. SubSeq(mined, 1, m) \in Seq(B)
    BY <2>4, SubSeqProperties
  <2> QED BY <1>1, <2>1, <2>2, <2>3, <2>5 DEF m
<1>3. x \in SignerTxs
  BY <1>1, <1>2
<1>4. ChainsTypeOK'
  BY <1>1, <1>2, <1>3 DEF ChainsTypeOK
<1> QED BY <1>1, <1>4 DEF ChainsOK

\* It holds of every step of the chains.
LEMMA ChainsStepOK ==
  ASSUME ChainsTypeOK, ChainsStep
  PROVE  ChainsOK
BY SourceSteps, OutsiderSteps, MineStep, GrowingSteps, DestReorgStep DEF ChainsStep

-----------------------------------------------------------------------------
(* All steps. *)

\* The bytes of an envelope reach the network.
BroadcastOK ==
    /\ StepOK /\ UNCHANGED <<source, attested, reg, mined, depth, undo, tasks, alarms>>
    /\ \E x \in Envelopes \cap SignerTxs : sent' = sent \cup {x} /\ pool' \in {pool, pool \cup {x}}

\* What a step is: of the chains, of the process, of time or of the operator.
AnyStep ==
    \/ ChainsStep /\ UNCHANGED workerVars
    \/ UNCHANGED vars
    \/ StepOK /\ UNCHANGED chainVars
    \/ BroadcastOK
    \/ SigningOK /\ UNCHANGED chainVars
    \/ \E t \in Txs : ResumingOK(t) /\ UNCHANGED chainVars

\* There are no others.
LEMMA NextIsAnyStep ==
  ASSUME WorkInv, [Next]_vars
  PROVE  AnyStep
<1> DEFINE Quiet == StepOK /\ UNCHANGED chainVars
<1>1. ASSUME NEW t \in Txs, ProcessTask(t) \/ CheckInclusion(t) PROVE Quiet
  BY <1>1, ProcessTaskStep, CheckInclusionStep DEF ProcessTask, CheckInclusion
<1>2. ASSUME NEW id \in AllIds, ReadSeen(id) PROVE Quiet
  BY <1>2, ReadSeenStep DEF ReadSeen
<1>3. ASSUME NEW c \in Txs \X Inclusions, IngestReceipt(c) PROVE Quiet
  BY <1>3, IngestReceiptStep DEF IngestReceipt
<1>4. ASSUME ReconcileSemantic \/ CheckAttested \/ Prove \/ AlreadyRecorded PROVE Quiet
  <2>1. UNCHANGED chainVars
    BY <1>4 DEF ReconcileSemantic, CheckAttested, Prove, AlreadyRecorded
  <2>2. StepOK
    BY <1>4, ReconcileSemanticStep, CheckAttestedStep, ProveStep, AlreadyRecordedStep
  <2> QED BY <2>1, <2>2
<1>5. ASSUME AttemptApplication \/ SimulationFails \/ ReadReceipt \/ ReadHead PROVE Quiet
  <2>1. UNCHANGED chainVars
    BY <1>5 DEF AttemptApplication, SimulationFails, ReadReceipt, ReadHead
  <2>2. StepOK
    BY <1>5, AttemptApplicationStep, SimulationFailsStep, ReadReceiptStep, ReadHeadStep
  <2> QED BY <2>1, <2>2
<1>6. ASSUME ReconcileEnvelopeSemantic \/ TooSoon \/ WindowOver \/ Resend PROVE Quiet
  <2>1. UNCHANGED chainVars
    BY <1>6 DEF ReconcileEnvelopeSemantic, TooSoon, WindowOver, Resend
  <2>2. StepOK
    BY <1>6, ReconcileEnvelopeSemanticStep, TooSoonStep, WindowOverStep, ResendStep
  <2> QED BY <2>1, <2>2
<1>7. ASSUME FinalizeEnvelope \/ RaiseIncident \/ FindLogs \/ ReadFails PROVE Quiet
  <2>1. UNCHANGED chainVars
    BY <1>7 DEF FinalizeEnvelope, RaiseIncident, FindLogs, ReadFails
  <2>2. StepOK
    BY <1>7, FinalizeEnvelopeStep, RaiseIncidentStep, FindLogsStep, ReadFailsStep
  <2> QED BY <2>1, <2>2
<1>8. CASE Broadcast
  BY <1>8, BroadcastStep DEF BroadcastOK, AnyStep
<1>9. CASE PersistSignedEnvelope
  BY <1>9, PersistSignedEnvelopeStep DEF PersistSignedEnvelope, AnyStep
<1>10. ASSUME StartScan \/ StartTick \/ Crash \/ Restart PROVE Quiet
  <2>1. UNCHANGED chainVars
    BY <1>10 DEF StartScan, StartTick, Crash, Restart
  <2>2. StepOK
    BY <1>10, StartScanStep, StartTickStep, CrashStep
  <2> QED BY <2>1, <2>2
<1>11. ASSUME NEW t \in Txs, Expire(t) \/ Advance(t) \/ ResumeBroadcast(t) PROVE Quiet
  BY <1>11, ExpireStep, AdvanceStep, ResumeBroadcastStep DEF Expire, Advance, ResumeBroadcast
<1>12. ASSUME NEW t \in Txs, Resume(t) PROVE ResumingOK(t) /\ UNCHANGED chainVars
  BY <1>12, ResumeStep DEF Resume
<1>13. Quiet => AnyStep
  BY DEF AnyStep
<1> HIDE DEF Quiet
<1>14. CASE Step
  BY <1>14, <1>1, <1>2, <1>3, <1>4, <1>5, <1>6, <1>7, <1>8, <1>9, <1>13 DEF Step, Quiet
<1>15. CASE Operator
  BY <1>15, <1>11, <1>12, <1>13 DEF Operator, AnyStep
<1>16. CASE ChainsStep /\ UNCHANGED workerVars
  BY <1>16 DEF AnyStep
<1>17. CASE UNCHANGED vars
  BY <1>17 DEF AnyStep
<1> QED BY <1>10, <1>11, <1>13, <1>14, <1>15, <1>16, <1>17 DEF Next, Quiet

\* What is raised is one of the known reasons.
LEMMA AlarmsKept ==
  ASSUME alarms \subseteq Alarms, [Next]_vars
  PROVE  alarms' \subseteq Alarms
<1>1. \/ alarms' = alarms \/ alarms' = alarms \cup {"MIXED"} \/ alarms' = alarms \cup {"NONCE"}
      \/ alarms' = alarms \cup {"SOURCE_RECEIPT"} \/ alarms' = alarms \cup {"SOURCE_ADMISSION"}
  <2>1. CASE Step
    <3>1. ASSUME NEW t \in Txs, ProcessTask(t) \/ CheckInclusion(t) PROVE alarms' = alarms
      BY <3>1 DEF ProcessTask, CheckInclusion
    <3>2. ASSUME NEW id \in AllIds, ReadSeen(id) PROVE alarms' = alarms
      BY <3>2 DEF ReadSeen
    <3>3. ASSUME NEW c \in Txs \X Inclusions, IngestReceipt(c)
          PROVE  \/ alarms' = alarms \/ alarms' = alarms \cup {"SOURCE_RECEIPT"}
                 \/ alarms' = alarms \cup {"SOURCE_ADMISSION"}
      BY <3>3 DEF IngestReceipt
    <3>4. CASE ReconcileSemantic \/ AlreadyRecorded
      BY <3>4 DEF ReconcileSemantic, AlreadyRecorded
    <3>5. CASE CheckAttested \/ Prove \/ AttemptApplication \/ SimulationFails \/ ReadReceipt \/ ReadHead
      BY <3>5 DEF CheckAttested, Prove, AttemptApplication, SimulationFails, ReadReceipt, ReadHead
    <3>6. CASE PersistSignedEnvelope \/ ReconcileEnvelopeSemantic \/ Resend
      BY <3>6 DEF PersistSignedEnvelope, ReconcileEnvelopeSemantic, Resend
    <3>7. CASE TooSoon \/ WindowOver \/ Broadcast \/ RaiseIncident \/ FindLogs \/ ReadFails
      BY <3>7 DEF TooSoon, WindowOver, Broadcast, RaiseIncident, FindLogs, ReadFails
    <3>8. CASE FinalizeEnvelope
      BY <3>8 DEF FinalizeEnvelope
    <3> QED BY <2>1, <3>1, <3>2, <3>3, <3>4, <3>5, <3>6, <3>7, <3>8 DEF Step
  <2>2. CASE \/ ChainsStep /\ UNCHANGED workerVars
             \/ StartScan \/ StartTick \/ Crash \/ Restart
             \/ \E t \in Txs : Expire(t)
             \/ Operator \/ UNCHANGED vars
    BY <2>2 DEF StartScan, StartTick, Crash, Restart, Expire, Operator, Advance, Resume,
                ResumeBroadcast, workerVars, vars
  <2> QED BY <2>1, <2>2 DEF Next
<1> QED BY <1>1 DEF Alarms

\* Sound files make sound files.
LEMMA FaithfulTasks ==
  ASSUME TasksOK, Faithful
  PROVE  TasksOK'
BY DEF TasksOK, Faithful, Rewrites

\* The file of a signature that is out, before and after a faithful write.
LEMMA FaithfulEnvelopes ==
  ASSUME TasksOK, Faithful
  PROVE  /\ Envelopes' \subseteq Envelopes
         /\ \A x \in Envelopes : x \in Envelopes' \/ (x.tx \in Txs /\ x.nonce \in tasks'[x.tx].nonces)
         /\ \A t \in Txs : tasks[t].nonces \subseteq tasks'[t].nonces
<1>1. \A t \in Txs : TaskOK(tasks[t], t)
  BY DEF TasksOK
<1>2. ASSUME NEW t \in Txs
      PROVE  /\ tasks[t].nonces \subseteq tasks'[t].nonces
             /\ \/ tasks'[t].inFlight.signed = tasks[t].inFlight.signed
                \/ /\ tasks'[t].inFlight.signed = NoTx
                   /\ tasks[t].inFlight.signed.nonce \in tasks'[t].nonces
                   /\ tasks[t].inFlight.signed.tx = t
  <2>1. CASE tasks'[t] = tasks[t]
    BY <2>1
  <2>2. CASE Rewrites(t, tasks'[t])
    BY <1>1, <2>2, TaskParts DEF Rewrites, Keeps, HasEnvelope
  <2> QED BY <2>1, <2>2 DEF Faithful
<1>3. Envelopes' \subseteq Envelopes
  BY <1>2 DEF Envelopes
<1>4. ASSUME NEW x \in Envelopes
      PROVE  x \in Envelopes' \/ (x.tx \in Txs /\ x.nonce \in tasks'[x.tx].nonces)
  <2>1. PICK t \in Txs : x = tasks[t].inFlight.signed /\ x # NoTx
    BY DEF Envelopes
  <2> QED BY <1>2, <2>1 DEF Envelopes
<1> QED BY <1>2, <1>3, <1>4

-----------------------------------------------------------------------------
(* What holds whatever fails. *)

\* Nothing is out when the worker starts.
LEMMA InitWork ==
  ASSUME Init
  PROVE  WorkInv
<1>1. /\ source = [t \in Txs |-> [now |-> 0, last |-> 0]] /\ attested = {}
      /\ reg = [recorded |-> {}, decided |-> {}, status |-> [d \in Deals |-> "NONE"]]
      /\ undo = reg /\ pool = {} /\ sent = {} /\ mined = <<>> /\ depth = 2
      /\ tasks = [t \in Txs |-> NoTask] /\ alarms = {} /\ proc = Idle
  BY DEF Init, ChainsInit
<1>2. ChainsTypeOK
  <2>1. source \in [Txs -> [now: 0..MaxInclusions, last: 0..MaxInclusions]]
    BY <1>1, ChainsConstants
  <2>2. reg \in [recorded: SUBSET AllIds, decided: SUBSET AllIds, status: [Deals -> Statuses]]
    BY <1>1 DEF Statuses
  <2>3. mined \in Seq([tx: SignerTxs \cup {NoTx}, ok: BOOLEAN])
    BY <1>1, EmptySeq
  <2> QED BY <1>1, <2>1, <2>2, <2>3 DEF ChainsTypeOK
<1>3. TasksOK
  <2>1. \A t \in Txs : tasks[t] = NoTask
    BY <1>1
  <2>2. \A t \in Txs : TaskOK(tasks[t], t) /\ NoTask \in Task
    BY <2>1, NoTaskOK DEF TaskOK
  <2>3. tasks \in [Txs -> Task]
    BY <1>1, <2>2
  <2> QED BY <2>2, <2>3 DEF TasksOK
<1>4. ProcOK
  <2> DEFINE z == {} a == "Idle"
  <2>1. proc = MadeProc(a, Nobody, z, z, 0, FALSE, FALSE, z)
    BY <1>1 DEF Idle, MadeProc
  <2>2. a \in Resting /\ a \notin Working /\ a \notin Carrying
        /\ a \notin {"Incident", "Apply", "Prove", "Sign"}
    BY DEF Resting, Working, Carrying
  <2>3. z \in SUBSET (AllIds \cup (Txs \X Inclusions)) /\ z \in SUBSET AllIds /\ z \in SUBSET Txs
        /\ \A t \in z : FALSE
    OBVIOUS
  <2> HIDE DEF z, a
  <2>4. Fits(tasks, a, Nobody, 0, FALSE, z)
    BY <2>2, <2>3 DEF Fits
  <2>5. proc.at = a /\ proc.task = Nobody /\ proc.log = 0 /\ proc.guarded = FALSE /\ proc.todo = z
    BY <2>1 DEF MadeProc
  <2>6. proc \in Procs
    BY <2>1, <2>2, <2>3 DEF MadeProc, Procs
  <2> QED BY <2>4, <2>5, <2>6 DEF ProcOK
<1>5. OutstandingIsPersisted
  BY <1>1 DEF OutstandingIsPersisted
<1> QED BY <1>1, <1>2, <1>3, <1>4, <1>5 DEF WorkInv

\* A signature that is written leaves the other files as they were.
LEMMA SigningTasks ==
  ASSUME TasksOK, NEW t \in Txs, NEW x \in SignerTxs, Signs(t, x), Lane = {}
  PROVE  /\ TasksOK' /\ Envelopes = {} /\ Envelopes' = {x}
         /\ \A u \in Txs : tasks'[u].nonces = tasks[u].nonces
<1>1. \A u \in Txs : tasks[u].inFlight.signed = NoTx
  BY DEF Lane, HasEnvelope
<1>2. \A u \in Txs : tasks'[u].inFlight.signed = IF u = t THEN x ELSE NoTx
  BY <1>1 DEF Signs
<1>3. x # NoTx
  BY SignerTxType
<1>4. TasksOK'
  BY DEF TasksOK, Signs
<1>5. \A u \in Txs : tasks'[u].nonces = tasks[u].nonces
  BY DEF Signs
<1> QED BY <1>1, <1>2, <1>3, <1>4, <1>5 DEF Envelopes

\* The invariant is inductive.
LEMMA WorkStep ==
  ASSUME WorkInv, [Next]_vars
  PROVE  WorkInv'
<1>0. /\ ChainsTypeOK /\ TasksOK /\ alarms \subseteq Alarms /\ ProcOK /\ OutstandingIsPersisted
      /\ \A x \in sent : x \in SignerTxs
  BY DEF WorkInv, ChainsTypeOK
<1>1. alarms' \subseteq Alarms
  BY <1>0, AlarmsKept
<1>2. \A x \in sent : x.tx \in Txs
  BY <1>0, SignerTxType
<1>3. ASSUME Faithful, \A x \in sent' : x \in sent \/ x \in Envelopes
      PROVE  TasksOK' /\ OutstandingIsPersisted'
  <2>1. TasksOK'
    BY <1>0, <1>3, FaithfulTasks
  <2>2. /\ \A x \in Envelopes : x \in Envelopes' \/ (x.tx \in Txs /\ x.nonce \in tasks'[x.tx].nonces)
        /\ \A t \in Txs : tasks[t].nonces \subseteq tasks'[t].nonces
    BY <1>0, <1>3, FaithfulEnvelopes
  <2> QED BY <1>0, <1>2, <1>3, <2>1, <2>2 DEF OutstandingIsPersisted
<1>4. CASE ChainsStep /\ UNCHANGED workerVars
  <2>1. ChainsTypeOK' /\ sent' = sent
    BY <1>0, <1>4, ChainsStepOK DEF ChainsOK
  <2>2. tasks' = tasks /\ proc' = proc
    BY <1>4 DEF workerVars
  <2>3. TasksOK' /\ ProcOK'
    BY <1>0, <2>2 DEF TasksOK, ProcOK
  <2>4. OutstandingIsPersisted'
    BY <1>0, <2>1, <2>2 DEF OutstandingIsPersisted, Envelopes
  <2> QED BY <1>1, <2>1, <2>3, <2>4 DEF WorkInv
<1>5. CASE UNCHANGED vars
  BY <1>5 DEF WorkInv, vars, chainVars, workerVars, ChainsTypeOK, TasksOK, ProcOK,
              OutstandingIsPersisted, Envelopes
<1>6. CASE StepOK /\ UNCHANGED chainVars
  <2>1. ChainsTypeOK' /\ sent' = sent
    BY <1>0, <1>6 DEF ChainsTypeOK, chainVars
  <2>2. Faithful /\ ProcOK'
    BY <1>6 DEF StepOK
  <2> QED BY <1>1, <1>3, <2>1, <2>2 DEF WorkInv
<1>7. CASE BroadcastOK
  <2>1. PICK x \in Envelopes \cap SignerTxs : sent' = sent \cup {x} /\ pool' \in {pool, pool \cup {x}}
    BY <1>7 DEF BroadcastOK
  <2>2. ChainsTypeOK'
    BY <1>0, <1>7, <2>1 DEF ChainsTypeOK, BroadcastOK
  <2>3. Faithful /\ ProcOK'
    BY <1>7 DEF BroadcastOK, StepOK
  <2>4. TasksOK' /\ OutstandingIsPersisted'
    BY <1>3, <2>1, <2>3
  <2> QED BY <1>1, <2>2, <2>3, <2>4 DEF WorkInv
<1>8. CASE SigningOK /\ UNCHANGED chainVars
  <2>1. ChainsTypeOK' /\ sent' = sent /\ ProcOK'
    BY <1>0, <1>8 DEF ChainsTypeOK, chainVars, SigningOK
  <2>2. PICK t \in Txs, x \in SignerTxs : Signs(t, x)
    BY <1>8 DEF SigningOK
  <2>3. TasksOK' /\ Envelopes = {} /\ \A u \in Txs : tasks'[u].nonces = tasks[u].nonces
    BY <1>0, <1>8, <2>2, SigningTasks DEF SigningOK
  <2>4. OutstandingIsPersisted'
    BY <1>0, <1>2, <2>1, <2>3 DEF OutstandingIsPersisted
  <2> QED BY <1>1, <2>1, <2>3, <2>4 DEF WorkInv
<1>9. ASSUME NEW t \in Txs, ResumingOK(t), UNCHANGED chainVars PROVE WorkInv'
  <2>1. ChainsTypeOK' /\ sent' = sent /\ ProcOK'
    BY <1>0, <1>9 DEF ChainsTypeOK, chainVars, ResumingOK
  <2>2. TasksOK'
    BY <1>0, <1>9 DEF TasksOK, ResumingOK
  <2>3. \A u \in Txs : tasks'[u].inFlight = tasks[u].inFlight /\ tasks'[u].nonces = tasks[u].nonces
    BY <1>9 DEF ResumingOK
  <2>4. OutstandingIsPersisted'
    BY <1>0, <1>2, <2>1, <2>3 DEF OutstandingIsPersisted, Envelopes
  <2> QED BY <1>1, <2>1, <2>2, <2>4 DEF WorkInv
<1>10. AnyStep
  BY NextIsAnyStep
<1> QED BY <1>4, <1>5, <1>6, <1>7, <1>8, <1>9, <1>10 DEF AnyStep

\* The place of the process agrees with the task files, through every crash, failed
\* read and command; and the bytes of every signature are where they will be found.
THEOREM WorkInvariant == Spec => []WorkInv
<1>1. Init => WorkInv
  BY InitWork
<1>2. WorkInv /\ [Next]_vars => WorkInv'
  BY WorkStep
<1> QED BY <1>1, <1>2, PTL DEF Spec

\* What was ever broadcast is still in its envelope, or in the history of its task
\* (persistSignedEnvelope writes before broadcastExact, and only finalizeEnvelope
\* removes): no crash between the two, no failed read, no incident on either chain
\* and no command of the operator loses the exact bytes.
THEOREM SignaturesArePersisted == Spec => []OutstandingIsPersisted
<1>1. WorkInv => OutstandingIsPersisted
  BY DEF WorkInv
<1> QED BY <1>1, WorkInvariant, PTL

\* Backed automation, with the types.
LEMMA WorkIsBacked ==
  ASSUME WorkInv
  PROVE  AutomationIsBacked
<1>1. ChainsTypeOK /\ TasksOK /\ ProcOK /\ alarms \subseteq Alarms
  BY DEF WorkInv
<1>2. tasks \in [Txs -> Task] /\ proc.task \in Txs \cup {Nobody}
  BY <1>1, ProcParts DEF TasksOK
<1>3. ASSUME NEW t \in Txs, tasks[t].inc # 0
      PROVE  /\ Len(tasks[t].events) = Len(Logs[t])
             /\ \A k \in DOMAIN Logs[t] :
                  /\ tasks[t].events[k].automation = "APPLICATION_IN_FLIGHT" =>
                        IsInFlight(tasks[t], [tx |-> t, inc |-> tasks[t].inc, log |-> k])
                  /\ tasks[t].events[k].automation = "READY_TO_APPLY" =>
                        tasks[t].events[k].epoch # "NONE"
  <2>1. TaskOK(tasks[t], t)
    BY <1>1 DEF TasksOK
  <2>2. /\ tasks[t].events \in [EventLogs(tasks[t].inc, t) -> Evidence]
        /\ DOMAIN tasks[t].events = DOMAIN Logs[t]
        /\ EventsBacked(tasks[t].events, tasks[t].inFlight.signed, tasks[t].inc, t)
    BY <1>3, <2>1, TaskParts
  <2>3. Len(tasks[t].events) = Len(Logs[t])
    BY <1>3, <2>2, EventsAreSeq
  <2> QED BY <2>2, <2>3 DEF EventsBacked, EventBacked, IsInFlight, HasEnvelope
<1> QED BY <1>1, <1>2, <1>3 DEF AutomationIsBacked, TypeOK, Alarms

\* What automation says of a fact is backed (the envelope that carries it, or an
\* epoch that bounds its attempts), though processTask, reconcileSemantic, the scan
\* and finalizeEnvelope write the two at different times and crash in between.
THEOREM AutomationBacked == Spec => []AutomationIsBacked
<1>1. WorkInv => AutomationIsBacked
  BY WorkIsBacked
<1> QED BY <1>1, WorkInvariant, PTL

\* A step that signs finds every nonce that was ever signed in the history, and
\* below its own.
LEMMA SigningIsFresh ==
  ASSUME WorkInv, [Next]_vars, NEW x \in Envelopes' \ Envelopes
  PROVE  /\ \A y \in sent \cup Envelopes : y.nonce # x.nonce
         /\ Envelopes' = {x}
<1>1. TasksOK /\ OutstandingIsPersisted /\ (\A y \in sent : y.tx \in Txs)
  <2>1. \A y \in sent : y \in SignerTxs
    BY DEF WorkInv, ChainsTypeOK
  <2> QED BY <2>1, SignerTxType DEF WorkInv
<1>2. ~Faithful
  BY <1>1, FaithfulEnvelopes
<1>3. ~(tasks' = tasks)
  BY DEF Envelopes
<1>4. \A t \in Txs : ~ResumingOK(t)
  <2>1. ASSUME NEW t \in Txs, ResumingOK(t) PROVE Envelopes' = Envelopes
    <3>1. \A u \in Txs : tasks'[u].inFlight = tasks[u].inFlight
      BY <2>1 DEF ResumingOK
    <3> QED BY <3>1 DEF Envelopes
  <2> QED BY <2>1
<1>5. SigningOK
  BY <1>2, <1>3, <1>4, NextIsAnyStep DEF AnyStep, StepOK, BroadcastOK, workerVars, vars
<1>6. PICK t \in Txs, z \in SignerTxs : z.nonce = ExpectedNextNonce /\ Signs(t, z) /\ Lane = {}
  BY <1>5 DEF SigningOK
<1>7. Envelopes = {} /\ Envelopes' = {z}
  BY <1>1, <1>6, SigningTasks
<1>8. x = z
  BY <1>7
<1>9. ASSUME NEW y \in sent PROVE y.nonce # x.nonce
  <2>1. y.nonce \in tasks[y.tx].nonces
    BY <1>1, <1>7 DEF OutstandingIsPersisted
  <2>2. y.nonce \in ConfirmedNonces
    BY <1>1, <2>1 DEF ConfirmedNonces
  <2>3. ConfirmedNonces \subseteq Nat
    BY <1>1, NoncesBelow
  <2>4. y.nonce < ExpectedNextNonce /\ y.nonce \in Nat /\ ExpectedNextNonce \in Nat
    BY <1>1, <2>2, <2>3, NoncesBelow
  <2> QED BY <1>6, <1>8, <2>4
<1> QED BY <1>7, <1>8, <1>9

\* A nonce is spent on one signature only (requireLaneAvailable and the expected
\* nonce of persistSignedEnvelope): whatever was broadcast or is in an envelope has
\* another, after any crash, lost broadcast, late read, reorganization or command.
THEOREM NoncesSpentOnce == Spec => NonceSpentOnce
<1> DEFINE Once == \A x \in Envelopes' \ Envelopes :
                      /\ \A y \in sent \cup Envelopes : y.nonce # x.nonce
                      /\ \A y \in Envelopes' : y.nonce = x.nonce => y = x
<1>1. ASSUME WorkInv, [Next]_vars PROVE Once
  <2> SUFFICES ASSUME NEW x \in Envelopes' \ Envelopes
               PROVE  /\ \A y \in sent \cup Envelopes : y.nonce # x.nonce
                      /\ \A y \in Envelopes' : y.nonce = x.nonce => y = x
    OBVIOUS
  <2>1. (\A y \in sent \cup Envelopes : y.nonce # x.nonce) /\ Envelopes' = {x}
    BY <1>1, SigningIsFresh
  <2> QED BY <2>1
<1>2. NonceSpentOnce <=> [][Once]_vars
  BY DEF NonceSpentOnce
<1> HIDE DEF Once
<1>3. WorkInv /\ [Next]_vars => [Once]_vars
  BY <1>1
<1>4. Spec => [][Once]_vars
  BY <1>3, WorkInvariant, PTL DEF Spec
<1> QED BY <1>2, <1>4

\* Deadlines, of one task.
LEMMA DeadlineHolds ==
  ASSUME WorkInv, [Next]_vars, NEW t \in Txs
  PROVE  WindowHolds(t) /\ EpochsHold(t)
<1>1. CASE tasks'[t] = tasks[t]
  BY <1>1 DEF WindowHolds, EpochsHold
<1>2. CASE Holds(tasks[t], tasks'[t])
  BY <1>2 DEF Holds, WindowHolds, EpochsHold
<1>3. CASE Faithful
  BY <1>1, <1>2, <1>3 DEF Faithful, Rewrites
<1>4. CASE SigningOK
  <2>1. PICK u \in Txs, x \in SignerTxs : Signs(u, x)
    BY <1>4 DEF SigningOK
  <2> QED BY <1>1, <1>2, <2>1 DEF Signs
<1>5. ASSUME NEW u \in Txs, ResumingOK(u) PROVE WindowHolds(t) /\ EpochsHold(t)
  <2>1. CASE t = u
    BY <1>5, <2>1 DEF ResumingOK, WindowHolds, EpochsHold
  <2>2. CASE t # u
    BY <1>1, <1>5, <2>2 DEF ResumingOK
  <2> QED BY <2>1, <2>2
<1>6. tasks' = tasks => tasks'[t] = tasks[t]
  OBVIOUS
<1> QED BY <1>1, <1>3, <1>4, <1>5, <1>6, NextIsAnyStep DEF AnyStep, StepOK, BroadcastOK, workerVars, vars

\* No deadline that is over begins again by itself: not the six hours of an envelope,
\* whose window a rebroadcast only opens, nor those of an epoch, which a retry, a new
\* reading of the fact or a crash leaves as it is (scheduleRetry, ensureEpoch).
THEOREM DeadlinesAreHeld == Spec => DeadlinesHold
<1> DEFINE Held == \A t \in Txs : WindowHolds(t) /\ EpochsHold(t)
<1>1. ASSUME WorkInv, [Next]_vars PROVE Held
  BY <1>1, DeadlineHolds
<1>2. DeadlinesHold <=> [][Held]_vars
  BY DEF DeadlinesHold
<1> HIDE DEF Held
<1>3. WorkInv /\ [Next]_vars => [Held]_vars
  BY <1>1
<1>4. Spec => [][Held]_vars
  BY <1>3, WorkInvariant, PTL DEF Spec
<1> QED BY <1>2, <1>4

-----------------------------------------------------------------------------
(* What holds while the destination keeps the blocks it has shown. *)

\* What was so of the destination stays so.
LEMMA DestinationKeeps ==
  ASSUME mined \in Blocks, mined' \in Blocks, Extends, Grows(reg, reg')
  PROVE  /\ \A x : (Mined(x) => Mined(x)') /\ (Confirmed(x) => Confirmed(x)')
         /\ Len(mined) \in Nat /\ Len(mined') \in Nat /\ Len(mined) =< Len(mined')
         /\ DOMAIN mined \subseteq DOMAIN mined'
<1>1. /\ Len(mined) \in Nat /\ Len(mined') \in Nat
      /\ DOMAIN mined = 1..Len(mined) /\ DOMAIN mined' = 1..Len(mined')
  BY LenProperties DEF Blocks
<1>2. Len(mined) =< Len(mined') /\ DOMAIN mined \subseteq DOMAIN mined'
  BY <1>1 DEF Extends
<1>3. ASSUME NEW x, Mined(x) PROVE Mined(x)'
  BY <1>2, <1>3 DEF Mined, Extends
<1>4. ASSUME NEW x, Confirmed(x) PROVE Confirmed(x)'
  <2>1. PICK n \in DOMAIN mined : mined[n].tx = x /\ (n < Len(mined) \/ depth = 2)
    BY <1>4 DEF Confirmed
  <2>2. n \in DOMAIN mined' /\ mined'[n].tx = x /\ (n < Len(mined') \/ depth' = 2)
    BY <1>2, <2>1 DEF Extends
  <2> QED BY <2>2 DEF Confirmed
<1> QED BY <1>1, <1>2, <1>3, <1>4

\* A nonce that is history: its own transaction is under two blocks.
Final(t, n) == n < LatestNonce /\ mined[n + 1].tx.tx = t /\ Confirmed(mined[n + 1].tx)

\* Nothing is history when the worker starts.
LEMMA InitFinal ==
  ASSUME Init
  PROVE  FinalInv
<1>1. mined = <<>> /\ proc.at = "Idle" /\ proc.found = {}
  BY DEF Init, ChainsInit, Idle
<1>2. NoncesInOrder /\ PlaceOK
  BY <1>1 DEF NoncesInOrder, PlaceOK
<1>3. \A t \in Txs : tasks[t].nonces = {} /\ tasks[t].inc = 0
  BY DEF Init, NoTask
<1> QED BY <1>2, <1>3 DEF FinalInv, ReleasedOnlyWhenFinal, Believed

\* The nonce of a confirmed transaction is its place on the chain.
LEMMA ConfirmedIsFinal ==
  ASSUME mined \in Blocks, NoncesInOrder, NEW x \in SignerTxs, Confirmed(x)
  PROVE  Final(x.tx, x.nonce)
<1>1. PICK n \in DOMAIN mined : mined[n].tx = x /\ (n < Len(mined) \/ depth = 2)
  BY DEF Confirmed
<1>2. DOMAIN mined = 1..Len(mined) /\ Len(mined) \in Nat
  BY LenProperties DEF Blocks
<1>3. x.nonce \in Nat /\ x # NoTx
  BY SignerTxType, ChainsConstants DEF NoTx
<1>4. x.nonce = n - 1
  BY <1>1, <1>3 DEF NoncesInOrder
<1>5. n = x.nonce + 1 /\ x.nonce < Len(mined)
  BY <1>1, <1>2, <1>3, <1>4
<1> QED BY <1>1, <1>5 DEF Final, LatestNonce

\* What a write of the process makes of an envelope: the same, or history.
LEMMA WriteReleases ==
  ASSUME WorkInv, PlaceOK, Faithful, NEW t \in Txs
  PROVE  \/ /\ tasks'[t].inFlight.signed = tasks[t].inFlight.signed
            /\ tasks'[t].nonces = tasks[t].nonces
         \/ \E x \in SignerTxs :
               /\ x = tasks[t].inFlight.signed /\ x.tx = t /\ Confirmed(x)
               /\ tasks'[t].nonces = tasks[t].nonces \cup {x.nonce}
<1>1. CASE tasks'[t] = tasks[t]
  BY <1>1
<1>2. CASE Rewrites(t, tasks'[t])
  <2>1. CASE Releases(t) /\ tasks'[t].nonces = tasks[t].nonces \cup {tasks[t].inFlight.signed.nonce}
    <3>1. proc.at = "Finalize" /\ proc.task = t /\ proc.at \in Carrying
      BY <2>1 DEF Releases, Carrying
    <3>2. Signed = tasks[t].inFlight.signed /\ Signed \in SignerTxs /\ Signed.tx = t
      BY <3>1, AtEnvelope
    <3>3. Confirmed(Signed)
      BY <3>1 DEF PlaceOK
    <3> QED BY <2>1, <3>2, <3>3
  <2> QED BY <1>2, <2>1 DEF Rewrites, Keeps
<1> QED BY <1>1, <1>2 DEF Faithful

\* So history grows by what is final.
LEMMA WriteIsFinal ==
  ASSUME WorkInv, NoncesInOrder, PlaceOK, ReleasedOnlyWhenFinal, Faithful, UNCHANGED <<mined, depth>>
  PROVE  ReleasedOnlyWhenFinal'
<1>1. mined \in Blocks
  BY DEF WorkInv, ChainsTypeOK, Blocks
<1>2. ASSUME NEW t \in Txs, NEW n \in tasks'[t].nonces PROVE Final(t, n)
  <2>1. CASE n \in tasks[t].nonces
    BY <2>1 DEF ReleasedOnlyWhenFinal, Final
  <2>2. CASE n \notin tasks[t].nonces
    <3>1. PICK x \in SignerTxs : x.tx = t /\ Confirmed(x) /\ n = x.nonce
      BY <1>2, <2>2, WriteReleases
    <3> QED BY <1>1, <3>1, ConfirmedIsFinal
  <2> QED BY <2>1, <2>2
<1> QED BY <1>2 DEF ReleasedOnlyWhenFinal, Final, LatestNonce, Confirmed

\* And stays so, while blocks are only added.
LEMMA HistoryKeeps ==
  ASSUME mined \in Blocks, mined' \in Blocks, Extends, Grows(reg, reg'), TasksOK,
         ReleasedOnlyWhenFinal, UNCHANGED tasks
  PROVE  ReleasedOnlyWhenFinal'
<1> SUFFICES ASSUME NEW t \in Txs, NEW n \in tasks[t].nonces PROVE Final(t, n)'
  BY DEF ReleasedOnlyWhenFinal, Final
<1>1. n \in Nat
  <2>1. tasks[t].nonces \subseteq 0..MaxNonce
    BY TaskParts DEF TasksOK
  <2> QED BY <2>1, ChainsConstants
<1>2. PICK x : x = mined[n + 1].tx /\ x.tx = t /\ Confirmed(x) /\ n < Len(mined)
  BY DEF ReleasedOnlyWhenFinal, LatestNonce
<1>3. Confirmed(x)' /\ Len(mined) =< Len(mined') /\ Len(mined) \in Nat /\ Len(mined') \in Nat
  BY <1>2, DestinationKeeps
<1>4. DOMAIN mined = 1..Len(mined)
  BY LenProperties DEF Blocks
<1>5. mined'[n + 1].tx = x
  BY <1>1, <1>2, <1>3, <1>4 DEF Extends
<1> QED BY <1>1, <1>2, <1>3, <1>5 DEF Final, LatestNonce

\* What the process has read and what its files say, over a step of the chains.
LEMMA BeliefKeeps ==
  ASSUME WorkInv, mined' \in Blocks, Extends, Grows(reg, reg'), PlaceOK,
         \A t \in Txs : Believed(tasks[t], t), UNCHANGED workerVars
  PROVE  PlaceOK' /\ \A t \in Txs : Believed(tasks[t], t)'
<1>1. mined \in Blocks /\ UNCHANGED <<tasks, proc>>
  BY DEF WorkInv, ChainsTypeOK, Blocks, workerVars
<1>2. Signed' = Signed
  BY <1>1 DEF Signed, Me
<1>3. PICK x : x = Signed
  OBVIOUS
<1>4. (Mined(x) => Mined(x)') /\ (Confirmed(x) => Confirmed(x)')
  BY <1>1, DestinationKeeps
<1>5. (proc'.at = "Depth" => Mined(Signed)') /\ (proc'.at = "Finalize" => Confirmed(Signed)')
  BY <1>1, <1>2, <1>3, <1>4 DEF PlaceOK, Mined, Confirmed
<1>6. proc'.found \subseteq reg'.recorded
  BY <1>1 DEF PlaceOK, Grows
<1>7. \A t \in Txs : Believed(tasks[t], t)'
  BY <1>1 DEF Believed, Grows
<1> QED BY <1>5, <1>6, <1>7 DEF PlaceOK

\* Every step keeps it, where the destination keeps its blocks.
LEMMA FinalStep ==
  ASSUME WorkInv, FinalInv, [Next]_vars, "destReorg" \notin Faults
  PROVE  FinalInv'
<1>1. NoncesInOrder /\ PlaceOK /\ ReleasedOnlyWhenFinal /\ \A t \in Txs : Believed(tasks[t], t)
  BY DEF FinalInv
<1>2. ChainsTypeOK /\ TasksOK /\ mined \in Blocks
  BY DEF WorkInv, ChainsTypeOK, Blocks
<1>3. CASE ChainsStep /\ UNCHANGED workerVars
  <2>1. ChainsOK
    BY <1>2, <1>3, ChainsStepOK
  <2>2. mined' \in Blocks /\ Extends /\ Grows(reg, reg') /\ NoncesInOrder'
    BY <1>1, <2>1 DEF ChainsOK, ChainsTypeOK, Blocks
  <2>3. PlaceOK' /\ \A t \in Txs : Believed(tasks[t], t)'
    BY <1>1, <1>3, <2>2, BeliefKeeps
  <2>4. ReleasedOnlyWhenFinal'
    BY <1>1, <1>2, <1>3, <2>2, HistoryKeeps DEF workerVars
  <2> QED BY <2>2, <2>3, <2>4 DEF FinalInv
<1>4. CASE UNCHANGED vars
  <2>1. UNCHANGED <<mined, depth, reg, tasks, proc>>
    BY <1>4 DEF vars, chainVars, workerVars
  <2>2. FinalInv' <=> FinalInv
    BY <2>1 DEF FinalInv, NoncesInOrder, PlaceOK, ReleasedOnlyWhenFinal, Believed, Mined, Confirmed,
                Signed, Me, LatestNonce
  <2> QED BY <2>2
<1>5. ASSUME StepOK, UNCHANGED <<mined, depth, reg>> PROVE FinalInv'
  <2>1. Faithful /\ PlaceOK' /\ Honest
    BY <1>1, <1>5 DEF StepOK
  <2>2. ReleasedOnlyWhenFinal'
    BY <1>1, <1>5, <2>1, WriteIsFinal
  <2>3. NoncesInOrder'
    BY <1>1, <1>5 DEF NoncesInOrder
  <2>4. \A t \in Txs : Believed(tasks[t], t)'
    BY <1>1, <1>5, <2>1 DEF Honest, Believed
  <2> QED BY <2>1, <2>2, <2>3, <2>4 DEF FinalInv
<1>6. ASSUME NEW t \in Txs, UNCHANGED <<mined, depth, reg>>, PlaceOK',
             \A u \in Txs : u # t => tasks'[u] = tasks[u],
             TaskOK(tasks'[t], t), tasks'[t].nonces = tasks[t].nonces, Modest(tasks[t], tasks'[t])
      PROVE  FinalInv'
  <2>1. NoncesInOrder'
    BY <1>1, <1>6 DEF NoncesInOrder
  <2>2. \A u \in Txs : tasks'[u].nonces = tasks[u].nonces
    BY <1>6
  <2>3. ReleasedOnlyWhenFinal'
    BY <1>1, <1>6, <2>2 DEF ReleasedOnlyWhenFinal, LatestNonce, Confirmed
  <2>4. Believed(tasks'[t], t)
    BY <1>1, <1>6, ModestBelieved
  <2>5. \A u \in Txs : Believed(tasks'[u], u)
    BY <1>1, <1>6, <2>4
  <2>6. \A u \in Txs : Believed(tasks[u], u)'
    BY <1>6, <2>5 DEF Believed
  <2> QED BY <1>6, <2>1, <2>3, <2>6 DEF FinalInv
<1>7. CASE SigningOK /\ UNCHANGED chainVars
  <2>1. PICK t \in Txs, x \in SignerTxs : Signs(t, x)
    BY <1>7 DEF SigningOK
  <2>2. PlaceOK' /\ UNCHANGED <<mined, depth, reg>>
    BY <1>7 DEF SigningOK, chainVars
  <2> QED BY <1>6, <2>1, <2>2 DEF Signs
<1>8. ASSUME NEW t \in Txs, ResumingOK(t), UNCHANGED chainVars PROVE FinalInv'
  <2>1. PlaceOK' /\ UNCHANGED <<mined, depth, reg>>
    BY <1>1, <1>8 DEF ResumingOK, chainVars
  <2> QED BY <1>6, <1>8, <2>1 DEF ResumingOK
<1>9. CASE StepOK /\ UNCHANGED chainVars
  BY <1>5, <1>9 DEF chainVars
<1>10. CASE BroadcastOK
  BY <1>5, <1>10 DEF BroadcastOK
<1> QED BY <1>3, <1>4, <1>7, <1>8, <1>9, <1>10, NextIsAnyStep DEF AnyStep

\* The inductive invariant of a destination that takes no block back.
THEOREM FinalInvariant ==
  ASSUME "destReorg" \notin Faults
  PROVE  Spec => []FinalInv
<1>1. Init => FinalInv
  BY InitFinal
<1>2. WorkInv /\ FinalInv /\ [Next]_vars => FinalInv'
  BY FinalStep
<1> QED BY <1>1, <1>2, WorkInvariant, PTL DEF Spec

\* An envelope is released by nothing but its own receipt under two blocks
\* (finalizeEnvelope after the two reads of reconcileEnvelope): every nonce in a
\* task's confirmed operations is that of its own transaction, and final.
THEOREM ReleasesAreFinal ==
  ASSUME "destReorg" \notin Faults
  PROVE  Spec => []ReleasedOnlyWhenFinal
<1>1. FinalInv => ReleasedOnlyWhenFinal
  BY DEF FinalInv
<1> QED BY <1>1, FinalInvariant, PTL

\* What the files say of the registry is so, at any distance from the reads it was
\* taken from, and whoever else submits and applies: a task is SUBMITTED when its
\* whole inclusion is recorded, a fact given up when it is decided.
THEOREM BeliefsAreFacts ==
  ASSUME "destReorg" \notin Faults
  PROVE  Spec => []BelievesFacts
<1>1. FinalInv => BelievesFacts
  BY DEF FinalInv, Believed, BelievesFacts
<1> QED BY <1>1, FinalInvariant, PTL

\* What a step makes of an envelope that is out.
LEMMA EnvelopeStays ==
  ASSUME WorkInv, FinalInv, [Next]_vars, NEW t \in Lane
  PROVE  \/ tasks'[t].inFlight.signed = tasks[t].inFlight.signed
         \/ \E x \in SignerTxs :
               /\ x = tasks[t].inFlight.signed /\ Confirmed(x) /\ x.nonce \in tasks'[t].nonces
<1>1. t \in Txs /\ PlaceOK
  BY DEF Lane, FinalInv
<1>2. CASE Faithful
  BY <1>1, <1>2, WriteReleases
<1>3. CASE UNCHANGED tasks
  BY <1>3
<1>4. ~SigningOK
  BY DEF SigningOK
<1>5. ASSUME NEW u \in Txs, ResumingOK(u) PROVE tasks'[t].inFlight = tasks[t].inFlight
  BY <1>1, <1>5 DEF ResumingOK
<1> QED BY <1>2, <1>3, <1>4, <1>5, NextIsAnyStep DEF AnyStep, StepOK, BroadcastOK, workerVars, vars

\* No incident on the source chain, failed read, crash or command alters or deletes
\* an envelope: its bytes stay in the file until their own receipt is under two
\* blocks, and enter the history in the write that removes them (finalizeEnvelope).
THEOREM EnvelopesAreExact ==
  ASSUME "destReorg" \notin Faults
  PROVE  Spec => EnvelopeIsExact
<1> DEFINE Exact == \A t \in Lane :
                      LET x == tasks[t].inFlight.signed IN
                      \/ tasks'[t].inFlight.signed = x
                      \/ Confirmed(x) /\ x.nonce \in tasks'[t].nonces
<1>1. ASSUME WorkInv, FinalInv, [Next]_vars PROVE Exact
  BY <1>1, EnvelopeStays
<1>2. EnvelopeIsExact <=> [][Exact]_vars
  BY DEF EnvelopeIsExact
<1> HIDE DEF Exact
<1>3. WorkInv /\ FinalInv /\ [Next]_vars => [Exact]_vars
  BY <1>1
<1>4. Spec => [][Exact]_vars
  BY <1>3, WorkInvariant, FinalInvariant, PTL DEF Spec
<1> QED BY <1>2, <1>4
=============================================================================
