----------------------------- MODULE SourceScan -----------------------------
(***************************************************************************)
(* worker/engine.ts, scanOnce: how the worker finds the gateway's events.  *)
(* The cursor, the enrollments, the alarms and the tasks are on disk; where*)
(* a pass stands is lost when it stops.  The source chain grows and is     *)
(* reorganized at any time, so every read of it is a step of its own.  What*)
(* the worker does with a task once it is found, and what a reorganization *)
(* means for an envelope in flight, is module WorkerEngine.                *)
(***************************************************************************)
EXTENDS Integers, Sequences, FiniteSets

CONSTANTS
    Txs, Deals,
    Logs,           \* the deals of a transaction's gateway events, in order
    Start,          \* sourceStartBlock
    Window,         \* 1000: blocks read at once
    Overlap,        \* 100: blocks read again
    MaxEvents,      \* maxEventsPerTransaction
    MaxTasks,       \* maxNonTerminalTasks
    MaxDepth,       \* blocks a reorganization replaces
    Earlier,        \* blocks an operator gives with --effective-from
    MaxHeight, MaxForks, MaxEnrollments, MaxFailures    \* bounds

VARIABLES
    head,           \* source head
    forks,          \* reorganizations so far
    mined,          \* where a transaction is included, as an inclusion
    seen,           \* inclusions the destination has recorded
    tasks,          \* task files
    cursor,         \* sourceCursor, 0: none
    alarms,         \* globalAttentionReasons
    enrollments,    \* enrollments, and the head each was made at
    enrolled,       \* length of enrollmentHistory
    pass,           \* the pass under way
    failures        \* failed reads and stops so far

chain == <<head, forks, mined>>
disk == <<tasks, cursor, alarms>>
operator == <<enrollments, enrolled>>
vars == <<chain, seen, disk, operator, pass, failures>>

ASSUME ScanConstants ==
    /\ Logs \in [Txs -> Seq(Deals) \ {<<>>}]
    /\ {Start, Window, Overlap, MaxEvents, MaxTasks} \subseteq Nat \ {0}
    /\ MaxDepth \in 0..Overlap
    /\ Earlier \subseteq Nat
    /\ MaxHeight \in Nat /\ Start <= MaxHeight /\ MaxForks \in Nat

\* A block is told from its replacements by the fork it was built on.
Nowhere == [block |-> 0, fork |-> 0]
Inclusions == [block : 0..MaxHeight, fork : 0..MaxForks]

NoTask == [state |-> "NONE", inc |-> Nowhere]
NotEnrolled == [from |-> MaxHeight + 2, head |-> 0]
Idle == [at |-> "Idle", from |-> 0, to |-> 0, head |-> 0, left |-> {}]

Init ==
    /\ head = Start /\ forks = 0 /\ mined = [t \in Txs |-> Nowhere]
    /\ seen = {}
    /\ tasks = [t \in Txs |-> NoTask]
    /\ cursor = 0 /\ alarms = {}
    /\ enrollments = [d \in Deals |-> NotEnrolled] /\ enrolled = 0
    /\ pass = Idle /\ failures = 0

-----------------------------------------------------------------------------
(* The source chain and the operator. *)

Pending == {t \in Txs : mined[t] = Nowhere}

Grow(included) ==
    /\ head < MaxHeight
    /\ head' = head + 1
    /\ mined' = [t \in Txs |-> IF t \in included THEN [block |-> head + 1, fork |-> forks]
                                                 ELSE mined[t]]
    /\ UNCHANGED <<forks, seen, disk, operator, pass, failures>>

\* A longer branch replaces the last blocks; a transaction of theirs is in one
\* of the new blocks, or waits again.
Reorganize(depth) ==
    /\ head < MaxHeight /\ forks < MaxForks /\ depth <= head
    /\ head' = head + 1 /\ forks' = forks + 1
    /\ \E moved \in [{t \in Txs : mined[t].block > head - depth} -> (head - depth)..(head + 1)] :
         mined' = [t \in Txs |->
             IF t \notin DOMAIN moved THEN mined[t]
             ELSE IF moved[t] = head - depth THEN Nowhere
             ELSE [block |-> moved[t], fork |-> forks + 1]]
    /\ UNCHANGED <<seen, disk, operator, pass, failures>>

\* enrollDeal.  The lock of launch.sh keeps the command and the worker apart.
Enroll(d) ==
    /\ pass = Idle /\ enrolled < MaxEnrollments
    /\ \E from \in Earlier \cup {head + 1} : enrollments' = [enrollments EXCEPT ![d] = [from |-> from, head |-> head]]
    /\ enrolled' = enrolled + 1
    /\ UNCHANGED <<chain, seen, disk, pass, failures>>

-----------------------------------------------------------------------------
(* Admission. *)

EnrolledLogs(t, i) == {k \in DOMAIN Logs[t] : i.block >= enrollments[Logs[t][k]].from}
Unenrolled(t) == EnrolledLogs(t, mined[t]) = {}
Mixed(t) == ~Unenrolled(t) /\ EnrolledLogs(t, mined[t]) # DOMAIN Logs[t]

Exists(t) == tasks[t].state # "NONE"
AnySeen(t) == <<t, tasks[t].inc>> \in seen

\* isNonTerminalTask
NonTerminal == {t \in Txs : tasks[t].state \in {"WAITING", "ATTENTION"}}

LimitReached(t) ==
    \/ Len(Logs[t]) > MaxEvents
    \/ ~Exists(t) /\ Cardinality(NonTerminal) >= MaxTasks

BadAdmitted(t) ==
    [inc |-> mined[t], state |-> IF Mixed(t) /\ ~Exists(t) THEN "ATTENTION" ELSE "WAITING"]

\* ingestReceipt, once nothing stands in the way: a task for the inclusion there is.
Admitted(t) ==
    [inc |-> mined[t], state |-> IF Mixed(t) THEN "ATTENTION" ELSE "WAITING"]

Removed(state) == [inc |-> Nowhere, state |-> state]
Write(t, task) == tasks' = [tasks EXCEPT ![t] = task]

-----------------------------------------------------------------------------
(* A pass. *)

AfterChecks(left) ==
    IF left # {} THEN [Idle EXCEPT !.at = "Check", !.left = left]
    ELSE IF alarms = {} THEN [Idle EXCEPT !.at = "Head"] ELSE Idle

StartScan ==
    /\ pass = Idle
    /\ pass' = AfterChecks({t \in Txs : tasks[t].inc # Nowhere})
    /\ UNCHANGED <<chain, seen, disk, operator, failures>>

Fails == failures < MaxFailures /\ failures' = failures + 1

\* A re-inclusion none of whose deals is enrolled at its height leaves the task as it was.
Readmitted(t) == IF Unenrolled(t) THEN tasks[t] ELSE Admitted(t)

\* reconcileSourceCanonicality, for one task.  The stop for evidence that the
\* destination has recorded is a second write, and the pass may end before it.
CheckInclusion(t) ==
    /\ pass.at = "Check" /\ t \in pass.left
    /\ \/ /\ mined[t] = tasks[t].inc
          /\ UNCHANGED <<tasks, failures>>
       \/ /\ mined[t] = Nowhere
          /\ Write(t, Removed(IF AnySeen(t) THEN "ATTENTION" ELSE "ORPHANED"))
          /\ UNCHANGED failures
       \/ /\ mined[t] \notin {Nowhere, tasks[t].inc}
          /\ Write(t, IF AnySeen(t) THEN [Readmitted(t) EXCEPT !.state = "ATTENTION"] ELSE Readmitted(t))
          /\ UNCHANGED failures
       \/ /\ mined[t] \notin {Nowhere, tasks[t].inc} /\ ~Unenrolled(t)
          /\ Fails /\ Write(t, Removed("ATTENTION"))
    /\ pass' = AfterChecks(pass.left \ {t})
    /\ UNCHANGED <<chain, seen, cursor, alarms, operator>>

Interrupted(t) ==
    /\ pass.at = "Check" /\ t \in pass.left
    /\ mined[t] \notin {Nowhere, tasks[t].inc} /\ ~Unenrolled(t) /\ AnySeen(t)
    /\ Fails /\ Write(t, Readmitted(t))
    /\ pass' = Idle
    /\ UNCHANGED <<chain, seen, cursor, alarms, operator>>

BadFirst == cursor + 1

First == IF cursor - Overlap > Start THEN cursor - Overlap ELSE Start

BadWindowFrom(from, top) ==
    IF from >= top THEN Idle
    ELSE [Idle EXCEPT !.at = "Logs", !.from = from, !.head = top,
                      !.to = IF from + Window - 1 < top THEN from + Window - 1 ELSE top]

\* The window from a block up to the head the pass has read.
WindowFrom(from, top) ==
    IF from > top THEN Idle
    ELSE [Idle EXCEPT !.at = "Logs", !.from = from, !.head = top,
                      !.to = IF from + Window - 1 < top THEN from + Window - 1 ELSE top]

ReadHead ==
    /\ pass.at = "Head"
    /\ pass' = WindowFrom(First, head)
    /\ UNCHANGED <<chain, seen, disk, operator, failures>>

\* candidateLogs: the transactions of the window, under the inclusion of that moment.
FindLogs ==
    /\ pass.at = "Logs"
    /\ pass' = [pass EXCEPT !.at = "Receipts",
                  !.left = {<<t, mined[t]>> : t \in {x \in Txs : mined[x].block \in pass.from..pass.to}}]
    /\ UNCHANGED <<chain, seen, disk, operator, failures>>

NextReceipt(c) == [pass EXCEPT !.left = @ \ {c}]

\* candidateRefsMatchReceipt
Matches(c) == mined[c[1]] = c[2]

Raise(reason) == alarms' = alarms \cup {reason} /\ pass' = Idle

\* One candidate, in the order of the blocks.  One that is not accepted ends the pass,
\* with the cursor behind it.
IngestReceipt(c) ==
    LET t == c[1] IN
    /\ pass.at = "Receipts" /\ c \in pass.left
    /\ \A other \in pass.left : c[2].block <= other[2].block
    /\ \/ /\ ~Matches(c)
          /\ Raise("SOURCE_RECEIPT_CONTRADICTION") /\ UNCHANGED <<tasks, failures>>
       \/ /\ Matches(c) /\ ~Unenrolled(t) /\ LimitReached(t)
          /\ Raise("SOURCE_ADMISSION_FAILURE") /\ UNCHANGED <<tasks, failures>>
       \/ /\ Matches(c) /\ ~Unenrolled(t) /\ Fails
          /\ Raise("SOURCE_ADMISSION_FAILURE") /\ UNCHANGED tasks
       \/ /\ Matches(c)
          /\ Unenrolled(t) \/ (~LimitReached(t) /\ tasks[t].inc = mined[t])
          /\ pass' = NextReceipt(c) /\ UNCHANGED <<tasks, alarms, failures>>
       \/ /\ Matches(c) /\ ~Unenrolled(t) /\ ~LimitReached(t) /\ tasks[t].inc # mined[t]
          /\ Write(t, IF AnySeen(t) THEN [tasks[t] EXCEPT !.state = "ATTENTION"] ELSE Admitted(t))
          /\ pass' = IF AnySeen(t) \/ Mixed(t) THEN Idle ELSE NextReceipt(c)
          /\ UNCHANGED <<alarms, failures>>
    /\ UNCHANGED <<chain, seen, cursor, operator>>

\* The cursor is written once the whole window has been admitted.
Advance ==
    /\ pass.at = "Receipts" /\ pass.left = {}
    /\ cursor' = pass.to
    /\ pass' = WindowFrom(pass.to + 1, pass.head)
    /\ UNCHANGED <<chain, seen, tasks, alarms, operator, failures>>

\* A crash, or an error outside an admission: the loop starts a new pass.
Stop ==
    /\ pass # Idle /\ Fails
    /\ pass' = Idle
    /\ UNCHANGED <<chain, seen, disk, operator>>

-----------------------------------------------------------------------------
\* resume: the operator sets a stopped task going under the inclusion it has, mixed or
\* not, as long as the destination has recorded no event of that inclusion.
Resume(t) ==
    /\ pass = Idle /\ tasks[t].state = "ATTENTION" /\ tasks[t].inc # Nowhere /\ ~AnySeen(t)
    /\ Write(t, [tasks[t] EXCEPT !.state = "WAITING"])
    /\ UNCHANGED <<chain, seen, cursor, alarms, operator, pass, failures>>

\* tick, as far as the next scan can tell: a task is carried to its end.
Carry(t) ==
    /\ pass = Idle /\ alarms = {} /\ tasks[t].state = "WAITING" /\ tasks[t].inc = mined[t]
    /\ seen' = seen \cup {<<t, mined[t]>>}
    /\ Write(t, [tasks[t] EXCEPT !.state = "COMPLETED"])
    /\ UNCHANGED <<chain, cursor, alarms, operator, pass, failures>>

-----------------------------------------------------------------------------
Scan ==
    \/ StartScan \/ ReadHead \/ FindLogs \/ Advance
    \/ \E t \in Txs : CheckInclusion(t)
    \/ \E c \in Txs \X Inclusions : IngestReceipt(c)

Next ==
    \/ \E included \in SUBSET Pending : Grow(included)
    \/ \E depth \in 1..MaxDepth : Reorganize(depth)
    \/ \E d \in Deals : Enroll(d)
    \/ Scan
    \/ Stop
    \/ \E t \in Txs : Interrupted(t) \/ Resume(t) \/ Carry(t)

Spec == Init /\ [][Next]_vars

\* The loop of cli.ts always starts another pass.
FairSpec == Spec /\ WF_vars(Scan)

-----------------------------------------------------------------------------
(* What the worker owes: an event of a deal enrolled before its block. *)

Served(t) ==
    /\ mined[t] # Nowhere
    /\ \E k \in DOMAIN Logs[t] :
          LET e == enrollments[Logs[t][k]] IN mined[t].block > e.head /\ mined[t].block >= e.from

Met(t) == alarms # {} \/ tasks[t].inc = mined[t] \/ tasks[t].state = "ATTENTION"

\* Types: a task at work or done has an inclusion, and a window lies inside what the
\* pass has read.
ScanTypeOK ==
    /\ head \in Start..MaxHeight /\ forks \in 0..MaxForks
    /\ mined \in [Txs -> Inclusions] /\ seen \subseteq Txs \X Inclusions
    /\ cursor \in 0..head
    /\ tasks \in [Txs -> [state : {"NONE", "WAITING", "ATTENTION", "ORPHANED", "COMPLETED"}, inc : Inclusions]]
    /\ \A t \in Txs : tasks[t].state \in {"WAITING", "COMPLETED"} => tasks[t].inc # Nowhere
    /\ pass.to <= pass.head /\ pass.to - pass.from < Window

\* The scan will not come back to a block further than the overlap behind the cursor:
\* by then every event the worker serves has its task, or the worker has stopped and
\* said so.  Crashes, failed reads, limits and reorganizations lie in between.
NothingPassed ==
    /\ ScanTypeOK
    /\ \A t \in Txs : Served(t) /\ mined[t].block < cursor - Overlap => Met(t)

\* The scan never sets a stopped task going by itself, a mixed transaction above all, but
\* for another inclusion whose deals are all enrolled for its block: everything else is
\* the operator's resume.
ReleasedOnlyWhole ==
    [][\A t \in Txs :
          tasks[t].state = "ATTENTION" /\ tasks'[t].state # "ATTENTION" =>
              \/ Resume(t)
              \/ /\ tasks'[t].inc \in {Nowhere, mined[t]} /\ tasks'[t].inc # tasks[t].inc
                 /\ tasks'[t].inc # Nowhere => EnrolledLogs(t, mined[t]) = DOMAIN Logs[t]]_vars

\* Every event the worker serves and the chain keeps is found in the end.
EveryEventMet == \A t \in Txs : Served(t) ~> (Met(t) \/ ~Served(t))
=============================================================================
