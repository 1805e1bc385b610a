-------------------------- MODULE SourceScan_proofs --------------------------
(***************************************************************************)
(* The worker's scan, for any number of transactions, deals, forks, stops  *)
(* and enrollments, every window, overlap and limit: the cursor leaves     *)
(* nothing behind, and what was stopped stays stopped until it is whole.   *)
(***************************************************************************)
EXTENDS SourceScan, TLAPS

Places == {"Idle", "Check", "Head", "Logs", "Receipts"}
States == {"NONE", "WAITING", "ATTENTION", "ORPHANED", "COMPLETED"}
Passes == [at: Places, from: Nat, to: Nat, head: Nat,
           left: SUBSET (Txs \cup (Txs \X Inclusions))]
Tasks == [state: States, inc: Inclusions]

\* A deal is enrolled from some block, at a head the worker has seen.
EnrollmentOK(e) ==
    \/ e = NotEnrolled
    \/ e.head \in Start..head

\* The chain, the disk and the operator's files, but for what the pass makes of them.
Grounds ==
    /\ head \in Start..MaxHeight /\ forks \in 0..MaxForks
    /\ mined \in [Txs -> Inclusions] /\ \A t \in Txs : mined[t].block <= head
    /\ seen \subseteq Txs \X Inclusions
    /\ tasks \in [Txs -> Tasks]
    /\ \A t \in Txs : tasks[t].state \in {"WAITING", "COMPLETED"} => tasks[t].inc # Nowhere
    /\ cursor \in 0..head
    /\ enrollments \in [Deals -> [from: Nat, head: Nat]]
    /\ \A d \in Deals : EnrollmentOK(enrollments[d])

\* Met, and by nothing that the operator's resume takes back: a task that he may set going
\* has the inclusion the chain has.
Caught(t) ==
    \/ alarms # {} \/ tasks[t].inc = mined[t]
    \/ tasks[t].state = "ATTENTION" /\ (tasks[t].inc = Nowhere \/ AnySeen(t))

\* A block below this one cannot be replaced under a pass that has read its head.
Settled(t) == mined[t].block <= pass.head - Overlap

\* A pass in a window: what lies before the window has been met, but for what is
\* so near to the head that a fork may have put it there since.
InWindow ==
    /\ Start <= pass.from /\ pass.from <= pass.to /\ pass.to <= pass.head /\ pass.head <= head
    /\ pass.to - pass.from < Window
    /\ \A t \in Txs : Served(t) /\ mined[t].block < pass.from /\ Settled(t) => Caught(t)

\* What lies in the window has been met, or its receipt is still to be read.
InReceipts ==
    /\ pass.left \subseteq Txs \X Inclusions /\ \A c \in pass.left : c[2] # Nowhere
    /\ \A t \in Txs :
          Served(t) /\ mined[t].block \in pass.from..pass.to /\ Settled(t)
              => Caught(t) \/ <<t, mined[t]>> \in pass.left

\* What is left of a pass to do agrees with the disk and with the chain.
PassOK ==
    /\ pass \in Passes
    /\ pass.at = "Check" => \A t \in pass.left : t \in Txs /\ tasks[t].inc # Nowhere
    /\ pass.at \in {"Logs", "Receipts"} => InWindow
    /\ pass.at \notin {"Logs", "Receipts"} => pass.from = 0 /\ pass.to = 0 /\ pass.head = 0
    /\ pass.at = "Receipts" => InReceipts

\* Nothing the worker serves is left unmet where no scan goes any more.
Behind == \A t \in Txs : Served(t) /\ mined[t].block < cursor - Overlap => Caught(t)

(* The inductive invariant.  NothingPassed speaks of the cursor only; a pass that *)
(* is about to move it must know as much of its window, a deal enrolled late must    *)
(* not make old blocks count, and a task the operator may resume must be one the  *)
(* chain agrees with.                                                             *)
ScanInv == Grounds /\ PassOK /\ Behind

-----------------------------------------------------------------------------
(* What a state says of one transaction. *)

\* The numbers of the state are numbers.
LEMMA Numbers ==
  ASSUME Grounds
  PROVE  /\ Start \in Nat \ {0} /\ Window \in Nat \ {0} /\ Overlap \in Nat \ {0}
         /\ MaxDepth \in Nat /\ MaxDepth <= Overlap /\ MaxHeight \in Nat /\ MaxForks \in Nat
         /\ head \in Nat /\ Start <= head /\ head <= MaxHeight /\ forks \in 0..MaxForks
         /\ cursor \in Nat /\ cursor <= head
         /\ \A t \in Txs : mined[t].block \in Nat /\ mined[t].block <= head
<1>1. Start \in Nat \ {0} /\ Window \in Nat \ {0} /\ Overlap \in Nat \ {0}
  BY ScanConstants
<1>2. MaxDepth \in Nat /\ MaxDepth <= Overlap /\ MaxHeight \in Nat /\ MaxForks \in Nat
  BY <1>1, ScanConstants
<1>3. head \in Nat /\ Start <= head /\ head <= MaxHeight
  BY <1>1, <1>2 DEF Grounds
<1>4. \A t \in Txs : mined[t].block \in Nat /\ mined[t].block <= head
  BY DEF Grounds, Inclusions
<1> QED BY <1>1, <1>2, <1>3, <1>4 DEF Grounds

\* Nowhere is an inclusion of the types.
LEMMA NowhereType == Nowhere \in Inclusions /\ Nowhere.block = 0
  BY ScanConstants DEF Nowhere, Inclusions

\* An event the worker serves lies above the start of the scan, and its deal is
\* enrolled for the block.
LEMMA ServedHigh ==
  ASSUME Grounds, NEW t \in Txs, Served(t)
  PROVE  mined[t] \in Inclusions /\ mined[t] # Nowhere /\ mined[t].block > Start /\ ~Unenrolled(t)
<1>1. PICK k \in DOMAIN Logs[t] :
        mined[t].block > enrollments[Logs[t][k]].head /\ mined[t].block >= enrollments[Logs[t][k]].from
  BY DEF Served
<1> DEFINE d == Logs[t][k]
<1>2. Logs[t] \in Seq(Deals)
  BY ScanConstants
<1>3. d \in Deals
  BY <1>2, <1>1
<1>4. mined[t] \in Inclusions /\ mined[t].block \in Nat /\ mined[t].block <= head /\ head <= MaxHeight
      /\ head \in Nat /\ MaxHeight \in Nat /\ Start \in Nat
  BY ScanConstants DEF Grounds, Inclusions
<1>5. EnrollmentOK(enrollments[d])
  BY <1>3 DEF Grounds
<1>6. enrollments[d] # NotEnrolled
  BY <1>1, <1>4 DEF NotEnrolled
<1>7. enrollments[d].head \in Start..head
  BY <1>5, <1>6 DEF EnrollmentOK
<1>8. mined[t].block > Start
  BY <1>1, <1>4, <1>7
<1>9. k \in EnrolledLogs(t, mined[t])
  BY <1>1 DEF EnrolledLogs
<1> QED BY <1>1, <1>4, <1>8, <1>9 DEF Unenrolled, Served

\* A task written for the inclusion there is, or set aside, meets its event.
LEMMA ReadmittedType ==
  ASSUME Grounds, NEW t \in Txs, mined[t] # Nowhere
  PROVE  /\ Admitted(t) \in Tasks /\ Admitted(t).inc = mined[t]
         /\ Readmitted(t) \in Tasks
         /\ Readmitted(t).state \in {"WAITING", "COMPLETED"} => Readmitted(t).inc # Nowhere
         /\ ~Unenrolled(t) => Readmitted(t).inc = mined[t]
<1>1. mined[t] \in Inclusions /\ tasks[t] \in Tasks
  BY DEF Grounds
<1>2. Admitted(t) \in Tasks /\ Admitted(t).inc = mined[t]
  BY <1>1 DEF Admitted, Tasks, States
<1>3. CASE Unenrolled(t)
  BY <1>1, <1>2, <1>3 DEF Readmitted, Grounds
<1>4. CASE ~Unenrolled(t)
  BY <1>2, <1>4 DEF Readmitted
<1> QED BY <1>2, <1>3, <1>4

\* What a finished check leaves of the pass.
LEMMA AfterChecksType ==
  ASSUME NEW left \in SUBSET Txs
  PROVE  LET p == AfterChecks(left) IN
         /\ p \in Passes /\ p.at \in {"Idle", "Check", "Head"}
         /\ p.from = 0 /\ p.to = 0 /\ p.head = 0
         /\ p.at = "Check" => p.left = left
<1>1. Idle \in Passes
  BY DEF Idle, Passes, Places
<1> QED BY <1>1 DEF AfterChecks, Idle, Passes, Places

\* The window that a pass reads next is not empty and not too wide.
LEMMA WindowType ==
  ASSUME NEW from \in Nat, NEW top \in Nat
  PROVE  LET p == WindowFrom(from, top) IN
         \/ p = Idle
         \/ /\ p \in Passes /\ p.at = "Logs" /\ p.from = from /\ p.head = top
            /\ from <= p.to /\ p.to <= top /\ p.to - from < Window
<1>1. Window \in Nat /\ Window > 0
  BY ScanConstants
<1>2. CASE from > top
  BY <1>2 DEF WindowFrom
<1>3. CASE ~(from > top)
  <2> DEFINE to == IF from + Window - 1 < top THEN from + Window - 1 ELSE top
  <2>1. to \in Nat /\ from <= to /\ to <= top /\ to - from < Window
    BY <1>1, <1>3
  <2> HIDE DEF to
  <2>2. WindowFrom(from, top) = [at |-> "Logs", from |-> from, to |-> to, head |-> top, left |-> {}]
    BY <1>3 DEF WindowFrom, Idle, to
  <2> QED BY <2>1, <2>2 DEF Passes, Places
<1> QED BY <1>2, <1>3

-----------------------------------------------------------------------------
(* What carries over to the next state. *)

\* An event served before and met before is served and met after: what a step must do to
\* keep the claims about the cursor and about a window that stays.
Keeps ==
    \A t \in Txs :
        Served(t)' => mined'[t].block > head - Overlap \/ (Served(t) /\ mined'[t] = mined[t] /\ (Caught(t) => Caught(t)'))

\* A pass between windows has nothing to say of the chain.
LEMMA Between ==
  ASSUME pass' \in Passes, pass'.at \in {"Idle", "Check", "Head"},
         pass'.from = 0, pass'.to = 0, pass'.head = 0,
         pass'.at = "Check" => \A t \in pass'.left : t \in Txs /\ tasks'[t].inc # Nowhere
  PROVE  PassOK'
BY DEF PassOK

\* The pass that has ended is such a pass.
LEMMA Ended == ASSUME pass' = Idle PROVE PassOK'
<1>1. Idle \in Passes /\ Idle.at = "Idle" /\ Idle.from = 0 /\ Idle.to = 0 /\ Idle.head = 0
  BY DEF Idle, Passes, Places
<1> QED BY <1>1, Between

\* The cursor stays truthful through every step that does not move it.
LEMMA BehindKept ==
  ASSUME ScanInv, Grounds', Keeps, cursor' = cursor
  PROVE  Behind'
<1> SUFFICES ASSUME NEW t \in Txs, Served(t)', mined'[t].block < cursor' - Overlap
             PROVE  Caught(t)'
  BY DEF Behind
<1>1. cursor \in Nat /\ cursor <= head /\ head \in Nat /\ Overlap \in Nat /\ mined'[t].block \in Nat
  BY ScanConstants DEF ScanInv, Grounds, Inclusions
<1>2. ~(mined'[t].block > head - Overlap)
  BY <1>1
<1>3. Served(t) /\ mined'[t] = mined[t] /\ (Caught(t) => Caught(t)')
  BY <1>2 DEF Keeps
<1>4. mined[t].block < cursor - Overlap
  BY <1>3
<1> QED BY <1>3, <1>4 DEF ScanInv, Behind

\* So does a window, for as long as the pass stays in it.
LEMMA WindowKept ==
  ASSUME ScanInv, Grounds', Keeps, pass'.at \in {"Logs", "Receipts"}, pass.at \in {"Logs", "Receipts"},
         pass'.from = pass.from, pass'.to = pass.to, pass'.head = pass.head, head <= head'
  PROVE  InWindow'
<1>1. InWindow /\ pass \in Passes
  BY DEF ScanInv, PassOK
<1>2. head \in Nat /\ head' \in Nat /\ Overlap \in Nat /\ pass.head \in Nat /\ pass.head <= head
  BY <1>1, ScanConstants DEF ScanInv, Grounds, InWindow, Passes
<1>3. ASSUME NEW t \in Txs, Served(t)', mined'[t].block < pass'.from, Settled(t)'
      PROVE  Caught(t)'
  <2>1. mined'[t].block \in Nat /\ mined'[t].block <= pass.head - Overlap
    BY <1>3 DEF Settled, Grounds, Inclusions
  <2>2. ~(mined'[t].block > head - Overlap)
    BY <2>1, <1>2
  <2>3. Served(t) /\ mined'[t] = mined[t] /\ (Caught(t) => Caught(t)')
    BY <2>2, <1>3 DEF Keeps
  <2>4. mined[t].block < pass.from /\ Settled(t)
    BY <2>1, <2>3, <1>3 DEF Settled
  <2> QED BY <1>1, <2>3, <2>4 DEF InWindow
<1>4. pass'.head <= head'
  BY <1>2
<1> QED BY <1>1, <1>3, <1>4 DEF InWindow

\* And the receipts still to be read.
LEMMA ReceiptsKept ==
  ASSUME ScanInv, Grounds', Keeps, pass' = pass, pass.at = "Receipts"
  PROVE  InReceipts'
<1>1. InReceipts /\ InWindow /\ pass \in Passes
  BY DEF ScanInv, PassOK
<1>2. head \in Nat /\ Overlap \in Nat /\ pass.head \in Nat /\ pass.head <= head
  BY <1>1, ScanConstants DEF ScanInv, Grounds, InWindow, Passes
<1>3. ASSUME NEW t \in Txs, Served(t)', mined'[t].block \in pass'.from..pass'.to, Settled(t)'
      PROVE  Caught(t)' \/ <<t, mined'[t]>> \in pass'.left
  <2>1. mined'[t].block \in Nat /\ mined'[t].block <= pass.head - Overlap
    BY <1>3 DEF Settled, Grounds, Inclusions
  <2>2. ~(mined'[t].block > head - Overlap)
    BY <2>1, <1>2
  <2>3. Served(t) /\ mined'[t] = mined[t] /\ (Caught(t) => Caught(t)')
    BY <2>2, <1>3 DEF Keeps
  <2>4. mined[t].block \in pass.from..pass.to /\ Settled(t)
    BY <2>1, <2>3, <1>3 DEF Settled
  <2> QED BY <1>1, <2>3, <2>4 DEF InReceipts
<1> QED BY <1>1, <1>3 DEF InReceipts

\* A step that leaves the pass and the tasks alone keeps what is known of it.
LEMMA PassKept ==
  ASSUME ScanInv, Grounds', Keeps, pass' = pass, tasks' = tasks, head <= head'
  PROVE  PassOK'
<1>1. PassOK
  BY DEF ScanInv
<1>2. pass.at \in {"Logs", "Receipts"} => InWindow'
  BY WindowKept
<1>3. pass.at = "Receipts" => InReceipts'
  BY ReceiptsKept
<1> QED BY <1>1, <1>2, <1>3 DEF PassOK

\* A step of the worker changes neither the chain nor the enrollments: it keeps what it meets.
LEMMA MeetsAll ==
  ASSUME mined' = mined, enrollments' = enrollments,
         \A t \in Txs : Served(t) /\ Caught(t) => Caught(t)'
  PROVE  Keeps
BY DEF Keeps, Served

-----------------------------------------------------------------------------
(* The invariant holds at first, and every step keeps it. *)

\* Before anything is enrolled the worker owes nothing.
LEMMA InitScan == Init => ScanInv
<1> SUFFICES ASSUME Init PROVE ScanInv
  OBVIOUS
<1> USE ScanConstants, NowhereType
<1>1. Nowhere \in Inclusions /\ NoTask \in Tasks
  BY DEF NoTask, Tasks, States
<1>2. Grounds
  <2>1. head \in Start..MaxHeight /\ forks \in 0..MaxForks /\ cursor \in 0..head
    BY DEF Init
  <2>2. mined \in [Txs -> Inclusions] /\ \A t \in Txs : mined[t].block <= head
    BY <1>1 DEF Init
  <2>3. tasks \in [Txs -> Tasks] /\ \A t \in Txs : tasks[t].state = "NONE"
    BY <1>1 DEF Init, NoTask
  <2>4. enrollments \in [Deals -> [from: Nat, head: Nat]] /\ \A d \in Deals : EnrollmentOK(enrollments[d])
    BY DEF Init, NotEnrolled, EnrollmentOK
  <2> QED BY <2>1, <2>2, <2>3, <2>4 DEF Grounds, Init
<1>3. Idle \in Passes /\ Idle.at = "Idle" /\ Idle.from = 0 /\ Idle.to = 0 /\ Idle.head = 0
  BY DEF Idle, Passes, Places
<1>4. PassOK
  BY <1>3 DEF PassOK, Init
<1>5. Behind
  BY DEF Behind, Init, Served
<1> QED BY <1>2, <1>4, <1>5 DEF ScanInv

\* A new block, whatever it includes.
LEMMA GrowScan ==
  ASSUME ScanInv, NEW included \in SUBSET Pending, Grow(included)
  PROVE  ScanInv'
<1> USE ScanConstants
<1>1. Grounds /\ head \in Nat /\ head < MaxHeight /\ head' = head + 1 /\ forks \in 0..MaxForks
  BY DEF ScanInv, Grounds, Grow
<1>2. [block |-> head + 1, fork |-> forks] \in Inclusions
  BY <1>1 DEF Inclusions
<1>3. \A t \in Txs : mined'[t] = IF t \in included THEN [block |-> head + 1, fork |-> forks] ELSE mined[t]
  BY DEF Grow
<1>4. mined' \in [Txs -> Inclusions]
  BY <1>1, <1>2 DEF Grow, Grounds
<1>5. ASSUME NEW t \in Txs
      PROVE  mined'[t].block <= head'
  <2>1. mined[t].block \in Nat /\ mined[t].block <= head
    BY <1>1, Numbers
  <2>2. CASE t \in included
    <3>1. mined'[t].block = head + 1
      BY <1>3, <2>2
    <3> QED BY <1>1, <3>1
  <2>3. CASE t \notin included
    <3>1. mined'[t] = mined[t]
      BY <1>3, <2>3
    <3> QED BY <1>1, <2>1, <3>1
  <2> QED BY <2>2, <2>3
<1>6. head' \in Start..MaxHeight /\ cursor \in 0..head'
  BY <1>1 DEF Grounds
<1>7. \A d \in Deals : EnrollmentOK(enrollments[d])'
  BY <1>1 DEF Grounds, EnrollmentOK, Grow, operator
<1>8. Grounds'
  BY <1>1, <1>4, <1>5, <1>6, <1>7 DEF Grounds, Grow, disk, operator
<1>9. Keeps
  <2> SUFFICES ASSUME NEW t \in Txs, Served(t)'
               PROVE  mined'[t].block > head - Overlap \/ (Served(t) /\ mined'[t] = mined[t] /\ (Caught(t) => Caught(t)'))
    BY DEF Keeps
  <2>1. CASE t \in included
    <3>1. mined'[t].block = head + 1
      BY <1>3, <2>1
    <3> QED BY <1>1, <3>1, Numbers
  <2>2. CASE t \notin included
    BY <1>3, <2>2 DEF Served, Caught, AnySeen, Grow, disk, operator
  <2> QED BY <2>1, <2>2
<1>10. PassOK' /\ Behind'
  BY <1>1, <1>8, <1>9, PassKept, BehindKept DEF Grow, disk
<1> QED BY <1>8, <1>10 DEF ScanInv

\* A reorganization puts transactions into blocks above the depth it replaces only, and
\* takes none from below.
LEMMA ReorganizeScan ==
  ASSUME ScanInv, NEW depth \in 1..MaxDepth, Reorganize(depth)
  PROVE  ScanInv'
<1> USE ScanConstants
<1>1. /\ Grounds /\ head \in Nat /\ head < MaxHeight /\ head' = head + 1 /\ MaxDepth \in 0..Overlap
      /\ forks \in 0..MaxForks /\ forks < MaxForks /\ forks' = forks + 1
      /\ depth \in Nat /\ depth <= head /\ depth <= Overlap /\ Overlap \in Nat
  BY DEF ScanInv, Grounds, Reorganize
<1>2. PICK moved \in [{t \in Txs : mined[t].block > head - depth} -> (head - depth)..(head + 1)] :
        mined' = [t \in Txs |->
             IF t \notin DOMAIN moved THEN mined[t]
             ELSE IF moved[t] = head - depth THEN Nowhere
             ELSE [block |-> moved[t], fork |-> forks + 1]]
  BY DEF Reorganize
<1>3. ASSUME NEW t \in Txs
      PROVE  \/ mined'[t] = mined[t] /\ mined[t].block <= head - depth
             \/ mined'[t] = Nowhere
             \/ \E b \in (head - depth + 1)..(head + 1) : mined'[t] = [block |-> b, fork |-> forks + 1]
  <2>1. mined[t].block \in Nat
    BY <1>1 DEF Grounds, Inclusions
  <2>2. CASE t \notin DOMAIN moved
    BY <1>1, <1>2, <2>1, <2>2
  <2>3. CASE t \in DOMAIN moved
    <3>1. moved[t] \in (head - depth)..(head + 1)
      BY <1>2, <2>3
    <3>2. CASE moved[t] = head - depth
      BY <1>2, <2>3, <3>2
    <3>3. CASE moved[t] # head - depth
      <4> DEFINE b == moved[t]
      <4>0. b \in (head - depth)..(head + 1) /\ b # head - depth
        BY <3>1, <3>3
      <4> HIDE DEF b
      <4>1. b \in (head - depth + 1)..(head + 1)
        BY <4>0, <1>1
      <4>2. mined'[t] = [block |-> b, fork |-> forks + 1]
        BY <1>2, <2>3, <3>3 DEF b
      <4> QED BY <4>1, <4>2
    <3> QED BY <3>2, <3>3
  <2> QED BY <2>2, <2>3
<1>4. ASSUME NEW t \in Txs
      PROVE  mined'[t] \in Inclusions /\ mined'[t].block <= head'
  <2>1. CASE mined'[t] = mined[t]
    BY <1>1, <2>1 DEF Grounds, Inclusions
  <2>2. CASE mined'[t] = Nowhere
    BY <1>1, <2>2, NowhereType
  <2>3. ASSUME NEW b \in (head - depth + 1)..(head + 1), mined'[t] = [block |-> b, fork |-> forks + 1]
        PROVE  mined'[t] \in Inclusions /\ mined'[t].block <= head'
    <3>1. b \in 0..MaxHeight /\ forks + 1 \in 0..MaxForks /\ b <= head'
      BY <1>1
    <3> QED BY <2>3, <3>1 DEF Inclusions
  <2> QED BY <1>3, <2>1, <2>2, <2>3
<1>5. mined' \in [Txs -> Inclusions]
  BY <1>2, <1>4
<1>6. head' \in Start..MaxHeight /\ cursor \in 0..head' /\ forks' \in 0..MaxForks
  BY <1>1 DEF Grounds
<1>7. \A d \in Deals : EnrollmentOK(enrollments[d])'
  BY <1>1 DEF Grounds, EnrollmentOK, Reorganize, operator
<1>8. Grounds'
  BY <1>1, <1>4, <1>5, <1>6, <1>7 DEF Grounds, Reorganize, disk, operator
<1>9. Keeps
  <2> SUFFICES ASSUME NEW t \in Txs, Served(t)'
               PROVE  mined'[t].block > head - Overlap \/ (Served(t) /\ mined'[t] = mined[t] /\ (Caught(t) => Caught(t)'))
    BY DEF Keeps
  <2>1. CASE mined'[t] = mined[t]
    BY <2>1 DEF Served, Caught, AnySeen, Reorganize, disk, operator
  <2>2. mined'[t] # Nowhere
    BY DEF Served
  <2>3. ASSUME NEW b \in (head - depth + 1)..(head + 1), mined'[t] = [block |-> b, fork |-> forks + 1]
        PROVE  mined'[t].block > head - Overlap
    <3>1. b > head - Overlap
      BY <1>1
    <3> QED BY <2>3, <3>1
  <2> QED BY <1>3, <2>1, <2>2, <2>3
<1>10. PassOK' /\ Behind'
  BY <1>1, <1>8, <1>9, PassKept, BehindKept DEF Reorganize, disk
<1> QED BY <1>8, <1>10 DEF ScanInv

\* A new enrollment makes no block count that is there already.
LEMMA EnrollScan ==
  ASSUME ScanInv, NEW d \in Deals, Enroll(d)
  PROVE  ScanInv'
<1> USE ScanConstants
<1>1. Grounds /\ head \in Nat /\ Start \in Nat /\ Start <= head
  BY Numbers DEF ScanInv
<1>2. PICK from \in Earlier \cup {head + 1} :
        enrollments' = [enrollments EXCEPT ![d] = [from |-> from, head |-> head]]
  BY DEF Enroll
<1>3. from \in Nat
  BY <1>1
<1>4. enrollments' \in [Deals -> [from: Nat, head: Nat]]
  BY <1>1, <1>2, <1>3 DEF Grounds
<1>5. \A e \in Deals : enrollments'[e] = IF e = d THEN [from |-> from, head |-> head] ELSE enrollments[e]
  BY <1>1, <1>2 DEF Grounds
<1>6. \A e \in Deals : EnrollmentOK(enrollments[e])'
  BY <1>1, <1>5 DEF Grounds, EnrollmentOK, Enroll, chain
<1>7. Grounds'
  BY <1>1, <1>4, <1>6 DEF Grounds, Enroll, chain, disk
<1>8. Keeps
  <2> SUFFICES ASSUME NEW t \in Txs, Served(t)' PROVE Served(t) /\ mined'[t] = mined[t] /\ (Caught(t) => Caught(t)')
    BY DEF Keeps
  <2>1. mined' = mined /\ tasks' = tasks /\ alarms' = alarms /\ seen' = seen
    BY DEF Enroll, chain, disk
  <2>2. PICK k \in DOMAIN Logs[t] :
           /\ mined[t].block > enrollments'[Logs[t][k]].head
           /\ mined[t].block >= enrollments'[Logs[t][k]].from
    BY <2>1 DEF Served
  <2>3. Logs[t] \in Seq(Deals)
    OBVIOUS
  <2>4. Logs[t][k] \in Deals
    BY <2>2, <2>3
  <2>5. mined[t].block <= head /\ mined[t].block \in Nat
    BY <1>1 DEF Grounds, Inclusions
  <2>6. Logs[t][k] # d
    BY <1>1, <1>5, <2>2, <2>5
  <2>7. enrollments'[Logs[t][k]] = enrollments[Logs[t][k]]
    BY <1>5, <2>4, <2>6
  <2> QED BY <2>1, <2>2, <2>7 DEF Served, Caught, AnySeen
<1>9. PassOK' /\ Behind'
  BY <1>1, <1>7, <1>8, PassKept, BehindKept DEF Enroll, chain, disk
<1> QED BY <1>7, <1>9 DEF ScanInv

\* A step that changes no more than the tasks, the alarms and the pass, and the cursor as far
\* as the pass has read, leaves the rest of the grounds as it was.
LEMMA GroundsKept ==
  ASSUME Grounds, chain' = chain, operator' = operator, seen' \subseteq Txs \X Inclusions,
         tasks' \in [Txs -> Tasks],
         \A t \in Txs : tasks'[t].state \in {"WAITING", "COMPLETED"} => tasks'[t].inc # Nowhere,
         cursor' \in 0..head
  PROVE  Grounds'
BY DEF Grounds, chain, operator, EnrollmentOK

\* One task is written, and the others stay as they are.
LEMMA WriteTask ==
  ASSUME Grounds, NEW t \in Txs, NEW task \in Tasks, Write(t, task),
         task.state \in {"WAITING", "COMPLETED"} => task.inc # Nowhere
  PROVE  /\ tasks' \in [Txs -> Tasks]
         /\ \A x \in Txs : tasks'[x] = IF x = t THEN task ELSE tasks[x]
         /\ \A x \in Txs : tasks'[x].state \in {"WAITING", "COMPLETED"} => tasks'[x].inc # Nowhere
<1>1. tasks' \in [Txs -> Tasks] /\ \A x \in Txs : tasks'[x] = IF x = t THEN task ELSE tasks[x]
  BY DEF Grounds, Write
<1> QED BY <1>1 DEF Grounds

\* The pass over what it wrote before.
LEMMA StartScanStep == ASSUME ScanInv, StartScan PROVE ScanInv'
<1> DEFINE left == {t \in Txs : tasks[t].inc # Nowhere}
<1>1. Grounds /\ pass' = AfterChecks(left) /\ tasks' = tasks
  BY DEF ScanInv, StartScan, disk
<1>2. Grounds'
  BY <1>1, GroundsKept DEF StartScan, disk, Grounds
<1>3. Keeps
  BY MeetsAll DEF Caught, AnySeen, StartScan, chain, disk, operator
<1>4. Behind'
  BY <1>2, <1>3, BehindKept DEF StartScan, disk
<1>5. PassOK'
  <2>1. left \in SUBSET Txs
    OBVIOUS
  <2>2. /\ pass' \in Passes /\ pass'.at \in {"Idle", "Check", "Head"}
        /\ pass'.from = 0 /\ pass'.to = 0 /\ pass'.head = 0
        /\ pass'.at = "Check" => pass'.left = left
    BY <1>1, <2>1, AfterChecksType
  <2> QED BY <1>1, <2>2, Between
<1> QED BY <1>2, <1>4, <1>5 DEF ScanInv

\* Reading the head opens the first window.
LEMMA ReadHeadStep == ASSUME ScanInv, ReadHead PROVE ScanInv'
<1>1. Grounds /\ Behind /\ pass' = WindowFrom(First, head)
  BY DEF ScanInv, ReadHead
<1>2. Grounds'
  BY <1>1, GroundsKept DEF ReadHead, disk, Grounds
<1>3. Keeps
  BY MeetsAll DEF Caught, AnySeen, ReadHead, chain, disk, operator
<1>4. Behind'
  BY <1>2, <1>3, BehindKept DEF ReadHead, disk
<1>5. First \in Nat /\ Start <= First /\ head \in Nat /\ head' = head
  BY <1>1, Numbers DEF First, ReadHead, chain
<1>6. CASE pass' = Idle
  BY <1>2, <1>4, <1>6, Ended DEF ScanInv
<1>7. CASE pass' # Idle
  <2>1. /\ pass' \in Passes /\ pass'.at = "Logs" /\ pass'.from = First /\ pass'.head = head
        /\ First <= pass'.to /\ pass'.to <= head /\ pass'.to - First < Window
    BY <1>1, <1>5, <1>7, WindowType
  <2>2. ASSUME NEW t \in Txs, Served(t)', mined'[t].block < First
        PROVE  Caught(t)'
    <3>1. Served(t) /\ mined' = mined
      BY <2>2 DEF ReadHead, chain, operator, Served
    <3>2. mined[t].block > Start
      BY <1>1, <3>1, ServedHigh
    <3>3. mined[t].block < cursor - Overlap
      BY <1>1, <2>2, <3>1, <3>2, Numbers DEF First
    <3>4. Caught(t)
      BY <1>1, <3>1, <3>3 DEF Behind
    <3> QED BY <3>4 DEF Caught, AnySeen, ReadHead, chain, disk
  <2>3. InWindow'
    BY <1>5, <2>1, <2>2 DEF InWindow
  <2>4. PassOK'
    BY <2>1, <2>3 DEF PassOK
  <2> QED BY <1>2, <1>4, <2>4 DEF ScanInv
<1> QED BY <1>6, <1>7

\* The transactions of the window, as the chain has them at that moment.
LEMMA FindLogsStep == ASSUME ScanInv, FindLogs PROVE ScanInv'
<1> DEFINE found == {<<t, mined[t]>> : t \in {x \in Txs : mined[x].block \in pass.from..pass.to}}
<1>1. Grounds /\ PassOK /\ InWindow /\ pass \in Passes /\ pass.at = "Logs"
  BY DEF ScanInv, PassOK, FindLogs
<1>2. Grounds'
  BY <1>1, GroundsKept DEF FindLogs, disk, Grounds
<1>3. Keeps
  BY MeetsAll DEF Caught, AnySeen, FindLogs, chain, disk, operator
<1>4. Behind'
  BY <1>2, <1>3, BehindKept DEF FindLogs, disk
<1>5. found \subseteq Txs \X Inclusions
  BY <1>1 DEF Grounds
<1>6. \A c \in found : c[2] # Nowhere
  <2> SUFFICES ASSUME NEW t \in Txs, mined[t].block \in pass.from..pass.to PROVE mined[t] # Nowhere
    OBVIOUS
  <2>1. mined[t].block >= Start /\ Start > 0 /\ Start \in Nat
    BY <1>1, Numbers DEF InWindow, Passes
  <2> QED BY <2>1, NowhereType
<1>7. pass' = [pass EXCEPT !.at = "Receipts", !.left = found]
  BY DEF FindLogs
<1>8. /\ pass' \in Passes /\ pass'.at = "Receipts" /\ pass'.left = found
      /\ pass'.from = pass.from /\ pass'.to = pass.to /\ pass'.head = pass.head
  <2> HIDE DEF found
  <2> QED BY <1>1, <1>5, <1>7 DEF Passes, Places
<1>9. head' = head /\ head \in Nat /\ mined' = mined
  BY <1>1, Numbers DEF FindLogs, chain
<1>10. InWindow'
  BY <1>1, <1>2, <1>3, <1>8, <1>9, WindowKept
<1>11. InReceipts'
  <2>1. \A t \in Txs : mined'[t].block \in pass'.from..pass'.to => <<t, mined'[t]>> \in pass'.left
    BY <1>8, <1>9
  <2> QED BY <1>5, <1>6, <1>8, <2>1 DEF InReceipts
<1>12. PassOK'
  BY <1>8, <1>10, <1>11 DEF PassOK
<1> QED BY <1>2, <1>4, <1>12 DEF ScanInv

\* The cursor moves to the end of a window of which nothing is left to read.
LEMMA AdvanceStep == ASSUME ScanInv, Advance PROVE ScanInv'
<1>1. /\ Grounds /\ Behind /\ PassOK /\ InWindow /\ InReceipts /\ pass \in Passes /\ pass.left = {}
      /\ cursor' = pass.to /\ pass' = WindowFrom(pass.to + 1, pass.head)
  BY DEF ScanInv, PassOK, Advance
<1>2. /\ pass.from \in Nat /\ pass.to \in Nat /\ pass.head \in Nat /\ head \in Nat /\ head' = head
      /\ Start <= pass.from /\ pass.from <= pass.to /\ pass.to <= pass.head /\ pass.head <= head
      /\ Overlap \in Nat /\ Start \in Nat /\ cursor' \in 0..head
  BY <1>1, Numbers DEF InWindow, Passes, Advance, chain
<1>3. Grounds'
  BY <1>1, <1>2, GroundsKept DEF Advance, Grounds
<1>4. ASSUME NEW t \in Txs, Served(t)', mined'[t].block <= pass.to, mined'[t].block <= pass.head - Overlap
      PROVE  Caught(t)'
  <2>1. Served(t) /\ mined' = mined /\ Settled(t)
    BY <1>4 DEF Advance, chain, operator, Served, Settled
  <2>2. mined[t].block \in Nat
    BY <1>1, Numbers
  <2>3. CASE mined[t].block < pass.from
    BY <1>1, <2>1, <2>3, <1>4 DEF InWindow, Caught, AnySeen, Advance
  <2>4. CASE ~(mined[t].block < pass.from)
    <3>1. mined[t].block \in pass.from..pass.to
      BY <2>1, <2>2, <2>4, <1>2, <1>4
    <3> QED BY <1>1, <2>1, <3>1 DEF InReceipts, Caught, AnySeen, Advance
  <2> QED BY <2>3, <2>4
<1>5. Behind'
  <2> SUFFICES ASSUME NEW t \in Txs, Served(t)', mined'[t].block < cursor' - Overlap
               PROVE  Caught(t)'
    BY DEF Behind
  <2>1. mined'[t].block \in Nat
    BY <1>3 DEF Grounds, Inclusions
  <2>2. mined'[t].block <= pass.to /\ mined'[t].block <= pass.head - Overlap
    BY <1>1, <1>2, <2>1
  <2> QED BY <1>4, <2>2
<1>6. CASE pass' = Idle
  BY <1>3, <1>5, <1>6, Ended DEF ScanInv
<1>7. CASE pass' # Idle
  <2>1. /\ pass' \in Passes /\ pass'.at = "Logs" /\ pass'.from = pass.to + 1 /\ pass'.head = pass.head
        /\ pass.to + 1 <= pass'.to /\ pass'.to <= pass.head /\ pass'.to - (pass.to + 1) < Window
    BY <1>1, <1>2, <1>7, WindowType
  <2>2. ASSUME NEW t \in Txs, Served(t)', mined'[t].block < pass'.from, Settled(t)'
        PROVE  Caught(t)'
    <3>1. mined'[t].block \in Nat
      BY <1>3 DEF Grounds, Inclusions
    <3>2. mined'[t].block <= pass.to /\ mined'[t].block <= pass.head - Overlap
      BY <1>2, <2>1, <2>2, <3>1 DEF Settled
    <3> QED BY <1>4, <2>2, <3>2
  <2>3. InWindow'
    BY <1>2, <2>1, <2>2 DEF InWindow
  <2>4. PassOK'
    BY <2>1, <2>3 DEF PassOK
  <2> QED BY <1>3, <1>5, <2>4 DEF ScanInv
<1> QED BY <1>6, <1>7

\* A pass that stops leaves the disk as it found it.
LEMMA StopStep == ASSUME ScanInv, Stop PROVE ScanInv'
<1>1. Grounds /\ pass' = Idle
  BY DEF ScanInv, Stop
<1>2. Grounds'
  BY <1>1, GroundsKept DEF Stop, disk, Grounds
<1>3. Keeps
  BY MeetsAll DEF Caught, AnySeen, Stop, chain, disk, operator
<1>4. Behind'
  BY <1>2, <1>3, BehindKept DEF Stop, disk
<1> QED BY <1>1, <1>2, <1>4, Ended DEF ScanInv

\* The record of a task that no resume takes away from what the chain has.
Keeping(t, task) ==
    \/ task.inc = mined[t]
    \/ task.state = "ATTENTION" /\ (task.inc = Nowhere \/ <<t, task.inc>> \in seen)

\* A task may be written anew as long as one that is served is met by it.
LEMMA WriteKept ==
  ASSUME ScanInv, NEW t \in Txs, NEW task \in Tasks, Write(t, task),
         task.state \in {"WAITING", "COMPLETED"} => task.inc # Nowhere,
         Served(t) => Keeping(t, task),
         chain' = chain, operator' = operator, cursor' = cursor, alarms' = alarms,
         seen \subseteq seen', seen' \subseteq Txs \X Inclusions
  PROVE  Grounds' /\ Keeps /\ Behind'
<1>1. /\ tasks' \in [Txs -> Tasks]
      /\ \A x \in Txs : tasks'[x] = IF x = t THEN task ELSE tasks[x]
      /\ \A x \in Txs : tasks'[x].state \in {"WAITING", "COMPLETED"} => tasks'[x].inc # Nowhere
  BY WriteTask DEF ScanInv
<1>2. Grounds'
  BY <1>1, GroundsKept DEF ScanInv, Grounds
<1>3. mined' = mined /\ enrollments' = enrollments
  BY DEF chain, operator
<1>4. ASSUME NEW x \in Txs, Served(x), Caught(x)
      PROVE  Caught(x)'
  <2>1. CASE x = t
    <3>1. Keeping(t, task) /\ tasks'[t] = task
      BY <1>1, <1>4, <2>1
    <3> QED BY <1>3, <2>1, <3>1 DEF Keeping, Caught, AnySeen
  <2>2. CASE x # t
    BY <1>1, <1>3, <1>4, <2>2 DEF Caught, AnySeen
  <2> QED BY <2>1, <2>2
<1>5. Keeps
  BY <1>3, <1>4, MeetsAll
<1>6. Behind'
  BY <1>2, <1>5, BehindKept
<1> QED BY <1>2, <1>5, <1>6

\* A task set aside, with no inclusion.
LEMMA RemovedType ==
  ASSUME NEW state \in {"ATTENTION", "ORPHANED"}
  PROVE  Removed(state) \in Tasks /\ Removed(state).state = state /\ Removed(state).inc = Nowhere
BY NowhereType DEF Removed, Tasks, States

\* One task compared with the chain.
LEMMA CheckInclusionStep ==
  ASSUME ScanInv, NEW t \in Txs, CheckInclusion(t)
  PROVE  ScanInv'
<1>1. /\ Grounds /\ PassOK /\ Behind /\ pass.at = "Check" /\ t \in pass.left
      /\ pass' = AfterChecks(pass.left \ {t})
      /\ chain' = chain /\ operator' = operator /\ cursor' = cursor /\ alarms' = alarms /\ seen' = seen
      /\ seen \subseteq Txs \X Inclusions /\ tasks[t] \in Tasks
  BY DEF ScanInv, CheckInclusion, Grounds
<1>2. /\ Grounds' /\ Behind'
      /\ \A x \in Txs \ {t} : tasks'[x] = tasks[x]
  <2>1. CASE tasks' = tasks
    <3>1. Grounds'
      BY <1>1, <2>1, GroundsKept DEF Grounds
    <3>2. Keeps
      BY <1>1, <2>1, MeetsAll DEF Caught, AnySeen, chain, operator
    <3> QED BY <1>1, <2>1, <3>1, <3>2, BehindKept
  <2>2. ASSUME NEW task \in Tasks, Write(t, task),
               task.state \in {"WAITING", "COMPLETED"} => task.inc # Nowhere,
               Served(t) => Keeping(t, task)
        PROVE  Grounds' /\ Behind' /\ \A x \in Txs \ {t} : tasks'[x] = tasks[x]
    BY <1>1, <2>2, WriteKept, WriteTask
  <2>3. CASE mined[t] = Nowhere /\ Write(t, Removed(IF AnySeen(t) THEN "ATTENTION" ELSE "ORPHANED"))
    BY <2>2, <2>3, RemovedType DEF Served, Keeping
  <2>4. CASE /\ mined[t] \notin {Nowhere, tasks[t].inc}
             /\ Write(t, IF AnySeen(t) THEN [Readmitted(t) EXCEPT !.state = "ATTENTION"] ELSE Readmitted(t))
    <3> DEFINE again == Readmitted(t)
               stopped == [again EXCEPT !.state = "ATTENTION"]
    <3>1. /\ again \in Tasks /\ stopped \in Tasks /\ stopped.state = "ATTENTION"
          /\ again.state \in {"WAITING", "COMPLETED"} => again.inc # Nowhere
          /\ stopped.inc = again.inc
          /\ Served(t) => again.inc = mined[t]
      <4>1. Served(t) => ~Unenrolled(t)
        BY <1>1, ServedHigh
      <4> QED BY <1>1, <2>4, <4>1, ReadmittedType DEF Tasks, States
    <3>2. Write(t, IF AnySeen(t) THEN stopped ELSE again)
      BY <2>4
    <3> HIDE DEF again, stopped
    <3> QED BY <2>2, <3>1, <3>2 DEF Keeping
  <2>5. CASE Write(t, Removed("ATTENTION"))
    BY <2>2, <2>5, RemovedType DEF Keeping
  <2> QED BY <2>1, <2>3, <2>4, <2>5 DEF CheckInclusion
<1>3. pass.left \in SUBSET Txs
  BY <1>1 DEF PassOK
<1>4. PassOK'
  <2>1. /\ pass' \in Passes /\ pass'.at \in {"Idle", "Check", "Head"}
        /\ pass'.from = 0 /\ pass'.to = 0 /\ pass'.head = 0
        /\ pass'.at = "Check" => pass'.left = pass.left \ {t}
    BY <1>1, <1>3, AfterChecksType
  <2>2. \A x \in pass.left \ {t} : x \in Txs /\ tasks'[x].inc # Nowhere
    BY <1>1, <1>2, <1>3 DEF PassOK
  <2> QED BY <2>1, <2>2, Between
<1> QED BY <1>2, <1>4 DEF ScanInv

\* The same task, and a stop before its second write.
LEMMA InterruptedStep ==
  ASSUME ScanInv, NEW t \in Txs, Interrupted(t)
  PROVE  ScanInv'
<1>1. /\ Grounds /\ pass' = Idle /\ mined[t] # Nowhere /\ Write(t, Readmitted(t))
      /\ chain' = chain /\ operator' = operator /\ cursor' = cursor /\ alarms' = alarms /\ seen' = seen
      /\ seen \subseteq Txs \X Inclusions /\ ~Unenrolled(t)
  BY DEF ScanInv, Interrupted, Grounds
<1>2. Grounds' /\ Behind'
  BY <1>1, ReadmittedType, WriteKept DEF Keeping
<1> QED BY <1>1, <1>2, Ended DEF ScanInv

\* A stopped task set going by the operator: what the scan owes has not moved, for a task
\* whose inclusion the chain has replaced is either recorded or still to be checked.
LEMMA ResumeStep ==
  ASSUME ScanInv, NEW t \in Txs, Resume(t)
  PROVE  ScanInv'
<1> DEFINE going == [tasks[t] EXCEPT !.state = "WAITING"]
<1>1. /\ Grounds /\ tasks[t] \in Tasks /\ tasks[t].inc # Nowhere /\ ~AnySeen(t)
      /\ tasks[t].state = "ATTENTION" /\ pass = Idle /\ pass' = Idle /\ Write(t, going)
      /\ chain' = chain /\ operator' = operator /\ cursor' = cursor /\ alarms' = alarms /\ seen' = seen
      /\ mined' = mined /\ enrollments' = enrollments /\ seen \subseteq Txs \X Inclusions
  BY DEF ScanInv, Resume, Grounds, chain, operator
<1>2. going \in Tasks /\ going.inc = tasks[t].inc /\ going.inc # Nowhere
  BY <1>1 DEF Tasks, States
<1> HIDE DEF going
<1>3. /\ tasks' \in [Txs -> Tasks]
      /\ \A x \in Txs : tasks'[x] = IF x = t THEN going ELSE tasks[x]
      /\ \A x \in Txs : tasks'[x].state \in {"WAITING", "COMPLETED"} => tasks'[x].inc # Nowhere
  BY <1>1, <1>2, WriteTask
<1>4. Grounds'
  BY <1>1, <1>3, GroundsKept DEF Grounds
<1>5. ASSUME NEW x \in Txs, Served(x), Caught(x)
      PROVE  Caught(x)'
  <2>1. CASE x = t
    BY <1>1, <1>2, <1>3, <1>5, <2>1 DEF Caught, AnySeen
  <2>2. CASE x # t
    BY <1>1, <1>3, <1>5, <2>2 DEF Caught, AnySeen
  <2> QED BY <2>1, <2>2
<1>6. Behind'
  BY <1>1, <1>4, <1>5, MeetsAll, BehindKept
<1> QED BY <1>1, <1>4, <1>6, Ended DEF ScanInv

\* A task carried to its end: it keeps its inclusion.
LEMMA CarryStep ==
  ASSUME ScanInv, NEW t \in Txs, Carry(t)
  PROVE  ScanInv'
<1> DEFINE done == [tasks[t] EXCEPT !.state = "COMPLETED"]
<1>1. /\ Grounds /\ tasks[t] \in Tasks /\ mined[t] \in Inclusions /\ tasks[t].inc = mined[t]
      /\ tasks[t].state = "WAITING" /\ pass = Idle /\ pass' = Idle /\ Write(t, done)
      /\ chain' = chain /\ operator' = operator /\ cursor' = cursor /\ alarms' = alarms
      /\ seen' = seen \cup {<<t, mined[t]>>} /\ seen \subseteq Txs \X Inclusions
  BY DEF ScanInv, Carry, Grounds
<1>2. done \in Tasks /\ done.inc = mined[t] /\ mined[t] # Nowhere
  BY <1>1 DEF Tasks, States, Grounds
<1>3. seen' \subseteq Txs \X Inclusions
  BY <1>1
<1>4. Grounds' /\ Behind'
  <2> HIDE DEF done
  <2> QED BY <1>1, <1>2, <1>3, WriteKept DEF Keeping
<1> QED BY <1>1, <1>4, Ended DEF ScanInv

\* The pass without one receipt it has dealt with.
LEMMA NextReceiptType ==
  ASSUME ScanInv, Grounds', Keeps, pass.at = "Receipts", NEW c \in Txs \X Inclusions,
         pass' = NextReceipt(c), head' = head, mined' = mined,
         Served(c[1]) /\ mined[c[1]] = c[2] => Caught(c[1])'
  PROVE  PassOK'
<1>1. /\ PassOK /\ InWindow /\ InReceipts /\ pass \in Passes /\ pass' = [pass EXCEPT !.left = pass.left \ {c}]
      /\ head \in Nat
  BY Numbers DEF ScanInv, PassOK, NextReceipt
<1>2. /\ pass' \in Passes /\ pass'.at = "Receipts" /\ pass'.left = pass.left \ {c}
      /\ pass'.from = pass.from /\ pass'.to = pass.to /\ pass'.head = pass.head
  BY <1>1 DEF Passes, Places
<1>3. InWindow'
  BY <1>1, <1>2, WindowKept
<1>4. ASSUME NEW t \in Txs, Served(t)', mined'[t].block \in pass'.from..pass'.to, Settled(t)'
      PROVE  Caught(t)' \/ <<t, mined'[t]>> \in pass'.left
  <2>1. head \in Nat /\ Overlap \in Nat /\ pass.head \in Nat /\ pass.head <= head /\ mined[t].block \in Nat
    BY <1>1, Numbers DEF ScanInv, InWindow, Passes
  <2>2. ~(mined'[t].block > head - Overlap)
    BY <1>2, <1>4, <2>1 DEF Settled
  <2>3. Served(t) /\ (Caught(t) => Caught(t)')
    BY <1>4, <2>2 DEF Keeps
  <2>4. mined[t].block \in pass.from..pass.to /\ Settled(t)
    BY <1>2, <1>4 DEF Settled
  <2>5. Caught(t) \/ <<t, mined[t]>> \in pass.left
    BY <1>1, <2>3, <2>4 DEF InReceipts
  <2>6. CASE <<t, mined[t]>> = c
    BY <2>3, <2>6
  <2>7. CASE <<t, mined[t]>> # c
    BY <1>2, <2>3, <2>5, <2>7
  <2> QED BY <2>6, <2>7
<1>5. InReceipts'
  BY <1>1, <1>2, <1>4 DEF InReceipts
<1> QED BY <1>2, <1>3, <1>5 DEF PassOK

\* One receipt read, and what becomes of it.
LEMMA IngestReceiptStep ==
  ASSUME ScanInv, NEW c \in Txs \X Inclusions, IngestReceipt(c)
  PROVE  ScanInv'
<1> DEFINE t == c[1]
<1>1. /\ Grounds /\ PassOK /\ pass.at = "Receipts" /\ c \in pass.left /\ t \in Txs
      /\ chain' = chain /\ operator' = operator /\ cursor' = cursor /\ seen' = seen
      /\ seen \subseteq Txs \X Inclusions /\ head' = head /\ mined' = mined /\ enrollments' = enrollments
      /\ tasks[t] \in Tasks /\ c[2] # Nowhere
  BY DEF ScanInv, IngestReceipt, Grounds, PassOK, InReceipts, chain, operator
<1>2. CASE tasks' = tasks /\ \E reason \in {"SOURCE_RECEIPT_CONTRADICTION", "SOURCE_ADMISSION_FAILURE"} : Raise(reason)
  <2>1. Grounds' /\ pass' = Idle /\ alarms' # {}
    BY <1>1, <1>2, GroundsKept DEF Grounds, Raise
  <2>2. Keeps
    BY <1>1, <2>1, MeetsAll DEF Caught, AnySeen
  <2> QED BY <1>1, <2>1, <2>2, BehindKept, Ended DEF ScanInv
<1>3. CASE /\ tasks' = tasks /\ alarms' = alarms /\ pass' = NextReceipt(c)
           /\ Unenrolled(t) \/ tasks[t].inc = mined[t]
  <2>1. Grounds'
    BY <1>1, <1>3, GroundsKept DEF Grounds
  <2>2. Keeps
    BY <1>1, <1>3, MeetsAll DEF Caught, AnySeen
  <2>3. Served(t) => Caught(t)'
    BY <1>1, <1>3, ServedHigh DEF Caught, AnySeen
  <2>4. Behind'
    BY <1>1, <2>1, <2>2, BehindKept
  <2>5. PassOK'
    BY <1>1, <1>3, <2>1, <2>2, <2>3, NextReceiptType
  <2> QED BY <2>1, <2>4, <2>5 DEF ScanInv
<1>4. CASE /\ Matches(c) /\ ~Unenrolled(t) /\ alarms' = alarms
           /\ Write(t, IF AnySeen(t) THEN [tasks[t] EXCEPT !.state = "ATTENTION"] ELSE Admitted(t))
           /\ pass' = IF AnySeen(t) \/ Mixed(t) THEN Idle ELSE NextReceipt(c)
  <2> DEFINE stopped == [tasks[t] EXCEPT !.state = "ATTENTION"]
             task == IF AnySeen(t) THEN stopped ELSE Admitted(t)
  <2>1. mined[t] # Nowhere
    BY <1>1, <1>4 DEF Matches
  <2>2. stopped \in Tasks /\ stopped.state = "ATTENTION" /\ stopped.inc = tasks[t].inc
    BY <1>1 DEF Tasks, States
  <2>3. Admitted(t) \in Tasks /\ Admitted(t).inc = mined[t]
    BY <1>1, <2>1, ReadmittedType
  <2> HIDE DEF stopped
  <2>4. /\ task \in Tasks
        /\ task.state \in {"WAITING", "COMPLETED"} => task.inc # Nowhere
        /\ Keeping(t, task)
    BY <2>1, <2>2, <2>3 DEF Keeping, AnySeen
  <2>5. Write(t, task)
    BY <1>4 DEF stopped
  <2> HIDE DEF task
  <2>6. Grounds' /\ Keeps /\ Behind'
    BY <1>1, <1>4, <2>4, <2>5, WriteKept
  <2>7. CASE pass' = Idle
    BY <2>6, <2>7, Ended DEF ScanInv
  <2>8. CASE pass' # Idle
    <3>1. tasks'[t] = task
      BY <1>1, <2>4, <2>5, WriteTask
    <3>2. Caught(t)'
      BY <1>1, <2>4, <3>1 DEF Caught, AnySeen, Keeping
    <3>3. PassOK'
      BY <1>1, <1>4, <2>6, <2>8, <3>2, NextReceiptType
    <3> QED BY <2>6, <3>3 DEF ScanInv
  <2> QED BY <2>7, <2>8
<1> QED BY <1>2, <1>3, <1>4 DEF IngestReceipt

\* Nothing happens.
LEMMA StutterScan == ASSUME ScanInv, UNCHANGED vars PROVE ScanInv'
BY DEF ScanInv, vars, chain, disk, operator, Grounds, EnrollmentOK, PassOK, InWindow, InReceipts, Behind,
       Served, Caught, AnySeen, Settled

\* Every step keeps the invariant.
LEMMA ScanStep == ScanInv /\ [Next]_vars => ScanInv'
<1> SUFFICES ASSUME ScanInv, [Next]_vars PROVE ScanInv'
  OBVIOUS
<1>1. CASE \E included \in SUBSET Pending : Grow(included)
  BY <1>1, GrowScan
<1>2. CASE \E depth \in 1..MaxDepth : Reorganize(depth)
  BY <1>2, ReorganizeScan
<1>3. CASE \E d \in Deals : Enroll(d)
  BY <1>3, EnrollScan
<1>4. CASE Scan
  BY <1>4, StartScanStep, ReadHeadStep, FindLogsStep, AdvanceStep, CheckInclusionStep, IngestReceiptStep DEF Scan
<1>5. CASE Stop
  BY <1>5, StopStep
<1>6. CASE \E t \in Txs : Interrupted(t)
  BY <1>6, InterruptedStep
<1>7. CASE \E t \in Txs : Resume(t)
  BY <1>7, ResumeStep
<1>8. CASE \E t \in Txs : Carry(t)
  BY <1>8, CarryStep
<1>9. CASE UNCHANGED vars
  BY <1>9, StutterScan
<1> QED BY <1>1, <1>2, <1>3, <1>4, <1>5, <1>6, <1>7, <1>8, <1>9 DEF Next

\* The inductive invariant holds throughout.
LEMMA ScanInvHolds == Spec => []ScanInv
BY InitScan, ScanStep, PTL DEF Spec

-----------------------------------------------------------------------------
(* What follows for the worker. *)

\* However often the worker stops, fails to read, meets a limit or is overtaken by a
\* reorganization, and whenever its operator enrolls a deal, the cursor does not leave an
\* event that it serves behind for good: a task has been made of it, or the worker has
\* stopped and said so.
THEOREM CursorPassesNothing == Spec => []NothingPassed
<1>1. ScanInv => NothingPassed
  <2> SUFFICES ASSUME ScanInv PROVE NothingPassed
    OBVIOUS
  <2>1. Grounds /\ PassOK /\ Behind
    BY DEF ScanInv
  <2>2. pass.to <= pass.head /\ pass.to - pass.from < Window
    <3>1. CASE pass.at \in {"Logs", "Receipts"}
      BY <2>1, <3>1 DEF PassOK, InWindow
    <3>2. CASE pass.at \notin {"Logs", "Receipts"}
      BY <2>1, <3>2, Numbers DEF PassOK
    <3> QED BY <3>1, <3>2
  <2>3. tasks \in [Txs -> [state : {"NONE", "WAITING", "ATTENTION", "ORPHANED", "COMPLETED"}, inc : Inclusions]]
    BY <2>1 DEF Grounds, Tasks, States
  <2>4. ScanTypeOK
    BY <2>1, <2>2, <2>3 DEF ScanTypeOK, Grounds
  <2>5. \A t \in Txs : Caught(t) => Met(t)
    BY DEF Caught, Met
  <2> QED BY <2>1, <2>4, <2>5 DEF NothingPassed, Behind
<1> QED BY <1>1, ScanInvHolds, PTL

\* The task is written for another inclusion, and for a whole one.
Afresh(t) ==
    /\ tasks'[t].inc \in {Nowhere, mined[t]} /\ tasks'[t].inc # tasks[t].inc
    /\ tasks'[t].inc # Nowhere => EnrolledLogs(t, mined[t]) = DOMAIN Logs[t]

\* What a step may do to one task that was stopped.
StaysOrWhole(t) ==
    tasks[t].state = "ATTENTION" /\ tasks'[t].state # "ATTENTION" => Resume(t) \/ Afresh(t)

\* A transaction that is neither without an enrolled deal nor mixed is enrolled whole.
LEMMA WholeAdmission ==
  ASSUME Grounds, NEW t \in Txs, mined[t] # Nowhere, ~Unenrolled(t), Admitted(t).state # "ATTENTION"
  PROVE  Admitted(t).inc = mined[t] /\ EnrolledLogs(t, mined[t]) = DOMAIN Logs[t]
BY DEF Admitted, Mixed

\* A task is released by the operator, or by the check of its inclusion or by a receipt, and
\* these two release it for another inclusion.
LEMMA ReleaseStep ==
  ASSUME ScanInv, [Next]_vars, NEW t \in Txs
  PROVE  StaysOrWhole(t)
<1> SUFFICES ASSUME tasks[t].state = "ATTENTION", tasks'[t].state # "ATTENTION"
             PROVE  Resume(t) \/ Afresh(t)
  BY DEF StaysOrWhole
<1>1. Grounds /\ PassOK
  BY DEF ScanInv
<1>2. \A x \in Txs : \A task : Write(x, task) => tasks'[t] = IF x = t THEN task ELSE tasks[t]
  BY <1>1 DEF Grounds, Write
<1>3. tasks' # tasks
  OBVIOUS
<1>4. ASSUME NEW x \in Txs, CheckInclusion(x)
      PROVE  Afresh(t)
  <2>1. x \in pass.left /\ pass.at = "Check"
    BY <1>4 DEF CheckInclusion
  <2>2. CASE mined[x] = Nowhere /\ Write(x, Removed(IF AnySeen(x) THEN "ATTENTION" ELSE "ORPHANED"))
    <3>1. x = t /\ tasks'[t].inc = Nowhere
      BY <1>2, <2>2 DEF Removed
    <3>2. tasks[t].inc # Nowhere
      BY <1>1, <2>1, <3>1 DEF PassOK
    <3> QED BY <3>1, <3>2 DEF Afresh
  <2>3. CASE /\ mined[x] \notin {Nowhere, tasks[x].inc}
             /\ Write(x, IF AnySeen(x) THEN [Readmitted(x) EXCEPT !.state = "ATTENTION"] ELSE Readmitted(x))
    <3>1. x = t
      BY <1>2, <2>3
    <3>2. Readmitted(t) \in Tasks
      BY <1>1, <2>3, <3>1, ReadmittedType
    <3>3. [Readmitted(t) EXCEPT !.state = "ATTENTION"].state = "ATTENTION"
      BY <3>2 DEF Tasks
    <3>4. tasks'[t] = Readmitted(t)
      BY <1>2, <2>3, <3>1, <3>3
    <3>5. ~Unenrolled(t) /\ tasks'[t] = Admitted(t)
      BY <3>4 DEF Readmitted
    <3> QED BY <1>1, <2>3, <3>1, <3>5, WholeAdmission DEF Afresh
  <2>4. CASE Write(x, Removed("ATTENTION"))
    BY <1>2, <2>4 DEF Removed
  <2> QED BY <1>3, <1>4, <2>2, <2>3, <2>4 DEF CheckInclusion
<1>5. ASSUME NEW x \in Txs, Interrupted(x)
      PROVE  Afresh(t)
  <2>1. Write(x, Readmitted(x)) /\ mined[x] \notin {Nowhere, tasks[x].inc} /\ ~Unenrolled(x)
    BY <1>5 DEF Interrupted
  <2>2. x = t /\ tasks'[t] = Admitted(t)
    BY <1>2, <2>1 DEF Readmitted
  <2> QED BY <1>1, <2>1, <2>2, WholeAdmission DEF Afresh
<1>6. ASSUME NEW c \in Txs \X Inclusions, IngestReceipt(c)
      PROVE  Afresh(t)
  <2> DEFINE x == c[1]
  <2>1. /\ x \in Txs /\ Matches(c) /\ ~Unenrolled(x) /\ tasks[x].inc # mined[x]
        /\ Write(x, IF AnySeen(x) THEN [tasks[x] EXCEPT !.state = "ATTENTION"] ELSE Admitted(x))
        /\ c \in pass.left /\ pass.at = "Receipts"
    BY <1>3, <1>6 DEF IngestReceipt
  <2>2. mined[x] # Nowhere
    BY <1>1, <2>1 DEF PassOK, InReceipts, Matches
  <2>3. x = t
    BY <1>2, <2>1
  <2>4. [tasks[t] EXCEPT !.state = "ATTENTION"].state = "ATTENTION"
    BY <1>1 DEF Grounds, Tasks
  <2>5. tasks'[t] = Admitted(t)
    BY <1>2, <2>1, <2>3, <2>4
  <2> QED BY <1>1, <2>1, <2>2, <2>3, <2>5, WholeAdmission DEF Afresh
<1>7. ASSUME NEW x \in Txs, Resume(x)
      PROVE  Resume(t)
  <2>1. Write(x, [tasks[x] EXCEPT !.state = "WAITING"])
    BY <1>7 DEF Resume
  <2>2. x = t
    BY <1>2, <2>1
  <2> QED BY <1>7, <2>2
<1>8. ASSUME NEW x \in Txs, Carry(x)
      PROVE  FALSE
  <2>1. tasks[x].state = "WAITING" /\ Write(x, [tasks[x] EXCEPT !.state = "COMPLETED"])
    BY <1>8 DEF Carry
  <2> QED BY <1>2, <2>1
<1> QED BY <1>3, <1>4, <1>5, <1>6, <1>7, <1>8
        DEF Next, Scan, Grow, Reorganize, Enroll, StartScan, ReadHead, FindLogs, Advance, Stop, disk, vars

\* A transaction that was stopped for want of an enrollment, or for evidence that a
\* reorganization contradicts, is not set going again by the scan, unless for another
\* inclusion with every one of its deals enrolled for that block; otherwise it is the operator
\* who resumes it.
THEOREM StoppedUntilWhole == Spec => ReleasedOnlyWhole
<1> DEFINE Release == \A t \in Txs : StaysOrWhole(t)
<1>1. ScanInv /\ [Next]_vars => [Release]_vars
  BY ReleaseStep
<1>2. [Release]_vars => [\A t \in Txs :
          tasks[t].state = "ATTENTION" /\ tasks'[t].state # "ATTENTION" =>
              \/ Resume(t)
              \/ /\ tasks'[t].inc \in {Nowhere, mined[t]} /\ tasks'[t].inc # tasks[t].inc
                 /\ tasks'[t].inc # Nowhere => EnrolledLogs(t, mined[t]) = DOMAIN Logs[t]]_vars
  BY DEF StaysOrWhole, Afresh
<1>3. Spec => [][Release]_vars
  <2> HIDE DEF Release
  <2> QED BY <1>1, ScanInvHolds, PTL DEF Spec
<1> HIDE DEF Release
<1> QED BY <1>2, <1>3, PTL DEF ReleasedOnlyWhole
=============================================================================
