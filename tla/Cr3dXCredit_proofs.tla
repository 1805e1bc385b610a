-------------------------- MODULE Cr3dXCredit_proofs --------------------------
(***************************************************************************)
(* Theorems about Cr3dXCredit, for every set of deals and borrowers, every *)
(* base limit, every amount and every height.                              *)
(***************************************************************************)
EXTENDS Cr3dXCredit, FoldLemmas

-----------------------------------------------------------------------------
(* Type correctness: each write takes storage to storage. *)

\* What the fields of well-typed storage hold.
LEMMA StorageParts ==
  ASSUME NEW c \in Storage
  PROVE  /\ \A d \in DealIds : c.records[d] \in DealRecord
         /\ \A b \in Borrowers : /\ c.reserved[b] \in Nat
                                /\ c.exposure[b] \in Nat
                                /\ c.counters[b] \in [Outcomes -> Nat]
BY DEF Storage

\* The saturating subtraction of naturals is a natural, never above its first
\* argument.
LEMMA SatSubType ==
  ASSUME NEW a \in Nat, NEW b \in Nat
  PROVE  SatSub(a, b) \in Nat /\ SatSub(a, b) <= a
BY DEF SatSub

\* openDeal writes a well-typed record and a natural reserve.
LEMMA OpenDealType ==
  ASSUME NEW c \in Storage, NEW d \in DealIds, NEW b \in Borrowers, NEW face \in Nat
  PROVE  OpenDeal(c, d, b, face) \in Storage
<1> DEFINE rec == [c.records[d] EXCEPT !.borrower = b, !.faceValue = face]
           held == c.reserved[b] + face
<1>1. rec \in DealRecord
  BY StorageParts DEF DealRecord
<1>2. held \in Nat
  BY StorageParts
<1>3. OpenDeal(c, d, b, face) = [c EXCEPT !.records[d] = rec, !.reserved[b] = held]
  BY DEF OpenDeal
<1> HIDE DEF rec, held
<1>4. [c EXCEPT !.records[d] = rec, !.reserved[b] = held] \in Storage
  BY <1>1, <1>2 DEF Storage
<1> QED BY <1>3, <1>4

\* markFinanced keeps storage well typed: the saturating subtraction cannot
\* take the reserve below zero.
LEMMA MarkFinancedType ==
  ASSUME NEW c \in Storage, NEW d \in DealIds, IsOpen(c, d)
  PROVE  MarkFinanced(c, d) \in Storage
<1> DEFINE b == c.records[d].borrower
           face == c.records[d].faceValue
           rec == [c.records[d] EXCEPT !.financed = TRUE]
           held == SatSub(c.reserved[b], face)
           owed == c.exposure[b] + face
<1>1. b \in Borrowers /\ face \in Nat /\ rec \in DealRecord
  BY StorageParts DEF DealRecord, IsOpen
<1>2. held \in Nat /\ owed \in Nat
  BY <1>1, StorageParts, SatSubType
<1>3. MarkFinanced(c, d) =
        [c EXCEPT !.records[d] = rec, !.reserved[b] = held, !.exposure[b] = owed]
  BY DEF MarkFinanced
<1> HIDE DEF b, face, rec, held, owed
<1>4. [c EXCEPT !.records[d] = rec, !.reserved[b] = held, !.exposure[b] = owed] \in Storage
  BY <1>1, <1>2 DEF Storage
<1> QED BY <1>3, <1>4

\* reduceExposure keeps storage well typed.
LEMMA ReduceExposureType ==
  ASSUME NEW c \in Storage, NEW d \in DealIds, NEW amount \in Nat, IsOpen(c, d)
  PROVE  ReduceExposure(c, d, amount) \in Storage
<1> DEFINE b == c.records[d].borrower
           owed == SatSub(c.exposure[b], amount)
<1>1. b \in Borrowers
  BY StorageParts DEF DealRecord, IsOpen
<1>2. owed \in Nat
  BY <1>1, StorageParts, SatSubType
<1>3. ReduceExposure(c, d, amount) = [c EXCEPT !.exposure[b] = owed]
  BY DEF ReduceExposure
<1> HIDE DEF b, owed
<1>4. [c EXCEPT !.exposure[b] = owed] \in Storage
  BY <1>1, <1>2 DEF Storage
<1> QED BY <1>3, <1>4

\* The counters after a refinement: the previous outcome's is one lower, the
\* new outcome's one higher, and the guard is what keeps both naturals.
LEMMA StepType ==
  ASSUME NEW n \in [Outcomes -> Nat], NEW previous \in Results, NEW r \in Outcomes,
         previous # r, previous # "NONE" => n[previous] > 0
  PROVE  /\ StepUp(StepDown(n, previous), r) \in [Outcomes -> Nat]
         /\ \A q \in Outcomes :
               StepUp(StepDown(n, previous), r)[q] =
                 IF q = r THEN n[q] + 1 ELSE IF q = previous THEN n[q] - 1 ELSE n[q]
<1>1. CASE previous = "NONE"
  BY <1>1 DEF StepUp, StepDown, Outcomes
<1>2. CASE previous # "NONE"
  <2>1. previous \in Outcomes /\ n[previous] - 1 \in Nat
    BY <1>2 DEF Outcomes
  <2> QED BY <1>2, <2>1 DEF StepUp, StepDown
<1> QED BY <1>1, <1>2

\* recordOutcome keeps storage well typed: its guard is what keeps the checked
\* decrement of the previous outcome's counter a natural.
LEMMA RecordOutcomeType ==
  ASSUME NEW c \in Storage, NEW d \in DealIds, NEW r \in Results,
         NEW height \in Heights \cup {NoHeight}, MayRecordOutcome(c, d, r, height)
  PROVE  RecordOutcome(c, d, r, height) \in Storage
<1> DEFINE b == c.records[d].borrower
           previous == c.records[d].outcome
           rec == [c.records[d] EXCEPT !.outcome = r, !.closedAtBlock = height]
           n == StepUp(StepDown(c.counters[b], previous), r)
<1>1. b \in Borrowers /\ previous \in Results /\ r \in Outcomes
  BY StorageParts DEF DealRecord, MayRecordOutcome, IsOpen, Outcomes
<1>2. CASE previous = r
  BY <1>2 DEF RecordOutcome
<1>3. CASE previous # r
  <2>1. n \in [Outcomes -> Nat]
    BY <1>1, <1>3, StorageParts, StepType DEF MayRecordOutcome
  <2>2. rec \in DealRecord
    BY StorageParts DEF DealRecord
  <2>3. RecordOutcome(c, d, r, height) =
          [c EXCEPT !.counters[b] = n, !.records[d] = rec]
    BY <1>3 DEF RecordOutcome
  <2> HIDE DEF b, rec, n
  <2>4. [c EXCEPT !.counters[b] = n, !.records[d] = rec] \in Storage
    BY <1>1, <2>1, <2>2 DEF Storage
  <2> QED BY <2>3, <2>4
<1> QED BY <1>2, <1>3

\* Type correctness is inductive on its own.
LEMMA TypeStep == TypeOK /\ [Next]_vars => TypeOK'
<1> SUFFICES ASSUME TypeOK, [Next]_vars PROVE TypeOK'
  OBVIOUS
<1> USE DEF TypeOK
<1>1. ASSUME NEW d \in DealIds, NEW b \in Borrowers, NEW face \in Amounts,
             CallOpenDeal(d, b, face)
      PROVE  TypeOK'
  BY <1>1, OpenDealType, CreditConstants DEF CallOpenDeal
<1>2. ASSUME NEW d \in DealIds, CallMarkFinanced(d) PROVE TypeOK'
  BY <1>2, MarkFinancedType DEF CallMarkFinanced, MayMarkFinanced
<1>3. ASSUME NEW d \in DealIds, NEW amount \in Amounts, CallReduceExposure(d, amount)
      PROVE  TypeOK'
  BY <1>3, ReduceExposureType, CreditConstants DEF CallReduceExposure, MayReduceExposure
<1>4. ASSUME NEW d \in DealIds, NEW r \in Results, CallRecordOutcome(d, r) PROVE TypeOK'
  BY <1>4, RecordOutcomeType DEF CallRecordOutcome
<1>5. ASSUME NEW h \in Heights, Attest(h) PROVE TypeOK'
  BY <1>5 DEF Attest
<1>6. CASE UNCHANGED vars
  BY <1>6 DEF vars
<1> QED BY <1>1, <1>2, <1>3, <1>4, <1>5, <1>6 DEF Next

\* The empty storage is well typed.
LEMMA TypeInit == Init => TypeOK
BY CreditConstants
   DEF Init, TypeOK, EmptyStorage, NoRecord, Storage, DealRecord, Results, NoHeight

\* TypeOK: no call makes a counter, the reserve or the exposure negative.
THEOREM TypeCorrect == Spec => []TypeOK
BY TypeInit, TypeStep, PTL DEF Spec

-----------------------------------------------------------------------------
(* The counters.  CountersMatchOutcomes is inductive once it is known that a *)
(* deal nobody opened carries no outcome, so opening one changes no recount. *)

Recounted(c) ==
    \A b \in Borrowers, r \in Outcomes : c.counters[b][r] = OutcomeCount(c, b, r)

UnopenedBlank(c) ==
    \A d \in DealIds : ~IsOpen(c, d) => c.records[d].outcome = "NONE"

CountersInv == TypeOK /\ Recounted(credit) /\ UnopenedBlank(credit)

\* The deals OutcomeCount counts.
Counted(c, b, r) == {d \in DealsOf(c, b) : c.records[d].outcome = r}

\* A write that leaves counters, borrowers and outcomes of deals with an
\* outcome alone leaves the recount alone.
LEMMA SameRecount ==
  ASSUME NEW c, NEW n, Recounted(c), n.counters = c.counters,
         \A d \in DealIds, b \in Borrowers, r \in Outcomes :
            d \in Counted(n, b, r) <=> d \in Counted(c, b, r)
  PROVE  Recounted(n)
<1>1. \A b \in Borrowers, r \in Outcomes : Counted(n, b, r) = Counted(c, b, r)
  BY DEF Counted, DealsOf
<1> QED BY <1>1 DEF Recounted, OutcomeCount, Counted

\* What openDeal, markFinanced and reduceExposure do to records and counters.
LEMMA OpenDealEffect ==
  ASSUME NEW c \in Storage, NEW d \in DealIds, NEW b \in Borrowers, NEW face \in Nat
  PROVE  LET n == OpenDeal(c, d, b, face)
         IN  /\ n.counters = c.counters
             /\ \A e \in DealIds :
                   /\ n.records[e].borrower = IF e = d THEN b ELSE c.records[e].borrower
                   /\ n.records[e].outcome = c.records[e].outcome
BY DEF OpenDeal, Storage, DealRecord

\* markFinanced touches no counter, no borrower and no outcome.
LEMMA MarkFinancedEffect ==
  ASSUME NEW c \in Storage, NEW d \in DealIds
  PROVE  LET n == MarkFinanced(c, d)
         IN  /\ n.counters = c.counters
             /\ \A e \in DealIds : /\ n.records[e].borrower = c.records[e].borrower
                                  /\ n.records[e].outcome = c.records[e].outcome
BY DEF MarkFinanced, Storage, DealRecord

\* reduceExposure touches no counter and no record.
LEMMA ReduceExposureEffect ==
  ASSUME NEW c \in Storage, NEW d \in DealIds, NEW amount
  PROVE  LET n == ReduceExposure(c, d, amount)
         IN  n.counters = c.counters /\ n.records = c.records
BY DEF ReduceExposure, Storage

\* recordOutcome changes one record and the counters of its borrower.
LEMMA RecordOutcomeEffect ==
  ASSUME NEW c \in Storage, NEW d \in DealIds, NEW r \in Results, NEW height,
         MayRecordOutcome(c, d, r, height), c.records[d].outcome # r
  PROVE  LET n == RecordOutcome(c, d, r, height)
             b == c.records[d].borrower
         IN  /\ \A e \in DealIds :
                   /\ n.records[e].borrower = c.records[e].borrower
                   /\ n.records[e].outcome = IF e = d THEN r ELSE c.records[e].outcome
             /\ \A x \in Borrowers :
                   n.counters[x] = IF x = b THEN StepUp(StepDown(c.counters[b], c.records[d].outcome), r)
                                   ELSE c.counters[x]
<1> DEFINE b == c.records[d].borrower
           rec == [c.records[d] EXCEPT !.outcome = r, !.closedAtBlock = height]
           k == StepUp(StepDown(c.counters[b], c.records[d].outcome), r)
           n == [c EXCEPT !.counters[b] = k, !.records[d] = rec]
<1>1. RecordOutcome(c, d, r, height) = n
  BY DEF RecordOutcome
<1>2. rec.borrower = c.records[d].borrower /\ rec.outcome = r
  BY DEF Storage, DealRecord
<1> HIDE DEF b, rec, k
<1>3. \A e \in DealIds : n.records[e] = IF e = d THEN rec ELSE c.records[e]
  BY DEF Storage
<1>4. \A x \in Borrowers : n.counters[x] = IF x = b THEN k ELSE c.counters[x]
  BY DEF Storage
<1> HIDE DEF n
<1>5. \A e \in DealIds :
         /\ n.records[e].borrower = c.records[e].borrower
         /\ n.records[e].outcome = IF e = d THEN r ELSE c.records[e].outcome
  BY <1>2, <1>3
<1> QED BY <1>1, <1>4, <1>5 DEF b, k

\* The set recounted for one borrower and one outcome is finite.
LEMMA CountedFinite ==
  ASSUME NEW c, NEW b, NEW r
  PROVE  IsFiniteSet(Counted(c, b, r))
BY CreditConstants, FS_Subset DEF Counted, DealsOf

\* A recount that includes a deal is positive.
LEMMA CountedPositive ==
  ASSUME NEW c, NEW d \in DealIds, Recounted(c), c \in Storage, IsOpen(c, d),
         c.records[d].outcome # "NONE"
  PROVE  c.counters[c.records[d].borrower][c.records[d].outcome] > 0
<1> DEFINE b == c.records[d].borrower
           r == c.records[d].outcome
<1>1. b \in Borrowers /\ r \in Outcomes /\ c.counters[b][r] = OutcomeCount(c, b, r)
  BY StorageParts DEF DealRecord, IsOpen, Outcomes, Recounted
<1>2. c.counters[b][r] \in Nat
  BY <1>1, StorageParts
<1>3. d \in Counted(c, b, r)
  BY DEF Counted, DealsOf
<1>4. Cardinality(Counted(c, b, r)) # 0
  BY <1>3, CountedFinite, FS_EmptySet
<1> QED BY <1>1, <1>2, <1>4 DEF OutcomeCount, Counted

\* recordOutcome moves the deal from one recount to another, and the counters
\* with it.
LEMMA RecordOutcomeRecounted ==
  ASSUME NEW c \in Storage, NEW d \in DealIds, NEW r \in Results, NEW height,
         Recounted(c), MayRecordOutcome(c, d, r, height)
  PROVE  Recounted(RecordOutcome(c, d, r, height))
<1> DEFINE n == RecordOutcome(c, d, r, height)
           b == c.records[d].borrower
           previous == c.records[d].outcome
           k == StepUp(StepDown(c.counters[b], previous), r)
<1>1. CASE previous = r
  BY <1>1 DEF RecordOutcome
<1>2. CASE previous # r
  <2>1. b \in Borrowers /\ previous \in Results /\ r \in Outcomes
    BY StorageParts DEF DealRecord, MayRecordOutcome, IsOpen, Outcomes
  <2>2. \A e \in DealIds :
           /\ n.records[e].borrower = c.records[e].borrower
           /\ n.records[e].outcome = IF e = d THEN r ELSE c.records[e].outcome
    BY <1>2, RecordOutcomeEffect
  <2>3. \A x \in Borrowers : n.counters[x] = IF x = b THEN k ELSE c.counters[x]
    BY <1>2, RecordOutcomeEffect
  <2>4. \A q \in Outcomes :
           k[q] = IF q = r THEN c.counters[b][q] + 1
                  ELSE IF q = previous THEN c.counters[b][q] - 1 ELSE c.counters[b][q]
    BY <1>2, <2>1, StorageParts, StepType DEF MayRecordOutcome
  <2> HIDE DEF n, b, previous, k
  <2> SUFFICES ASSUME NEW x \in Borrowers, NEW q \in Outcomes
               PROVE  n.counters[x][q] = Cardinality(Counted(n, x, q))
    BY DEF n, Recounted, OutcomeCount, Counted
  <2>5. c.counters[x][q] = Cardinality(Counted(c, x, q))
    BY DEF Recounted, OutcomeCount, Counted
  <2>6. CASE x = b /\ q = r
    <3>1. Counted(n, x, q) = Counted(c, x, q) \cup {d}
      BY <2>2, <2>6 DEF Counted, DealsOf, b
    <3>2. d \notin Counted(c, x, q)
      BY <1>2, <2>6 DEF Counted, previous
    <3>3. Cardinality(Counted(n, x, q)) = Cardinality(Counted(c, x, q)) + 1
      <4> DEFINE S == Counted(c, x, q)
      <4>1. IsFiniteSet(S) /\ d \notin S
        BY <3>2, CountedFinite
      <4> HIDE DEF S
      <4>2. Cardinality(S \cup {d}) = Cardinality(S) + 1
        BY <4>1, FS_AddElement
      <4> QED BY <3>1, <4>2 DEF S
    <3> QED BY <2>3, <2>4, <2>5, <2>6, <3>3
  <2>7. CASE x = b /\ q = previous
    <3>1. Counted(n, x, q) = Counted(c, x, q) \ {d}
      BY <1>2, <2>2, <2>7 DEF Counted, DealsOf, previous
    <3>2. d \in Counted(c, x, q)
      BY <2>7 DEF Counted, DealsOf, b, previous
    <3>3. Cardinality(Counted(n, x, q)) = Cardinality(Counted(c, x, q)) - 1
      <4> DEFINE S == Counted(c, x, q)
      <4>1. IsFiniteSet(S) /\ d \in S
        BY <3>2, CountedFinite
      <4> HIDE DEF S
      <4>2. Cardinality(S \ {d}) = Cardinality(S) - 1
        BY <4>1, FS_RemoveElement
      <4> QED BY <3>1, <4>2 DEF S
    <3> QED BY <1>2, <2>3, <2>4, <2>5, <2>7, <3>3
  <2>8. CASE x # b \/ q \notin {r, previous}
    <3>1. Counted(n, x, q) = Counted(c, x, q)
      BY <2>2, <2>8 DEF Counted, DealsOf, b, previous
    <3> QED BY <2>3, <2>4, <2>5, <2>8, <3>1
  <2> QED BY <2>6, <2>7, <2>8
<1> QED BY <1>1, <1>2

\* Nothing is recounted in the empty storage.
LEMMA CountersInit == Init => CountersInv
<1> SUFFICES ASSUME Init PROVE Recounted(credit) /\ UnopenedBlank(credit)
  BY TypeInit DEF CountersInv
<1>1. UnopenedBlank(credit)
  BY DEF Init, EmptyStorage, NoRecord, UnopenedBlank
<1>2. ASSUME NEW b \in Borrowers, NEW r \in Outcomes
      PROVE  credit.counters[b][r] = OutcomeCount(credit, b, r)
  <2>1. Counted(credit, b, r) = {}
    BY DEF Init, EmptyStorage, NoRecord, Counted, DealsOf, Outcomes
  <2>2. credit.counters[b][r] = 0
    BY DEF Init, EmptyStorage
  <2> QED BY <2>1, <2>2, FS_EmptySet DEF OutcomeCount, Counted
<1> QED BY <1>1, <1>2 DEF Recounted

\* One case per external function: only recordOutcome moves the counters,
\* and openDeal puts a blank record under its borrower.
LEMMA CountersStep == CountersInv /\ [Next]_vars => CountersInv'
<1> SUFFICES ASSUME CountersInv, [Next]_vars
             PROVE  Recounted(credit)' /\ UnopenedBlank(credit)'
  BY TypeStep DEF CountersInv
<1>0. credit \in Storage
  BY DEF CountersInv, TypeOK
<1> USE DEF CountersInv
<1>1. ASSUME NEW d \in DealIds, NEW b \in Borrowers, NEW face \in Amounts,
             CallOpenDeal(d, b, face)
      PROVE  Recounted(credit)' /\ UnopenedBlank(credit)'
  <2> DEFINE n == OpenDeal(credit, d, b, face)
  <2>1. face \in Nat /\ credit' = n /\ credit.records[d].outcome = "NONE" /\ b # NoBorrower
    BY <1>1, CreditConstants DEF CallOpenDeal, MayOpenDeal, UnopenedBlank
  <2>2. /\ n.counters = credit.counters
        /\ \A e \in DealIds :
              /\ n.records[e].borrower = IF e = d THEN b ELSE credit.records[e].borrower
              /\ n.records[e].outcome = credit.records[e].outcome
    BY <1>0, <2>1, OpenDealEffect
  <2> HIDE DEF n
  <2>3. Recounted(n)
    BY <2>1, <2>2, SameRecount DEF Counted, DealsOf, Outcomes
  <2>4. UnopenedBlank(n)
    BY <2>1, <2>2 DEF UnopenedBlank, IsOpen
  <2> QED BY <2>1, <2>3, <2>4 DEF Recounted, OutcomeCount, DealsOf, UnopenedBlank, IsOpen
<1>2. ASSUME NEW d \in DealIds, CallMarkFinanced(d)
      PROVE  Recounted(credit)' /\ UnopenedBlank(credit)'
  <2> DEFINE n == MarkFinanced(credit, d)
  <2>1. credit' = n
    BY <1>2 DEF CallMarkFinanced
  <2>2. /\ n.counters = credit.counters
        /\ \A e \in DealIds : /\ n.records[e].borrower = credit.records[e].borrower
                             /\ n.records[e].outcome = credit.records[e].outcome
    BY <1>0, MarkFinancedEffect
  <2> HIDE DEF n
  <2>3. Recounted(n)
    BY <2>2, SameRecount DEF Counted, DealsOf
  <2>4. UnopenedBlank(n)
    BY <2>2 DEF UnopenedBlank, IsOpen
  <2> QED BY <2>1, <2>3, <2>4 DEF Recounted, OutcomeCount, DealsOf, UnopenedBlank, IsOpen
<1>3. ASSUME NEW d \in DealIds, NEW amount \in Amounts, CallReduceExposure(d, amount)
      PROVE  Recounted(credit)' /\ UnopenedBlank(credit)'
  <2>1. credit'.counters = credit.counters /\ credit'.records = credit.records
    BY <1>0, <1>3, ReduceExposureEffect DEF CallReduceExposure
  <2> QED BY <2>1 DEF Recounted, OutcomeCount, DealsOf, UnopenedBlank, IsOpen
<1>4. ASSUME NEW d \in DealIds, NEW r \in Results, CallRecordOutcome(d, r)
      PROVE  Recounted(credit)' /\ UnopenedBlank(credit)'
  <2> DEFINE n == RecordOutcome(credit, d, r, attested)
  <2>1. credit' = n /\ MayRecordOutcome(credit, d, r, attested)
    BY <1>4 DEF CallRecordOutcome
  <2>2. Recounted(n)
    BY <1>0, <2>1, RecordOutcomeRecounted
  <2>3. UnopenedBlank(n)
    <3>1. CASE credit.records[d].outcome = r
      BY <3>1 DEF RecordOutcome
    <3>2. CASE credit.records[d].outcome # r
      <4>1. \A e \in DealIds :
               /\ n.records[e].borrower = credit.records[e].borrower
               /\ n.records[e].outcome = IF e = d THEN r ELSE credit.records[e].outcome
        BY <1>0, <2>1, <3>2, RecordOutcomeEffect
      <4> HIDE DEF n
      <4> QED BY <2>1, <4>1 DEF UnopenedBlank, IsOpen, MayRecordOutcome
    <3> QED BY <3>1, <3>2
  <2> HIDE DEF n
  <2> QED BY <2>1, <2>2, <2>3 DEF Recounted, OutcomeCount, DealsOf, UnopenedBlank, IsOpen
<1>5. CASE UNCHANGED credit
  BY <1>5 DEF Recounted, OutcomeCount, DealsOf, UnopenedBlank, IsOpen
<1> QED BY <1>1, <1>2, <1>3, <1>4, <1>5 DEF Next, Attest, vars

\* The counters stay equal to the recount in every reachable state.
LEMMA CountersInvariant == Spec => []CountersInv
BY CountersInit, CountersStep, PTL DEF Spec

\* INV-5: whatever calls an authorised caller makes, the incremental counters
\* equal a recount of the canonical outcomes.
THEOREM CountersCorrect == Spec => []CountersMatchOutcomes
<1>1. CountersInv => CountersMatchOutcomes
  BY DEF CountersInv, Recounted, CountersMatchOutcomes
<1> QED BY <1>1, CountersInvariant, PTL

\* No legal sequence of calls reaches a deal whose outcome cannot be refined:
\* the counter to be stepped down has counted that very deal.
THEOREM OutcomeCallSafe == Spec => []OutcomeCallNeverUnderflows
<1>1. CountersInv => OutcomeCallNeverUnderflows
  BY CountedPositive
     DEF CountersInv, TypeOK, OutcomeCallNeverUnderflows, MayRecordOutcome, Outcomes
<1> QED BY <1>1, CountersInvariant, PTL

\* The two together: after any calls every counter is a recount of the outcomes,
\* and every further refinement is accepted.
THEOREM CountersAlwaysSound == Spec => []CountersSound
BY CountersCorrect, OutcomeCallSafe, PTL DEF CountersSound

-----------------------------------------------------------------------------
(* The sums.  Reserve and exposure against the face values on record: that   *)
(* a deal nobody opened is not financed makes the conjunction inductive.     *)

ReserveRecorded(c) == \A b \in Borrowers : c.reserved[b] = FaceSum(c, UnfinancedDeals(c, b))

ExposureRecorded(c) == \A b \in Borrowers : c.exposure[b] <= FaceSum(c, FinancedDeals(c, b))

UnopenedUnfinanced(c) == \A d \in DealIds : ~IsOpen(c, d) => ~c.records[d].financed

SumsInv ==
    /\ TypeOK
    /\ ReserveRecorded(credit) /\ ExposureRecorded(credit) /\ UnopenedUnfinanced(credit)

\* Deals are finite in number, so that face values of any of them have a sum.
LEMMA FaceSumType ==
  ASSUME NEW c \in Storage, NEW D \in SUBSET DealIds
  PROVE  /\ IsFiniteSet(D) /\ FaceSum(c, D) \in Nat
         /\ \A d \in D : c.records[d].faceValue <= FaceSum(c, D)
<1> DEFINE g == [d \in DealIds |-> c.records[d].faceValue]
<1>1. IsFiniteSet(D)
  BY CreditConstants, FS_Subset
<1>2. \A d \in D : g[d] \in Nat /\ g[d] = c.records[d].faceValue
  BY StorageParts DEF DealRecord
<1> HIDE DEF g
<1>3. SumFunctionOnSet(g, D) \in Nat /\ \A d \in D : g[d] <= SumFunctionOnSet(g, D)
  BY <1>1, <1>2, SumNat
<1> QED BY <1>1, <1>2, <1>3 DEF FaceSum, g

\* One deal more.
LEMMA FaceSumAdd ==
  ASSUME NEW c \in Storage, NEW D \in SUBSET DealIds, NEW d \in DealIds, d \notin D
  PROVE  FaceSum(c, D \cup {d}) = FaceSum(c, D) + c.records[d].faceValue
<1> DEFINE g == [e \in DealIds |-> c.records[e].faceValue]
<1>1. \A e \in D \cup {d} : g[e] \in Int
  BY StorageParts DEF DealRecord
<1>2. g[d] = c.records[d].faceValue
  OBVIOUS
<1>3. IsFiniteSet(D)
  BY FaceSumType
<1> HIDE DEF g
<1>4. SumFunctionOnSet(g, D \cup {d}) = SumFunctionOnSet(g, D) + g[d]
  BY <1>1, <1>3, SumAdd
<1> QED BY <1>2, <1>4 DEF FaceSum, g

\* Deals whose face value was not written have the same sum.
LEMMA FaceSumSame ==
  ASSUME NEW c \in Storage, NEW n \in Storage, NEW D \in SUBSET DealIds,
         \A d \in D : n.records[d].faceValue = c.records[d].faceValue
  PROVE  FaceSum(n, D) = FaceSum(c, D)
<1> DEFINE g == [d \in DealIds |-> c.records[d].faceValue]
           h == [d \in DealIds |-> n.records[d].faceValue]
<1>1. \A d \in D : g[d] \in Int /\ h[d] = g[d]
  BY StorageParts DEF DealRecord
<1>2. IsFiniteSet(D)
  BY FaceSumType
<1> HIDE DEF g, h
<1>3. SumFunctionOnSet(h, D) = SumFunctionOnSet(g, D)
  BY <1>1, <1>2, SumSame
<1> QED BY <1>3 DEF FaceSum, g, h

\* openDeal adds the face value to a reserve, and the deal to those it is held for.
LEMMA OpenDealSums ==
  ASSUME NEW c \in Storage, NEW d \in DealIds, NEW b \in Borrowers, NEW face \in Nat,
         ~IsOpen(c, d), ReserveRecorded(c), ExposureRecorded(c), UnopenedUnfinanced(c)
  PROVE  LET n == OpenDeal(c, d, b, face)
         IN  ReserveRecorded(n) /\ ExposureRecorded(n) /\ UnopenedUnfinanced(n)
<1> DEFINE n == OpenDeal(c, d, b, face)
<1>1. /\ \A e \in DealIds :
            /\ e # d => n.records[e] = c.records[e]
            /\ n.records[e].borrower = IF e = d THEN b ELSE c.records[e].borrower
            /\ n.records[e].financed = c.records[e].financed
      /\ n.records[d].faceValue = face
      /\ \A x \in Borrowers :
            /\ n.reserved[x] = IF x = b THEN c.reserved[x] + face ELSE c.reserved[x]
            /\ n.exposure[x] = c.exposure[x]
  BY DEF OpenDeal, Storage, DealRecord
<1>2. n \in Storage
  BY OpenDealType
<1>3. c.records[d].borrower = NoBorrower /\ ~c.records[d].financed /\ NoBorrower \notin Borrowers
  BY CreditConstants DEF IsOpen, UnopenedUnfinanced
<1> HIDE DEF n
<1>4. ASSUME NEW x \in Borrowers
      PROVE  n.reserved[x] = FaceSum(n, UnfinancedDeals(n, x))
  <2> DEFINE D == UnfinancedDeals(c, x)
  <2>1. D \in SUBSET DealIds /\ d \notin D
    BY <1>3 DEF UnfinancedDeals, DealsOf
  <2>2. UnfinancedDeals(n, x) = IF x = b THEN D \cup {d} ELSE D
    BY <1>1, <1>3 DEF UnfinancedDeals, DealsOf
  <2>3. c.reserved[x] = FaceSum(c, D)
    BY DEF ReserveRecorded
  <2> HIDE DEF D
  <2>4. FaceSum(n, D) = FaceSum(c, D)
    BY <1>1, <1>2, <2>1, FaceSumSame
  <2>5. FaceSum(n, D \cup {d}) = FaceSum(n, D) + n.records[d].faceValue
    BY <1>2, <2>1, FaceSumAdd
  <2>6. CASE x = b
    <3>1. FaceSum(n, UnfinancedDeals(n, x)) = FaceSum(n, D \cup {d})
      BY <2>2, <2>6, Zenon
    <3> QED BY <1>1, <2>3, <2>4, <2>5, <2>6, <3>1
  <2>7. CASE x # b
    <3>1. FaceSum(n, UnfinancedDeals(n, x)) = FaceSum(n, D)
      BY <2>2, <2>7, Zenon
    <3> QED BY <1>1, <2>3, <2>4, <2>7, <3>1
  <2> QED BY <2>6, <2>7
<1>5. ASSUME NEW x \in Borrowers
      PROVE  n.exposure[x] <= FaceSum(n, FinancedDeals(n, x))
  <2> DEFINE D == FinancedDeals(c, x)
  <2>1. D \in SUBSET DealIds /\ d \notin D
    BY <1>3 DEF FinancedDeals, DealsOf
  <2>2. FinancedDeals(n, x) = D
    BY <1>1, <1>3 DEF FinancedDeals, DealsOf
  <2>3. c.exposure[x] <= FaceSum(c, D)
    BY DEF ExposureRecorded
  <2> HIDE DEF D
  <2>4. FaceSum(n, D) = FaceSum(c, D)
    BY <1>1, <1>2, <2>1, FaceSumSame
  <2> QED BY <1>1, <2>2, <2>3, <2>4, Zenon
<1>6. UnopenedUnfinanced(n)
  BY <1>1, <1>3 DEF UnopenedUnfinanced, IsOpen
<1> QED BY <1>4, <1>5, <1>6 DEF ReserveRecorded, ExposureRecorded, n

\* markFinanced moves the face value: the deal was among those the reserve is
\* held for, so the reserve covers it and the subtraction does not saturate.
LEMMA MarkFinancedSums ==
  ASSUME NEW c \in Storage, NEW d \in DealIds, MayMarkFinanced(c, d),
         ReserveRecorded(c), ExposureRecorded(c), UnopenedUnfinanced(c)
  PROVE  LET n == MarkFinanced(c, d)
             b == c.records[d].borrower
             face == c.records[d].faceValue
         IN  /\ ReserveRecorded(n) /\ ExposureRecorded(n) /\ UnopenedUnfinanced(n)
             /\ face <= c.reserved[b]
<1> DEFINE n == MarkFinanced(c, d)
           b == c.records[d].borrower
           face == c.records[d].faceValue
<1>1. b \in Borrowers /\ face \in Nat /\ ~c.records[d].financed
  BY StorageParts DEF DealRecord, MayMarkFinanced, IsOpen
<1>2. /\ \A e \in DealIds :
            /\ n.records[e].borrower = c.records[e].borrower
            /\ n.records[e].faceValue = c.records[e].faceValue
            /\ n.records[e].financed <=> (e = d \/ c.records[e].financed)
      /\ \A x \in Borrowers :
            /\ n.reserved[x] = IF x = b THEN SatSub(c.reserved[x], face) ELSE c.reserved[x]
            /\ n.exposure[x] = IF x = b THEN c.exposure[x] + face ELSE c.exposure[x]
  BY DEF MarkFinanced, Storage, DealRecord
<1>3. n \in Storage
  BY MarkFinancedType DEF MayMarkFinanced
<1>4. \A x \in Borrowers : c.reserved[x] \in Nat /\ c.exposure[x] \in Nat
  BY StorageParts
<1> HIDE DEF n
<1>5. \A D \in SUBSET DealIds : FaceSum(n, D) = FaceSum(c, D)
  BY <1>2, <1>3, FaceSumSame
<1>6. face <= c.reserved[b]
  <2>1. d \in UnfinancedDeals(c, b) /\ UnfinancedDeals(c, b) \in SUBSET DealIds
    BY <1>1 DEF UnfinancedDeals, DealsOf
  <2>2. face <= FaceSum(c, UnfinancedDeals(c, b))
    BY <2>1, FaceSumType
  <2> QED BY <1>1, <2>2 DEF ReserveRecorded
<1>7. ASSUME NEW x \in Borrowers
      PROVE  /\ n.reserved[x] = FaceSum(n, UnfinancedDeals(n, x))
             /\ n.exposure[x] <= FaceSum(n, FinancedDeals(n, x))
  <2> DEFINE D == UnfinancedDeals(c, x)
             E == FinancedDeals(c, x)
             R == UnfinancedDeals(n, x)
             F == FinancedDeals(n, x)
  <2>1. {D, E, R, F} \subseteq SUBSET DealIds /\ d \notin E /\ d \notin R
    BY <1>1, <1>2 DEF UnfinancedDeals, FinancedDeals, DealsOf
  <2>2. c.reserved[x] = FaceSum(c, D) /\ c.exposure[x] <= FaceSum(c, E)
    BY DEF ReserveRecorded, ExposureRecorded
  <2>3. CASE x = b
    <3>1. D = R \cup {d} /\ F = E \cup {d}
      BY <1>1, <1>2, <2>3 DEF UnfinancedDeals, FinancedDeals, DealsOf
    <3> HIDE DEF D, E, R, F, face
    <3>2. FaceSum(c, R \cup {d}) = FaceSum(c, R) + face /\ FaceSum(c, E \cup {d}) = FaceSum(c, E) + face
      BY <2>1, FaceSumAdd DEF face
    <3>3. FaceSum(c, D) = FaceSum(c, R) + face /\ FaceSum(c, F) = FaceSum(c, E) + face
      BY <3>1, <3>2, Zenon
    <3>4. FaceSum(c, R) \in Nat /\ FaceSum(c, E) \in Nat
      BY <2>1, FaceSumType
    <3>5. FaceSum(n, R) = FaceSum(c, R) /\ FaceSum(n, F) = FaceSum(c, F)
      BY <1>5, <2>1
    <3>6. n.reserved[x] = SatSub(c.reserved[x], face) /\ n.exposure[x] = c.exposure[x] + face
      BY <1>2, <2>3
    <3>7. SatSub(c.reserved[x], face) = c.reserved[x] - face
      BY <1>1, <1>4, <1>6, <2>3 DEF SatSub
    <3>8. n.reserved[x] = FaceSum(n, R) /\ n.exposure[x] <= FaceSum(n, F)
      BY <1>1, <1>4, <2>2, <3>3, <3>4, <3>5, <3>6, <3>7
    <3> QED BY <3>8 DEF R, F
  <2>4. CASE x # b
    <3>1. R = D /\ F = E
      BY <1>1, <1>2, <2>4 DEF UnfinancedDeals, FinancedDeals, DealsOf
    <3> HIDE DEF D, E, R, F, face
    <3>2. FaceSum(n, D) = FaceSum(c, D) /\ FaceSum(n, E) = FaceSum(c, E)
      BY <1>5, <2>1
    <3>3. n.reserved[x] = c.reserved[x] /\ n.exposure[x] = c.exposure[x]
      BY <1>2, <2>4
    <3>4. n.reserved[x] = FaceSum(n, R) /\ n.exposure[x] <= FaceSum(n, F)
      BY <2>2, <3>1, <3>2, <3>3, Zenon
    <3> QED BY <3>4 DEF R, F
  <2> QED BY <2>3, <2>4
<1>8. UnopenedUnfinanced(n)
  BY <1>2 DEF UnopenedUnfinanced, IsOpen, MayMarkFinanced
<1> QED BY <1>6, <1>7, <1>8 DEF ReserveRecorded, ExposureRecorded, n

\* Records written apart from borrower, face value and financed flag, and
\* exposures that do not grow, leave the sums recorded.
LEMMA SameSums ==
  ASSUME NEW c \in Storage, NEW n \in Storage,
         ReserveRecorded(c), ExposureRecorded(c), UnopenedUnfinanced(c),
         \A e \in DealIds : /\ n.records[e].borrower = c.records[e].borrower
                            /\ n.records[e].faceValue = c.records[e].faceValue
                            /\ n.records[e].financed = c.records[e].financed,
         \A x \in Borrowers : n.reserved[x] = c.reserved[x] /\ n.exposure[x] <= c.exposure[x]
  PROVE  ReserveRecorded(n) /\ ExposureRecorded(n) /\ UnopenedUnfinanced(n)
<1>1. ASSUME NEW x \in Borrowers
      PROVE  /\ n.reserved[x] = FaceSum(n, UnfinancedDeals(n, x))
             /\ n.exposure[x] <= FaceSum(n, FinancedDeals(n, x))
  <2> DEFINE D == UnfinancedDeals(c, x)
             E == FinancedDeals(c, x)
  <2>1. UnfinancedDeals(n, x) = D /\ FinancedDeals(n, x) = E
    BY DEF UnfinancedDeals, FinancedDeals, DealsOf
  <2>2. D \in SUBSET DealIds /\ E \in SUBSET DealIds
    BY DEF UnfinancedDeals, FinancedDeals, DealsOf
  <2>3. c.reserved[x] = FaceSum(c, D) /\ c.exposure[x] <= FaceSum(c, E)
    BY DEF ReserveRecorded, ExposureRecorded
  <2> HIDE DEF D, E
  <2>4. FaceSum(n, D) = FaceSum(c, D) /\ FaceSum(n, E) = FaceSum(c, E)
    BY <2>2, FaceSumSame
  <2>5. FaceSum(c, E) \in Nat /\ c.exposure[x] \in Nat /\ n.exposure[x] \in Nat
    BY <2>2, FaceSumType, StorageParts
  <2>6. n.reserved[x] = FaceSum(n, D) /\ n.exposure[x] <= FaceSum(n, E)
    BY <2>3, <2>4, <2>5
  <2> QED BY <2>1, <2>6, Zenon
<1>2. UnopenedUnfinanced(n)
  BY DEF UnopenedUnfinanced, IsOpen
<1> QED BY <1>1, <1>2 DEF ReserveRecorded, ExposureRecorded

\* reduceExposure takes from one exposure, never below zero.
LEMMA ReduceExposureSums ==
  ASSUME NEW c \in Storage, NEW d \in DealIds, NEW amount \in Nat, IsOpen(c, d)
  PROVE  LET n == ReduceExposure(c, d, amount)
         IN  /\ n.records = c.records /\ n.reserved = c.reserved /\ n.counters = c.counters
             /\ \A x \in Borrowers : n.exposure[x] <= c.exposure[x]
<1> DEFINE b == c.records[d].borrower
           owed == SatSub(c.exposure[b], amount)
           n == ReduceExposure(c, d, amount)
<1>1. b \in Borrowers
  BY StorageParts DEF DealRecord, IsOpen
<1>2. \A x \in Borrowers : c.exposure[x] \in Nat
  BY StorageParts
<1>3. owed <= c.exposure[b]
  BY <1>1, <1>2, SatSubType
<1>4. n = [c EXCEPT !.exposure[b] = owed]
  BY DEF ReduceExposure
<1> HIDE DEF b, owed, n
<1>5. \A x \in Borrowers : n.exposure[x] = IF x = b THEN owed ELSE c.exposure[x]
  BY <1>4 DEF Storage
<1>6. n.records = c.records /\ n.reserved = c.reserved /\ n.counters = c.counters
  BY <1>4 DEF Storage
<1>7. \A x \in Borrowers : n.exposure[x] <= c.exposure[x]
  BY <1>2, <1>3, <1>5
<1> QED BY <1>6, <1>7 DEF n

\* recordOutcome leaves reserve, exposure and what the sums are over alone.
LEMMA RecordOutcomeSums ==
  ASSUME NEW c \in Storage, NEW d \in DealIds, NEW r \in Results, NEW height
  PROVE  LET n == RecordOutcome(c, d, r, height)
         IN  /\ \A e \in DealIds : /\ n.records[e].borrower = c.records[e].borrower
                                   /\ n.records[e].faceValue = c.records[e].faceValue
                                   /\ n.records[e].financed = c.records[e].financed
             /\ n.reserved = c.reserved /\ n.exposure = c.exposure
<1> DEFINE b == c.records[d].borrower
           rec == [c.records[d] EXCEPT !.outcome = r, !.closedAtBlock = height]
           k == StepUp(StepDown(c.counters[b], c.records[d].outcome), r)
           n == [c EXCEPT !.counters[b] = k, !.records[d] = rec]
<1>1. rec.borrower = c.records[d].borrower /\ rec.faceValue = c.records[d].faceValue
      /\ rec.financed = c.records[d].financed
  BY DEF Storage, DealRecord
<1>2. RecordOutcome(c, d, r, height) \in {c, n}
  BY DEF RecordOutcome
<1> HIDE DEF b, rec, k
<1>3. \A e \in DealIds : n.records[e] = IF e = d THEN rec ELSE c.records[e]
  BY DEF Storage
<1>4. n.reserved = c.reserved /\ n.exposure = c.exposure
  BY DEF Storage
<1> HIDE DEF n
<1> QED BY <1>1, <1>2, <1>3, <1>4

\* Nothing is committed at first.
LEMMA SumsInit == Init => SumsInv
<1> SUFFICES ASSUME Init
             PROVE  /\ ReserveRecorded(credit) /\ ExposureRecorded(credit)
                    /\ UnopenedUnfinanced(credit)
  BY TypeInit DEF SumsInv
<1>1. UnopenedUnfinanced(credit)
  BY DEF Init, EmptyStorage, NoRecord, UnopenedUnfinanced
<1>2. ASSUME NEW b \in Borrowers
      PROVE  /\ credit.reserved[b] = FaceSum(credit, UnfinancedDeals(credit, b))
             /\ credit.exposure[b] <= FaceSum(credit, FinancedDeals(credit, b))
  <2>1. credit.reserved[b] = 0 /\ credit.exposure[b] = 0
    BY DEF Init, EmptyStorage
  <2>2. UnfinancedDeals(credit, b) = {} /\ FinancedDeals(credit, b) = {}
    BY CreditConstants DEF Init, EmptyStorage, NoRecord, UnfinancedDeals, FinancedDeals, DealsOf
  <2>3. FaceSum(credit, {}) = 0
    BY SumNothing DEF FaceSum
  <2>4. /\ FaceSum(credit, UnfinancedDeals(credit, b)) = 0
        /\ FaceSum(credit, FinancedDeals(credit, b)) = 0
    BY <2>2, <2>3, Zenon
  <2> QED BY <2>1, <2>4
<1> QED BY <1>1, <1>2 DEF ReserveRecorded, ExposureRecorded

\* One case per external function.
LEMMA SumsStep == SumsInv /\ [Next]_vars => SumsInv'
<1> SUFFICES ASSUME SumsInv, [Next]_vars
             PROVE  (ReserveRecorded(credit) /\ ExposureRecorded(credit)
                       /\ UnopenedUnfinanced(credit))'
  BY TypeStep DEF SumsInv
<1> DEFINE Sums(c) == ReserveRecorded(c) /\ ExposureRecorded(c) /\ UnopenedUnfinanced(c)
<1>0. credit \in Storage /\ credit' \in Storage /\ Sums(credit)
  BY TypeStep DEF SumsInv, TypeOK
<1>a. Sums(credit') <=> (ReserveRecorded(credit) /\ ExposureRecorded(credit)
                           /\ UnopenedUnfinanced(credit))'
  BY DEF ReserveRecorded, ExposureRecorded, UnopenedUnfinanced, UnfinancedDeals,
         FinancedDeals, DealsOf, FaceSum, IsOpen
<1>1. ASSUME NEW d \in DealIds, NEW b \in Borrowers, NEW face \in Amounts,
             CallOpenDeal(d, b, face)
      PROVE  Sums(credit')
  BY <1>0, <1>1, OpenDealSums, CreditConstants DEF CallOpenDeal, MayOpenDeal
<1>2. ASSUME NEW d \in DealIds, CallMarkFinanced(d)
      PROVE  Sums(credit')
  BY <1>0, <1>2, MarkFinancedSums DEF CallMarkFinanced
<1>3. ASSUME NEW d \in DealIds, NEW amount \in Amounts, CallReduceExposure(d, amount)
      PROVE  Sums(credit')
  <2>1. /\ credit'.records = credit.records /\ credit'.reserved = credit.reserved
        /\ \A x \in Borrowers : credit'.exposure[x] <= credit.exposure[x]
    BY <1>0, <1>3, ReduceExposureSums, CreditConstants DEF CallReduceExposure, MayReduceExposure
  <2> QED BY <1>0, <2>1, SameSums
<1>4. ASSUME NEW d \in DealIds, NEW r \in Results, CallRecordOutcome(d, r)
      PROVE  Sums(credit')
  <2>1. /\ \A e \in DealIds : /\ credit'.records[e].borrower = credit.records[e].borrower
                              /\ credit'.records[e].faceValue = credit.records[e].faceValue
                              /\ credit'.records[e].financed = credit.records[e].financed
        /\ credit'.reserved = credit.reserved /\ credit'.exposure = credit.exposure
    BY <1>0, <1>4, RecordOutcomeSums DEF CallRecordOutcome
  <2>2. \A x \in Borrowers : credit'.exposure[x] <= credit.exposure[x]
    BY <1>0, <2>1, StorageParts
  <2> QED BY <1>0, <2>1, <2>2, SameSums
<1>5. CASE UNCHANGED credit
  BY <1>0, <1>5
<1>6. Sums(credit')
  BY <1>1, <1>2, <1>3, <1>4, <1>5 DEF Next, Attest, vars
<1> QED BY <1>a, <1>6

\* Reserve and exposure match the records in every reachable state.
LEMMA SumsInvariant == Spec => []SumsInv
BY SumsInit, SumsStep, PTL DEF Spec

\* What is committed is on record, for every caller: the reserve is exactly the
\* face value of the deals still to be financed, the exposure at most that of
\* the financed ones, and no subtraction saturates on the reserve.
THEOREM CommitmentCorrect == Spec => []CommitmentIsRecorded
<1>1. SumsInv => CommitmentIsRecorded
  BY DEF SumsInv, CommitmentIsRecorded, ReserveRecorded, ExposureRecorded,
         ReserveIsUnfinancedFace, ExposureWithinFinancedFace
<1> QED BY <1>1, SumsInvariant, PTL

\* INV-10: only openDeal raises what a borrower has committed, and it stops at
\* the limit.  markFinanced moves a face value the reserve really holds, so
\* that the sum of the two stays what it was.
THEOREM LimitEnforced == Spec => CommitmentWithinLimit
<1> DEFINE Within == \A b \in Borrowers :
                        UsedLimitOf(credit, b)' > UsedLimitOf(credit, b)
                          => UsedLimitOf(credit, b)' <= LimitOf(credit, b)'
<1>1. ASSUME SumsInv, [Next]_vars PROVE Within
  <2> SUFFICES ASSUME NEW x \in Borrowers,
                      UsedLimitOf(credit, x)' > UsedLimitOf(credit, x)
               PROVE  UsedLimitOf(credit, x)' <= LimitOf(credit, x)'
    OBVIOUS
  <2>0. credit \in Storage /\ credit' \in Storage
    BY <1>1, TypeStep DEF SumsInv, TypeOK
  <2>a. /\ UsedLimitOf(credit, x) = credit.reserved[x] + credit.exposure[x]
        /\ UsedLimitOf(credit, x)' = credit'.reserved[x] + credit'.exposure[x]
        /\ \A y \in Borrowers : /\ {credit.reserved[y], credit'.reserved[y]} \subseteq Nat
                                /\ {credit.exposure[y], credit'.exposure[y]} \subseteq Nat
    BY <2>0, StorageParts DEF UsedLimitOf
  <2>1. ASSUME NEW d \in DealIds, NEW b \in Borrowers, NEW face \in Amounts,
               CallOpenDeal(d, b, face)
        PROVE  UsedLimitOf(credit, x)' <= LimitOf(credit, x)'
    <3>1. /\ credit'.counters = credit.counters
          /\ credit'.reserved = [credit.reserved EXCEPT ![b] = @ + face]
          /\ credit'.exposure = credit.exposure
      BY <2>0, <2>1 DEF CallOpenDeal, OpenDeal, Storage
    <3>2. x = b
      BY <2>0, <2>a, <3>1 DEF Storage
    <3>3. LimitOf(credit, x)' = LimitOf(credit, x)
      BY <3>1 DEF LimitOf, ScoreOf
    <3>4. face <= SatSub(LimitOf(credit, x), UsedLimitOf(credit, x)) /\ face \in Nat
      BY <2>1, <3>2, CreditConstants DEF CallOpenDeal, MayOpenDeal, AvailableLimitOf
    <3>5. UsedLimitOf(credit, x)' = UsedLimitOf(credit, x) + face
      BY <2>0, <2>a, <3>1, <3>2, <3>4 DEF Storage
    <3>6. LimitOf(credit, x) \in Int
      <4>1. credit.counters[x] \in [Outcomes -> Nat]
        BY <2>0, StorageParts
      <4>2. \A r \in Outcomes : credit.counters[x][r] \in Int
        BY <4>1
      <4>3. ScoreOf(credit, x) \in Int
        BY <4>2 DEF ScoreOf, Score, Outcomes, Results, BASE_SCORE, MIN_SCORE, MAX_SCORE,
                    WEIGHT_PAID_ON_TIME, WEIGHT_PAID_LATE, WEIGHT_DEFAULTED
      <4> QED BY <4>3, CreditConstants DEF LimitOf, BASE_SCORE
    <3>7. UsedLimitOf(credit, x) \in Nat /\ UsedLimitOf(credit, x)' \in Nat
      BY <2>a
    <3> QED BY <3>3, <3>4, <3>5, <3>6, <3>7 DEF SatSub
  <2>2. ASSUME NEW d \in DealIds, CallMarkFinanced(d)
        PROVE  FALSE
    <3> DEFINE b == credit.records[d].borrower
               face == credit.records[d].faceValue
    <3>1. face <= credit.reserved[b] /\ b \in Borrowers /\ face \in Nat
      BY <1>1, <2>0, <2>2, MarkFinancedSums, StorageParts
         DEF CallMarkFinanced, SumsInv, DealRecord, MayMarkFinanced, IsOpen
    <3>2. /\ credit'.reserved = [credit.reserved EXCEPT ![b] = SatSub(@, face)]
          /\ credit'.exposure = [credit.exposure EXCEPT ![b] = @ + face]
      BY <2>0, <2>2 DEF CallMarkFinanced, MarkFinanced, Storage
    <3> HIDE DEF b, face
    <3>3. /\ credit'.reserved[x] = IF x = b THEN credit.reserved[x] - face ELSE credit.reserved[x]
          /\ credit'.exposure[x] = IF x = b THEN credit.exposure[x] + face ELSE credit.exposure[x]
      BY <2>0, <2>a, <3>1, <3>2 DEF Storage, SatSub
    <3> QED BY <2>a, <3>1, <3>3
  <2>3. ASSUME NEW d \in DealIds, NEW amount \in Amounts, CallReduceExposure(d, amount)
        PROVE  FALSE
    <3>1. /\ credit'.reserved = credit.reserved
          /\ \A y \in Borrowers : credit'.exposure[y] <= credit.exposure[y]
      BY <2>0, <2>3, ReduceExposureSums, CreditConstants DEF CallReduceExposure, MayReduceExposure
    <3> QED BY <2>a, <3>1
  <2>4. ASSUME NEW d \in DealIds, NEW r \in Results, CallRecordOutcome(d, r)
        PROVE  FALSE
    <3>1. credit'.reserved = credit.reserved /\ credit'.exposure = credit.exposure
      BY <2>0, <2>4, RecordOutcomeSums DEF CallRecordOutcome
    <3> QED BY <2>a, <3>1
  <2>5. CASE UNCHANGED credit
    BY <2>5, <2>a
  <2> QED BY <1>1, <2>1, <2>2, <2>3, <2>4, <2>5 DEF Next, Attest, vars
<1>2. SumsInv /\ [Next]_vars => [Within]_vars
  BY <1>1
<1> HIDE DEF Within
<1>3. Spec => [][Within]_vars
  BY <1>2, SumsInvariant, PTL DEF Spec
<1> QED BY <1>3 DEF CommitmentWithinLimit, Within
=============================================================================
