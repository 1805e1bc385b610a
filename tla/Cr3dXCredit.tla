---------------------------- MODULE Cr3dXCredit ----------------------------
(***************************************************************************)
(* contracts/Cr3dXCredit.sol: the credit layer.  Each external function is *)
(* a pair of operators on the contract's storage, a guard (false where the *)
(* Solidity function reverts) and the storage it leaves.  Cr3dXDeals calls *)
(* the pairs inside its own transactions; the state machine at the end of  *)
(* this module calls them one at a time in every order a caller could, so  *)
(* its invariants depend on nothing the registry promises.                 *)
(***************************************************************************)
EXTENDS Integers, FiniteSets, Functions

CONSTANTS
    DealIds,     \* deal identifiers (bytes32)
    Borrowers,   \* accounts that may borrow
    NoBorrower,  \* address(0), the borrower of a record never opened
    BaseLimit,   \* baseLimit, the credit line at BASE_SCORE
    Amounts,     \* face values and repaid amounts the environment may use
    MaxHeight    \* largest source height (type(uint64).max in the code)

ASSUME CreditConstants ==
    /\ NoBorrower \notin Borrowers
    /\ BaseLimit \in Nat
    /\ Amounts \subseteq Nat
    /\ MaxHeight \in Nat
    /\ IsFiniteSet(DealIds)

VARIABLES
    credit,    \* storage of Cr3dXCredit
    attested   \* height the ChainInfo precompile reports, or NoHeight

vars == <<credit, attested>>

NoHeight == -1
Heights == 0..MaxHeight

Results == {"NONE", "PAID_ON_TIME", "PAID_LATE", "DEFAULTED"}
Outcomes == Results \ {"NONE"}

BASE_SCORE == 500
MIN_SCORE == 300
MAX_SCORE == 850
WEIGHT_PAID_ON_TIME == 25
WEIGHT_PAID_LATE == -50
WEIGHT_DEFAULTED == -200

SatSub(a, b) == IF a > b THEN a - b ELSE 0

DealRecord ==
    [borrower: Borrowers \cup {NoBorrower}, faceValue: Nat, financed: BOOLEAN,
     outcome: Results, closedAtBlock: Heights \cup {NoHeight}]

NoRecord ==
    [borrower |-> NoBorrower, faceValue |-> 0, financed |-> FALSE,
     outcome |-> "NONE", closedAtBlock |-> NoHeight]

Storage ==
    [records: [DealIds -> DealRecord], reserved: [Borrowers -> Nat],
     exposure: [Borrowers -> Nat], counters: [Borrowers -> [Outcomes -> Nat]]]

EmptyStorage ==
    [records |-> [d \in DealIds |-> NoRecord],
     reserved |-> [b \in Borrowers |-> 0],
     exposure |-> [b \in Borrowers |-> 0],
     counters |-> [b \in Borrowers |-> [r \in Outcomes |-> 0]]]

-----------------------------------------------------------------------------
(* Reads. *)

\* One clamp, on the finished sum.
Score(n) ==
    LET raw == BASE_SCORE + WEIGHT_PAID_ON_TIME * n["PAID_ON_TIME"]
                 + WEIGHT_PAID_LATE * n["PAID_LATE"] + WEIGHT_DEFAULTED * n["DEFAULTED"]
    IN  IF raw < MIN_SCORE THEN MIN_SCORE ELSE IF raw > MAX_SCORE THEN MAX_SCORE ELSE raw

ScoreOf(c, b) == Score(c.counters[b])

DealsOf(c, b) == {d \in DealIds : c.records[d].borrower = b}

\* What scoreFromOutcomes counts in its loop over the borrower's deals.
OutcomeCount(c, b, r) == Cardinality({d \in DealsOf(c, b) : c.records[d].outcome = r})

ScoreFromOutcomes(c, b) == Score([r \in Outcomes |-> OutcomeCount(c, b, r)])

LimitOf(c, b) == (BaseLimit * ScoreOf(c, b)) \div BASE_SCORE

UsedLimitOf(c, b) == c.reserved[b] + c.exposure[b]

AvailableLimitOf(c, b) == SatSub(LimitOf(c, b), UsedLimitOf(c, b))

IsOpen(c, d) == c.records[d].borrower # NoBorrower

-----------------------------------------------------------------------------
(* Writes: a guard and an effect per external function. *)

\* Mutation: the limit check forgets the reserve already held.
BadMayOpenDeal(c, d, b, face) ==
    /\ ~IsOpen(c, d)
    /\ face <= SatSub(LimitOf(c, b), c.exposure[b])

MayOpenDeal(c, d, b, face) ==
    /\ ~IsOpen(c, d)
    /\ face <= AvailableLimitOf(c, b)

OpenDeal(c, d, b, face) ==
    [c EXCEPT !.records[d] = [@ EXCEPT !.borrower = b, !.faceValue = face],
              !.reserved[b] = @ + face]

MayMarkFinanced(c, d) == IsOpen(c, d) /\ ~c.records[d].financed

\* Mutation: the face value is added to the exposure but stays reserved.
BadMarkFinanced(c, d) ==
    [c EXCEPT !.records[d].financed = TRUE,
              !.exposure[c.records[d].borrower] = @ + c.records[d].faceValue]

MarkFinanced(c, d) ==
    LET b == c.records[d].borrower
        face == c.records[d].faceValue
    IN  [c EXCEPT !.records[d].financed = TRUE,
                  !.reserved[b] = SatSub(@, face),
                  !.exposure[b] = @ + face]

MayReduceExposure(c, d) == IsOpen(c, d)

ReduceExposure(c, d, amount) ==
    [c EXCEPT !.exposure[c.records[d].borrower] = SatSub(@, amount)]

\* Stepping one counter: checked arithmetic, so a decrement below zero reverts.
StepDown(n, r) == IF r = "NONE" THEN n ELSE [n EXCEPT ![r] = @ - 1]
StepUp(n, r) == [n EXCEPT ![r] = @ + 1]

MayRecordOutcome(c, d, r, height) ==
    LET previous == c.records[d].outcome
    IN  /\ r # "NONE"
        /\ IsOpen(c, d)
        /\ previous # r =>
             /\ previous # "NONE" => c.counters[c.records[d].borrower][previous] > 0
             /\ height # NoHeight

\* Mutation: a refinement leaves the counter of the previous outcome alone.
BadRecordOutcome(c, d, r, height) ==
    IF c.records[d].outcome = r THEN c
    ELSE [c EXCEPT !.counters[c.records[d].borrower] = StepUp(@, r),
                   !.records[d] = [@ EXCEPT !.outcome = r, !.closedAtBlock = height]]

RecordOutcome(c, d, r, height) ==
    LET b == c.records[d].borrower
        previous == c.records[d].outcome
    IN  IF previous = r THEN c
        ELSE [c EXCEPT !.counters[b] = StepUp(StepDown(@, previous), r),
                       !.records[d] = [@ EXCEPT !.outcome = r, !.closedAtBlock = height]]

-----------------------------------------------------------------------------
(* The contract under an arbitrary authorised caller. *)

Init == credit = EmptyStorage /\ attested = NoHeight

CallOpenDeal(d, b, face) ==
    /\ MayOpenDeal(credit, d, b, face)
    /\ credit' = OpenDeal(credit, d, b, face)
    /\ UNCHANGED attested

CallMarkFinanced(d) ==
    /\ MayMarkFinanced(credit, d)
    /\ credit' = MarkFinanced(credit, d)
    /\ UNCHANGED attested

CallReduceExposure(d, amount) ==
    /\ MayReduceExposure(credit, d)
    /\ credit' = ReduceExposure(credit, d, amount)
    /\ UNCHANGED attested

CallRecordOutcome(d, r) ==
    /\ MayRecordOutcome(credit, d, r, attested)
    /\ credit' = RecordOutcome(credit, d, r, attested)
    /\ UNCHANGED attested

\* The attestor set moves the height forward, by any jump (external).
Attest(h) ==
    /\ h > attested
    /\ attested' = h
    /\ UNCHANGED credit

Next ==
    \/ \E d \in DealIds, b \in Borrowers, face \in Amounts : CallOpenDeal(d, b, face)
    \/ \E d \in DealIds : CallMarkFinanced(d)
    \/ \E d \in DealIds, amount \in Amounts : CallReduceExposure(d, amount)
    \/ \E d \in DealIds, r \in Results : CallRecordOutcome(d, r)
    \/ \E h \in Heights : Attest(h)

Spec == Init /\ [][Next]_vars

-----------------------------------------------------------------------------
(* Properties. *)

\* Storage stays well typed; in particular no counter and no sum goes negative.
TypeOK == credit \in Storage /\ attested \in Heights \cup {NoHeight}

\* INV-5.  The counters recordOutcome steps incrementally equal a recount of
\* the canonical per-deal outcomes, whatever refinements, in whatever order,
\* the caller asks for; so scoreOf and scoreFromOutcomes agree.
CountersMatchOutcomes ==
    \A b \in Borrowers, r \in Outcomes : credit.counters[b][r] = OutcomeCount(credit, b, r)

\* No legal sequence of calls reaches a record whose outcome cannot be refined:
\* once a height is attested the checked decrement in _step never reverts.
OutcomeCallNeverUnderflows ==
    \A d \in DealIds, r \in Outcomes :
        IsOpen(credit, d) /\ attested # NoHeight => MayRecordOutcome(credit, d, r, attested)

\* What recordOutcome does to the counters is right and never refused.
CountersSound == CountersMatchOutcomes /\ OutcomeCallNeverUnderflows

FaceSum(c, D) == SumFunctionOnSet([d \in DealIds |-> c.records[d].faceValue], D)

UnfinancedDeals(c, b) == {d \in DealsOf(c, b) : ~c.records[d].financed}
FinancedDeals(c, b) == {d \in DealsOf(c, b) : c.records[d].financed}

\* INV-13 at the credit layer.  The reserve is exactly the face value of the
\* borrower's deals not yet financed: the saturating subtraction in
\* markFinanced never bites, so no reserve is freed twice or left behind.
ReserveIsUnfinancedFace ==
    \A b \in Borrowers : credit.reserved[b] = FaceSum(credit, UnfinancedDeals(credit, b))

\* Exposure never exceeds the face value of the borrower's financed deals,
\* however reductions and conversions interleave: a face is converted once.
ExposureWithinFinancedFace ==
    \A b \in Borrowers : credit.exposure[b] <= FaceSum(credit, FinancedDeals(credit, b))

\* What is committed is on record: storage is well typed, and reserve and exposure
\* are those of the borrower's own deals.
CommitmentIsRecorded == TypeOK /\ ReserveIsUnfinancedFace /\ ExposureWithinFinancedFace

\* INV-10.  The limit is enforced where a borrower commits more and nowhere
\* else: a step that raises reserve plus exposure leaves it within the limit
\* (markFinanced must therefore move the face value, never add it).
CommitmentWithinLimit ==
    [][\A b \in Borrowers :
          UsedLimitOf(credit, b)' > UsedLimitOf(credit, b)
            => UsedLimitOf(credit, b)' <= LimitOf(credit, b)']_vars
=============================================================================
