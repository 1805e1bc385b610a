SPECIFICATION Spec
CONSTANTS
    DealIds = {d1, d2, d3}
    Borrowers = {alice, bob}
    NoBorrower = NoBorrower
    BaseLimit = 10
    Amounts <- MCAmounts
    MaxHeight = 1
SYMMETRY MCSymmetry
INVARIANTS
    CountersSound
    CommitmentIsRecorded
PROPERTIES
    CommitmentWithinLimit
