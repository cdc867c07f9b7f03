SPECIFICATION Spec
CONSTANTS
    Writers = {w1, w2}
    Readers = {r1}
    SlotCount = 4
    Words = {lo, hi}
    MaxWrites = 5
INVARIANTS IntactDelivery
CHECK_DEADLOCK FALSE
SYMMETRY ThreadSymmetry
