SPECIFICATION LapFreeSpec
CONSTANTS
    Writers = {w1, w2}
    Readers = {r1}
    SlotCount = 2
    Words = {lo, hi}
    MaxWrites = 4
INVARIANTS TypeOK IInv IntactDelivery DropsOnlyWrapped
PROPERTIES SeqNeverGoesBack ImplementsMailbox
CHECK_DEADLOCK FALSE
