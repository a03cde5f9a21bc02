\* Publishes that overlap: two threads inside publish_message.
CONSTANTS Publishers = {p1, p2}
          Readers = {r1}
          DiskMayFail = TRUE
          MaxSeq = 3
          MaxEpoch = 2
SPECIFICATION Spec
SYMMETRY Symmetry
INVARIANTS TypeOK NumbersAreSound ReadsAreSound FileIsSound NoLostWakeup
CHECK_DEADLOCK FALSE
