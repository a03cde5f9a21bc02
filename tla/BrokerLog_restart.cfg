CONSTANTS Publishers = {p1}
          Readers = {r1}
          DiskMayFail = FALSE
          MaxSeq = 2
          MaxEpoch = 2
SPECIFICATION Spec
INVARIANT ObserverLossless
CHECK_DEADLOCK FALSE
