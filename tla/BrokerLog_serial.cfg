\* One publishing thread, fairly scheduled: the promise, and what must happen.
CONSTANTS Publishers = {p1}
          Readers = {r1}
          DiskMayFail = TRUE
          MaxSeq = 3
          MaxEpoch = 1
SPECIFICATION FairSpec
PROPERTIES ImplementsPromise EveryEntryObserved
CHECK_DEADLOCK FALSE
