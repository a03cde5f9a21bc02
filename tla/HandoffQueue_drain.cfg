\* Two workers, three judgment calls, a one-shot that may hang past its timeout.
CONSTANTS a = a
          b = b
          q = q
          r = r
          done = done
          None = None
          Agents = {a, b}
          Questions = {q, r}
          Candidates = {done}
          Calls <- ThreeCalls
          Timeout = 2
          Lease = 1
          MaxCalls = 3
SPECIFICATION FairSpec
INVARIANTS TypeOK EveryHandOffCounted NoOneShotUnobserved
PROPERTY EveryHandOffSettles
CHECK_DEADLOCK FALSE
