\* Two workers, two prompts that share a key, a heartbeat and a window of two ticks,
\* every order of the world's moves.
CONSTANTS a1 = a1
          a2 = a2
          Agents = {a1, a2}
          Prompts = {"edit", "write"}
          Command <- Header
          Banners = {"banner"}
          MaxCycles = 2
          EscalateAfter = 1
          Interval = 2
          Window = 2
          OnExhausted = "escalate"
          MaxMoves = 3
SPECIFICATION Spec
INVARIANTS TypeOK OneCyclePerFailure SummaryIsTrue AlertsAreTimely HeartbeatIsDeserved LeavesInTime
CHECK_DEADLOCK FALSE
SYMMETRY Interchangeable
