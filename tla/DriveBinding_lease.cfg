\* Two invocations with different windows, and every command that moves the session.
CONSTANTS l1 = l1
          l2 = l2
          Loops = {l1, l2}
          None = None
          Window <- TwoWindows
          MaxAge = 3
          MaxInstance = 1
SPECIFICATION FairSpec
INVARIANTS TypeOK PunctualKeepsLease AtMostOneTickLate
PROPERTY NeverWedged
CHECK_DEADLOCK FALSE
