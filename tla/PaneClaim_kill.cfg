\* The default delays; one process is killed, two others may steal its claim.
CONSTANTS g = g
          h = h
          Loop = Loop
          Nobody = Nobody
          Helpers = {g, h}
          Ttl = 6
          Settle = 1
          GitTime = 1
          Attempts = 2
          MaxKills = 1
SPECIFICATION FairSpec
INVARIANTS TypeOK PaneIsKept
PROPERTY PaneComesBack
CHECK_DEADLOCK FALSE
