\* Overlapping publishes of every kind of message.
CONSTANTS Agents = {"a", "b"}
          Supervisor = "supervisor"
          Threads = {t1, t2}
          Msgs <- AllMsgs
          Labels <- AllLabels
          Phases <- AllPhases
          MaxSeq = 3
          Pollers = {"supervisor"}
          VerifyOnCommit = TRUE
          TTLOn = TRUE
SPECIFICATION Spec
SYMMETRY Symmetry
INVARIANTS TypeOK InboxIsTheLog RosterFollowsLog NudgePerCommit
CHECK_DEADLOCK FALSE
