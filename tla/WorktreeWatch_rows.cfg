\* Agent, hook, watcher, refresh, removal and re-addition on one worktree.
CONSTANTS Worktrees = {a}
          Slots = {n1, n2}
          Files = {f}
          Untracked = {f}
          MaxHead = 2
          TTLOn = TRUE
SPECIFICATION LiveSpec
INVARIANTS TypeOK OneHonestWatcher
PROPERTIES SettledStays NotedDirtIsSafe DirtSurfaces
CHECK_DEADLOCK FALSE
