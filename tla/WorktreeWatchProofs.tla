------------------------ MODULE WorktreeWatchProofs ------------------------
(***************************************************************************)
(* Theorems about WorktreeWatch, for every number of worktrees, watcher    *)
(* slots and files, and with the re-entry TTL on or off.                   *)
(***************************************************************************)
EXTENDS WorktreeWatch, FiniteSetTheorems, TLAPS

Tasks == [pc : {"off", "wait", "status", "seen", "failed", "gone", "publish"},
          seen : SUBSET Files, previous : {{}} \union {{D} : D \in SUBSET Files},
          tip : {{}} \union {{h} : h \in 0..MaxHead}]
Rows == [status : Labels, fresh : BOOLEAN, files : SUBSET Files, doubt : BOOLEAN]
Lists == {{}} \union {{D} : D \in SUBSET Files}
Views == [clean : BOOLEAN, verified : BOOLEAN, noted : BOOLEAN]

\* The type invariant, by what a step leaves alone together.
TypeGit == /\ tree \in [Worktrees -> BOOLEAN] /\ dirty \in [Worktrees -> SUBSET Files]
           /\ head \in [Worktrees -> 0..MaxHead] /\ staged \in [Worktrees -> SUBSET Files]
           /\ commit \in [Worktrees -> {"none", "locked", "hook"}]
TypeTask == task \in [Worktrees -> [Slots -> Tasks]]
TypeRows == rows \in [Worktrees -> Rows]
TypeRest == /\ watched \subseteq Worktrees
            /\ marks \in [Worktrees -> Nat] /\ behind \in [Worktrees -> BOOLEAN]
            /\ asked \in [Worktrees -> BOOLEAN]
TypeView == view \in [Worktrees -> {{}} \union {{v} : v \in Views}]

\* A commit in progress has room for its tip move.
CommitInv == \A a \in Worktrees : commit[a] = "locked" => head[a] < MaxHead

\* A slot that is off remembers nothing; of the others there is one, while the
\* path is registered.
SlotInv == \A a \in Worktrees :
               /\ \A n \in Slots : task[a][n].pc = "off" => task[a][n] = Off
               /\ a \notin watched => \A n \in Slots : task[a][n].pc = "off"
               /\ a \in watched => \E n \in Slots : task[a][n].pc # "off"
               /\ \A n, m \in Slots : task[a][n].pc # "off" /\ task[a][m].pc # "off" => n = m

\* A task has counted no move past the tip it last saw, and that tip was real.
TipInv == \A a \in Worktrees :
              /\ marks[a] <= head[a]
              /\ \A n \in Slots : \A h \in task[a][n].tip : marks[a] <= h /\ h <= head[a]

\* While nobody has put the row in doubt, a commit it shows is within its TTL,
\* and dirt a watcher has taken note of is listed in it.
RowInv == \A a \in Worktrees :
              ~rows[a].doubt =>
                  /\ rows[a].status = "committed" => TTLOn /\ rows[a].fresh
                  /\ \A n \in Slots : \A D \in task[a][n].previous :
                         D # {} => rows[a].files # {}

\* So a fetched row that looks clean was not that of noted dirt.
ViewInv == \A a \in Worktrees : \A v \in view[a] : ~(v.clean /\ v.noted)

WatchInv == CommitInv /\ SlotInv /\ TipInv /\ RowInv /\ ViewInv
IInv == TypeOK /\ WatchInv

-----------------------------------------------------------------------------
LEMMA TypeParts ==
    TypeOK <=> TypeGit /\ TypeTask /\ TypeRows /\ TypeRest /\ TypeView
BY DEF TypeOK, TypeGit, TypeTask, TypeRows, TypeRest, TypeView, Tasks, Rows, Views

LEMMA TypePartsNext ==
    TypeOK' <=> TypeGit' /\ TypeTask' /\ TypeRows' /\ TypeRest' /\ TypeView'
BY DEF TypeOK, TypeGit, TypeTask, TypeRows, TypeRest, TypeView, Tasks, Rows, Views

\* A task that has just been started, and one that has ended.
LEMMA OffAndStarted ==
    /\ Off \in Tasks /\ Started \in Tasks
    /\ Off.pc = "off" /\ Off.previous = {} /\ Off.tip = {}
    /\ Started.pc = "wait" /\ Started.previous = {} /\ Started.tip = {}
BY DEF Off, Started, Tasks

\* Replacing one task leaves all others as they are.
LEMMA OneTask ==
    ASSUME TypeTask, NEW a \in Worktrees, NEW n \in Slots, NEW t \in Tasks,
           task' = [task EXCEPT ![a][n] = t]
    PROVE  /\ TypeTask' /\ task'[a][n] = t
           /\ \A b \in Worktrees, m \in Slots : b # a \/ m # n => task'[b][m] = task[b][m]
BY DEF TypeTask

\* What a roster message makes of a row: a settled commit gives way to terminal
\* labels only, and the row is out of doubt only by a commit.
LEMMA UpdatedRow ==
    ASSUME NEW row \in Rows, NEW label \in Labels,
           NEW files \in Lists,
           NEW new, new = Updated(row, label, files)
    PROVE  /\ new \in Rows
           /\ files = {} => new.files = row.files
           /\ \A D : files = {D} => new.files = D
           /\ label = "committed" => /\ new.status = "committed" /\ new.fresh
                                     /\ ~new.doubt => TTLOn /\ {} \notin files
           /\ label # "committed" =>
                 /\ new.fresh = row.fresh /\ new.doubt = row.doubt
                 /\ new.status = "committed" => row.status = "committed"
           /\ row.status = "committed" /\ ~row.fresh => new.status \in Terminal
<1> USE WorktreeWatchAssumption
<1>1. /\ row.status \in Labels /\ row.fresh \in BOOLEAN /\ row.files \in SUBSET Files
      /\ row.doubt \in BOOLEAN
      /\ row = [row EXCEPT !.status = row.status]
  BY DEF Rows
<1>2. UNION files \in SUBSET Files /\ (\A D : files = {D} => UNION files = D)
  BY DEF Lists
<1>3. /\ new.status = (IF \/ row.status = "committed" /\ label = "working"
                             /\ TTLOn /\ row.fresh
                          \/ row.status \notin Terminal \/ label \in Terminal
                       THEN label ELSE row.status)
      /\ new.fresh = (row.fresh \/ label = "committed")
      /\ new.files = (IF files = {} THEN row.files ELSE UNION files)
      /\ new.doubt = (IF label = "committed" THEN ~TTLOn \/ {} \in files ELSE row.doubt)
  BY DEF Updated, Rows
<1>4. new \in Rows
  <2>1. /\ new.status \in Labels /\ new.files \in SUBSET Files
        /\ new.fresh \in BOOLEAN /\ new.doubt \in BOOLEAN
    BY <1>1, <1>2, <1>3, Zenon
  <2>2. new = [row EXCEPT !.status = new.status, !.fresh = new.fresh,
                          !.files = new.files, !.doubt = new.doubt]
    BY <1>3 DEF Updated
  <2> QED
    BY <2>1, <2>2 DEF Rows
<1>5. /\ files = {} => new.files = row.files
      /\ \A D : files = {D} => new.files = D
  BY <1>2, <1>3
<1>6. label = "committed" => /\ new.status = "committed" /\ new.fresh
                             /\ ~new.doubt => TTLOn /\ {} \notin files
  BY <1>3 DEF Terminal
<1>7. label # "committed" =>
         /\ new.fresh = row.fresh /\ new.doubt = row.doubt
         /\ new.status = "committed" => row.status = "committed"
  BY <1>1, <1>3 DEF Terminal, Labels
<1>8. row.status = "committed" /\ ~row.fresh => new.status \in Terminal
  BY <1>3 DEF Terminal
<1> QED
  BY <1>4, <1>5, <1>6, <1>7, <1>8

-----------------------------------------------------------------------------
\* What a step keeps that leaves the variables of a part alone.
LEMMA Frames ==
    ASSUME IInv
    PROVE  /\ UNCHANGED gitvars => TypeGit' /\ CommitInv'
           /\ UNCHANGED <<task, watched>> => TypeTask' /\ SlotInv'
           /\ UNCHANGED <<task, marks, head>> => TipInv'
           /\ UNCHANGED <<task, rows>> => TypeRows' /\ RowInv'
           /\ UNCHANGED view => TypeView' /\ ViewInv'
           /\ UNCHANGED <<watched, marks, behind, asked>> => TypeRest'
<1> USE TypeParts DEF IInv, WatchInv
<1>1. UNCHANGED gitvars => TypeGit' /\ CommitInv'
  BY DEF gitvars, TypeGit, CommitInv
<1>2. UNCHANGED <<task, watched>> => TypeTask' /\ SlotInv'
  BY DEF TypeTask, SlotInv
<1>3. UNCHANGED <<task, marks, head>> => TipInv'
  BY DEF TipInv
<1>4. UNCHANGED <<task, rows>> => TypeRows' /\ RowInv'
  BY DEF TypeRows, RowInv
<1>5. UNCHANGED view => TypeView' /\ ViewInv'
  BY DEF TypeView, ViewInv
<1>6. UNCHANGED <<watched, marks, behind, asked>> => TypeRest'
  BY DEF TypeRest
<1> QED
  BY <1>1, <1>2, <1>3, <1>4, <1>5, <1>6

\* A watcher that goes on stays the one of its path.
LEMMA TaskGoesOn ==
    ASSUME IInv, NEW a \in Worktrees, NEW n \in Slots, NEW t \in Tasks,
           task[a][n].pc # "off", t.pc # "off",
           task' = [task EXCEPT ![a][n] = t], UNCHANGED watched
    PROVE  /\ TypeTask' /\ SlotInv'
           /\ (t.tip = task[a][n].tip /\ UNCHANGED <<marks, head>> => TipInv')
           /\ (t.previous = task[a][n].previous /\ UNCHANGED rows => TypeRows' /\ RowInv')
<1>1. TypeTask /\ SlotInv /\ TipInv /\ RowInv /\ TypeRows
  BY TypeParts DEF IInv, WatchInv
<1>2. /\ TypeTask' /\ task'[a][n] = t
      /\ \A b \in Worktrees, m \in Slots : b # a \/ m # n => task'[b][m] = task[b][m]
  BY <1>1 DEF TypeTask
<1>3. SlotInv'
  BY <1>1, <1>2 DEF SlotInv
<1>4. t.tip = task[a][n].tip =>
         \A b \in Worktrees, m \in Slots : task'[b][m].tip = task[b][m].tip
  BY <1>2
<1>5. t.tip = task[a][n].tip /\ UNCHANGED <<marks, head>> => TipInv'
  BY <1>1, <1>4 DEF TipInv
<1>6. t.previous = task[a][n].previous =>
         \A b \in Worktrees, m \in Slots : task'[b][m].previous = task[b][m].previous
  BY <1>2
<1>7. t.previous = task[a][n].previous /\ UNCHANGED rows => TypeRows' /\ RowInv'
  BY <1>1, <1>6 DEF RowInv, TypeRows
<1> QED
  BY <1>2, <1>3, <1>5, <1>7

\* A message of the agent or its hook that lists the files of a commit, or no
\* list, keeps the row honest.
LEMMA RowReported ==
    ASSUME IInv, NEW a \in Worktrees, NEW label \in Labels,
           NEW files \in Lists,
           Report(a, label, files), UNCHANGED task,
           \/ files = {} /\ label # "committed"
           \/ label = "committed" /\ \E D : files = {D}
    PROVE  TypeRows' /\ RowInv'
<1>1. TypeRows /\ RowInv
  BY TypeParts DEF IInv, WatchInv
<1>0. PICK new : new = Updated(rows[a], label, files)
  OBVIOUS
<1>2. /\ rows[a] \in Rows /\ rows' = [rows EXCEPT ![a] = new]
      /\ \A b \in Worktrees \ {a} : rows'[b] = rows[b]
  BY <1>0, <1>1 DEF TypeRows, Report
<1>3. /\ new \in Rows
      /\ files = {} => new.files = rows[a].files
      /\ \A D : files = {D} => new.files = D
      /\ label = "committed" => /\ new.status = "committed" /\ new.fresh
                                /\ ~new.doubt => TTLOn /\ {} \notin files
      /\ label # "committed" =>
            /\ new.fresh = rows[a].fresh /\ new.doubt = rows[a].doubt
            /\ new.status = "committed" => rows[a].status = "committed"
  BY <1>0, <1>2, UpdatedRow, Z3
<1>4. TypeRows' /\ rows'[a] = new
  BY <1>1, <1>2, <1>3 DEF TypeRows
<1>5. CASE label = "committed"
  <2>1. ~new.doubt => new.files # {} /\ TTLOn
    BY <1>3, <1>5
  <2> QED
    BY <1>1, <1>2, <1>3, <1>4, <1>5, <2>1 DEF RowInv
<1>6. CASE files = {} /\ label # "committed"
  BY <1>1, <1>2, <1>3, <1>4, <1>6 DEF RowInv
<1> QED
  BY <1>4, <1>5, <1>6

\* A row in doubt promises nothing.
LEMMA RowDoubted ==
    ASSUME IInv, NEW a \in Worktrees, NEW new \in Rows, new.doubt,
           rows' = [rows EXCEPT ![a] = new], UNCHANGED task
    PROVE  TypeRows' /\ RowInv'
<1>1. TypeRows /\ RowInv
  BY TypeParts DEF IInv, WatchInv
<1> QED
  BY <1>1 DEF TypeRows, RowInv

-----------------------------------------------------------------------------
\* The initial state: every worktree is registered and has one watcher.
LEMMA InitIInv == Init => IInv
<1> SUFFICES ASSUME Init PROVE IInv
  OBVIOUS
<1> USE WorktreeWatchAssumption
<1> DEFINE first == CHOOSE m \in Slots : TRUE
<1>1. first \in Slots
  OBVIOUS
<1> HIDE DEF first
<1>2. \A a \in Worktrees, n \in Slots : task[a][n] = IF n = first THEN Started ELSE Off
  BY DEF Init, first
<1>3. TypeTask
  BY OffAndStarted DEF Init, TypeTask
<1>4. TypeGit /\ TypeRest
  <2>0. 0 \in 0..MaxHead
    OBVIOUS
  <2>1. head \in [Worktrees -> 0..MaxHead] /\ marks \in [Worktrees -> Nat]
    BY <2>0 DEF Init
  <2>2. TypeGit
    BY <2>1 DEF Init, TypeGit
  <2>3. TypeRest
    BY <2>1 DEF Init, TypeRest
  <2> QED
    BY <2>2, <2>3
<1>5. TypeRows
  BY DEF Init, TypeRows, Rows, Labels
<1>6. TypeView
  BY DEF Init, TypeView
<1>7. CommitInv /\ ViewInv
  BY DEF Init, CommitInv, ViewInv
<1>8. SlotInv
  BY <1>1, <1>2, OffAndStarted DEF Init, SlotInv
<1>9. TipInv
  <2>1. ASSUME NEW a \in Worktrees
        PROVE  marks[a] = 0 /\ head[a] = 0 /\ \A n \in Slots : task[a][n].tip = {}
    BY <1>2, OffAndStarted DEF Init
  <2> QED
    BY <2>1 DEF TipInv
<1>10. RowInv
  BY <1>2, OffAndStarted DEF Init, RowInv
<1> QED
  BY <1>3, <1>4, <1>5, <1>6, <1>7, <1>8, <1>9, <1>10, TypeParts DEF IInv, WatchInv

\* The agent's own steps: it writes, commits, reports.
LEMMA AgentStep ==
    ASSUME IInv, NEW a \in Worktrees, Agent(a) PROVE IInv'
<1> USE TypeParts, TypePartsNext, Frames DEF IInv, WatchInv
<1>0. TypeGit /\ TypeRows /\ TypeRest /\ TypeTask /\ CommitInv /\ TipInv /\ MaxHead \in Nat
  BY WorktreeWatchAssumption
<1>1. ASSUME NEW f \in Files, Write(a, f) PROVE IInv'
  <2>1. TypeGit' /\ CommitInv'
    BY <1>0, <1>1 DEF Write, TypeGit, CommitInv
  <2> QED
    BY <1>1, <2>1 DEF Write
<1>2. CASE BeginCommit(a)
  <2>1. TypeGit' /\ CommitInv'
    BY <1>0, <1>2 DEF BeginCommit, TypeGit, CommitInv
  <2> QED
    BY <1>2, <2>1 DEF BeginCommit
<1>3. CASE EndCommit(a)
  <2>1. head[a] \in Nat /\ head[a] < MaxHead /\ head'[a] = head[a] + 1
        /\ \A b \in Worktrees \ {a} : head'[b] = head[b]
    BY <1>0, <1>3 DEF EndCommit, TypeGit, CommitInv
  <2>2. TypeGit'
    <3>1. head' \in [Worktrees -> 0..MaxHead]
      BY <1>0, <1>3, <2>1 DEF EndCommit, TypeGit
    <3>2. staged' \in [Worktrees -> SUBSET Files] /\ dirty' \in [Worktrees -> SUBSET Files]
      BY <1>0, <1>3 DEF EndCommit, TypeGit, HookFiles
    <3> QED
      BY <1>0, <1>3, <3>1, <3>2 DEF EndCommit, TypeGit
  <2>3. CommitInv'
    BY <1>0, <1>3, <2>1 DEF EndCommit, TypeGit, CommitInv
  <2>4. TipInv'
    <3>1. \A b \in Worktrees : head[b] \in Nat /\ marks[b] \in Nat /\ head[b] <= head'[b]
      BY <1>0, <2>1 DEF TypeGit, TypeRest
    <3>2. ASSUME NEW b \in Worktrees, NEW n \in Slots, NEW h \in task[b][n].tip
          PROVE  h \in Nat
      <4>1. task[b][n] \in Tasks
        BY <1>0 DEF TypeTask
      <4>2. task[b][n].tip \in {{}} \union {{k} : k \in 0..MaxHead}
        BY <4>1 DEF Tasks
      <4> QED
        BY <1>0, <4>2
    <3>3. UNCHANGED <<marks, task>>
      BY <1>3 DEF EndCommit
    <3> QED
      BY <1>0, <2>1, <3>1, <3>2, <3>3 DEF TipInv
  <2> QED
    BY <1>3, <2>2, <2>3, <2>4 DEF EndCommit
<1>4. CASE HookPublish(a)
  <2>1. TypeGit' /\ CommitInv'
    BY <1>0, <1>4 DEF HookPublish, TypeGit, CommitInv
  <2>2. TypeRows' /\ RowInv'
    <3>1. {staged[a]} \in Lists
      BY <1>0, <1>4 DEF HookPublish, TypeGit, Lists
    <3> QED
      BY <1>4, <3>1, RowReported DEF HookPublish, Labels
  <2> QED
    BY <1>4, <2>1, <2>2 DEF HookPublish
<1>5. CASE Heartbeat(a)
  <2>1. PICK new : new = Updated(rows[a], "working", {{}})
    OBVIOUS
  <2>2. new \in Rows
    <3>1. rows[a] \in Rows /\ "working" \in Labels /\ {{}} \in Lists
      BY <1>0 DEF TypeRows, Labels, Lists
    <3> QED
      BY <2>1, <3>1, UpdatedRow
  <2>3. [new EXCEPT !.doubt = TRUE] \in Rows /\ [new EXCEPT !.doubt = TRUE].doubt
    BY <2>2 DEF Rows
  <2>4. TypeRows' /\ RowInv'
    BY <1>0, <1>5, <2>1, <2>3, RowDoubted DEF Heartbeat, TypeRows
  <2> QED
    BY <1>5, <2>4 DEF Heartbeat, gitvars
<1>6. CASE Blocked(a)
  <2>1. TypeRows' /\ RowInv'
    BY <1>6, RowReported DEF Blocked, Labels, Lists
  <2> QED
    BY <1>6, <2>1 DEF Blocked, gitvars
<1>7. CASE Settle(a)
  <2>1. rows' = [rows EXCEPT ![a] = [rows[a] EXCEPT !.fresh = FALSE, !.doubt = TRUE]]
    BY <1>0, <1>7 DEF Settle, TypeRows, Rows
  <2>2. [rows[a] EXCEPT !.fresh = FALSE, !.doubt = TRUE] \in Rows
        /\ [rows[a] EXCEPT !.fresh = FALSE, !.doubt = TRUE].doubt
    BY <1>0 DEF TypeRows, Rows
  <2>3. TypeRows' /\ RowInv'
    BY <1>7, <2>1, <2>2, RowDoubted DEF Settle
  <2> QED
    BY <1>7, <2>3 DEF Settle, gitvars
<1> QED
  BY <1>1, <1>2, <1>3, <1>4, <1>5, <1>6, <1>7 DEF Agent

\* What the tasks of a path hold, by type.
LEMMA TaskFields ==
    ASSUME TypeTask, NEW a \in Worktrees, NEW n \in Slots
    PROVE  /\ task[a][n] \in Tasks /\ task[a][n].seen \in SUBSET Files
           /\ task[a][n].previous \in Lists
           /\ \A h \in task[a][n].tip : h \in 0..MaxHead
<1>1. task[a][n] \in Tasks
  BY DEF TypeTask
<1>2. task[a][n].tip \in {{}} \union {{h} : h \in 0..MaxHead}
  BY <1>1 DEF Tasks
<1> QED
  BY <1>1, <1>2 DEF Tasks, Lists

\* The watcher's steps: it looks at the tip and at the worktree, decides by the
\* row and writes the row.
LEMMA WatchStep ==
    ASSUME IInv, NEW a \in Worktrees, NEW n \in Slots, Watch(a, n) PROVE IInv'
<1>t. PICK t : t = task[a][n]
  OBVIOUS
<1>0. /\ TypeGit /\ TypeTask /\ TypeRows /\ TypeRest /\ SlotInv /\ TipInv /\ RowInv
      /\ t = task[a][n]
      /\ MaxHead \in Nat
      /\ t \in Tasks /\ t.seen \in SUBSET Files /\ t.previous \in Lists
      /\ \A h \in t.tip : h \in 0..MaxHead
      /\ rows[a] \in Rows /\ head[a] \in 0..MaxHead /\ marks[a] \in Nat
      /\ dirty[a] \in SUBSET Files
  <2>1. /\ TypeGit /\ TypeTask /\ TypeRows /\ TypeRest /\ SlotInv /\ TipInv /\ RowInv
    BY TypeParts DEF IInv, WatchInv
  <2> QED
    BY <1>t, <2>1, WorktreeWatchAssumption, TaskFields DEF TypeRows, TypeGit, TypeRest
<1>1. CASE ReadHead(a, n)
  <2>1. PICK new : new = IF tree[a] THEN [t EXCEPT !.pc = "status", !.tip = {head[a]}]
                                    ELSE [t EXCEPT !.pc = "status"]
    OBVIOUS
  <2>2. /\ new \in Tasks /\ new.pc = "status" /\ new.previous = t.previous
        /\ new.tip = IF tree[a] THEN {head[a]} ELSE t.tip
    BY <1>0, <2>1 DEF Tasks
  <2>3. task' = [task EXCEPT ![a][n] = new]
    BY <1>0, <1>1, <2>1 DEF ReadHead, TypeTask
  <2>4. /\ TypeTask' /\ SlotInv' /\ TypeRows' /\ RowInv'
    BY <1>0, <1>1, <2>2, <2>3, TaskGoesOn DEF ReadHead
  <2>5. /\ task'[a][n] = new
        /\ \A b \in Worktrees, m \in Slots : b # a \/ m # n => task'[b][m] = task[b][m]
    BY <1>0, <2>2, <2>3 DEF TypeTask
  <2>6. TypeRest' /\ TipInv'
    <3>1. CASE tree[a] /\ Moved(t.tip, head[a])
      <4>1. marks' = [marks EXCEPT ![a] = @ + 1] /\ head' = head
        BY <1>0, <1>1, <3>1 DEF ReadHead, gitvars
      <4>2. PICK h \in t.tip : h # head[a]
        BY <1>0, <3>1 DEF Moved, Tasks
      <4>3. marks[a] <= h /\ h < head[a] /\ h \in Nat /\ marks[a] + 1 <= head[a]
        BY <1>0, <4>2 DEF TipInv
      <4>4. \A m \in Slots : m # n => task'[a][m].tip = {}
        BY <1>0, <1>1, <2>5, OffAndStarted DEF SlotInv, ReadHead
      <4>5. TypeRest'
        BY <1>0, <1>1, <4>1 DEF ReadHead, TypeRest
      <4>6. marks'[a] = marks[a] + 1 /\ \A b \in Worktrees \ {a} : marks'[b] = marks[b]
        BY <1>0, <4>1 DEF TypeRest
      <4>7. new.tip = {head[a]}
        BY <2>2, <3>1
      <4> QED
        BY <1>0, <2>5, <4>1, <4>3, <4>4, <4>5, <4>6, <4>7 DEF TipInv
    <3>2. CASE ~(tree[a] /\ Moved(t.tip, head[a]))
      <4>1. UNCHANGED <<marks, head>> /\ TypeRest'
        BY <1>0, <1>1, <3>2 DEF ReadHead, gitvars, TypeRest
      <4> QED
        BY <1>0, <2>2, <2>5, <4>1 DEF TipInv
    <3> QED
      BY <3>1, <3>2
  <2> QED
    BY <1>0, <1>1, <2>4, <2>6, Frames, TypePartsNext, TypeParts DEF ReadHead, IInv, WatchInv
<1>2. CASE ReadStatus(a, n)
  <2>1. PICK new : \/ new = [t EXCEPT !.pc = "seen", !.seen = dirty[a]]
                      /\ task' = [task EXCEPT ![a][n] = new]
                   \/ new = [t EXCEPT !.pc = "failed"]
                      /\ task' = [task EXCEPT ![a][n] = new]
    BY <1>0, <1>2 DEF ReadStatus, TypeTask
  <2>2. new \in Tasks /\ new.pc # "off" /\ new.tip = t.tip /\ new.previous = t.previous
    BY <1>0, <2>1 DEF Tasks
  <2>3. /\ TypeTask' /\ SlotInv' /\ TypeRows' /\ RowInv' /\ TipInv'
    BY <1>0, <1>2, <2>1, <2>2, TaskGoesOn DEF ReadStatus, gitvars
  <2> QED
    BY <1>0, <1>2, <2>3, Frames, TypePartsNext, TypeParts DEF ReadStatus, IInv, WatchInv
<1>3. CASE CheckGone(a, n)
  <2>1. PICK new : new = [t EXCEPT !.pc = IF tree[a] THEN "wait" ELSE "gone"]
    OBVIOUS
  <2>2. new \in Tasks /\ new.pc # "off" /\ new.tip = t.tip /\ new.previous = t.previous
    BY <1>0, <2>1 DEF Tasks
  <2>3. task' = [task EXCEPT ![a][n] = new]
    BY <1>0, <1>3, <2>1 DEF CheckGone, TypeTask
  <2>4. /\ TypeTask' /\ SlotInv' /\ TypeRows' /\ RowInv' /\ TipInv'
    <3>1. task[a][n].pc # "off" /\ UNCHANGED <<watched, marks, head, rows>>
      BY <1>3 DEF CheckGone, gitvars
    <3> QED
      BY <1>t, <2>2, <2>3, <3>1, TaskGoesOn
  <2> QED
    BY <1>0, <1>3, <2>4, Frames, TypePartsNext, TypeParts DEF CheckGone, IInv, WatchInv
<1>4. CASE Forget(a, n)
  <2>1. task' = [task EXCEPT ![a][n] = Off] /\ watched' = watched \ {a} /\ t.pc = "gone"
    BY <1>t, <1>4 DEF Forget
  <2>2. /\ TypeTask' /\ task'[a][n] = Off
        /\ \A b \in Worktrees, m \in Slots : b # a \/ m # n => task'[b][m] = task[b][m]
    BY <1>0, <2>1, OffAndStarted DEF TypeTask
  <2>3. SlotInv'
    BY <1>0, <2>1, <2>2, OffAndStarted DEF SlotInv
  <2>4. TipInv' /\ TypeRows' /\ RowInv' /\ TypeRest'
    BY <1>0, <1>4, <2>2, OffAndStarted
       DEF Forget, gitvars, TipInv, TypeRows, RowInv, TypeRest
  <2> QED
    BY <1>0, <1>4, <2>2, <2>3, <2>4, Frames, TypePartsNext, TypeParts DEF Forget, IInv, WatchInv
<1>5. CASE Gate(a, n)
  <2>1. PICK new : /\ task' = [task EXCEPT ![a][n] = new]
                   /\ \/ new = [t EXCEPT !.pc = "publish"]
                      \/ /\ new = [t EXCEPT !.pc = "wait", !.previous = {t.seen}, !.seen = {}]
                         /\ \/ t.previous = {t.seen} \/ t.seen = {}
                            \/ ~MayRepublish(rows[a])
    BY <1>t, <1>5 DEF Gate
  <2>2. /\ new \in Tasks /\ new.pc # "off" /\ new.tip = t.tip
        /\ \/ new.previous = t.previous
           \/ /\ new.previous = {t.seen}
              /\ t.previous = {t.seen} \/ t.seen = {} \/ ~MayRepublish(rows[a])
    BY <1>0, <2>1 DEF Tasks
  <2>3. TypeTask' /\ SlotInv' /\ TipInv'
    BY <1>0, <1>5, <2>1, <2>2, TaskGoesOn DEF Gate, gitvars
  <2>4. TypeRows' /\ RowInv'
    <3>1. /\ task'[a][n] = new
          /\ \A b \in Worktrees, m \in Slots : b # a \/ m # n => task'[b][m] = task[b][m]
      BY <1>0, <2>1, <2>2 DEF TypeTask
    <3>2. rows' = rows
      BY <1>5 DEF Gate
    <3>3. ~MayRepublish(rows[a]) => rows[a].doubt
      BY <1>0 DEF MayRepublish, RowInv
    <3> QED
      BY <1>0, <2>2, <3>1, <3>2, <3>3 DEF RowInv, TypeRows
  <2> QED
    BY <1>0, <1>5, <2>3, <2>4, Frames, TypePartsNext, TypeParts DEF Gate, IInv, WatchInv
<1>6. CASE PublishWorking(a, n)
  <2>1. PICK new : new = [t EXCEPT !.pc = "wait", !.seen = {}, !.previous = {t.seen}]
    OBVIOUS
  <2>2. /\ new \in Tasks /\ new.pc # "off" /\ new.tip = t.tip /\ new.previous = {t.seen}
    BY <1>0, <2>1 DEF Tasks
  <2>3. task' = [task EXCEPT ![a][n] = new]
    BY <1>0, <1>6, <2>1 DEF PublishWorking, TypeTask
  <2>4. TypeTask' /\ SlotInv' /\ TipInv'
    <3>1. task[a][n].pc # "off" /\ UNCHANGED <<watched, marks, head>>
      BY <1>6 DEF PublishWorking, gitvars
    <3> QED
      BY <1>t, <2>2, <2>3, <3>1, TaskGoesOn
  <2>5. /\ task'[a][n] = new
        /\ \A b \in Worktrees, m \in Slots : b # a \/ m # n => task'[b][m] = task[b][m]
    BY <1>0, <2>2, <2>3 DEF TypeTask
  <2>6. PICK row : row = Updated(rows[a], "working", {t.seen})
    OBVIOUS
  <2>7. /\ row \in Rows /\ row.files = t.seen
        /\ row.fresh = rows[a].fresh /\ row.doubt = rows[a].doubt
        /\ row.status = "committed" => rows[a].status = "committed"
    <3>1. rows[a] \in Rows /\ "working" \in Labels /\ {t.seen} \in Lists
      BY <1>0 DEF Labels, Lists
    <3> QED
      BY <2>6, <3>1, UpdatedRow
  <2>8. rows' = [rows EXCEPT ![a] = row]
    BY <1>t, <1>6, <2>6 DEF PublishWorking, Report
  <2>9. TypeRows' /\ rows'[a] = row /\ \A b \in Worktrees \ {a} : rows'[b] = rows[b]
    BY <1>0, <2>7, <2>8 DEF TypeRows
  <2>10. \A m \in Slots : m # n => task'[a][m].previous = {}
    BY <1>0, <1>6, <2>5, OffAndStarted DEF SlotInv, PublishWorking
  <2>11. RowInv'
    BY <1>0, <2>2, <2>5, <2>7, <2>9, <2>10 DEF RowInv
  <2> QED
    BY <1>0, <1>6, <2>4, <2>9, <2>11, Frames, TypePartsNext, TypeParts
    DEF PublishWorking, IInv, WatchInv
<1> QED
  BY <1>1, <1>2, <1>3, <1>4, <1>5, <1>6 DEF Watch

\* Removing a worktree, making it again and registering its path.
LEMMA AddRemoveStep ==
    ASSUME IInv, NEW a \in Worktrees, Remove(a) \/ Add(a) \/ Register(a) PROVE IInv'
<1>0. /\ TypeGit /\ TypeTask /\ TypeRows /\ TypeRest /\ CommitInv /\ SlotInv /\ TipInv
      /\ RowInv
  BY TypeParts DEF IInv, WatchInv
<1>1. CASE Remove(a)
  <2>1. TypeGit' /\ CommitInv' /\ TypeRest'
    BY <1>0, <1>1 DEF Remove, TypeGit, CommitInv, TypeRest
  <2> QED
    BY <1>1, <2>1, Frames, TypePartsNext DEF Remove, IInv, WatchInv
<1>2. CASE Add(a)
  <2>1. TypeGit' /\ CommitInv'
    BY <1>0, <1>2 DEF Add, TypeGit, CommitInv
  <2> QED
    BY <1>2, <2>1, Frames, TypePartsNext DEF Add, IInv, WatchInv
<1>3. CASE Register(a)
  <2>1. TypeRest'
    BY <1>0, <1>3 DEF Register, TypeRest
  <2>2. TypeTask' /\ SlotInv' /\ TipInv' /\ TypeRows' /\ RowInv'
    <3>1. CASE a \in watched
      <4>1. UNCHANGED <<task, watched>>
        BY <1>3, <3>1 DEF Register
      <4> QED
        BY <1>3, <4>1, Frames DEF Register, gitvars
    <3>2. CASE a \notin watched
      <4> DEFINE free == CHOOSE m \in Slots : task[a][m].pc = "off"
      <4>1. \A m \in Slots : task[a][m].pc = "off"
        BY <1>0, <3>2 DEF SlotInv
      <4>2. free \in Slots
        BY <4>1, WorktreeWatchAssumption
      <4>3. task' = [task EXCEPT ![a][free] = Started] /\ watched' = watched \union {a}
        BY <1>3, <3>2 DEF Register, Spawned
      <4> HIDE DEF free
      <4>4. /\ TypeTask' /\ task'[a][free] = Started
            /\ \A b \in Worktrees, m \in Slots : b # a \/ m # free => task'[b][m] = task[b][m]
        BY <1>0, <4>2, <4>3, OffAndStarted DEF TypeTask
      <4>5. SlotInv'
        BY <1>0, <4>1, <4>2, <4>3, <4>4, OffAndStarted DEF SlotInv
      <4>6. TipInv' /\ TypeRows' /\ RowInv'
        BY <1>0, <1>3, <4>4, OffAndStarted
           DEF Register, gitvars, TipInv, TypeRows, RowInv
      <4> QED
        BY <4>4, <4>5, <4>6
    <3> QED
      BY <3>1, <3>2
  <2> QED
    BY <1>3, <2>1, <2>2, Frames, TypePartsNext DEF Register, IInv, WatchInv
<1> QED
  BY <1>1, <1>2, <1>3

\* The drive loop's steps: it fetches a row and refreshes the branch or not.
LEMMA RefreshStep ==
    ASSUME IInv, NEW a \in Worktrees, Refresh(a) PROVE IInv'
<1>0. /\ TypeGit /\ TypeTask /\ TypeRows /\ TypeRest /\ TypeView /\ CommitInv /\ TipInv
      /\ RowInv /\ ViewInv /\ MaxHead \in Nat
  BY TypeParts, WorktreeWatchAssumption DEF IInv, WatchInv
<1>1. CASE BaseMoves(a)
  <2>1. TypeRest'
    BY <1>0, <1>1 DEF BaseMoves, TypeRest
  <2> QED
    BY <1>1, <2>1, Frames, TypePartsNext DEF BaseMoves, gitvars, IInv, WatchInv
<1>2. CASE Fetch(a)
  <2>1. PICK v : /\ v = [clean |-> rows[a].files = {}, verified |-> rows[a].status = "verified",
                         noted |-> /\ dirty[a] # {} /\ ~rows[a].doubt
                                   /\ \E n \in Slots : task[a][n].previous = {dirty[a]}]
                 /\ view' = [view EXCEPT ![a] = {v}]
    BY <1>2 DEF Fetch
  <2>2. v \in Views
    BY <2>1 DEF Views
  <2>3. v.noted => ~v.clean
    BY <1>0, <2>1 DEF RowInv
  <2>4. TypeView' /\ ViewInv'
    BY <1>0, <2>1, <2>2, <2>3 DEF TypeView, ViewInv
  <2> QED
    <3>1. UNCHANGED <<gitvars, head, watched, task, rows, marks, behind, asked>>
      BY <1>2 DEF Fetch, gitvars
    <3> QED
      BY <2>4, <3>1, Frames, TypePartsNext DEF gitvars, IInv, WatchInv
<1>3. CASE Rebase(a)
  <2>1. head[a] \in Nat /\ head[a] < MaxHead /\ head'[a] = head[a] + 1
        /\ commit[a] = "none" /\ \A b \in Worktrees \ {a} : head'[b] = head[b]
    BY <1>0, <1>3 DEF Rebase, TypeGit
  <2>2. TypeGit' /\ CommitInv'
    <3>1. head' \in [Worktrees -> 0..MaxHead]
      BY <1>0, <1>3, <2>1 DEF Rebase, TypeGit
    <3> QED
      BY <1>0, <1>3, <2>1, <3>1 DEF Rebase, TypeGit, CommitInv
  <2>3. TipInv'
    <3>1. \A b \in Worktrees : /\ head[b] \in Nat /\ head'[b] \in Nat /\ marks[b] \in Nat
                               /\ head[b] <= head'[b]
      BY <1>0, <2>1, <2>2 DEF TypeGit, TypeRest
    <3>2. ASSUME NEW b \in Worktrees, NEW n \in Slots
          PROVE  \A h \in task[b][n].tip : h \in Nat
      BY <1>0, TaskFields
    <3>3. UNCHANGED <<marks, task>> /\ TipInv
      BY <1>0, <1>3 DEF Rebase
    <3> QED
      BY <3>1, <3>2, <3>3 DEF TipInv
  <2>4. TypeView' /\ ViewInv' /\ TypeRest'
    BY <1>0, <1>3 DEF Rebase, TypeView, ViewInv, TypeRest
  <2> QED
    BY <1>3, <2>2, <2>3, <2>4, Frames, TypePartsNext DEF Rebase, IInv, WatchInv
<1>4. CASE Skip(a)
  <2>1. TypeView' /\ ViewInv'
    BY <1>0, <1>4 DEF Skip, TypeView, ViewInv
  <2> QED
    BY <1>4, <2>1, Frames, TypePartsNext DEF Skip, gitvars, IInv, WatchInv
<1> QED
  BY <1>1, <1>2, <1>3, <1>4 DEF Refresh

\* Every step of the agents, watchers, removals and refreshes keeps the invariant.
LEMMA StepIInv == IInv /\ [Next]_vars => IInv'
<1> SUFFICES ASSUME IInv, [Next]_vars PROVE IInv'
  OBVIOUS
<1>1. CASE Next
  BY <1>1, AgentStep, WatchStep, AddRemoveStep, RefreshStep DEF Next
<1>2. CASE UNCHANGED vars
  <2>1. UNCHANGED <<gitvars, head, watched, task, rows, marks, behind, view, asked>>
    BY <1>2 DEF vars, gitvars
  <2> QED
    BY <2>1, Frames, TypePartsNext DEF IInv, WatchInv
<1> QED
  BY <1>1, <1>2

-----------------------------------------------------------------------------
\* The inductive invariant holds throughout, whatever the interleaving of agents,
\* hooks, watcher tasks, removals and the refresh.
THEOREM WatchInvariant == Spec => []IInv
BY InitIInv, StepIInv, PTL DEF Spec

\* Every variable keeps its type; no row ever shows a label nobody published.
THEOREM TypeCorrect == Spec => []TypeOK
<1>1. IInv => TypeOK
  BY DEF IInv
<1> QED
  BY <1>1, WatchInvariant, PTL

\* One watcher for a path that is registered and none for one that is not, and
\* the moves it counts as wave progress are moves of the tip: through removals,
\* re-additions and a watcher still on its way out (register_watch_target,
\* forget_watch_target, head_moved).
THEOREM OneWatcherPerPath == Spec => []OneHonestWatcher
<1>1. ASSUME IInv PROVE OneHonestWatcher
  <2>0. SlotInv /\ TipInv
    BY <1>1 DEF IInv, WatchInv
  <2>1. ASSUME NEW a \in Worktrees
        PROVE  Cardinality(Alive(a)) = IF a \in watched THEN 1 ELSE 0
    <3>1. CASE a \in watched
      <4>1. PICK n \in Slots : task[a][n].pc # "off"
        BY <2>0, <3>1 DEF SlotInv
      <4>2. Alive(a) = {n}
        BY <2>0, <4>1 DEF SlotInv, Alive
      <4> QED
        BY <3>1, <4>2, FS_Singleton
    <3>2. CASE a \notin watched
      <4>1. Alive(a) = {}
        BY <2>0, <3>2 DEF SlotInv, Alive
      <4> QED
        BY <3>2, <4>1, FS_EmptySet
    <3> QED
      BY <3>1, <3>2
  <2> QED
    BY <2>0, <2>1 DEF OneHonestWatcher, WatchedIffAlive, MarksAreMoves, TipInv
<1> QED
  BY <1>1, WatchInvariant, PTL

\* A settled commit gives way in the row to terminal labels only, although the
\* watcher publishes after it has looked at the row (update_agent_record).
THEOREM SettledCommitStays == Spec => SettledStays
<1>1. ASSUME IInv, [Next]_vars, rows' # rows, NEW a \in Worktrees,
             rows[a].status = "committed", ~rows[a].fresh
      PROVE  rows'[a].status \in Terminal
  <2>0. TypeRows /\ TypeTask /\ TypeGit /\ rows[a] \in Rows
    BY <1>1, TypeParts DEF IInv, TypeRows
  <2>1. CASE rows'[a] = rows[a]
    BY <1>1, <2>1 DEF Terminal
  <2>2. ASSUME NEW label \in Labels, NEW files \in Lists,
               rows'[a].status = Updated(rows[a], label, files).status
        PROVE  rows'[a].status \in Terminal
    BY <1>1, <2>0, <2>2, UpdatedRow
  <2>3. ASSUME NEW b \in Worktrees, Agent(b) PROVE rows'[a].status \in Terminal
    <3>1. CASE HookPublish(b)
      <4>1. rows'[b] = Updated(rows[b], "committed", {staged[b]}) /\ {staged[b]} \in Lists
            /\ \A c \in Worktrees \ {b} : rows'[c] = rows[c]
        BY <2>0, <3>1 DEF HookPublish, Report, TypeRows, TypeGit, Lists
      <4>2. "committed" \in Labels
        BY DEF Labels
      <4> QED
        BY <2>1, <2>2, <4>1, <4>2
    <3>2. CASE Blocked(b)
      <4>1. rows'[b] = Updated(rows[b], "blocked", {}) /\ {} \in Lists
            /\ \A c \in Worktrees \ {b} : rows'[c] = rows[c]
        BY <2>0, <3>2 DEF Blocked, Report, TypeRows, Lists
      <4>2. "blocked" \in Labels
        BY DEF Labels
      <4> QED
        BY <2>1, <2>2, <4>1, <4>2
    <3>3. CASE Heartbeat(b)
      <4>1. /\ {{}} \in Lists /\ "working" \in Labels
            /\ rows'[b] = [Updated(rows[b], "working", {{}}) EXCEPT !.doubt = TRUE]
            /\ \A c \in Worktrees \ {b} : rows'[c] = rows[c]
        BY <2>0, <3>3 DEF Heartbeat, TypeRows, Lists, Labels
      <4>2. Updated(rows[b], "working", {{}}) \in Rows
        BY <2>0, <4>1, UpdatedRow DEF TypeRows
      <4>3. rows'[b].status = Updated(rows[b], "working", {{}}).status
        BY <4>1, <4>2 DEF Rows
      <4> QED
        BY <2>1, <2>2, <4>1, <4>3
    <3>4. CASE Settle(b)
      <4>1. rows'[a].status = rows[a].status
        BY <2>0, <3>4 DEF Settle, TypeRows, Rows
      <4> QED
        BY <1>1, <4>1 DEF Terminal
    <3>5. CASE (\E f \in Files : Write(b, f)) \/ BeginCommit(b) \/ EndCommit(b)
      BY <1>1, <3>5 DEF Write, BeginCommit, EndCommit
    <3> QED
      BY <2>3, <3>1, <3>2, <3>3, <3>4, <3>5 DEF Agent
  <2>4. ASSUME NEW b \in Worktrees, NEW n \in Slots, Watch(b, n)
        PROVE  rows'[a].status \in Terminal
    <3>1. CASE PublishWorking(b, n)
      <4>1. {task[b][n].seen} \in Lists /\ "working" \in Labels
        BY <2>0, TaskFields DEF Lists, Labels
      <4>2. rows'[b] = Updated(rows[b], "working", {task[b][n].seen})
            /\ \A c \in Worktrees \ {b} : rows'[c] = rows[c]
        BY <2>0, <3>1 DEF PublishWorking, Report, TypeRows
      <4> QED
        BY <2>1, <2>2, <4>1, <4>2
    <3>2. CASE ~PublishWorking(b, n)
      BY <1>1, <2>4, <3>2
         DEF Watch, ReadHead, ReadStatus, CheckGone, Forget, Gate
    <3> QED
      BY <3>1, <3>2
  <2>5. ASSUME NEW b \in Worktrees, Remove(b) \/ Add(b) \/ Register(b) \/ Refresh(b)
        PROVE  FALSE
    BY <1>1, <2>5 DEF Remove, Add, Register, Refresh, BaseMoves, Fetch, Rebase, Skip
  <2> QED
    BY <1>1, <2>3, <2>4, <2>5 DEF Next, vars
<1>2. IInv /\ [Next]_vars
        => [\A a \in Worktrees : rows[a].status = "committed" /\ ~rows[a].fresh
                                 => rows'[a].status \in Terminal]_rows
  BY <1>1
<1> QED
  BY <1>2, WatchInvariant, PTL DEF Spec, SettledStays

\* A worktree whose uncommitted files a watcher had taken note of when the drive
\* loop fetched the row is not rebased by it, while nobody has put the row in
\* doubt ("Dirty working tree is never rebased"; RefreshPreconditions).
THEOREM NotedDirtIsNotRebased == Spec => NotedDirtIsSafe
<1>1. ASSUME IInv, NEW a \in Worktrees, NEW v \in view[a], Rebase(a) PROVE ~v.noted
  <2>1. PICK u \in Views : view[a] = {u}
    BY <1>1, TypeParts DEF IInv, TypeView
  <2>2. v = u /\ v.clean
    BY <1>1, <2>1 DEF Rebase, GatesPass
  <2> QED
    BY <1>1, <2>2 DEF IInv, WatchInv, ViewInv
<1>2. IInv => [\A a \in Worktrees : \A v \in view[a] : Rebase(a) => ~v.noted]_vars
  BY <1>1
<1> QED
  BY <1>2, WatchInvariant, PTL DEF NotedDirtIsSafe
=============================================================================
