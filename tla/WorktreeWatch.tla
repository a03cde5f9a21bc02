--------------------------- MODULE WorktreeWatch ---------------------------
(***************************************************************************)
(* A worktree as the session sees it: the watcher task that polls git, the *)
(* commit hook, the agent's own messages, the roster row they all write,   *)
(* the live set of watched paths, and the branch refresh that trusts the   *)
(* row.  Source: src/src/broker/watcher.rs, delivery.rs (the row), mod.rs  *)
(* and server.rs (POST /watch), assets/hooks/post-commit.sh, assets/       *)
(* scripts/broker.sh and the drive loop's refresh_branches_after_merge.    *)
(*                                                                         *)
(* The watcher is a loop of separate git calls, a read of the row and a    *)
(* publish; the worktree, the row and the watched set change in between.   *)
(* An optional value is a set: {} for None, {x} for Some(x).               *)
(***************************************************************************)
EXTENDS Naturals, FiniteSets

CONSTANTS Worktrees,  \* agents, each with the worktree it owns
          Slots,      \* watcher tasks one path can have had
          Files,      \* paths git status may list
          Untracked,  \* the ones git does not track: a rebase keeps them
          MaxHead,    \* bound: moves of one branch tip
          TTLOn       \* republish_working_ttl is not zero

ASSUME WorktreeWatchAssumption ==
    /\ Slots # {} /\ Untracked \subseteq Files /\ MaxHead \in Nat
    /\ TTLOn \in BOOLEAN

VARIABLES
    tree,      \* tree[a]: the worktree exists on disk
    dirty,     \* dirty[a]: the paths git status --porcelain lists
    head,      \* head[a]: the branch tip
    commit,    \* commit[a]: "none", "locked" (index.lock), "hook" (post-commit)
    staged,    \* staged[a]: the files the hook reports for the commit
    watched,   \* BrokerStateInner::watched_paths
    task,      \* task[a][n]: the watcher tasks of a's worktree
    rows,      \* rows[a]: AgentRecord; ghost: since the last commit the agent
               \* reported its files itself, its TTL is over, or the commit
               \* itself listed no file (doubt)
    marks,     \* marks[a]: tip moves a's watchers counted as progress
    behind,    \* behind[a]: a merge moved the base and a has not taken it
    view,      \* view[a]: the drive loop's status row for a, once fetched
    asked      \* ghost: POST /watch was accepted since the worktree was made

gitvars == <<tree, dirty, head, commit, staged>>
vars == <<gitvars, watched, task, rows, marks, behind, view, asked>>

Terminal == {"done", "verified", "blocked", "committed"}
Off == [pc |-> "off", seen |-> {}, previous |-> {}, tip |-> {}]
Started == [Off EXCEPT !.pc = "wait"]

\* update_agent_record for a message of a with this label; files is what the
\* message lists, {} when it carries no list.
Updated(row, label, files) ==
    [row EXCEPT
       !.status = IF \/ @ = "committed" /\ label = "working" /\ TTLOn /\ row.fresh
                     \/ @ \notin Terminal
                     \/ label \in Terminal
                  THEN label ELSE @,
       !.fresh = @ \/ label = "committed",
       !.files = IF files = {} THEN @ ELSE UNION files,
       !.doubt = IF label = "committed" THEN ~TTLOn \/ {} \in files ELSE @]

Report(a, label, files) == rows' = [rows EXCEPT ![a] = Updated(@, label, files)]

\* Watcher should_republish_working.
MayRepublish(row) == row.status # "committed" \/ (TTLOn /\ row.fresh)

Init == /\ tree = [a \in Worktrees |-> TRUE]
        /\ dirty = [a \in Worktrees |-> {}] /\ staged = [a \in Worktrees |-> {}]
        /\ head = [a \in Worktrees |-> 0] /\ marks = [a \in Worktrees |-> 0]
        /\ commit = [a \in Worktrees |-> "none"]
        /\ watched = Worktrees
        /\ task = [a \in Worktrees |-> [n \in Slots |->
                      IF n = CHOOSE m \in Slots : TRUE THEN Started ELSE Off]]
        /\ rows = [a \in Worktrees |->
                     [status |-> "", fresh |-> FALSE, files |-> {}, doubt |-> FALSE]]
        /\ behind = [a \in Worktrees |-> FALSE] /\ view = [a \in Worktrees |-> {}]
        /\ asked = [a \in Worktrees |-> TRUE]

(***************************************************************************)
(* The agent in its worktree                                               *)
(***************************************************************************)
Write(a, f) ==
    /\ tree[a] /\ commit[a] = "none"
    /\ dirty' = [dirty EXCEPT ![a] = @ \union {f}]
    /\ UNCHANGED <<tree, head, commit, staged, watched, task, rows, marks, behind, view, asked>>

\* git commit takes the index lock (with --allow-empty also when all is clean) ...
BeginCommit(a) ==
    /\ tree[a] /\ commit[a] = "none" /\ head[a] < MaxHead
    /\ commit' = [commit EXCEPT ![a] = "locked"]
    /\ UNCHANGED <<tree, dirty, head, staged, watched, task, rows, marks, behind, view, asked>>

\* git diff HEAD~1 --name-only, which the hook runs: what was committed and
\* what is left, but for the files git does not track.
HookFiles(committed, left) == committed \union (left \ Untracked)

\* ... moves the tip, with all or some or none of the changes ...
EndCommit(a) ==
    /\ commit[a] = "locked"
    /\ commit' = [commit EXCEPT ![a] = "hook"]
    /\ head' = [head EXCEPT ![a] = @ + 1]
    /\ \E part \in SUBSET dirty[a] :
         /\ staged' = [staged EXCEPT ![a] = HookFiles(part, dirty[a] \ part)]
         /\ dirty' = [dirty EXCEPT ![a] = @ \ part]
    /\ UNCHANGED <<tree, watched, task, rows, marks, behind, view, asked>>

\* Mutant of HookPublish: the hook reports another status.
HookPublishDone(a) ==
    /\ commit[a] = "hook"
    /\ commit' = [commit EXCEPT ![a] = "none"]
    /\ Report(a, "done", {staged[a]})
    /\ staged' = [staged EXCEPT ![a] = {}]
    /\ UNCHANGED <<tree, dirty, head, watched, task, marks, behind, view, asked>>

\* ... and runs the post-commit hook, which publishes its list of files.
HookPublish(a) ==
    /\ commit[a] = "hook"
    /\ commit' = [commit EXCEPT ![a] = "none"]
    /\ Report(a, "committed", {staged[a]})
    /\ staged' = [staged EXCEPT ![a] = {}]
    /\ UNCHANGED <<tree, dirty, head, watched, task, marks, behind, view, asked>>

\* broker.sh status, with the list it always sends.
Heartbeat(a) ==
    /\ tree[a] /\ commit[a] = "none"
    /\ rows' = [rows EXCEPT ![a] = [Updated(@, "working", {{}}) EXCEPT !.doubt = TRUE]]
    /\ UNCHANGED <<gitvars, watched, task, marks, behind, view, asked>>

\* Mutant of Blocked: a message without a list clears the tracked files.
BlockedClears(a) ==
    /\ tree[a] /\ commit[a] = "none"
    /\ Report(a, "blocked", {{}})
    /\ UNCHANGED <<gitvars, watched, task, marks, behind, view, asked>>

\* broker.sh blocked: no file list.
Blocked(a) ==
    /\ tree[a] /\ commit[a] = "none"
    /\ Report(a, "blocked", {})
    /\ UNCHANGED <<gitvars, watched, task, marks, behind, view, asked>>

\* The re-entry TTL of the last commit runs out.
Settle(a) ==
    /\ rows[a].fresh
    /\ rows' = [rows EXCEPT ![a].fresh = FALSE, ![a].doubt = TRUE]
    /\ UNCHANGED <<gitvars, watched, task, marks, behind, view, asked>>

(***************************************************************************)
(* The watcher task (watch_worktree), one action per call or read          *)
(***************************************************************************)
\* Mutant of Moved: the first observation counts as a move (head_moved).
MovedFromNothing(tip, current) == tip # {current}

\* head_moved: a change from a tip this task has seen.
Moved(tip, current) == tip \notin {{}, {current}}

\* A tick first reads HEAD; a moved tip is wave progress.
ReadHead(a, n) ==
    /\ task[a][n].pc = "wait"
    /\ IF tree[a]
       THEN /\ task' = [task EXCEPT ![a][n].pc = "status", ![a][n].tip = {head[a]}]
            /\ marks' = [marks EXCEPT ![a] = IF Moved(task[a][n].tip, head[a]) THEN @ + 1 ELSE @]
       ELSE task' = [task EXCEPT ![a][n].pc = "status"] /\ UNCHANGED marks
    /\ UNCHANGED <<gitvars, watched, rows, behind, view, asked>>

\* git status: answered, or failed (no worktree, or the index is locked).
ReadStatus(a, n) ==
    /\ task[a][n].pc = "status"
    /\ \/ /\ tree[a]
          /\ task' = [task EXCEPT ![a][n].pc = "seen", ![a][n].seen = dirty[a]]
       \/ /\ ~tree[a] \/ commit[a] = "locked"
          /\ task' = [task EXCEPT ![a][n].pc = "failed"]
    /\ UNCHANGED <<gitvars, watched, rows, marks, behind, view, asked>>

\* After a failure: is the worktree still there?
CheckGone(a, n) ==
    /\ task[a][n].pc = "failed"
    /\ task' = [task EXCEPT ![a][n].pc = IF tree[a] THEN "wait" ELSE "gone"]
    /\ UNCHANGED <<gitvars, watched, rows, marks, behind, view, asked>>

\* Mutant of Forget: the path stays registered.
ForgetNothing(a, n) ==
    /\ task[a][n].pc = "gone"
    /\ task' = [task EXCEPT ![a][n] = Off]
    /\ UNCHANGED <<gitvars, watched, rows, marks, behind, view, asked>>

\* forget_watch_target, and the task ends.
Forget(a, n) ==
    /\ task[a][n].pc = "gone"
    /\ watched' = watched \ {a}
    /\ task' = [task EXCEPT ![a][n] = Off]
    /\ UNCHANGED <<gitvars, rows, marks, behind, view, asked>>

\* Nothing new; or a clean first look; or a settled commit absorbs the change;
\* or the change is to be published.
Gate(a, n) ==
    LET t == task[a][n]
        unchanged == t.previous = {t.seen}
        quiet == t.previous = {} /\ t.seen = {}
    IN /\ t.pc = "seen"
       /\ task' = [task EXCEPT ![a][n] =
            IF ~unchanged /\ ~quiet /\ MayRepublish(rows[a])
            THEN [t EXCEPT !.pc = "publish"]
            ELSE [t EXCEPT !.pc = "wait", !.previous = {t.seen}, !.seen = {}]]
       /\ UNCHANGED <<gitvars, watched, rows, marks, behind, view, asked>>

\* Mutant of PublishWorking: the row is written without asking it again.
PublishUnchecked(a, n) ==
    /\ task[a][n].pc = "publish"
    /\ rows' = [rows EXCEPT ![a].status = "working", ![a].files = task[a][n].seen]
    /\ task' = [task EXCEPT ![a][n].pc = "wait", ![a][n].seen = {},
                             ![a][n].previous = {task[a][n].seen}]
    /\ UNCHANGED <<gitvars, watched, marks, behind, view, asked>>

\* The watcher's agent.status: working with the current paths.
PublishWorking(a, n) ==
    /\ task[a][n].pc = "publish"
    /\ Report(a, "working", {task[a][n].seen})
    /\ task' = [task EXCEPT ![a][n] =
                  [@ EXCEPT !.pc = "wait", !.previous = {task[a][n].seen}, !.seen = {}]]
    /\ UNCHANGED <<gitvars, watched, marks, behind, view, asked>>

(***************************************************************************)
(* Adding and removing an agent                                            *)
(***************************************************************************)
\* git paw remove takes the worktree away; the watcher notices by itself.
Remove(a) ==
    /\ tree[a] /\ commit[a] = "none"
    /\ tree' = [tree EXCEPT ![a] = FALSE]
    /\ dirty' = [dirty EXCEPT ![a] = {}]
    /\ asked' = [asked EXCEPT ![a] = FALSE]
    /\ UNCHANGED <<head, commit, staged, watched, task, rows, marks, behind, view>>

\* git paw add makes it again ...
Add(a) ==
    /\ ~tree[a]
    /\ tree' = [tree EXCEPT ![a] = TRUE]
    /\ UNCHANGED <<dirty, head, commit, staged, watched, task, rows, marks, behind, view, asked>>

\* A new watcher task; at most one other is still on its way out.
Spawned(a) == LET n == CHOOSE m \in Slots : task[a][m].pc = "off"
              IN [task EXCEPT ![a][n] = Started]

\* Mutant of Register: the answer of insert is not looked at.
RegisterAlways(a) ==
    /\ tree[a] /\ ~asked[a]
    /\ asked' = [asked EXCEPT ![a] = TRUE]
    /\ watched' = watched \union {a}
    /\ task' = Spawned(a)
    /\ UNCHANGED <<gitvars, rows, marks, behind, view>>

\* ... and registers it: POST /watch spawns a watcher for an unwatched path.
Register(a) ==
    /\ tree[a] /\ ~asked[a]
    /\ asked' = [asked EXCEPT ![a] = TRUE]
    /\ watched' = watched \union {a}
    /\ task' = IF a \in watched THEN task ELSE Spawned(a)
    /\ UNCHANGED <<gitvars, rows, marks, behind, view>>

(***************************************************************************)
(* The drive loop's branch refresh                                         *)
(***************************************************************************)
\* Another branch is merged: the base moves (agent.advanced-main).
BaseMoves(a) ==
    /\ ~behind[a]
    /\ behind' = [behind EXCEPT ![a] = TRUE]
    /\ UNCHANGED <<gitvars, watched, task, rows, marks, view, asked>>

\* The tick's status fetch.  Ghost: the watcher has taken note of exactly the
\* uncommitted files there are (noted).
Fetch(a) ==
    /\ view[a] = {}
    /\ view' = [view EXCEPT ![a] =
         {[clean |-> rows[a].files = {}, verified |-> rows[a].status = "verified",
           noted |-> /\ dirty[a] # {} /\ ~rows[a].doubt
                     /\ \E n \in Slots : task[a][n].previous = {dirty[a]}]}]
    /\ UNCHANGED <<gitvars, watched, task, rows, marks, behind, asked>>

\* RefreshPreconditions, over the fetched row; pane, claim and conflict
\* prediction may or may not let it pass.
GatesPass(a, v) == v.clean /\ ~v.verified /\ behind[a]

\* git rebases under untracked files and refuses to under tracked changes.
Rebase(a) ==
    /\ tree[a] /\ commit[a] = "none" /\ head[a] < MaxHead
    /\ \E v \in view[a] : GatesPass(a, v)
    /\ dirty[a] \subseteq Untracked
    /\ head' = [head EXCEPT ![a] = @ + 1]
    /\ behind' = [behind EXCEPT ![a] = FALSE]
    /\ view' = [view EXCEPT ![a] = {}]
    /\ UNCHANGED <<tree, dirty, commit, staged, watched, task, rows, marks, asked>>

\* The tick ends without a refresh of a.
Skip(a) ==
    /\ view[a] # {}
    /\ view' = [view EXCEPT ![a] = {}]
    /\ UNCHANGED <<gitvars, watched, task, rows, marks, behind, asked>>

Agent(a) == \/ \E f \in Files : Write(a, f)
            \/ BeginCommit(a) \/ EndCommit(a) \/ HookPublish(a)
            \/ Heartbeat(a) \/ Blocked(a) \/ Settle(a)

Watch(a, n) == \/ ReadHead(a, n) \/ ReadStatus(a, n) \/ CheckGone(a, n)
               \/ Forget(a, n) \/ Gate(a, n) \/ PublishWorking(a, n)

Refresh(a) == BaseMoves(a) \/ Fetch(a) \/ Rebase(a) \/ Skip(a)

Next == \E a \in Worktrees :
            \/ Agent(a) \/ Remove(a) \/ Add(a) \/ Register(a) \/ Refresh(a)
            \/ \E n \in Slots : Watch(a, n)

Spec == Init /\ [][Next]_vars

\* The watcher ticks for ever, a commit comes to its end, and git status does
\* answer once the index is free.
LiveSpec == /\ Spec
            /\ \A a \in Worktrees :
                 /\ WF_vars(EndCommit(a)) /\ WF_vars(HookPublish(a))
                 /\ \A n \in Slots : WF_vars(Watch(a, n))

(***************************************************************************)
(* Properties                                                              *)
(***************************************************************************)
Labels == {"", "working", "blocked", "committed"}

\* Every variable has its type; in particular every row shows a label some
\* message of this system carries.
TypeOK ==
    /\ tree \in [Worktrees -> BOOLEAN] /\ dirty \in [Worktrees -> SUBSET Files]
    /\ head \in [Worktrees -> 0..MaxHead] /\ staged \in [Worktrees -> SUBSET Files]
    /\ commit \in [Worktrees -> {"none", "locked", "hook"}]
    /\ watched \subseteq Worktrees
    /\ task \in [Worktrees -> [Slots ->
            [pc : {"off", "wait", "status", "seen", "failed", "gone", "publish"},
             seen : SUBSET Files, previous : {{}} \union {{D} : D \in SUBSET Files},
             tip : {{}} \union {{h} : h \in 0..MaxHead}]]]
    /\ rows \in [Worktrees -> [status : Labels, fresh : BOOLEAN, files : SUBSET Files,
                             doubt : BOOLEAN]]
    /\ marks \in [Worktrees -> Nat] /\ behind \in [Worktrees -> BOOLEAN]
    /\ view \in [Worktrees -> {{}} \union
                  {{v} : v \in [clean : BOOLEAN, verified : BOOLEAN,
                               noted : BOOLEAN]}]
    /\ asked \in [Worktrees -> BOOLEAN]

Alive(a) == {n \in Slots : task[a][n].pc # "off"}

\* A path has at most one watcher, and one exactly while it is in the watched
\* set, through removals, re-additions and a watcher that is still dying
\* (register_watch_target, forget_watch_target).
WatchedIffAlive ==
    \A a \in Worktrees : Cardinality(Alive(a)) = IF a \in watched THEN 1 ELSE 0

\* Wave progress counts at most the real moves of the tip: neither a watcher
\* that starts over nor a second watcher invents one (head_moved).
MarksAreMoves == \A a \in Worktrees : marks[a] <= head[a]

\* However often a worktree is removed and added again, its path is watched by
\* one task that feeds the stall clock nothing but real moves.
OneHonestWatcher == WatchedIffAlive /\ MarksAreMoves

\* A commit past its re-entry TTL is never undone in the row by anything but a
\* terminal message, although the watcher reads the row and publishes later.
SettledStays ==
    [][\A a \in Worktrees :
         rows[a].status = "committed" /\ ~rows[a].fresh
         => rows'[a].status \in Terminal]_rows

\* A worktree whose uncommitted files the watcher had taken note of when the
\* status was fetched is not rebased ("Dirty working tree is never rebased"),
\* unless since its last commit the agent has overwritten the watcher's list by
\* its own status, or that commit's empty one has, or the commit has settled and
\* the watcher reports no more.
NotedDirtIsSafe ==
    [][\A a \in Worktrees : \A v \in view[a] : Rebase(a) => ~v.noted]_vars

\* A worktree with uncommitted files under a live watcher comes to have files
\* listed in its row, with the same exceptions: that is what the refresh's first
\* gate relies on.
DirtSurfaces ==
    \A a \in Worktrees :
        (dirty[a] # {} /\ Alive(a) # {})
        ~> (rows[a].files # {} \/ rows[a].doubt \/ dirty[a] = {} \/ Alive(a) = {})
=============================================================================
