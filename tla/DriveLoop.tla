----------------------------- MODULE DriveLoop ------------------------------
(* One unattended drive loop over one wave (src/supervisor/drive.rs and       *)
(* drive/decide.rs): every tick it checks its session, sweeps the workers'    *)
(* panes, fetches /status, polls the message log, re-engages branches that    *)
(* failed a gate, looks for progress, and ends on completion or on the        *)
(* heartbeat with a summary.  Workers, the supervisor agent and the user act  *)
(* between any two of its steps.                                              *)
EXTENDS Integers, Sequences, FiniteSets

CONSTANTS Agents,         \* the coding agents; each has one branch and one pane
          Prompts,        \* permission prompts, as a human tells them apart
          Command,        \* the command a prompt's header names, "" for one without
          Banners,        \* the CLI-unavailability markers
          MaxCycles,      \* [supervisor.correction] max_cycles
          EscalateAfter,  \* [supervisor.correction] escalate_after_cycles
          Interval,       \* the heartbeat, in ticks
          Window,         \* the de-duplication window, in ticks
          OnExhausted,    \* [supervisor.correction] on_exhausted
          MaxMoves        \* bound: what the world does in a run, failures included

ASSUME AgentsAssumption == IsFiniteSet(Agents) /\ "advanced-main" \notin Agents
ASSUME AlertsAssumption ==
         {"idle", "busy", "buffered"} \intersect (Prompts \union Banners) = {}
ASSUME CyclesAssumption == MaxCycles \in Nat \ {0} /\ EscalateAfter \in Nat \ {0}
ASSUME TimeAssumption == Interval \in Nat \ {0} /\ Window \in Nat \ {0}
ASSUME PolicyAssumption == OnExhausted \in {"escalate", "abandon"}
ASSUME BoundAssumption == MaxMoves \in Nat

VARIABLES
  \* the world
  row,        \* the broker's status of each agent
  verdict,    \* the supervisor's row carries a terminal verdict
  merged,     \* branches with nothing that the default branch lacks
  behind,     \* branches that lack commits of the default branch
  screen,     \* what each pane shows
  news,       \* messages in the log the loop has not polled
  \* the loop
  pc,         \* the step of the tick it is at
  panes,      \* surfaces listed this tick
  todo,       \* agents the current pass has still to visit
  status,     \* the /status snapshot of this tick
  seen,       \* ticks since each alert key was last emitted, up to Window
  correction, \* CorrectionState
  resolved,   \* rank of the most-progressed phase observed; -1: none
  advanced,   \* a phase advanced at this tick's fetch
  known,      \* branches with a tip on record
  moved,      \* branches whose tip is not the one on record
  idle,       \* ticks since last_progress, up to Interval
  deferred,   \* heartbeat_deferred
  escalated,  \* escalations the shell published
  wedged,     \* nudges escalated as wedged
  exhausted,  \* branches whose exhaustion policy was applied
  outcome,    \* why the loop ended
  summary,    \* the escalations of the exit summary
  \* history
  moves,      \* what the world has done and what has failed, counted
  owed,       \* gate failures published and not yet answered
  credit,     \* the wave's moves less the times the heartbeat was put off
  since,      \* ticks since a worker's last commit, up to Interval
  late,       \* ticks in a row the loop went on with the heartbeat due
  touched,    \* branches committed to after git compared them
  shown,      \* prompt or banner on a pane when it was last swept
  stood,      \* ticks since the first sweep that found it there, up to Window
  told,       \* ticks since that very alert was last escalated, up to Window
  flooded     \* an alert was escalated twice within a window

world == <<row, verdict, merged, behind, screen, news>>
corrected == <<correction, exhausted>>
progress == <<resolved, advanced, known, idle, deferred>>
alerts == <<seen, escalated, wedged>>
ended == <<outcome, summary>>
view == <<shown, stood, told, flooded>>
ghosts == <<moves, owed, credit, since, late, touched, view>>
vars == <<world, pc, panes, todo, status, corrected, progress, moved, alerts, ended, ghosts>>

Statuses == {"none", "working", "committed", "verified", "done"}
Alerts == Prompts \union Banners
Screens == Alerts \union {"idle", "busy", "buffered"}
Verdicts == Alerts \union {"slow", "exhausted", "wedged", "unmerged"}

(* What repeats of an alert are recognised by: a prompt by its command, and   *)
(* so all prompts without a command header alike, a banner by its marker.     *)
Key(x) == IF x \in Prompts THEN <<"prompt", Command[x]>> ELSE <<"banner", x>>
Keys == {Key(x) : x \in Alerts}

Steps == {"check", "sweep", "fetch", "poll", "nudge", "observe", "beat", "sleep",
          "summarize", "report", "over"}
NoCorrection == [cycles |-> 0, pending |-> FALSE, flagged |-> FALSE, exhausted |-> FALSE]
Rows == [agents : [Agents -> Statuses], verdict : BOOLEAN]
NoRows == [agents |-> [a \in Agents |-> "none"], verdict |-> FALSE]

(* How far along its life cycle a status puts a worker. *)
Rank(s) == CASE s \in {"verified", "done"} -> 2 [] s = "committed" -> 1
             [] s = "working" -> 0 [] OTHER -> -1
Finished(rows, a) == Rank(rows.agents[a]) = 2

(* The supervisor gave its verdict, or every worker has finished. *)
Complete(rows) == rows.verdict \/ \A a \in Agents : Finished(rows, a)

Upto(n, bound) == IF n < bound THEN n ELSE bound
Over == pc = "over"

(* A wave just launched, or one the loop picks up when a branch has already   *)
(* failed a gate: the loop reads the log from its start.                      *)
Wave == \/ row = [a \in Agents |-> "none"] /\ news = <<>> /\ owed = [a \in Agents |-> 0]
        \/ \E b \in Agents : /\ row = [a \in Agents |-> "working"] /\ news = <<b>>
                             /\ owed = [a \in Agents |-> IF a = b THEN 1 ELSE 0]

Init == /\ Wave /\ verdict = FALSE
        /\ merged = Agents /\ behind = {} /\ screen = [a \in Agents |-> "idle"]
        /\ pc = "check" /\ panes = {} /\ todo = {} /\ status = NoRows
        /\ seen = [a \in Agents |-> [k \in Keys |-> Window]]
        /\ correction = [a \in Agents |-> NoCorrection]
        /\ resolved = [a \in Agents |-> -1] /\ advanced = FALSE
        /\ known = {} /\ moved = {} /\ idle = 0 /\ deferred = FALSE
        /\ escalated = {} /\ wedged = {} /\ exhausted = {}
        /\ outcome = "running" /\ summary = {}
        /\ moves = 0 /\ credit = 0
        /\ since = [a \in Agents |-> 0] /\ late = 0 /\ touched = {}
        /\ shown = [a \in Agents |-> "idle"] /\ stood = [a \in Agents |-> 0]
        /\ told = [a \in Agents |-> [x \in Alerts |-> Window]] /\ flooded = FALSE

-----------------------------------------------------------------------------
(* The world.                                                                *)

Move == ~Over /\ moves < MaxMoves /\ moves' = moves + 1
Rises(a, s) == IF row[a] # "none" /\ Rank(s) > Rank(row[a]) THEN 1 ELSE 0
LoopStays == UNCHANGED <<pc, panes, todo, status, corrected, progress, alerts, ended,
                         late, view>>
Judging == pc \in {"summarize", "report"}

(* A commit; its hook publishes committed, unless it fails. *)
Commit(a) == /\ Move /\ LoopStays
             /\ merged' = merged \ {a} /\ moved' = moved \union {a}
             /\ \E s \in {row[a], "committed"} : /\ row' = [row EXCEPT ![a] = s]
                                               /\ credit' = credit + 1 + Rises(a, s)
             /\ since' = [since EXCEPT ![a] = 0]
             /\ touched' = touched \union (IF Judging /\ a \notin todo THEN {a} ELSE {})
             /\ UNCHANGED <<verdict, behind, screen, news, owed>>

(* The agent publishes its status. *)
Report(a) == /\ Move /\ LoopStays
             /\ \E s \in Statuses \ {"none", row[a]} : /\ row' = [row EXCEPT ![a] = s]
                                                         /\ credit' = credit + Rises(a, s)
             /\ UNCHANGED <<verdict, merged, behind, screen, news, moved, owed, since, touched>>

(* The supervisor publishes gate-tagged feedback to a branch. *)
GateFails(a) == /\ Move /\ LoopStays
                /\ news' = Append(news, a) /\ owed' = [owed EXCEPT ![a] = @ + 1]
                /\ UNCHANGED <<row, verdict, merged, behind, screen, moved, credit, since, touched>>

(* It merges a branch and announces it with agent.advanced-main. *)
Merge(a) == /\ Move /\ LoopStays /\ a \notin merged
            /\ merged' = merged \union {a} /\ behind' = behind \union (Agents \ {a})
            /\ news' = Append(news, "advanced-main")
            /\ UNCHANGED <<row, verdict, screen, moved, owed, credit, since, touched>>

(* It publishes, or takes back, its verdict on the wave. *)
Judge == /\ Move /\ LoopStays /\ verdict' = ~verdict
         /\ UNCHANGED <<row, merged, behind, screen, news, moved, owed, credit, since, touched>>

(* A pane at work or at rest comes to show something else, and what waits in  *)
(* it for a human is attended to.                                             *)
Redraw(a) == /\ Move /\ LoopStays
             /\ \E s \in Screens \ {screen[a]} :
                  /\ {s, screen[a]} \intersect {"idle", "busy"} # {}
                  /\ screen' = [screen EXCEPT ![a] = s]
             /\ UNCHANGED <<row, verdict, merged, behind, news, moved, owed, credit, since, touched>>

-----------------------------------------------------------------------------
(* The loop: one tick.                                                       *)

(* n of the calls this step makes fail. *)
Fail(n) == moves + n <= MaxMoves /\ moves' = moves + n

ScreensStay == UNCHANGED <<row, verdict, merged, behind, screen, news, moved>>
WorldStays == ScreensStay /\ UNCHANGED moves
Goto(from, to) == pc = from /\ pc' = to

(* Visits a, and goes on to the next step when nobody is left. *)
Visit(a, step, next) == /\ pc = step /\ a \in todo /\ todo' = todo \ {a}
                        /\ pc' = IF todo' = {} THEN next ELSE step
Pass(agents, step, next) == todo' = agents /\ pc' = IF agents = {} THEN next ELSE step

(* The session instance is checked and the surfaces are listed; the listing   *)
(* may fail.                                                                  *)
StartTick == /\ pc = "check"
             /\ \E listed \in {Agents, {}} : /\ panes' = listed /\ Pass(listed, "sweep", "fetch")
                                           /\ Fail(IF listed = {} THEN 1 ELSE 0)
             /\ ScreensStay
             /\ UNCHANGED <<status, corrected, progress, alerts, ended,
                            owed, credit, since, late, touched, view>>

(* The session was stopped, purged or replaced: its binding says so. *)
TornDown == /\ Goto("check", "report") /\ outcome' = "torn-down" /\ WorldStays
            /\ UNCHANGED <<panes, todo, status, corrected, progress, alerts, summary,
                           owed, credit, since, late, touched, view>>

(* Mutant of MayEmit: whatever the agent was last alerted for. *)
MayEmitAgent(a, k) == \A j \in Keys : seen[a][j] >= Window

MayEmit(a, k) == seen[a][k] >= Window

(* What the sweep finds on the pane, and since when. *)
Finds(a, x) == /\ shown' = [shown EXCEPT ![a] = x]
               /\ stood' = [stood EXCEPT ![a] = IF shown[a] = x THEN @ ELSE 0]

Tell(a, x) == /\ seen' = [seen EXCEPT ![a][Key(x)] = 0]
              /\ escalated' = escalated \union {<<a, x>>}
              /\ told' = [told EXCEPT ![a][x] = 0]
              /\ flooded' = (flooded \/ told[a][x] < Window)

(* Mutant of Escalate: each repeat begins the window anew. *)
EscalateSliding(a, x) == IF MayEmit(a, Key(x))
                         THEN Tell(a, x)
                         ELSE /\ seen' = [seen EXCEPT ![a][Key(x)] = 0]
                              /\ UNCHANGED <<escalated, told, flooded>>

(* A prompt or a banner is escalated, once a window. *)
Escalate(a, x) == IF MayEmit(a, Key(x)) THEN Tell(a, x)
                                        ELSE UNCHANGED <<seen, escalated, told, flooded>>

SweepAlert(a) == /\ Visit(a, "sweep", "fetch") /\ screen[a] \in Alerts
                 /\ Escalate(a, screen[a]) /\ Finds(a, screen[a]) /\ WorldStays
                 /\ UNCHANGED <<panes, status, corrected, progress, wedged, ended,
                                owed, credit, since, late, touched>>

Shows(a, s) == screen' = [screen EXCEPT ![a] = s]

(* Text left in the input box is submitted: it goes through, stays there for  *)
(* good, or is left for the next sweep (claim held by another, tmux failed).  *)
SubmitBuffered(a) == /\ Visit(a, "sweep", "fetch") /\ screen[a] = "buffered"
                     /\ \/ Shows(a, "busy") /\ UNCHANGED <<wedged, moves>>
                        \/ wedged' = wedged \union {a} /\ Fail(1) /\ UNCHANGED screen
                        \/ Fail(1) /\ UNCHANGED <<wedged, screen>>
                     /\ Finds(a, "idle")
                     /\ UNCHANGED <<row, verdict, merged, behind, news, moved, panes, status,
                                    corrected, progress, seen, escalated, ended,
                                    owed, credit, since, late, touched, told, flooded>>

SweepQuiet(a) == /\ Visit(a, "sweep", "fetch") /\ screen[a] \in {"idle", "busy"}
                 /\ Finds(a, "idle") /\ WorldStays
                 /\ UNCHANGED <<panes, status, corrected, progress, alerts, ended,
                                owed, credit, since, late, touched, told, flooded>>

(* What a fetch of /status answers; nothing when it fails. *)
Answers == {[agents |-> row, verdict |-> verdict], NoRows}

(* The first phase of an agent is recorded, a later one counts as an advance. *)
RaisedTo(rows) == [a \in Agents |-> IF Rank(rows.agents[a]) > resolved[a]
                                    THEN Rank(rows.agents[a]) ELSE resolved[a]]
Advances(rows) == \E a \in Agents : resolved[a] # -1 /\ RaisedTo(rows)[a] > resolved[a]

(* A branch whose worker has finished leaves the correction cycle. *)
ClearCompleted(rows) ==
  [a \in Agents |-> IF Finished(rows, a) THEN NoCorrection ELSE correction[a]]

Fetch == /\ Goto("fetch", "poll")
         /\ \E rows \in Answers : /\ status' = rows
                                  /\ correction' = ClearCompleted(rows)
                                  /\ resolved' = RaisedTo(rows) /\ advanced' = Advances(rows)
         /\ WorldStays
         /\ UNCHANGED <<panes, todo, exhausted, known, idle, deferred, alerts, ended,
                        owed, credit, since, late, touched, view>>

(* The first four gates of the refresh; whether the tree is clean, the claim  *)
(* free and the rebase without conflicts is left open.                        *)
Refreshable == {a \in panes : /\ status.agents[a] \notin {"none", "verified"}
                              /\ screen[a] # "busy" /\ a \in behind}

(* Mutant of ForgetTips: its own rebase looks like the wave moving. *)
KeepTips(rebased) == known

(* What the loop moved itself is taken off the record of tips. *)
ForgetTips(rebased) == known \ rebased

MarkFailed(a) == [correction[a] EXCEPT !.pending = @ \/ ~correction[a].exhausted]

(* A gate failure marks its branch; a merge has branches rebased. *)
React(messages) ==
  /\ correction' = [a \in Agents |-> IF a \in messages THEN MarkFailed(a) ELSE correction[a]]
  /\ \E rebased \in IF "advanced-main" \in messages THEN SUBSET Refreshable ELSE {{}} :
       /\ behind' = behind \ rebased /\ moved' = moved \union rebased
       /\ known' = ForgetTips(rebased)

(* The wave is over once this tick's status says so. *)
WindDown == IF Complete(status)
            THEN /\ Pass(Agents, "summarize", "report")
                 /\ outcome' = IF escalated = {} THEN "completed" ELSE "review"
            ELSE /\ Pass({a \in Agents : correction'[a].pending}, "nudge", "observe")
                 /\ UNCHANGED outcome

(* The poll may fail: the cursor then stays where it is. *)
Poll == /\ pc = "poll"
        /\ \/ React({news[i] : i \in DOMAIN news}) /\ news' = <<>> /\ UNCHANGED moves
           \/ news # <<>> /\ React({}) /\ Fail(1) /\ UNCHANGED news
        /\ WindDown
        /\ UNCHANGED <<row, verdict, merged, screen, panes, status, exhausted, resolved,
                       advanced, idle, deferred, alerts, summary,
                       owed, credit, since, late, touched, view>>

(* Mutant of Spent: one cycle too many. *)
SpentLate(a) == correction[a].cycles > MaxCycles

Spent(a) == correction[a].cycles >= MaxCycles

(* The budget is spent: the policy is applied, once. *)
Exhaust(a) == /\ Visit(a, "nudge", "observe") /\ Spent(a)
              /\ correction' = [correction EXCEPT ![a].exhausted = TRUE, ![a].pending = FALSE]
              /\ escalated' = escalated \union (IF OnExhausted = "escalate"
                                                THEN {<<a, "exhausted">>} ELSE {})
              /\ exhausted' = exhausted \union {a} /\ owed' = [owed EXCEPT ![a] = @ - 1]
              /\ WorldStays
              /\ UNCHANGED <<panes, status, progress, seen, wedged, ended,
                             credit, since, late, touched, view>>

Nudgeable(a) == ~Spent(a) /\ a \in panes /\ ~Finished(status, a)

(* No pane, a finished worker, a live prompt, or a send that failed with or   *)
(* without its text in the pane: the correction stays pending.                *)
KeepPending(a) == /\ Visit(a, "nudge", "observe") /\ ~Spent(a)
                  /\ \/ ~Nudgeable(a) /\ UNCHANGED <<screen, moves>>
                     \/ Nudgeable(a) /\ screen[a] \in Prompts /\ UNCHANGED <<screen, moves>>
                     \/ /\ Nudgeable(a) /\ screen[a] \notin Prompts /\ Fail(1)
                        /\ UNCHANGED screen \/ Shows(a, "buffered")
                  /\ UNCHANGED <<row, verdict, merged, behind, news, moved, panes, status,
                                 corrected, progress, alerts, ended,
                                 owed, credit, since, late, touched, view>>

(* Mutant of RecordReengagement: the feedback is kept. *)
KeepFeedback(c) == [c EXCEPT !.cycles = @ + 1]

(* A re-engagement reached the pane: the cycle is spent, the feedback gone. *)
RecordReengagement(c) == [c EXCEPT !.pending = FALSE, !.cycles = @ + 1]

SlowNow(a) == /\ correction[a].cycles + 1 = EscalateAfter /\ EscalateAfter < MaxCycles
              /\ ~correction[a].flagged

(* It is flagged as slow to converge once. *)
FlagIf(c, slow) == [c EXCEPT !.flagged = @ \/ slow]

(* It is submitted, or wedges in the input box and is escalated as such. *)
Reengage(a) == /\ Visit(a, "nudge", "observe") /\ Nudgeable(a) /\ screen[a] \notin Prompts
               /\ \/ Shows(a, "busy") /\ UNCHANGED <<wedged, moves>>
                  \/ Shows(a, "buffered") /\ wedged' = wedged \union {a} /\ Fail(1)
               /\ correction' = [correction EXCEPT
                                   ![a] = FlagIf(RecordReengagement(@), SlowNow(a))]
               /\ escalated' = escalated \union (IF SlowNow(a) THEN {<<a, "slow">>} ELSE {})
               /\ owed' = [owed EXCEPT ![a] = @ - 1]
               /\ UNCHANGED <<row, verdict, merged, behind, news, moved, panes, status,
                              exhausted, progress, seen, ended,
                              credit, since, late, touched, view>>

(* Mutant of MadeProgress: commits are not looked at. *)
PhasesOnly(read) == advanced

(* A tip differs from the one on record, or a phase advanced. *)
MadeProgress(read) == advanced \/ known \intersect moved \intersect read # {}

Observe ==
  /\ pc = "observe"
  /\ \E read \in SUBSET Agents :
       /\ IF MadeProgress(read)
          THEN idle' = 0 /\ deferred' = FALSE /\ credit' = credit - 1
          ELSE UNCHANGED <<idle, deferred, credit>>
       /\ Fail(Cardinality(Agents \ read))
       /\ known' = known \union read /\ moved' = moved \ read
       /\ since' = [a \in Agents |-> IF a \in moved \ (known \intersect read)
                                     THEN Interval ELSE since[a]]
  /\ pc' = IF idle' >= Interval THEN "beat" ELSE "sleep"
  /\ UNCHANGED <<world, panes, todo, status, corrected, resolved, advanced, alerts,
                 ended, owed, late, touched, view>>

(* A completion seen only now is left to the next tick, once. *)
MayDefer(rows) == ~deferred /\ Complete(rows)

(* The heartbeat is due: one more look at /status, then the loop gives up. *)
Beat == /\ pc = "beat"
        /\ \E rows \in Answers :
             /\ resolved' = RaisedTo(rows)
             /\ \/ /\ Advances(rows) /\ pc' = "sleep"
                   /\ idle' = 0 /\ deferred' = FALSE /\ credit' = credit - 1
                   /\ UNCHANGED <<status, outcome>>
                \/ /\ ~Advances(rows) /\ MayDefer(rows) /\ pc' = "sleep"
                   /\ deferred' = TRUE
                   /\ UNCHANGED <<status, outcome, idle, credit>>
                \/ /\ ~Advances(rows) /\ ~MayDefer(rows) /\ pc' = "report"
                   /\ outcome' = "heartbeat" /\ status' = IF rows = NoRows THEN status ELSE rows
                   /\ UNCHANGED <<idle, deferred, credit>>
        /\ WorldStays
        /\ UNCHANGED <<panes, todo, corrected, advanced, known, alerts, summary,
                       owed, since, late, touched, view>>

(* A poll interval passes; what the tick read goes with it. *)
Sleep == /\ Goto("sleep", "check")
         /\ idle' = Upto(idle + 1, Interval)
         /\ seen' = [a \in Agents |-> [k \in Keys |-> Upto(seen[a][k] + 1, Window)]]
         /\ told' = [a \in Agents |-> [x \in Alerts |-> Upto(told[a][x] + 1, Window)]]
         /\ stood' = [a \in Agents |-> IF shown[a] \in Alerts THEN Upto(stood[a] + 1, Window)
                                                             ELSE 0]
         /\ since' = [a \in Agents |-> Upto(since[a] + 1, Interval)]
         /\ late' = IF idle = Interval THEN late + 1 ELSE 0
         /\ panes' = {} /\ status' = NoRows /\ advanced' = FALSE
         /\ WorldStays
         /\ UNCHANGED <<todo, corrected, resolved, known, deferred, escalated, wedged, ended,
                        owed, credit, touched, shown, flooded>>

(* What the shell published, then the wedged nudges. *)
Listed == escalated \union {<<a, "wedged">> : a \in wedged}

(* Mutant of Judged: the outcome stays what it was when the loop wound down. *)
JudgedBefore(list) == outcome

Judged(list) == IF list = {} THEN "completed" ELSE "review"

(* Of a wave that is over, git is asked branch by branch what is merged; one  *)
(* it cannot compare is not.  (It is asked of any wave, to no effect.)        *)
Compare(a) == /\ Visit(a, "summarize", "report") /\ ScreensStay
              /\ \E answers \in BOOLEAN :
                   /\ summary' = summary \union (IF answers /\ a \in merged THEN {}
                                                 ELSE {<<a, "unmerged">>})
                   /\ Fail(IF answers THEN 0 ELSE 1)
              /\ UNCHANGED <<panes, status, corrected, progress, alerts, outcome,
                             owed, credit, since, late, touched, view>>

Summarize == /\ Goto("report", "over") /\ WorldStays
             /\ summary' = summary \union Listed
             /\ outcome' = IF outcome \in {"completed", "review"} THEN Judged(summary')
                                                                  ELSE outcome
             /\ UNCHANGED <<panes, todo, status, corrected, progress, alerts,
                            owed, credit, since, late, touched, view>>

-----------------------------------------------------------------------------
Environment == \/ \E a \in Agents : \/ Commit(a) \/ Report(a) \/ GateFails(a)
                                    \/ Merge(a) \/ Redraw(a)
               \/ Judge
Sweep(a) == SweepAlert(a) \/ SubmitBuffered(a) \/ SweepQuiet(a)
Nudge(a) == Exhaust(a) \/ KeepPending(a) \/ Reengage(a)
Loop == \/ StartTick \/ TornDown \/ Fetch \/ Poll \/ Observe \/ Beat \/ Sleep \/ Summarize
        \/ \E a \in Agents : Sweep(a) \/ Nudge(a) \/ Compare(a)

Next == Environment \/ Loop

Spec == Init /\ [][Next]_vars

-----------------------------------------------------------------------------
TypeOK ==
  /\ row \in [Agents -> Statuses] /\ verdict \in BOOLEAN
  /\ merged \subseteq Agents /\ behind \subseteq Agents
  /\ screen \in [Agents -> Screens] /\ news \in Seq(Agents \union {"advanced-main"})
  /\ pc \in Steps /\ panes \subseteq Agents /\ todo \subseteq Agents /\ status \in Rows
  /\ seen \in [Agents -> [Keys -> 0 .. Window]]
  /\ correction \in [Agents -> [cycles : 0 .. MaxCycles, pending : BOOLEAN,
                                flagged : BOOLEAN, exhausted : BOOLEAN]]
  /\ resolved \in [Agents -> -1 .. 2] /\ advanced \in BOOLEAN
  /\ known \subseteq Agents /\ moved \subseteq Agents
  /\ idle \in 0 .. Interval /\ deferred \in BOOLEAN
  /\ escalated \subseteq Agents \X Verdicts /\ wedged \subseteq Agents
  /\ exhausted \subseteq Agents
  /\ outcome \in {"running", "completed", "review", "heartbeat", "torn-down"}
  /\ summary \subseteq Agents \X Verdicts
  /\ moves \in 0 .. MaxMoves /\ owed \in [Agents -> Int]
  /\ credit \in Int /\ late \in Nat /\ since \in [Agents -> 0 .. Interval]
  /\ touched \subseteq Agents /\ flooded \in BOOLEAN
  /\ stood \in [Agents -> 0 .. Window] /\ told \in [Agents -> [Alerts -> 0 .. Window]]
  /\ shown \in [Agents -> Alerts \union {"idle"}]

(* All that AlertSink::escalate sent to the broker. *)
Published == escalated \union (wedged \X {"wedged"})

(* Every cycle, pending feedback and exhaustion has a gate failure of its own *)
(* (drive.rs poll_new: one gate failure starts exactly one correction cycle). *)
OneCyclePerFailure ==
  \A a \in Agents : owed[a] >= IF correction[a].pending THEN 1 ELSE 0

(* The exit summary lists all that the loop told the broker, also what it     *)
(* published past the shell (drive.rs record_wedged, drive_loop_logged); and  *)
(* completed, which a purge relies on, means that every worker finished or    *)
(* the supervisor ruled, nothing waits for a human, and every branch was in   *)
(* the default branch when git was asked about it (decide.rs summarize).      *)
SummaryIsTrue ==
  Over => /\ Published \subseteq summary
          /\ outcome = "completed" =>
               Complete(status) /\ Published = {} /\ merged \union touched = Agents

Swept(a) == a \in panes /\ (pc = "sweep" => a \notin todo)

(* The window silences repeats and nothing else, a repeat being what has the  *)
(* same key (two prompts may share one).  Once a sweep has looked at a pane   *)
(* with a prompt or banner, an alert of that key has gone out within          *)
(* the window, and this very one has if it has stood for a window; and none   *)
(* goes out twice within it (drive.rs DedupWindow, decide_prompt: "a prompt   *)
(* still unanswered after the window is escalated again").                    *)
AlertsAreTimely ==
  /\ ~flooded
  /\ \A a \in Agents :
       Swept(a) /\ shown[a] \in Alerts =>
         /\ \E y \in Alerts : Key(y) = Key(shown[a]) /\ told[a][y] < Window
         /\ stood[a] >= Window => told[a][shown[a]] < Window

(* The loop gives up only when no commit it could read is younger than the    *)
(* heartbeat, but for one made after this tick read the tips (drive.rs        *)
(* tick_made_progress, heartbeat_due).                                        *)
HeartbeatIsDeserved ==
  Over /\ outcome = "heartbeat" => \A a \in Agents : since[a] >= Interval \/ a \in moved

(* Nothing the loop does itself puts its exit off: each time it does, the     *)
(* wave has moved once (drive.rs tick_made_progress; branch refresh); and     *)
(* once the heartbeat is due and the wave stands still, the loop goes on for  *)
(* one tick at most, however /status flaps (drive.rs heartbeat_deferred).     *)
LeavesInTime == credit >= 0 /\ late <= 1
=============================================================================
