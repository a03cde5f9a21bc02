# A TLA+ model of git-paw's coordination core

git-paw runs several AI coding agents side by side: a git worktree and a tmux
pane each, an HTTP *broker* they exchange messages through, and a deterministic
*drive loop* that watches the panes, escalates permission prompts, nudges stalled
workers, corrects failing ones, refreshes branches and reports the end of a
wave.  This directory models the parts of it whose correctness depends on the
order in which threads, processes or messages act.  Paths are relative to
`src/`, the repository's Rust sources, unless they name another directory.

How to run: `tlc -config X.cfg M` for the model checks, `tlapm M.tla` for the
proofs; `PROJECT.json` lists the runs with their modules, the mutants that show
each property can fail, and, for every definition, the lines it stands for.

## 1. Inventory

| component | code | state | operations | what makes it hard | correct means |
|---|---|---|---|---|---|
| Message log | `broker/delivery.rs`, `mod.rs`, `server.rs`, `publish.rs`; the observer in `supervisor/drive.rs` | `next_seq`, `message_log`, `publish_notify`, `last_flushed_seq`, readers' cursors and epochs | publish, poll, `GET /log` (at once or long poll), flush, shutdown, restart | numbers are taken outside the lock, cursors compare numbers, a restart numbers again | nothing lost, nothing twice, no missed wake-up, a restart does not make a reader deaf |
| Delivery and roster | `broker/delivery.rs`, `messages.rs`, `mod.rs` | `queues`, `agents`, `last_progress` | `route_message`, `update_agent_record`, `message_is_progress`, verify nudge, `register_watch_target` | several publishers, sticky statuses, inboxes created as a side effect, a de-duplication against an inbox nobody drains | each inbox is exactly its part of the log; rows and the stall clock agree with the log; one nudge per commit |
| Worktree watcher, hook, refresh | `broker/watcher.rs`, `assets/hooks/post-commit.sh`, `assets/scripts/broker.sh`, `supervisor/branch_refresh.rs` | last status and tip per task, `watched_paths`, the row | poll git, publish `working`, mark progress, forget a path, re-add it; rebase after a merge | check-then-publish against a row that moves; a path removed and added under a live task | one watcher per path; no invented progress; a settled commit stays; a dirty worktree is not rebased |
| Drive-loop binding | `supervisor/loop_binding.rs`, `supervisor/drive.rs`, `main.rs` | the lease file with its mtime, the lock file | acquire (Fresh / Supersede), refresh, revoke, drop, the per-tick check | several processes, a time window instead of an owner, commands that move the session underneath | one loop acts; a late or dead one never wedges the session |
| Session lifecycle | `session.rs`, `commands/{start,supervisor,stop,pause,recover,purge}.rs` | the receipt (status, instance, agents), the tmux session, the worktrees | launch, stop, pause, resume, recover, purge, stale clean-up | every command reads the receipt, acts on tmux and the worktrees, and writes the whole receipt back; any of them can die in between | the receipt lists what is there; a held boot prompt is typed once; work that was kept stays |
| Session lock and slots | `lock.rs`, `worktree_provision.rs`, `commands/{add,remove}.rs` | the lock file, the entries' port slots | acquire, add, remove | only two commands take the lock, and they read before they take it | no entry lost, no slot given twice |
| Pane claim | `supervisor/claim.rs`, `assets/scripts/sweep.sh` | one file per pane, its mtime | acquire, steal when old, release | two implementations, a steal of three system calls | one sender per pane |
| Drive loop decisions | `supervisor/drive.rs`, `drive/decide.rs` | de-duplication window, phases, correction and heartbeat state | one tick: observe, decide, act | snapshots age while the tick acts; everything is retried | bounded corrections, no repeated escalation, no missed completion |
| Hand-off queue and escalation | `supervisor/escalation.rs`, `command_runner.rs`, the loop's use of them in `drive.rs` | pending hand-offs, the running one-shot, its outcome counters | enqueue, pump, abort, drain, report | a timeout against a late answer, failed spawns, a session that ends or a loop that is displaced while a one-shot runs | each accepted call counted once; no one-shot left unobserved; the loop ends even if none exits |
| Conflict detector | `broker/conflict.rs` | intents with their expiry, modified files, live overlaps, decision records, warnings | intent, status, acknowledge, tick | a commit empties a file list for a poll, intents expire, an acknowledgement comes early, a decision holds for one shape of the overlap | each conflict told once, asked once, and decided when its window is over |
| Learnings aggregator | `broker/learnings.rs` | open blocks, recovery cycles | observe, flush | observes after the lock is released | each recovery recorded once |
| Broker start and host | `broker/mod.rs`, `commands/broker_host.rs` | the port, the pid | probe, reattach, bind, host | the server answers before start-up ends | one broker per repository, targets seeded |
| Role guard | `opsx/role_guard.rs` | none | classify a commit, publish | a publish from inside a publish | sequential |
| Permission prompts, approvals | `supervisor/permission_prompt.rs`, `approval_gate.rs`, `manual_approvals.rs` | the approvals file | classify a capture | text recognition | sequential |
| Terminal backend, MCP server, dashboard | `terminal/`, `tmux/`, `mcp/`, `dashboard*` | none of their own | spawn, capture, read and publish through the broker | process and network I/O | clients of the above |
| Configuration, CLI, specs, skills, set-up, git | `config/`, `cli.rs`, `specs/`, `skills.rs`, `cli_setup/`, `doctor.rs`, `init.rs`, `agents.rs`, `interactive/`, `git.rs`, `replay.rs`, `selftest.rs` | files and text | parse, render, spawn | none: sequential | unit-tested |

How they interact: agents, hook, watcher, drive loop, MCP server and dashboard
reach the broker by HTTP only; inside it `publish_message` appends under one
write lock, then routes, updates the row, wakes waiters, feeds the aggregator
and may publish again (verify nudge).  The drive loop, the `sweep.sh` scripts
and every `git paw` command are separate processes that share files: the
session receipt, the binding, the claims, and the worktrees themselves.

## 2. Modules

| module | models | composes with |
|---|---|---|
| `LosslessLog` | abstract: what the documentation promises of cursor reads | implemented by `BrokerLog` when publishes do not overlap |
| `BrokerLog` | numbering, append, wake-ups, long polls, the drive loop's observer, flush, shutdown, crash, restart | |
| `BrokerDelivery` | routing, inboxes, roster rows, the progress clock, the verify nudge | takes from `BrokerLog` that an append is one atomic step after the number |
| `WorktreeWatch` | watcher task, commit hook, agent's own messages, the live set of paths, add and remove, branch refresh | uses the row rules of `BrokerDelivery` in its own form |
| `DriveBinding` | start --unattended, the lease and its lock, a loop's tick frame, stop / pause / purge / attended start | |
| `DriveLoop` | one loop over one wave: sweep, `/status`, poll, corrections, progress, heartbeat, summary | takes from `DriveBinding` that it is the only loop, from `WorktreeWatch` how a refresh races, from `BrokerLog` that a poll returns what was appended |
| `HandoffQueue` | the judgment calls of one loop, the one-shots it starts, the drain at its exit | the exit of `DriveLoop`; takes from `DriveBinding` that a lapsed lease can be taken over |
| `PaneClaim` | the claim on one pane, and the nudge, the buffered-input submission, the branch refresh and the `sweep.sh approve` that take it | takes apart the sends that are one step each in `DriveLoop` |
| `SessionReceipt` | the receipt, tmux, worktrees, slots and held prompts under add, remove, stop, pause, purge and start | takes apart what `DriveBinding` has as one step each |
| `ConflictDetector` | the detector's tracker, message by message and tick by tick | a reader of `BrokerLog`; fed by the statuses of `WorktreeWatch` |
| `*Proofs` | the theorems about each of the above but `LosslessLog`; one module, `SessionProofs`, for `DriveBinding` and `SessionReceipt` | |
| `MC*` | constants, messages and symmetry for TLC | |

### BrokerLog
The write-locked section of `publish_message` is one action (`AppendEntry`);
the number is taken before it (`AllocSeq`, an atomic counter) and the waiters
are fired after it (`Notify`).  A long poll is `Register` (the `Notified` future
is enabled), `Check` (the log is read), `Await`, `Wake` and `TimeOut`.
`ObserverPoll` is one `HttpLogObserver::poll_new`: one HTTP round trip,
processed by one thread.  `BrokerHandle::drop` is four actions, because the
server still serves between them.  The observer survives a restart, other
readers begin again at 0.  Epochs are start times in milliseconds, taken to
differ between restarts.  A thread of the runtime that is cut off by the
shutdown's two-second limit loses what it had not appended (`DropPublishes`).
History: `got`, `obsGot` and `written` count deliveries; `skipped` is what the
observer's first poll of a new broker did not ask for; `filed` is the length of the
log when the file was last brought up to date.  A `write_all` that fails after the
file was opened is ignored by the code and not modelled.

### BrokerDelivery
`Begin` accepts a message, `Commit` is the locked section (log, inboxes, row and
the progress decision), `After` stores the progress instant, `Nudge` starts the
second publish for a commit.  A message is a record of its kind, sender, target,
label, phase and question; texts are left out.  `Settle` is the passing of the
re-entry TTL after a commit.  Inboxes keep everything, as in the code, and so a
question that was read is still one of the duplicates `Resident` looks for; the
property about questions (`QuestionsAreAsked`) leaves open what becomes of one asked
again after it was read, because code and comment disagree there (section 5).

### WorktreeWatch
A watcher task walks `ReadHead`, `ReadStatus`, `CheckGone`, `Gate`,
`PublishWorking`; it decides on the row in `Gate` and publishes in the next step,
with the rest of the system in between.  A commit is `BeginCommit` (the index is
locked, so `git status` may fail), `EndCommit` (the tip moves; all, some or none
of the changes go with it) and `HookPublish`, whose list is what `git diff HEAD~1`
names: what was committed and what is still changed in a file git tracks.  Two
slots per path let a dying task and its successor overlap. `Fetch` is the drive
loop's `/status` snapshot, `Rebase` acts on it later.  The ghost field `doubt` of
a row says that since the last commit the agent has sent a list of its own, that
the re-entry TTL has run out, or that the commit itself listed no file: the three
ways in which the row and the worktree come apart (section 5). `dirty` is what
`git status` lists; git rebases under the files in `Untracked` and refuses to
under the others.

### DriveBinding
A start reads the receipt (`Launch` or `ReadSession`), reads the instance again
(`Stamp`), takes the lock, decides and publishes as separate actions, then
revives from the snapshot of its first read, as the code does; a recovery that
fails at its launch leaves the receipt active, with a session or without.  A tick is
`CheckBinding`, `Bump` (the mtime is set on whatever file is at the path now),
`CheckReceipt`, `EndTick`.  Drop is three actions under the lock, stop three
actions without it.  `Age` is the clock, in units of the
shortest window.  `excused` is a
history variable: the loops that were superseded, revoked, or let their own
window run out.  `overdue` counts ticks acted in without the binding.

### DriveLoop
A tick is the steps of `drive_loop_logged` in their order: `check` (binding and
list of surfaces), `sweep` per pane, `fetch` (`/status`, phases, finished branches
leave the correction cycle), `poll` (messages, refreshes, wind-down), `nudge` per
pending branch, `observe` (tips), `beat` (heartbeat), `sleep`; then `summarize`
(git is asked branch by branch what is merged), `report` and `over`.  Which agent
a pass visits first is left open.  The workers, the supervisor agent, the user and
git act between any two steps.

What is abstracted: a pane shows one of `Prompts`, one of `Banners`, or is idle,
busy or left with text in its box, because these are the cases the sweep and the
nudge tell apart.  What repeats of an alert are recognised by is its `Key`: of a
prompt the command in its header, so that all prompts without one share a key, as
in `approval_dedup_key`; of a banner its marker.  A branch tip is whether there
is one on record (`known`) and whether it still is the tip (`moved`); the `/log`
is the part not yet polled (`news`); of the refreshes that pass the row, pane and
merge gates any subset succeeds (the races behind the others are
`WorktreeWatch`).  `seen` and `idle` count ticks, up to the window and the
heartbeat.  Calls that fail (surfaces, poll, tmux, git) share the bound
`MaxMoves` with the moves of the world; the `/status` fetch may fail at any time.
The wave is new, or is picked up with one branch that has failed a gate.

History variables: `owed` (gate failures published less those answered by a
re-engagement or an exhaustion), `credit` (moves of the wave less resets of the
heartbeat), `since` (ticks since a worker's last commit the loop could read),
`late` (ticks begun with the heartbeat due), `touched` (branches committed to
after git had compared them); of the panes, `shown` and `stood` (the alert the
last sweep found and the ticks since a sweep first found it there), `told` (ticks
since each alert, not each key, was last escalated) and `flooded` (one went out
twice within a window).

### HandoffQueue
A tick is `Check` (session check, which refreshes the lease, and the fetch, which
may find the wave complete), any number of `HandOff`, `PumpTick`, `Sleep`; the
ways out lead to `Drain` and `Wait` or, when the session was torn down, to
`AbortTorn`, then to `Report` and `JudgeMerges`.  `Pump` is
`HandoffQueue::pump` with the `record` of every outcome it returns: what the poll
of the child says is a choice among what `RealSpawnedChild::poll` can return, and
any number of spawns may fail before one succeeds.  A hand-off is its queue key.
`ran` and `age` count poll intervals, up to the timeout and to one past the
lease; a tick is one interval long, whatever the sweep took.  One-shots merge
branches and exit when they like; `SessionEnds` and `TakeOver` are other
processes.

### PaneClaim
The claim is a file with a maker and an age.  A sender takes it by `Create`,
`Judge`, `Unlink`, `Recreate`, one action per system call of
`PaneClaim::try_acquire`; the shell's `acquire_pane_claim` differs in one place,
because `rm -f` succeeds on a file that has gone.  `Release` removes whatever is
at the path, and nobody touches a claim it holds.  Under the claim the loop walks
`Capture`, `Type`, `Submit`, `Verify`, `Clear` (a nudge and its recoveries),
enters at `Clear` for buffered input whose first Enter (`Push`) went without a
claim, or works on the branch (`Git`); a helper walks `Reconfirm`, `Digit`,
`ApproveEnter`.  `Killed` is SIGKILL at any step.  A pane shows a prompt, a
working CLI or an idle one, with text in its box or not.

Time passes in units of the default settle delay, 1.5 seconds: a sender sleeps
whole units, and the steps between two sleeps take none (a process that is
suspended for longer is a process that was killed, to this model).  In one unit a
sender begins each errand once.  A claim's age is counted up to one past the
limit.  History: `raced`, that a steal has removed a claim that was not old;
`kills`.

### SessionReceipt
A command is a process that keeps the copy of the receipt it read (`seen`) and the
last receipt it knows the file to hold (`base`); each step between two of its
effects on tmux, the worktrees or the file is an action.  `mishaps` collects what
excuses a property: a command acted by a copy that was no longer the receipt, ran
beside one of the four that take no lock, was killed, could not make a worktree or
a pane, or could not recover.  A property with `mishaps = {}` in front speaks of
commands that run whole, of adds and removes that overlap in their reads but save
nothing in between, and of a tmux server that may die at any time.  Port slots are
those of `allocate_slot`.  An add whose worktree or pane was not made ends there
and saves nothing; a purge goes on past worktrees it could not remove.  A fresh
launch is one step and for one branch; in a recovery, closing what is left of tmux
and saving `active` are one step.  A launch that finds another session of its name
takes a suffix (`LaunchElsewhere`) and is not followed further.  Its names differ
from those of `DriveBinding`, beside which it is proved: the receipt is `stored`,
the lock file `addLock`, no value `Nothing`.

### ConflictDetector
`Intent`, `Status` and `Acknowledge` are `process_message` on a message of that
kind, `Tick` is `tick` and the interval until the next poll.  Each expires stale
intents first, as the code does.  Instants are ages in polls, capped where the
code's comparisons no longer tell them apart.  A claim is the whole file or a list
of regions as it was written, a region a name or a range.  Regions meet by the
symbol of their names (`Symbol`, that is `normalize_region_name`); what is
recorded of it is the spelling of the agent that comes first in the pair; and a
claim is new, and a shape another, when list or spelling differ, as in the code.
`seen`, `gone` and `settled` are history: how long ago the two agents first shared
the file, how long ago they last did, and the shape in which the conflict was last
put to someone or acknowledged.  `seen` and `gone` are computed from the agents'
files alone, not from the records the properties judge.

## 3. Runs

| run | expects | question |
|---|---|---|
| `log_overlap` | pass | two publishers, a long poller, flush, observer, shutdown, crash, restart: numbering, cursors, wake-ups, why a reader, the observer or the log file may miss an entry and why the file may hold one twice |
| `log_serial` | pass | one publisher at a time: the documented promise (refinement of `LosslessLog`), every entry observed |
| `log_restart` | violation of `ObserverLossless` | the observer's re-read after a restart |
| `delivery_overlap` | pass | inboxes, rows, progress and nudges against the log; no question lost, or twice in the inbox unread |
| `watch_rows` | pass | one watcher per path, honest marks, settled commits; dirt reaches the row and the refresh's first gate is sound, up to the named exceptions |
| `claim_kill` | pass | a loop and two approvals on one pane, one of them killed anywhere: who holds the pane, which prompt an approval reaches, that the pane comes back |
| `binding_lease` | pass | no start or exit displaces a punctual loop; a displaced loop is late by one tick at most; nothing left behind wedges the session |
| `drive_wave` | pass | two workers to the end of the loop: one cycle per failure, the window silences repeats of a key and nothing else, no alert twice in one and again after it, a heartbeat only over a wave that stands still and not put off by the loop itself, a whole summary with an earned `completed` |
| `receipt_overlap` | pass | any two commands at a time, killed anywhere: one holder of the lock; ports, receipt and boot prompts, up to the named mishaps |
| `receipt_stop` | violation of `StopKeepsWork` | the worktrees a stop promised to keep |
| `handoff_drain` | pass | every judgment call counted once, no one-shot unobserved, an end in any case |
| `conflict_adjudicate` | pass | each conflict told once, asked once, decided in time |

Bounds, and why they are enough.  `log_*`: three messages let an entry be
overtaken while a third is in flight and a cursor stands between; two epochs give
one restart with the observer's old cursor above, at and below the new numbers;
the question whether a second restart differs is settled by the proofs, which
bound neither.  `delivery_overlap`: two threads and three messages, out of one of
each routing rule (nudges count), reach each pair of rules and a nudge between two
commits. `watch_rows`: one worktree, because worktrees share no state in this code
but the set of watched paths, with two task slots (dying and new), one file that
git does not track (a tracked one only keeps git from rebasing) and two moves of
the tip, so that a rebase can follow a commit, and commits of all, some or none of
the changes.  `claim_kill`: the loop and two helpers, because it takes two
stealers at once to remove a claim that is not old; one kill, since a second one
only orphans another claim; the default delays, with which a nudge and its two
recoveries just fit into the limit of the claim. `binding_lease`: two starts with
different windows and one session instance; a third start would find the same file
the second does, a second instance changes the name in a record, and the theorems
hold for any number of both.  `MaxAge` follows a lease's age one past the longest
window, where nothing changes any more.  `drive_wave`: two workers, so that "every
worker" and "some other worker" differ and one announces a merge that rebases the
other; three moves and the wave picked up with a failure reach a spent budget of
two cycles, a merge with its refresh and a commit, a worker that finishes and is
asked again, and every pair of failed calls; two prompts with one key and a banner
with another reach a repeat, another prompt of the same key and an alert of
another key on one pane; windows of two ticks tell "at once", "within" and "after"
apart.  `handoff_drain`: one agent with two questions (duplicate, cap) and another
with a merge decision, so that one waits while one runs and one fails to spawn; a
timeout of two intervals tells "before", "at" and "late answer" apart, and a lease
of one lapses within it. `receipt_overlap`: two commands at a time, because a
third only adds another stale copy, four in a row (an add, a pause or stop, a
start, and one more beside them) and three branches (one launched, two added at
once).  `receipt_stop`: three commands, one at a time, are the shortest way to the
loss. `conflict_adjudicate`: two agents and one file, because every record and
every decision is kept per pair and file; a file claimed whole, or by one of two
functions, the first in two spellings, gives each shape and each change of shape,
the one that is only a re-spelling included (ranges, names of other kinds and
longer lists are checked by the assumptions of the MC module); a window and a
retention of two polls and an intent of one tell "at once", "within", "on" and
"after" apart, in every order.

Deadlock is not checked: messages, epochs and instances are bounded, and the
programs end.

Fairness.  `log_serial`: a publishing thread that holds a number runs on, a
long-poll task that was woken is polled by tokio, the drive loop polls in each
tick; no timeout is relied upon.  `watch_rows`: the watcher ticks for ever
(`watch_worktree` is an infinite loop), a commit ends and its hook runs; nothing
is assumed of the agent.  `binding_lease`: a process takes its next step, and the
lease of a loop that is gone grows old; a user whose start was refused runs it
again (this is what "wedged" denies), and the run asks only from when every other
loop is gone.  Nothing is assumed of stop, pause or a live loop's clock.
`claim_kill`: time passes, processes that live go on, and the loop comes back to a
pane with a correction it has not sent (it is pending until it was, and every
sweep tries it); that the claim of a dead process goes is up to them.
`handoff_drain`: the loop's thread runs on; nothing is assumed of a one-shot, of
the session or of the wave.  `drive_wave` assumes none: that the loop leaves is
stated with a number of ticks (`LeavesInTime`), which is stronger than that it
leaves some day.

## 4. Proofs

Each of the eight modules `*Proofs` defines an inductive invariant, proves it
(one lemma per action or per group of actions that a part of it distinguishes),
and derives from it the properties the runs check.  What the runs show on small
instances the theorems say of every number of agents, threads, files, restarts and
messages, and of every window, timeout and budget.  Assumptions: those named in
the modules (what sort of value a constant is, that `None` is no other value, that
a repository has finitely many branches), no other, and `DelaysFit`, which is a
hypothesis of its own.

| module | properties of the runs that are theorems | the invariant |
|---|---|---|
| `BrokerLogProofs` | all but `EveryEntryObserved`; the documented promise (and `WrittenOnce`, which no run states) under the premise that publishes do not overlap | `TypeInv`, `GapsAreInFlight`, `ReaderInv`, `ObserverInv`, `MissedInv`, `FileInv`, `RewriteInv`, `Ordered` |
| `SessionProofs` | of `DriveBinding` all but `NeverWedged` | `LeaseInv`, `LateInv` |
| | of `SessionReceipt` all | `CopyInv`, `HolderInv`, `WindowInv`, `CleanInv` |
| `BrokerDeliveryProofs` | all | nine parts, from `SeqInv` to `NudgePerCommit` |
| `WorktreeWatchProofs` | all but `DirtSurfaces` | `CommitInv`, `SlotInv`, `TipInv`, `RowInv`, `ViewInv` |
| `PaneClaimProofs` | all but `PaneComesBack` | `WaitInv`, `OrphanInv`, `SeenInv`, `OwnInv`, `AgeInv`, `AnswerInv` |
| `DriveLoopProofs` | all | `OwedInv`, `AlertInv`, `EndInv`, `SinceInv`, `LateInv`, `CreditInv` |
| `HandoffQueueProofs` | all but `EveryHandOffSettles` | `QueueInv`, `CountInv`, `RanInv`, `AliveInv`, `ExitInv`, `LeaseInv` |
| `ConflictDetectorProofs` | all | `RecordInv`, `WarnedInv` |

Each invariant was checked by TLC on its module's run before it was proved.

`BrokerLog`.  Types first (`TypeInv`); then *numbers*: a number handed out is in
the log or in the hands of one running publish (`GapsAreInFlight`), which needs
that nothing is in flight when no broker runs (`Quiet`); then *readers*: a
cursor is 0 or a number of the log, and what was handed out lies at or below it
(`CursorInLog`), so a page of newer numbers repeats nothing, and what lies below
a cursor unread was appended behind it (`OnlyOvertakenMissed`); then the
*observer*, whose counts belong to the epoch it recorded (`ObserverInEpoch`), and
whose cursor, within that epoch, is 0 or a number of the log (`MissedInv`): the one
thing it misses that a reader does not is what the first poll of a new broker did
not ask for (`skipped`), which bounds what `log_restart` shows.  The same
argument holds for the *flush thread* and `last_flushed_seq` (`FileInv`): what the
file lacks was overtaken, or came after the last pass that could open the file;
and what it holds twice overtook another entry, because `last_flushed_seq` is then
a lower number than the highest it wrote (`RewriteInv`).  `NumbersCorrect`,
`ReadsCorrect` and `FileCorrect` put these together as the run checks them.
`SerialLossless`, `SerialWrittenOnce` and `SerialImplementsPromise` add the
premise that no two publishes overlap; then the log is in order (`Ordered`): a
cursor passes nothing, no entry overtakes another and so none is written twice, and
each read maps to `Fetch`, each append to `Publish`, each start to `Restart`.

`DriveBinding`.  `PunctualKeepsLease` is not inductive: it says nothing of a
start that has decided and not yet published, or of a loop that has checked and
not yet removed.  `LeaseInv` adds exactly that: what was decided under the lock
is still so at the publish (`DecisionInv`), what was found under the lock is
still so at the removal (`RemovalInv`), both because every other writer of
another loop's name needs the lock (`LockInv`), and a revoke only makes the file
absent; and a lease older than its holder's own window lapsed by the holder's
lateness (`LapsedInv`, with `RecordInv`: the record carries its writer's
window), which is why the larger of two windows is the right one.
`AtMostOneTickLate` follows from `LateInv`: a loop that acted without the
binding is past this tick's check and cannot pass the next one, because a loop
id is published once.

`SessionReceipt`.  Its state is spread over as many copies of the receipt as there
are commands, so the invariant begins with the copies: each lists no branch and no
port slot twice, and differs from what its command last read or wrote by that
command's own step only (`CopyInv`).  That an add keeps it so is `NoEntryTwice`,
and needs that `allocate_slot` finds a slot: the listed branches are fewer than
the slots (`SlotLeft`, by the pigeonhole principle; hence the finitely many
branches).  `HolderInv` says that the lock file names the one add or remove that
is past taking it, which is `OneHolder`, the first part of `ReceiptIsSound`; a
file that outlived its command names nobody, so removing it by hand is harmless.
The rest, `CleanInv`, holds until the first mishap: commands overlap only when
each of them takes the lock (`TogetherInv`), the copy of a command that has acted
is the receipt (`CurrentInv`), and the worktrees, panes and prompts agree with the
receipt but for the branch that the acting command is about, whose state is told
step by step (`Midway`, in `WorkInv`).  The rest of `ReceiptIsSound`, and
`HeldOrAsked`, are what is left of it when no command is under way, and the step
before an add's save, when a pane runs with a slot that is allocated and not yet
saved.

`BrokerDelivery`.  The properties compare a state with the whole log, so each is
proved for "the log and one more entry".  `InboxInv` says of an inbox that it
holds exactly what is owed to its agent, in log order; that it stays so when
the log grows needs the numbers to be distinct (`SeqInv`) and every question to be
still in the inbox (`QuestionInv`): a question is enqueued when no earlier one is
the same (`Due`).  The property asks for less, that no question be lost or stand in
the inbox twice unread, and so does not take the side of the code against its
comment (section 5).  `RowInv` and `LastInv`
name, for every row, the entry it comes from: the last of its agent, or the
commit that a `working` could not overwrite.  `NudgePerCommit` is inductive by
itself once a thread between its commit and its nudge is counted (`OweInv`).

`WorktreeWatch`.  `OneHonestWatcher` needs that a slot that is off remembers
nothing (`SlotInv`) and that a task's last tip was a tip (`TipInv`): a successor
that inherited one would count a move that was none.  `NotedDirtIsSafe` speaks of
a row that was fetched earlier; `ViewInv` carries it to the refresh, and `RowInv`
ties the row to what every watcher has noted, as long as `doubt` does not excuse
it.  That the hook's list of a commit that leaves changes behind is not empty, or
is in doubt, is what keeps it so at a commit.

`PaneClaim`.  That two senders are never at one pane rests on time alone.
`AgeInv` is the sum: a claim's age and what its holder has still to sleep (`Left`)
stay within the limit, so that no claim of a live sender is ever judged old
(`OwnInv`).  It holds when a nudge with all its recoveries, and a refresh, fit
into the limit: `DelaysFit`, the one hypothesis of `PaneKept`.  The defaults meet
it with nothing to spare (six settle delays in a limit of six); a
`submit_delay_ms` above 1666 breaks it, and section 5 says what happens then.
`TypeCorrect` needs it not.

`DriveLoop`.  `OneCyclePerFailure` is inductive once the feedback not yet polled
is counted (`OwedInv`).  `AlertsAreTimely` speaks of alerts and the code keeps its
clocks by key: `AlertInv` says that a key's clock is that of the last of its
alerts to go out (`KeyInv`); that an alert on a pane is that one or has stood for
less time than the clock shows (`StoodInv`), so that one which has stood for a
whole window is either due or has just gone out; and that a sweep leaves no clock
run out (`SweptInv`).  `SummaryIsTrue` needs the comparisons made so far: each
branch is still to be compared, was found merged, or is listed (`Compared`, in
`EndInv`).  `LeavesInTime` is not: `CreditInv` adds up everything the loop can
still take for progress (a tip that moved, a phase above the one on record, an
advance not yet seen) and says that it was paid for by moves of the wave.
`SinceInv` lets the heartbeat's clock lag behind the wave only by a tip not yet
read.

`HandoffQueue`.  `QueueInv` says that the queue is the tail of what was accepted,
behind `begun`; `CountInv` that all before it is in a bucket or in flight;
`AliveInv` that a process runs only while the queue knows of it.  A rival only
comes when the loop no longer ticks, because the lease of a loop that ticks is
young (`LeaseInv`).

`ConflictDetector`.  `RecordInv` says that a record and the history of its
overlap, which the model computes from the files alone, agree: the clock, the
absence, the shape, that it was announced exactly when its clock runs, and that
it has a shape exactly when it was decided or acknowledged.  Each operation on a
record (announce, sweep, reconsider, decide, acknowledge, age) has a lemma that it
keeps the two in step, and an action is a composition of those.  `WarnedInv` says
that the warnings that stand are those of the pairs whose claims conflict; it needs
that whether two claims meet does not depend on which comes first
(`MeetSymmetric`, `IntersectSymmetric`), because the agent that publishes does; what
they share does depend on it, in its spelling.  The three action properties
follow.

Four proof attempts failed for a reason in the model, which was then wrong:

- A commit with the re-entry TTL switched off never shows as fresh, so the row
  may be overwritten at once; `Updated` took `doubt` from the label alone, and
  `RowInv` was not inductive for that setting.
- A row without a status was a pair of empty strings, which is also the status of
  a message with an empty label; the code's `None` differs from every status.  It
  is `NoStatus == <<>>` now, and the labels and phases are constants, as they are
  arbitrary text in the code.
- The two messages of an ownership violation were a union that SANY and the prover
  grouped differently; the question also goes to the supervisor and not to the
  violator.
- An add to an active session saved its receipt without noting that this is now
  the receipt it knows, so everything after it counted as a mishap and the
  properties of `SessionReceipt` said nothing of what follows an add; `CurrentInv`
  was not inductive.

Only model-checked: all liveness (`EveryEntryObserved`, `DirtSurfaces`,
`PaneComesBack`, `NeverWedged`, `EveryHandOffSettles`), because fairness and
ENABLED are out of the prover's reach; every invariant and action property of a
passing run is a theorem.

## 5. Where code and documents disagree

The two violation runs and their findings in `PROJECT.json` give the traces of the
two that lose data.  Seen
while modelling, and kept here without a run:

- `poll_messages` removes nothing from an inbox, so a question that was read and
  answered is still judged a duplicate when it is asked again and is dropped
  (`broker/delivery.rs:416`); the comment at 414-415 says "once the supervisor
  drains this question a re-ask enqueues normally".  `InboxIsTheLog` is true of
  both; "a question is enqueued when every earlier copy has been read", stated as an
  action property, TLC refutes (ask, poll, ask).
- Prompts without a `Bash command` header share one key of the agent: the empty
  command slice (`supervisor/approval_gate.rs:74`, `drive/decide.rs:251`).  A
  file-edit prompt that follows another within the window is neither escalated
  nor recorded, although
  `openspec/specs/supervisor-unattended-operation/spec.md:171` says that
  "Two genuinely-distinct prompts from the same agent SHALL NOT be collapsed" and
  `drive.rs:235-237` speaks of a target path as fallback (which `dedup_shape` has,
  and which only words the escalation) and of the next distinct prompt, which
  "re-confirms fresh once this one clears": nothing forgets a key when its prompt
  clears.  `AlertsAreTimely` states the rule by key; stated by prompt (what
  a sweep finds has been escalated), TLC refutes it with two edits on one pane.
- The empty `modified_files` that `broker.sh status` sends overwrites what the
  watcher reported (`broker/delivery.rs:247`), and the watcher does not report
  again while `git status` is unchanged: the refresh then rebases a dirty
  worktree, which `openspec/specs/supervisor-branch-refresh/spec.md:67` rules
  out.  `NotedDirtIsSafe` without its exceptions shows it.
- A commit that lists no file (`--allow-empty`) does the same: the hook's empty list
  (`assets/hooks/post-commit.sh:9`) replaces what the watcher had reported
  (`broker/delivery.rs:246`), and a worktree whose only changes are files git does not
  track stays dirty with an empty row until `git status` changes again.
- A claim written again with its regions in another spelling or order is a new one
  (`broker/conflict.rs:575` compares the lists as written): the warnings of the pair
  are sent again, although the comment at 551 says that "an *identical* file set leaves
  the dedup intact".  In the same way a recorded shape keeps the spelling of the
  first agent (`conflict.rs:463-465`), so that a conflict that was decided is asked
  about again when only the spelling changed, although `conflict.rs:121` says that
  "spelling variants of the same symbol compare equal".
- A branch that passed its gates keeps the correction cycles it has spent: only
  a `verified` or `done` row frees them (`supervisor/drive.rs:518`) and
  `agent.verified` writes no row, so its next failure gives it up at once;
  `openspec/specs/supervisor-correction-loop/spec.md:70` says it shall leave the
  cycle.
- The drain at the loop's exit never asks `is_current`
  (`supervisor/drive.rs:1602`), so it refreshes no lease: with a one-shot that
  runs up to its `timeout_seconds` (30 minutes by default) against a lease of
  two, another `start --unattended` takes over while it still acts
  (`NoOneShotUnobserved` bounds it to the drain); `loop_binding.rs:1` promises
  one loop per session.  For the same reason a session that is torn down during
  the drain keeps its one-shot, unlike what `drive.rs:1543-1545` says.
- Two adds that overlap read the same receipt: the second to save drops the
  first's entry and both have the same port slot, though
  `worktree_provision.rs:186` says "two concurrently active worktrees never
  share a block".  The same happens beside a command that takes no lock.
- Two starts at a time, and not only a failed recovery, can leave an active
  receipt without tmux, which the next start takes for stale: a crash of the
  tmux server in an active session costs the worktrees, although
  `docs/src/faq.md:27-29` says that git-paw then "automatically recovers".
- A recovery drops no held boot prompt and types none: an agent that was added
  to a paused session which was then stopped waits for the next resume from
  pause.
- `git paw remove` looks for uncommitted work before it kills the agent and
  takes the lock (`commands/remove.rs:114`, 143, 162): what the agent writes in
  between is lost.
- An acknowledgement that arrives in the poll in which its record is disposed of
  does not renew the record; `warned_violations` is never cleared, so a
  violation that ends and comes back is not reported again.
- The learnings aggregator sets its day heading as written before the append
  that may fail, and observes a message after the log's lock is released
  (`broker/delivery.rs:307`), so two overlapping publishes may reach it in
  either order.
- `publish_message` takes its number before the write lock
  (`broker/delivery.rs:275`), so with overlapping publishers a higher number can
  be appended and read first, and the cursor then passes the lower one for good;
  `docs/src/user-guide/coordination.md:580` says "This cursor-based approach is
  lossless".  `log_serial` checks the promise without overlap,
  `OnlyOvertakenMissed` says what may be missed with it.
- The refresh's gate looks for `verified` in the row (`supervisor/drive.rs:1674`),
  which `agent.verified` never writes, so a verified branch awaiting merge is
  rebased; `openspec/specs/supervisor-branch-refresh/spec.md:130` says it shall
  not be.
- A gate failure published before the last re-engagement and polled after it
  applies the exhaustion policy at once (`supervisor/drive/decide.rs:447`); the
  comment above it wants the last fix attempt to get "its chance to pass".
- A nudge whose text is typed and whose Enter fails spends no cycle: the next
  sweep submits the line, and the next correction pass types it again.
- A failure of a worker that has finished is "kept pending"
  (`decide.rs:427`), and the next tick's `clear_completed` drops it; when the
  `/status` fetch fails in between, the finished worker is nudged, because an
  empty answer counts nobody as finished.
- `flush_entries` records the number of the last entry in append order
  (`broker/delivery.rs:675`); with overlapping publishes an entry is written
  again, or out of order.  `FileIsSound` says which, in `log_overlap`, and
  `WrittenOnce` is proved for publishes that do not overlap.
- The handle's drop joins the flush thread before it stops the server
  (`broker/mod.rs:693`): what is published in between never reaches the file.
- A watcher whose row has settled takes new dirty files for known without
  reporting them (`broker/watcher.rs:203-207`): the row stays clean although
  "the supervisor and the watcher can never disagree" (`broker/mod.rs:77`).
- The commit's own change from dirty to clean is published as `working` within
  the TTL (`broker/watcher.rs:179-219`), and after the TTL an agent's own
  `working` leaves the row at `committed` (`broker/delivery.rs:217`).
- A path removed and added again while its watcher has seen it gone and not yet
  forgotten it: `POST /watch` is a no-op (`broker/server.rs:425-427`) and the
  path is unwatched afterwards.  `OneHonestWatcher` describes the state truly:
  not watched, no task.
- The file list the hook publishes with a commit stays in `modified_files`
  (`broker/delivery.rs:246`) until the next report.
- `agent.verified` writes no row, so `detect_completion`'s rule over verified
  rows (`supervisor/drive.rs:408-430`) cannot be met by verified commits alone.
- `start --unattended` revives from the status it read before it waited for the
  binding (`main.rs:552-573`): a start that read `paused`, waited, and won after
  another start had revived and ended, revives again.  On the `stopped` path
  both starts use `Supersede`, so the lock refuses neither.
- A loop in mid-tick when its session is stopped and recovered acts in that tick
  on the recovered session; `AtMostOneTickLate` bounds it to the one.
- `refresh` takes no lock: a lapsed loop may refresh between another's decision
  and its publish (it is then displaced, and excused: it had lapsed).  `revoke`
  takes none either and may remove a successor's binding.
- The claim's steal (`supervisor/claim.rs:98`, `sweep.sh:602`) removes whatever
  is at the path: of two stealers the later one removes the claim the earlier one
  has just made, and both hold the pane, although
  `docs/src/user-guide/supervisor.md:1052` says "exactly one sender can hold a
  pane at a time".  `PaneIsKept` says that it takes a killed sender first.
- A nudge holds its claim for six settle delays (two for the send, two for each
  of `NUDGE_RECOVERY_ATTEMPTS`): 9 seconds by default, more than the claim's
  limit of 10 with a configured `submit_delay_ms` above 1666.  The claim of a
  loop that still types is then stolen; the comment at `claim.rs:34` takes the
  window for "sub-second".  `Settle = 2` in `PaneClaim_kill.cfg` shows it.  The
  refresh of a branch holds the claim through its git commands, of any length.
- A nudge goes to any pane that shows no prompt, also to a working one
  (`supervisor/drive.rs:2124`), and its Enter follows after the settle delay
  without another look: a prompt that comes up in between is answered with the
  option it stands on.  `docs/src/user-guide/supervisor.md:130` says of the loop
  that "it never answers one".
- The first Enter of a buffered-input submission is sent without the claim
  (`supervisor/drive.rs:2417`);
  `openspec/specs/supervisor-unattended-operation/spec.md:451` lists this send
  among those that take it.
- The broker answers requests before its start-up has seeded inboxes and watched
  paths and before the watchers' shutdown channel is set (`broker/mod.rs:1126`,
  1137, 1161): a broadcast in between misses the seeded inboxes, and a new path
  registered in between by `POST /watch` gets no watcher
  (`broker/server.rs:522`), then or later.

## 6. Not modelled, and limits

Not modelled: see the components with status `not_modelled`; but for the learnings
aggregator (below) they are sequential text or process I/O.  I/O errors
are modelled only where a handler reacts to them (the log file, `git status`,
a failed revive).  Clock skew, two repositories, and several brokers on one port
are left out.  In `DriveBinding`, pause, purge and an attended start are one
step each, a launch is one step with its save, and instances have distinct
`created_at` seconds.  In `DriveLoop` the roster is fixed, `auto_loopback` is on,
learnings and judgment-call notes are left out (the hand-off is `HandoffQueue`),
and the keystrokes and settle delays of one send are one step (they are apart in
`PaneClaim`).  `PaneClaim` leaves out senders that take no claim, the boot prompt
and a person at the pane, and a branch refresh that outlasts the claim.
`SessionReceipt` leaves out a second session of the repository beyond its launch,
CLIs that exit by themselves, and `purge --stale`.  `ConflictDetector` has both
policies on and no exempt paths.  In `WorktreeWatch` a file that git does not track
stays so until it is committed, and the hook's publish does not fail.

The learnings aggregator is not modelled because nobody decides by it: it is a
report of what it observed.  The start-up of the broker is one step of
`BrokerLog` and the initial state of the others: its steps run once, in one
order, beside a client that is only there when somebody adds an agent in those
milliseconds; what goes wrong then is in section 5.

## 7. Plan

Components that are left: the start-up of the broker beside a first publish, and
the learnings aggregator if anything comes to decide by it.

The project keeps a small set of runs, one per question.  Runs that only
documented a disagreement gave way to the later modules, and their findings are
in section 5; the two that are left are the ones that lose data.
