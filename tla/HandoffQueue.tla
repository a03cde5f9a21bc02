---------------------------- MODULE HandoffQueue ----------------------------
(* The headless hand-off of one unattended drive loop                         *)
(* (src/supervisor/escalation.rs, command_runner.rs and the loop's use of     *)
(* them in drive.rs and drive/decide.rs).  The loop hands judgment calls to   *)
(* one-shot orchestrator processes, one at a time and in order; every tick it *)
(* polls the running one and starts the next, and on its way out it waits for *)
(* the running one or, when its session was torn down, kills it.  The         *)
(* one-shots, the commands that end a session and another loop's start run    *)
(* beside it.                                                                 *)
EXTENDS Integers, Sequences, FiniteSets

CONSTANTS Agents,      \* the coding agents, each with one branch
          Questions,   \* the texts a worker may ask
          Candidates,  \* artifact statuses that make a merge decision live
          Calls,       \* the judgment calls that can come up
          None,        \* no call, no report
          Timeout,     \* [supervisor.escalation] timeout_seconds, in poll intervals
          Lease,       \* the loop's binding goes stale after so many poll intervals
          MaxCalls     \* bound: judgment calls the loop sees

(* A hand-off is its queue key: kind, agent and discriminator. *)
HandOffs == [kind : {"question"}, agent : Agents, about : Questions]
            \union [kind : {"merge-decision"}, agent : Agents, about : Candidates]
            \union [kind : {"correction-exhausted"}, agent : Agents, about : {None}]

ASSUME CallsAssumption == Calls \subseteq HandOffs /\ None \notin Calls
ASSUME TimeAssumption == Timeout \in Nat \ {0} /\ Lease \in Nat \ {0}
ASSUME BoundAssumption == MaxCalls \in Nat

VARIABLES
  \* the loop
  at,        \* its step
  pending,   \* HandoffQueue.pending
  flight,    \* HandoffQueue.in_flight: the hand-off, or None
  ran,       \* poll intervals the one in flight has run, as far as it matters
  counts,    \* completed, non_zero, timed_out and capped
  report,    \* the HandoffReport of the summary
  unmerged,  \* the branches git called unmerged at the exit
  \* the world
  alive,     \* one-shot processes that run, by the number of their start
  exit,      \* how the process in flight ended, while nobody has polled it
  merged,    \* branches the one-shots have merged
  current,   \* the session instance is there and bound to this loop
  age,       \* poll intervals since the binding was refreshed
  rival,     \* another loop has taken the binding over
  \* history
  accepted,  \* the hand-offs queued, in order
  begun,     \* how many of them were taken off the queue
  calls      \* judgment calls seen

queue == <<pending, flight, ran, counts>>
session == <<current, age, rival>>
processes == <<alive, exit, merged>>
summary == <<report, unmerged>>
history == <<accepted, begun, calls>>
vars == <<at, queue, summary, processes, session, history>>

Steps == {"check", "poll", "pump", "sleep", "drain", "wait", "abort", "report",
          "merges", "over"}
Results == {"completed", "non_zero", "timed_out"}
Counted == Results \union {"capped"}

Init == /\ at = "check"
        /\ pending = <<>> /\ flight = None /\ ran = 0
        /\ counts = [c \in Counted |-> 0]
        /\ report = None /\ unmerged = {}
        /\ alive = {} /\ exit = None /\ merged = {}
        /\ current = TRUE /\ age = 0 /\ rival = FALSE
        /\ accepted = <<>> /\ begun = 0 /\ calls = 0

Goto(from, to) == at = from /\ at' = to

-----------------------------------------------------------------------------
(* Beside the loop.                                                           *)

Over == at = "over"

(* A running one-shot merges a branch: it is what it was started for. *)
OneShotMerges(a) == /\ alive # {} /\ a \notin merged
                    /\ merged' = merged \union {a}
                    /\ UNCHANGED <<at, queue, summary, alive, exit, session, history>>

(* A one-shot exits, with 0 or not. *)
OneShotExits(n) == /\ n \in alive /\ alive' = alive \ {n}
                   /\ IF n = begun /\ flight # None
                      THEN exit' \in {"completed", "non_zero"} ELSE UNCHANGED exit
                   /\ UNCHANGED <<at, queue, summary, merged, session, history>>

(* git paw stop, purge, or a session of another instance. *)
SessionEnds == /\ ~Over /\ current /\ current' = FALSE
               /\ UNCHANGED <<at, queue, summary, processes, age, rival, history>>

(* start --unattended finds the binding stale and takes it. *)
TakeOver == /\ ~Over /\ current /\ age > Lease
            /\ current' = FALSE /\ rival' = TRUE
            /\ UNCHANGED <<at, queue, summary, processes, age, history>>

-----------------------------------------------------------------------------
(* The queue.                                                                 *)

InQueue == {pending[i] : i \in DOMAIN pending}
Waiting == IF flight = None THEN InQueue ELSE InQueue \union {flight}
Duplicate(h) == h \in Waiting
AgentAsks(h) == /\ h.kind = "question"
                /\ \E o \in Waiting : o.kind = "question" /\ o.agent = h.agent

Queued(h) == Append(pending, h)

(* A judgment call, handed off: a key that waits or runs already is dropped,  *)
(* and a second question of an agent stays on the broker.                     *)
Enqueue(h) ==
  /\ calls < MaxCalls /\ calls' = calls + 1
  /\ \/ /\ Duplicate(h) /\ UNCHANGED <<pending, counts, accepted>>
     \/ /\ ~Duplicate(h) /\ AgentAsks(h)
        /\ counts' = [counts EXCEPT !["capped"] = @ + 1]
        /\ UNCHANGED <<pending, accepted>>
     \/ /\ ~Duplicate(h) /\ ~AgentAsks(h)
        /\ pending' = Queued(h) /\ accepted' = Append(accepted, h)
        /\ UNCHANGED counts
  /\ UNCHANGED <<flight, ran, begun>>

(* Mutant of PollResults: nothing times out. *)
PollWithoutTimeout == IF flight = None THEN {"idle"}
                      ELSE {IF exit # None THEN exit ELSE "running"}

(* What polling the process in flight can say: an answer that is there wins   *)
(* over the timeout, and a poll that fails ends in the kill of the group.     *)
PollResults == IF flight = None THEN {"idle"}
               ELSE {"failed"} \union (IF exit # None THEN {exit}
                                       ELSE IF ran >= Timeout THEN {"timed_out"}
                                       ELSE {"running"})

Killed(result) == IF result \in {"timed_out", "failed"} THEN {begun} ELSE {}

(* Mutant of Record: what was killed or never spawned is not counted. *)
RecordExits(result, fails) == [c \in Counted |-> counts[c] + (IF result = c THEN 1 ELSE 0)]

(* Each outcome is counted in its bucket: the polled one, and the hand-offs   *)
(* that could not be spawned.                                                 *)
Record(result, fails) ==
  [c \in Counted |-> counts[c] + (IF result = c THEN 1 ELSE 0)
     + (IF c = "non_zero" THEN fails + (IF result = "failed" THEN 1 ELSE 0) ELSE 0)]

(* Poll the one in flight; when nothing runs and the loop still dequeues,     *)
(* spawn the first queued hand-off that can be spawned.                       *)
Pump(dequeue) ==
  \E result \in PollResults, fails \in 0 .. Len(pending) :
    LET free == result # "running"
        left == SubSeq(pending, fails + 1, Len(pending))
    IN /\ ~(dequeue /\ free) => fails = 0
       /\ counts' = Record(result, fails)
       /\ IF dequeue /\ free /\ left # <<>>
          THEN /\ flight' = Head(left) /\ pending' = Tail(left)
               /\ begun' = begun + fails + 1
               /\ alive' = (alive \ Killed(result)) \union {begun'}
          ELSE /\ flight' = (IF free THEN None ELSE flight) /\ pending' = left
               /\ begun' = begun + fails
               /\ alive' = alive \ Killed(result)
       /\ exit' = (IF free THEN None ELSE exit) /\ ran' = (IF free THEN 0 ELSE ran)
       /\ UNCHANGED <<accepted, calls>>

(* Kill the one in flight; what is queued stays queued. *)
Abort == /\ counts' = Record(IF flight = None THEN "idle" ELSE "failed", 0)
         /\ alive' = IF flight = None THEN alive ELSE alive \ {begun}
         /\ flight' = None /\ exit' = None /\ ran' = 0
         /\ UNCHANGED <<pending, history>>

-----------------------------------------------------------------------------
(* The loop.                                                                  *)

(* The session check, which refreshes the lease, and the fetch, which may     *)
(* find the wave complete: then the loop winds down and hands nothing off.    *)
Check == /\ \/ current /\ \E next \in {"poll", "drain"} : Goto("check", next)
            \/ ~current /\ Goto("check", "abort")
         /\ age' = IF current THEN 0 ELSE age
         /\ UNCHANGED <<queue, summary, processes, current, rival, history>>

(* A question, a merge candidate or an exhausted branch met in this tick. *)
HandOff(h) == /\ at = "poll" /\ Enqueue(h)
              /\ UNCHANGED <<at, summary, processes, session>>

EndPoll == /\ Goto("poll", "pump")
           /\ UNCHANGED <<queue, summary, processes, session, history>>

(* The pump of a tick, and the heartbeat, which may end the loop after it. *)
PumpTick == /\ \E next \in {"sleep", "drain"} : Goto("pump", next)
            /\ Pump(TRUE)
            /\ UNCHANGED <<summary, merged, session>>

(* One poll interval. *)
Tick == /\ ran' = IF flight = None \/ ran > Timeout THEN ran ELSE ran + 1
        /\ age' = IF age > Lease THEN age ELSE age + 1
        /\ UNCHANGED <<pending, flight, counts, summary, processes, current, rival, history>>

Sleep == Goto("sleep", "check") /\ Tick

(* Mutant of Drain: a running one-shot is not waited for. *)
DrainAtOnce == /\ at = "drain" /\ Pump(FALSE) /\ at' = "report"
               /\ UNCHANGED <<summary, merged, session>>

(* No one-shot starts any more, and a running one is waited for. *)
Drain == /\ at = "drain" /\ Pump(FALSE)
         /\ at' = IF flight' = None THEN "report" ELSE "wait"
         /\ UNCHANGED <<summary, merged, session>>

Wait == Goto("wait", "drain") /\ Tick

(* The session is gone: its one-shot is killed. *)
AbortTorn == /\ Goto("abort", "report") /\ Abort
             /\ UNCHANGED <<summary, merged, session>>

Report == /\ Goto("report", "merges")
          /\ report' = [counts |-> counts, still_queued |-> Len(pending)]
          /\ UNCHANGED <<queue, unmerged, processes, session, history>>

(* The merge state of every branch is asked of git. *)
JudgeMerges == /\ Goto("merges", "over")
               /\ unmerged' = Agents \ merged
               /\ UNCHANGED <<queue, report, processes, session, history>>

-----------------------------------------------------------------------------
Loop == \/ Check \/ (\E h \in Calls : HandOff(h)) \/ EndPoll \/ PumpTick \/ Sleep
        \/ Drain \/ Wait \/ AbortTorn \/ Report \/ JudgeMerges
World == \/ \E a \in Agents : OneShotMerges(a)
         \/ \E n \in alive : OneShotExits(n)
         \/ SessionEnds \/ TakeOver

Next == Loop \/ World
Spec == Init /\ [][Next]_vars

(* The loop's thread runs.  Nothing makes a one-shot exit, and nothing makes  *)
(* the wave complete.                                                         *)
FairSpec == Spec /\ WF_vars(Loop)

-----------------------------------------------------------------------------
(* The state has its shape; what is in flight is polled in time: at every     *)
(* step it has run for at most its timeout.                                   *)
TypeOK == /\ at \in Steps
          /\ pending \in Seq(Calls) /\ accepted \in Seq(Calls)
          /\ flight \in Calls \union {None} /\ ran \in 0 .. Timeout
          /\ counts \in [Counted -> 0 .. MaxCalls]
          /\ report \in [counts : [Counted -> 0 .. MaxCalls], still_queued : 0 .. MaxCalls]
                        \union {None}
          /\ alive \subseteq 1 .. MaxCalls /\ exit \in {"completed", "non_zero", None}
          /\ merged \subseteq Agents /\ unmerged \subseteq Agents
          /\ current \in BOOLEAN /\ rival \in BOOLEAN /\ age \in 0 .. Lease + 1
          /\ begun \in 0 .. MaxCalls /\ calls \in 0 .. MaxCalls

Running == IF flight = None THEN {} ELSE {begun}
Settled(c) == c["completed"] + c["non_zero"] + c["timed_out"]

(* Hand-offs start in the order they were accepted, and every one taken off   *)
(* the queue is counted exactly once, or runs, whichever of them failed to    *)
(* spawn, timed out as their answer came or were killed; so the exit summary  *)
(* accounts for every one that was accepted (escalation.rs pump, abort,       *)
(* record, report).                                                           *)
EveryHandOffCounted ==
  /\ pending = SubSeq(accepted, begun + 1, Len(accepted))
  /\ flight # None => flight = accepted[begun]
  /\ Settled(counts) + Cardinality(Running) = begun
  /\ report # None => Settled(report.counts) + report.still_queued = Len(accepted)

(* The only one-shot that runs is the one the queue knows of; none runs when  *)
(* the loop reports, so what the summary says of the branches still holds     *)
(* when the loop is gone; and beside another loop it runs at most while its   *)
(* own waits for it on the way out (escalation.rs pump, abort; drive.rs       *)
(* drain_handoff, and the hand-off wind-down before the merge truth).         *)
NoOneShotUnobserved ==
  /\ alive \subseteq Running
  /\ at \in {"report", "merges", "over"} => alive = {}
  /\ Over => unmerged = Agents \ merged
  /\ rival /\ alive # {} => at \in {"drain", "wait"}

(* An accepted hand-off comes to an end, or the loop does, and a loop that    *)
(* stops ends, even when no one-shot ever exits: it is held up no longer than *)
(* the timeouts (escalation.rs pump, command_runner.rs poll, drive.rs         *)
(* drain_handoff).                                                            *)
EveryHandOffSettles ==
  /\ \A n \in 1 .. MaxCalls : Len(accepted) >= n ~> (Settled(counts) >= n \/ Over)
  /\ at \in {"drain", "wait", "abort"} ~> Over
=============================================================================
