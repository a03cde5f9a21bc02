--------------------------- MODULE BrokerDelivery ---------------------------
(***************************************************************************)
(* What one publish does: roster row, log entry, inboxes, wave progress    *)
(* and the verify-now nudge a commit triggers, with several threads inside *)
(* publish_message at once.  Source: src/src/broker/delivery.rs, mod.rs.   *)
(*                                                                         *)
(* A message is a record [kind, from, to, label, phase].  from is          *)
(* sender_id(), to the agent a directed message names, label the status    *)
(* label of a status or an artifact and the text of a question.  Requests  *)
(* the HTTP handler refuses change no state: Msgs are the accepted ones.   *)
(***************************************************************************)
EXTENDS Naturals, Sequences, FiniteSets

CONSTANTS Agents,       \* agent ids of the coding agents
          Supervisor,   \* the id "supervisor"
          Labels,       \* status labels and texts of questions
          Phases,       \* phases a status can be in
          Msgs,         \* accepted messages, none of them a nudge
          Threads,      \* publishes that can run at once
          Pollers,      \* agents that poll their inbox
          MaxSeq,       \* bound: client publishes start below this number
          VerifyOnCommit, \* verify_on_commit_nudge
          TTLOn         \* republish_working_ttl is not zero

Names == Agents \union {Supervisor}
Kinds == {"status", "artifact", "blocked", "verified", "feedback", "answer",
          "question", "intent", "learning", "advanced", "nudge"}
Message == [kind : Kinds, from : Names, to : Names,
            label : Labels, phase : Phases]

ASSUME BrokerDeliveryAssumption ==
    /\ MaxSeq \in Nat /\ VerifyOnCommit \in BOOLEAN /\ TTLOn \in BOOLEAN
    /\ Supervisor \notin Agents
    /\ Pollers \subseteq Names
    /\ Kinds \union {""} \subseteq Labels /\ "" \in Phases
    /\ \A m \in Msgs : m \in Message /\ m.kind # "nudge"

VARIABLES
    nextSeq,    \* the last sequence number handed out
    log,        \* message_log: [seq, msg] in append order
    rows,       \* rows[a]: AgentRecord of a (known = in the agents map)
    queues,     \* queues[a]: inbox of every registered a
    pc, job,    \* per thread: place in publish_message and what it publishes
    progress,   \* numbers of the messages that moved last_progress_unix
    cursor,     \* cursor[a]: poller a's `since`
    born        \* ghost: length of the log when a's inbox was created

vars == <<nextSeq, log, rows, queues, pc, job, progress, cursor, born>>

NoStatus == <<>>    \* last_status_and_phase is None: differs from every status
NoRow == [known |-> FALSE, status |-> "", fresh |-> FALSE, last |-> NoStatus]
NoJob == [seq |-> 0, msg |-> [kind |-> "nudge", from |-> Supervisor, to |-> Supervisor,
                              label |-> "", phase |-> ""], moved |-> FALSE]

\* Mutant of Upserts: feedback mints a row for its payload's `from`.
UpsertsFeedback == {"status", "artifact", "blocked", "intent", "feedback"}

Upserts == {"status", "artifact", "blocked", "intent"}
Broadcasts == {"artifact", "verified", "intent", "advanced"}
Directed == {"blocked", "feedback", "answer"}
Terminal == {"done", "verified", "blocked", "committed"}
StallPhases == {"stuck-on-prompt", "no-progress"}

\* BrokerMessage::status_label of a roster message.
Label(m) == IF m.kind \in {"status", "artifact"} THEN m.label ELSE m.kind

IsCommit(m) == m.kind = "artifact" /\ m.label = "committed"

\* message_is_progress, against the row as it is before the update.
IsProgress(m, row) ==
    \/ m.kind \in {"artifact", "verified", "feedback", "advanced"}
    \/ /\ m.kind = "status"
       /\ m.phase \notin StallPhases
       /\ ~(m.from = Supervisor /\ m.phase = "escalation")
       /\ row.last # <<m.label, m.phase>>

\* committed is left for working while the commit is fresh; every other
\* terminal label only for a terminal one.
NewStatus(m, row) ==
    IF \/ row.status = "committed" /\ Label(m) = "working" /\ TTLOn /\ row.fresh
       \/ row.status \notin Terminal
       \/ Label(m) \in Terminal
    THEN Label(m) ELSE row.status

\* Mutant of UpdatedRow: any roster message overwrites what the next status is
\* compared with.
UpdatedRowAnyLast(m, row) ==
    [known |-> TRUE, status |-> NewStatus(m, row), fresh |-> row.fresh \/ IsCommit(m),
     last |-> <<Label(m), m.phase>>]

UpdatedRow(m, row) ==
    [known  |-> TRUE,
     status |-> NewStatus(m, row),
     fresh  |-> row.fresh \/ IsCommit(m),
     last   |-> IF m.kind = "status" THEN <<m.label, m.phase>> ELSE row.last]

\* update_agent_record: only a sender that names itself gets a row.
UpdatedRows(m) ==
    IF m.kind \in Upserts THEN [rows EXCEPT ![m.from] = UpdatedRow(m, @)] ELSE rows

\* The inboxes a message creates: its roster sender's, and the target's of a
\* question, a nudge or a learning.
Created(m) == {a \in Names : \/ m.kind \in Upserts /\ a = m.from
                             \/ m.kind \in {"question", "nudge"} /\ a = Supervisor
                             \/ m.kind = "learning" /\ a = m.to} \ DOMAIN queues

WithInboxes(S) == [a \in DOMAIN queues \union S |->
                    IF a \in DOMAIN queues THEN queues[a] ELSE <<>>]

SameQuestion(m, e) == /\ e.msg.kind = "question"
                      /\ e.msg.from = m.from /\ e.msg.label = m.label

\* Mutant of Resident: the same text of another agent passes for it.
ResidentText(m, inbox) ==
    \E i \in DOMAIN inbox : inbox[i].msg.kind = "question" /\ inbox[i].msg.label = m.label

\* An identical question is still in the supervisor's inbox.
Resident(m, inbox) == \E i \in DOMAIN inbox : SameQuestion(m, inbox[i])

\* Mutants of Targets: broadcasts reach only agents that have a row; a nudge is
\* merged into one the branch already has.
TargetsRosterOnly(m, boxes) ==
    {a \in DOMAIN boxes :
        \/ m.kind \in Broadcasts /\ a # m.from /\ rows[a].known
        \/ m.kind \in Directed \union {"learning"} /\ a = m.to
        \/ m.kind = "nudge" /\ a = Supervisor
        \/ m.kind = "question" /\ a = Supervisor /\ ~Resident(m, boxes[a])}
TargetsMergeNudges(m, boxes) ==
    {a \in DOMAIN boxes :
        \/ m.kind \in Broadcasts /\ a # m.from
        \/ m.kind \in Directed \union {"learning"} /\ a = m.to
        \/ /\ m.kind = "nudge" /\ a = Supervisor
           /\ \A i \in DOMAIN boxes[a] :
                ~(boxes[a][i].msg.kind = "nudge" /\ boxes[a][i].msg.from = m.from)
        \/ m.kind = "question" /\ a = Supervisor /\ ~Resident(m, boxes[a])}

\* route_message: the inboxes, among those that exist, m is pushed to.
Targets(m, boxes) ==
    {a \in DOMAIN boxes :
        \/ m.kind \in Broadcasts /\ a # m.from
        \/ m.kind \in Directed \union {"learning"} /\ a = m.to
        \/ m.kind = "nudge" /\ a = Supervisor
        \/ m.kind = "question" /\ a = Supervisor /\ ~Resident(m, boxes[a])}

Routed(m, entry, boxes) ==
    [a \in DOMAIN boxes |-> IF a \in Targets(m, boxes) THEN Append(boxes[a], entry)
                                                       ELSE boxes[a]]

Init == /\ nextSeq = 0 /\ log = <<>> /\ progress = {}
        /\ rows = [a \in Names |-> NoRow]
        /\ queues = [a \in {} |-> <<>>]
        /\ pc = [t \in Threads |-> "idle"]
        /\ job = [t \in Threads |-> NoJob]
        /\ cursor = [a \in Pollers |-> 0]
        /\ born = [a \in Names |-> 0]

(***************************************************************************)
(* publish_message                                                         *)
(***************************************************************************)
\* The number is taken before the write lock.
Begin(t, m) ==
    /\ pc[t] = "idle" /\ nextSeq < MaxSeq
    /\ nextSeq' = nextSeq + 1
    /\ pc' = [pc EXCEPT ![t] = "queued"]
    /\ job' = [job EXCEPT ![t] = [seq |-> nextSeq + 1, msg |-> m, moved |-> FALSE]]
    /\ UNCHANGED <<log, rows, queues, progress, cursor, born>>

\* Under the write lock: classify, update the row, append, route.
Commit(t) ==
    LET m == job[t].msg
        entry == [seq |-> job[t].seq, msg |-> m]
    IN /\ pc[t] = "queued"
       /\ pc' = [pc EXCEPT ![t] = "routed"]
       /\ job' = [job EXCEPT ![t].moved = IsProgress(m, rows[m.from])]
       /\ rows' = UpdatedRows(m)
       /\ log' = Append(log, entry)
       /\ queues' = Routed(m, entry, WithInboxes(Created(m)))
       /\ born' = [a \in Names |-> IF a \in Created(m) THEN Len(log) ELSE born[a]]
       /\ UNCHANGED <<nextSeq, progress, cursor>>

\* After the lock: mark progress, and go on to the nudge a commit triggers.
After(t) ==
    /\ pc[t] = "routed"
    /\ progress' = IF job[t].moved THEN progress \union {job[t].seq} ELSE progress
    /\ pc' = [pc EXCEPT ![t] = IF VerifyOnCommit /\ IsCommit(job[t].msg)
                               THEN "nudging" ELSE "idle"]
    /\ UNCHANGED <<nextSeq, log, rows, queues, job, cursor, born>>

\* Mutant of Nudge: the nudge's number is not taken from the counter.
NudgeUncounted(t) ==
    /\ pc[t] = "nudging"
    /\ pc' = [pc EXCEPT ![t] = "queued"]
    /\ job' = [job EXCEPT ![t] =
                 [seq |-> nextSeq + 1, moved |-> FALSE,
                  msg |-> [kind |-> "nudge", from |-> job[t].msg.from, to |-> Supervisor,
                           label |-> "", phase |-> ""]]]
    /\ UNCHANGED <<nextSeq, log, rows, queues, progress, cursor, born>>

\* The recursive publish of VerifyNow, in the same thread.
Nudge(t) ==
    /\ pc[t] = "nudging"
    /\ nextSeq' = nextSeq + 1
    /\ pc' = [pc EXCEPT ![t] = "queued"]
    /\ job' = [job EXCEPT ![t] =
                 [seq |-> nextSeq + 1, moved |-> FALSE,
                  msg |-> [kind |-> "nudge", from |-> job[t].msg.from, to |-> Supervisor,
                           label |-> "", phase |-> ""]]]
    /\ UNCHANGED <<log, rows, queues, progress, cursor, born>>

(***************************************************************************)
(* The rest of the broker                                                  *)
(***************************************************************************)
\* register_watch_target: a watched agent gets its inbox before it publishes.
Register(a) ==
    /\ a \notin DOMAIN queues
    /\ queues' = WithInboxes({a})
    /\ born' = [born EXCEPT ![a] = Len(log)]
    /\ UNCHANGED <<nextSeq, log, rows, pc, job, progress, cursor>>

\* poll_messages leaves the inbox as it is; the client moves its cursor to
\* the highest number it was handed.
Poll(a) ==
    /\ a \in DOMAIN queues
    /\ \E i \in DOMAIN queues[a] :
         /\ queues[a][i].seq > cursor[a]
         /\ \A j \in DOMAIN queues[a] : queues[a][j].seq <= queues[a][i].seq
         /\ cursor' = [cursor EXCEPT ![a] = queues[a][i].seq]
    /\ UNCHANGED <<nextSeq, log, rows, queues, pc, job, progress, born>>

\* The re-entry TTL of a's last commit runs out.
Settle(a) ==
    /\ rows[a].fresh
    /\ rows' = [rows EXCEPT ![a].fresh = FALSE]
    /\ UNCHANGED <<nextSeq, log, queues, pc, job, progress, cursor, born>>

Publish(t) == Commit(t) \/ After(t) \/ Nudge(t)

Next == \/ \E t \in Threads, m \in Msgs : Begin(t, m)
        \/ \E t \in Threads : Publish(t)
        \/ \E a \in Agents : Register(a) \/ Settle(a)
        \/ \E a \in Pollers : Poll(a)

Spec == Init /\ [][Next]_vars

(***************************************************************************)
(* Properties                                                              *)
(***************************************************************************)
Entry == [seq : 1..nextSeq, msg : Message]

\* Every variable has its type; no number is used that was not handed out.
TypeOK ==
    /\ nextSeq \in Nat /\ log \in Seq(Entry)
    /\ rows \in [Names -> [known : BOOLEAN, status : Labels, fresh : BOOLEAN,
                           last : (Labels \X Phases) \union {NoStatus}]]
    /\ DOMAIN queues \subseteq Names
    /\ \A a \in DOMAIN queues : queues[a] \in Seq(Entry)
    /\ pc \in [Threads -> {"idle", "queued", "routed", "nudging"}]
    /\ job \in [Threads -> [seq : 0..nextSeq, msg : Message, moved : BOOLEAN]]
    /\ progress \subseteq 1..nextSeq
    /\ cursor \in [Pollers -> 0..nextSeq] /\ born \in [Names -> Nat]

\* The place of the entry with number s in the log.
PlaceOf(s) == CHOOSE i \in DOMAIN log : log[i].seq = s

\* What a's inbox must hold of the log: all that was broadcast by others or
\* directed to a after the inbox was created.
Owed(a, i) ==
    LET m == log[i].msg IN
    /\ i > born[a]
    /\ \/ m.kind \in {"artifact", "verified", "intent", "advanced"} /\ m.from # a
       \/ m.kind \in {"blocked", "feedback", "answer", "learning"} /\ m.to = a
       \/ m.kind = "nudge" /\ a = Supervisor

Asked(a, i) == a = Supervisor /\ log[i].msg.kind = "question"

\* The supervisor has read past e.
Drained(e) == Supervisor \in Pollers /\ e.seq <= cursor[Supervisor]

\* An inbox holds all that is owed to its agent and nothing that is not for it,
\* in the order of the log: a watched agent that never published gets the
\* broadcasts too.
InboxFollowsLog ==
    \A a \in DOMAIN queues :
        /\ \A i \in DOMAIN log : Owed(a, i) => \E k \in DOMAIN queues[a] : queues[a][k] = log[i]
        /\ \A k \in DOMAIN queues[a] :
              \E i \in DOMAIN log : (Owed(a, i) \/ Asked(a, i)) /\ queues[a][k] = log[i]
        /\ \A k, l \in DOMAIN queues[a] :
              k < l => PlaceOf(queues[a][k].seq) < PlaceOf(queues[a][l].seq)

\* No question is lost: the supervisor's inbox has it once it is logged, and
\* has it twice only if the supervisor has read the earlier copy.
QuestionsAreAsked ==
    /\ \A i \in DOMAIN log : Asked(Supervisor, i) =>
          /\ Supervisor \in DOMAIN queues
          /\ \E k \in DOMAIN queues[Supervisor] :
                /\ SameQuestion(log[i].msg, queues[Supervisor][k])
                /\ PlaceOf(queues[Supervisor][k].seq) <= i
    /\ Supervisor \in DOMAIN queues =>
          \A k, l \in DOMAIN queues[Supervisor] :
              /\ k < l /\ queues[Supervisor][l].msg.kind = "question"
              /\ SameQuestion(queues[Supervisor][l].msg, queues[Supervisor][k])
              => Drained(queues[Supervisor][k])

\* What each agent finds in its inbox is its part of the log, whatever
\* overlapped (route_message).  Whether a question asked again after it was
\* read is heard is left open: the code and its comment disagree about it.
InboxIsTheLog == InboxFollowsLog /\ QuestionsAreAsked

\* Statuses of a up to place i, and whether the status at i says something new.
StatusesBefore(a, i) == {j \in 1..(i - 1) : log[j].msg.kind = "status" /\ log[j].msg.from = a}
SaysSomethingNew(i) ==
    LET m == log[i].msg
        earlier == StatusesBefore(m.from, i)
    IN /\ m.phase \notin StallPhases
       /\ ~(m.from = Supervisor /\ m.phase = "escalation")
       /\ \A j \in earlier : (\A k \in earlier : k <= j)
                             => <<log[j].msg.label, log[j].msg.phase>> # <<m.label, m.phase>>

\* A status counts as wave progress exactly when it differs from the last
\* status of its agent in the log and is no stall report, whatever was
\* published in between and in which thread (message_is_progress).
ProgressIsChange ==
    \A i \in DOMAIN log :
        LET counted == \/ log[i].seq \in progress
                       \/ \E t \in Threads : /\ pc[t] = "routed" /\ job[t].moved
                                             /\ job[t].seq = log[i].seq
        IN log[i].msg.kind = "status" => (counted <=> SaysSomethingNew(i))

\* The roster is read off the log: an agent has a row iff it published a
\* roster message itself (no phantom rows), and the row shows its newest
\* label, or, held by a terminal state, its newest terminal one.
RowsFollowLog ==
    \A a \in Names :
        LET own == {i \in DOMAIN log : /\ log[i].msg.from = a
                                        /\ log[i].msg.kind \in {"status", "artifact",
                                                               "blocked", "intent"}}
            newest(S) == {i \in S : \A j \in S : j <= i}
            final == {i \in own : Label(log[i].msg) \in Terminal}
        IN /\ rows[a].known <=> own # {}
           /\ own # {} => \/ \E i \in newest(own) : rows[a].status = Label(log[i].msg)
                          \/ \E i \in newest(final) : rows[a].status = Label(log[i].msg)
           /\ newest(own) \subseteq final =>
                \A i \in newest(own) : rows[a].status = Label(log[i].msg)

\* What the drive loop is told of an agent, its row and whether the row last
\* moved, is what the log says, whatever overlapped.
RosterFollowsLog == RowsFollowLog /\ ProgressIsChange

Commits(b) == {i \in DOMAIN log : IsCommit(log[i].msg) /\ log[i].msg.from = b}
Nudges(b) == IF Supervisor \notin DOMAIN queues THEN {}
             ELSE {i \in DOMAIN queues[Supervisor] :
                     /\ queues[Supervisor][i].msg.kind = "nudge"
                     /\ queues[Supervisor][i].msg.from = b}
\* The threads that still owe a nudge for a commit of b.
Owing(b) == {t \in Threads :
               /\ job[t].msg.from = b
               /\ \/ pc[t] \in {"routed", "nudging"} /\ IsCommit(job[t].msg)
                  \/ pc[t] = "queued" /\ job[t].msg.kind = "nudge"}

\* Every commit is verified on its own event: the supervisor's inbox holds one
\* nudge for each logged commit, or the committing thread is about to put it
\* there (publish_message's recursion; nudges are never merged).
NudgePerCommit ==
    VerifyOnCommit => \A b \in Names : Cardinality(Commits(b))
                                       = Cardinality(Nudges(b)) + Cardinality(Owing(b))
=============================================================================
