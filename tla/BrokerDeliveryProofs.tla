------------------------ MODULE BrokerDeliveryProofs ------------------------
(***************************************************************************)
(* Theorems about BrokerDelivery, for every set of agents, accepted        *)
(* messages, publishing threads and pollers.                               *)
(***************************************************************************)
EXTENDS BrokerDelivery, FiniteSetTheorems, TLAPS

\* A number is taken once: it is in the log once, or with one thread that
\* has yet to append it, and nothing counts as progress before it is logged.
SeqInv ==
    /\ \A i, j \in DOMAIN log : log[i].seq = log[j].seq => i = j
    /\ \A t \in Threads : pc[t] \in {"queued", "routed"} => job[t].seq # 0
    /\ \A t \in Threads : pc[t] = "queued" =>
          /\ job[t].seq \notin progress
          /\ \A i \in DOMAIN log : log[i].seq # job[t].seq
    /\ \A t, u \in Threads :
          /\ pc[t] \in {"queued", "routed"} /\ pc[u] \in {"queued", "routed"}
          /\ job[t].seq = job[u].seq
          => t = u

\* No inbox is younger than the log, and every question is still in the inbox
\* of the supervisor, which is older than the question.
QuestionInv ==
    /\ \A a \in Names : born[a] <= Len(log)
    /\ \A i \in DOMAIN log : log[i].msg.kind = "question" =>
          /\ Supervisor \in DOMAIN queues
          /\ born[Supervisor] < i
          /\ \E k \in DOMAIN queues[Supervisor] :
                SameQuestion(log[i].msg, queues[Supervisor][k])

\* What an inbox is given: what is owed to its agent, and the first copy of a
\* question, which stays resident (nothing removes it).
Due(a, i) ==
    \/ Owed(a, i)
    \/ /\ Asked(a, i) /\ i > born[a]
       /\ \A j \in 1..(i - 1) : ~SameQuestion(log[i].msg, log[j])

\* What is in an inbox is due, what is due is in it, in the order of the log.
InboxInv ==
    \A a \in DOMAIN queues :
        /\ \A k \in DOMAIN queues[a] :
              \E i \in DOMAIN log : Due(a, i) /\ queues[a][k] = log[i]
        /\ \A i \in DOMAIN log :
              Due(a, i) => \E k \in DOMAIN queues[a] : queues[a][k] = log[i]
        /\ \A k, l \in DOMAIN queues[a], i, j \in DOMAIN log :
              k < l /\ queues[a][k] = log[i] /\ queues[a][l] = log[j] => i < j

\* A thread that goes on to a nudge has committed; the threads that owe one
\* are finitely many.
OweInv ==
    /\ \A t \in Threads : pc[t] = "nudging" => IsCommit(job[t].msg)
    /\ \A b \in Names : IsFiniteSet(Owing(b))

\* The places in the log of what a published that makes or moves its row, the
\* final ones of these, and the statuses.
Own(a) == {i \in DOMAIN log : log[i].msg.from = a /\ log[i].msg.kind \in Upserts}
Final(a) == {i \in Own(a) : Label(log[i].msg) \in Terminal}
Statuses(a) == {i \in DOMAIN log : log[i].msg.kind = "status" /\ log[i].msg.from = a}
Newest(i, S) == i \in S /\ \A j \in S : j <= i

\* RowsFollowLog, for one row, and the empty row of an agent without one.
RowInv ==
    \A a \in Names :
        /\ rows[a].known <=> Own(a) # {}
        /\ Own(a) = {} => rows[a].status = ""
        /\ Own(a) # {} => \E i \in Own(a) : /\ Newest(i, Own(a)) \/ Newest(i, Final(a))
                                            /\ rows[a].status = Label(log[i].msg)
        /\ \A i \in Final(a) : Newest(i, Own(a)) => rows[a].status = Label(log[i].msg)

\* What the next status of a is compared with is a's last status in the log.
LastInv ==
    \A a \in Names :
        \/ Statuses(a) = {} /\ rows[a].last = NoStatus
        \/ \E i \in Statuses(a) : /\ Newest(i, Statuses(a))
                                  /\ rows[a].last = <<log[i].msg.label, log[i].msg.phase>>

IInv == /\ TypeOK /\ SeqInv /\ QuestionInv /\ InboxInv /\ OweInv
        /\ RowInv /\ LastInv /\ ProgressIsChange /\ NudgePerCommit

-----------------------------------------------------------------------------
\* Appending to a sequence adds one place to it and moves no entry.
LEMMA AppendPlaces ==
    ASSUME NEW S, NEW l \in Seq(S), NEW x \in S
    PROVE  /\ Append(l, x) \in Seq(S)
           /\ Len(l) \in Nat /\ DOMAIN l = 1..Len(l)
           /\ Len(Append(l, x)) = Len(l) + 1
           /\ DOMAIN Append(l, x) = 1..(Len(l) + 1)
           /\ \A i \in DOMAIN l : Append(l, x)[i] = l[i]
           /\ Append(l, x)[Len(l) + 1] = x
  OBVIOUS

\* What is in the log is a message under a number that was handed out.
LEMMA LogType ==
    ASSUME TypeOK
    PROVE  /\ Len(log) \in Nat /\ DOMAIN log = 1..Len(log)
           /\ \A i \in DOMAIN log : /\ log[i].seq \in 1..nextSeq
                                    /\ log[i].msg \in Message
<1>1. \A i \in DOMAIN log : log[i] \in Entry
  BY DEF TypeOK
<1>2. Len(log) \in Nat /\ DOMAIN log = 1..Len(log)
  BY DEF TypeOK
<1> QED
  BY <1>1, <1>2 DEF Entry

LEMMA MessageType ==
    ASSUME NEW x \in Message
    PROVE  /\ x.kind \in Kinds /\ x.from \in Names /\ x.to \in Names
           /\ x.label \in Labels /\ x.phase \in Phases
  BY DEF Message

LEMMA JobType ==
    ASSUME TypeOK, NEW t \in Threads
    PROVE  /\ job[t].seq \in 0..nextSeq /\ job[t].msg \in Message
           /\ job[t].moved \in BOOLEAN /\ nextSeq \in Nat
<1>1. job[t] \in [seq : 0..nextSeq, msg : Message, moved : BOOLEAN]
  BY DEF TypeOK
<1> QED
  BY <1>1 DEF TypeOK

\* The entry thread t appends, and the inboxes it finds.
Item(t) == [seq |-> job[t].seq, msg |-> job[t].msg]
Before(t) == WithInboxes(Created(job[t].msg))

\* What Commit does to the log.
LEMMA CommitLog ==
    ASSUME TypeOK, SeqInv, NEW t \in Threads, Commit(t)
    PROVE  /\ job[t].seq \in 1..nextSeq /\ job[t].msg \in Message
           /\ Item(t) \in Entry /\ Item(t).seq = job[t].seq /\ Item(t).msg = job[t].msg
           /\ Len(log) \in Nat /\ DOMAIN log = 1..Len(log)
           /\ log' \in Seq(Entry)
           /\ Len(log') = Len(log) + 1
           /\ DOMAIN log' = 1..(Len(log) + 1)
           /\ \A i \in DOMAIN log : log'[i] = log[i]
           /\ log'[Len(log) + 1] = Item(t)
<1>1. job[t].seq \in 1..nextSeq /\ job[t].msg \in Message
  BY JobType DEF SeqInv, Commit
<1>2. Item(t) \in Entry /\ Item(t).seq = job[t].seq /\ Item(t).msg = job[t].msg
  BY <1>1 DEF Item, Entry
<1>3. log' = Append(log, Item(t))
  BY DEF Commit, Item
<1>4. log \in Seq(Entry)
  BY DEF TypeOK
<1> QED
  BY <1>1, <1>2, <1>3, <1>4, AppendPlaces

\* What Commit does to the inboxes.
LEMMA CommitInboxes ==
    ASSUME TypeOK, SeqInv, NEW t \in Threads, Commit(t)
    PROVE  /\ DOMAIN Before(t) = DOMAIN queues \union Created(job[t].msg)
           /\ DOMAIN queues' = DOMAIN Before(t)
           /\ DOMAIN queues' \subseteq Names
           /\ \A a \in DOMAIN queues' :
                /\ Before(t)[a] \in Seq(Entry)
                /\ a \in DOMAIN queues => /\ Before(t)[a] = queues[a]
                                          /\ born'[a] = born[a]
                /\ a \notin DOMAIN queues => /\ Before(t)[a] = <<>>
                                             /\ born'[a] = Len(log)
                /\ a \in Targets(job[t].msg, Before(t)) =>
                      queues'[a] = Append(Before(t)[a], Item(t))
                /\ a \notin Targets(job[t].msg, Before(t)) => queues'[a] = Before(t)[a]
<1>1. DOMAIN Before(t) = DOMAIN queues \union Created(job[t].msg)
  BY DEF Before, WithInboxes
<1>2. queues' = Routed(job[t].msg, Item(t), Before(t))
  BY DEF Commit, Item, Before
<1>3. DOMAIN queues' = DOMAIN Before(t)
  BY <1>2 DEF Routed
<1>4. DOMAIN queues' \subseteq Names
  BY <1>1, <1>3 DEF Created, TypeOK
<1>5. ASSUME NEW a \in DOMAIN queues'
      PROVE  /\ Before(t)[a] \in Seq(Entry)
             /\ a \in DOMAIN queues => Before(t)[a] = queues[a]
             /\ a \notin DOMAIN queues => Before(t)[a] = <<>>
  BY <1>1, <1>3 DEF Before, WithInboxes, TypeOK
<1>6. ASSUME NEW a \in DOMAIN queues'
      PROVE  /\ a \in DOMAIN queues => born'[a] = born[a]
             /\ a \notin DOMAIN queues => born'[a] = Len(log)
  BY <1>1, <1>3, <1>4 DEF Commit, Created
<1>7. ASSUME NEW a \in DOMAIN queues'
      PROVE  /\ a \in Targets(job[t].msg, Before(t)) =>
                    queues'[a] = Append(Before(t)[a], Item(t))
             /\ a \notin Targets(job[t].msg, Before(t)) => queues'[a] = Before(t)[a]
  BY <1>2, <1>3 DEF Routed
<1> QED
  BY <1>1, <1>3, <1>4, <1>5, <1>6, <1>7

-----------------------------------------------------------------------------
\* TypeOK.

\* A row stays a row whatever is published.
RowType == [known : BOOLEAN, status : Labels, fresh : BOOLEAN,
            last : (Labels \X Phases) \union {NoStatus}]
Handed(n) == [seq : 0..n, msg : Message, moved : BOOLEAN]

LEMMA LabelType == ASSUME NEW x \in Message PROVE Label(x) \in Labels
  BY MessageType, BrokerDeliveryAssumption DEF Label

LEMMA UpdatedRowType ==
    ASSUME NEW x \in Message, NEW row \in RowType
    PROVE  UpdatedRow(x, row) \in RowType
<1>1. NewStatus(x, row) \in Labels
  BY LabelType DEF NewStatus, RowType
<1>2. row.fresh \/ IsCommit(x) \in BOOLEAN
  BY DEF IsCommit
<1>3. (IF x.kind = "status" THEN <<x.label, x.phase>> ELSE row.last)
        \in (Labels \X Phases) \union {NoStatus}
  BY MessageType DEF RowType
<1> QED
  BY <1>1, <1>2, <1>3 DEF UpdatedRow, RowType

LEMMA HandedType ==
    ASSUME NEW n \in Nat, NEW k \in 0..n, NEW x \in Message, NEW b \in BOOLEAN
    PROVE  [seq |-> k, msg |-> x, moved |-> b] \in Handed(n)
  BY DEF Handed

LEMMA InitType == Init => TypeOK
<1> SUFFICES ASSUME Init PROVE TypeOK
  OBVIOUS
<1>1. NoRow \in RowType
  BY BrokerDeliveryAssumption DEF NoRow, RowType
<1>2. NoJob \in [seq : 0..nextSeq, msg : Message, moved : BOOLEAN]
  <2>1. NoJob.msg \in Message
    BY BrokerDeliveryAssumption DEF NoJob, Message, Kinds, Names
  <2>2. PICK x \in Message : NoJob = [seq |-> 0, msg |-> x, moved |-> FALSE]
    BY <2>1 DEF NoJob
  <2>3. 0 \in 0..nextSeq /\ nextSeq \in Nat
    BY DEF Init
  <2>4. NoJob \in Handed(nextSeq)
    BY <2>2, <2>3, HandedType
  <2> QED
    BY <2>4 DEF Handed
<1>3. log \in Seq(Entry)
  BY DEF Init
<1>4. rows \in [Names -> RowType]
  BY <1>1 DEF Init
<1>5. job \in [Threads -> [seq : 0..nextSeq, msg : Message, moved : BOOLEAN]]
  BY <1>2 DEF Init
<1>6. DOMAIN queues = {}
  BY DEF Init
<1>7. /\ nextSeq \in Nat /\ pc \in [Threads -> {"idle", "queued", "routed", "nudging"}]
      /\ progress \subseteq 1..nextSeq /\ cursor \in [Pollers -> 0..nextSeq]
      /\ born \in [Names -> Nat]
  BY DEF Init
<1> QED
  BY <1>3, <1>4, <1>5, <1>6, <1>7 DEF TypeOK, RowType

LEMMA SeqMonotonic ==
    ASSUME NEW S, NEW T, S \subseteq T, NEW s \in Seq(S)
    PROVE  s \in Seq(T)
<1>1. Len(s) \in Nat /\ s = [i \in 1..Len(s) |-> s[i]]
  OBVIOUS
<1>2. \A i \in 1..Len(s) : s[i] \in T
  OBVIOUS
<1> QED
  BY <1>1, <1>2

\* A higher counter keeps the types that depend on it.
LEMMA MoreNumbers ==
    ASSUME TypeOK, nextSeq' \in Nat, nextSeq <= nextSeq',
           UNCHANGED <<log, queues, progress, cursor>>
    PROVE  /\ log' \in Seq(Entry') /\ DOMAIN queues' \subseteq Names
           /\ \A a \in DOMAIN queues' : queues'[a] \in Seq(Entry')
           /\ progress' \subseteq 1..nextSeq' /\ cursor' \in [Pollers -> 0..nextSeq']
           /\ Handed(nextSeq) \subseteq Handed(nextSeq')
<1>1. PICK n : n = nextSeq'
  OBVIOUS
<1>2. nextSeq \in Nat /\ 1..nextSeq \subseteq 1..n /\ 0..nextSeq \subseteq 0..n
  BY <1>1 DEF TypeOK
<1>3. Entry \subseteq [seq : 1..n, msg : Message]
  BY <1>2 DEF Entry
<1>4. Entry' = [seq : 1..n, msg : Message]
  BY <1>1 DEF Entry
<1>5. ASSUME NEW s \in Seq(Entry) PROVE s \in Seq(Entry')
  BY <1>3, <1>4, SeqMonotonic
<1>6. log' \in Seq(Entry') /\ \A a \in DOMAIN queues' : queues'[a] \in Seq(Entry')
  BY <1>5 DEF TypeOK
<1>7. progress' \subseteq 1..n /\ cursor' \in [Pollers -> 0..n]
  BY <1>2 DEF TypeOK
<1>8. Handed(nextSeq) \subseteq Handed(n)
  BY <1>2 DEF Handed
<1> QED
  BY <1>1, <1>6, <1>7, <1>8 DEF TypeOK

\* What a thread is about to publish stays a job when one thread takes another.
LEMMA JobsType ==
    ASSUME TypeOK, NEW n \in Nat, nextSeq <= n, NEW t \in Threads, NEW j \in Handed(n)
    PROVE  [job EXCEPT ![t] = j] \in [Threads -> Handed(n)]
<1>1. 0..nextSeq \subseteq 0..n
  BY DEF TypeOK
<1>2. Handed(nextSeq) \subseteq Handed(n)
  BY <1>1 DEF Handed
<1>3. job \in [Threads -> Handed(nextSeq)]
  BY DEF TypeOK, Handed
<1> QED
  BY <1>2, <1>3

LEMMA BeginType ==
    ASSUME TypeOK, NEW t \in Threads, NEW m \in Msgs, Begin(t, m)
    PROVE  TypeOK'
<1>1. nextSeq' = nextSeq + 1 /\ nextSeq \in Nat
  BY DEF Begin, TypeOK
<1>2. PICK n \in Nat : n = nextSeq + 1 /\ n \in 0..n
  BY <1>1
<1>3. PICK j : j = [seq |-> n, msg |-> m, moved |-> FALSE]
  OBVIOUS
<1>4. job' \in [Threads -> Handed(nextSeq')]
  <2>1. m \in Message
    BY BrokerDeliveryAssumption
  <2>2. j \in Handed(n)
    BY <1>2, <1>3, <2>1, HandedType
  <2>3. job' = [job EXCEPT ![t] = j]
    BY <1>2, <1>3 DEF Begin
  <2>4. nextSeq <= n
    BY <1>1, <1>2
  <2> QED
    BY <1>1, <1>2, <2>2, <2>3, <2>4, JobsType
<1>5. pc' \in [Threads -> {"idle", "queued", "routed", "nudging"}]
  BY DEF Begin, TypeOK
<1> QED
  <2>1. nextSeq' \in Nat /\ nextSeq <= nextSeq'
    BY <1>1
  <2>2. UNCHANGED <<log, rows, queues, progress, cursor, born>>
    BY DEF Begin
  <2>3. /\ log' \in Seq(Entry') /\ DOMAIN queues' \subseteq Names
        /\ \A a \in DOMAIN queues' : queues'[a] \in Seq(Entry')
        /\ progress' \subseteq 1..nextSeq' /\ cursor' \in [Pollers -> 0..nextSeq']
    BY <2>1, <2>2, MoreNumbers
  <2> QED
    BY <1>4, <1>5, <2>1, <2>2, <2>3 DEF TypeOK, Handed

LEMMA NudgeType ==
    ASSUME TypeOK, NEW t \in Threads, Nudge(t)
    PROVE  TypeOK'
<1>1. nextSeq' = nextSeq + 1 /\ nextSeq \in Nat
  BY DEF Nudge, TypeOK
<1>2. PICK x : x = [kind |-> "nudge", from |-> job[t].msg.from, to |-> Supervisor,
                    label |-> "", phase |-> ""]
  OBVIOUS
<1>3. x \in Message
  BY <1>2, JobType, MessageType, BrokerDeliveryAssumption DEF Message, Kinds, Names
<1>4. PICK n \in Nat : n = nextSeq + 1 /\ n \in 0..n
  BY <1>1
<1>5. PICK j : j = [seq |-> n, moved |-> FALSE, msg |-> x]
  OBVIOUS
<1>6. job' \in [Threads -> Handed(nextSeq')]
  <2>1. j = [seq |-> n, msg |-> x, moved |-> FALSE]
    BY <1>5
  <2>2. j \in Handed(n)
    BY <1>3, <1>4, <2>1, HandedType
  <2>3. job' = [job EXCEPT ![t] = j]
    BY <1>2, <1>4, <1>5 DEF Nudge
  <2>4. nextSeq <= n
    BY <1>1, <1>4
  <2> QED
    BY <1>1, <1>4, <2>2, <2>3, <2>4, JobsType
<1>7. pc' \in [Threads -> {"idle", "queued", "routed", "nudging"}]
  BY DEF Nudge, TypeOK
<1> QED
  <2>1. nextSeq' \in Nat /\ nextSeq <= nextSeq'
    BY <1>1
  <2>2. UNCHANGED <<log, rows, queues, progress, cursor, born>>
    BY DEF Nudge
  <2>3. /\ log' \in Seq(Entry') /\ DOMAIN queues' \subseteq Names
        /\ \A a \in DOMAIN queues' : queues'[a] \in Seq(Entry')
        /\ progress' \subseteq 1..nextSeq' /\ cursor' \in [Pollers -> 0..nextSeq']
    BY <2>1, <2>2, MoreNumbers
  <2> QED
    BY <1>6, <1>7, <2>1, <2>2, <2>3 DEF TypeOK, Handed

\* The roster stays a roster.
LEMMA RowsType ==
    ASSUME TypeOK, NEW m \in Message
    PROVE  UpdatedRows(m) \in [Names -> RowType]
<1>1. rows \in [Names -> RowType]
  BY DEF TypeOK, RowType
<1>2. rows[m.from] \in RowType
  BY <1>1, MessageType
<1> QED
  BY <1>1, <1>2, UpdatedRowType DEF UpdatedRows

LEMMA CommitType ==
    ASSUME TypeOK, SeqInv, NEW t \in Threads, Commit(t)
    PROVE  TypeOK'
<1>1. nextSeq' = nextSeq /\ Entry' = Entry
  BY DEF Commit, Entry
<1>2. log' \in Seq(Entry')
  BY <1>1, CommitLog
<1>3. ASSUME NEW a \in DOMAIN queues'
      PROVE  queues'[a] \in Seq(Entry')
  <2>1. Before(t)[a] \in Seq(Entry) /\ Item(t) \in Entry
    BY CommitInboxes, CommitLog
  <2>2. queues'[a] \in {Before(t)[a], Append(Before(t)[a], Item(t))}
    BY CommitInboxes
  <2> QED
    BY <1>1, <2>1, <2>2, AppendPlaces
<1>4. rows' \in [Names -> RowType]
  BY RowsType, CommitLog DEF Commit
<1>5. job' \in [Threads -> Handed(nextSeq')]
  <2>1. PICK b \in BOOLEAN : b = IsProgress(job[t].msg, rows[job[t].msg.from])
    BY DEF IsProgress
  <2>2. job' = [job EXCEPT ![t].moved = b]
    BY <2>1 DEF Commit
  <2> QED
    BY <1>1, <2>1, <2>2 DEF TypeOK, Handed
<1>6. pc' \in [Threads -> {"idle", "queued", "routed", "nudging"}]
  BY DEF Commit, TypeOK
<1>7. born' \in [Names -> Nat]
  BY LogType DEF Commit, TypeOK
<1>8. DOMAIN queues' \subseteq Names
  BY CommitInboxes
<1>9. progress' \subseteq 1..nextSeq' /\ cursor' \in [Pollers -> 0..nextSeq']
      /\ nextSeq' \in Nat
  BY DEF Commit, TypeOK
<1> QED
  BY <1>2, <1>3, <1>4, <1>5, <1>6, <1>7, <1>8, <1>9 DEF TypeOK, RowType, Handed

LEMMA AfterType ==
    ASSUME TypeOK, SeqInv, NEW t \in Threads, After(t)
    PROVE  TypeOK'
<1>1. nextSeq' = nextSeq /\ Entry' = Entry
  BY DEF After, Entry
<1>2. progress' \subseteq 1..nextSeq
  <2>1. job[t].seq \in 1..nextSeq
    BY JobType DEF After, SeqInv
  <2>2. progress \subseteq 1..nextSeq
    BY DEF TypeOK
  <2> QED
    BY <2>1, <2>2 DEF After
<1>3. pc' \in [Threads -> {"idle", "queued", "routed", "nudging"}]
  BY DEF After, TypeOK
<1> QED
  BY <1>1, <1>2, <1>3 DEF After, TypeOK

LEMMA RegisterType ==
    ASSUME TypeOK, NEW a \in Agents, Register(a)
    PROVE  /\ TypeOK'
           /\ DOMAIN queues' = DOMAIN queues \union {a}
           /\ queues'[a] = <<>> /\ born'[a] = Len(log)
           /\ \A b \in DOMAIN queues : queues'[b] = queues[b] /\ born'[b] = born[b]
           /\ a \in Names /\ a # Supervisor
<1>1. Entry' = Entry
  BY DEF Register, Entry
<1>2. a \in Names /\ a # Supervisor
  BY BrokerDeliveryAssumption DEF Names
<1>3. DOMAIN queues' = DOMAIN queues \union {a}
  BY DEF Register, WithInboxes
<1>4. queues'[a] = <<>> /\ \A b \in DOMAIN queues : queues'[b] = queues[b]
  BY DEF Register, WithInboxes
<1>5. /\ born' \in [Names -> Nat] /\ born'[a] = Len(log)
      /\ \A b \in DOMAIN queues : born'[b] = born[b]
  BY <1>2, LogType DEF Register, TypeOK
<1>6. ASSUME NEW b \in DOMAIN queues' PROVE queues'[b] \in Seq(Entry)
  <2>1. <<>> \in Seq(Entry)
    OBVIOUS
  <2>2. \A c \in DOMAIN queues : queues[c] \in Seq(Entry)
    BY DEF TypeOK
  <2> QED
    BY <1>3, <1>4, <2>1, <2>2
<1>7. TypeOK'
  BY <1>1, <1>2, <1>3, <1>5, <1>6 DEF Register, TypeOK
<1> QED
  BY <1>2, <1>3, <1>4, <1>5, <1>7

LEMMA PollType ==
    ASSUME TypeOK, NEW a \in Pollers, Poll(a)
    PROVE  TypeOK'
<1>1. PICK i \in DOMAIN queues[a] : cursor' = [cursor EXCEPT ![a] = queues[a][i].seq]
  BY DEF Poll
<1>2. queues[a][i] \in Entry
  BY <1>1 DEF Poll, TypeOK
<1>3. queues[a][i].seq \in 0..nextSeq
  BY <1>2 DEF Entry
<1>4. cursor' \in [Pollers -> 0..nextSeq']
  BY <1>1, <1>3 DEF Poll, TypeOK
<1>5. Entry' = Entry
  BY DEF Poll, Entry
<1> QED
  BY <1>4, <1>5 DEF Poll, TypeOK

LEMMA SettleType ==
    ASSUME TypeOK, NEW a \in Agents, Settle(a)
    PROVE  TypeOK'
<1>1. rows' \in [Names -> RowType]
  BY DEF Settle, TypeOK, RowType
<1>2. Entry' = Entry
  BY DEF Settle, Entry
<1> QED
  BY <1>1, <1>2 DEF Settle, TypeOK, RowType

LEMMA TypeStep == TypeOK /\ SeqInv /\ [Next]_vars => TypeOK'
<1> SUFFICES ASSUME TypeOK, SeqInv, [Next]_vars PROVE TypeOK'
  OBVIOUS
<1>1. CASE UNCHANGED vars
  BY <1>1 DEF vars, TypeOK, Entry
<1> QED
  BY <1>1, BeginType, CommitType, AfterType, NudgeType, RegisterType, PollType,
     SettleType DEF Next, Publish

-----------------------------------------------------------------------------
\* SeqInv.

\* A thread takes the next number.
LEMMA NextNumber ==
    ASSUME TypeOK, SeqInv, NEW t \in Threads, NEW j, j.seq = nextSeq + 1,
           job' = [job EXCEPT ![t] = j], pc' = [pc EXCEPT ![t] = "queued"],
           UNCHANGED <<log, progress>>
    PROVE  SeqInv'
<1>1. nextSeq \in Nat /\ j.seq # 0 /\ j.seq \notin 1..nextSeq /\ j.seq \notin 0..nextSeq
  BY DEF TypeOK
<1>2. job'[t] = j /\ \A u \in Threads : u # t => job'[u] = job[u] /\ pc'[u] = pc[u]
  BY DEF TypeOK
<1>3. \A u \in Threads : job[u].seq # j.seq
  BY <1>1, JobType
<1>4. j.seq \notin progress /\ \A i \in DOMAIN log : log[i].seq # j.seq
  BY <1>1, LogType DEF TypeOK
<1>5. \A u \in Threads : pc'[u] \in {"queued", "routed"} => job'[u].seq # 0
  BY <1>1, <1>2 DEF SeqInv
<1>6. \A u \in Threads : pc'[u] = "queued" =>
         /\ job'[u].seq \notin progress
         /\ \A i \in DOMAIN log : log[i].seq # job'[u].seq
  BY <1>2, <1>4 DEF SeqInv
<1>7. \A u, v \in Threads :
         /\ pc'[u] \in {"queued", "routed"} /\ pc'[v] \in {"queued", "routed"}
         /\ job'[u].seq = job'[v].seq
         => u = v
  BY <1>2, <1>3 DEF SeqInv
<1> QED
  BY <1>5, <1>6, <1>7 DEF SeqInv

LEMMA CommitSeq ==
    ASSUME TypeOK, SeqInv, NEW t \in Threads, Commit(t)
    PROVE  SeqInv'
<1> DEFINE n == Len(log)
<1>1. /\ n \in Nat /\ DOMAIN log = 1..n /\ DOMAIN log' = 1..(n + 1)
      /\ \A i \in DOMAIN log : log'[i].seq = log[i].seq
      /\ log'[n + 1].seq = job[t].seq
  BY CommitLog
<1> HIDE DEF n
<1>2. /\ pc[t] = "queued" /\ pc'[t] = "routed" /\ progress' = progress
      /\ \A u \in Threads : u # t => pc'[u] = pc[u]
  BY DEF Commit, TypeOK
<1>3. \A u \in Threads : job'[u].seq = job[u].seq
  BY DEF Commit, TypeOK
<1>4. \A i \in DOMAIN log : log[i].seq # job[t].seq
  BY <1>2 DEF SeqInv
<1>5. ASSUME NEW i \in DOMAIN log', NEW j \in DOMAIN log', log'[i].seq = log'[j].seq
      PROVE  i = j
  <2>1. (i \in DOMAIN log \/ i = n + 1) /\ (j \in DOMAIN log \/ j = n + 1)
    BY <1>1
  <2> QED
    BY <1>1, <1>4, <1>5, <2>1 DEF SeqInv
<1>6. \A u \in Threads : pc'[u] \in {"queued", "routed"} => job'[u].seq # 0
  BY <1>2, <1>3 DEF SeqInv
<1>7. ASSUME NEW u \in Threads, pc'[u] = "queued"
      PROVE  /\ job'[u].seq \notin progress'
             /\ \A i \in DOMAIN log' : log'[i].seq # job'[u].seq
  <2>1. u # t /\ pc[u] = "queued"
    BY <1>2, <1>7
  <2>2. job[u].seq # job[t].seq
    BY <1>2, <2>1 DEF SeqInv
  <2>3. \A i \in DOMAIN log : log[i].seq # job[u].seq
    BY <2>1 DEF SeqInv
  <2>4. \A i \in DOMAIN log' : i \in DOMAIN log \/ i = n + 1
    BY <1>1
  <2> QED
    BY <1>1, <1>2, <1>3, <2>1, <2>2, <2>3, <2>4 DEF SeqInv
<1>8. \A u, v \in Threads :
         /\ pc'[u] \in {"queued", "routed"} /\ pc'[v] \in {"queued", "routed"}
         /\ job'[u].seq = job'[v].seq
         => u = v
  BY <1>2, <1>3 DEF SeqInv
<1> QED
  BY <1>5, <1>6, <1>7, <1>8 DEF SeqInv

LEMMA AfterSeq ==
    ASSUME TypeOK, SeqInv, NEW t \in Threads, After(t)
    PROVE  SeqInv'
<1>1. /\ pc[t] = "routed" /\ pc'[t] \in {"nudging", "idle"}
      /\ \A u \in Threads : u # t => pc'[u] = pc[u]
      /\ log' = log /\ job' = job /\ progress' \subseteq progress \union {job[t].seq}
  BY DEF After, TypeOK
<1>2. \A u \in Threads : pc'[u] \in {"queued", "routed"} => u # t /\ pc[u] = pc'[u]
  BY <1>1
<1>3. \A u \in Threads : pc'[u] = "queued" => job[u].seq # job[t].seq
  BY <1>1, <1>2 DEF SeqInv
<1> QED
  BY <1>1, <1>2, <1>3 DEF SeqInv

LEMMA SeqStep == TypeOK /\ SeqInv /\ [Next]_vars => SeqInv'
<1> SUFFICES ASSUME TypeOK, SeqInv, [Next]_vars PROVE SeqInv'
  OBVIOUS
<1>1. ASSUME NEW t \in Threads, NEW m \in Msgs, Begin(t, m) PROVE SeqInv'
  <2>1. PICK j : j = [seq |-> nextSeq + 1, msg |-> m, moved |-> FALSE]
    OBVIOUS
  <2>2. j.seq = nextSeq + 1 /\ job' = [job EXCEPT ![t] = j]
    BY <1>1, <2>1 DEF Begin
  <2>3. pc' = [pc EXCEPT ![t] = "queued"] /\ UNCHANGED <<log, progress>>
    BY <1>1 DEF Begin
  <2> QED
    BY <2>2, <2>3, NextNumber
<1>2. ASSUME NEW t \in Threads, Nudge(t) PROVE SeqInv'
  <2>1. PICK x : x = [kind |-> "nudge", from |-> job[t].msg.from, to |-> Supervisor,
                      label |-> "", phase |-> ""]
    OBVIOUS
  <2>2. PICK j : j = [seq |-> nextSeq + 1, moved |-> FALSE, msg |-> x]
    OBVIOUS
  <2>3. j.seq = nextSeq + 1 /\ job' = [job EXCEPT ![t] = j]
    BY <1>2, <2>1, <2>2 DEF Nudge
  <2>4. pc' = [pc EXCEPT ![t] = "queued"] /\ UNCHANGED <<log, progress>>
    BY <1>2 DEF Nudge
  <2> QED
    BY <2>3, <2>4, NextNumber
<1>3. CASE UNCHANGED <<log, progress, pc, job>>
  BY <1>3 DEF SeqInv
<1>4. ASSUME NEW a \in Agents, Register(a) \/ Settle(a) PROVE UNCHANGED <<log, progress, pc, job>>
  BY <1>4 DEF Register, Settle
<1>5. ASSUME NEW a \in Pollers, Poll(a) PROVE UNCHANGED <<log, progress, pc, job>>
  BY <1>5 DEF Poll
<1>6. CASE UNCHANGED vars
  BY <1>3, <1>6 DEF vars
<1> QED
  BY <1>1, <1>2, <1>3, <1>4, <1>5, <1>6, CommitSeq, AfterSeq DEF Next, Publish

-----------------------------------------------------------------------------
\* QuestionInv.

\* A question that is not yet in the supervisor's inbox is put there.
LEMMA CommitQuestion ==
    ASSUME TypeOK, SeqInv, QuestionInv, NEW t \in Threads, Commit(t)
    PROVE  QuestionInv'
<1> DEFINE n == Len(log)
           m == job[t].msg
<1>1. /\ n \in Nat /\ DOMAIN log = 1..n /\ DOMAIN log' = 1..(n + 1) /\ Len(log') = n + 1
      /\ \A i \in DOMAIN log : log'[i] = log[i]
      /\ log'[n + 1].msg = m /\ m \in Message /\ Item(t).msg = m /\ Item(t) \in Entry
  BY CommitLog
<1>2. \A a \in Names : born'[a] <= Len(log')
  <2>1. ASSUME NEW a \in Names PROVE born'[a] \in {n, born[a]}
    BY DEF Commit
  <2>2. \A a \in Names : born[a] \in Nat /\ born[a] <= n
    BY DEF QuestionInv, TypeOK
  <2> HIDE DEF n
  <2> QED
    BY <1>1, <2>1, <2>2
\* Whoever is in an inbox stays there.
<1>3. ASSUME NEW a \in DOMAIN queues, NEW k \in DOMAIN queues[a]
      PROVE  a \in DOMAIN queues' /\ k \in DOMAIN queues'[a] /\ queues'[a][k] = queues[a][k]
  <2>1. a \in DOMAIN queues' /\ Before(t)[a] = queues[a] /\ Before(t)[a] \in Seq(Entry)
    BY CommitInboxes
  <2>2. queues'[a] \in {Before(t)[a], Append(Before(t)[a], Item(t))}
    BY <2>1, CommitInboxes
  <2> QED
    BY <1>1, <2>1, <2>2, AppendPlaces
<1>4. ASSUME NEW i \in DOMAIN log, log[i].msg.kind = "question"
      PROVE  /\ Supervisor \in DOMAIN queues' /\ born'[Supervisor] < i
             /\ \E k \in DOMAIN queues'[Supervisor] :
                   SameQuestion(log[i].msg, queues'[Supervisor][k])
  <2>1. /\ Supervisor \in DOMAIN queues /\ born[Supervisor] < i
        /\ \E k \in DOMAIN queues[Supervisor] :
              SameQuestion(log[i].msg, queues[Supervisor][k])
    BY <1>4 DEF QuestionInv
  <2>2. born'[Supervisor] = born[Supervisor]
    BY <2>1, CommitInboxes
  <2> QED
    BY <1>3, <2>1, <2>2
<1>5. ASSUME m.kind = "question"
      PROVE  /\ Supervisor \in DOMAIN queues' /\ born'[Supervisor] < n + 1
             /\ \E k \in DOMAIN queues'[Supervisor] :
                   SameQuestion(m, queues'[Supervisor][k])
  <2>1. Supervisor \in Names
    BY DEF Names
  <2>2. Supervisor \in DOMAIN queues'
    BY <1>5, <2>1, CommitInboxes DEF Created
  <2>3. born'[Supervisor] < n + 1
    <3>1. born'[Supervisor] \in {n, born[Supervisor]}
      BY <2>1 DEF Commit
    <3>2. born[Supervisor] \in Nat /\ born[Supervisor] <= n
      BY <2>1 DEF QuestionInv, TypeOK
    <3> HIDE DEF n
    <3> QED
      BY <1>1, <3>1, <3>2
  <2> DEFINE inbox == Before(t)[Supervisor]
  <2>4. inbox \in Seq(Entry)
    BY <2>2, CommitInboxes
  <2>5. CASE Resident(m, inbox)
    <3>1. PICK k \in DOMAIN inbox : SameQuestion(m, inbox[k])
      BY <2>5 DEF Resident
    <3>2. queues'[Supervisor] \in {inbox, Append(inbox, Item(t))}
      BY <2>2, CommitInboxes
    <3>3. k \in DOMAIN queues'[Supervisor] /\ queues'[Supervisor][k] = inbox[k]
      BY <1>1, <2>4, <3>2, AppendPlaces
    <3> QED
      BY <2>2, <2>3, <3>1, <3>3
  <2>6. CASE ~Resident(m, inbox)
    <3>1. Supervisor \in Targets(m, Before(t))
      BY <1>5, <2>2, <2>6, CommitInboxes DEF Targets
    <3>2. queues'[Supervisor] = Append(inbox, Item(t))
      BY <2>2, <3>1, CommitInboxes
    <3>3. /\ Len(inbox) + 1 \in DOMAIN queues'[Supervisor]
          /\ queues'[Supervisor][Len(inbox) + 1] = Item(t)
      BY <1>1, <2>4, <3>2, AppendPlaces
    <3>4. SameQuestion(m, Item(t))
      BY <1>1, <1>5 DEF SameQuestion
    <3> QED
      BY <2>2, <2>3, <3>3, <3>4
  <2> QED
    BY <2>5, <2>6
<1>6. \A i \in DOMAIN log' : i \in DOMAIN log \/ i = n + 1
  BY <1>1
<1> QED
  BY <1>1, <1>2, <1>4, <1>5, <1>6 DEF QuestionInv

LEMMA QuestionStep == TypeOK /\ SeqInv /\ QuestionInv /\ [Next]_vars => QuestionInv'
<1> SUFFICES ASSUME TypeOK, SeqInv, QuestionInv, [Next]_vars PROVE QuestionInv'
  OBVIOUS
<1>1. CASE UNCHANGED <<log, queues, born>>
  BY <1>1 DEF QuestionInv
<1>2. ASSUME NEW a \in Agents, Register(a) PROVE QuestionInv'
  <2>1. /\ a # Supervisor /\ a \in Names /\ log' = log /\ born' = [born EXCEPT ![a] = Len(log)]
        /\ DOMAIN queues' = DOMAIN queues \union {a}
        /\ \A b \in DOMAIN queues : queues'[b] = queues[b] /\ born'[b] = born[b]
    BY <1>2, RegisterType DEF Register
  <2>2. \A b \in Names : born'[b] <= Len(log)
    BY <2>1, LogType DEF QuestionInv, TypeOK
  <2> QED
    BY <2>1, <2>2 DEF QuestionInv
<1>3. ASSUME NEW t \in Threads, After(t) \/ Nudge(t) PROVE QuestionInv'
  BY <1>1, <1>3 DEF After, Nudge
<1>4. ASSUME NEW t \in Threads, NEW m \in Msgs, Begin(t, m) PROVE QuestionInv'
  BY <1>1, <1>4 DEF Begin
<1>5. ASSUME NEW a \in Agents, Settle(a) PROVE QuestionInv'
  BY <1>1, <1>5 DEF Settle
<1>6. ASSUME NEW a \in Pollers, Poll(a) PROVE QuestionInv'
  BY <1>1, <1>6 DEF Poll
<1>7. CASE UNCHANGED vars
  BY <1>1, <1>7 DEF vars
<1> QED
  BY <1>2, <1>3, <1>4, <1>5, <1>6, <1>7, CommitQuestion DEF Next, Publish

-----------------------------------------------------------------------------
\* InboxInv.

\* What was owed before a commit is owed after it, and a new inbox is owed
\* nothing of the past.
LEMMA OwedStays ==
    ASSUME TypeOK, SeqInv, NEW t \in Threads, Commit(t),
           NEW a \in DOMAIN queues', NEW i \in DOMAIN log
    PROVE  Due(a, i)' <=> a \in DOMAIN queues /\ Due(a, i)
<1> DEFINE n == Len(log)
<1>1. /\ n \in Nat /\ DOMAIN log = 1..n /\ \A j \in DOMAIN log : log'[j] = log[j]
  BY CommitLog
<1>2. CASE a \in DOMAIN queues
  <2>1. born'[a] = born[a] /\ log'[i] = log[i]
    BY <1>1, <1>2, CommitInboxes
  <2>2. \A j \in 1..(i - 1) : log'[j] = log[j]
    BY <1>1
  <2> QED
    BY <1>2, <2>1, <2>2 DEF Due, Owed, Asked
<1>3. CASE a \notin DOMAIN queues
  <2>1. born'[a] = n
    BY <1>3, CommitInboxes
  <2>2. ~(i > born'[a])
    BY <1>1, <2>1
  <2> QED
    BY <1>3, <2>2 DEF Due, Owed, Asked
<1> QED
  BY <1>2, <1>3

\* A question is still in the inbox exactly if it was asked before.
LEMMA ResidentIsAsked ==
    ASSUME TypeOK, SeqInv, QuestionInv, InboxInv, NEW t \in Threads, Commit(t),
           job[t].msg.kind = "question", Supervisor \in DOMAIN queues'
    PROVE  Resident(job[t].msg, Before(t)[Supervisor])
             <=> \E j \in DOMAIN log : SameQuestion(job[t].msg, log[j])
<1> DEFINE m == job[t].msg
           inbox == Before(t)[Supervisor]
<1>1. ASSUME NEW k \in DOMAIN inbox, SameQuestion(m, inbox[k])
      PROVE  \E j \in DOMAIN log : SameQuestion(m, log[j])
  <2>1. Supervisor \in DOMAIN queues
    <3>1. Supervisor \notin DOMAIN queues => inbox = <<>>
      BY CommitInboxes
    <3>2. inbox # <<>>
      BY <1>1
    <3> QED
      BY <3>1, <3>2
  <2>2. inbox = queues[Supervisor]
    BY <2>1, CommitInboxes
  <2>3. PICK j \in DOMAIN log : inbox[k] = log[j]
    BY <2>1, <2>2 DEF InboxInv
  <2> QED
    BY <1>1, <2>3
<1>2. ASSUME NEW j \in DOMAIN log, SameQuestion(m, log[j])
      PROVE  \E k \in DOMAIN inbox : SameQuestion(m, inbox[k])
  <2>1. log[j].msg.kind = "question" /\ log[j].msg.from = m.from /\ log[j].msg.label = m.label
    BY <1>2 DEF SameQuestion
  <2>2. Supervisor \in DOMAIN queues
    BY <2>1 DEF QuestionInv
  <2>3. PICK k \in DOMAIN queues[Supervisor] :
           SameQuestion(log[j].msg, queues[Supervisor][k])
    BY <2>1 DEF QuestionInv
  <2>4. inbox = queues[Supervisor]
    BY <2>2, CommitInboxes
  <2>5. SameQuestion(m, inbox[k])
    BY <2>1, <2>3, <2>4 DEF SameQuestion
  <2> QED
    BY <2>3, <2>4, <2>5
<1> QED
  BY <1>1, <1>2 DEF Resident

\* The new entry is owed to exactly those it is routed to.
LEMMA OwedIsRouted ==
    ASSUME TypeOK, SeqInv, QuestionInv, InboxInv, NEW t \in Threads, Commit(t),
           NEW a \in DOMAIN queues', NEW n \in Nat, n = Len(log)
    PROVE  Due(a, n + 1)' <=> a \in Targets(job[t].msg, Before(t))
<1> DEFINE m == job[t].msg
<1>2. /\ DOMAIN log = 1..n
      /\ \A i \in DOMAIN log : log'[i] = log[i]
      /\ log'[n + 1].msg = m
  BY CommitLog
<1>3. n + 1 > born'[a]
  <2>1. a \in Names
    BY CommitInboxes
  <2>2. born'[a] \in {n, born[a]}
    BY <2>1 DEF Commit
  <2>3. born[a] \in Nat /\ born[a] <= n
    BY <2>1 DEF QuestionInv, TypeOK
  <2> QED
    BY <2>2, <2>3
<1>4. 1..((n + 1) - 1) = DOMAIN log
  BY <1>2
<1>5. Due(a, n + 1)' <=>
        \/ m.kind \in {"artifact", "verified", "intent", "advanced"} /\ m.from # a
        \/ m.kind \in {"blocked", "feedback", "answer", "learning"} /\ m.to = a
        \/ m.kind = "nudge" /\ a = Supervisor
        \/ /\ m.kind = "question" /\ a = Supervisor
           /\ \A j \in DOMAIN log : ~SameQuestion(m, log[j])
  BY <1>2, <1>3, <1>4 DEF Due, Owed, Asked
<1>6. a \in Targets(m, Before(t)) <=>
        \/ m.kind \in Broadcasts /\ a # m.from
        \/ m.kind \in Directed \union {"learning"} /\ a = m.to
        \/ m.kind = "nudge" /\ a = Supervisor
        \/ m.kind = "question" /\ a = Supervisor /\ ~Resident(m, Before(t)[a])
  BY CommitInboxes DEF Targets
<1>7. m.kind = "question" /\ a = Supervisor =>
        (Resident(m, Before(t)[a]) <=> \E j \in DOMAIN log : SameQuestion(m, log[j]))
  BY ResidentIsAsked
<1> QED
  BY <1>5, <1>6, <1>7 DEF Broadcasts, Directed

\* The inbox a commit leaves is what is owed of the longer log, in its order.
LEMMA CommitInbox ==
    ASSUME TypeOK, SeqInv, QuestionInv, InboxInv, NEW t \in Threads, Commit(t)
    PROVE  InboxInv'
<1>1. PICK n \in Nat : n = Len(log)
  BY CommitLog
<1>2. /\ DOMAIN log = 1..n /\ DOMAIN log' = 1..(n + 1)
      /\ \A i \in DOMAIN log : log'[i] = log[i] /\ log[i].seq # job[t].seq
      /\ log'[n + 1] = Item(t) /\ Item(t).seq = job[t].seq /\ Item(t) \in Entry
  BY <1>1, CommitLog DEF SeqInv, Commit
<1>3. \A i \in DOMAIN log' : i \in DOMAIN log \/ i = n + 1
  BY <1>2
<1>4. n + 1 \in DOMAIN log' /\ DOMAIN log \subseteq DOMAIN log'
  BY <1>2
<1> SUFFICES ASSUME NEW a \in DOMAIN queues'
             PROVE  /\ \A k \in DOMAIN queues'[a] :
                          \E i \in DOMAIN log' : Due(a, i)' /\ queues'[a][k] = log'[i]
                    /\ \A i \in DOMAIN log' :
                          Due(a, i)' => \E k \in DOMAIN queues'[a] : queues'[a][k] = log'[i]
                    /\ \A k, l \in DOMAIN queues'[a], i, j \in DOMAIN log' :
                          k < l /\ queues'[a][k] = log'[i] /\ queues'[a][l] = log'[j] => i < j
  BY DEF InboxInv
<1> DEFINE P(i) == Due(a, i)'
<1>5. PICK q \in Seq(Entry) : q = Before(t)[a]
  BY CommitInboxes
<1>6. P(n + 1) <=> a \in Targets(job[t].msg, Before(t))
  BY <1>1, OwedIsRouted
<1>7. \A i \in DOMAIN log : P(i) <=> a \in DOMAIN queues /\ Due(a, i)
  BY OwedStays
<1>8. /\ \A k \in DOMAIN q : \E i \in DOMAIN log : P(i) /\ q[k] = log[i]
      /\ \A i \in DOMAIN log : P(i) => \E k \in DOMAIN q : q[k] = log[i]
      /\ \A k, l \in DOMAIN q, i, j \in DOMAIN log :
            k < l /\ q[k] = log[i] /\ q[l] = log[j] => i < j
  <2>1. CASE a \in DOMAIN queues
    <3>1. q = queues[a]
      BY <1>5, <2>1, CommitInboxes
    <3> QED
      BY <1>7, <2>1, <3>1 DEF InboxInv
  <2>2. CASE a \notin DOMAIN queues
    <3>1. q = <<>>
      BY <1>5, <2>2, CommitInboxes
    <3>2. DOMAIN q = {}
      BY <3>1
    <3> QED
      BY <1>7, <2>2, <3>2
  <2> QED
    BY <2>1, <2>2
<1> HIDE DEF P
<1>9. ASSUME a \notin Targets(job[t].msg, Before(t))
      PROVE  /\ \A k \in DOMAIN queues'[a] :
                   \E i \in DOMAIN log' : P(i) /\ queues'[a][k] = log'[i]
             /\ \A i \in DOMAIN log' :
                   P(i) => \E k \in DOMAIN queues'[a] : queues'[a][k] = log'[i]
             /\ \A k, l \in DOMAIN queues'[a], i, j \in DOMAIN log' :
                   k < l /\ queues'[a][k] = log'[i] /\ queues'[a][l] = log'[j] => i < j
  <2>1. queues'[a] = q
    BY <1>5, <1>9, CommitInboxes
  <2>2. \A k \in DOMAIN q : q[k] # Item(t)
    BY <1>2, <1>8
  <2>3. \A i \in DOMAIN log' : P(i) => i \in DOMAIN log
    BY <1>3, <1>6, <1>9
  <2>4. \A k \in DOMAIN q, i \in DOMAIN log' : q[k] = log'[i] => i \in DOMAIN log
    BY <1>2, <1>3, <2>2
  <2> QED
    BY <1>2, <1>4, <1>8, <2>1, <2>3, <2>4
<1>10. ASSUME a \in Targets(job[t].msg, Before(t))
       PROVE  /\ \A k \in DOMAIN queues'[a] :
                    \E i \in DOMAIN log' : P(i) /\ queues'[a][k] = log'[i]
              /\ \A i \in DOMAIN log' :
                    P(i) => \E k \in DOMAIN queues'[a] : queues'[a][k] = log'[i]
              /\ \A k, l \in DOMAIN queues'[a], i, j \in DOMAIN log' :
                    k < l /\ queues'[a][k] = log'[i] /\ queues'[a][l] = log'[j] => i < j
  <2>1. queues'[a] = Append(q, Item(t))
    BY <1>5, <1>10, CommitInboxes
  <2>2. PICK z \in Nat : z = Len(q)
    OBVIOUS
  <2>3. /\ DOMAIN q = 1..z /\ DOMAIN queues'[a] = 1..(z + 1)
        /\ \A k \in DOMAIN q : queues'[a][k] = q[k]
        /\ queues'[a][z + 1] = Item(t)
    BY <1>2, <2>1, <2>2, AppendPlaces
  <2>4. z + 1 \in DOMAIN queues'[a] /\ DOMAIN q \subseteq DOMAIN queues'[a]
        /\ \A k \in DOMAIN queues'[a] : k \in DOMAIN q \/ k = z + 1
    BY <2>3
  <2>5. \A k \in DOMAIN q : q[k] # Item(t)
    BY <1>2, <1>8
  <2>6. \A k \in DOMAIN queues'[a] : \E i \in DOMAIN log' : P(i) /\ queues'[a][k] = log'[i]
    <3>1. P(n + 1)
      BY <1>6, <1>10
    <3>2. ASSUME NEW k \in DOMAIN q PROVE \E i \in DOMAIN log' : P(i) /\ queues'[a][k] = log'[i]
      BY <1>2, <1>4, <1>8, <2>3
    <3> QED
      BY <1>2, <1>4, <2>3, <2>4, <3>1, <3>2
  <2>7. \A i \in DOMAIN log' : P(i) => \E k \in DOMAIN queues'[a] : queues'[a][k] = log'[i]
    BY <1>2, <1>3, <1>8, <2>3, <2>4
  <2>8. ASSUME NEW k \in DOMAIN queues'[a], NEW l \in DOMAIN queues'[a],
               NEW i \in DOMAIN log', NEW j \in DOMAIN log',
               k < l, queues'[a][k] = log'[i], queues'[a][l] = log'[j]
        PROVE  i < j
    <3>1. k \in DOMAIN q
      BY <2>3, <2>8
    <3>2. i \in DOMAIN log /\ q[k] = log[i]
      BY <1>2, <1>3, <2>3, <2>5, <2>8, <3>1
    <3>3. CASE l \in DOMAIN q
      <4>1. j \in DOMAIN log /\ q[l] = log[j]
        BY <1>2, <1>3, <2>3, <2>5, <2>8, <3>3
      <4> QED
        BY <1>8, <2>8, <3>1, <3>2, <3>3, <4>1
    <3>4. CASE l = z + 1
      <4>1. j = n + 1
        BY <1>2, <1>3, <2>3, <2>8, <3>4
      <4> QED
        BY <1>2, <3>2, <4>1
    <3> QED
      BY <2>4, <3>3, <3>4
  <2> QED
    BY <2>6, <2>7, <2>8
<1> QED
  BY <1>9, <1>10 DEF P

LEMMA InboxStep ==
    TypeOK /\ SeqInv /\ QuestionInv /\ InboxInv /\ [Next]_vars => InboxInv'
<1> SUFFICES ASSUME TypeOK, SeqInv, QuestionInv, InboxInv, [Next]_vars
             PROVE  InboxInv'
  OBVIOUS
<1>1. CASE UNCHANGED <<log, queues, born>>
  BY <1>1 DEF InboxInv, Due, Owed, Asked
<1>2. ASSUME NEW a \in Agents, Register(a) PROVE InboxInv'
  <2>1. log' = log /\ a \notin DOMAIN queues
    BY <1>2 DEF Register
  <2>2. /\ DOMAIN queues' = DOMAIN queues \union {a}
        /\ queues'[a] = <<>> /\ born'[a] = Len(log)
        /\ \A b \in DOMAIN queues : queues'[b] = queues[b] /\ born'[b] = born[b]
    BY <1>2, RegisterType
  <2>3. \A b \in DOMAIN queues, i \in DOMAIN log : Due(b, i)' <=> Due(b, i)
    BY <2>1, <2>2 DEF Due, Owed, Asked
  <2>4. \A i \in DOMAIN log : ~Due(a, i)'
    <3>1. \A i \in DOMAIN log : ~(i > born'[a])
      BY <2>2, LogType
    <3> QED
      BY <2>1, <3>1 DEF Due, Owed, Asked
  <2>5. DOMAIN queues'[a] = {}
    BY <2>2
  <2> QED
    BY <2>1, <2>2, <2>3, <2>4, <2>5 DEF InboxInv
<1>3. ASSUME NEW t \in Threads, After(t) \/ Nudge(t) PROVE InboxInv'
  BY <1>1, <1>3 DEF After, Nudge
<1>4. ASSUME NEW t \in Threads, NEW m \in Msgs, Begin(t, m) PROVE InboxInv'
  BY <1>1, <1>4 DEF Begin
<1>5. ASSUME NEW a \in Agents, Settle(a) PROVE InboxInv'
  BY <1>1, <1>5 DEF Settle
<1>6. ASSUME NEW a \in Pollers, Poll(a) PROVE InboxInv'
  BY <1>1, <1>6 DEF Poll
<1>7. CASE UNCHANGED vars
  BY <1>1, <1>7 DEF vars
<1> QED
  BY <1>2, <1>3, <1>4, <1>5, <1>6, <1>7, CommitInbox DEF Next, Publish

-----------------------------------------------------------------------------
\* OweInv and NudgePerCommit.

\* Thread t is among those that owe b a nudge.
Owes(t, b) == /\ job[t].msg.from = b
              /\ \/ pc[t] \in {"routed", "nudging"} /\ IsCommit(job[t].msg)
                 \/ pc[t] = "queued" /\ job[t].msg.kind = "nudge"

\* A step of one thread makes, at most, that thread owe or stop owing.
LEMMA OneThreadOwes ==
    ASSUME NEW t \in Threads, NEW b \in Names,
           \A u \in Threads \ {t} : pc'[u] = pc[u] /\ job'[u].msg = job[u].msg
    PROVE  /\ Owes(t, b)' => Owing(b)' = Owing(b) \union {t}
           /\ ~Owes(t, b)' => Owing(b)' = Owing(b) \ {t}
           /\ t \in Owing(b) <=> Owes(t, b)
<1>1. Owing(b) = {u \in Threads : Owes(u, b)}
  BY DEF Owing, Owes
<1>2. Owing(b)' = {u \in Threads : Owes(u, b)'}
  BY DEF Owing, Owes
<1>3. \A u \in Threads \ {t} : Owes(u, b)' <=> Owes(u, b)
  BY DEF Owes
<1> HIDE DEF Owes
<1> QED
  BY <1>1, <1>2, <1>3

\* The steps around a commit: nobody's debt changes when a message is taken,
\* after a commit, or when the nudge is taken.
LEMMA DebtStays ==
    ASSUME TypeOK, OweInv, NEW t \in Threads, NEW b \in Names,
           After(t) \/ Nudge(t) \/ \E m \in Msgs : Begin(t, m)
    PROVE  /\ VerifyOnCommit => Owing(b)' = Owing(b)
           /\ Owing(b)' \in {Owing(b), Owing(b) \ {t}}
           /\ pc'[t] = "nudging" => IsCommit(job'[t].msg)
           /\ \A u \in Threads \ {t} : pc'[u] = pc[u] /\ job'[u].msg = job[u].msg
<1>1. \A u \in Threads \ {t} : pc'[u] = pc[u] /\ job'[u].msg = job[u].msg
  BY DEF TypeOK, After, Nudge, Begin
<1>2. /\ Owes(t, b)' => Owing(b)' = Owing(b) \union {t}
      /\ ~Owes(t, b)' => Owing(b)' = Owing(b) \ {t}
      /\ t \in Owing(b) <=> Owes(t, b)
  BY <1>1, OneThreadOwes
<1>3. CASE After(t)
  <2>1. /\ pc[t] = "routed" /\ job' = job
        /\ pc'[t] = IF VerifyOnCommit /\ IsCommit(job[t].msg) THEN "nudging" ELSE "idle"
    BY <1>3 DEF After, TypeOK
  <2>2. Owes(t, b)' => Owes(t, b)
    BY <2>1 DEF Owes
  <2>3. VerifyOnCommit /\ Owes(t, b) => Owes(t, b)'
    BY <2>1 DEF Owes
  <2>4. pc'[t] = "nudging" => IsCommit(job'[t].msg)
    BY <2>1
  <2> QED
    BY <1>1, <1>2, <2>2, <2>3, <2>4
<1>4. CASE Nudge(t)
  <2>1. /\ pc[t] = "nudging" /\ pc'[t] = "queued"
        /\ job'[t].msg.kind = "nudge" /\ job'[t].msg.from = job[t].msg.from
    BY <1>4 DEF Nudge, TypeOK
  <2>2. Owes(t, b)' <=> Owes(t, b)
    BY <2>1 DEF Owes, OweInv
  <2> QED
    BY <1>1, <1>2, <2>1, <2>2
<1>5. ASSUME NEW m \in Msgs, Begin(t, m)
      PROVE  pc'[t] = "queued" /\ ~Owes(t, b)' /\ ~Owes(t, b)
  <2>1. pc[t] = "idle" /\ pc'[t] = "queued" /\ job'[t].msg = m /\ m.kind # "nudge"
    BY <1>5, BrokerDeliveryAssumption DEF Begin, TypeOK
  <2> QED
    BY <2>1 DEF Owes
<1>6. CASE \E m \in Msgs : Begin(t, m)
  BY <1>1, <1>2, <1>5, <1>6
<1> QED
  BY <1>3, <1>4, <1>6

\* What a commit adds to the log, to the supervisor's nudges and to the debts.
LEMMA CommitNudges ==
    ASSUME TypeOK, SeqInv, NEW t \in Threads, Commit(t), NEW b \in Names,
           NEW n \in Nat, n = Len(log)
    PROVE  /\ IsCommit(job[t].msg) /\ job[t].msg.from = b =>
                 Commits(b)' = Commits(b) \union {n + 1}
           /\ ~(IsCommit(job[t].msg) /\ job[t].msg.from = b) => Commits(b)' = Commits(b)
           /\ n + 1 \notin Commits(b)
           /\ job[t].msg.kind = "nudge" /\ job[t].msg.from = b =>
                 \E z : z \notin Nudges(b) /\ Nudges(b)' = Nudges(b) \union {z}
           /\ ~(job[t].msg.kind = "nudge" /\ job[t].msg.from = b) => Nudges(b)' = Nudges(b)
<1> DEFINE m == job[t].msg
<1>1. /\ DOMAIN log = 1..n /\ DOMAIN log' = 1..(n + 1)
      /\ \A i \in DOMAIN log : log'[i] = log[i]
      /\ log'[n + 1].msg = m /\ Item(t).msg = m /\ Item(t) \in Entry
  BY CommitLog
<1>2. DOMAIN log' = DOMAIN log \union {n + 1} /\ n + 1 \notin DOMAIN log
  BY <1>1
<1>3. /\ IsCommit(m) /\ m.from = b => Commits(b)' = Commits(b) \union {n + 1}
      /\ ~(IsCommit(m) /\ m.from = b) => Commits(b)' = Commits(b)
      /\ n + 1 \notin Commits(b)
  BY <1>1, <1>2 DEF Commits
<1> DEFINE Is(e) == e.msg.kind = "nudge" /\ e.msg.from = b
<1>4. CASE Supervisor \notin DOMAIN queues'
  <2>1. Supervisor \notin DOMAIN queues /\ m.kind # "nudge"
    BY <1>4, CommitInboxes DEF Created, Names
  <2>2. Nudges(b)' = {} /\ Nudges(b) = {}
    BY <1>4, <2>1 DEF Nudges
  <2> QED
    BY <1>3, <2>1, <2>2
<1>5. CASE Supervisor \in DOMAIN queues'
  <2>1. PICK q \in Seq(Entry) : q = Before(t)[Supervisor]
    BY <1>5, CommitInboxes
  <2>2. Nudges(b)' = {i \in DOMAIN queues'[Supervisor] : Is(queues'[Supervisor][i])}
    BY <1>5 DEF Nudges
  <2>3. Nudges(b) = {i \in DOMAIN q : Is(q[i])}
    <3>1. CASE Supervisor \in DOMAIN queues
      <4>1. q = queues[Supervisor]
        BY <1>5, <2>1, <3>1, CommitInboxes
      <4> QED
        BY <3>1, <4>1 DEF Nudges
    <3>2. CASE Supervisor \notin DOMAIN queues
      <4>1. q = <<>>
        BY <1>5, <2>1, <3>2, CommitInboxes
      <4>2. DOMAIN q = {}
        BY <4>1
      <4> QED
        BY <3>2, <4>2 DEF Nudges
    <3> QED
      BY <3>1, <3>2
  <2>4. CASE Supervisor \in Targets(m, Before(t))
    <3>1. queues'[Supervisor] = Append(q, Item(t))
      BY <1>5, <2>1, <2>4, CommitInboxes
    <3>2. PICK z \in Nat : z = Len(q)
      OBVIOUS
    <3>3. /\ DOMAIN q = 1..z /\ DOMAIN queues'[Supervisor] = 1..(z + 1)
          /\ \A k \in DOMAIN q : queues'[Supervisor][k] = q[k]
          /\ queues'[Supervisor][z + 1] = Item(t)
      BY <1>1, <3>1, <3>2, AppendPlaces
    <3>4. DOMAIN queues'[Supervisor] = DOMAIN q \union {z + 1} /\ z + 1 \notin DOMAIN q
      BY <3>3
    <3>5. Is(Item(t)) <=> m.kind = "nudge" /\ m.from = b
      BY <1>1
    <3>6. CASE m.kind = "nudge" /\ m.from = b
      <4>1. Nudges(b)' = Nudges(b) \union {z + 1} /\ z + 1 \notin Nudges(b)
        BY <2>2, <2>3, <3>3, <3>4, <3>5, <3>6
      <4> QED
        BY <1>3, <3>6, <4>1
    <3>7. CASE ~(m.kind = "nudge" /\ m.from = b)
      <4>1. Nudges(b)' = Nudges(b)
        BY <2>2, <2>3, <3>3, <3>4, <3>5, <3>7
      <4> QED
        BY <1>3, <3>7, <4>1
    <3> QED
      BY <3>6, <3>7
  <2>5. CASE Supervisor \notin Targets(m, Before(t))
    <3>1. m.kind # "nudge"
      BY <1>5, <2>5, CommitInboxes DEF Targets
    <3>2. queues'[Supervisor] = q
      BY <1>5, <2>1, <2>5, CommitInboxes
    <3>3. Nudges(b)' = Nudges(b)
      BY <2>2, <2>3, <3>2
    <3> QED
      BY <1>3, <3>1, <3>3
  <2> QED
    BY <2>4, <2>5
<1> QED
  BY <1>4, <1>5

\* Logged commits and delivered nudges are finitely many.
LEMMA FiniteCounts ==
    ASSUME TypeOK, NEW b \in Names
    PROVE  IsFiniteSet(Commits(b)) /\ IsFiniteSet(Nudges(b))
<1>1. IsFiniteSet(Commits(b))
  <2>1. PICK n \in Nat : DOMAIN log = 1..n
    BY LogType
  <2>2. IsFiniteSet(DOMAIN log)
    BY <2>1, FS_Interval
  <2>3. Commits(b) \subseteq DOMAIN log
    BY DEF Commits
  <2> QED
    BY <2>2, <2>3, FS_Subset
<1>2. IsFiniteSet(Nudges(b))
  <2>1. CASE Supervisor \notin DOMAIN queues
    BY <2>1, FS_EmptySet DEF Nudges
  <2>2. CASE Supervisor \in DOMAIN queues
    <3>1. PICK n \in Nat : DOMAIN queues[Supervisor] = 1..n
      BY <2>2 DEF TypeOK
    <3>2. IsFiniteSet(DOMAIN queues[Supervisor])
      BY <3>1, FS_Interval
    <3>3. Nudges(b) \subseteq DOMAIN queues[Supervisor]
      BY <2>2 DEF Nudges
    <3> QED
      BY <3>2, <3>3, FS_Subset
  <2> QED
    BY <2>1, <2>2
<1> QED
  BY <1>1, <1>2

\* A set one larger, a set one smaller.
LEMMA OneMore ==
    ASSUME NEW S, IsFiniteSet(S), NEW x, x \notin S
    PROVE  /\ IsFiniteSet(S \union {x})
           /\ Cardinality(S \union {x}) = Cardinality(S) + 1 /\ Cardinality(S) \in Nat
  BY FS_AddElement, FS_CardinalityType
LEMMA OneLess ==
    ASSUME NEW S, IsFiniteSet(S), NEW x \in S
    PROVE  /\ IsFiniteSet(S \ {x})
           /\ Cardinality(S \ {x}) = Cardinality(S) - 1 /\ Cardinality(S) \in Nat
  BY FS_RemoveElement, FS_CardinalityType

Balanced(b) == Cardinality(Commits(b)) = Cardinality(Nudges(b)) + Cardinality(Owing(b))

\* A commit moves a debt in, a nudge moves it over to the inbox.
LEMMA CommitBalance ==
    ASSUME TypeOK, SeqInv, OweInv, NEW t \in Threads, Commit(t), NEW b \in Names
    PROVE  IsFiniteSet(Owing(b))' /\ (Balanced(b) => Balanced(b)')
<1> DEFINE m == job[t].msg
<1>1. PICK n \in Nat : n = Len(log)
  BY CommitLog
<1>2. /\ pc[t] = "queued" /\ pc'[t] = "routed" /\ job'[t].msg = m
      /\ \A u \in Threads \ {t} : pc'[u] = pc[u] /\ job'[u].msg = job[u].msg
  BY DEF Commit, TypeOK
<1>3. /\ Owes(t, b)' => Owing(b)' = Owing(b) \union {t}
      /\ ~Owes(t, b)' => Owing(b)' = Owing(b) \ {t}
      /\ t \in Owing(b) <=> Owes(t, b)
  BY <1>2, OneThreadOwes
<1>4. /\ Owes(t, b) <=> m.kind = "nudge" /\ m.from = b
      /\ Owes(t, b)' <=> IsCommit(m) /\ m.from = b
      /\ IsCommit(m) => m.kind # "nudge"
  BY <1>2 DEF Owes, IsCommit
<1>5. IsFiniteSet(Owing(b)) /\ IsFiniteSet(Commits(b)) /\ IsFiniteSet(Nudges(b))
  BY FiniteCounts DEF OweInv
<1>6. /\ IsCommit(m) /\ m.from = b => Commits(b)' = Commits(b) \union {n + 1}
      /\ ~(IsCommit(m) /\ m.from = b) => Commits(b)' = Commits(b)
      /\ n + 1 \notin Commits(b)
      /\ m.kind = "nudge" /\ m.from = b =>
            \E z : z \notin Nudges(b) /\ Nudges(b)' = Nudges(b) \union {z}
      /\ ~(m.kind = "nudge" /\ m.from = b) => Nudges(b)' = Nudges(b)
  BY <1>1, CommitNudges
<1>7. CASE IsCommit(m) /\ m.from = b
  <2>1. /\ Owing(b)' = Owing(b) \union {t} /\ t \notin Owing(b)
        /\ Commits(b)' = Commits(b) \union {n + 1} /\ Nudges(b)' = Nudges(b)
    BY <1>3, <1>4, <1>6, <1>7
  <2>2. /\ IsFiniteSet(Owing(b)')
        /\ Cardinality(Owing(b)') = Cardinality(Owing(b)) + 1 /\ Cardinality(Owing(b)) \in Nat
    BY <1>5, <2>1, OneMore
  <2>3. Cardinality(Commits(b)') = Cardinality(Commits(b)) + 1
    BY <1>5, <1>6, <2>1, OneMore
  <2>4. Cardinality(Nudges(b)') = Cardinality(Nudges(b)) /\ Cardinality(Nudges(b)) \in Nat
    BY <1>5, <2>1, FS_CardinalityType
  <2> QED
    BY <2>2, <2>3, <2>4 DEF Balanced
<1>8. CASE m.kind = "nudge" /\ m.from = b
  <2>1. /\ Owing(b)' = Owing(b) \ {t} /\ t \in Owing(b)
        /\ Commits(b)' = Commits(b)
    BY <1>3, <1>4, <1>6, <1>8
  <2>2. PICK z : z \notin Nudges(b) /\ Nudges(b)' = Nudges(b) \union {z}
    BY <1>6, <1>8
  <2>3. /\ IsFiniteSet(Owing(b)')
        /\ Cardinality(Owing(b)') = Cardinality(Owing(b)) - 1 /\ Cardinality(Owing(b)) \in Nat
    BY <1>5, <2>1, OneLess
  <2>4. Cardinality(Nudges(b)') = Cardinality(Nudges(b)) + 1 /\ Cardinality(Nudges(b)) \in Nat
    BY <1>5, <2>2, OneMore
  <2>5. Cardinality(Commits(b)') = Cardinality(Commits(b))
    BY <2>1
  <2> QED
    BY <2>3, <2>4, <2>5 DEF Balanced
<1>9. CASE ~(IsCommit(m) /\ m.from = b) /\ ~(m.kind = "nudge" /\ m.from = b)
  <2>1. Owing(b)' = Owing(b) /\ Commits(b)' = Commits(b) /\ Nudges(b)' = Nudges(b)
    BY <1>3, <1>4, <1>6, <1>9
  <2> QED
    BY <1>5, <2>1 DEF Balanced
<1> QED
  BY <1>7, <1>8, <1>9

LEMMA NudgeStep ==
    TypeOK /\ SeqInv /\ OweInv /\ NudgePerCommit /\ [Next]_vars
      => OweInv' /\ NudgePerCommit'
<1> SUFFICES ASSUME TypeOK, SeqInv, OweInv, NudgePerCommit, [Next]_vars
             PROVE  OweInv' /\ NudgePerCommit'
  OBVIOUS
<1>1. \A b \in Names : VerifyOnCommit => Balanced(b)
  BY DEF NudgePerCommit, Balanced
<1>2. ASSUME UNCHANGED <<log, pc, job>>, \A b \in Names : Nudges(b)' = Nudges(b)
      PROVE  OweInv' /\ NudgePerCommit'
  <2>1. \A b \in Names : Commits(b)' = Commits(b) /\ Owing(b)' = Owing(b)
    BY <1>2 DEF Commits, Owing
  <2> QED
    BY <1>2, <2>1 DEF OweInv, NudgePerCommit
<1>3. CASE UNCHANGED <<log, pc, job, queues>>
  <2>1. \A b \in Names : Nudges(b)' = Nudges(b)
    BY <1>3 DEF Nudges
  <2> QED
    BY <1>2, <1>3, <2>1
<1>4. ASSUME NEW t \in Threads, Commit(t) PROVE OweInv' /\ NudgePerCommit'
  <2>1. \A b \in Names : IsFiniteSet(Owing(b))' /\ (Balanced(b) => Balanced(b)')
    BY <1>4, CommitBalance
  <2>2. /\ pc'[t] = "routed"
        /\ \A u \in Threads \ {t} : pc'[u] = pc[u] /\ job'[u].msg = job[u].msg
    BY <1>4 DEF Commit, TypeOK
  <2>3. OweInv'
    BY <2>1, <2>2 DEF OweInv
  <2>4. NudgePerCommit'
    BY <1>1, <2>1 DEF NudgePerCommit, Balanced
  <2> QED
    BY <2>3, <2>4
<1>5. ASSUME NEW t \in Threads, After(t) \/ Nudge(t) \/ \E m \in Msgs : Begin(t, m)
      PROVE  OweInv' /\ NudgePerCommit'
  <2>1. UNCHANGED <<log, queues>>
    BY <1>5 DEF After, Nudge, Begin
  <2>2. \A b \in Names : Commits(b)' = Commits(b) /\ Nudges(b)' = Nudges(b)
    BY <2>1 DEF Commits, Nudges
  <2>3. \A b \in Names : VerifyOnCommit => Owing(b)' = Owing(b)
    BY <1>5, DebtStays
  <2>4. ASSUME NEW b \in Names PROVE IsFiniteSet(Owing(b)')
    <3>1. Owing(b)' \in {Owing(b), Owing(b) \ {t}} /\ IsFiniteSet(Owing(b))
      BY <1>5, DebtStays DEF OweInv
    <3> QED
      BY <3>1, FS_RemoveElement
  <2>5. \A u \in Threads : pc'[u] = "nudging" => IsCommit(job'[u].msg)
    <3>1. Supervisor \in Names
      BY DEF Names
    <3>2. /\ pc'[t] = "nudging" => IsCommit(job'[t].msg)
          /\ \A u \in Threads \ {t} : pc'[u] = pc[u] /\ job'[u].msg = job[u].msg
      BY <1>5, <3>1, DebtStays
    <3> QED
      BY <3>2 DEF OweInv
  <2> QED
    BY <2>2, <2>3, <2>4, <2>5 DEF OweInv, NudgePerCommit
<1>6. ASSUME NEW a \in Agents, Register(a) PROVE OweInv' /\ NudgePerCommit'
  <2>1. /\ a # Supervisor /\ DOMAIN queues' = DOMAIN queues \union {a}
        /\ \A b \in DOMAIN queues : queues'[b] = queues[b]
    BY <1>6, RegisterType
  <2>2. \A b \in Names : Nudges(b)' = Nudges(b)
    BY <2>1 DEF Nudges
  <2>3. UNCHANGED <<log, pc, job>>
    BY <1>6 DEF Register
  <2> QED
    BY <1>2, <2>2, <2>3
<1>7. ASSUME NEW a \in Agents, Settle(a) PROVE UNCHANGED <<log, pc, job, queues>>
  BY <1>7 DEF Settle
<1>8. ASSUME NEW a \in Pollers, Poll(a) PROVE UNCHANGED <<log, pc, job, queues>>
  BY <1>8 DEF Poll
<1>9. CASE UNCHANGED vars
  BY <1>3, <1>9 DEF vars
<1> QED
  BY <1>3, <1>4, <1>5, <1>6, <1>7, <1>8, <1>9 DEF Next, Publish

-----------------------------------------------------------------------------
\* RowsFollowLog, from RowInv.

\* What a commit adds to the places of a's roster messages and statuses.
LEMMA CommitPlaces ==
    ASSUME TypeOK, SeqInv, NEW t \in Threads, Commit(t), NEW a \in Names,
           NEW n \in Nat, n = Len(log)
    PROVE  /\ \A i \in DOMAIN log : log'[i] = log[i] /\ i < n + 1
           /\ log'[n + 1].msg = job[t].msg /\ job[t].msg \in Message
           /\ Own(a) \subseteq DOMAIN log /\ Statuses(a) \subseteq DOMAIN log
           /\ DOMAIN log = 1..n /\ DOMAIN log' = DOMAIN log \union {n + 1}
           /\ job[t].msg.kind \in Upserts /\ job[t].msg.from = a =>
                 Own(a)' = Own(a) \union {n + 1}
           /\ ~(job[t].msg.kind \in Upserts /\ job[t].msg.from = a) => Own(a)' = Own(a)
           /\ job[t].msg.kind = "status" /\ job[t].msg.from = a =>
                 Statuses(a)' = Statuses(a) \union {n + 1}
           /\ ~(job[t].msg.kind = "status" /\ job[t].msg.from = a) =>
                 Statuses(a)' = Statuses(a)
<1>1. /\ DOMAIN log = 1..n /\ DOMAIN log' = 1..(n + 1)
      /\ \A i \in DOMAIN log : log'[i] = log[i]
      /\ log'[n + 1].msg = job[t].msg /\ job[t].msg \in Message
  BY CommitLog
<1>2. DOMAIN log' = DOMAIN log \union {n + 1} /\ n + 1 \notin DOMAIN log
      /\ \A i \in DOMAIN log : i < n + 1
  BY <1>1
<1> QED
  BY <1>1, <1>2 DEF Own, Statuses

\* The newest place of a set that a later place joins.
LEMMA NewestIsNew ==
    ASSUME NEW n \in Nat, NEW S \in SUBSET (1..n), NEW i
    PROVE  Newest(i, S \union {n + 1}) <=> i = n + 1
<1>1. \A j \in S : j \in Nat /\ j < n + 1
  OBVIOUS
<1>2. Newest(n + 1, S \union {n + 1})
  BY <1>1 DEF Newest
<1>3. ASSUME Newest(i, S \union {n + 1}), i # n + 1 PROVE FALSE
  <2>1. i \in S /\ n + 1 <= i
    BY <1>3 DEF Newest
  <2> QED
    BY <1>1, <2>1
<1> QED
  BY <1>2, <1>3

LEMMA CommitRow ==
    ASSUME TypeOK, SeqInv, RowInv, NEW t \in Threads, Commit(t)
    PROVE  RowInv'
<1> DEFINE m == job[t].msg
<1>1. PICK n \in Nat : n = Len(log)
  BY CommitLog
<1> SUFFICES ASSUME NEW a \in Names
             PROVE  /\ rows'[a].known <=> Own(a)' # {}
                    /\ Own(a)' = {} => rows'[a].status = ""
                    /\ Own(a)' # {} => \E i \in Own(a)' :
                          /\ Newest(i, Own(a)') \/ Newest(i, Final(a)')
                          /\ rows'[a].status = Label(log'[i].msg)
                    /\ \A i \in Final(a)' : Newest(i, Own(a)')
                          => rows'[a].status = Label(log'[i].msg)
  BY DEF RowInv
<1>2. /\ \A i \in DOMAIN log : log'[i] = log[i]
      /\ log'[n + 1].msg = m /\ m \in Message
      /\ Own(a) \subseteq DOMAIN log /\ DOMAIN log = 1..n
      /\ m.kind \in Upserts /\ m.from = a => Own(a)' = Own(a) \union {n + 1}
      /\ ~(m.kind \in Upserts /\ m.from = a) => Own(a)' = Own(a)
  BY <1>1, CommitPlaces
<1>3. /\ rows[a].known <=> Own(a) # {}
      /\ Own(a) = {} => rows[a].status = ""
      /\ Own(a) # {} => \E i \in Own(a) : /\ Newest(i, Own(a)) \/ Newest(i, Final(a))
                                          /\ rows[a].status = Label(log[i].msg)
      /\ \A i \in Final(a) : Newest(i, Own(a)) => rows[a].status = Label(log[i].msg)
  BY DEF RowInv
<1>4. rows' = UpdatedRows(m)
  BY DEF Commit
<1>5. CASE ~(m.kind \in Upserts /\ m.from = a)
  <2>1. rows'[a] = rows[a]
    BY <1>4, <1>5 DEF UpdatedRows, TypeOK
  <2>2. Own(a)' = Own(a) /\ \A i \in Own(a) : log'[i] = log[i]
    BY <1>2, <1>5
  <2>3. Final(a)' = Final(a)
    BY <2>2 DEF Final
  <2>4. Final(a) \subseteq Own(a)
    BY DEF Final
  <2> QED
    BY <1>3, <2>1, <2>2, <2>3, <2>4
<1>6. CASE m.kind \in Upserts /\ m.from = a
  <2>1. rows'[a] = UpdatedRow(m, rows[a])
    BY <1>4, <1>6 DEF UpdatedRows, TypeOK
  <2>2. rows'[a].known = TRUE /\ rows'[a].status = NewStatus(m, rows[a])
    BY <2>1 DEF UpdatedRow
  <2>3. /\ Own(a)' = Own(a) \union {n + 1} /\ Own(a) \in SUBSET (1..n)
        /\ \A i \in Own(a) : log'[i] = log[i]
    BY <1>2, <1>6
  <2>4. Newest(n + 1, Own(a)') /\ \A i : Newest(i, Own(a)') => i = n + 1
    BY <2>3, NewestIsNew
  <2>5. CASE NewStatus(m, rows[a]) = Label(m)
    BY <1>2, <2>2, <2>3, <2>4, <2>5
\* The row keeps a terminal status, and the message is not terminal.
  <2>6. CASE NewStatus(m, rows[a]) # Label(m)
    <3>1. /\ rows[a].status \in Terminal /\ Label(m) \notin Terminal
          /\ NewStatus(m, rows[a]) = rows[a].status
      BY <2>6 DEF NewStatus
    <3>2. Own(a) # {}
      BY <1>3, <3>1 DEF Terminal
    <3>3. PICK i \in Own(a) : /\ Newest(i, Own(a)) \/ Newest(i, Final(a))
                              /\ rows[a].status = Label(log[i].msg)
      BY <1>3, <3>2
    <3>4. i \in Final(a) /\ Final(a) \subseteq Own(a)
      BY <3>1, <3>3 DEF Final
    <3>5. Newest(i, Final(a))
      BY <3>3, <3>4 DEF Newest
    <3>6. Final(a)' = Final(a)
      BY <1>2, <2>3, <3>1 DEF Final
    <3>7. n + 1 \notin Final(a)
      BY <2>3, <3>4
    <3> QED
      BY <2>2, <2>3, <2>4, <3>1, <3>3, <3>5, <3>6, <3>7
  <2> QED
    BY <2>5, <2>6
<1> QED
  BY <1>5, <1>6

LEMMA RowStep == TypeOK /\ SeqInv /\ RowInv /\ [Next]_vars => RowInv'
<1> SUFFICES ASSUME TypeOK, SeqInv, RowInv, [Next]_vars PROVE RowInv'
  OBVIOUS
<1>1. ASSUME UNCHANGED log, \A a \in Names : /\ rows'[a].known = rows[a].known
                                             /\ rows'[a].status = rows[a].status
      PROVE  RowInv'
  <2>1. \A a \in Names : Own(a)' = Own(a) /\ Final(a)' = Final(a)
    BY <1>1 DEF Own, Final
  <2> QED
    BY <1>1, <2>1 DEF RowInv
<1>2. CASE UNCHANGED <<log, rows>>
  BY <1>1, <1>2
<1>3. ASSUME NEW a \in Agents, Settle(a) PROVE RowInv'
  BY <1>1, <1>3 DEF Settle, TypeOK
<1>4. ASSUME NEW t \in Threads, After(t) \/ Nudge(t) PROVE RowInv'
  BY <1>2, <1>4 DEF After, Nudge
<1>5. ASSUME NEW t \in Threads, NEW m \in Msgs, Begin(t, m) PROVE RowInv'
  BY <1>2, <1>5 DEF Begin
<1>6. ASSUME NEW a \in Agents, Register(a) PROVE RowInv'
  BY <1>2, <1>6 DEF Register
<1>7. ASSUME NEW a \in Pollers, Poll(a) PROVE RowInv'
  BY <1>2, <1>7 DEF Poll
<1>8. CASE UNCHANGED vars
  BY <1>2, <1>8 DEF vars
<1> QED
  BY <1>3, <1>4, <1>5, <1>6, <1>7, <1>8, CommitRow DEF Next, Publish

-----------------------------------------------------------------------------
\* LastInv and ProgressIsChange.

LEMMA CommitLast ==
    ASSUME TypeOK, SeqInv, LastInv, NEW t \in Threads, Commit(t)
    PROVE  LastInv'
<1> DEFINE m == job[t].msg
<1>1. PICK n \in Nat : n = Len(log)
  BY CommitLog
<1> SUFFICES ASSUME NEW a \in Names
             PROVE  \/ Statuses(a)' = {} /\ rows'[a].last = NoStatus
                    \/ \E i \in Statuses(a)' :
                          /\ Newest(i, Statuses(a)')
                          /\ rows'[a].last = <<log'[i].msg.label, log'[i].msg.phase>>
  BY DEF LastInv
<1>2. /\ \A i \in DOMAIN log : log'[i] = log[i]
      /\ log'[n + 1].msg = m /\ m \in Message
      /\ Statuses(a) \subseteq DOMAIN log /\ DOMAIN log = 1..n
      /\ m.kind = "status" /\ m.from = a => Statuses(a)' = Statuses(a) \union {n + 1}
      /\ ~(m.kind = "status" /\ m.from = a) => Statuses(a)' = Statuses(a)
  BY <1>1, CommitPlaces
<1>3. rows' = UpdatedRows(m)
  BY DEF Commit
<1>4. CASE ~(m.kind = "status" /\ m.from = a)
  <2>1. rows'[a].last = rows[a].last
    <3>1. rows'[a] \in {rows[a]}
             \union (IF m.from = a THEN {UpdatedRow(m, rows[a])} ELSE {})
      BY <1>3 DEF UpdatedRows, TypeOK
    <3> QED
      BY <1>4, <3>1 DEF UpdatedRow
  <2> QED
    BY <1>2, <1>4, <2>1 DEF LastInv
<1>5. CASE m.kind = "status" /\ m.from = a
  <2>1. rows'[a] = UpdatedRow(m, rows[a])
    BY <1>3, <1>5 DEF UpdatedRows, TypeOK, Upserts
  <2>2. rows'[a].last = <<m.label, m.phase>>
    BY <1>5, <2>1 DEF UpdatedRow
  <2>3. Statuses(a)' = Statuses(a) \union {n + 1} /\ Statuses(a) \in SUBSET (1..n)
    BY <1>2, <1>5
  <2>4. Newest(n + 1, Statuses(a)')
    BY <2>3, NewestIsNew
  <2> QED
    BY <1>2, <2>2, <2>3, <2>4
<1> QED
  BY <1>4, <1>5

LEMMA LastStep == TypeOK /\ SeqInv /\ LastInv /\ [Next]_vars => LastInv'
<1> SUFFICES ASSUME TypeOK, SeqInv, LastInv, [Next]_vars PROVE LastInv'
  OBVIOUS
<1>1. ASSUME UNCHANGED log, \A a \in Names : rows'[a].last = rows[a].last
      PROVE  LastInv'
  <2>1. \A a \in Names : Statuses(a)' = Statuses(a)
    BY <1>1 DEF Statuses
  <2> QED
    BY <1>1, <2>1 DEF LastInv
<1>2. CASE UNCHANGED <<log, rows>>
  BY <1>1, <1>2
<1>3. ASSUME NEW a \in Agents, Settle(a) PROVE LastInv'
  BY <1>1, <1>3 DEF Settle, TypeOK
<1>4. ASSUME NEW t \in Threads, After(t) \/ Nudge(t) PROVE LastInv'
  BY <1>2, <1>4 DEF After, Nudge
<1>5. ASSUME NEW t \in Threads, NEW m \in Msgs, Begin(t, m) PROVE LastInv'
  BY <1>2, <1>5 DEF Begin
<1>6. ASSUME NEW a \in Agents, Register(a) PROVE LastInv'
  BY <1>2, <1>6 DEF Register
<1>7. ASSUME NEW a \in Pollers, Poll(a) PROVE LastInv'
  BY <1>2, <1>7 DEF Poll
<1>8. CASE UNCHANGED vars
  BY <1>2, <1>8 DEF vars
<1> QED
  BY <1>3, <1>4, <1>5, <1>6, <1>7, <1>8, CommitLast DEF Next, Publish

\* The entry at place i is, or is about to be, counted as progress.
Counted(i) == \/ log[i].seq \in progress
              \/ \E t \in Threads : /\ pc[t] = "routed" /\ job[t].moved
                                    /\ job[t].seq = log[i].seq

\* A status is progress exactly when the log says that it is something new.
LEMMA ProgressIsNew ==
    ASSUME TypeOK, SeqInv, LastInv, NEW t \in Threads, Commit(t),
           job[t].msg.kind = "status", NEW n \in Nat, n = Len(log)
    PROVE  SaysSomethingNew(n + 1)' <=> IsProgress(job[t].msg, rows[job[t].msg.from])
<1>1. PICK m, a : m = job[t].msg /\ a = m.from /\ a \in Names
  BY CommitLog, MessageType
<1>2. /\ \A i \in DOMAIN log : log'[i] = log[i]
      /\ log'[n + 1].msg = m
      /\ Statuses(a) \subseteq DOMAIN log /\ DOMAIN log = 1..n
  BY <1>1, CommitPlaces
<1>3. 1..((n + 1) - 1) = DOMAIN log
  BY <1>2
<1>4. StatusesBefore(a, n + 1)' = Statuses(a)
  BY <1>2, <1>3 DEF StatusesBefore, Statuses
<1> DEFINE different == \A j \in Statuses(a) : (\A k \in Statuses(a) : k <= j)
                           => <<log[j].msg.label, log[j].msg.phase>> # <<m.label, m.phase>>
<1>5. SaysSomethingNew(n + 1)' <=> /\ m.phase \notin StallPhases
                                   /\ ~(a = Supervisor /\ m.phase = "escalation")
                                   /\ different
  BY <1>1, <1>2, <1>4 DEF SaysSomethingNew
<1>6. different <=> rows[a].last # <<m.label, m.phase>>
  <2>1. CASE Statuses(a) = {} /\ rows[a].last = NoStatus
    <3>1. NoStatus # <<m.label, m.phase>>
      BY DEF NoStatus
    <3> QED
      BY <2>1, <3>1
  <2>2. ASSUME NEW i \in Statuses(a), Newest(i, Statuses(a)),
               rows[a].last = <<log[i].msg.label, log[i].msg.phase>>
        PROVE  different <=> rows[a].last # <<m.label, m.phase>>
    <3>1. \A j \in Statuses(a) : (\A k \in Statuses(a) : k <= j) => j = i
      BY <1>2, <2>2 DEF Newest
    <3>2. \A k \in Statuses(a) : k <= i
      BY <2>2 DEF Newest
    <3> QED
      BY <2>2, <3>1, <3>2
  <2> QED
    BY <1>1, <2>1, <2>2 DEF LastInv
<1> HIDE DEF different
<1> QED
  BY <1>1, <1>5, <1>6 DEF IsProgress

LEMMA CommitProgress ==
    ASSUME TypeOK, SeqInv, LastInv, ProgressIsChange, NEW t \in Threads, Commit(t)
    PROVE  ProgressIsChange'
<1> DEFINE m == job[t].msg
<1>1. PICK n \in Nat : n = Len(log)
  BY CommitLog
<1>2. /\ DOMAIN log = 1..n /\ DOMAIN log' = 1..(n + 1)
      /\ \A i \in DOMAIN log : log'[i] = log[i]
      /\ log'[n + 1].msg = m /\ log'[n + 1].seq = job[t].seq
  BY <1>1, CommitLog
<1>3. \A i \in DOMAIN log' : i \in DOMAIN log \/ i = n + 1
  BY <1>2
<1>4. /\ pc[t] = "queued" /\ pc'[t] = "routed" /\ progress' = progress
      /\ \A u \in Threads : job'[u].seq = job[u].seq
      /\ \A u \in Threads \ {t} : pc'[u] = pc[u] /\ job'[u] = job[u]
      /\ job'[t].moved = IsProgress(m, rows[m.from])
  BY DEF Commit, TypeOK
<1>5. /\ job[t].seq \notin progress
      /\ \A i \in DOMAIN log : log[i].seq # job[t].seq
      /\ \A u \in Threads \ {t} : pc[u] = "routed" => job[u].seq # job[t].seq
  BY <1>4 DEF SeqInv
<1>6. ASSUME NEW i \in DOMAIN log, log[i].msg.kind = "status"
      PROVE  Counted(i)' <=> SaysSomethingNew(i)'
  <2>1. Counted(i)' <=> Counted(i)
    BY <1>2, <1>4, <1>5 DEF Counted
  <2>2. SaysSomethingNew(i)' <=> SaysSomethingNew(i)
    <3>1. \A j \in 1..(i - 1) : j \in DOMAIN log
      BY <1>2
    <3>2. StatusesBefore(log[i].msg.from, i)' = StatusesBefore(log[i].msg.from, i)
      <4>1. PICK b : b = log[i].msg.from
        OBVIOUS
      <4>2. StatusesBefore(b, i)' = StatusesBefore(b, i)
        BY <1>2, <3>1 DEF StatusesBefore
      <4>3. log'[i].msg.from = b
        BY <1>2, <4>1
      <4> QED
        BY <4>1, <4>2, <4>3
    <3>3. \A j \in StatusesBefore(log[i].msg.from, i) : log'[j] = log[j]
      BY <1>2, <3>1 DEF StatusesBefore
    <3> QED
      BY <1>2, <3>2, <3>3 DEF SaysSomethingNew
  <2>3. Counted(i) <=> SaysSomethingNew(i)
    BY <1>6 DEF ProgressIsChange, Counted
  <2> QED
    BY <2>1, <2>2, <2>3
<1>7. ASSUME m.kind = "status"
      PROVE  Counted(n + 1)' <=> SaysSomethingNew(n + 1)'
  <2>1. Counted(n + 1)' <=> job'[t].moved
    BY <1>2, <1>4, <1>5 DEF Counted
  <2>2. SaysSomethingNew(n + 1)' <=> IsProgress(m, rows[m.from])
    BY <1>1, <1>7, ProgressIsNew
  <2> QED
    BY <1>4, <2>1, <2>2
<1>8. \A i \in DOMAIN log' : log'[i].msg.kind = "status" =>
         (Counted(i)' <=> SaysSomethingNew(i)')
  BY <1>2, <1>3, <1>6, <1>7
<1> QED
  BY <1>8 DEF ProgressIsChange, Counted

LEMMA ProgressStep ==
    TypeOK /\ SeqInv /\ LastInv /\ ProgressIsChange /\ [Next]_vars => ProgressIsChange'
<1> SUFFICES ASSUME TypeOK, SeqInv, LastInv, ProgressIsChange, [Next]_vars
             PROVE  ProgressIsChange'
  OBVIOUS
<1>1. ASSUME UNCHANGED log, \A i \in DOMAIN log : Counted(i)' <=> Counted(i)
      PROVE  ProgressIsChange'
  <2>1. \A i \in DOMAIN log : SaysSomethingNew(i)' <=> SaysSomethingNew(i)
    BY <1>1 DEF SaysSomethingNew, StatusesBefore
  <2>2. \A i \in DOMAIN log : log[i].msg.kind = "status" =>
           (Counted(i) <=> SaysSomethingNew(i))
    BY DEF ProgressIsChange, Counted
  <2>3. \A i \in DOMAIN log' : log'[i].msg.kind = "status" =>
           (Counted(i)' <=> SaysSomethingNew(i)')
    BY <1>1, <2>1, <2>2
  <2> QED
    BY <2>3 DEF ProgressIsChange, Counted
<1>2. CASE UNCHANGED <<log, progress, pc, job>>
  BY <1>1, <1>2 DEF Counted
<1>3. ASSUME NEW t \in Threads, After(t) PROVE ProgressIsChange'
  <2>1. /\ pc[t] = "routed" /\ pc'[t] # "routed" /\ log' = log /\ job' = job
        /\ \A u \in Threads \ {t} : pc'[u] = pc[u]
        /\ progress' = IF job[t].moved THEN progress \union {job[t].seq} ELSE progress
    BY <1>3 DEF After, TypeOK
  <2>2. \A i \in DOMAIN log : Counted(i)' <=> Counted(i)
    BY <2>1 DEF Counted
  <2> QED
    BY <1>1, <2>1, <2>2
<1>4. ASSUME NEW t \in Threads, Nudge(t) \/ \E m \in Msgs : Begin(t, m) PROVE ProgressIsChange'
  <2>1. /\ pc[t] # "routed" /\ pc'[t] # "routed" /\ log' = log /\ progress' = progress
        /\ \A u \in Threads \ {t} : pc'[u] = pc[u] /\ job'[u] = job[u]
    BY <1>4 DEF Nudge, Begin, TypeOK
  <2>2. \A i \in DOMAIN log : Counted(i)' <=> Counted(i)
    BY <2>1 DEF Counted
  <2> QED
    BY <1>1, <2>1, <2>2
<1>5. ASSUME NEW a \in Agents, Register(a) \/ Settle(a)
      PROVE  UNCHANGED <<log, progress, pc, job>>
  BY <1>5 DEF Register, Settle
<1>6. ASSUME NEW a \in Pollers, Poll(a) PROVE UNCHANGED <<log, progress, pc, job>>
  BY <1>6 DEF Poll
<1>7. CASE UNCHANGED vars
  BY <1>2, <1>7 DEF vars
<1> QED
  BY <1>2, <1>3, <1>4, <1>5, <1>6, <1>7, CommitProgress DEF Next, Publish

-----------------------------------------------------------------------------
\* Theorems.

LEMMA InitInv == Init => IInv
<1> SUFFICES ASSUME Init PROVE IInv
  OBVIOUS
<1>1. TypeOK
  BY InitType
<1>2. log = <<>> /\ DOMAIN log = {} /\ Len(log) = 0 /\ DOMAIN queues = {}
  BY DEF Init
<1>3. \A t \in Threads : pc[t] = "idle"
  BY DEF Init
<1>4. SeqInv
  BY <1>2, <1>3 DEF SeqInv
<1>5. QuestionInv
  BY <1>2 DEF QuestionInv, Init
<1>6. InboxInv
  BY <1>2 DEF InboxInv
<1>7. \A b \in Names : Owing(b) = {} /\ Commits(b) = {} /\ Nudges(b) = {}
  <2>1. Supervisor \notin DOMAIN queues
    BY <1>2
  <2> QED
    BY <1>2, <1>3, <2>1 DEF Owing, Commits, Nudges
<1>8. OweInv
  BY <1>3, <1>7, FS_EmptySet DEF OweInv
<1>9. NudgePerCommit
  BY <1>7, FS_EmptySet DEF NudgePerCommit
<1>10. RowInv
  BY <1>2 DEF RowInv, Own, Final, Init, NoRow
<1>11. LastInv
  BY <1>2 DEF LastInv, Statuses, Init, NoRow
<1>12. ProgressIsChange
  BY <1>2 DEF ProgressIsChange
<1> QED
  BY <1>1, <1>4, <1>5, <1>6, <1>8, <1>9, <1>10, <1>11, <1>12 DEF IInv

\* The invariant the theorems below rest on.
THEOREM DeliveryInvariant == Spec => []IInv
<1>1. IInv /\ [Next]_vars => IInv'
  BY TypeStep, SeqStep, QuestionStep, InboxStep, NudgeStep, RowStep, LastStep,
     ProgressStep DEF IInv
<1> QED
  BY InitInv, <1>1, PTL DEF Spec

\* Every variable keeps its type, for any number of agents and threads.
THEOREM TypeCorrect == Spec => []TypeOK
<1>1. IInv => TypeOK
  BY DEF IInv
<1> QED
  BY <1>1, DeliveryInvariant, PTL

\* A number that occurs once in the log has one place in it.
LEMMA PlaceOfIs ==
    ASSUME SeqInv, NEW i \in DOMAIN log
    PROVE  PlaceOf(log[i].seq) = i
  BY DEF PlaceOf, SeqInv

\* What each agent finds in its inbox is its part of the log, in log order, and
\* no question is lost or stands there twice unread (route_message), however
\* many publishes overlap.
THEOREM InboxesAreExact == Spec => []InboxIsTheLog
<1>1. ASSUME IInv, NEW a \in DOMAIN queues
      PROVE  /\ \A k \in DOMAIN queues[a] :
                   \E i \in DOMAIN log : Due(a, i) /\ queues[a][k] = log[i]
             /\ \A i \in DOMAIN log :
                   Due(a, i) => \E k \in DOMAIN queues[a] : queues[a][k] = log[i]
             /\ \A k, l \in DOMAIN queues[a], i, j \in DOMAIN log :
                   k < l /\ queues[a][k] = log[i] /\ queues[a][l] = log[j] => i < j
  BY <1>1 DEF IInv, InboxInv
<1>2. ASSUME IInv, NEW i \in DOMAIN log PROVE PlaceOf(log[i].seq) = i
  BY <1>2, PlaceOfIs DEF IInv
<1>3. ASSUME IInv PROVE InboxFollowsLog
  <2> SUFFICES ASSUME NEW a \in DOMAIN queues
               PROVE  /\ \A i \in DOMAIN log :
                            Owed(a, i) => \E k \in DOMAIN queues[a] : queues[a][k] = log[i]
                      /\ \A k \in DOMAIN queues[a] :
                            \E i \in DOMAIN log : (Owed(a, i) \/ Asked(a, i)) /\ queues[a][k] = log[i]
                      /\ \A k, l \in DOMAIN queues[a] :
                            k < l => PlaceOf(queues[a][k].seq) < PlaceOf(queues[a][l].seq)
    BY DEF InboxFollowsLog
  <2>1. ASSUME NEW i \in DOMAIN log
        PROVE  /\ Owed(a, i) => Due(a, i)
               /\ Due(a, i) => Owed(a, i) \/ Asked(a, i)
    BY DEF Due
  <2>2. ASSUME NEW k \in DOMAIN queues[a], NEW l \in DOMAIN queues[a], k < l
        PROVE  PlaceOf(queues[a][k].seq) < PlaceOf(queues[a][l].seq)
    <3>1. PICK i \in DOMAIN log : queues[a][k] = log[i]
      BY <1>1, <1>3
    <3>2. PICK j \in DOMAIN log : queues[a][l] = log[j]
      BY <1>1, <1>3
    <3>3. i < j
      BY <1>1, <1>3, <2>2, <3>1, <3>2
    <3>4. PlaceOf(log[i].seq) = i /\ PlaceOf(log[j].seq) = j
      BY <1>2, <1>3
    <3> QED
      BY <3>1, <3>2, <3>3, <3>4
  <2> QED
    BY <1>1, <1>3, <2>1, <2>2
\* Only the first copy of a question is due.
<1>4. ASSUME IInv, NEW i \in DOMAIN log, NEW j \in DOMAIN log, Due(Supervisor, j),
             log[i].msg.kind = "question", SameQuestion(log[i].msg, log[j])
      PROVE  j <= i
  <2>1. log[j].msg.kind = "question" /\ SameQuestion(log[j].msg, log[i])
    BY <1>4 DEF SameQuestion
  <2>2. \A h \in 1..(j - 1) : ~SameQuestion(log[j].msg, log[h])
    BY <1>4, <2>1 DEF Due, Owed
  <2>3. i \in Nat /\ j \in Nat /\ 1 <= i
    BY <1>4, LogType DEF IInv, TypeOK
  <2> QED
    BY <2>1, <2>2, <2>3
<1>5. ASSUME IInv PROVE QuestionsAreAsked
  <2>1. ASSUME NEW i \in DOMAIN log, Asked(Supervisor, i)
        PROVE  /\ Supervisor \in DOMAIN queues
               /\ \E k \in DOMAIN queues[Supervisor] :
                     /\ SameQuestion(log[i].msg, queues[Supervisor][k])
                     /\ PlaceOf(queues[Supervisor][k].seq) <= i
    <3>1. log[i].msg.kind = "question"
      BY <2>1 DEF Asked
    <3>2. Supervisor \in DOMAIN queues
      BY <1>5, <3>1 DEF IInv, QuestionInv
    <3>3. PICK k \in DOMAIN queues[Supervisor] :
                 SameQuestion(log[i].msg, queues[Supervisor][k])
      BY <1>5, <3>1 DEF IInv, QuestionInv
    <3>4. PICK j \in DOMAIN log : Due(Supervisor, j) /\ queues[Supervisor][k] = log[j]
      BY <1>1, <1>5, <3>2
    <3>5. j <= i /\ PlaceOf(log[j].seq) = j
      BY <1>2, <1>4, <1>5, <3>1, <3>3, <3>4
    <3> QED
      BY <3>2, <3>3, <3>4, <3>5
  <2>2. ASSUME Supervisor \in DOMAIN queues,
               NEW k \in DOMAIN queues[Supervisor], NEW l \in DOMAIN queues[Supervisor],
               k < l, queues[Supervisor][l].msg.kind = "question",
               SameQuestion(queues[Supervisor][l].msg, queues[Supervisor][k])
        PROVE  FALSE
    <3>1. PICK i \in DOMAIN log : queues[Supervisor][k] = log[i]
      BY <1>1, <1>5, <2>2
    <3>2. PICK j \in DOMAIN log : Due(Supervisor, j) /\ queues[Supervisor][l] = log[j]
      BY <1>1, <1>5, <2>2
    <3>3. i < j
      BY <1>1, <1>5, <2>2, <3>1, <3>2
    <3>4. log[i].msg.kind = "question" /\ SameQuestion(log[i].msg, log[j])
      BY <2>2, <3>1, <3>2 DEF SameQuestion
    <3>5. j <= i
      BY <1>4, <1>5, <3>2, <3>4
    <3>6. i \in Nat /\ j \in Nat
      BY <1>5, LogType DEF IInv, TypeOK
    <3> QED
      BY <3>3, <3>5, <3>6
  <2> QED
    BY <2>1, <2>2 DEF QuestionsAreAsked
<1> QED
  BY <1>3, <1>5, DeliveryInvariant, PTL DEF InboxIsTheLog

\* The roster rows and the progress clock are what the log says of every
\* agent (update_agent_record, message_is_progress), whatever overlapped.
THEOREM RosterIsTheLog == Spec => []RosterFollowsLog
<1>1. ASSUME IInv, NEW a \in Names, NEW own, own = Own(a), NEW final, final = Final(a)
      PROVE  /\ rows[a].known <=> own # {}
             /\ own # {} =>
                  \/ \E i \in {i \in own : \A j \in own : j <= i} :
                        rows[a].status = Label(log[i].msg)
                  \/ \E i \in {i \in final : \A j \in final : j <= i} :
                        rows[a].status = Label(log[i].msg)
             /\ {i \in own : \A j \in own : j <= i} \subseteq final =>
                  \A i \in {i \in own : \A j \in own : j <= i} :
                     rows[a].status = Label(log[i].msg)
  BY <1>1 DEF IInv, RowInv, Newest
<1>2. ASSUME NEW a \in Names
      PROVE  /\ Own(a) = {i \in DOMAIN log :
                            /\ log[i].msg.from = a
                            /\ log[i].msg.kind \in {"status", "artifact", "blocked", "intent"}}
             /\ Final(a) = {i \in Own(a) : Label(log[i].msg) \in Terminal}
  BY DEF Own, Final, Upserts
<1>3. IInv => RowsFollowLog
  BY <1>1, <1>2 DEF RowsFollowLog
<1>4. IInv => RosterFollowsLog
  BY <1>3 DEF RosterFollowsLog, IInv
<1> QED
  BY <1>4, DeliveryInvariant, PTL

\* Every logged commit has its own verify-now nudge in the supervisor's inbox,
\* or a thread that is about to put it there.
THEOREM EveryCommitIsNudged == Spec => []NudgePerCommit
<1>1. IInv => NudgePerCommit
  BY DEF IInv
<1> QED
  BY <1>1, DeliveryInvariant, PTL
=============================================================================
