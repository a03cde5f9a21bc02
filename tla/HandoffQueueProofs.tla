------------------------- MODULE HandoffQueueProofs -------------------------
(***************************************************************************)
(* Theorems about HandoffQueue, for every set of agents, questions and     *)
(* judgment calls, every timeout and every lease.                          *)
(***************************************************************************)
EXTENDS HandoffQueue, FiniteSetTheorems, TLAPS

\* The type invariant, less the bounds the counters owe to each other.
TypeLoop == at \in Steps /\ flight \in Calls \union {None}
            /\ pending \in Seq(Calls) /\ accepted \in Seq(Calls)
TypeNumbers == /\ counts \in [Counted -> Nat] /\ begun \in Nat
               /\ calls \in 0 .. MaxCalls /\ ran \in Nat
TypeReport == report \in [counts : [Counted -> 0 .. MaxCalls], still_queued : 0 .. MaxCalls]
                         \union {None}
TypeWorld == /\ exit \in {"completed", "non_zero", None}
             /\ merged \subseteq Agents /\ unmerged \subseteq Agents
             /\ current \in BOOLEAN /\ rival \in BOOLEAN /\ age \in 0 .. Lease + 1
Types == TypeLoop /\ TypeNumbers /\ TypeReport /\ TypeWorld

\* What waits is what was accepted and not begun; what runs was begun last.
QueueInv == /\ begun <= Len(accepted)
            /\ pending = SubSeq(accepted, begun + 1, Len(accepted))
            /\ flight # None => begun > 0 /\ flight = accepted[begun]

\* The one in flight is the only one begun that is in no bucket yet, and
\* nothing is accepted or capped without a judgment call.
InFlight == IF flight = None THEN 0 ELSE 1
CountInv == /\ Settled(counts) + InFlight = begun
            /\ Len(accepted) + counts["capped"] <= calls

\* The loop sleeps and waits only beside a one-shot that has time left.
RanInv == /\ ran <= Timeout
          /\ at \in {"sleep", "wait"} => ran < Timeout

\* A process runs only while the queue knows of it, and has not then exited.
AliveInv == /\ alive \subseteq Running
            /\ exit # None => alive = {}

\* Past the drain nothing is in flight, and the report is of that moment.
Reported == {"merges", "over"}
ExitInv == /\ at \in {"report"} \union Reported => flight = None
           /\ report # None => /\ at \in Reported
                               /\ Settled(report.counts) + report.still_queued = Len(accepted)
           /\ Over => unmerged = Agents \ merged

\* A loop that still ticks has a lease younger than its window, so a rival can
\* only come once it no longer does.
LeaseInv == /\ at \in {"check", "poll", "pump", "sleep"} => age <= 1
            /\ at \in {"poll", "pump", "sleep"} => age = 0
            /\ at = "abort" => ~current
            /\ rival => at \in {"drain", "wait", "report"} \union Reported

HandoffInv == /\ QueueInv /\ CountInv /\ RanInv /\ AliveInv /\ ExitInv /\ LeaseInv
IInv == Types /\ HandoffInv

-----------------------------------------------------------------------------
\* The rest of a sequence after its first m elements: dropping k more, taking
\* its head and tail, and appending.
LEMMA RestOfRest ==
    ASSUME NEW S, NEW q \in Seq(S), NEW m \in 0 .. Len(q), NEW p,
           p = SubSeq(q, m + 1, Len(q)), NEW k \in 0 .. Len(p)
    PROVE  /\ p \in Seq(S) /\ Len(p) = Len(q) - m /\ m + k \in 0 .. Len(q)
           /\ SubSeq(p, k + 1, Len(p)) = SubSeq(q, m + k + 1, Len(q))
OBVIOUS

LEMMA HeadOfRest ==
    ASSUME NEW S, NEW q \in Seq(S), NEW m \in 0 .. Len(q), NEW p,
           p = SubSeq(q, m + 1, Len(q)), p # <<>>
    PROVE  /\ m + 1 \in 1 .. Len(q) /\ Head(p) = q[m + 1] /\ Head(p) \in S
           /\ Tail(p) = SubSeq(q, m + 2, Len(q)) /\ Tail(p) \in Seq(S)
OBVIOUS

LEMMA AppendToRest ==
    ASSUME NEW S, NEW q \in Seq(S), NEW m \in 0 .. Len(q), NEW e \in S
    PROVE  /\ Append(SubSeq(q, m + 1, Len(q)), e)
                = SubSeq(Append(q, e), m + 1, Len(Append(q, e)))
           /\ Append(q, e) \in Seq(S) /\ Len(Append(q, e)) = Len(q) + 1
           /\ \A i \in 1 .. Len(q) : Append(q, e)[i] = q[i]
OBVIOUS

\* One process at most is the queue's own.
LEMMA RunningCard == Cardinality(Running) = InFlight
BY FS_EmptySet, FS_Singleton DEF Running, InFlight

\* The counters stay below the calls, so the strengthened types are the types.
LEMMA TypesGiveTypeOK == IInv => TypeOK
<1> SUFFICES ASSUME IInv PROVE TypeOK
  OBVIOUS
<1> USE BoundAssumption, TimeAssumption
<1>1. Len(accepted) \in Nat /\ Len(accepted) <= MaxCalls /\ begun <= MaxCalls
      /\ counts["capped"] \in Nat
  BY DEF IInv, Types, HandoffInv, TypeLoop, TypeNumbers, QueueInv, CountInv, Counted
<1>2. \A c \in Counted : counts[c] \in 0 .. MaxCalls
  BY <1>1 DEF IInv, Types, HandoffInv, TypeNumbers, CountInv, InFlight, Settled, Counted,
              Results
<1>3. alive \subseteq 1 .. MaxCalls
  BY <1>1 DEF IInv, Types, HandoffInv, TypeNumbers, AliveInv, QueueInv, Running
<1> QED
  BY <1>1, <1>2, <1>3
     DEF IInv, Types, HandoffInv, TypeLoop, TypeNumbers, TypeReport, TypeWorld, RanInv,
         TypeOK

\* What a poll can say of the process in flight is one of the six outcomes, and
\* only one that has run out of its time is said to have timed out.
LEMMA PollOutcomes ==
    ASSUME IInv, NEW result \in PollResults
    PROVE  \/ result = "idle" /\ flight = None
           \/ result \in Results \union {"failed"} /\ flight # None
              /\ (result \in {"completed", "non_zero"} => exit # None)
           \/ result = "running" /\ flight # None /\ ran < Timeout
BY TimeAssumption
   DEF IInv, Types, TypeNumbers, TypeWorld, PollResults, Results

\* An outcome adds one to the buckets when something ran, a hand-off that was
\* not spawned adds one as well, and what was capped is not touched.
LEMMA RecordAdds ==
    ASSUME counts \in [Counted -> Nat], NEW fails \in Nat,
           NEW result \in {"idle", "running", "failed"} \union Results
    PROVE  /\ Record(result, fails) \in [Counted -> Nat]
           /\ Record(result, fails)["capped"] = counts["capped"]
           /\ Settled(Record(result, fails))
                = Settled(counts) + fails
                  + (IF result \in {"idle", "running"} THEN 0 ELSE 1)
<1> DEFINE r == Record(result, fails)
<1>1. \A c \in Counted : /\ counts[c] \in Nat
                         /\ r[c] = counts[c] + (IF result = c THEN 1 ELSE 0)
                              + (IF c = "non_zero"
                                 THEN fails + (IF result = "failed" THEN 1 ELSE 0) ELSE 0)
  BY DEF Record
<1>2. r \in [Counted -> Nat]
  BY DEF Record
<1>3. /\ r["completed"] = counts["completed"] + (IF result = "completed" THEN 1 ELSE 0)
      /\ r["timed_out"] = counts["timed_out"] + (IF result = "timed_out" THEN 1 ELSE 0)
      /\ r["capped"] = counts["capped"]
      /\ r["non_zero"] = counts["non_zero"] + (IF result = "non_zero" THEN 1 ELSE 0)
                         + fails + (IF result = "failed" THEN 1 ELSE 0)
  BY <1>1 DEF Counted, Results
<1>4. /\ counts["completed"] \in Nat /\ counts["timed_out"] \in Nat
      /\ counts["capped"] \in Nat /\ counts["non_zero"] \in Nat
  BY <1>1 DEF Counted, Results
<1> HIDE DEF r
<1>5. Settled(r) = Settled(counts) + fails
                   + (IF result \in {"idle", "running"} THEN 0 ELSE 1)
  BY <1>3, <1>4 DEF Settled, Results
<1> QED
  BY <1>2, <1>3, <1>5 DEF r

\* The pump keeps the books: what it starts or gives up is the front of what
\* was accepted, what it ends is counted, and only what it started runs.
LEMMA PumpKeepsBooks ==
    ASSUME IInv, NEW dequeue \in BOOLEAN, Pump(dequeue)
    PROVE  /\ flight' \in Calls \union {None}
           /\ pending' \in Seq(Calls) /\ accepted' \in Seq(Calls)
           /\ TypeNumbers' /\ exit' \in {"completed", "non_zero", None}
           /\ QueueInv' /\ CountInv' /\ AliveInv'
           /\ ran' <= Timeout /\ ran' < Timeout
           /\ ~dequeue => flight' \in {flight, None}
<1> USE TimeAssumption
<1>1. PICK result \in PollResults, fails \in 0 .. Len(pending) :
        LET free == result # "running"
            left == SubSeq(pending, fails + 1, Len(pending))
        IN /\ ~(dequeue /\ free) => fails = 0
           /\ counts' = Record(result, fails)
           /\ IF dequeue /\ free /\ left # <<>>
              THEN /\ flight' = Head(left) /\ pending' = Tail(left)
                   /\ begun' = begun + fails + 1
                   /\ alive' = (alive \ Killed(result)) \union {begun'}
              ELSE /\ flight' = (IF free THEN None ELSE flight) /\ pending' = left
                   /\ begun' = begun + fails
                   /\ alive' = alive \ Killed(result)
           /\ exit' = (IF free THEN None ELSE exit) /\ ran' = (IF free THEN 0 ELSE ran)
           /\ UNCHANGED <<accepted, calls>>
  BY DEF Pump
<1> DEFINE free == result # "running"
           left == SubSeq(pending, fails + 1, Len(pending))
<1>2. /\ ~(dequeue /\ free) => fails = 0
      /\ counts' = Record(result, fails)
      /\ exit' = (IF free THEN None ELSE exit) /\ ran' = (IF free THEN 0 ELSE ran)
      /\ accepted' = accepted /\ calls' = calls
  BY <1>1
<1>3. \/ result = "idle" /\ flight = None
      \/ result \in Results \union {"failed"} /\ flight # None
         /\ (result \in {"completed", "non_zero"} => exit # None)
      \/ result = "running" /\ flight # None /\ ran < Timeout
  BY PollOutcomes
<1>4. begun \in 0 .. Len(accepted) /\ accepted \in Seq(Calls)
      /\ pending = SubSeq(accepted, begun + 1, Len(accepted)) /\ Len(accepted) \in Nat
  BY DEF IInv, Types, HandoffInv, TypeLoop, TypeNumbers, QueueInv
<1>5. /\ fails \in Nat /\ begun + fails \in 0 .. Len(accepted)
      /\ left = SubSeq(accepted, begun + fails + 1, Len(accepted))
      /\ left \in Seq(Calls)
  BY <1>4, RestOfRest
<1> HIDE DEF left
<1>6. /\ counts' \in [Counted -> Nat] /\ counts'["capped"] = counts["capped"]
      /\ Settled(counts') = Settled(counts) + fails
                            + (IF result \in {"idle", "running"} THEN 0 ELSE 1)
  BY <1>2, <1>3, <1>5, RecordAdds DEF IInv, Types, TypeNumbers
<1>7. alive \ Killed(result) \subseteq (IF free THEN {} ELSE {begun})
  <2>1. CASE result \in {"idle", "running"}
    BY <1>3, <2>1 DEF IInv, HandoffInv, AliveInv, Running, Results, Killed
  <2>2. CASE result \in {"failed", "timed_out"}
    BY <1>3, <2>2 DEF IInv, HandoffInv, AliveInv, Running, Killed
  <2>3. CASE result \in {"completed", "non_zero"}
    BY <1>3, <2>3 DEF IInv, HandoffInv, AliveInv
  <2> QED
    BY <1>3, <2>1, <2>2, <2>3 DEF Results
<1>8. ran' < Timeout /\ ran' <= Timeout /\ ran' \in Nat
      /\ exit' \in {"completed", "non_zero", None}
  BY <1>2, <1>3 DEF IInv, Types, TypeNumbers, TypeWorld, Results
<1>9. Settled(counts) + InFlight = begun /\ Len(accepted) + counts["capped"] <= calls
      /\ Settled(counts) \in Nat /\ calls \in 0 .. MaxCalls
  BY DEF IInv, HandoffInv, Types, TypeNumbers, CountInv, Settled, Counted, Results
<1>12. /\ Settled(counts') + (IF free THEN 0 ELSE 1) = begun + fails
       /\ Len(accepted') + counts'["capped"] <= calls'
  <2> DEFINE n == Settled(counts)
             m == Settled(counts')
  <2>1. n \in Nat /\ begun \in Nat /\ fails \in Nat
        /\ n + (IF flight = None THEN 0 ELSE 1) = begun
        /\ m = n + fails + (IF result \in {"idle", "running"} THEN 0 ELSE 1)
    BY <1>4, <1>5, <1>6, <1>9 DEF InFlight
  <2> HIDE DEF n, m
  <2>2. m + (IF free THEN 0 ELSE 1) = begun + fails
    BY <1>3, <2>1 DEF Results
  <2> QED
    BY <1>2, <1>6, <1>9, <2>2 DEF m
<1>10. CASE dequeue /\ free /\ left # <<>>
  <2>1. /\ flight' = Head(left) /\ pending' = Tail(left)
        /\ begun' = begun + fails + 1 /\ alive' = (alive \ Killed(result)) \union {begun'}
    BY <1>1, <1>10 DEF left
  <2>2. /\ begun + fails + 1 \in 1 .. Len(accepted)
        /\ flight' = accepted[begun'] /\ flight' \in Calls /\ pending' \in Seq(Calls)
        /\ pending' = SubSeq(accepted, begun' + 1, Len(accepted))
    <3> DEFINE m == begun + fails
    <3>1. /\ m \in 0 .. Len(accepted) /\ accepted \in Seq(Calls)
          /\ left = SubSeq(accepted, m + 1, Len(accepted)) /\ left # <<>>
      BY <1>4, <1>5, <1>10
    <3>2. m \in Int /\ begun' = m + 1
      BY <1>5, <2>1
    <3> HIDE DEF m
    <3>3. /\ m + 1 \in 1 .. Len(accepted) /\ Head(left) = accepted[m + 1]
          /\ Head(left) \in Calls /\ Tail(left) \in Seq(Calls)
          /\ Tail(left) = SubSeq(accepted, m + 2, Len(accepted))
      BY <3>1, HeadOfRest
    <3>4. m + 2 = begun' + 1
      BY <3>2
    <3> QED
      BY <2>1, <3>2, <3>3, <3>4 DEF m
  <2>3. QueueInv' /\ TypeNumbers'
    <3>1. begun' \in 1 .. Len(accepted) /\ begun' \in Nat
      BY <1>4, <2>1, <2>2
    <3> QED
      BY <1>2, <1>4, <1>6, <1>8, <1>9, <2>2, <3>1 DEF QueueInv, TypeNumbers
  <2>4. flight' # None
    BY <2>2, CallsAssumption
  <2>5. CountInv'
    <3>1. Settled(counts') = begun + fails /\ begun + fails \in Nat
      BY <1>4, <1>5, <1>10, <1>12, <1>6 DEF Settled, Counted, Results
    <3>2. Settled(counts') + 1 = begun'
      BY <2>1, <3>1
    <3> QED
      BY <1>12, <2>4, <3>2 DEF CountInv, InFlight
  <2>6. AliveInv'
    BY <1>2, <1>7, <1>10, <2>1, <2>4 DEF AliveInv, Running
  <2> QED
    BY <1>2, <1>4, <1>8, <1>10, <2>2, <2>3, <2>5, <2>6
<1>11. CASE ~(dequeue /\ free /\ left # <<>>)
  <2>1. /\ flight' = (IF free THEN None ELSE flight) /\ pending' = left
        /\ begun' = begun + fails /\ alive' = alive \ Killed(result)
    BY <1>1, <1>11 DEF left
  <2>2. ~free => fails = 0 /\ flight' = flight /\ begun' = begun
    BY <1>2, <1>4, <2>1
  <2>3. QueueInv' /\ TypeNumbers'
    <3>1. /\ begun' \in 0 .. Len(accepted) /\ begun' \in Nat
          /\ pending' = SubSeq(accepted', begun' + 1, Len(accepted'))
      BY <1>2, <1>4, <1>5, <2>1
    <3>2. TypeNumbers'
      BY <1>2, <1>6, <1>8, <1>9, <3>1 DEF TypeNumbers
    <3>3. flight' # None => begun' > 0 /\ flight' = accepted[begun']
      BY <1>3, <2>1, <2>2 DEF QueueInv, IInv, HandoffInv
    <3> QED
      BY <1>2, <1>4, <3>1, <3>2, <3>3 DEF QueueInv
  <2>4. CountInv'
    <3>1. flight' # None <=> ~free
      BY <1>3, <2>1, <2>2
    <3> QED
      BY <1>12, <2>1, <3>1 DEF CountInv, InFlight
  <2>5. AliveInv'
    <3>1. CASE free
      BY <1>2, <1>7, <2>1, <3>1 DEF AliveInv
    <3>2. CASE ~free
      BY <1>2, <1>3, <2>1, <2>2, <3>2
         DEF AliveInv, Running, Killed, IInv, HandoffInv, Results
    <3> QED
      BY <3>1, <3>2
  <2> QED
    BY <1>2, <1>4, <1>5, <1>8, <2>1, <2>3, <2>4, <2>5 DEF IInv, Types, TypeLoop
<1> QED
  BY <1>10, <1>11

\* What a step of the loop that leaves the queue alone keeps.
LEMMA QueueAlone ==
    ASSUME IInv, UNCHANGED <<queue, processes, history>>
    PROVE  /\ QueueInv' /\ CountInv' /\ AliveInv' /\ TypeNumbers'
           /\ (at' \in Steps => TypeLoop') /\ ran' <= Timeout
BY DEF IInv, Types, HandoffInv, TypeLoop, TypeNumbers, QueueInv, CountInv, AliveInv, RanInv,
       queue, processes, history, Running, InFlight, Settled

\* A judgment call leaves the books balanced.
LEMMA EnqueueKeepsBooks ==
    ASSUME IInv, at = "poll", NEW h \in Calls, Enqueue(h),
           UNCHANGED <<at, processes>>
    PROVE  TypeLoop' /\ TypeNumbers' /\ QueueInv' /\ CountInv' /\ AliveInv' /\ RanInv'
<1> USE BoundAssumption
<1>1. /\ calls' = calls + 1 /\ calls' \in 0 .. MaxCalls
      /\ flight' = flight /\ ran' = ran /\ begun' = begun
      /\ AliveInv' /\ RanInv'
  BY DEF Enqueue, IInv, Types, TypeNumbers, HandoffInv, AliveInv, RanInv, processes, Running
<1>2. /\ accepted \in Seq(Calls) /\ pending \in Seq(Calls)
      /\ begun \in 0 .. Len(accepted) /\ Len(accepted) \in Nat
      /\ pending = SubSeq(accepted, begun + 1, Len(accepted))
      /\ counts \in [Counted -> Nat] /\ counts["capped"] \in Nat
      /\ Len(accepted) + counts["capped"] <= calls /\ Settled(counts) + InFlight = begun
  BY DEF IInv, Types, TypeLoop, TypeNumbers, HandoffInv, QueueInv, CountInv, Counted
<1>3. CASE UNCHANGED <<pending, counts, accepted>>
  BY <1>1, <1>2, <1>3
     DEF TypeLoop, TypeNumbers, QueueInv, CountInv, InFlight, IInv, Types, HandoffInv
<1>4. CASE counts' = [counts EXCEPT !["capped"] = @ + 1] /\ UNCHANGED <<pending, accepted>>
  <2>1. /\ counts' \in [Counted -> Nat] /\ Settled(counts') = Settled(counts)
        /\ counts'["capped"] = counts["capped"] + 1
    BY <1>2, <1>4 DEF Settled, Counted, Results
  <2>2. CountInv'
    BY <1>1, <1>2, <1>4, <2>1 DEF CountInv, InFlight, IInv, Types, TypeNumbers
  <2> QED
    BY <1>1, <1>2, <1>4, <2>1, <2>2
       DEF TypeLoop, TypeNumbers, QueueInv, IInv, Types, HandoffInv
<1>5. CASE /\ pending' = Queued(h) /\ accepted' = Append(accepted, h) /\ UNCHANGED counts
  <2>1. /\ pending' = SubSeq(accepted', begun + 1, Len(accepted'))
        /\ accepted' \in Seq(Calls) /\ Len(accepted') = Len(accepted) + 1
        /\ \A i \in 1 .. Len(accepted) : accepted'[i] = accepted[i]
        /\ pending' \in Seq(Calls)
    <3>1. /\ Append(SubSeq(accepted, begun + 1, Len(accepted)), h)
               = SubSeq(Append(accepted, h), begun + 1, Len(Append(accepted, h)))
          /\ Append(accepted, h) \in Seq(Calls)
          /\ Len(Append(accepted, h)) = Len(accepted) + 1
          /\ \A i \in 1 .. Len(accepted) : Append(accepted, h)[i] = accepted[i]
      BY <1>2, AppendToRest
    <3>2. Append(pending, h) \in Seq(Calls)
      BY <1>2
    <3> QED
      BY <1>2, <1>5, <3>1, <3>2 DEF Queued
  <2>2. QueueInv'
    <3>1. flight' # None => begun' > 0 /\ flight' = accepted'[begun']
      BY <1>1, <1>2, <2>1 DEF QueueInv, IInv, HandoffInv
    <3> QED
      BY <1>1, <1>2, <2>1, <3>1 DEF QueueInv
  <2>3. CountInv'
    BY <1>1, <1>2, <1>5, <2>1 DEF CountInv, InFlight, IInv, Types, TypeNumbers
  <2> QED
    BY <1>1, <1>2, <1>5, <2>1, <2>2, <2>3 DEF TypeLoop, TypeNumbers, IInv, Types
<1> QED
  BY <1>3, <1>4, <1>5 DEF Enqueue

\* A kill counts the one in flight, and nothing runs after it.
LEMMA AbortKeepsBooks ==
    ASSUME IInv, Abort
    PROVE  /\ flight' = None /\ alive' = {} /\ pending' = pending /\ accepted' = accepted
           /\ TypeNumbers' /\ exit' = None /\ ran' = 0
           /\ QueueInv' /\ CountInv' /\ AliveInv'
<1> DEFINE result == IF flight = None THEN "idle" ELSE "failed"
<1>1. /\ flight' = None /\ exit' = None /\ ran' = 0
      /\ pending' = pending /\ accepted' = accepted /\ begun' = begun /\ calls' = calls
      /\ counts' = Record(result, 0)
  BY DEF Abort, history
<1>2. alive' = {}
  BY DEF Abort, IInv, HandoffInv, AliveInv, Running
<1>3. /\ counts' \in [Counted -> Nat] /\ counts'["capped"] = counts["capped"]
      /\ Settled(counts') = Settled(counts) + 0
                            + (IF result \in {"idle", "running"} THEN 0 ELSE 1)
  BY <1>1, RecordAdds DEF IInv, Types, TypeNumbers
<1>4. /\ Settled(counts) \in Nat /\ begun \in Nat /\ Settled(counts) + InFlight = begun
  BY DEF IInv, HandoffInv, Types, TypeNumbers, CountInv, Settled, Counted, Results
<1>5. Settled(counts') = begun
  BY <1>3, <1>4 DEF InFlight
<1>6. CountInv'
  BY <1>1, <1>3, <1>4, <1>5 DEF CountInv, InFlight, IInv, HandoffInv
<1> QED
  BY <1>1, <1>2, <1>3, <1>6
     DEF TypeNumbers, QueueInv, AliveInv, IInv, Types, HandoffInv

\* The start of a loop satisfies the invariant.
LEMMA InitIInv == Init => IInv
<1> SUFFICES ASSUME Init PROVE IInv
  OBVIOUS
<1> USE BoundAssumption, TimeAssumption
<1>1. Settled(counts) = 0 /\ counts \in [Counted -> Nat] /\ counts["capped"] = 0
  BY DEF Init, Settled, Counted, Results
<1>2. pending = SubSeq(accepted, begun + 1, Len(accepted)) /\ Len(accepted) = 0
      /\ pending \in Seq(Calls) /\ accepted \in Seq(Calls)
  BY DEF Init
<1>3. Types
  <2>1. TypeLoop
    BY <1>2 DEF Init, TypeLoop, Steps
  <2>2. TypeNumbers /\ TypeReport
    BY <1>1 DEF Init, TypeNumbers, TypeReport
  <2>3. TypeWorld
    <3>1. age \in 0 .. Lease + 1
      BY DEF Init
    <3> QED
      BY <3>1, Zenon DEF Init, TypeWorld
  <2> QED
    BY <2>1, <2>2, <2>3 DEF Types
<1>4. QueueInv /\ CountInv
  BY <1>1, <1>2 DEF Init, QueueInv, CountInv, InFlight
<1>5. RanInv /\ AliveInv /\ ExitInv /\ LeaseInv
  BY DEF Init, RanInv, AliveInv, ExitInv, LeaseInv, Reported, Over
<1> QED
  BY <1>3, <1>4, <1>5 DEF IInv, HandoffInv

\* Every step of the loop, the one-shots and the session keeps it.
LEMMA StepIInv == IInv /\ [Next]_vars => IInv'
<1> SUFFICES ASSUME IInv, [Next]_vars PROVE IInv'
  OBVIOUS
<1> USE BoundAssumption, TimeAssumption
<1>0. /\ TypeLoop /\ TypeNumbers /\ TypeReport /\ TypeWorld
      /\ QueueInv /\ CountInv /\ RanInv /\ AliveInv /\ ExitInv /\ LeaseInv
  BY DEF IInv, Types, HandoffInv
<1>1. CASE Check
  <2>1. QueueInv' /\ CountInv' /\ AliveInv' /\ TypeNumbers'
        /\ (at' \in Steps => TypeLoop') /\ ran' <= Timeout
    BY <1>1, QueueAlone DEF Check
  <2>2. TypeLoop' /\ TypeReport' /\ TypeWorld'
    BY <1>0, <1>1, <2>1
       DEF Check, Goto, Steps, summary, processes, TypeReport, TypeWorld
  <2>3. RanInv' /\ ExitInv' /\ LeaseInv'
    BY <1>0, <1>1
       DEF Check, Goto, queue, summary, processes, history, TypeWorld, RanInv, ExitInv,
           LeaseInv, Reported, Over
  <2> QED
    BY <2>1, <2>2, <2>3 DEF IInv, Types, HandoffInv
<1>2. ASSUME NEW h \in Calls, HandOff(h) PROVE IInv'
  <2>1. TypeLoop' /\ TypeNumbers' /\ QueueInv' /\ CountInv' /\ AliveInv' /\ RanInv'
    BY <1>2, EnqueueKeepsBooks DEF HandOff
  <2>2. TypeReport' /\ TypeWorld' /\ ExitInv' /\ LeaseInv'
    BY <1>0, <1>2
       DEF HandOff, Enqueue, summary, processes, session, TypeReport, TypeWorld, ExitInv,
           LeaseInv, Reported, Over
  <2> QED
    BY <2>1, <2>2 DEF IInv, Types, HandoffInv
<1>3. CASE EndPoll
  <2>1. QueueInv' /\ CountInv' /\ AliveInv' /\ TypeNumbers'
        /\ (at' \in Steps => TypeLoop') /\ ran' <= Timeout
    BY <1>3, QueueAlone DEF EndPoll
  <2>2. TypeLoop' /\ TypeReport' /\ TypeWorld' /\ RanInv' /\ ExitInv' /\ LeaseInv'
    BY <1>0, <1>3, <2>1
       DEF EndPoll, Goto, Steps, queue, summary, processes, session, history, TypeReport,
           TypeWorld, RanInv, ExitInv, LeaseInv, Reported, Over
  <2> QED
    BY <2>1, <2>2 DEF IInv, Types, HandoffInv
<1>4. CASE PumpTick
  <2>1. Pump(TRUE)
    BY <1>4 DEF PumpTick
  <2>2. /\ flight' \in Calls \union {None}
        /\ pending' \in Seq(Calls) /\ accepted' \in Seq(Calls)
        /\ TypeNumbers' /\ exit' \in {"completed", "non_zero", None}
        /\ QueueInv' /\ CountInv' /\ AliveInv'
        /\ ran' <= Timeout /\ ran' < Timeout
    BY <2>1, PumpKeepsBooks
  <2>3. TypeLoop' /\ TypeReport' /\ TypeWorld'
    BY <1>0, <1>4, <2>2
       DEF PumpTick, Goto, Steps, summary, session, TypeLoop, TypeReport, TypeWorld
  <2>4. RanInv' /\ ExitInv' /\ LeaseInv'
    BY <1>0, <1>4, <2>2
       DEF PumpTick, Goto, summary, session, RanInv, ExitInv, LeaseInv, Reported, Over
  <2> QED
    BY <2>2, <2>3, <2>4 DEF IInv, Types, HandoffInv
<1>5. ASSUME Sleep \/ Wait PROVE IInv'
  <2>1. /\ at \in {"sleep", "wait"} /\ at' \in {"check", "drain"}
        /\ at = "sleep" => at' = "check"
        /\ at = "wait" => at' = "drain"
        /\ Tick
    BY <1>5 DEF Sleep, Wait, Goto
  <2>2. ran \in Nat /\ ran < Timeout /\ ran' \in Nat /\ ran' <= Timeout
    BY <1>0, <2>1 DEF Tick, TypeNumbers, RanInv
  <2>3. TypeLoop' /\ TypeNumbers' /\ TypeReport' /\ TypeWorld'
    BY <1>0, <2>1, <2>2
       DEF Tick, Steps, summary, processes, history, TypeLoop, TypeNumbers, TypeReport,
           TypeWorld
  <2>4. QueueInv' /\ CountInv' /\ AliveInv'
    BY <1>0, <2>1
       DEF Tick, processes, history, QueueInv, CountInv, AliveInv, InFlight, Running
  <2>5. RanInv' /\ ExitInv' /\ LeaseInv'
    BY <1>0, <2>1, <2>2
       DEF Tick, summary, processes, history, TypeWorld, RanInv, ExitInv, LeaseInv,
           Reported, Over
  <2> QED
    BY <2>3, <2>4, <2>5 DEF IInv, Types, HandoffInv
<1>6. CASE Drain
  <2>1. Pump(FALSE)
    BY <1>6 DEF Drain
  <2>2. /\ flight' \in Calls \union {None}
        /\ pending' \in Seq(Calls) /\ accepted' \in Seq(Calls)
        /\ TypeNumbers' /\ exit' \in {"completed", "non_zero", None}
        /\ QueueInv' /\ CountInv' /\ AliveInv'
        /\ ran' <= Timeout /\ ran' < Timeout
    BY <2>1, PumpKeepsBooks
  <2>3. TypeLoop' /\ TypeReport' /\ TypeWorld'
    BY <1>0, <1>6, <2>2
       DEF Drain, Steps, summary, session, TypeLoop, TypeReport, TypeWorld
  <2>4. RanInv' /\ ExitInv' /\ LeaseInv'
    BY <1>0, <1>6, <2>2
       DEF Drain, summary, session, RanInv, ExitInv, LeaseInv, Reported, Over
  <2> QED
    BY <2>2, <2>3, <2>4 DEF IInv, Types, HandoffInv
<1>7. CASE AbortTorn
  <2>1. /\ flight' = None /\ alive' = {} /\ pending' = pending /\ accepted' = accepted
        /\ TypeNumbers' /\ exit' = None /\ ran' = 0
        /\ QueueInv' /\ CountInv' /\ AliveInv'
    BY <1>7, AbortKeepsBooks DEF AbortTorn
  <2>2. TypeLoop' /\ TypeReport' /\ TypeWorld' /\ RanInv' /\ ExitInv' /\ LeaseInv'
    BY <1>0, <1>7, <2>1
       DEF AbortTorn, Goto, Steps, summary, session, TypeLoop, TypeReport, TypeWorld,
           RanInv, ExitInv, LeaseInv, Reported, Over
  <2> QED
    BY <2>1, <2>2 DEF IInv, Types, HandoffInv
<1>8. CASE Report
  <2>1. QueueInv' /\ CountInv' /\ AliveInv' /\ TypeNumbers'
        /\ (at' \in Steps => TypeLoop') /\ ran' <= Timeout
    BY <1>8, QueueAlone DEF Report
  <2>2. /\ pending = SubSeq(accepted, begun + 1, Len(accepted))
        /\ begun \in 0 .. Len(accepted) /\ accepted \in Seq(Calls)
        /\ Len(pending) = Len(accepted) - begun /\ Len(accepted) \in Nat
        /\ Settled(counts) = begun
    BY <1>0, <1>8
       DEF Report, Goto, TypeLoop, TypeNumbers, QueueInv, CountInv, ExitInv, InFlight, Settled,
           Counted, Results
  <2>3. report' = [counts |-> counts, still_queued |-> Len(pending)]
    BY <1>8 DEF Report
  <2>4. Settled(report'.counts) + report'.still_queued = Len(accepted')
    BY <1>8, <2>2, <2>3 DEF Report, history
  <2>5. TypeReport'
    BY <1>0, <2>2, <2>3, TypesGiveTypeOK
       DEF TypeReport, TypeOK, TypeNumbers, CountInv, Counted
  <2>6. TypeLoop' /\ TypeWorld' /\ RanInv' /\ LeaseInv'
    BY <1>0, <1>8, <2>1
       DEF Report, Goto, Steps, queue, processes, session, TypeWorld, RanInv, LeaseInv,
           Reported
  <2>7. ExitInv'
    BY <1>0, <1>8, <2>4
       DEF Report, Goto, queue, processes, session, history, ExitInv, Reported, Over
  <2> QED
    BY <2>1, <2>5, <2>6, <2>7 DEF IInv, Types, HandoffInv
<1>9. CASE JudgeMerges
  <2>1. QueueInv' /\ CountInv' /\ AliveInv' /\ TypeNumbers'
        /\ (at' \in Steps => TypeLoop') /\ ran' <= Timeout
    BY <1>9, QueueAlone DEF JudgeMerges
  <2>2. TypeLoop' /\ TypeReport' /\ TypeWorld' /\ RanInv' /\ ExitInv' /\ LeaseInv'
    BY <1>0, <1>9, <2>1
       DEF JudgeMerges, Goto, Steps, queue, processes, session, history, TypeReport,
           TypeWorld, RanInv, ExitInv, LeaseInv, Reported, Over
  <2> QED
    BY <2>1, <2>2 DEF IInv, Types, HandoffInv
<1>10. ASSUME NEW a \in Agents, OneShotMerges(a) PROVE IInv'
  <2>1. at' = at /\ at # "over"
    BY <1>0, <1>10
       DEF OneShotMerges, AliveInv, Running, ExitInv, Reported
  <2>2. Types'
    BY <1>0, <1>10
       DEF OneShotMerges, queue, summary, session, history, Types, TypeLoop, TypeNumbers,
           TypeReport, TypeWorld
  <2>3. QueueInv' /\ CountInv' /\ RanInv' /\ AliveInv' /\ LeaseInv'
    BY <1>0, <1>10
       DEF OneShotMerges, queue, session, history, QueueInv, CountInv, RanInv, AliveInv,
           LeaseInv, InFlight, Running
  <2>4. ExitInv'
    BY <1>0, <1>10, <2>1
       DEF OneShotMerges, queue, summary, history, ExitInv, Reported, Over
  <2> QED
    BY <2>2, <2>3, <2>4 DEF IInv, HandoffInv
<1>11. ASSUME NEW n \in alive, OneShotExits(n) PROVE IInv'
  <2>1. n = begun /\ flight # None /\ alive' = {}
    BY <1>0, <1>11 DEF OneShotExits, AliveInv, Running
  <2>2. Types' /\ AliveInv'
    BY <1>0, <1>11, <2>1
       DEF OneShotExits, queue, summary, session, history, Types, TypeLoop, TypeNumbers,
           TypeReport, TypeWorld, AliveInv
  <2>3. QueueInv' /\ CountInv' /\ RanInv' /\ ExitInv' /\ LeaseInv'
    BY <1>0, <1>11
       DEF OneShotExits, queue, summary, session, history, QueueInv, CountInv, RanInv,
           ExitInv, LeaseInv, InFlight, Reported, Over
  <2> QED
    BY <2>2, <2>3 DEF IInv, HandoffInv
<1>12. ASSUME SessionEnds \/ TakeOver PROVE IInv'
  <2>1. QueueInv' /\ CountInv' /\ AliveInv' /\ TypeNumbers'
        /\ (at' \in Steps => TypeLoop') /\ ran' <= Timeout
    BY <1>12, QueueAlone DEF SessionEnds, TakeOver
  <2>2. TypeLoop' /\ TypeReport' /\ TypeWorld'
    BY <1>0, <1>12, <2>1
       DEF SessionEnds, TakeOver, summary, processes, TypeLoop, TypeReport, TypeWorld
  <2>3. RanInv' /\ ExitInv'
    BY <1>0, <1>12
       DEF SessionEnds, TakeOver, queue, summary, processes, history, RanInv, ExitInv,
           Reported, Over
  <2>4. LeaseInv'
    BY <1>0, <1>12 DEF SessionEnds, TakeOver, LeaseInv, TypeLoop, TypeWorld, Steps, Reported
  <2> QED
    BY <2>1, <2>2, <2>3, <2>4 DEF IInv, Types, HandoffInv
<1>13. CASE UNCHANGED vars
  <2>1. Types'
    BY <1>0, <1>13
       DEF vars, queue, summary, processes, session, history, Types, TypeLoop, TypeNumbers,
           TypeReport, TypeWorld
  <2>2. HandoffInv'
    BY <1>0, <1>13
       DEF vars, queue, summary, processes, session, history, HandoffInv, QueueInv,
           CountInv, RanInv, AliveInv, ExitInv, LeaseInv, InFlight, Running, Over
  <2> QED
    BY <2>1, <2>2 DEF IInv
<1> QED
  BY <1>1, <1>2, <1>3, <1>4, <1>5, <1>6, <1>7, <1>8, <1>9, <1>10, <1>11, <1>12, <1>13
     DEF Next, Loop, World

-----------------------------------------------------------------------------
\* The inductive invariant holds in every state of every behaviour of the loop,
\* its one-shots and the session beside it.
THEOREM HandoffInvariant == Spec => []IInv
BY InitIInv, StepIInv, PTL DEF Spec

\* The state keeps its shape, and what is in flight is polled in time: it never
\* runs past its timeout unseen (escalation.rs pump, command_runner.rs poll).
THEOREM TypeCorrect == Spec => []TypeOK
BY HandoffInvariant, TypesGiveTypeOK, PTL

\* Hand-offs start in the order they were accepted, every one taken off the
\* queue is counted in exactly one bucket or runs, and the exit summary accounts
\* for all that were accepted (escalation.rs pump, abort, record, report).
THEOREM EveryHandOffIsCounted == Spec => []EveryHandOffCounted
<1>1. IInv => EveryHandOffCounted
  BY RunningCard DEF IInv, HandoffInv, QueueInv, CountInv, ExitInv, EveryHandOffCounted
<1> QED
  BY <1>1, HandoffInvariant, PTL

\* No one-shot runs that the queue does not know of, none when the loop reports
\* or is gone, so the summary's word on the branches stands; and beside another
\* loop one runs only while its own waits for it on the way out (drive.rs
\* drain_handoff and the hand-off wind-down before the merge truth).
THEOREM NoOneShotIsUnobserved == Spec => []NoOneShotUnobserved
<1>1. IInv => NoOneShotUnobserved
  BY DEF IInv, HandoffInv, AliveInv, ExitInv, LeaseInv, Running, Reported,
         NoOneShotUnobserved
<1> QED
  BY <1>1, HandoffInvariant, PTL
=============================================================================
