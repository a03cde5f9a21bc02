-------------------------- MODULE BrokerLogProofs --------------------------
(***************************************************************************)
(* Theorems about BrokerLog, for every number of publishing threads,       *)
(* readers, messages and restarts.                                         *)
(***************************************************************************)
EXTENDS BrokerLog, TLAPS

\* The type invariant made inductive: what is appended is a number handed out.
TypeInv == /\ TypeOK
           /\ \A p \in Publishers : pc[p] = "held" => held[p] \in Seqs

\* Nothing is in flight when the process that served it is gone.
Quiet == /\ ~Running => \A p \in Publishers : pc[p] = "idle"
         /\ ~Serving => \A r \in Readers : rpc[r] = "idle"

\* A reader's cursor is a number of the log it reads, and what it was handed
\* lies in that log at or below its cursor.
CursorInLog ==
    \A r \in Readers :
        /\ cursor[r] # 0 => cursor[r] \in Logged
        /\ \A s \in Seqs : got[r][s] > 0 => s \in Logged /\ s <= cursor[r]

\* What the observer returned belongs to the broker whose epoch it recorded.
ObserverInEpoch ==
    /\ obsEpoch <= epoch
    /\ obsEpoch = 0 => obsCursor = 0
    /\ \A s \in Seqs : obsGot[s] > 0 => obsEpoch = epoch /\ s <= obsCursor

-----------------------------------------------------------------------------
\* Appending to the log adds one number to it and moves no entry.
LEMMA AppendLogged ==
    ASSUME NEW S, NEW l \in Seq(S), NEW x \in S
    PROVE  /\ Append(l, x) \in Seq(S)
           /\ DOMAIN Append(l, x) = DOMAIN l \union {Len(l) + 1}
           /\ \A i \in DOMAIN l : Append(l, x)[i] = l[i]
           /\ Append(l, x)[Len(l) + 1] = x
           /\ Len(l) \in Nat /\ DOMAIN l = 1..Len(l)
           /\ {Append(l, x)[i] : i \in DOMAIN Append(l, x)}
                = {l[i] : i \in DOMAIN l} \union {x}
<1>1. /\ Len(l) \in Nat /\ DOMAIN l = 1..Len(l)
      /\ Append(l, x) \in Seq(S)
      /\ DOMAIN Append(l, x) = 1..(Len(l) + 1)
      /\ \A i \in DOMAIN l : Append(l, x)[i] = l[i]
      /\ Append(l, x)[Len(l) + 1] = x
  OBVIOUS
<1>2. DOMAIN Append(l, x) = DOMAIN l \union {Len(l) + 1}
  BY <1>1
<1>3. {Append(l, x)[i] : i \in DOMAIN Append(l, x)}
        = {l[i] : i \in DOMAIN l} \union {x}
  <2>1. ASSUME NEW y \in {Append(l, x)[i] : i \in DOMAIN Append(l, x)}
        PROVE  y \in {l[i] : i \in DOMAIN l} \union {x}
    BY <1>1, <1>2
  <2>2. ASSUME NEW y \in {l[i] : i \in DOMAIN l} \union {x}
        PROVE  y \in {Append(l, x)[i] : i \in DOMAIN Append(l, x)}
    BY <1>1, <1>2
  <2> QED
    BY <2>1, <2>2
<1> QED
  BY <1>1, <1>2, <1>3

\* Every logged number is one of Seqs.
LEMMA LoggedInSeqs == TypeOK => Logged \subseteq Seqs /\ Seqs \subseteq Nat \ {0}
<1> SUFFICES ASSUME TypeOK
             PROVE  Logged \subseteq Seqs /\ Seqs \subseteq Nat \ {0}
  OBVIOUS
<1>1. Seqs \subseteq Nat \ {0}
  BY BrokerLogAssumption DEF Seqs
<1>2. \A i \in DOMAIN log : log[i] \in Seqs
  BY DEF TypeOK
<1> QED
  BY <1>1, <1>2 DEF Logged

\* Delivering a page keeps counts counts.
LEMMA CountType ==
    ASSUME NEW c \in [Seqs -> Nat], NEW page
    PROVE  Count(c, page) \in [Seqs -> Nat]
  BY DEF Count

\* What one flush pass leaves is still a count and a number of the log.
LEMMA FlushType == TypeOK /\ FlushEntries => /\ flushed' \in 0..MaxSeq
                                             /\ written' \in [Seqs -> Nat]
                                             /\ filed' \in Nat
<1> SUFFICES ASSUME TypeOK, FlushEntries
             PROVE  flushed' \in 0..MaxSeq /\ written' \in [Seqs -> Nat] /\ filed' \in Nat
  OBVIOUS
<1>1. Len(log) \in Nat
  BY DEF TypeOK
<1>2. filed' \in Nat
  BY <1>1 DEF FlushEntries, fvars, TypeOK
<1>3. CASE UNCHANGED <<flushed, written>>
  BY <1>2, <1>3 DEF TypeOK
<1>4. ASSUME NEW i \in DOMAIN log,
             written' = Count(written, Newer(flushed)), flushed' = log[i]
      PROVE  flushed' \in 0..MaxSeq /\ written' \in [Seqs -> Nat]
  <2>1. log[i] \in Seqs
    BY DEF TypeOK
  <2>2. Count(written, Newer(flushed)) \in [Seqs -> Nat]
    BY CountType DEF TypeOK
  <2>3. Seqs \subseteq 0..MaxSeq
    BY BrokerLogAssumption DEF Seqs
  <2> QED
    BY <1>4, <2>1, <2>2, <2>3
<1> QED
  BY <1>2, <1>3, <1>4 DEF FlushEntries, fvars

\* The cursor a delivery leaves is a number of the log or the one it was.
LEMMA DeliverType ==
    ASSUME TypeOK, NEW r \in Readers, Deliver(r)
    PROVE  /\ got' \in [Readers -> [Seqs -> Nat]]
           /\ cursor' \in [Readers -> 0..MaxSeq]
           /\ rpc' \in [Readers -> {"idle", "registered", "checked", "waiting"}]
           /\ woken' \in [Readers -> BOOLEAN]
<1>1. got' \in [Readers -> [Seqs -> Nat]]
  <2>1. Count(got[r], Newer(cursor[r])) \in [Seqs -> Nat]
    BY CountType DEF TypeOK
  <2> QED
    BY <2>1 DEF Deliver, TypeOK
<1>2. cursor' \in [Readers -> 0..MaxSeq]
  <2>1. Newer(cursor[r]) \union {cursor[r]} \subseteq 0..MaxSeq
    BY LoggedInSeqs DEF Newer, Seqs, TypeOK
  <2> QED
    BY <2>1 DEF Deliver, TypeOK
<1> QED
  BY <1>1, <1>2 DEF Deliver, TypeOK

-----------------------------------------------------------------------------
\* TypeInv is inductive.
LEMMA TypeInvariant == Spec => []TypeInv
<1>1. Init => TypeInv
  BY BrokerLogAssumption DEF Init, TypeInv, TypeOK, NoCounts, Seqs
<1>2. TypeInv /\ [Next]_vars => TypeInv'
  <2> SUFFICES ASSUME TypeInv, [Next]_vars
               PROVE  TypeInv'
    OBVIOUS
  <2> USE BrokerLogAssumption DEF TypeInv
  <2>1. ASSUME NEW p \in Publishers, AllocSeq(p)
        PROVE  TypeInv'
    <3>1. nextSeq + 1 \in 0..MaxSeq /\ nextSeq + 1 \in Seqs
      BY <2>1 DEF AllocSeq, TypeOK, Seqs
    <3> QED
      BY <2>1, <3>1 DEF AllocSeq, TypeOK, fvars, rvars, ovars
  <2>2. ASSUME NEW p \in Publishers, AppendEntry(p)
        PROVE  TypeInv'
    <3>1. log' \in Seq(Seqs)
      BY <2>2, AppendLogged DEF AppendEntry, TypeOK
    <3>2. pc' \in [Publishers -> {"idle", "held", "appended"}]
      BY <2>2 DEF AppendEntry, TypeOK
    <3> QED
      BY <2>2, <3>1, <3>2 DEF AppendEntry, TypeOK, fvars, rvars, ovars
  <2>3. ASSUME NEW p \in Publishers, Notify(p)
        PROVE  TypeInv'
    BY <2>3 DEF Notify, TypeOK, fvars, ovars
  <2>4. ASSUME NEW r \in Readers, ReadNow(r)
        PROVE  TypeInv'
    BY <2>4, DeliverType DEF ReadNow, TypeOK, pvars, fvars, ovars
  <2>5. ASSUME NEW r \in Readers, Register(r)
        PROVE  TypeInv'
    BY <2>5 DEF Register, TypeOK, pvars, fvars, ovars
  <2>6. ASSUME NEW r \in Readers, Check(r)
        PROVE  TypeInv'
    BY <2>6, DeliverType DEF Check, TypeOK, pvars, fvars, ovars
  <2>7. ASSUME NEW r \in Readers, Await(r) \/ Wake(r)
        PROVE  TypeInv'
    BY <2>7 DEF Await, Wake, TypeOK, pvars, fvars, ovars
  <2>8. ASSUME NEW r \in Readers, TimeOut(r)
        PROVE  TypeInv'
    BY <2>8, DeliverType DEF TimeOut, TypeOK, pvars, fvars, ovars
  <2>9. CASE ObserverPoll
    <3> DEFINE since == IF obsEpoch \notin {0, epoch} THEN 0 ELSE obsCursor
               fresh == {s \in Newer(obsCursor) : s > since}
    <3>1. /\ obsEpoch' = epoch
          /\ obsGot' = Count(obsGot, fresh)
          /\ obsCursor' \in fresh \union {since}
          /\ UNCHANGED <<life, epoch, pvars, fvars, rvars>>
      BY <2>9 DEF ObserverPoll
    <3>2. obsGot' \in [Seqs -> Nat]
      BY <3>1, CountType DEF TypeOK
    <3>3. Newer(obsCursor) \subseteq 0..MaxSeq
      BY LoggedInSeqs DEF Newer, Seqs
    <3>4. obsCursor' \in 0..MaxSeq
      BY <3>1, <3>3 DEF TypeOK
    <3>5. skipped' \subseteq Seqs
      BY <2>9, LoggedInSeqs DEF ObserverPoll, TypeOK
    <3> QED
      BY <3>1, <3>2, <3>4, <3>5 DEF TypeOK, pvars, fvars, rvars
  <2>10. CASE Flush
    BY <2>10, FlushType DEF Flush, TypeOK, pvars, rvars, ovars
  <2>11. CASE RequestStop
    BY <2>11 DEF RequestStop, TypeOK, pvars, fvars, rvars, ovars
  <2>12. CASE FinalFlush
    BY <2>12, FlushType DEF FinalFlush, TypeOK, pvars, rvars, ovars
  <2>13. CASE ShutdownServer
    BY <2>13 DEF ShutdownServer, DropPolls, TypeOK, pvars, fvars, ovars
  <2>14. CASE ServerStop
    BY <2>14 DEF ServerStop, DropPublishes, TypeOK, fvars, rvars, ovars
  <2>15. CASE Crash
    BY <2>15 DEF Crash, DropPolls, DropPublishes, TypeOK, fvars, ovars
  <2>16. CASE Start
    BY <2>16 DEF Start, TypeOK, NoCounts
  <2>17. CASE UNCHANGED vars
    BY <2>17 DEF vars, TypeOK, pvars, fvars, rvars, ovars
  <2> QED
    BY <2>1, <2>2, <2>3, <2>4, <2>5, <2>6, <2>7, <2>8, <2>9, <2>10, <2>11,
       <2>12, <2>13, <2>14, <2>15, <2>16, <2>17
       DEF Next, Publish, LongPoll, Lifecycle
<1> QED
  BY <1>1, <1>2, PTL DEF Spec

\* Every variable keeps its type, whatever the constants.
THEOREM TypeCorrect == Spec => []TypeOK
<1>1. TypeInv => TypeOK
  BY DEF TypeInv
<1> QED
  BY <1>1, TypeInvariant, PTL

\* When the server is gone no request of it is left half done.
LEMMA QuietInvariant == Spec => []Quiet
<1>1. Init => Quiet
  BY DEF Init, Quiet
<1>2. TypeInv /\ Quiet /\ [Next]_vars => Quiet'
  <2> SUFFICES ASSUME TypeInv, Quiet, [Next]_vars
               PROVE  Quiet'
    OBVIOUS
  <2> USE DEF Quiet, Running, Serving, TypeInv, TypeOK
  <2>1. ASSUME NEW p \in Publishers, Publish(p)
        PROVE  Quiet'
    BY <2>1 DEF Publish, AllocSeq, AppendEntry, Notify, rvars
  <2>2. ASSUME NEW r \in Readers, ReadNow(r) \/ LongPoll(r)
        PROVE  Quiet'
    BY <2>2 DEF ReadNow, LongPoll, Register, Check, Await, Wake, TimeOut, pvars
  <2>3. CASE ObserverPoll \/ Flush \/ UNCHANGED vars
    BY <2>3 DEF ObserverPoll, Flush, vars, pvars, rvars
  <2>4. CASE RequestStop \/ FinalFlush
    BY <2>4 DEF RequestStop, FinalFlush, pvars, rvars
  <2>5. CASE ShutdownServer \/ ServerStop
    BY <2>5 DEF ShutdownServer, ServerStop, DropPolls, DropPublishes, pvars, rvars
  <2>6. CASE Crash \/ Start
    BY <2>6 DEF Crash, Start, DropPolls, DropPublishes
  <2> QED
    BY <2>1, <2>2, <2>3, <2>4, <2>5, <2>6 DEF Next, Lifecycle
<1> QED
  BY <1>1, <1>2, TypeInvariant, PTL DEF Spec

-----------------------------------------------------------------------------
\* A number is in the log at most once, and every number handed out is in the
\* log or in the hands of one running publish (BrokerState::next_seq is bumped
\* outside the lock, message_log pushed to under it).
THEOREM GapsCorrect == Spec => []GapsAreInFlight
<1>1. Init => GapsAreInFlight
  BY DEF Init, GapsAreInFlight, Logged
<1>2. TypeInv /\ Quiet /\ GapsAreInFlight /\ [Next]_vars => GapsAreInFlight'
  <2> SUFFICES ASSUME TypeInv, Quiet, GapsAreInFlight, [Next]_vars
               PROVE  GapsAreInFlight'
    OBVIOUS
  <2> USE DEF GapsAreInFlight, Running, Serving
  <2>1. ASSUME NEW p \in Publishers, AllocSeq(p)
        PROVE  GapsAreInFlight'
    <3>1. Logged' = Logged /\ log' = log /\ life' = life
      BY <2>1 DEF AllocSeq, Logged
    <3>2. /\ nextSeq \in Nat /\ nextSeq' = nextSeq + 1
          /\ held' = [held EXCEPT ![p] = nextSeq + 1]
          /\ pc' = [pc EXCEPT ![p] = "held"]
          /\ pc[p] = "idle"
      BY <2>1 DEF AllocSeq, TypeInv, TypeOK
    <3>3. \A q \in Publishers :
             /\ q # p => pc'[q] = pc[q] /\ held'[q] = held[q]
             /\ pc'[p] = "held" /\ held'[p] = nextSeq + 1
      BY <3>2 DEF TypeInv, TypeOK
    <3>4. 1..nextSeq' = 1..nextSeq \union {nextSeq + 1}
      BY <3>2
    <3>5. nextSeq + 1 \notin 1..nextSeq
      BY <3>2
    <3>6. \A q \in Publishers : pc'[q] = "held" =>
             /\ held'[q] \in 1..nextSeq' \ Logged'
             /\ \A o \in Publishers : pc'[o] = "held" /\ held'[o] = held'[q] => o = q
      BY <3>1, <3>3, <3>4, <3>5
    <3>7. Running => \A s \in 1..nextSeq' :
             s \in Logged \/ \E q \in Publishers : pc'[q] = "held" /\ held'[q] = s
      <4> SUFFICES ASSUME Running, NEW s \in 1..nextSeq', s \notin Logged
                   PROVE  \E q \in Publishers : pc'[q] = "held" /\ held'[q] = s
        OBVIOUS
      <4>1. CASE s = nextSeq + 1
        BY <4>1, <3>3
      <4>2. CASE s \in 1..nextSeq
        <5>1. PICK q \in Publishers : pc[q] = "held" /\ held[q] = s
          BY <4>2
        <5> QED
          BY <5>1, <3>2, <3>3
      <4> QED
        BY <4>1, <4>2, <3>4
    <3> QED
      BY <3>1, <3>4, <3>6, <3>7
  <2>2. ASSUME NEW p \in Publishers, AppendEntry(p)
        PROVE  GapsAreInFlight'
    <3>1. /\ log \in Seq(Seqs) /\ held[p] \in Seqs
          /\ log' = Append(log, held[p])
      BY <2>2 DEF AppendEntry, TypeInv, TypeOK
    <3>2. Logged' = Logged \union {held[p]}
      BY <3>1, AppendLogged DEF Logged
    <3>3. held[p] \notin Logged
      BY <2>2 DEF AppendEntry
    <3>4. \A i, j \in DOMAIN log' : log'[i] = log'[j] => i = j
      BY <3>1, <3>3, AppendLogged DEF Logged
    <3>5. pc' = [pc EXCEPT ![p] = "appended"] /\ UNCHANGED <<life, nextSeq, held>>
      BY <2>2 DEF AppendEntry
    <3>6. pc[p] = "held" /\ Running
      BY <2>2 DEF AppendEntry
    <3>7. /\ \A q \in Publishers : pc'[q] = "held" => q # p /\ pc[q] = "held"
          /\ \A q \in Publishers : pc[q] = "held" /\ q # p => pc'[q] = "held"
      BY <3>5 DEF TypeInv, TypeOK
    <3> QED
      BY <3>2, <3>3, <3>4, <3>5, <3>6, <3>7
  <2>3. ASSUME NEW p \in Publishers, Notify(p)
        PROVE  GapsAreInFlight'
    <3>1. Logged' = Logged /\ UNCHANGED <<log, nextSeq, life>>
      BY <2>3 DEF Notify, Logged
    <3>2. \A q \in Publishers :
             /\ pc'[q] = "held" <=> pc[q] = "held"
             /\ pc[q] = "held" => held'[q] = held[q]
      BY <2>3 DEF Notify, TypeInv, TypeOK
    <3> QED
      BY <3>1, <3>2
  <2>4. ASSUME NEW r \in Readers, ReadNow(r) \/ LongPoll(r)
        PROVE  GapsAreInFlight'
    BY <2>4 DEF ReadNow, LongPoll, Register, Check, Await, Wake, TimeOut, pvars, Logged
  <2>5. CASE ObserverPoll \/ Flush \/ UNCHANGED vars
    BY <2>5 DEF ObserverPoll, Flush, vars, pvars, Logged
  <2>6. CASE RequestStop \/ FinalFlush \/ ShutdownServer
    BY <2>6 DEF RequestStop, FinalFlush, ShutdownServer, pvars, Logged
  <2>7. CASE ServerStop \/ Crash
    BY <2>7 DEF ServerStop, Crash, DropPublishes, Logged, TypeInv, TypeOK
  <2>8. CASE Start
    BY <2>8 DEF Start, Quiet, Logged
  <2> QED
    BY <2>1, <2>2, <2>3, <2>4, <2>5, <2>6, <2>7, <2>8
       DEF Next, Publish, Lifecycle
<1> QED
  BY <1>1, <1>2, TypeInvariant, QuietInvariant, PTL DEF Spec

-----------------------------------------------------------------------------
\* What one answered read does: nobody else's state moves, every entry of the
\* log above the cursor is handed over, the cursor ends at or above them all.
LEMMA DeliverEffect ==
    ASSUME TypeOK, NEW r \in Readers, Deliver(r)
    PROVE  /\ \A q \in Readers \ {r} : got'[q] = got[q] /\ cursor'[q] = cursor[q]
           /\ cursor'[r] \in Logged \union {cursor[r]}
           /\ cursor'[r] >= cursor[r]
           /\ \A s \in Logged : s <= cursor'[r]
           /\ \A s \in Seqs : got'[r][s] = IF s \in Logged /\ s > cursor[r]
                                          THEN got[r][s] + 1 ELSE got[r][s]
<1> DEFINE new == Newer(cursor[r])
<1>1. PICK c \in new \union {cursor[r]} :
         /\ Advanced(c, cursor[r], new)
         /\ cursor' = [cursor EXCEPT ![r] = c]
  BY DEF Deliver
<1>2. cursor'[r] = c /\ \A q \in Readers \ {r} : cursor'[q] = cursor[q]
  BY <1>1 DEF TypeOK
<1>3. new \subseteq Logged /\ \A s \in Logged : s \in new <=> s > cursor[r]
  BY DEF Newer
<1>4. cursor[r] \in Nat /\ Logged \subseteq Nat
  BY LoggedInSeqs DEF TypeOK
<1>5. c >= cursor[r] /\ \A s \in Logged : s <= c
  <2>1. c \in Nat
    BY <1>1, <1>3, <1>4
  <2>2. \A s \in new \union {cursor[r]} : s <= c
    BY <1>1 DEF Advanced
  <2>3. ASSUME NEW s \in Logged
        PROVE  s <= c
    <3>1. s \in new \/ s <= cursor[r]
      BY <1>3, <1>4
    <3> QED
      BY <2>1, <2>2, <3>1, <1>4
  <2> QED
    BY <2>1, <2>2, <2>3, <1>4
<1>6. got' = [got EXCEPT ![r] = Count(got[r], new)]
  BY DEF Deliver
<1>7. \A q \in Readers \ {r} : got'[q] = got[q]
  BY <1>6 DEF TypeOK
<1>8. got'[r] = Count(got[r], new)
  BY <1>6 DEF TypeOK
<1>9. \A s \in Seqs : got'[r][s] = IF s \in Logged /\ s > cursor[r]
                                 THEN got[r][s] + 1 ELSE got[r][s]
  BY <1>3, <1>8 DEF Count, Newer
<1> QED
  BY <1>1, <1>2, <1>3, <1>5, <1>7, <1>9

\* What a reader may rely on, as one inductive statement.
ReaderInv == /\ CursorInLog
             /\ \A r \in Readers : \A s \in Seqs : got[r][s] <= 1
             /\ OnlyOvertakenMissed

\* A step that leaves the log and the readers' books alone keeps ReaderInv.
LEMMA ReaderInvFrame ==
    ASSUME ReaderInv, UNCHANGED <<log, cursor, got>>
    PROVE  ReaderInv'
  BY DEF ReaderInv, CursorInLog, OnlyOvertakenMissed, Overtaken, Logged

\* A read keeps ReaderInv.
LEMMA ReaderInvDeliver ==
    ASSUME TypeOK, ReaderInv, NEW r \in Readers, Deliver(r), UNCHANGED log
    PROVE  ReaderInv'
<1> USE DEF ReaderInv
<1>1. Logged' = Logged /\ \A s : Overtaken(s)' <=> Overtaken(s)
  BY DEF Logged, Overtaken
<1>2. \A q \in Readers \ {r} : got'[q] = got[q] /\ cursor'[q] = cursor[q]
  BY DeliverEffect
<1>3. /\ cursor'[r] \in Logged \union {cursor[r]}
      /\ cursor'[r] >= cursor[r]
      /\ \A s \in Logged : s <= cursor'[r]
      /\ \A s \in Seqs : got'[r][s] = IF s \in Logged /\ s > cursor[r]
                                     THEN got[r][s] + 1 ELSE got[r][s]
  BY DeliverEffect
<1>4. /\ cursor[r] \in Nat /\ cursor'[r] \in Nat
      /\ \A s \in Seqs : s \in Nat /\ got[r][s] \in Nat
      /\ Logged \subseteq Seqs
  <2>1. cursor[r] \in Nat /\ \A s \in Seqs : got[r][s] \in Nat
    BY DEF TypeOK
  <2>2. cursor' \in [Readers -> 0..MaxSeq]
    BY DeliverType
  <2>3. Seqs \subseteq Nat /\ Logged \subseteq Seqs
    BY LoggedInSeqs
  <2> QED
    BY <2>1, <2>2, <2>3
<1>5. CursorInLog'
  BY <1>1, <1>2, <1>3, <1>4 DEF CursorInLog
<1>6. \A q \in Readers : \A s \in Seqs : got'[q][s] <= 1
  BY <1>2, <1>3, <1>4 DEF CursorInLog
<1>7. OnlyOvertakenMissed'
  <2> SUFFICES ASSUME NEW q \in Readers, NEW s \in Logged,
                      s <= cursor'[q], got'[q][s] = 0
               PROVE  Overtaken(s)
    BY <1>1 DEF OnlyOvertakenMissed
  <2>1. CASE q # r
    BY <2>1, <1>2 DEF OnlyOvertakenMissed
  <2>2. CASE q = r
    BY <2>2, <1>3, <1>4 DEF OnlyOvertakenMissed
  <2> QED
    BY <2>1, <2>2
<1> QED
  BY <1>5, <1>6, <1>7

\* An append keeps ReaderInv: a reader already past the new number is past it
\* because a higher one is in the log.
LEMMA ReaderInvAppend ==
    ASSUME TypeInv, GapsAreInFlight, ReaderInv,
           NEW p \in Publishers, AppendEntry(p)
    PROVE  ReaderInv'
<1> USE DEF ReaderInv, TypeInv
<1>1. /\ log \in Seq(Seqs) /\ held[p] \in Seqs /\ held[p] \notin Logged
      /\ log' = Append(log, held[p]) /\ UNCHANGED <<cursor, got>>
  BY DEF AppendEntry, rvars, GapsAreInFlight, TypeOK
<1>2. Logged' = Logged \union {held[p]}
  BY <1>1, AppendLogged DEF Logged
<1>3. /\ Len(log) \in Nat /\ DOMAIN log = 1..Len(log)
      /\ DOMAIN log' = DOMAIN log \union {Len(log) + 1}
      /\ \A i \in DOMAIN log : log'[i] = log[i]
      /\ log'[Len(log) + 1] = held[p]
  BY <1>1, AppendLogged
<1>4. \A s : Overtaken(s) => Overtaken(s)'
  BY <1>3 DEF Overtaken
<1>5. CursorInLog'
  BY <1>1, <1>2 DEF CursorInLog
<1>6. OnlyOvertakenMissed'
  <2> SUFFICES ASSUME NEW q \in Readers, NEW s \in Logged',
                      s <= cursor[q], got[q][s] = 0
               PROVE  Overtaken(s)'
    BY <1>1 DEF OnlyOvertakenMissed
  <2>1. CASE s \in Logged
    BY <2>1, <1>4 DEF OnlyOvertakenMissed
  <2>2. CASE s = held[p]
    <3>1. cursor[q] \in Nat /\ s \in Nat \ {0}
      BY <2>2, <1>1, LoggedInSeqs DEF TypeOK
    <3>2. cursor[q] # 0 /\ cursor[q] \in Logged
      BY <3>1 DEF CursorInLog
    <3>3. cursor[q] > s
      BY <3>1, <3>2, <2>2, <1>1
    <3>4. PICK i \in DOMAIN log : log[i] = cursor[q]
      BY <3>2 DEF Logged
    <3>5. i < Len(log) + 1 /\ i \in DOMAIN log' /\ log'[i] > s
      BY <1>3, <3>3, <3>4
    <3> QED
      BY <3>5, <2>2, <1>3 DEF Overtaken
  <2> QED
    BY <2>1, <2>2, <1>2
<1> QED
  BY <1>1, <1>5, <1>6

LEMMA ReaderInvariant == Spec => []ReaderInv
<1>1. Init => ReaderInv
  BY DEF Init, ReaderInv, CursorInLog, OnlyOvertakenMissed, Logged, NoCounts
<1>2. /\ TypeInv /\ GapsAreInFlight /\ ReaderInv /\ [Next]_vars
      => ReaderInv'
  <2> SUFFICES ASSUME TypeInv, GapsAreInFlight, ReaderInv, [Next]_vars
               PROVE  ReaderInv'
    OBVIOUS
  <2>1. ASSUME NEW p \in Publishers, Publish(p)
        PROVE  ReaderInv'
    BY <2>1, ReaderInvAppend, ReaderInvFrame
       DEF Publish, AllocSeq, Notify, rvars
  <2>2. ASSUME NEW r \in Readers, ReadNow(r) \/ LongPoll(r)
        PROVE  ReaderInv'
    <3>1. Deliver(r) \/ UNCHANGED <<cursor, got>>
      BY <2>2 DEF ReadNow, LongPoll, Register, Check, Await, Wake, TimeOut
    <3>2. UNCHANGED log
      BY <2>2 DEF ReadNow, LongPoll, Register, Check, Await, Wake, TimeOut, pvars
    <3> QED
      BY <3>1, <3>2, ReaderInvDeliver, ReaderInvFrame DEF TypeInv
  <2>3. CASE ObserverPoll \/ Flush \/ UNCHANGED vars
    BY <2>3, ReaderInvFrame DEF ObserverPoll, Flush, vars, pvars, rvars
  <2>4. CASE RequestStop \/ FinalFlush \/ ShutdownServer \/ ServerStop \/ Crash
    BY <2>4, ReaderInvFrame
       DEF RequestStop, FinalFlush, ShutdownServer, ServerStop, Crash, pvars, rvars
  <2>5. CASE Start
    BY <2>5 DEF Start, ReaderInv, CursorInLog, OnlyOvertakenMissed, Logged, NoCounts
  <2> QED
    BY <2>1, <2>2, <2>3, <2>4, <2>5 DEF Next, Lifecycle
<1> QED
  BY <1>1, <1>2, TypeInvariant, GapsCorrect, PTL DEF Spec

\* The only entries a cursor leaves behind are those overtaken on their way
\* into the log: reading (full_log, GET /log) loses nothing of its own accord.
THEOREM MissedOnlyWhenOvertaken == Spec => []OnlyOvertakenMissed
<1>1. ReaderInv => OnlyOvertakenMissed
  BY DEF ReaderInv
<1> QED
  BY <1>1, ReaderInvariant, PTL

-----------------------------------------------------------------------------
ObserverInv == /\ ObserverInEpoch
               /\ \A s \in Seqs : obsGot[s] <= 1
               /\ CursorWithinEpoch

\* A poll of the drive loop's observer keeps its books.
LEMMA ObserverInvPoll ==
    ASSUME TypeOK, GapsAreInFlight, ObserverInv, ObserverPoll
    PROVE  ObserverInv'
<1> DEFINE since == IF obsEpoch \notin {0, epoch} THEN 0 ELSE obsCursor
           fresh == {s \in Newer(obsCursor) : s > since}
<1>1. /\ obsEpoch' = epoch /\ UNCHANGED <<epoch, nextSeq>>
      /\ obsGot' = Count(obsGot, fresh)
      /\ obsCursor' \in fresh \union {since}
      /\ \A s \in fresh \union {since} : s <= obsCursor'
  BY DEF ObserverPoll, Advanced, pvars
<1>2. fresh \subseteq 1..nextSeq
  BY DEF Newer, GapsAreInFlight
<1>3. /\ nextSeq \in Nat /\ epoch \in Nat \ {0} /\ obsEpoch \in Nat
      /\ obsCursor \in Nat
      /\ \A s \in Seqs : obsGot[s] \in Nat
      /\ \A s \in Seqs : s \in Nat
  BY LoggedInSeqs, BrokerLogAssumption DEF TypeOK
<1>4. since <= nextSeq /\ since \in Nat
  BY <1>3 DEF ObserverInv, CursorWithinEpoch, ObserverInEpoch
<1>5. \A s \in Seqs : obsGot[s] > 0 => s <= since
  BY <1>3 DEF ObserverInv, ObserverInEpoch
<1>6. \A s \in Seqs : obsGot'[s] = IF s \in fresh THEN obsGot[s] + 1 ELSE obsGot[s]
  BY <1>1 DEF Count
<1>7. \A s \in fresh : s > since
  OBVIOUS
<1>8. obsCursor' \in Nat /\ obsCursor' <= nextSeq /\ since <= obsCursor'
  BY <1>1, <1>2, <1>3, <1>4
<1>9. ASSUME NEW s \in Seqs
      PROVE  obsGot'[s] <= 1 /\ (obsGot'[s] > 0 => s <= obsCursor')
  <2>1. CASE s \in fresh
    <3>1. obsGot[s] = 0
      BY <2>1, <1>3, <1>4, <1>5, <1>7
    <3> QED
      BY <2>1, <3>1, <1>1, <1>6
  <2>2. CASE s \notin fresh
    <3>1. obsGot'[s] = obsGot[s]
      BY <2>2, <1>6
    <3> QED
      BY <3>1, <1>3, <1>4, <1>5, <1>8 DEF ObserverInv
  <2> QED
    BY <2>1, <2>2
<1>10. ObserverInEpoch'
  BY <1>1, <1>3, <1>9 DEF ObserverInEpoch
<1>11. CursorWithinEpoch'
  BY <1>1, <1>8 DEF CursorWithinEpoch
<1> QED
  BY <1>9, <1>10, <1>11 DEF ObserverInv

LEMMA ObserverInvariant == Spec => []ObserverInv
<1>1. Init => ObserverInv
  BY DEF Init, ObserverInv, ObserverInEpoch, CursorWithinEpoch, NoCounts
<1>2. TypeInv /\ GapsAreInFlight /\ ObserverInv /\ [Next]_vars => ObserverInv'
  <2> SUFFICES ASSUME TypeInv, GapsAreInFlight, ObserverInv, [Next]_vars
               PROVE  ObserverInv'
    OBVIOUS
  <2> USE DEF ObserverInv, ObserverInEpoch, CursorWithinEpoch
  <2>1. ASSUME NEW p \in Publishers, Publish(p)
        PROVE  ObserverInv'
    <3>1. UNCHANGED <<epoch, ovars>>
      BY <2>1 DEF Publish, AllocSeq, AppendEntry, Notify
    <3>2. nextSeq' >= nextSeq /\ nextSeq' \in Nat /\ nextSeq \in Nat /\ obsCursor \in Nat
      BY <2>1 DEF Publish, AllocSeq, AppendEntry, Notify, TypeInv, TypeOK
    <3> QED
      BY <3>1, <3>2 DEF ovars
  <2>2. ASSUME NEW r \in Readers, ReadNow(r) \/ LongPoll(r)
        PROVE  ObserverInv'
    BY <2>2 DEF ReadNow, LongPoll, Register, Check, Await, Wake, TimeOut, pvars, ovars
  <2>3. CASE ObserverPoll
    BY <2>3, ObserverInvPoll DEF TypeInv
  <2>4. CASE Flush \/ UNCHANGED vars
    BY <2>4 DEF Flush, vars, pvars, ovars
  <2>5. CASE RequestStop \/ FinalFlush \/ ShutdownServer \/ ServerStop \/ Crash
    BY <2>5 DEF RequestStop, FinalFlush, ShutdownServer, ServerStop, Crash, pvars, ovars
  <2>6. CASE Start
    <3>1. epoch' = epoch + 1 /\ epoch \in Nat /\ obsEpoch \in Nat /\ obsGot' = NoCounts
          /\ UNCHANGED <<obsCursor, obsEpoch>>
      BY <2>6, BrokerLogAssumption DEF Start, TypeInv, TypeOK
    <3> QED
      BY <3>1 DEF NoCounts
  <2> QED
    BY <2>1, <2>2, <2>3, <2>4, <2>5, <2>6 DEF Next, Lifecycle
<1> QED
  BY <1>1, <1>2, TypeInvariant, GapsCorrect, PTL DEF Spec

\* What the observer misses, made inductive: within the epoch it recorded, its
\* cursor is a number of the log.
MissedInv == /\ ObserverMissesNoMore
             /\ obsEpoch = epoch => obsCursor = 0 \/ obsCursor \in Logged

\* A step that leaves the log and the observer's books alone keeps MissedInv.
LEMMA MissedInvFrame ==
    ASSUME MissedInv, UNCHANGED <<epoch, log, ovars>>
    PROVE  MissedInv'
  BY DEF MissedInv, ObserverMissesNoMore, Overtaken, Logged, ovars

\* An append keeps MissedInv: as with the readers, an observer already past the
\* new number is past it because a higher one is in the log.
LEMMA MissedInvAppend ==
    ASSUME TypeInv, GapsAreInFlight, MissedInv,
           NEW p \in Publishers, AppendEntry(p)
    PROVE  MissedInv'
<1> USE DEF MissedInv, TypeInv
<1>1. /\ log \in Seq(Seqs) /\ held[p] \in Seqs /\ held[p] \notin Logged
      /\ log' = Append(log, held[p]) /\ UNCHANGED <<epoch, ovars>>
  BY DEF AppendEntry, GapsAreInFlight, TypeOK
<1>2. Logged' = Logged \union {held[p]}
  BY <1>1, AppendLogged DEF Logged
<1>3. /\ Len(log) \in Nat /\ DOMAIN log = 1..Len(log)
      /\ DOMAIN log' = DOMAIN log \union {Len(log) + 1}
      /\ \A i \in DOMAIN log : log'[i] = log[i]
      /\ log'[Len(log) + 1] = held[p]
  BY <1>1, AppendLogged
<1>4. \A s : Overtaken(s) => Overtaken(s)'
  BY <1>3 DEF Overtaken
<1>5. ObserverMissesNoMore'
  <2> SUFFICES ASSUME obsEpoch = epoch, NEW s \in Logged',
                      s <= obsCursor, obsGot[s] = 0, s \notin skipped
               PROVE  Overtaken(s)'
    BY <1>1 DEF ObserverMissesNoMore, ovars
  <2>1. CASE s \in Logged
    BY <2>1, <1>4 DEF ObserverMissesNoMore
  <2>2. CASE s = held[p]
    <3>1. obsCursor \in Nat /\ s \in Nat \ {0}
      BY <2>2, <1>1, LoggedInSeqs DEF TypeOK
    <3>2. obsCursor # 0 /\ obsCursor \in Logged
      BY <3>1
    <3>3. obsCursor > s
      BY <3>1, <3>2, <2>2, <1>1
    <3>4. PICK i \in DOMAIN log : log[i] = obsCursor
      BY <3>2 DEF Logged
    <3>5. i < Len(log) + 1 /\ i \in DOMAIN log' /\ log'[i] > s
      BY <1>3, <3>3, <3>4
    <3> QED
      BY <3>5, <2>2, <1>3 DEF Overtaken
  <2> QED
    BY <2>1, <2>2, <1>2
<1> QED
  BY <1>1, <1>2, <1>5 DEF ovars

\* A poll keeps MissedInv: what the first poll of a new broker does not ask for
\* is skipped, and every later poll asks from its cursor on.
LEMMA MissedInvPoll ==
    ASSUME TypeOK, ObserverInv, MissedInv, ObserverPoll
    PROVE  MissedInv'
<1> DEFINE reset == obsEpoch \notin {0, epoch}
           since == IF reset THEN 0 ELSE obsCursor
           fresh == {s \in Newer(obsCursor) : s > since}
<1>1. /\ obsEpoch' = epoch /\ UNCHANGED <<epoch, log>>
      /\ obsGot' = Count(obsGot, fresh)
      /\ obsCursor' \in fresh \union {since}
      /\ skipped' = IF reset THEN Logged \ Newer(obsCursor) ELSE skipped
  BY DEF ObserverPoll, pvars
<1>2. Logged' = Logged /\ \A s : Overtaken(s)' <=> Overtaken(s)
  BY <1>1 DEF Logged, Overtaken
<1>3. /\ Logged \subseteq Seqs /\ obsCursor \in Nat
      /\ \A s \in Seqs : s \in Nat \ {0} /\ obsGot[s] \in Nat
  BY LoggedInSeqs DEF TypeOK
<1>4. \A s \in Seqs : obsGot'[s] = IF s \in fresh THEN obsGot[s] + 1 ELSE obsGot[s]
  BY <1>1 DEF Count
<1>5. obsEpoch = 0 => obsCursor = 0
  BY DEF ObserverInv, ObserverInEpoch
<1>6. obsEpoch' = epoch' => obsCursor' = 0 \/ obsCursor' \in Logged'
  BY <1>1, <1>2, <1>5 DEF MissedInv, Newer
<1>7. ASSUME NEW s \in Logged, obsGot'[s] = 0
      PROVE  Overtaken(s) \/ s \in skipped'
  <2>1. s \notin fresh /\ obsGot[s] = 0 /\ s \in Nat \ {0}
    BY <1>3, <1>4, <1>7
  <2>2. CASE reset
    BY <1>1, <2>1, <2>2 DEF Newer
  <2>3. CASE ~reset
    <3>1. s <= obsCursor
      BY <1>3, <2>1, <2>3 DEF Newer
    <3>2. obsEpoch = epoch
      BY <1>5, <2>1, <2>3, <3>1
    <3> QED
      BY <1>1, <2>1, <2>3, <3>1, <3>2 DEF MissedInv, ObserverMissesNoMore
  <2> QED
    BY <2>2, <2>3
<1> QED
  BY <1>2, <1>6, <1>7 DEF MissedInv, ObserverMissesNoMore

LEMMA MissedInvariant == Spec => []MissedInv
<1>1. Init => MissedInv
  BY DEF Init, MissedInv, ObserverMissesNoMore, Logged
<1>2. TypeInv /\ GapsAreInFlight /\ ObserverInv /\ MissedInv /\ [Next]_vars
      => MissedInv'
  <2> SUFFICES ASSUME TypeInv, GapsAreInFlight, ObserverInv, MissedInv, [Next]_vars
               PROVE  MissedInv'
    OBVIOUS
  <2>1. ASSUME NEW p \in Publishers, Publish(p)
        PROVE  MissedInv'
    BY <2>1, MissedInvAppend, MissedInvFrame DEF Publish, AllocSeq, Notify
  <2>2. ASSUME NEW r \in Readers, ReadNow(r) \/ LongPoll(r)
        PROVE  MissedInv'
    BY <2>2, MissedInvFrame
       DEF ReadNow, LongPoll, Register, Check, Await, Wake, TimeOut, pvars
  <2>3. CASE ObserverPoll
    BY <2>3, MissedInvPoll DEF TypeInv
  <2>4. CASE Flush \/ UNCHANGED vars
    BY <2>4, MissedInvFrame DEF Flush, vars, pvars
  <2>5. CASE RequestStop \/ FinalFlush \/ ShutdownServer \/ ServerStop \/ Crash
    BY <2>5, MissedInvFrame
       DEF RequestStop, FinalFlush, ShutdownServer, ServerStop, Crash, pvars
  <2>6. CASE Start
    <3>1. epoch' = epoch + 1 /\ epoch \in Nat /\ obsEpoch \in Nat /\ obsEpoch' = obsEpoch
          /\ obsEpoch <= epoch
      BY <2>6, BrokerLogAssumption
         DEF Start, TypeInv, TypeOK, ObserverInv, ObserverInEpoch
    <3>2. obsEpoch' # epoch'
      BY <3>1
    <3> QED
      BY <3>2 DEF MissedInv, ObserverMissesNoMore
  <2> QED
    BY <2>1, <2>2, <2>3, <2>4, <2>5, <2>6 DEF Next, Lifecycle
<1> QED
  BY <1>1, <1>2, TypeInvariant, GapsCorrect, ObserverInvariant, PTL DEF Spec

\* The drive loop's observer misses only what was overtaken, and what a new
\* broker had logged at or below the old cursor when it was first polled.
THEOREM ObserverMissed == Spec => []ObserverMissesNoMore
<1>1. MissedInv => ObserverMissesNoMore
  BY DEF MissedInv
<1> QED
  BY <1>1, MissedInvariant, PTL

\* No cursor reader and not the drive loop's observer is handed an entry of
\* one broker twice, whatever the order entries land in and across restarts.
THEOREM NothingDeliveredTwice == Spec => []NoRedelivery
<1>1. ReaderInv /\ ObserverInv => NoRedelivery
  BY DEF ReaderInv, ObserverInv, NoRedelivery
<1> QED
  BY <1>1, ReaderInvariant, ObserverInvariant, PTL

\* A restart never leaves the observer's cursor above the new numbering.
THEOREM NeverDeaf == Spec => []CursorWithinEpoch
<1>1. ObserverInv => CursorWithinEpoch
  BY DEF ObserverInv
<1> QED
  BY <1>1, ObserverInvariant, PTL

\* Numbers and cursors stay in step (alloc_seq, the observer's epoch reset).
THEOREM NumbersCorrect == Spec => []NumbersAreSound
<1>1. GapsAreInFlight /\ CursorWithinEpoch => NumbersAreSound
  BY DEF NumbersAreSound
<1> QED
  BY <1>1, GapsCorrect, NeverDeaf, PTL

\* Readers and the observer are handed nothing twice, and each misses only what
\* was overtaken or, the observer, not asked of a new broker (full_log, GET /log,
\* poll_new).
THEOREM ReadsCorrect == Spec => []ReadsAreSound
<1>1. NoRedelivery /\ OnlyOvertakenMissed /\ ObserverMissesNoMore => ReadsAreSound
  BY DEF ReadsAreSound
<1> QED
  BY <1>1, NothingDeliveredTwice, MissedOnlyWhenOvertaken, ObserverMissed, PTL

-----------------------------------------------------------------------------
\* A sleeping long poll with something to read has been woken or is about to
\* be (await_log_entries registers before it reads; publish_message notifies
\* after it appends).
THEOREM WakeupsKept == Spec => []NoLostWakeup
<1>1. Init => NoLostWakeup
  BY DEF Init, NoLostWakeup
<1>2. TypeInv /\ Quiet /\ NoLostWakeup /\ [Next]_vars => NoLostWakeup'
  <2> SUFFICES ASSUME TypeInv, Quiet, NoLostWakeup, [Next]_vars,
                      NEW q \in Readers,
                      rpc'[q] \in {"checked", "waiting"}, Newer(cursor[q])' # {}
               PROVE  woken'[q] \/ \E o \in Publishers : pc'[o] = "appended"
    BY DEF NoLostWakeup
  <2> DEFINE Goal == woken'[q] \/ \E o \in Publishers : pc'[o] = "appended"
  <2>0. ASSUME UNCHANGED <<log, rpc, cursor, woken>>,
               \A o \in Publishers : pc[o] = "appended" => pc'[o] = "appended"
        PROVE  Goal
    BY <2>0 DEF NoLostWakeup, Newer, Logged
  <2>1. ASSUME NEW p \in Publishers, AllocSeq(p)
        PROVE  Goal
    <3>1. \A o \in Publishers : pc[o] = "appended" => pc'[o] = "appended"
      BY <2>1 DEF AllocSeq, TypeInv, TypeOK
    <3> QED
      BY <2>0, <2>1, <3>1 DEF AllocSeq, rvars
  <2>2. ASSUME NEW p \in Publishers, AppendEntry(p)
        PROVE  Goal
    BY <2>2 DEF AppendEntry, TypeInv, TypeOK
  <2>3. ASSUME NEW p \in Publishers, Notify(p)
        PROVE  Goal
    BY <2>3 DEF Notify
  <2>4. ASSUME NEW r \in Readers, ReadNow(r) \/ LongPoll(r)
        PROVE  Goal
    <3>1. UNCHANGED <<log, pc>>
      BY <2>4 DEF ReadNow, LongPoll, Register, Check, Await, Wake, TimeOut, pvars
    <3>2. CASE q = r
      <4>1. ~Deliver(r) /\ rpc'[r] \in {"checked", "waiting"}
        BY <3>2 DEF Deliver, TypeInv, TypeOK
      <4>2. ~Register(r) /\ ~Wake(r)
        BY <4>1 DEF Register, Wake, TypeInv, TypeOK
      <4>3. CASE Check(r)
        BY <3>1, <3>2, <4>1, <4>3 DEF Check, Newer, Logged
      <4>4. CASE Await(r)
        BY <3>1, <3>2, <4>4 DEF Await, NoLostWakeup, Newer, Logged
      <4> QED
        BY <2>4, <4>1, <4>2, <4>3, <4>4 DEF ReadNow, LongPoll, TimeOut
    <3>3. CASE q # r
      <4>1. rpc'[q] = rpc[q] /\ woken'[q] = woken[q] /\ cursor'[q] = cursor[q]
        BY <2>4, <3>3
           DEF ReadNow, LongPoll, Register, Check, Await, Wake, TimeOut, Deliver, TypeInv, TypeOK
      <4> QED
        BY <3>1, <4>1 DEF NoLostWakeup, Newer, Logged
    <3> QED
      BY <3>2, <3>3
  <2>5. CASE ObserverPoll \/ Flush \/ UNCHANGED vars
    BY <2>0, <2>5 DEF ObserverPoll, Flush, vars, pvars, rvars
  <2>6. CASE RequestStop \/ FinalFlush
    BY <2>0, <2>6 DEF RequestStop, FinalFlush, pvars, rvars
  <2>7. CASE ShutdownServer \/ Crash
    BY <2>7 DEF ShutdownServer, Crash, DropPolls
  <2>8. CASE ServerStop
    BY <2>8 DEF ServerStop, rvars, Quiet, Serving
  <2>9. CASE Start
    BY <2>9 DEF Start, Newer, Logged
  <2> QED
    BY <2>1, <2>2, <2>3, <2>4, <2>5, <2>6, <2>7, <2>8, <2>9
       DEF Next, Publish, Lifecycle
<1> QED
  BY <1>1, <1>2, TypeInvariant, QuietInvariant, PTL DEF Spec

-----------------------------------------------------------------------------
\* When publishes do not overlap, the number in flight is the highest yet and
\* the log is sorted.
Ordered == /\ \A p \in Publishers : pc[p] = "held" => \A s \in Logged : s < held[p]
           /\ \A i, j \in DOMAIN log : i < j => log[i] < log[j]

LEMMA OrderedFrame ==
    ASSUME Ordered, UNCHANGED log,
           \A p \in Publishers : pc'[p] = "held" => pc[p] = "held" /\ held'[p] = held[p]
    PROVE  Ordered'
  BY DEF Ordered, Logged

LEMMA SerialOrdered ==
    ASSUME \A p, q \in Publishers : p = q
    PROVE  Spec => []Ordered
<1>1. Init => Ordered
  BY DEF Init, Ordered
<1>2. TypeInv /\ Quiet /\ GapsAreInFlight /\ Ordered /\ [Next]_vars => Ordered'
  <2> SUFFICES ASSUME TypeInv, Quiet, GapsAreInFlight, Ordered, [Next]_vars
               PROVE  Ordered'
    OBVIOUS
  <2>1. ASSUME NEW p \in Publishers, AllocSeq(p)
        PROVE  Ordered'
    <3>1. Logged' = Logged /\ log' = log /\ nextSeq \in Nat /\ Logged \subseteq 1..nextSeq
      BY <2>1 DEF AllocSeq, Logged, TypeInv, TypeOK, GapsAreInFlight
    <3>2. held'[p] = nextSeq + 1
      BY <2>1 DEF AllocSeq, TypeInv, TypeOK
    <3> QED
      BY <3>1, <3>2 DEF Ordered
  <2>2. ASSUME NEW p \in Publishers, AppendEntry(p)
        PROVE  Ordered'
    <3>1. pc'[p] # "held"
      BY <2>2 DEF AppendEntry, TypeInv, TypeOK
    <3>2. /\ log \in Seq(Seqs) /\ held[p] \in Seqs
          /\ log' = Append(log, held[p]) /\ pc[p] = "held"
      BY <2>2 DEF AppendEntry, TypeInv, TypeOK
    <3>3. \A i \in DOMAIN log : log[i] < held[p]
      BY <3>2 DEF Ordered, Logged
    <3>4. \A i, j \in DOMAIN log' : i < j => log'[i] < log'[j]
      <4>1. /\ Len(log) \in Nat /\ DOMAIN log = 1..Len(log)
            /\ DOMAIN log' = DOMAIN log \union {Len(log) + 1}
            /\ \A i \in DOMAIN log : log'[i] = log[i]
            /\ log'[Len(log) + 1] = held[p]
        BY <3>2, AppendLogged
      <4> QED
        BY <4>1, <3>3 DEF Ordered
    <3> QED
      BY <3>1, <3>4 DEF Ordered
  <2>3. ASSUME NEW p \in Publishers, Notify(p)
        PROVE  Ordered'
    BY <2>3, OrderedFrame DEF Notify, TypeInv, TypeOK
  <2>4. ASSUME NEW r \in Readers, ReadNow(r) \/ LongPoll(r)
        PROVE  Ordered'
    BY <2>4, OrderedFrame DEF ReadNow, LongPoll, Register, Check, Await, Wake, TimeOut, pvars
  <2>5. CASE ObserverPoll \/ Flush \/ UNCHANGED vars
    BY <2>5, OrderedFrame DEF ObserverPoll, Flush, vars, pvars
  <2>6. CASE RequestStop \/ FinalFlush \/ ShutdownServer
    BY <2>6, OrderedFrame DEF RequestStop, FinalFlush, ShutdownServer, pvars
  <2>7. CASE ServerStop \/ Crash
    BY <2>7, OrderedFrame DEF ServerStop, Crash, DropPublishes
  <2>8. CASE Start
    BY <2>8 DEF Start, Ordered, Quiet, Running, Serving
  <2> QED
    BY <2>1, <2>2, <2>3, <2>4, <2>5, <2>6, <2>7, <2>8 DEF Next, Publish, Lifecycle
<1> QED
  BY <1>1, <1>2, TypeInvariant, QuietInvariant, GapsCorrect, PTL DEF Spec

\* With one publishing thread the documented promise holds: a cursor never
\* passes an entry its reader was not handed.  (With two it does not.)
THEOREM SerialLossless ==
    ASSUME \A p, q \in Publishers : p = q
    PROVE  Spec => []Lossless
<1>1. TypeInv /\ Ordered /\ OnlyOvertakenMissed => Lossless
  <2> SUFFICES ASSUME TypeInv, Ordered, OnlyOvertakenMissed,
                      NEW r \in Readers, NEW s \in Logged, s <= cursor[r]
               PROVE  got[r][s] > 0
    BY DEF Lossless
  <2>1. got[r][s] \in Nat /\ s \in Nat
    BY LoggedInSeqs DEF TypeInv, TypeOK
  <2>2. ~Overtaken(s)
    <3> SUFFICES ASSUME NEW i \in DOMAIN log, NEW j \in DOMAIN log,
                        i < j, log[j] = s, log[i] > s
                 PROVE  FALSE
      BY DEF Overtaken
    <3>1. log[i] < log[j] /\ log[i] \in Nat
      BY LoggedInSeqs DEF Ordered, Logged, TypeInv
    <3> QED
      BY <3>1, <2>1
  <2> QED
    BY <2>1, <2>2 DEF OnlyOvertakenMissed
<1> QED
  BY <1>1, TypeInvariant, SerialOrdered, MissedOnlyWhenOvertaken, PTL

-----------------------------------------------------------------------------
\* What the log file misses, made inductive: last_flushed_seq is 0 or a number of
\* the log, and only what was overtaken lies unwritten at or below it.
FileInv == /\ FileMissesNoMore
           /\ filed <= Len(log)
           /\ flushed = 0 \/ flushed \in Logged
           /\ \A s \in Logged : s <= flushed /\ written[s] = 0 => Overtaken(s)

\* A step that leaves the log and the flush thread's books alone keeps FileInv.
LEMMA FileInvFrame ==
    ASSUME FileInv, UNCHANGED <<log, fvars>>
    PROVE  FileInv'
  BY DEF FileInv, FileMissesNoMore, Overtaken, Logged, fvars

\* An append keeps FileInv: a flush already past the new number is past it because
\* it wrote a higher one.
LEMMA FileInvAppend ==
    ASSUME TypeInv, GapsAreInFlight, FileInv,
           NEW p \in Publishers, AppendEntry(p)
    PROVE  FileInv'
<1> USE DEF FileInv, TypeInv
<1>1. /\ log \in Seq(Seqs) /\ held[p] \in Seqs /\ held[p] \notin Logged
      /\ log' = Append(log, held[p]) /\ UNCHANGED <<flushed, written, filed>>
  BY DEF AppendEntry, GapsAreInFlight, TypeOK, fvars
<1>2. Logged' = Logged \union {held[p]}
  BY <1>1, AppendLogged DEF Logged
<1>3. /\ Len(log) \in Nat /\ DOMAIN log = 1..Len(log) /\ Len(log') = Len(log) + 1
      /\ DOMAIN log' = DOMAIN log \union {Len(log) + 1}
      /\ \A i \in DOMAIN log : log'[i] = log[i]
      /\ log'[Len(log) + 1] = held[p]
  BY <1>1, AppendLogged
<1>4. \A s : Overtaken(s) => Overtaken(s)'
  BY <1>3 DEF Overtaken
<1>5. filed \in Nat /\ flushed \in Nat /\ Seqs \subseteq Nat \ {0}
  BY LoggedInSeqs DEF TypeOK
<1>6. Len(log) + 1 > filed /\ filed' <= Len(log')
  BY <1>1, <1>3, <1>5
<1>7. FileMissesNoMore'
  <2> SUFFICES ASSUME NEW i \in DOMAIN log', NEW s, s = log'[i], written[s] = 0
               PROVE  Overtaken(s)' \/ i > filed
    BY <1>1 DEF FileMissesNoMore
  <2>1. CASE i \in DOMAIN log
    <3>1. s = log[i]
      BY <2>1, <1>3
    <3>2. Overtaken(s) \/ i > filed
      BY <2>1, <3>1 DEF FileMissesNoMore
    <3> QED
      BY <3>2, <1>4
  <2>2. CASE i = Len(log) + 1
    BY <2>2, <1>6
  <2> QED
    BY <2>1, <2>2, <1>3
<1>8. ASSUME NEW s \in Logged', s <= flushed, written[s] = 0
      PROVE  Overtaken(s)'
  <2>1. CASE s \in Logged
    BY <2>1, <1>4, <1>8
  <2>2. CASE s = held[p]
    <3>1. s \in Nat \ {0}
      BY <2>2, <1>1, <1>5
    <3>2. flushed \in Logged
      BY <3>1, <1>5, <1>8
    <3>3. flushed > s
      BY <3>1, <3>2, <2>2, <1>1, <1>5, <1>8
    <3>4. PICK i \in DOMAIN log : log[i] = flushed
      BY <3>2 DEF Logged
    <3>5. i < Len(log) + 1 /\ i \in DOMAIN log' /\ log'[i] > s
      BY <1>3, <3>3, <3>4
    <3> QED
      BY <3>5, <2>2, <1>3 DEF Overtaken
  <2> QED
    BY <2>1, <2>2, <1>2
<1> QED
  BY <1>1, <1>2, <1>6, <1>7, <1>8

\* A flush pass keeps FileInv: it writes all that is newer than last_flushed_seq.
LEMMA FileInvFlush ==
    ASSUME TypeOK, FileInv, FlushEntries, UNCHANGED log
    PROVE  FileInv'
<1> USE DEF FileInv
<1>1. Logged' = Logged /\ \A s : Overtaken(s)' <=> Overtaken(s)
  BY DEF Logged, Overtaken
<1>2. Logged \subseteq Seqs /\ Seqs \subseteq Nat \ {0}
  BY LoggedInSeqs
<1>3. /\ Len(log) \in Nat /\ flushed \in Nat /\ written \in [Seqs -> Nat]
      /\ \A i \in DOMAIN log : log[i] \in Logged
  BY DEF TypeOK, Logged
<1>4. \A s \in Logged : s \in Newer(flushed) \/ s <= flushed
  BY <1>2, <1>3 DEF Newer
<1>5. ASSUME NEW i \in DOMAIN log, filed' = Len(log),
             written' = Count(written, Newer(flushed)), flushed' = log[i]
      PROVE  FileInv'
  <2>1. \A s \in Logged : /\ s \in Newer(flushed) => written'[s] = written[s] + 1
                          /\ s \notin Newer(flushed) => written'[s] = written[s]
    BY <1>2, <1>5 DEF Count
  <2>2. \A s \in Logged : written[s] \in Nat
    BY <1>2, <1>3
  <2>3. \A s \in Logged : written'[s] = 0 => Overtaken(s)
    BY <1>4, <2>1, <2>2
  <2> QED
    BY <1>1, <1>3, <1>5, <2>3 DEF FileMissesNoMore
<1>6. CASE Newer(flushed) = {} /\ filed' = Len(log) /\ UNCHANGED <<flushed, written>>
  <2>1. \A s \in Logged : written[s] = 0 => Overtaken(s)
    BY <1>4, <1>6
  <2> QED
    BY <1>1, <1>3, <1>6, <2>1 DEF FileMissesNoMore
<1>7. CASE UNCHANGED fvars
  BY <1>7, FileInvFrame DEF fvars
<1> QED
  BY <1>5, <1>6, <1>7 DEF FlushEntries

LEMMA FileInvariant == Spec => []FileInv
<1>1. Init => FileInv
  BY DEF Init, FileInv, FileMissesNoMore, Logged
<1>2. TypeInv /\ GapsAreInFlight /\ FileInv /\ [Next]_vars => FileInv'
  <2> SUFFICES ASSUME TypeInv, GapsAreInFlight, FileInv, [Next]_vars
               PROVE  FileInv'
    OBVIOUS
  <2>1. ASSUME NEW p \in Publishers, Publish(p)
        PROVE  FileInv'
    BY <2>1, FileInvAppend, FileInvFrame DEF Publish, AllocSeq, Notify
  <2>2. ASSUME NEW r \in Readers, ReadNow(r) \/ LongPoll(r)
        PROVE  FileInv'
    BY <2>2, FileInvFrame
       DEF ReadNow, LongPoll, Register, Check, Await, Wake, TimeOut, pvars
  <2>3. CASE ObserverPoll \/ UNCHANGED vars
    BY <2>3, FileInvFrame DEF ObserverPoll, vars, pvars
  <2>4. CASE Flush \/ FinalFlush
    BY <2>4, FileInvFlush DEF Flush, FinalFlush, pvars, TypeInv
  <2>5. CASE RequestStop \/ ShutdownServer \/ ServerStop \/ Crash
    BY <2>5, FileInvFrame DEF RequestStop, ShutdownServer, ServerStop, Crash, pvars
  <2>6. CASE Start
    <3>1. log' = <<>> /\ flushed' = 0 /\ filed' = 0
      BY <2>6 DEF Start
    <3> QED
      BY <3>1 DEF FileInv, FileMissesNoMore, Logged
  <2> QED
    BY <2>1, <2>2, <2>3, <2>4, <2>5, <2>6 DEF Next, Lifecycle
<1> QED
  BY <1>1, <1>2, TypeInvariant, GapsCorrect, PTL DEF Spec

\* The log file misses only what was overtaken and what came after the last pass
\* that could open it, however publishes overlap and the broker ends
\* (flush_entries, flush_loop, BrokerHandle::drop).
THEOREM FileMissed == Spec => []FileMissesNoMore
<1>1. FileInv => FileMissesNoMore
  BY DEF FileInv
<1> QED
  BY <1>1, FileInvariant, PTL

-----------------------------------------------------------------------------
\* What the log file holds twice, made inductive: only entries of the log are
\* written, and one written above last_flushed_seq overtook another, as did one
\* written twice.
RewriteInv == \A s \in Seqs :
    /\ written[s] > 0 => s \in Logged
    /\ written[s] > 0 /\ s > flushed => Overtaker(s)
    /\ written[s] > 1 => Overtaker(s)

LEMMA RewriteFrame ==
    ASSUME RewriteInv, UNCHANGED <<log, fvars>>
    PROVE  RewriteInv'
  BY DEF RewriteInv, Overtaker, Logged, fvars

LEMMA RewriteAppend ==
    ASSUME TypeInv, GapsAreInFlight, RewriteInv, NEW p \in Publishers, AppendEntry(p)
    PROVE  RewriteInv'
<1>1. /\ log \in Seq(Seqs) /\ held[p] \in Seqs
      /\ log' = Append(log, held[p]) /\ UNCHANGED <<flushed, written>>
  BY DEF AppendEntry, GapsAreInFlight, TypeInv, TypeOK, fvars
<1>2. Logged \subseteq Logged'
  BY <1>1, AppendLogged DEF Logged
<1>3. /\ DOMAIN log \subseteq DOMAIN log'
      /\ \A i \in DOMAIN log : log'[i] = log[i]
  BY <1>1, AppendLogged
<1>4. \A s : Overtaker(s) => Overtaker(s)'
  BY <1>3 DEF Overtaker
<1> QED
  BY <1>1, <1>2, <1>4 DEF RewriteInv

\* A flush pass keeps RewriteInv: what it writes lies at or before the last new
\* entry, whose number becomes last_flushed_seq, so that what it wrote above
\* that number had overtaken it.
LEMMA RewriteFlush ==
    ASSUME TypeInv, RewriteInv, FlushEntries, UNCHANGED log
    PROVE  RewriteInv'
<1>1. Logged' = Logged /\ \A s : Overtaker(s)' <=> Overtaker(s)
  BY DEF Logged, Overtaker
<1>2. CASE UNCHANGED <<flushed, written>>
  BY <1>1, <1>2 DEF RewriteInv
<1>3. ASSUME NEW i \in DOMAIN log, LastNew(i),
             written' = Count(written, Newer(flushed)), flushed' = log[i]
      PROVE  RewriteInv'
  <2>1. flushed \in Nat /\ log \in Seq(Seqs) /\ written \in [Seqs -> Nat]
    BY DEF TypeInv, TypeOK
  <2>2. Seqs \subseteq Nat
    BY LoggedInSeqs DEF TypeInv
  <2>3. DOMAIN log = 1..Len(log) /\ Len(log) \in Nat /\ log[i] \in Seqs
    BY <2>1
  <2>4. log[i] > flushed /\ log[i] \in Nat
    BY <1>3, <2>2, <2>3 DEF LastNew
  <2>5. ASSUME NEW s \in Newer(flushed), s > log[i]
        PROVE  Overtaker(s)
    <3>1. PICK j \in DOMAIN log : s = log[j] /\ log[j] > flushed
      BY <2>5 DEF Newer, Logged
    <3>2. ~(j > i) /\ j \in Nat /\ i \in Nat
      <4>1. log[j] \in Nat
        BY <2>1, <2>2, <2>3, <3>1
      <4> QED
        BY <1>3, <2>1, <2>3, <3>1, <4>1 DEF LastNew
    <3>3. j # i
      BY <2>4, <2>5, <3>1
    <3>4. j < i
      BY <3>2, <3>3
    <3>5. log[i] < s
      BY <2>5
    <3> QED
      BY <3>1, <3>4, <3>5 DEF Overtaker
  <2>6. ASSUME NEW s \in Seqs
        PROVE  /\ written'[s] > 0 => s \in Logged
               /\ written'[s] > 0 /\ s > log[i] => Overtaker(s)
               /\ written'[s] > 1 => Overtaker(s)
    <3>1. /\ written[s] \in Nat /\ s \in Nat
          /\ written'[s] = IF s \in Newer(flushed) THEN written[s] + 1 ELSE written[s]
      BY <1>3, <2>1, <2>2 DEF Count
    <3>2. /\ written[s] > 0 => s \in Logged
          /\ written[s] > 0 /\ s > flushed => Overtaker(s)
          /\ written[s] > 1 => Overtaker(s)
      BY DEF RewriteInv
    <3>3. CASE s \in Newer(flushed)
      <4>1. s \in Logged /\ s > flushed
        BY <3>3 DEF Newer
      <4>2. written'[s] > 1 => written[s] > 0
        BY <3>1, <3>3
      <4> QED
        BY <2>5, <3>2, <3>3, <4>1, <4>2
    <3>4. CASE s \notin Newer(flushed)
      <4>1. s > log[i] => s > flushed
        BY <2>1, <2>4, <3>1
      <4> QED
        BY <3>1, <3>2, <3>4, <4>1
    <3> QED
      BY <3>3, <3>4
  <2> QED
    BY <1>1, <1>3, <2>6 DEF RewriteInv
<1> QED
  BY <1>2, <1>3 DEF FlushEntries, fvars

LEMMA RewriteInvariant == Spec => []RewriteInv
<1>1. Init => RewriteInv
  BY DEF Init, RewriteInv, NoCounts
<1>2. TypeInv /\ GapsAreInFlight /\ RewriteInv /\ [Next]_vars => RewriteInv'
  <2> SUFFICES ASSUME TypeInv, GapsAreInFlight, RewriteInv, [Next]_vars
               PROVE  RewriteInv'
    OBVIOUS
  <2>1. ASSUME NEW p \in Publishers, Publish(p)
        PROVE  RewriteInv'
    BY <2>1, RewriteAppend, RewriteFrame DEF Publish, AllocSeq, Notify
  <2>2. ASSUME NEW r \in Readers, ReadNow(r) \/ LongPoll(r)
        PROVE  RewriteInv'
    BY <2>2, RewriteFrame
       DEF ReadNow, LongPoll, Register, Check, Await, Wake, TimeOut, pvars
  <2>3. CASE ObserverPoll \/ UNCHANGED vars
    BY <2>3, RewriteFrame DEF ObserverPoll, vars, pvars
  <2>4. CASE Flush \/ FinalFlush
    BY <2>4, RewriteFlush DEF Flush, FinalFlush, pvars
  <2>5. CASE RequestStop \/ ShutdownServer \/ ServerStop \/ Crash
    BY <2>5, RewriteFrame DEF RequestStop, ShutdownServer, ServerStop, Crash, pvars
  <2>6. CASE Start
    BY <2>6 DEF Start, RewriteInv, NoCounts
  <2> QED
    BY <2>1, <2>2, <2>3, <2>4, <2>5, <2>6 DEF Next, Lifecycle
<1> QED
  BY <1>1, <1>2, TypeInvariant, GapsCorrect, PTL DEF Spec

\* The log file holds twice only what overtook another entry, and misses only
\* what FileMissed says (flush_entries, last_flushed_seq).
THEOREM FileCorrect == Spec => []FileIsSound
<1>1. FileMissesNoMore /\ RewriteInv => FileIsSound
  BY DEF FileIsSound, RewriteInv
<1> QED
  BY <1>1, FileMissed, RewriteInvariant, PTL

\* "Flush thread only writes new entries": with one publishing thread no entry
\* is written to the log file twice, whichever flushes fail.  (With two it may.)
THEOREM SerialWrittenOnce ==
    ASSUME \A p, q \in Publishers : p = q
    PROVE  Spec => []WrittenOnce
<1>1. TypeInv /\ Ordered /\ FileIsSound => WrittenOnce
  <2> SUFFICES ASSUME TypeInv, Ordered, FileIsSound, NEW s \in Seqs
               PROVE  written[s] <= 1
    BY DEF WrittenOnce
  <2>1. written[s] \in Nat /\ s \in Nat
    BY LoggedInSeqs DEF TypeInv, TypeOK
  <2>2. ~Overtaker(s)
    <3> SUFFICES ASSUME NEW i \in DOMAIN log, NEW j \in DOMAIN log,
                        i < j, log[i] = s, log[j] < s
                 PROVE  FALSE
      BY DEF Overtaker
    <3>1. log[i] < log[j] /\ log[j] \in Nat
      BY LoggedInSeqs DEF Ordered, Logged, TypeInv
    <3> QED
      BY <2>1, <3>1
  <2> QED
    BY <2>1, <2>2 DEF FileIsSound
<1> QED
  BY <1>1, TypeInvariant, SerialOrdered, FileCorrect, PTL

-----------------------------------------------------------------------------
\* Within one broker no cursor goes back (poll_messages and GET /log answer an
\* empty page with last_seq = since).
THEOREM CursorNeverBack == Spec => CursorMonotone
<1>1. TypeInv /\ [Next]_vars
      => [epoch' = epoch => \A r \in Readers : cursor'[r] >= cursor[r]]_vars
  <2> SUFFICES ASSUME TypeInv, [Next]_vars, epoch' = epoch, NEW q \in Readers
               PROVE  cursor'[q] >= cursor[q]
    OBVIOUS
  <2>0. cursor[q] \in Nat
    BY DEF TypeInv, TypeOK
  <2>1. ASSUME NEW p \in Publishers, Publish(p)
        PROVE  cursor' = cursor
    BY <2>1 DEF Publish, AllocSeq, AppendEntry, Notify, rvars
  <2>2. ASSUME NEW r \in Readers, ReadNow(r) \/ LongPoll(r)
        PROVE  cursor'[q] >= cursor[q]
    <3>1. Deliver(r) \/ UNCHANGED cursor
      BY <2>2 DEF ReadNow, LongPoll, Register, Check, Await, Wake, TimeOut
    <3> QED
      BY <2>0, <3>1, DeliverEffect DEF TypeInv
  <2>3. CASE ObserverPoll \/ Flush \/ UNCHANGED vars
    BY <2>0, <2>3 DEF ObserverPoll, Flush, vars, rvars
  <2>4. CASE RequestStop \/ FinalFlush \/ ShutdownServer \/ ServerStop \/ Crash
    BY <2>0, <2>4 DEF RequestStop, FinalFlush, ShutdownServer, ServerStop, Crash, rvars
  <2>5. ~Start
    BY BrokerLogAssumption DEF Start, TypeInv, TypeOK
  <2> QED
    BY <2>0, <2>1, <2>2, <2>3, <2>4, <2>5 DEF Next, Lifecycle
<1> QED
  BY <1>1, TypeInvariant, PTL DEF Spec, CursorMonotone

-----------------------------------------------------------------------------
\* A read of the detailed log is a Fetch of the promised one: afterwards the
\* reader holds exactly what is in the log.
LEMMA DeliverIsFetch ==
    ASSUME TypeOK, CursorInLog, Lossless,
           NEW r \in Readers, Deliver(r), UNCHANGED log
    PROVE  Promise!Fetch(r)
<1>1. Logged' = Logged
  BY DEF Logged
<1>2. ASSUME NEW q \in Readers \ {r}
      PROVE  {s \in Seqs : got'[q][s] > 0} = {s \in Seqs : got[q][s] > 0}
  BY DeliverEffect
<1>3. {s \in Seqs : got'[r][s] > 0} = Logged
  <2>1. ASSUME NEW s \in Seqs
        PROVE  got'[r][s] > 0 <=> s \in Logged
    <3>1. /\ got[r][s] \in Nat /\ s \in Nat /\ cursor[r] \in Nat
          /\ got'[r][s] = IF s \in Logged /\ s > cursor[r]
                          THEN got[r][s] + 1 ELSE got[r][s]
      <4>1. \A x \in Seqs : got'[r][x] = IF x \in Logged /\ x > cursor[r]
                                       THEN got[r][x] + 1 ELSE got[r][x]
        BY DeliverEffect
      <4>2. /\ got[r][s] \in Nat /\ cursor[r] \in Nat
        BY DEF TypeOK
      <4>3. s \in Nat
        BY LoggedInSeqs
      <4> QED
        BY <4>1, <4>2, <4>3
    <3> QED
      BY <3>1 DEF CursorInLog, Lossless
  <2> QED
    BY <2>1, LoggedInSeqs
<1> QED
  BY <1>1, <1>2, <1>3 DEF Promise!Fetch

\* With one publishing thread the log implements the documented promise.
THEOREM SerialImplementsPromise ==
    ASSUME \A p, q \in Publishers : p = q
    PROVE  Spec => ImplementsPromise
<1>1. Init => Promise!Init
  BY DEF Init, Promise!Init, Logged, NoCounts
<1>2. /\ TypeInv /\ GapsAreInFlight /\ CursorInLog /\ Lossless /\ [Next]_vars
      => [Promise!Next]_(Promise!lvars)
  <2> SUFFICES ASSUME TypeInv, GapsAreInFlight, CursorInLog, Lossless, [Next]_vars
               PROVE  [Promise!Next]_(Promise!lvars)
    OBVIOUS
  <2>0. ASSUME UNCHANGED <<log, got>>
        PROVE  UNCHANGED Promise!lvars
    BY <2>0 DEF Promise!lvars, Logged
  <2>1. ASSUME NEW p \in Publishers, AllocSeq(p) \/ Notify(p)
        PROVE  UNCHANGED Promise!lvars
    BY <2>0, <2>1 DEF AllocSeq, Notify, rvars
  <2>2. ASSUME NEW p \in Publishers, AppendEntry(p)
        PROVE  Promise!Publish(held[p])
    <3>1. /\ log \in Seq(Seqs) /\ held[p] \in Seqs /\ held[p] \notin Logged
          /\ log' = Append(log, held[p]) /\ got' = got
      BY <2>2 DEF AppendEntry, rvars, GapsAreInFlight, TypeInv, TypeOK
    <3>2. Logged' = Logged \union {held[p]}
      BY <3>1, AppendLogged DEF Logged
    <3> QED
      BY <3>1, <3>2 DEF Promise!Publish
  <2>3. ASSUME NEW r \in Readers, ReadNow(r) \/ LongPoll(r)
        PROVE  Promise!Next \/ UNCHANGED Promise!lvars
    <3>1. (Deliver(r) \/ UNCHANGED got) /\ UNCHANGED log
      BY <2>3 DEF ReadNow, LongPoll, Register, Check, Await, Wake, TimeOut, pvars
    <3> QED
      BY <2>0, <3>1, DeliverIsFetch DEF TypeInv, Promise!Next
  <2>4. CASE ObserverPoll \/ Flush \/ UNCHANGED vars
    BY <2>0, <2>4 DEF ObserverPoll, Flush, vars, pvars, rvars
  <2>5. CASE RequestStop \/ FinalFlush \/ ShutdownServer \/ ServerStop \/ Crash
    BY <2>0, <2>5
       DEF RequestStop, FinalFlush, ShutdownServer, ServerStop, Crash, pvars, rvars
  <2>6. ASSUME Start
        PROVE  Promise!Next
    BY <2>6 DEF Start, Promise!Restart, Promise!Next, Logged, NoCounts
  <2>7. ASSUME NEW p \in Publishers, AppendEntry(p)
        PROVE  Promise!Next
    BY <2>2, <2>7 DEF Promise!Next, AppendEntry, TypeInv
  <2> QED
    BY <2>1, <2>3, <2>4, <2>5, <2>6, <2>7 DEF Next, Publish, Lifecycle
<1>3. ReaderInv => CursorInLog
  BY DEF ReaderInv
<1> QED
  BY <1>1, <1>2, <1>3, TypeInvariant, GapsCorrect, ReaderInvariant, SerialLossless, PTL
     DEF Spec, ImplementsPromise, Promise!Spec
=============================================================================
