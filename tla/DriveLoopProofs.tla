--------------------------- MODULE DriveLoopProofs ---------------------------
(***************************************************************************)
(* Theorems about DriveLoop, for every number of workers, every cycle      *)
(* budget, heartbeat and de-duplication window, and either policy.         *)
(***************************************************************************)
EXTENDS DriveLoop, FiniteSetTheorems, TLAPS

\* The type invariant, by what the steps leave alone together.
Messages == Agents \union {"advanced-main"}
Corrections == [cycles : 0 .. MaxCycles, pending : BOOLEAN, flagged : BOOLEAN,
                exhausted : BOOLEAN]
TypeWorld == /\ row \in [Agents -> Statuses] /\ verdict \in BOOLEAN
             /\ merged \subseteq Agents /\ behind \subseteq Agents
             /\ screen \in [Agents -> Screens] /\ news \in Seq(Messages)
TypePlace == pc \in Steps /\ panes \subseteq Agents /\ todo \subseteq Agents /\ status \in Rows
TypeCorrection == correction \in [Agents -> Corrections] /\ exhausted \subseteq Agents
TypeProgress == /\ resolved \in [Agents -> -1 .. 2] /\ advanced \in BOOLEAN
                /\ known \subseteq Agents /\ moved \subseteq Agents
                /\ idle \in 0 .. Interval /\ deferred \in BOOLEAN
TypeAlerts == /\ seen \in [Agents -> [Keys -> 0 .. Window]]
              /\ escalated \subseteq Agents \X Verdicts /\ wedged \subseteq Agents
TypeView == /\ shown \in [Agents -> Alerts \union {"idle"}]
            /\ stood \in [Agents -> 0 .. Window]
            /\ told \in [Agents -> [Alerts -> 0 .. Window]] /\ flooded \in BOOLEAN
TypeEnd == /\ outcome \in {"running", "completed", "review", "heartbeat", "torn-down"}
           /\ summary \subseteq Agents \X Verdicts
TypeGhosts == /\ moves \in 0 .. MaxMoves /\ owed \in [Agents -> Int]
              /\ credit \in Int /\ late \in Nat /\ since \in [Agents -> 0 .. Interval]
              /\ touched \subseteq Agents

\* Feedback that waits to be polled, and a correction that waits to be sent, are
\* each owed for; the nudge pass visits only branches with one that waits.
Unread(a) == \E i \in DOMAIN news : news[i] = a
OwedInv == /\ \A a \in Agents :
                 owed[a] >= (IF correction[a].pending THEN 1 ELSE 0)
                            + (IF Unread(a) THEN 1 ELSE 0)
           /\ pc = "nudge" => \A a \in todo : correction[a].pending

\* A key's clock is that of the last of its alerts to go out; an alert on a pane
\* is that one, or has stood for less time than the clock shows.  So once it has
\* stood for a window, either the clock is its own or the window is over, and a
\* sweep that looked has not left the clock at the end of the window.
KeyInv(a) == /\ \A x \in Alerts : seen[a][Key(x)] <= told[a][x]
             /\ \A k \in Keys : seen[a][k] < Window =>
                  \E y \in Alerts : Key(y) = k /\ told[a][y] = seen[a][k]
StoodInv(a) == shown[a] \in Alerts =>
                 \/ told[a][shown[a]] = seen[a][Key(shown[a])]
                 \/ stood[a] <= seen[a][Key(shown[a])]
SweptInv(a) == Swept(a) /\ shown[a] \in Alerts => seen[a][Key(shown[a])] < Window
AlertInv == ~flooded /\ \A a \in Agents : KeyInv(a) /\ StoodInv(a) /\ SweptInv(a)

\* The loop has an outcome when it has wound down, and only then; it is a ruling
\* on the wave only of a status that is complete, and then every branch is still
\* to be compared, or was found merged and has been committed to since at most, or
\* is listed.
Rulings == {"completed", "review"}
Compared(a) == \/ a \in merged \union touched \/ <<a, "unmerged">> \in summary
               \/ pc = "summarize" /\ a \in todo
EndInv == /\ pc \notin {"summarize", "report", "over"} => outcome = "running"
          /\ outcome \in Rulings => Complete(status) /\ \A a \in Agents : Compared(a)
          /\ pc = "report" /\ outcome \in Rulings => todo = {}
          /\ Over => Listed \subseteq summary /\ (outcome = "completed" => summary = {})

\* A worker's last commit is as old as the heartbeat's clock, or its tip is
\* still to be read; and the heartbeat ends the loop when that clock is out.
SinceInv == /\ \A a \in Agents : since[a] >= idle \/ a \in moved
            /\ pc = "beat" \/ outcome = "heartbeat" => idle = Interval

\* The tick after the heartbeat came due has spent the one deferral.
LateInv == /\ late <= 1
           /\ late = 1 /\ pc \notin {"sleep", "summarize", "report", "over"} => deferred /\ idle = Interval
           /\ pc = "sleep" /\ idle = Interval => late = 0 /\ deferred

\* Whatever can still be taken for progress is a move of the wave that has not
\* been spent: a tip the loop knew that moved, a phase above the one on record,
\* an advance of this tick that has not been observed.
Risen == {a \in Agents : resolved[a] # -1 /\ Rank(row[a]) > resolved[a]}
Advance == IF advanced /\ pc \in {"poll", "nudge", "observe"} THEN 1 ELSE 0
CreditInv == /\ credit >= Cardinality(known \intersect moved) + Cardinality(Risen) + Advance
             /\ \A a \in Agents : resolved[a] # -1 => row[a] # "none"

LoopInv == OwedInv /\ AlertInv /\ EndInv /\ SinceInv /\ LateInv /\ CreditInv
IInv == TypeOK /\ LoopInv

-----------------------------------------------------------------------------
\* How a set that grows by one element, or loses one, counts.
LEMMA CountGrows ==
    ASSUME NEW S, IsFiniteSet(S), NEW T, NEW x, T \subseteq S \union {x}
    PROVE  /\ IsFiniteSet(T) /\ Cardinality(S) \in Nat /\ Cardinality(T) \in Nat
           /\ Cardinality(T) <= Cardinality(S) + 1
           /\ T \subseteq S => Cardinality(T) <= Cardinality(S)
<1>1. /\ IsFiniteSet(S \union {x}) /\ Cardinality(S) \in Nat
      /\ Cardinality(S \union {x}) <= Cardinality(S) + 1
  <2>1. Cardinality(S) \in Nat
    BY FS_CardinalityType
  <2>2. /\ IsFiniteSet(S \union {x})
        /\ Cardinality(S \union {x}) = IF x \in S THEN Cardinality(S) ELSE Cardinality(S) + 1
    BY FS_AddElement
  <2> QED
    BY <2>1, <2>2
<1>2. IsFiniteSet(T) /\ Cardinality(T) \in Nat /\ Cardinality(S \union {x}) \in Nat
      /\ Cardinality(T) <= Cardinality(S \union {x})
  BY <1>1, FS_Subset, FS_CardinalityType
<1>3. T \subseteq S => Cardinality(T) <= Cardinality(S)
  BY FS_Subset
<1> QED
  BY <1>1, <1>2, <1>3

LEMMA CountShrinks ==
    ASSUME NEW S, IsFiniteSet(S), NEW T, NEW x \in S, T \subseteq S \ {x}
    PROVE  /\ IsFiniteSet(T) /\ Cardinality(S) \in Nat /\ Cardinality(T) \in Nat
           /\ Cardinality(T) + 1 <= Cardinality(S)
<1>1. /\ IsFiniteSet(S \ {x}) /\ Cardinality(S \ {x}) = Cardinality(S) - 1
      /\ Cardinality(S) \in Nat
  BY FS_RemoveElement, FS_CardinalityType
<1>2. IsFiniteSet(T) /\ Cardinality(T) \in Nat /\ Cardinality(T) <= Cardinality(S \ {x})
  BY <1>1, FS_Subset, FS_CardinalityType
<1> QED
  BY <1>1, <1>2

\* A status has one rank; a row that was never reported has the lowest.
LEMMA RankType ==
    /\ \A s \in Statuses : Rank(s) \in -1 .. 2
    /\ Rank("none") = -1
    /\ \A s \in Statuses : s # "none" => Rank(s) >= 0
BY DEF Rank, Statuses

\* The sets that back the loop's credit are finite.
LEMMA Backing ==
    ASSUME TypeOK
    PROVE  /\ IsFiniteSet(known \intersect moved) /\ IsFiniteSet(Risen)
           /\ Cardinality(known \intersect moved) \in Nat /\ Cardinality(Risen) \in Nat
<1>1. known \intersect moved \subseteq Agents /\ Risen \subseteq Agents
  BY DEF TypeOK, Risen
<1> QED
  BY <1>1, AgentsAssumption, FS_Subset, FS_CardinalityType

\* The number of calls of a step that may fail is a number.
LEMMA FailCount ==
    ASSUME NEW S \in SUBSET Agents PROVE Cardinality(Agents \ S) \in Nat
BY AgentsAssumption, FS_Difference, FS_CardinalityType

LEMMA TypeParts ==
    TypeOK <=> /\ TypeWorld /\ TypePlace /\ TypeCorrection /\ TypeProgress
               /\ TypeAlerts /\ TypeView /\ TypeEnd /\ TypeGhosts
BY DEF TypeOK, TypeWorld, TypePlace, TypeCorrection, TypeProgress, TypeAlerts, TypeView,
       TypeEnd, TypeGhosts, Messages, Corrections

LEMMA TypePartsNext ==
    TypeOK' <=> /\ TypeWorld' /\ TypePlace' /\ TypeCorrection' /\ TypeProgress'
                /\ TypeAlerts' /\ TypeView' /\ TypeEnd' /\ TypeGhosts'
BY DEF TypeOK, TypeWorld, TypePlace, TypeCorrection, TypeProgress, TypeAlerts, TypeView,
       TypeEnd, TypeGhosts, Messages, Corrections

\* What a step keeps that leaves the variables of a part alone.
LEMMA TypeFrames ==
    ASSUME TypeOK
    PROVE  /\ UNCHANGED world => TypeWorld'
           /\ UNCHANGED <<pc, panes, todo, status>> => TypePlace'
           /\ UNCHANGED corrected => TypeCorrection'
           /\ UNCHANGED <<progress, moved>> => TypeProgress'
           /\ UNCHANGED alerts => TypeAlerts'
           /\ UNCHANGED view => TypeView'
           /\ UNCHANGED ended => TypeEnd'
           /\ UNCHANGED <<moves, owed, credit, since, late, touched>> => TypeGhosts'
<1> USE TypeParts
<1>1. UNCHANGED world => TypeWorld'
  BY DEF world, TypeWorld
<1>2. UNCHANGED <<pc, panes, todo, status>> => TypePlace'
  BY DEF TypePlace
<1>3. UNCHANGED corrected => TypeCorrection'
  BY DEF corrected, TypeCorrection
<1>4. UNCHANGED <<progress, moved>> => TypeProgress'
  BY DEF progress, TypeProgress
<1>5. UNCHANGED alerts => TypeAlerts'
  BY DEF alerts, TypeAlerts
<1>8. UNCHANGED view => TypeView'
  BY DEF view, TypeView
<1>6. UNCHANGED ended => TypeEnd'
  BY DEF ended, TypeEnd
<1>7. UNCHANGED <<moves, owed, credit, since, late, touched>> => TypeGhosts'
  BY DEF TypeGhosts
<1> QED
  BY <1>1, <1>2, <1>3, <1>4, <1>5, <1>6, <1>7, <1>8

Going == Steps \ {"summarize", "report", "over"}
Early == {"check", "sweep", "fetch", "poll", "nudge", "observe"}
Fetched == {"poll", "nudge", "observe"}

LEMMA InvFrames ==
    ASSUME IInv
    PROVE  /\ pc' # "nudge" /\ UNCHANGED <<owed, correction, news>> => OwedInv'
           /\ pc # "sweep" /\ pc' # "sweep" /\ UNCHANGED <<seen, view, panes>> => AlertInv'
           /\ pc \in Going /\ pc' \in Going /\ UNCHANGED outcome => EndInv'
           /\ pc' # "beat" /\ UNCHANGED <<since, idle, moved, outcome>> => SinceInv'
           /\ pc \in Early /\ pc' \in Early /\ UNCHANGED <<late, deferred, idle>> => LateInv'
           /\ (pc' \in Fetched => pc \in Fetched /\ UNCHANGED advanced)
              /\ UNCHANGED <<known, moved, resolved, row, credit>> => CreditInv'
<1> USE DEF IInv, LoopInv
<1>1. pc' # "nudge" /\ UNCHANGED <<owed, correction, news>> => OwedInv'
  BY DEF OwedInv, Unread
<1>2. ASSUME pc # "sweep", pc' # "sweep", UNCHANGED <<seen, view, panes>> PROVE AlertInv'
  <2>1. UNCHANGED <<shown, stood, told, flooded>> /\ \A a \in Agents : Swept(a)' = Swept(a)
    BY <1>2 DEF view, Swept
  <2> QED
    BY <1>2, <2>1 DEF AlertInv, KeyInv, StoodInv, SweptInv
<1>3. pc \in Going /\ pc' \in Going /\ UNCHANGED outcome => EndInv'
  BY DEF EndInv, Going, Over, Rulings
<1>4. pc' # "beat" /\ UNCHANGED <<since, idle, moved, outcome>> => SinceInv'
  BY DEF SinceInv
<1>5. pc \in Early /\ pc' \in Early /\ UNCHANGED <<late, deferred, idle>> => LateInv'
  BY DEF LateInv, Early
<1>6. ASSUME pc' \in Fetched => pc \in Fetched /\ UNCHANGED advanced,
             UNCHANGED <<known, moved, resolved, row, credit>>
      PROVE  CreditInv'
  <2>1. Risen' = Risen /\ (known \intersect moved)' = known \intersect moved
    BY <1>6 DEF Risen
  <2>2. /\ Advance \in {0, 1} /\ Advance' \in {0, 1} /\ Advance' <= Advance
        /\ Cardinality(known \intersect moved) \in Nat /\ Cardinality(Risen) \in Nat
        /\ credit \in Int
    BY <1>6, Backing, TypeParts DEF Advance, Fetched, TypeGhosts
  <2> QED
    BY <1>6, <2>1, <2>2 DEF CreditInv
<1> QED
  BY <1>1, <1>2, <1>3, <1>4, <1>5, <1>6

\* What a move of the wave leaves alone of the loop, it keeps of the invariant.
LEMMA WorldFrames ==
    ASSUME IInv, Move, LoopStays
    PROVE  /\ TypePlace' /\ TypeCorrection' /\ TypeAlerts' /\ TypeView' /\ TypeEnd'
           /\ (UNCHANGED moved => TypeProgress')
           /\ (UNCHANGED <<owed, since, credit, touched>> => TypeGhosts')
           /\ moves' \in 0 .. MaxMoves /\ ~Over
           /\ (UNCHANGED <<news, owed>> => OwedInv') /\ AlertInv' /\ LateInv'
           /\ (merged \union touched \subseteq (merged \union touched)' => EndInv')
           /\ (UNCHANGED <<moved, since>> => SinceInv')
           /\ (UNCHANGED <<moved, row, credit>> => CreditInv')
<1>0. /\ TypePlace /\ TypeCorrection /\ TypeAlerts /\ TypeEnd /\ TypeProgress /\ TypeGhosts
      /\ OwedInv /\ AlertInv /\ EndInv /\ LateInv /\ SinceInv /\ CreditInv
  BY TypeParts DEF IInv, LoopInv
<1>1. moves' \in 0 .. MaxMoves /\ ~Over
  BY <1>0, BoundAssumption DEF Move, TypeGhosts
<1>2. TypePlace' /\ TypeCorrection' /\ TypeAlerts' /\ TypeView' /\ TypeEnd'
      /\ (UNCHANGED moved => TypeProgress')
  BY <1>0, TypeFrames DEF IInv, LoopStays, progress, corrected
<1>3. UNCHANGED <<owed, since, credit, touched>> => TypeGhosts'
  BY <1>0, <1>1 DEF LoopStays, TypeGhosts
<1>4. UNCHANGED <<news, owed>> => OwedInv'
  BY <1>0 DEF LoopStays, OwedInv, Unread, corrected
<1>5. AlertInv' /\ LateInv'
  <2>1. LateInv'
    BY <1>0 DEF LoopStays, LateInv, progress
  <2>2. /\ UNCHANGED <<seen, shown, stood, told, flooded>>
        /\ \A a \in Agents : Swept(a)' = Swept(a)
    BY DEF LoopStays, alerts, view, Swept
  <2> QED
    BY <1>0, <2>1, <2>2 DEF AlertInv, KeyInv, StoodInv, SweptInv
<1>6. merged \union touched \subseteq (merged \union touched)' => EndInv'
  <2>1. UNCHANGED <<pc, todo, outcome, summary>> /\ Complete(status)' = Complete(status)
    BY DEF LoopStays, ended, Complete, Finished
  <2> QED
    BY <1>0, <1>1, <2>1 DEF EndInv, Over, Compared
<1>7. UNCHANGED <<moved, since>> => SinceInv'
  BY <1>0 DEF LoopStays, SinceInv, progress, ended
<1>8. UNCHANGED <<moved, row, credit>> => CreditInv'
  BY <1>0, InvFrames DEF LoopStays, progress
<1> QED
  BY <1>1, <1>2, <1>3, <1>4, <1>5, <1>6, <1>7, <1>8

\* A new row adds at most one rise to what the loop may still observe, and then
\* the wave's credit has grown by it.
LEMMA RowRises ==
    ASSUME IInv, NEW a \in Agents, NEW s \in Statuses, s # "none" \/ s = row[a],
           row' = [row EXCEPT ![a] = s], UNCHANGED resolved
    PROVE  /\ IsFiniteSet(Risen') /\ Cardinality(Risen) \in Nat /\ Cardinality(Risen') \in Nat
           /\ Rises(a, s) \in {0, 1}
           /\ Cardinality(Risen') <= Cardinality(Risen) + Rises(a, s)
           /\ \A b \in Agents : resolved'[b] # -1 => row'[b] # "none"
<1>0. TypeWorld /\ TypeProgress /\ CreditInv /\ IsFiniteSet(Risen)
  BY TypeParts, Backing DEF IInv, LoopInv
<1>1. \A b \in Agents : b # a => row'[b] = row[b]
  BY <1>0 DEF TypeWorld
<1>2. row'[a] = s /\ Rank(s) \in Int /\ Rank(row[a]) \in Int /\ resolved[a] \in Int
  BY <1>0, RankType DEF TypeWorld, TypeProgress
<1>3. Risen' \subseteq Risen \union {a}
  BY <1>1 DEF Risen
<1>4. Rises(a, s) = 0 => Risen' \subseteq Risen
  BY <1>0, <1>1, <1>2, RankType DEF Risen, Rises, CreditInv
<1>5. Rises(a, s) \in {0, 1}
  BY DEF Rises
<1>6. /\ IsFiniteSet(Risen') /\ Cardinality(Risen) \in Nat /\ Cardinality(Risen') \in Nat
      /\ Cardinality(Risen') <= Cardinality(Risen) + 1
      /\ Risen' \subseteq Risen => Cardinality(Risen') <= Cardinality(Risen)
  BY <1>0, <1>3, CountGrows
<1>7. \A b \in Agents : resolved'[b] # -1 => row'[b] # "none"
  BY <1>0, <1>1, <1>2 DEF CreditInv
<1> QED
  BY <1>4, <1>5, <1>6, <1>7

-----------------------------------------------------------------------------
\* A commit or a report: the row changes, and the credit by what it gains.
LEMMA RowMoves ==
    ASSUME IInv, Move, LoopStays, NEW a \in Agents, NEW s \in Statuses,
           s # "none" \/ s = row[a], row' = [row EXCEPT ![a] = s],
           \/ UNCHANGED moved /\ credit' = credit + Rises(a, s)
           \/ moved' = moved \union {a} /\ credit' = credit + 1 + Rises(a, s)
    PROVE  CreditInv' /\ credit' \in Int
<1>0. TypeProgress /\ TypeGhosts /\ CreditInv
  BY TypeParts DEF IInv, LoopInv
<1>1. /\ Cardinality(Risen) \in Nat /\ Cardinality(Risen') \in Nat
      /\ Rises(a, s) \in {0, 1}
      /\ Cardinality(Risen') <= Cardinality(Risen) + Rises(a, s)
      /\ \A b \in Agents : resolved'[b] # -1 => row'[b] # "none"
  BY RowRises DEF LoopStays, progress
<1>2. Advance' = Advance /\ Advance \in {0, 1} /\ credit \in Int
      /\ credit >= Cardinality(known \intersect moved) + Cardinality(Risen) + Advance
  BY <1>0 DEF LoopStays, progress, Advance, CreditInv, TypeGhosts
<1>3. /\ known' = known
      /\ known \intersect (moved \union {a}) \subseteq (known \intersect moved) \union {a}
  BY DEF LoopStays, progress
<1>4. IsFiniteSet(known \intersect moved)
  BY Backing DEF IInv
<1>5. /\ Cardinality(known \intersect moved) \in Nat
      /\ Cardinality(known \intersect (moved \union {a})) \in Nat
      /\ Cardinality(known \intersect (moved \union {a}))
           <= Cardinality(known \intersect moved) + 1
  BY <1>3, <1>4, CountGrows
<1>6. PICK j \in {0, 1} :
         /\ credit' = credit + j + Rises(a, s)
         /\ Cardinality(known' \intersect moved') \in Nat
         /\ Cardinality(known' \intersect moved') <= Cardinality(known \intersect moved) + j
  <2>1. CASE UNCHANGED moved /\ credit' = credit + Rises(a, s)
    <3>1. credit' = credit + 0 + Rises(a, s)
      BY <2>1, <1>1, <1>2
    <3>2. /\ Cardinality(known' \intersect moved') = Cardinality(known \intersect moved)
          /\ Cardinality(known \intersect moved) <= Cardinality(known \intersect moved) + 0
      BY <2>1, <1>3, <1>5
    <3> QED
      BY <3>1, <3>2, <1>5
  <2>2. CASE moved' = moved \union {a} /\ credit' = credit + 1 + Rises(a, s)
    <3>1. known' \intersect moved' = known \intersect (moved \union {a})
      BY <2>2, <1>3
    <3> QED
      BY <2>2, <3>1, <1>5
  <2> QED
    BY <2>1, <2>2
<1>7. /\ credit' >= Cardinality(known' \intersect moved') + Cardinality(Risen') + Advance'
      /\ credit' \in Int
  BY <1>1, <1>2, <1>5, <1>6
<1> QED
  BY <1>1, <1>7 DEF CreditInv

\* Appending feedback makes its branch unread, and no other.
LEMMA AppendUnread ==
    ASSUME news \in Seq(Messages), NEW m \in Messages, news' = Append(news, m)
    PROVE  /\ news' \in Seq(Messages)
           /\ \A a \in Agents : Unread(a)' => Unread(a) \/ a = m
<1>1. /\ news' \in Seq(Messages) /\ Len(news') = Len(news) + 1 /\ Len(news) \in Nat
      /\ DOMAIN news = 1 .. Len(news) /\ DOMAIN news' = 1 .. Len(news')
      /\ \A i \in 1 .. Len(news) : news'[i] = news[i]
      /\ news'[Len(news) + 1] = m
  OBVIOUS
<1> QED
  BY <1>1 DEF Unread

\* What the world does keeps the invariant.
LEMMA EnvironmentStep ==
    ASSUME IInv, Environment PROVE IInv'
<1>0. /\ TypeWorld /\ TypeProgress /\ TypeGhosts /\ TypeCorrection
      /\ OwedInv /\ EndInv /\ SinceInv /\ CreditInv /\ Interval \in Nat
  BY TypeParts, TimeAssumption DEF IInv, LoopInv
<1>1. ASSUME NEW a \in Agents, Commit(a) PROVE IInv'
  <2>1. Move /\ LoopStays /\ UNCHANGED <<news, owed>>
    BY <1>1 DEF Commit
  <2>2. PICK s \in {row[a], "committed"} : /\ row' = [row EXCEPT ![a] = s]
                                           /\ credit' = credit + 1 + Rises(a, s)
    BY <1>1 DEF Commit
  <2>3. s \in Statuses /\ (s # "none" \/ s = row[a])
    BY <1>0, <2>2 DEF TypeWorld, Statuses
  <2>4. CreditInv' /\ credit' \in Int
    <3>1. moved' = moved \union {a}
      BY <1>1 DEF Commit
    <3> QED
      BY <2>1, <2>2, <2>3, <3>1, RowMoves
  <2>5. TypeWorld' /\ TypeProgress'
    BY <1>0, <1>1, <2>2, <2>3 DEF Commit, LoopStays, progress, TypeWorld, TypeProgress
  <2>6. TypeGhosts'
    BY <1>0, <1>1, <2>1, <2>4, WorldFrames DEF Commit, LoopStays, TypeGhosts
  <2>7. SinceInv'
    BY <1>0, <1>1 DEF Commit, LoopStays, progress, ended, SinceInv, TypeGhosts
  <2>8. EndInv'
    <3>1. /\ UNCHANGED <<pc, todo, outcome, summary>> /\ ~Over
          /\ Complete(status)' = Complete(status)
          /\ merged' = merged \ {a}
          /\ touched' = touched \union (IF Judging /\ a \notin todo THEN {a} ELSE {})
      BY <1>1, <2>1 DEF Commit, LoopStays, ended, Complete, Finished, Move
    <3>2. ASSUME outcome \in Rulings, NEW b \in Agents PROVE Compared(b)'
      <4>1. Judging /\ Compared(b)
        BY <1>0, <3>1, <3>2 DEF EndInv, Rulings, Judging, Over
      <4>2. CASE b # a
        BY <3>1, <4>1, <4>2 DEF Compared
      <4>3. CASE b = a /\ a \in todo
        <5>1. pc = "summarize"
          BY <1>0, <3>2, <4>1, <4>3 DEF EndInv, Judging
        <5> QED
          BY <3>1, <4>3, <5>1 DEF Compared
      <4>4. CASE b = a /\ a \notin todo
        BY <3>1, <4>1, <4>4 DEF Compared
      <4> QED
        BY <4>2, <4>3, <4>4
    <3> QED
      BY <1>0, <3>1, <3>2 DEF EndInv, Over
  <2> QED
    BY <2>1, <2>4, <2>5, <2>6, <2>7, <2>8, WorldFrames, TypePartsNext DEF IInv, LoopInv
<1>2. ASSUME NEW a \in Agents, Report(a) PROVE IInv'
  <2>1. Move /\ LoopStays /\ UNCHANGED <<news, owed, moved, since, merged, touched>>
    BY <1>2 DEF Report
  <2>2. PICK s \in Statuses \ {"none", row[a]} : /\ row' = [row EXCEPT ![a] = s]
                                                 /\ credit' = credit + Rises(a, s)
    BY <1>2 DEF Report
  <2>3. s \in Statuses /\ s # "none"
    BY <2>2
  <2>4. CreditInv' /\ credit' \in Int
    BY <2>1, <2>2, <2>3, RowMoves
  <2>5. TypeWorld'
    BY <1>0, <1>2, <2>2 DEF Report, TypeWorld
  <2>6. TypeGhosts'
    BY <1>0, <2>1, <2>4, WorldFrames DEF LoopStays, TypeGhosts
  <2> QED
    BY <2>1, <2>4, <2>5, <2>6, WorldFrames, TypePartsNext DEF IInv, LoopInv
<1>3. ASSUME NEW a \in Agents, GateFails(a) PROVE IInv'
  <2>1. /\ Move /\ LoopStays /\ UNCHANGED <<moved, since, row, credit, merged, touched>>
        /\ news' = Append(news, a) /\ owed' = [owed EXCEPT ![a] = @ + 1]
    BY <1>3 DEF GateFails
  <2>2. /\ news' \in Seq(Messages)
        /\ \A b \in Agents : Unread(b)' => Unread(b) \/ b = a
    BY <1>0, <2>1, AppendUnread DEF TypeWorld, Messages
  <2>3. TypeWorld'
    BY <1>0, <1>3, <2>2 DEF GateFails, TypeWorld
  <2>4. TypeGhosts'
    BY <1>0, <2>1, WorldFrames DEF LoopStays, TypeGhosts
  <2>5. OwedInv'
    <3>1. \A b \in Agents : owed[b] \in Int
      BY <1>0 DEF TypeGhosts
    <3>2. UNCHANGED <<correction, pc, todo>>
      BY <2>1 DEF LoopStays, corrected
    <3>3. \A b \in Agents : owed'[b] = IF b = a THEN owed[b] + 1 ELSE owed[b]
      BY <1>0, <2>1 DEF TypeGhosts
    <3> HIDE <1>3
    <3>4. ASSUME NEW b \in Agents
          PROVE  owed'[b] >= (IF correction'[b].pending THEN 1 ELSE 0)
                             + (IF Unread(b)' THEN 1 ELSE 0)
      BY <1>0, <2>2, <3>1, <3>2, <3>3 DEF OwedInv
    <3> QED
      BY <1>0, <3>2, <3>4 DEF OwedInv
  <2> QED
    BY <2>1, <2>3, <2>4, <2>5, WorldFrames, TypePartsNext DEF IInv, LoopInv
<1>4. ASSUME NEW a \in Agents, Merge(a) PROVE IInv'
  <2>1. /\ Move /\ LoopStays /\ UNCHANGED <<moved, since, row, credit, owed, touched>>
        /\ news' = Append(news, "advanced-main") /\ merged' = merged \union {a}
    BY <1>4 DEF Merge
  <2>2. /\ news' \in Seq(Messages)
        /\ \A b \in Agents : Unread(b)' => Unread(b)
    BY <1>0, <2>1, AppendUnread, AgentsAssumption DEF TypeWorld, Messages
  <2>3. TypeWorld'
    BY <1>0, <1>4, <2>2 DEF Merge, TypeWorld
  <2>4. TypeGhosts'
    BY <2>1, WorldFrames
  <2>5. OwedInv'
    <3>1. UNCHANGED <<correction, pc, todo, owed>>
      BY <2>1 DEF LoopStays, corrected
    <3>2. ASSUME NEW b \in Agents
          PROVE  owed'[b] >= (IF correction'[b].pending THEN 1 ELSE 0)
                             + (IF Unread(b)' THEN 1 ELSE 0)
      BY <1>0, <2>2, <3>1 DEF OwedInv, TypeGhosts
    <3> QED
      BY <1>0, <3>1, <3>2 DEF OwedInv
  <2> QED
    BY <2>1, <2>3, <2>4, <2>5, WorldFrames, TypePartsNext DEF IInv, LoopInv
<1>5. ASSUME Judge \/ \E a \in Agents : Redraw(a) PROVE IInv'
  <2>1. /\ Move /\ LoopStays
        /\ UNCHANGED <<news, moved, since, row, credit, owed, merged, touched>>
    BY <1>5 DEF Judge, Redraw
  <2>2. TypeWorld'
    BY <1>0, <1>5 DEF Judge, Redraw, TypeWorld
  <2> QED
    BY <2>1, <2>2, WorldFrames, TypePartsNext DEF IInv, LoopInv
<1> QED
  BY <1>1, <1>2, <1>3, <1>4, <1>5 DEF Environment

-----------------------------------------------------------------------------
LEMMA InitIInv == Init => IInv
<1> SUFFICES ASSUME Init PROVE IInv
  OBVIOUS
<1>1. /\ row \in [Agents -> Statuses] /\ news \in Seq(Messages) /\ owed \in [Agents -> Int]
      /\ OwedInv
  <2>1. CASE row = [a \in Agents |-> "none"] /\ news = <<>> /\ owed = [a \in Agents |-> 0]
    BY <2>1 DEF Init, OwedInv, Unread, Statuses, NoCorrection
  <2>2. ASSUME NEW b \in Agents, row = [a \in Agents |-> "working"], news = <<b>>,
               owed = [a \in Agents |-> IF a = b THEN 1 ELSE 0]
        PROVE  /\ row \in [Agents -> Statuses] /\ news \in Seq(Messages)
               /\ owed \in [Agents -> Int] /\ OwedInv
    <3>1. row \in [Agents -> Statuses] /\ news \in Seq(Messages) /\ owed \in [Agents -> Int]
      BY <2>2 DEF Statuses, Messages
    <3>2. \A a \in Agents : Unread(a) => a = b
      BY <2>2 DEF Unread
    <3>3. \A a \in Agents : ~correction[a].pending
      BY DEF Init, NoCorrection
    <3> QED
      BY <2>2, <3>1, <3>2, <3>3 DEF Init, OwedInv
  <2> QED
    BY <2>1, <2>2 DEF Init, Wave
<1>2. TypeWorld /\ TypePlace
  BY <1>1 DEF Init, TypeWorld, TypePlace, Rows, NoRows, Statuses, Steps, Screens
<1>3. TypeCorrection /\ TypeProgress
  <2>1. NoCorrection \in Corrections
    BY CyclesAssumption DEF NoCorrection, Corrections
  <2>2. TypeCorrection
    BY <2>1 DEF Init, TypeCorrection
  <2>3. resolved \in [Agents -> -1 .. 2] /\ idle \in 0 .. Interval
    BY TimeAssumption DEF Init
  <2>4. advanced \in BOOLEAN /\ deferred \in BOOLEAN /\ known = {} /\ moved = {}
    BY DEF Init
  <2>5. TypeProgress
    BY <2>3, <2>4 DEF TypeProgress
  <2> QED
    BY <2>2, <2>5
<1>4. TypeAlerts /\ TypeView /\ TypeEnd /\ TypeGhosts
  <2>1. TypeEnd /\ TypeGhosts
    BY <1>1, TimeAssumption, BoundAssumption DEF Init, TypeEnd, TypeGhosts
  <2>2. TypeAlerts
    BY TimeAssumption DEF Init, TypeAlerts
  <2>3. TypeView
    <3>1. flooded \in BOOLEAN
      BY DEF Init
    <3>2. shown \in [Agents -> Alerts \union {"idle"}] /\ stood \in [Agents -> 0 .. Window]
      BY TimeAssumption DEF Init
    <3>3. told \in [Agents -> [Alerts -> 0 .. Window]]
      BY TimeAssumption DEF Init
    <3> QED
      BY <3>1, <3>2, <3>3 DEF TypeView
  <2> QED
    BY <2>1, <2>2, <2>3
<1>5. AlertInv /\ EndInv /\ LateInv
  <2>1. EndInv /\ LateInv
    BY TimeAssumption DEF Init, EndInv, Rulings, Over, LateInv
  <2>2. ASSUME NEW a \in Agents PROVE KeyInv(a) /\ StoodInv(a) /\ SweptInv(a)
    <3>1. /\ seen[a] = [k \in Keys |-> Window] /\ told[a] = [x \in Alerts |-> Window]
          /\ shown[a] \notin Alerts
      BY AlertsAssumption DEF Init, Alerts
    <3>2. \A x \in Alerts : Key(x) \in Keys
      BY DEF Keys
    <3> QED
      BY <3>1, <3>2, TimeAssumption DEF KeyInv, StoodInv, SweptInv
  <2> QED
    BY <2>1, <2>2 DEF AlertInv, Init
<1>6. SinceInv
  BY DEF Init, SinceInv
<1>7. CreditInv
  <2>1. known \intersect moved = {} /\ Risen = {} /\ Advance = 0 /\ credit = 0
    BY DEF Init, Risen, Advance
  <2>2. \A a \in Agents : resolved[a] = -1
    BY DEF Init
  <2> QED
    BY <2>1, <2>2, FS_EmptySet DEF CreditInv
<1> QED
  BY <1>1, <1>2, <1>3, <1>4, <1>5, <1>6, <1>7, TypeParts DEF IInv, LoopInv

-----------------------------------------------------------------------------
\* The start of a tick, and an exit because the session is gone.
LEMMA CheckStep ==
    ASSUME IInv, StartTick \/ TornDown PROVE IInv'
<1>0. TypePlace /\ TypeEnd /\ TypeGhosts /\ EndInv /\ LateInv /\ SinceInv
  BY TypeParts DEF IInv, LoopInv
<1>1. CASE StartTick
  <2>1. PICK listed \in {Agents, {}} :
          /\ panes' = listed /\ Pass(listed, "sweep", "fetch")
          /\ Fail(IF listed = {} THEN 1 ELSE 0)
    BY <1>1 DEF StartTick
  <2>2. pc = "check" /\ pc' \in {"sweep", "fetch"} /\ UNCHANGED outcome
    BY <1>1, <2>1 DEF StartTick, Pass, ended
  <2>3. TypePlace'
    BY <1>0, <1>1, <2>1, <2>2 DEF StartTick, Pass, TypePlace, Steps
  <2>4. TypeGhosts'
    BY <1>0, <1>1, <2>1, BoundAssumption DEF StartTick, Fail, TypeGhosts
  <2>5. TypeWorld' /\ TypeCorrection' /\ TypeProgress' /\ TypeAlerts' /\ TypeView' /\ TypeEnd'
    BY <1>1, TypeFrames DEF StartTick, IInv, ScreensStay, world
  <2>6. OwedInv' /\ SinceInv'
    BY <1>1, <2>2, InvFrames DEF StartTick, ScreensStay, corrected, progress
  <2>8. AlertInv'
    <3>1. UNCHANGED <<seen, shown, stood, told, flooded>>
      BY <1>1 DEF StartTick, alerts, view
    <3>2. \A a \in Agents : ~Swept(a)'
      BY <2>1, <2>2 DEF Swept, Pass
    <3> QED
      BY <3>1, <3>2 DEF IInv, LoopInv, AlertInv, KeyInv, StoodInv, SweptInv
  <2>7. EndInv' /\ LateInv' /\ CreditInv'
    BY <1>1, <2>2, InvFrames
       DEF StartTick, ScreensStay, progress, Going, Steps, Early, Fetched
  <2> QED
    BY <2>3, <2>4, <2>5, <2>6, <2>7, <2>8, TypePartsNext DEF IInv, LoopInv
<1>2. CASE TornDown
  <2>1. pc = "check" /\ pc' = "report" /\ outcome' = "torn-down" /\ UNCHANGED summary
    BY <1>2 DEF TornDown, Goto
  <2>2. TypePlace' /\ TypeEnd'
    BY <1>0, <1>2, <2>1 DEF TornDown, TypePlace, TypeEnd, Steps
  <2>3. /\ TypeWorld' /\ TypeCorrection' /\ TypeProgress' /\ TypeAlerts' /\ TypeView'
        /\ TypeGhosts'
    BY <1>2, TypeFrames DEF TornDown, IInv, WorldStays, ScreensStay, world
  <2>4. OwedInv' /\ AlertInv'
    BY <1>2, <2>1, InvFrames DEF TornDown, WorldStays, ScreensStay, corrected, alerts
  <2>5. CreditInv'
    BY <1>2, <2>1, InvFrames DEF TornDown, WorldStays, ScreensStay, progress, Fetched
  <2>6. EndInv' /\ LateInv'
    BY <1>0, <1>2, <2>1 DEF TornDown, EndInv, Rulings, Over, LateInv
  <2>7. SinceInv'
    BY <1>0, <1>2, <2>1 DEF TornDown, WorldStays, ScreensStay, progress, SinceInv
  <2> QED
    BY <2>2, <2>3, <2>4, <2>5, <2>6, <2>7, TypePartsNext DEF IInv, LoopInv
<1> QED
  BY <1>1, <1>2

\* Recording the phases of an answer: what had risen above the record no longer
\* does, and an advance was a rise.
LEMMA Recorded ==
    ASSUME IInv, NEW rows \in Answers, resolved' = RaisedTo(rows), UNCHANGED row
    PROVE  /\ rows \in Rows /\ resolved' \in [Agents -> -1 .. 2]
           /\ \A a \in Agents : resolved'[a] # -1 => row'[a] # "none"
           /\ Cardinality(Risen) \in Nat /\ Cardinality(Risen') \in Nat
           /\ Cardinality(Risen') + (IF Advances(rows) THEN 1 ELSE 0) <= Cardinality(Risen)
<1>0. TypeWorld /\ TypeProgress /\ CreditInv /\ IsFiniteSet(Risen)
  BY TypeParts, Backing DEF IInv, LoopInv
<1>1. rows \in Rows /\ \A a \in Agents : rows.agents[a] \in {row[a], "none"}
  <2>1. CASE rows = [agents |-> row, verdict |-> verdict]
    <3>1. rows \in Rows /\ rows.agents = row
      BY <1>0, <2>1 DEF Rows, TypeWorld
    <3> QED
      BY <3>1
  <2>2. CASE rows = NoRows
    <3>1. rows \in Rows /\ rows.agents = [a \in Agents |-> "none"]
      BY <2>2 DEF Rows, NoRows, Statuses
    <3> QED
      BY <3>1
  <2> QED
    BY <2>1, <2>2 DEF Answers
<1>2. \A a \in Agents : /\ Rank(rows.agents[a]) \in -1 .. 2 /\ Rank(row[a]) \in -1 .. 2
                        /\ resolved[a] \in -1 .. 2
                        /\ rows.agents[a] = "none" => Rank(rows.agents[a]) = -1
  BY <1>0, <1>1, RankType DEF Rows, TypeWorld, TypeProgress
<1>3. \A a \in Agents : resolved'[a] = IF Rank(rows.agents[a]) > resolved[a]
                                       THEN Rank(rows.agents[a]) ELSE resolved[a]
  BY DEF RaisedTo
<1>4. resolved' \in [Agents -> -1 .. 2]
  BY <1>2 DEF RaisedTo
<1>5. \A a \in Agents : resolved'[a] # -1 => row'[a] # "none"
  BY <1>0, <1>1, <1>2, <1>3 DEF CreditInv
<1>6. Risen' \subseteq Risen
  BY <1>1, <1>2, <1>3 DEF Risen
<1>7. CASE Advances(rows)
  <2>1. PICK x \in Agents : resolved[x] # -1 /\ resolved'[x] > resolved[x]
    BY <1>7 DEF Advances
  <2>2. x \in Risen /\ x \notin Risen'
    BY <2>1, <1>1, <1>2, <1>3 DEF Risen
  <2>3. Risen' \subseteq Risen \ {x}
    BY <1>6, <2>2
  <2>4. Cardinality(Risen) \in Nat /\ Cardinality(Risen') \in Nat
        /\ Cardinality(Risen') + 1 <= Cardinality(Risen)
    BY <1>0, <2>2, <2>3, CountShrinks
  <2> QED
    BY <1>1, <1>4, <1>5, <1>7, <2>4
<1>8. CASE ~Advances(rows)
  <2>1. Cardinality(Risen) \in Nat /\ Cardinality(Risen') \in Nat
        /\ Cardinality(Risen') <= Cardinality(Risen)
    BY <1>0, <1>6, FS_Subset, FS_CardinalityType
  <2> QED
    BY <1>1, <1>4, <1>5, <1>8, <2>1
<1> QED
  BY <1>7, <1>8

\* The fetch: what rose since the last one is recorded, and an advance of this
\* tick is backed by it.
LEMMA FetchStep ==
    ASSUME IInv, Fetch PROVE IInv'
<1>0. TypePlace /\ TypeCorrection /\ TypeProgress /\ TypeGhosts /\ OwedInv /\ CreditInv
  BY TypeParts DEF IInv, LoopInv
<1>1. pc = "fetch" /\ pc' = "poll" /\ UNCHANGED <<outcome, owed, news, row>>
  BY DEF Fetch, Goto, WorldStays, ScreensStay, ended
<1>2. PICK rows \in Answers : /\ status' = rows /\ correction' = ClearCompleted(rows)
                              /\ resolved' = RaisedTo(rows) /\ advanced' = Advances(rows)
  BY DEF Fetch
<1>3. /\ rows \in Rows /\ resolved' \in [Agents -> -1 .. 2]
      /\ \A a \in Agents : resolved'[a] # -1 => row'[a] # "none"
      /\ Cardinality(Risen) \in Nat /\ Cardinality(Risen') \in Nat
      /\ Cardinality(Risen') + (IF Advances(rows) THEN 1 ELSE 0) <= Cardinality(Risen)
  BY <1>1, <1>2, Recorded
<1>4. TypePlace'
  BY <1>0, <1>1, <1>2, <1>3 DEF Fetch, TypePlace, Steps
<1>5. TypeCorrection'
  <2>1. NoCorrection \in Corrections
    BY CyclesAssumption DEF NoCorrection, Corrections
  <2> QED
    BY <1>0, <1>2, <2>1 DEF Fetch, TypeCorrection, ClearCompleted
<1>6. advanced' \in BOOLEAN
  BY <1>2 DEF Advances
<1>7. TypeProgress'
  BY <1>0, <1>3, <1>6 DEF Fetch, TypeProgress, WorldStays, ScreensStay
<1>8. TypeWorld' /\ TypeAlerts' /\ TypeView' /\ TypeEnd' /\ TypeGhosts'
  BY TypeFrames DEF Fetch, IInv, WorldStays, ScreensStay, world
<1>9. OwedInv'
  <2>1. \A a \in Agents : correction'[a].pending => correction[a].pending
    BY <1>2 DEF ClearCompleted, NoCorrection
  <2>2. \A a \in Agents : Unread(a)' = Unread(a) /\ owed[a] \in Int
    BY <1>0, <1>1 DEF Unread, TypeGhosts
  <2>3. ASSUME NEW a \in Agents
        PROVE  owed'[a] >= (IF correction'[a].pending THEN 1 ELSE 0)
                           + (IF Unread(a)' THEN 1 ELSE 0)
    BY <1>0, <1>1, <2>1, <2>2 DEF OwedInv
  <2> QED
    BY <1>1, <2>3 DEF OwedInv
<1>10. AlertInv' /\ SinceInv' /\ LateInv'
  BY <1>1, InvFrames DEF Fetch, WorldStays, ScreensStay, alerts, Early
<1>11. EndInv'
  BY <1>1, InvFrames DEF Fetch, Going, Steps
<1>12. CreditInv'
  <2>1. known' \intersect moved' = known \intersect moved /\ credit' = credit
        /\ Cardinality(known \intersect moved) \in Nat /\ credit \in Int
    BY <1>0, Backing DEF Fetch, WorldStays, ScreensStay, IInv, TypeGhosts
  <2>2. Advance = 0 /\ Advance' = IF Advances(rows) THEN 1 ELSE 0
    BY <1>1, <1>2 DEF Advance
  <2>3. credit >= Cardinality(known \intersect moved) + Cardinality(Risen) + Advance
    BY <1>0 DEF CreditInv
  <2>4. PICK k \in Nat, r \in Nat, s \in Nat, d \in {0, 1} :
          /\ k = Cardinality(known \intersect moved) /\ r = Cardinality(Risen)
          /\ s = Cardinality(Risen') /\ d = Advance'
    BY <1>3, <2>1, <2>2
  <2>5. s + d <= r /\ credit >= k + r
    BY <1>3, <2>1, <2>2, <2>3, <2>4
  <2>6. credit >= k + s + d
    BY <2>1, <2>5
  <2>7. credit' >= Cardinality(known' \intersect moved') + Cardinality(Risen') + Advance'
    BY <2>1, <2>4, <2>6
  <2> QED
    BY <1>3, <2>7 DEF CreditInv
<1> QED
  BY <1>4, <1>5, <1>7, <1>8, <1>9, <1>10, <1>11, <1>12, TypePartsNext DEF IInv, LoopInv

\* Polling: feedback becomes a pending correction of its branch, and what the
\* loop rebases leaves its record of tips.
LEMMA PollStep ==
    ASSUME IInv, Poll PROVE IInv'
<1>0. /\ TypeWorld /\ TypePlace /\ TypeCorrection /\ TypeProgress /\ TypeGhosts
      /\ OwedInv /\ EndInv /\ SinceInv /\ LateInv /\ CreditInv
  BY TypeParts DEF IInv, LoopInv
<1>1. pc = "poll" /\ outcome = "running" /\ WindDown
  BY <1>0 DEF Poll, EndInv
<1>2. PICK messages :
        /\ React(messages) /\ news' \in Seq(Messages) /\ moves' \in 0 .. MaxMoves
        /\ \A a \in Agents : (a \in messages => Unread(a))
                             /\ (Unread(a)' => Unread(a) /\ a \notin messages)
  <2>1. CASE /\ React({news[i] : i \in DOMAIN news}) /\ news' = <<>> /\ UNCHANGED moves
    <3>1. \A a \in Agents : (a \in {news[i] : i \in DOMAIN news} => Unread(a)) /\ ~Unread(a)'
      BY <2>1 DEF Unread
    <3> QED
      BY <1>0, <2>1, <3>1 DEF TypeGhosts
  <2>2. CASE news # <<>> /\ React({}) /\ Fail(1) /\ UNCHANGED news
    <3>1. moves' \in 0 .. MaxMoves
      BY <1>0, <2>2, BoundAssumption DEF Fail, TypeGhosts
    <3> QED
      BY <1>0, <2>2, <3>1 DEF TypeWorld, Unread
  <2> QED
    BY <2>1, <2>2 DEF Poll
<1>3. PICK rebased \in SUBSET Agents :
        /\ behind' = behind \ rebased /\ moved' = moved \union rebased
        /\ known' = known \ rebased
  <2>1. Refreshable \subseteq Agents
    BY <1>0 DEF Refreshable, TypePlace
  <2> QED
    BY <1>2, <2>1 DEF React, ForgetTips
<1>4. /\ correction' \in [Agents -> Corrections]
      /\ \A a \in Agents : correction'[a].pending => correction[a].pending \/ a \in messages
  <2>1. correction' = [a \in Agents |-> IF a \in messages THEN MarkFailed(a) ELSE correction[a]]
    BY <1>2 DEF React
  <2>2. \A a \in Agents : correction[a] \in Corrections /\ MarkFailed(a) \in Corrections
    BY <1>0 DEF TypeCorrection, MarkFailed, Corrections
  <2> QED
    BY <2>1, <2>2
<1>5. \/ /\ pc' \in {"summarize", "report"} /\ todo' = Agents /\ Complete(status)
         /\ (pc' = "report" => Agents = {}) /\ outcome' \in Rulings
      \/ /\ pc' \in {"nudge", "observe"} /\ outcome' = "running"
         /\ todo' = {a \in Agents : correction'[a].pending}
  BY <1>1 DEF WindDown, Pass, Rulings
<1>6. TypeWorld' /\ TypePlace'
  BY <1>0, <1>2, <1>3, <1>5 DEF Poll, TypeWorld, TypePlace, Steps
<1>7. TypeCorrection' /\ TypeProgress' /\ TypeGhosts'
  BY <1>0, <1>2, <1>3, <1>4 DEF Poll, TypeCorrection, TypeProgress, TypeGhosts
<1>8. TypeAlerts' /\ TypeView'
  BY TypeFrames DEF Poll, IInv
<1>9. TypeEnd'
  BY <1>5, TypeParts DEF Poll, IInv, TypeEnd, Rulings
<1>10. OwedInv'
  <2>1. ASSUME NEW a \in Agents
        PROVE  owed'[a] >= (IF correction'[a].pending THEN 1 ELSE 0)
                           + (IF Unread(a)' THEN 1 ELSE 0)
    <3>1. owed[a] \in Int /\ owed'[a] = owed[a]
      BY <1>0 DEF Poll, TypeGhosts
    <3>2. owed[a] >= (IF correction[a].pending THEN 1 ELSE 0) + (IF Unread(a) THEN 1 ELSE 0)
      BY <1>0 DEF OwedInv
    <3> QED
      BY <1>2, <1>4, <3>1, <3>2
  <2>2. pc' = "nudge" => \A a \in todo' : correction'[a].pending
    BY <1>5
  <2> QED
    BY <2>1, <2>2 DEF OwedInv
<1>11. AlertInv'
  BY <1>1, <1>5, InvFrames DEF Poll, alerts
<1>12. EndInv'
  BY <1>5 DEF Poll, EndInv, Over, Complete, Finished, Compared, Rulings
<1>13. SinceInv'
  BY <1>0, <1>3, <1>5 DEF Poll, SinceInv, Rulings
<1>14. LateInv'
  BY <1>0, <1>1, <1>5 DEF Poll, LateInv
<1>15. CreditInv'
  <2>1. known' \intersect moved' \subseteq known \intersect moved
    BY <1>3
  <2>2. Risen' = Risen /\ credit' = credit
        /\ \A a \in Agents : resolved'[a] # -1 => row'[a] # "none"
    BY <1>0 DEF Poll, Risen, CreditInv
  <2>3. Advance \in {0, 1} /\ Advance' \in {0, 1} /\ Advance' <= Advance
    BY <1>1, <1>5 DEF Poll, Advance
  <2>4. /\ Cardinality(known \intersect moved) \in Nat /\ Cardinality(Risen) \in Nat
        /\ Cardinality(known' \intersect moved') \in Nat
        /\ Cardinality(known' \intersect moved') <= Cardinality(known \intersect moved)
    BY <2>1, Backing, FS_Subset, FS_CardinalityType DEF IInv
  <2>5. credit \in Int
        /\ credit >= Cardinality(known \intersect moved) + Cardinality(Risen) + Advance
    BY <1>0 DEF CreditInv, TypeGhosts
  <2>6. credit' >= Cardinality(known' \intersect moved') + Cardinality(Risen') + Advance'
    BY <2>2, <2>3, <2>4, <2>5
  <2> QED
    BY <2>2, <2>6 DEF CreditInv
<1> QED
  BY <1>6, <1>7, <1>8, <1>9, <1>10, <1>11, <1>12, <1>13, <1>14, <1>15, TypePartsNext
     DEF IInv, LoopInv

\* What is taken for progress is paid for by a move of the wave, and without
\* progress the heartbeat's clock is that of the last commit that was read.
LEMMA ObserveStep ==
    ASSUME IInv, Observe PROVE IInv'
<1>0. /\ TypePlace /\ TypeProgress /\ TypeGhosts /\ EndInv /\ SinceInv /\ LateInv /\ CreditInv
      /\ Interval \in Nat \ {0}
  BY TypeParts, TimeAssumption DEF IInv, LoopInv
<1>1. PICK read \in SUBSET Agents :
        /\ IF MadeProgress(read)
           THEN idle' = 0 /\ deferred' = FALSE /\ credit' = credit - 1
           ELSE UNCHANGED <<idle, deferred, credit>>
        /\ Fail(Cardinality(Agents \ read))
        /\ known' = known \union read /\ moved' = moved \ read
        /\ since' = [a \in Agents |-> IF a \in moved \ (known \intersect read)
                                      THEN Interval ELSE since[a]]
  BY DEF Observe
<1>2. /\ pc = "observe" /\ pc' = (IF idle' >= Interval THEN "beat" ELSE "sleep")
      /\ UNCHANGED <<world, panes, todo, status, corrected, resolved, advanced, alerts,
                     ended, owed, late, touched, view>>
  BY DEF Observe
<1>3. idle' \in 0 .. Interval /\ deferred' \in BOOLEAN /\ credit' \in Int
  <2>1. CASE MadeProgress(read)
    <3>1. idle' = 0 /\ deferred' = FALSE /\ credit' = credit - 1
      BY <1>1, <2>1
    <3>2. credit' \in Int
      BY <1>0, <3>1 DEF TypeGhosts
    <3>3. idle' \in 0 .. Interval
      BY <1>0, <3>1
    <3> QED
      BY <3>1, <3>2, <3>3
  <2>2. CASE ~MadeProgress(read)
    <3>1. idle' = idle /\ deferred' = deferred /\ credit' = credit
      BY <1>1, <2>2
    <3>2. deferred' \in BOOLEAN
      BY <1>0, <3>1, Zenon DEF TypeProgress
    <3>3. idle' \in 0 .. Interval /\ credit' \in Int
      BY <1>0, <3>1 DEF TypeProgress, TypeGhosts
    <3> QED
      BY <3>2, <3>3
  <2> QED
    BY <2>1, <2>2
<1>4. pc' \in {"beat", "sleep"} /\ (pc' = "beat" <=> idle' = Interval)
  BY <1>0, <1>2, <1>3
<1>5. TypePlace'
  BY <1>0, <1>2, <1>4 DEF TypePlace, Steps
<1>6. TypeProgress'
  BY <1>0, <1>1, <1>2, <1>3 DEF TypeProgress
<1>7. TypeGhosts'
  <2>1. moves' \in 0 .. MaxMoves
    <3>1. PICK n \in Nat : n = Cardinality(Agents \ read)
      BY <1>1, FailCount
    <3>2. moves + n <= MaxMoves /\ moves' = moves + n
      BY <1>1, <3>1 DEF Fail
    <3> QED
      BY <1>0, <3>2, BoundAssumption DEF TypeGhosts
  <2>2. since' \in [Agents -> 0 .. Interval]
    BY <1>0, <1>1 DEF TypeGhosts
  <2> QED
    BY <1>0, <1>2, <1>3, <2>1, <2>2 DEF TypeGhosts
<1>8. TypeWorld' /\ TypeCorrection' /\ TypeAlerts' /\ TypeView' /\ TypeEnd'
  BY <1>2, TypeFrames DEF IInv
<1>9. OwedInv' /\ AlertInv'
  BY <1>2, <1>4, InvFrames DEF world, corrected, alerts
<1>10. EndInv'
  BY <1>2, <1>4, InvFrames DEF ended, Going, Steps
<1>11. SinceInv'
  <2>1. ASSUME NEW a \in Agents PROVE since'[a] >= idle' \/ a \in moved'
    <3>1. /\ since'[a] = IF a \in moved \ (known \intersect read) THEN Interval ELSE since[a]
          /\ since[a] \in 0 .. Interval /\ idle \in 0 .. Interval
      BY <1>0, <1>1 DEF TypeGhosts, TypeProgress
    <3>2. CASE MadeProgress(read)
      BY <1>0, <1>1, <3>1, <3>2
    <3>3. CASE ~MadeProgress(read)
      <4>1. idle' = idle /\ ~(a \in known /\ a \in moved /\ a \in read)
        BY <1>1, <3>3 DEF MadeProgress
      <4>2. since[a] >= idle \/ a \in moved
        BY <1>0 DEF SinceInv
      <4> QED
        BY <1>0, <3>1, <4>1, <4>2
    <3> QED
      BY <3>2, <3>3
  <2>2. outcome' = "running"
    BY <1>0, <1>2 DEF EndInv, ended
  <2> QED
    BY <1>4, <2>1, <2>2 DEF SinceInv
<1>12. LateInv'
  <2>1. late' = late /\ (late = 1 => deferred /\ idle = Interval)
    BY <1>0, <1>2 DEF LateInv
  <2>2. idle' = Interval => deferred' = deferred /\ idle' = idle
    BY <1>0, <1>1
  <2>3. late <= 1
    BY <1>0 DEF LateInv
  <2> QED
    BY <1>0, <1>4, <2>1, <2>2, <2>3 DEF LateInv
<1>13. CreditInv'
  <2>1. /\ Risen' = Risen /\ Advance' = 0
        /\ \A a \in Agents : resolved'[a] # -1 => row'[a] # "none"
    BY <1>0, <1>2, <1>4 DEF Risen, Advance, CreditInv, world
  <2>2. known' \intersect moved' \subseteq known \intersect moved
    BY <1>1
  <2>3. /\ IsFiniteSet(known \intersect moved)
        /\ Cardinality(known \intersect moved) \in Nat /\ Cardinality(Risen) \in Nat
        /\ Cardinality(known' \intersect moved') \in Nat
        /\ Cardinality(known' \intersect moved') <= Cardinality(known \intersect moved)
    BY <2>2, Backing, FS_Subset, FS_CardinalityType DEF IInv
  <2>4. credit \in Int
        /\ credit >= Cardinality(known \intersect moved) + Cardinality(Risen) + Advance
    BY <1>0 DEF CreditInv, TypeGhosts
  <2>5. CASE ~MadeProgress(read)
    <3>1. credit' = credit /\ Advance = 0
      BY <1>0, <1>1, <1>2, <2>5 DEF MadeProgress, Advance
    <3> QED
      BY <2>1, <2>3, <2>4, <3>1 DEF CreditInv
  <2>6. CASE MadeProgress(read) /\ advanced
    <3>1. credit' = credit - 1 /\ Advance = 1
      BY <1>1, <1>2, <2>6 DEF Advance
    <3> QED
      BY <2>1, <2>3, <2>4, <3>1 DEF CreditInv
  <2>7. CASE MadeProgress(read) /\ ~advanced
    <3>1. credit' = credit - 1 /\ Advance = 0
      BY <1>1, <2>7 DEF Advance
    <3>2. PICK x : x \in known \intersect moved /\ x \in read
      BY <2>7 DEF MadeProgress
    <3>3. known' \intersect moved' \subseteq (known \intersect moved) \ {x}
      BY <1>1, <3>2
    <3>4. Cardinality(known' \intersect moved') + 1 <= Cardinality(known \intersect moved)
      BY <2>3, <3>2, <3>3, CountShrinks
    <3>5. credit' >= Cardinality(known' \intersect moved') + Cardinality(Risen') + Advance'
      BY <2>1, <2>3, <2>4, <3>1, <3>4
    <3> QED
      BY <2>1, <3>5 DEF CreditInv
  <2> QED
    BY <2>5, <2>6, <2>7
<1> QED
  BY <1>5, <1>6, <1>7, <1>8, <1>9, <1>10, <1>11, <1>12, <1>13, TypePartsNext
     DEF IInv, LoopInv

\* The heartbeat is due: progress /status shows is recorded and paid for; a
\* completion defers the exit once; otherwise the loop winds down.
LEMMA BeatStep ==
    ASSUME IInv, Beat PROVE IInv'
<1>0. /\ TypePlace /\ TypeProgress /\ TypeEnd /\ TypeGhosts /\ EndInv /\ SinceInv /\ LateInv
      /\ CreditInv /\ Interval \in Nat \ {0}
  BY TypeParts, TimeAssumption DEF IInv, LoopInv
<1>1. PICK rows \in Answers :
        /\ resolved' = RaisedTo(rows)
        /\ \/ /\ Advances(rows) /\ pc' = "sleep"
              /\ idle' = 0 /\ deferred' = FALSE /\ credit' = credit - 1
              /\ UNCHANGED <<status, outcome>>
           \/ /\ ~Advances(rows) /\ MayDefer(rows) /\ pc' = "sleep"
              /\ deferred' = TRUE
              /\ UNCHANGED <<status, outcome, idle, credit>>
           \/ /\ ~Advances(rows) /\ ~MayDefer(rows) /\ pc' = "report"
              /\ outcome' = "heartbeat" /\ status' = IF rows = NoRows THEN status ELSE rows
              /\ UNCHANGED <<idle, deferred, credit>>
  BY DEF Beat
<1>2. /\ pc = "beat" /\ outcome = "running" /\ idle = Interval
      /\ UNCHANGED <<world, moved, moves, panes, todo, corrected, advanced, known, alerts,
                     summary, owed, since, late, touched, view>>
  BY <1>0 DEF Beat, EndInv, SinceInv, WorldStays, ScreensStay, world
<1>3. /\ rows \in Rows /\ resolved' \in [Agents -> -1 .. 2]
      /\ \A a \in Agents : resolved'[a] # -1 => row'[a] # "none"
      /\ Cardinality(Risen) \in Nat /\ Cardinality(Risen') \in Nat
      /\ Cardinality(Risen') + (IF Advances(rows) THEN 1 ELSE 0) <= Cardinality(Risen)
  BY <1>1, <1>2, Recorded DEF world
<1>4. pc' \in {"sleep", "report"} /\ status' \in Rows /\ outcome' \in {"running", "heartbeat"}
      /\ (pc' = "sleep" => outcome' = "running")
  BY <1>0, <1>1, <1>2, <1>3 DEF TypePlace
<1>5. TypePlace' /\ TypeEnd'
  BY <1>0, <1>2, <1>4 DEF TypePlace, TypeEnd, Steps
<1>6. idle' \in {0, idle} /\ deferred' \in BOOLEAN /\ credit' \in Int
  <2>1. CASE idle' = 0 /\ deferred' = FALSE /\ credit' = credit - 1
    <3>1. credit' \in Int
      BY <1>0, <2>1 DEF TypeGhosts
    <3> QED
      BY <2>1, <3>1
  <2>2. CASE deferred' = TRUE /\ UNCHANGED <<idle, credit>>
    <3>1. credit' \in Int
      BY <1>0, <2>2 DEF TypeGhosts
    <3> QED
      BY <2>2, <3>1
  <2>3. CASE UNCHANGED <<idle, deferred, credit>>
    <3>1. deferred' \in BOOLEAN
      BY <1>0, <2>3, Zenon DEF TypeProgress
    <3>2. idle' = idle /\ credit' \in Int
      BY <1>0, <2>3 DEF TypeGhosts
    <3> QED
      BY <3>1, <3>2
  <2> QED
    BY <1>1, <2>1, <2>2, <2>3
<1>7. TypeProgress' /\ TypeGhosts'
  BY <1>0, <1>2, <1>3, <1>6 DEF TypeProgress, TypeGhosts
<1>8. TypeWorld' /\ TypeCorrection' /\ TypeAlerts' /\ TypeView'
  BY <1>2, TypeFrames DEF IInv
<1>9. OwedInv' /\ AlertInv'
  BY <1>2, <1>4, InvFrames DEF world, corrected, alerts
<1>10. EndInv'
  BY <1>4 DEF EndInv, Over, Rulings
<1>11. SinceInv'
  <2>1. \A a \in Agents : since[a] \in 0 .. Interval /\ (since[a] >= idle \/ a \in moved)
    BY <1>0 DEF SinceInv, TypeGhosts
  <2>2. since' = since /\ moved' = moved
    BY <1>2
  <2>3. \A a \in Agents : since'[a] >= idle' \/ a \in moved'
    BY <1>0, <1>6, <2>1, <2>2
  <2>4. outcome' = "heartbeat" => idle' = Interval
    BY <1>1, <1>2, <1>4
  <2> QED
    BY <1>4, <2>3, <2>4 DEF SinceInv
<1>12. LateInv'
  <2>1. late' = late /\ late <= 1 /\ late \in Nat /\ (late = 1 => deferred)
    BY <1>0, <1>2 DEF LateInv, TypeGhosts
  <2>2. pc' = "sleep" /\ idle' = Interval => ~deferred /\ deferred'
    BY <1>0, <1>1 DEF MayDefer
  <2> QED
    BY <1>4, <2>1, <2>2 DEF LateInv
<1>13. CreditInv'
  <2>1. known' \intersect moved' = known \intersect moved /\ Advance' = 0 /\ Advance \in {0, 1}
        /\ Cardinality(known \intersect moved) \in Nat /\ credit \in Int
        /\ credit >= Cardinality(known \intersect moved) + Cardinality(Risen) + Advance
    BY <1>0, <1>2, <1>4, Backing DEF IInv, CreditInv, Advance, TypeGhosts
  <2>2. credit' >= credit - (IF Advances(rows) THEN 1 ELSE 0)
    BY <1>1, <2>1
  <2>3. PICK k \in Nat, r \in Nat, s \in Nat, d \in {0, 1} :
          /\ k = Cardinality(known \intersect moved) /\ r = Cardinality(Risen)
          /\ s = Cardinality(Risen') /\ d = IF Advances(rows) THEN 1 ELSE 0
    BY <1>3, <2>1
  <2>4. s + d <= r /\ credit >= k + r /\ credit' >= credit - d
    BY <1>3, <2>1, <2>2, <2>3
  <2>5. credit' >= k + s
    BY <1>6, <2>1, <2>4
  <2>6. Cardinality(known' \intersect moved') = k /\ Cardinality(Risen') = s
    BY <2>1, <2>3
  <2>7. credit' >= Cardinality(known' \intersect moved') + Cardinality(Risen') + Advance'
    BY <1>6, <2>1, <2>5, <2>6
  <2> QED
    BY <1>3, <2>7 DEF CreditInv
<1> QED
  BY <1>5, <1>7, <1>8, <1>9, <1>10, <1>11, <1>12, <1>13, TypePartsNext DEF IInv, LoopInv

\* A tick passes.
LEMMA SleepStep ==
    ASSUME IInv, Sleep PROVE IInv'
<1>0. /\ TypePlace /\ TypeProgress /\ TypeAlerts /\ TypeView /\ TypeGhosts /\ AlertInv /\ EndInv
      /\ SinceInv /\ LateInv /\ Interval \in Nat \ {0} /\ Window \in Nat \ {0}
  BY TypeParts, TimeAssumption DEF IInv, LoopInv
<1>1. /\ pc = "sleep" /\ pc' = "check" /\ outcome = "running"
      /\ UNCHANGED <<world, moved, moves, todo, corrected, resolved, known, deferred,
                     escalated, wedged, ended, owed, credit, touched, shown, flooded>>
  BY <1>0 DEF Sleep, Goto, EndInv, WorldStays, ScreensStay, world
<1>2. TypePlace'
  BY <1>0, <1>1 DEF Sleep, TypePlace, Steps, Rows, NoRows, Statuses
<1>3. idle' \in 0 .. Interval /\ idle' = (IF idle < Interval THEN idle + 1 ELSE Interval)
  BY <1>0 DEF Sleep, TypeProgress, Upto
<1>4. TypeProgress'
  BY <1>0, <1>1, <1>3 DEF Sleep, TypeProgress
<1>5. \A a \in Agents : /\ since[a] \in 0 .. Interval
                        /\ since'[a] = IF since[a] < Interval THEN since[a] + 1 ELSE Interval
  <2>1. ASSUME NEW a \in Agents
        PROVE  since[a] \in 0 .. Interval /\ since'[a] = Upto(since[a] + 1, Interval)
    BY <1>0 DEF Sleep, TypeGhosts
  <2>2. \A n \in 0 .. Interval :
          Upto(n + 1, Interval) = IF n < Interval THEN n + 1 ELSE Interval
    BY <1>0 DEF Upto
  <2> QED
    BY <2>1, <2>2
<1>6. TypeGhosts'
  <2>1. late' \in Nat
    BY <1>0 DEF Sleep, TypeGhosts
  <2>2. since' \in [Agents -> 0 .. Interval]
    <3>1. \A a \in Agents : Upto(since[a] + 1, Interval) \in 0 .. Interval
      BY <1>0 DEF TypeGhosts, Upto
    <3> QED
      BY <3>1 DEF Sleep
  <2> QED
    BY <1>0, <1>1, <2>1, <2>2 DEF TypeGhosts
<1>7. /\ seen' = [a \in Agents |-> [k \in Keys |-> Upto(seen[a][k] + 1, Window)]]
      /\ told' = [a \in Agents |-> [x \in Alerts |-> Upto(told[a][x] + 1, Window)]]
      /\ stood' = [a \in Agents |-> IF shown[a] \in Alerts THEN Upto(stood[a] + 1, Window) ELSE 0]
      /\ panes' = {}
  BY DEF Sleep
<1>14. \A n \in 0 .. Window :
         /\ Upto(n + 1, Window) \in 0 .. Window
         /\ Upto(n + 1, Window) < Window => n < Window
         /\ \A m \in 0 .. Window : n <= m => Upto(n + 1, Window) <= Upto(m + 1, Window)
  BY <1>0 DEF Upto
<1>8. TypeAlerts' /\ TypeView'
  <2>1. seen' \in [Agents -> [Keys -> 0 .. Window]]
    BY <1>0, <1>7, <1>14 DEF TypeAlerts
  <2>2. told' \in [Agents -> [Alerts -> 0 .. Window]]
    BY <1>0, <1>7, <1>14 DEF TypeView
  <2>3. stood' \in [Agents -> 0 .. Window]
    BY <1>0, <1>7, <1>14 DEF TypeView
  <2> QED
    BY <1>0, <1>1, <2>1, <2>2, <2>3 DEF TypeAlerts, TypeView
<1>9. TypeWorld' /\ TypeCorrection' /\ TypeEnd'
  BY <1>1, TypeFrames DEF IInv
<1>10. OwedInv' /\ EndInv' /\ CreditInv'
  BY <1>1, InvFrames DEF world, corrected, ended, Going, Steps, Fetched
<1>11. AlertInv'
  <2>1. ASSUME NEW a \in Agents PROVE KeyInv(a)' /\ StoodInv(a)' /\ SweptInv(a)'
    <3>1. /\ \A k \in Keys : seen[a][k] \in 0 .. Window
          /\ \A x \in Alerts : told[a][x] \in 0 .. Window /\ Key(x) \in Keys
          /\ stood[a] \in 0 .. Window
      BY <1>0 DEF TypeAlerts, TypeView, Keys
    <3>2. /\ \A k \in Keys : seen'[a][k] = Upto(seen[a][k] + 1, Window)
          /\ \A x \in Alerts : told'[a][x] = Upto(told[a][x] + 1, Window)
          /\ shown' = shown
          /\ shown[a] \in Alerts => stood'[a] = Upto(stood[a] + 1, Window)
      BY <1>1, <1>7
    <3>3. KeyInv(a) /\ StoodInv(a)
      BY <1>0 DEF AlertInv
    <3>4. KeyInv(a)'
      BY <1>14, <3>1, <3>2, <3>3 DEF KeyInv
    <3>5. StoodInv(a)'
      BY <1>14, <3>1, <3>2, <3>3 DEF StoodInv
    <3>6. SweptInv(a)'
      BY <1>7 DEF SweptInv, Swept
    <3> QED
      BY <3>4, <3>5, <3>6
  <2> QED
    BY <1>0, <1>1, <2>1 DEF AlertInv
<1>12. SinceInv'
  <2>1. \A a \in Agents : since[a] >= idle \/ a \in moved
    BY <1>0 DEF SinceInv
  <2>2. \A a \in Agents : since[a] >= idle => since'[a] >= idle'
    BY <1>0, <1>3, <1>5 DEF TypeProgress
  <2>3. moved' = moved /\ outcome' = "running"
    BY <1>1 DEF ended
  <2> QED
    BY <1>1, <2>1, <2>2, <2>3 DEF SinceInv
<1>13. LateInv'
  <2>1. CASE idle = Interval
    BY <1>0, <1>1, <1>3, <2>1 DEF Sleep, LateInv
  <2>2. CASE idle # Interval
    BY <1>1, <2>2 DEF Sleep, LateInv
  <2> QED
    BY <2>1, <2>2
<1> QED
  BY <1>2, <1>4, <1>6, <1>8, <1>9, <1>10, <1>11, <1>12, <1>13, TypePartsNext DEF IInv, LoopInv

\* A branch that was compared is merged then, or listed.
LEMMA CompareStep ==
    ASSUME IInv, NEW a, Compare(a) PROVE IInv'
<1>0. TypePlace /\ TypeEnd /\ TypeGhosts /\ EndInv /\ SinceInv /\ LateInv
  BY TypeParts DEF IInv, LoopInv
<1>1. /\ a \in Agents /\ a \in todo /\ todo' = todo \ {a} /\ pc = "summarize"
      /\ pc' = (IF todo' = {} THEN "report" ELSE "summarize")
      /\ UNCHANGED <<world, moved, panes, status, corrected, progress, alerts, outcome,
                     owed, credit, since, late, touched, view>>
  BY <1>0 DEF Compare, Visit, ScreensStay, world, TypePlace
<1>2. PICK answers \in BOOLEAN :
        /\ summary' = summary \union (IF answers /\ a \in merged THEN {}
                                      ELSE {<<a, "unmerged">>})
        /\ Fail(IF answers THEN 0 ELSE 1)
  BY DEF Compare
<1>3. TypePlace' /\ TypeEnd'
  BY <1>0, <1>1, <1>2 DEF TypePlace, TypeEnd, Steps, Verdicts
<1>4. TypeGhosts'
  BY <1>0, <1>1, <1>2, BoundAssumption DEF TypeGhosts, Fail
<1>5. TypeWorld' /\ TypeCorrection' /\ TypeProgress' /\ TypeAlerts' /\ TypeView'
  BY <1>1, TypeFrames DEF IInv
<1>6. OwedInv' /\ AlertInv' /\ CreditInv'
  BY <1>1, InvFrames DEF world, corrected, alerts, progress, Fetched
<1>7. SinceInv' /\ LateInv'
  BY <1>0, <1>1 DEF SinceInv, LateInv, progress
<1>8. EndInv'
  <2>1. UNCHANGED <<merged, touched, outcome>> /\ Complete(status)' = Complete(status)
    BY <1>1 DEF world, Complete, Finished
  <2>2. ASSUME NEW b \in Agents, Compared(b) PROVE Compared(b)'
    BY <1>1, <1>2, <2>1, <2>2 DEF Compared
  <2> QED
    BY <1>0, <1>1, <2>1, <2>2 DEF EndInv, Over
<1> QED
  BY <1>3, <1>4, <1>5, <1>6, <1>7, <1>8, TypePartsNext DEF IInv, LoopInv

\* The exit summary holds all that was published.
LEMMA SummarizeStep ==
    ASSUME IInv, Summarize PROVE IInv'
<1>0. /\ TypePlace /\ TypeAlerts /\ TypeEnd /\ TypeGhosts /\ EndInv /\ SinceInv /\ LateInv
  BY TypeParts DEF IInv, LoopInv
<1>1. /\ pc = "report" /\ pc' = "over" /\ summary' = summary \union Listed
      /\ outcome' = (IF outcome \in Rulings THEN Judged(summary') ELSE outcome)
      /\ UNCHANGED <<world, moved, moves, panes, todo, status, corrected, progress, alerts,
                     owed, credit, since, late, touched, view>>
  BY DEF Summarize, Goto, WorldStays, ScreensStay, world, Rulings
<1>2. Listed \subseteq Agents \X Verdicts /\ Listed' = Listed
  BY <1>0, <1>1 DEF Listed, TypeAlerts, Verdicts, alerts
<1>3. /\ outcome' \in Rulings => outcome \in Rulings
      /\ outcome' \in Rulings \/ outcome' = outcome
      /\ outcome' = "completed" => summary' = {}
  BY <1>1 DEF Judged, Rulings
<1>4. TypePlace' /\ TypeEnd'
  BY <1>0, <1>1, <1>2, <1>3 DEF TypePlace, TypeEnd, Steps, Rulings
<1>5. TypeWorld' /\ TypeCorrection' /\ TypeProgress' /\ TypeAlerts' /\ TypeView' /\ TypeGhosts'
  BY <1>1, TypeFrames DEF IInv
<1>6. OwedInv' /\ AlertInv' /\ CreditInv'
  BY <1>1, InvFrames DEF world, corrected, alerts, progress, Fetched
<1>7. SinceInv' /\ LateInv'
  BY <1>0, <1>1, <1>3 DEF SinceInv, LateInv, progress, Rulings
<1>8. EndInv'
  <2>1. UNCHANGED <<merged, touched>> /\ Complete(status)' = Complete(status)
    BY <1>1 DEF world, Complete, Finished
  <2>2. ASSUME NEW b \in Agents, Compared(b) PROVE Compared(b)'
    BY <1>1, <2>1, <2>2 DEF Compared
  <2> QED
    BY <1>0, <1>1, <1>2, <1>3, <2>1, <2>2 DEF EndInv, Over
<1> QED
  BY <1>4, <1>5, <1>6, <1>7, <1>8, TypePartsNext DEF IInv, LoopInv

-----------------------------------------------------------------------------
\* A visit of the sweep or of the nudge pass takes its agent off the list.
LEMMA Visited ==
    ASSUME IInv, NEW a, NEW step \in {"sweep", "nudge"}, NEW next \in {"fetch", "observe"},
           Visit(a, step, next), UNCHANGED <<panes, status>>
    PROVE  /\ a \in Agents /\ a \in todo /\ todo' = todo \ {a} /\ pc = step
           /\ pc' \in {step, next} /\ pc \in Early /\ pc' \in Early /\ TypePlace'
<1>1. TypePlace
  BY TypeParts DEF IInv
<1>2. a \in todo /\ todo' = todo \ {a} /\ pc = step /\ pc' \in {step, next}
  BY DEF Visit
<1> QED
  BY <1>1, <1>2 DEF TypePlace, Steps, Early

\* What a visit of the sweep keeps of the invariant.
LEMMA SweepFrames ==
    ASSUME IInv, NEW a, Visit(a, "sweep", "fetch"),
           UNCHANGED <<row, verdict, merged, behind, news, moved, panes, status, corrected,
                       progress, ended, owed, credit, since, late, touched>>
    PROVE  /\ TypePlace' /\ TypeCorrection' /\ TypeProgress' /\ TypeEnd'
           /\ OwedInv' /\ EndInv' /\ SinceInv' /\ LateInv' /\ CreditInv'
           /\ (UNCHANGED screen => TypeWorld')
           /\ (UNCHANGED moves => TypeGhosts')
           /\ a \in Agents
<1>1. /\ a \in Agents /\ pc = "sweep" /\ pc' \in {"sweep", "fetch"}
      /\ TypePlace' /\ pc \in Early /\ pc' \in Early
  BY Visited
<1>2. /\ TypeCorrection' /\ TypeProgress' /\ TypeEnd'
      /\ (UNCHANGED screen => TypeWorld')
      /\ (UNCHANGED moves => TypeGhosts')
  BY TypeFrames DEF IInv, world
<1>3. OwedInv' /\ SinceInv' /\ CreditInv'
  BY <1>1, InvFrames DEF corrected, progress, ended, Fetched
<1>4. EndInv' /\ LateInv'
  BY <1>1, InvFrames DEF progress, ended, Going, Early, Steps
<1> QED
  BY <1>1, <1>2, <1>3, <1>4

\* A visit of a pane without an alert, or with one whose key is inside its window
\* or begins a new one: only that agent's clocks and view change, and they are as
\* the invariant wants them.
LEMMA SweepView ==
    ASSUME IInv, NEW a, Visit(a, "sweep", "fetch"), UNCHANGED panes,
           NEW x \in Alerts \union {"idle"}, Finds(a, x),
           x \in Alerts => Escalate(a, x),
           x \notin Alerts => UNCHANGED <<seen, told, flooded>>
    PROVE  /\ AlertInv' /\ TypeView' /\ seen' \in [Agents -> [Keys -> 0 .. Window]]
<1>0. TypeAlerts /\ TypeView /\ AlertInv /\ Window \in Nat \ {0}
  BY TypeParts, TimeAssumption DEF IInv, LoopInv
<1>1. /\ a \in Agents /\ a \in todo /\ todo' = todo \ {a} /\ pc = "sweep"
      /\ pc' = IF todo' = {} THEN "fetch" ELSE "sweep"
  BY TypeParts DEF IInv, TypePlace, Visit
<1>2. \A b \in Agents \ {a} : Swept(b)' => Swept(b)
  BY <1>1 DEF Swept
<1>3. \A y \in Alerts : Key(y) \in Keys
  BY DEF Keys
<1>4. /\ shown' = [shown EXCEPT ![a] = x]
      /\ stood' = [stood EXCEPT ![a] = IF shown[a] = x THEN @ ELSE 0]
  BY DEF Finds
<1>5. shown' \in [Agents -> Alerts \union {"idle"}] /\ stood' \in [Agents -> 0 .. Window]
  BY <1>0, <1>1, <1>4 DEF TypeView
<1>6. /\ shown'[a] = x /\ stood'[a] = (IF shown[a] = x THEN stood[a] ELSE 0)
      /\ \A b \in Agents \ {a} : shown'[b] = shown[b] /\ stood'[b] = stood[b]
  BY <1>0, <1>1, <1>4 DEF TypeView
<1>7. CASE x \in Alerts /\ MayEmit(a, Key(x))
  <2>1. /\ seen' = [seen EXCEPT ![a][Key(x)] = 0] /\ told' = [told EXCEPT ![a][x] = 0]
        /\ flooded' = (flooded \/ told[a][x] < Window)
    BY <1>7 DEF Escalate, Tell
  <2>2. /\ seen' \in [Agents -> [Keys -> 0 .. Window]]
        /\ told' \in [Agents -> [Alerts -> 0 .. Window]]
    BY <1>0, <1>1, <1>3, <1>7, <2>1 DEF TypeAlerts, TypeView
  <2>3. /\ seen'[a][Key(x)] = 0 /\ told'[a][x] = 0
        /\ \A k \in Keys \ {Key(x)} : seen'[a][k] = seen[a][k]
        /\ \A y \in Alerts \ {x} : told'[a][y] = told[a][y]
        /\ \A b \in Agents \ {a} : seen'[b] = seen[b] /\ told'[b] = told[b]
    BY <1>0, <1>1, <1>3, <1>7, <2>1 DEF TypeAlerts, TypeView
  <2>4. KeyInv(a) /\ \A y \in Alerts : told'[a][y] \in 0 .. Window
    BY <1>0, <1>1, <2>2 DEF AlertInv
  <2>5. flooded' = FALSE
    <3>1. seen[a][Key(x)] >= Window /\ seen[a][Key(x)] <= told[a][x] /\ ~flooded
      BY <1>0, <1>7, <2>4 DEF MayEmit, KeyInv, AlertInv
    <3>2. seen[a][Key(x)] \in 0 .. Window /\ told[a][x] \in 0 .. Window
      BY <1>0, <1>1, <1>3, <1>7 DEF TypeAlerts, TypeView
    <3>3. ~(told[a][x] < Window)
      BY <1>0, <3>1, <3>2
    <3> QED
      BY <2>1, <3>1, <3>3
  <2>6. KeyInv(a)'
    <3>1. \A y \in Alerts : seen'[a][Key(y)] <= told'[a][y]
      BY <1>3, <2>3, <2>4 DEF KeyInv
    <3>2. ASSUME NEW k \in Keys, seen'[a][k] < Window
          PROVE  \E y \in Alerts : Key(y) = k /\ told'[a][y] = seen'[a][k]
      <4>1. CASE k = Key(x)
        BY <1>7, <2>3, <4>1
      <4>2. CASE k # Key(x)
        <5>1. PICK y \in Alerts : Key(y) = k /\ told[a][y] = seen[a][k]
          BY <2>3, <2>4, <3>2, <4>2 DEF KeyInv
        <5>2. y # x
          BY <4>2, <5>1
        <5> QED
          BY <2>3, <4>2, <5>1, <5>2
      <4> QED
        BY <4>1, <4>2
    <3> QED
      BY <3>1, <3>2 DEF KeyInv
  <2>7. StoodInv(a)' /\ SweptInv(a)'
    BY <1>0, <1>6, <2>3 DEF StoodInv, SweptInv
  <2>8. ASSUME NEW b \in Agents, b # a PROVE KeyInv(b)' /\ StoodInv(b)' /\ SweptInv(b)'
    <3>1. /\ KeyInv(b) /\ StoodInv(b) /\ SweptInv(b) /\ (Swept(b)' => Swept(b))
          /\ seen'[b] = seen[b] /\ told'[b] = told[b]
          /\ shown'[b] = shown[b] /\ stood'[b] = stood[b]
      BY <1>0, <1>2, <1>6, <2>3, <2>8 DEF AlertInv
    <3> QED
      BY <3>1 DEF KeyInv, StoodInv, SweptInv
  <2> QED
    BY <1>5, <2>2, <2>5, <2>6, <2>7, <2>8 DEF AlertInv, TypeView
<1>8. CASE x \notin Alerts \/ ~MayEmit(a, Key(x))
  <2>1. UNCHANGED <<seen, told, flooded>>
    BY <1>8 DEF Escalate
  <2>2. TypeView' /\ seen' \in [Agents -> [Keys -> 0 .. Window]]
    BY <1>0, <1>5, <2>1 DEF TypeAlerts, TypeView
  <2>3. KeyInv(a)'
    BY <1>0, <1>1, <2>1 DEF AlertInv, KeyInv
  <2>4. StoodInv(a)' /\ SweptInv(a)'
    <3>1. CASE x \notin Alerts
      BY <1>6, <3>1 DEF StoodInv, SweptInv
    <3>2. CASE x \in Alerts
      <4>1. seen[a][Key(x)] < Window /\ seen[a][Key(x)] \in 0 .. Window
        BY <1>0, <1>1, <1>3, <1>8, <3>2 DEF TypeAlerts, MayEmit
      <4>2. SweptInv(a)'
        BY <1>6, <2>1, <4>1 DEF SweptInv
      <4>3. StoodInv(a)
        BY <1>0, <1>1 DEF AlertInv
      <4>4. StoodInv(a)'
        BY <1>6, <2>1, <4>1, <4>3 DEF StoodInv
      <4> QED
        BY <4>2, <4>4
    <3> QED
      BY <3>1, <3>2
  <2>5. ASSUME NEW b \in Agents, b # a PROVE KeyInv(b)' /\ StoodInv(b)' /\ SweptInv(b)'
    <3>1. /\ KeyInv(b) /\ StoodInv(b) /\ SweptInv(b) /\ (Swept(b)' => Swept(b))
          /\ shown'[b] = shown[b] /\ stood'[b] = stood[b]
      BY <1>0, <1>2, <1>6, <2>5 DEF AlertInv
    <3> QED
      BY <2>1, <3>1 DEF KeyInv, StoodInv, SweptInv
  <2> QED
    BY <1>0, <2>1, <2>2, <2>3, <2>4, <2>5 DEF AlertInv
<1> QED
  BY <1>7, <1>8

LEMMA SweepStep ==
    ASSUME IInv, NEW a, Sweep(a) PROVE IInv'
<1>0. TypeWorld /\ TypeAlerts /\ TypeGhosts
  BY TypeParts DEF IInv
<1>1. CASE SweepAlert(a)
  <2>1. /\ Visit(a, "sweep", "fetch") /\ screen[a] \in Alerts /\ Escalate(a, screen[a])
        /\ Finds(a, screen[a])
        /\ UNCHANGED <<row, verdict, merged, behind, news, moved, panes, status, corrected,
                       progress, ended, owed, credit, since, late, touched, screen, moves,
                       wedged>>
    BY <1>1 DEF SweepAlert, WorldStays, ScreensStay
  <2>2. /\ TypePlace' /\ TypeCorrection' /\ TypeProgress' /\ TypeEnd' /\ TypeWorld'
        /\ TypeGhosts' /\ OwedInv' /\ EndInv' /\ SinceInv' /\ LateInv' /\ CreditInv'
        /\ a \in Agents
    BY <2>1, SweepFrames
  <2>3. AlertInv' /\ TypeView' /\ seen' \in [Agents -> [Keys -> 0 .. Window]]
    BY <2>1, SweepView
  <2>4. escalated' \in {escalated, escalated \union {<<a, screen[a]>>}}
    BY <2>1 DEF Escalate, Tell
  <2>5. TypeAlerts'
    BY <1>0, <2>1, <2>2, <2>3, <2>4 DEF TypeAlerts, Verdicts
  <2> QED
    BY <2>2, <2>3, <2>5, TypePartsNext DEF IInv, LoopInv
<1>2. CASE SubmitBuffered(a) \/ SweepQuiet(a)
  <2>1. /\ Visit(a, "sweep", "fetch") /\ Finds(a, "idle")
        /\ UNCHANGED <<row, verdict, merged, behind, news, moved, panes, status, corrected,
                       progress, ended, owed, credit, since, late, touched, seen, escalated,
                       told, flooded>>
    BY <1>2 DEF SubmitBuffered, SweepQuiet, WorldStays, ScreensStay, alerts
  <2>2. /\ TypePlace' /\ TypeCorrection' /\ TypeProgress' /\ TypeEnd'
        /\ OwedInv' /\ EndInv' /\ SinceInv' /\ LateInv' /\ CreditInv'
        /\ a \in Agents
    BY <2>1, SweepFrames
  <2>3. /\ screen' \in [Agents -> Screens] /\ wedged' \subseteq Agents
        /\ moves' = moves \/ Fail(1)
    BY <1>0, <1>2, <2>2
       DEF SubmitBuffered, SweepQuiet, Shows, Screens, WorldStays, ScreensStay, alerts,
           TypeWorld, TypeAlerts
  <2>4. TypeWorld'
    BY <1>0, <2>1, <2>3 DEF TypeWorld
  <2>5. TypeGhosts'
    BY <1>0, <2>1, <2>3, BoundAssumption DEF TypeGhosts, Fail
  <2>6. TypeAlerts'
    BY <1>0, <2>1, <2>3 DEF TypeAlerts
  <2>7. AlertInv' /\ TypeView'
    <3>1. "idle" \notin Alerts
      BY AlertsAssumption DEF Alerts
    <3> QED
      BY <2>1, <3>1, SweepView
  <2> QED
    BY <2>2, <2>4, <2>5, <2>6, <2>7, TypePartsNext DEF IInv, LoopInv
<1> QED
  BY <1>1, <1>2 DEF Sweep

\* What a visit of the nudge pass keeps of the invariant.
LEMMA NudgeFrames ==
    ASSUME IInv, NEW a, Visit(a, "nudge", "observe"),
           UNCHANGED <<row, verdict, merged, behind, news, moved, panes, status,
                       progress, seen, ended, credit, since, late, touched, view>>
    PROVE  /\ TypePlace' /\ TypeProgress' /\ TypeView' /\ TypeEnd' /\ a \in Agents
           /\ AlertInv' /\ EndInv' /\ SinceInv' /\ LateInv' /\ CreditInv'
<1>1. /\ a \in Agents /\ pc = "nudge" /\ pc' \in {"nudge", "observe"}
      /\ TypePlace' /\ pc \in Early /\ pc' \in Early
  BY Visited
<1>2. TypeProgress' /\ TypeView' /\ TypeEnd'
  BY TypeFrames DEF IInv
<1>3. SinceInv' /\ CreditInv'
  BY <1>1, InvFrames DEF progress, ended, Fetched
<1>4. EndInv' /\ LateInv'
  BY <1>1, InvFrames DEF progress, ended, Going, Early, Steps
<1>5. AlertInv'
  BY <1>1, InvFrames
<1> QED
  BY <1>1, <1>2, <1>3, <1>4, <1>5

\* A correction that leaves the pass with its feedback gone has one failure less
\* to answer for; the others are as they were.
LEMMA Answered ==
    ASSUME IInv, NEW a, Visit(a, "nudge", "observe"), UNCHANGED <<panes, status, news>>,
           owed' = [owed EXCEPT ![a] = @ - 1],
           NEW c \in Corrections, ~c.pending, correction' = [correction EXCEPT ![a] = c]
    PROVE  OwedInv' /\ owed' \in [Agents -> Int] /\ correction' \in [Agents -> Corrections]
<1>0. TypeCorrection /\ TypeGhosts /\ OwedInv
  BY TypeParts DEF IInv, LoopInv
<1>1. a \in Agents /\ a \in todo /\ todo' = todo \ {a} /\ pc = "nudge"
      /\ todo \subseteq Agents
  BY Visited, TypeParts DEF IInv, TypePlace
<1>2. owed' \in [Agents -> Int] /\ correction' \in [Agents -> Corrections]
  BY <1>0, <1>1 DEF TypeCorrection, TypeGhosts
<1>3. /\ ~correction'[a].pending
      /\ \A b \in Agents : b # a => owed'[b] = owed[b] /\ correction'[b] = correction[b]
  BY <1>0, <1>1 DEF TypeCorrection, TypeGhosts
<1>4. owed'[a] = owed[a] - 1 /\ \A b \in Agents : owed[b] \in Int
  BY <1>0, <1>1 DEF TypeGhosts
<1>5. \A b \in Agents : Unread(b)' = Unread(b)
  BY DEF Unread
<1>6. correction[a].pending
  BY <1>0, <1>1 DEF OwedInv
<1>7. ASSUME NEW b \in Agents
      PROVE  owed'[b] >= (IF correction'[b].pending THEN 1 ELSE 0)
                         + (IF Unread(b)' THEN 1 ELSE 0)
  <2>1. owed[b] >= (IF correction[b].pending THEN 1 ELSE 0) + (IF Unread(b) THEN 1 ELSE 0)
    BY <1>0 DEF OwedInv
  <2> QED
    BY <1>3, <1>4, <1>5, <1>6, <2>1
<1>8. \A b \in todo' : correction'[b].pending
  BY <1>0, <1>1, <1>3 DEF OwedInv
<1> QED
  BY <1>2, <1>7, <1>8 DEF OwedInv

LEMMA NudgeStep ==
    ASSUME IInv, NEW a, Nudge(a) PROVE IInv'
<1>0. /\ TypeWorld /\ TypePlace /\ TypeCorrection /\ TypeAlerts /\ TypeGhosts /\ OwedInv
  BY TypeParts DEF IInv, LoopInv
<1>1. CASE Exhaust(a)
  <2>1. /\ Visit(a, "nudge", "observe")
        /\ UNCHANGED <<row, verdict, merged, behind, news, moved, panes, status,
                       progress, seen, ended, credit, since, late, touched, view, screen, moves,
                       wedged>>
        /\ escalated' = escalated \union (IF OnExhausted = "escalate"
                                          THEN {<<a, "exhausted">>} ELSE {})
        /\ exhausted' = exhausted \union {a} /\ owed' = [owed EXCEPT ![a] = @ - 1]
        /\ correction' = [correction EXCEPT ![a].exhausted = TRUE, ![a].pending = FALSE]
    BY <1>1 DEF Exhaust, WorldStays, ScreensStay
  <2>2. /\ TypePlace' /\ TypeProgress' /\ TypeView' /\ TypeEnd' /\ a \in Agents
        /\ AlertInv' /\ EndInv' /\ SinceInv' /\ LateInv' /\ CreditInv'
    BY <2>1, NudgeFrames
  <2>3. PICK c \in Corrections : ~c.pending /\ correction' = [correction EXCEPT ![a] = c]
    <3>1. correction[a] \in Corrections
      BY <1>0, <2>2 DEF TypeCorrection
    <3> DEFINE c == [correction[a] EXCEPT !.exhausted = TRUE, !.pending = FALSE]
    <3>2. c \in Corrections /\ ~c.pending
      BY <3>1 DEF Corrections
    <3>3. correction' = [correction EXCEPT ![a] = c]
      BY <1>0, <2>1, <2>2 DEF TypeCorrection
    <3> QED
      BY <3>2, <3>3
  <2>4. OwedInv' /\ owed' \in [Agents -> Int] /\ correction' \in [Agents -> Corrections]
    BY <2>1, <2>3, Answered
  <2>5. TypeCorrection' /\ TypeGhosts'
    BY <1>0, <2>1, <2>2, <2>4 DEF TypeCorrection, TypeGhosts
  <2>6. TypeWorld' /\ TypeAlerts'
    BY <1>0, <2>1, <2>2 DEF TypeWorld, TypeAlerts, Verdicts
  <2> QED
    BY <2>2, <2>4, <2>5, <2>6, TypePartsNext DEF IInv, LoopInv
<1>2. CASE KeepPending(a)
  <2>1. /\ Visit(a, "nudge", "observe")
        /\ UNCHANGED <<row, verdict, merged, behind, news, moved, panes, status,
                       progress, seen, ended, credit, since, late, touched, view, escalated,
                       wedged, owed, correction, exhausted>>
    BY <1>2 DEF KeepPending, corrected, alerts
  <2>2. /\ TypePlace' /\ TypeProgress' /\ TypeView' /\ TypeEnd' /\ a \in Agents
        /\ AlertInv' /\ EndInv' /\ SinceInv' /\ LateInv' /\ CreditInv'
    BY <2>1, NudgeFrames
  <2>3. screen' \in [Agents -> Screens] /\ (moves' = moves \/ Fail(1))
    BY <1>0, <1>2, <2>2 DEF KeepPending, Shows, Screens, TypeWorld
  <2>4. TypeWorld' /\ TypeAlerts' /\ TypeCorrection'
    BY <1>0, <2>1, <2>3 DEF TypeWorld, TypeAlerts, TypeCorrection
  <2>5. TypeGhosts'
    BY <1>0, <2>1, <2>3, BoundAssumption DEF TypeGhosts, Fail
  <2>6. OwedInv'
    <3>1. todo' \subseteq todo /\ pc = "nudge"
      BY <2>1 DEF Visit
    <3> QED
      BY <1>0, <2>1, <3>1 DEF OwedInv, Unread
  <2> QED
    BY <2>2, <2>4, <2>5, <2>6, TypePartsNext DEF IInv, LoopInv
<1>3. CASE Reengage(a)
  <2>1. /\ Visit(a, "nudge", "observe") /\ Nudgeable(a)
        /\ UNCHANGED <<row, verdict, merged, behind, news, moved, panes, status,
                       progress, seen, ended, credit, since, late, touched, view, exhausted>>
        /\ escalated' = escalated \union (IF SlowNow(a) THEN {<<a, "slow">>} ELSE {})
        /\ owed' = [owed EXCEPT ![a] = @ - 1]
        /\ correction' = [correction EXCEPT
                            ![a] = FlagIf(RecordReengagement(@), SlowNow(a))]
    BY <1>3 DEF Reengage
  <2>2. /\ TypePlace' /\ TypeProgress' /\ TypeView' /\ TypeEnd' /\ a \in Agents
        /\ AlertInv' /\ EndInv' /\ SinceInv' /\ LateInv' /\ CreditInv'
    BY <2>1, NudgeFrames
  <2>3. PICK c \in Corrections : ~c.pending /\ correction' = [correction EXCEPT ![a] = c]
    <3>1. correction[a] \in Corrections /\ correction[a].cycles < MaxCycles
      BY <1>0, <2>1, <2>2, CyclesAssumption DEF TypeCorrection, Corrections, Nudgeable, Spent
    <3> DEFINE d == RecordReengagement(correction[a])
               c == FlagIf(d, SlowNow(a))
    <3>2. correction[a].cycles + 1 \in 0 .. MaxCycles
      BY <3>1, CyclesAssumption DEF Corrections
    <3>3. d \in Corrections /\ ~d.pending
      BY <3>1, <3>2 DEF Corrections, RecordReengagement
    <3>4. correction' = [correction EXCEPT ![a] = c]
      BY <1>0, <2>1, <2>2 DEF TypeCorrection
    <3> HIDE DEF d
    <3>5. c \in Corrections /\ ~c.pending
      BY <3>3 DEF Corrections, FlagIf
    <3> QED
      BY <3>4, <3>5
  <2>4. OwedInv' /\ owed' \in [Agents -> Int] /\ correction' \in [Agents -> Corrections]
    BY <2>1, <2>3, Answered
  <2>5. /\ screen' \in [Agents -> Screens] /\ (moves' = moves \/ Fail(1))
        /\ wedged' \subseteq Agents
    BY <1>0, <1>3, <2>2 DEF Reengage, Shows, Screens, TypeWorld, TypeAlerts
  <2>6. TypeCorrection' /\ TypeWorld' /\ TypeAlerts'
    BY <1>0, <2>1, <2>2, <2>4, <2>5 DEF TypeCorrection, TypeWorld, TypeAlerts, Verdicts
  <2>7. TypeGhosts'
    BY <1>0, <2>1, <2>4, <2>5, BoundAssumption DEF TypeGhosts, Fail
  <2> QED
    BY <2>2, <2>4, <2>6, <2>7, TypePartsNext DEF IInv, LoopInv
<1> QED
  BY <1>1, <1>2, <1>3 DEF Nudge

-----------------------------------------------------------------------------
LEMMA StepIInv == IInv /\ [Next]_vars => IInv'
<1> SUFFICES ASSUME IInv, [Next]_vars PROVE IInv'
  OBVIOUS
<1>1. CASE Environment
  BY <1>1, EnvironmentStep
<1>2. CASE Loop
  BY <1>2, CheckStep, FetchStep, PollStep, ObserveStep, BeatStep, SleepStep,
     SummarizeStep, SweepStep, NudgeStep, CompareStep DEF Loop
<1>3. CASE UNCHANGED vars
  <2>1. /\ UNCHANGED <<world, corrected, progress, moved, alerts, ended>>
        /\ UNCHANGED <<pc, panes, todo, status>>
        /\ UNCHANGED <<moves, owed, credit, since, late, touched, view>>
    BY <1>3 DEF vars, ghosts
  <2>2. TypeOK'
    BY <2>1, TypeFrames, TypePartsNext DEF IInv
  <2>3. OwedInv'
    BY <2>1 DEF IInv, LoopInv, OwedInv, Unread, world, corrected
  <2>4. AlertInv' /\ LateInv'
    <3>1. UNCHANGED <<seen, shown, stood, told, flooded>> /\ \A a \in Agents : Swept(a)' = Swept(a)
      BY <2>1 DEF alerts, view, Swept
    <3>2. AlertInv'
      BY <3>1 DEF IInv, LoopInv, AlertInv, KeyInv, StoodInv, SweptInv
    <3> QED
      BY <2>1, <3>2 DEF IInv, LoopInv, LateInv, progress
  <2>5. EndInv'
    <3>1. /\ UNCHANGED <<pc, todo, outcome, summary>> /\ Complete(status)' = Complete(status)
          /\ Listed' = Listed /\ \A a \in Agents : Compared(a)' = Compared(a)
      BY <2>1 DEF Listed, Complete, Finished, Compared, world, alerts, ended
    <3> QED
      BY <3>1 DEF IInv, LoopInv, EndInv, Over
  <2>6. SinceInv'
    BY <2>1 DEF IInv, LoopInv, SinceInv, progress, ended
  <2>7. CreditInv'
    BY <2>1, InvFrames DEF world, progress
  <2> QED
    BY <2>2, <2>3, <2>4, <2>5, <2>6, <2>7 DEF IInv, LoopInv
<1> QED
  BY <1>1, <1>2, <1>3 DEF Next

\* The invariant holds of every behaviour of the loop and the wave.
THEOREM LoopInvariant == Spec => []IInv
<1>1. Init => IInv
  BY InitIInv
<1>2. IInv /\ [Next]_vars => IInv'
  BY StepIInv
<1> QED
  BY <1>1, <1>2, PTL DEF Spec

\* Every variable keeps its type (DriveState and CorrectionState in drive.rs).
THEOREM TypeCorrect == Spec => []TypeOK
<1>1. IInv => TypeOK
  BY DEF IInv
<1> QED
  BY <1>1, LoopInvariant, PTL

\* However feedback, re-engagements, failed sends and rebases interleave, every
\* cycle spent, correction pending and branch exhausted answers a gate failure of
\* its own (drive.rs poll_new, run_correction_pass).
THEOREM OneCycleEach == Spec => []OneCyclePerFailure
<1>1. IInv => OneCyclePerFailure
  <2> SUFFICES ASSUME IInv, NEW a \in Agents
               PROVE  owed[a] >= IF correction[a].pending THEN 1 ELSE 0
    BY DEF OneCyclePerFailure
  <2>1. owed[a] \in Int
    BY TypeParts DEF IInv, TypeGhosts
  <2>2. owed[a] >= (IF correction[a].pending THEN 1 ELSE 0) + (IF Unread(a) THEN 1 ELSE 0)
    BY DEF IInv, LoopInv, OwedInv
  <2> QED
    BY <2>1, <2>2
<1> QED
  BY <1>1, LoopInvariant, PTL

\* The exit summary leaves out nothing that was published, and calls a wave
\* completed only when it is (drive.rs run_loop; decide.rs summarize).
THEOREM ExitSummaryIsTrue == Spec => []SummaryIsTrue
<1>1. IInv => SummaryIsTrue
  <2>1. Published = Listed
    BY DEF Published, Listed
  <2>2. ASSUME IInv, Over, outcome = "completed" PROVE merged \union touched = Agents
    <3>1. merged \subseteq Agents /\ touched \subseteq Agents
      BY <2>2, TypeParts DEF IInv, TypeWorld, TypeGhosts
    <3>2. summary = {} /\ \A a \in Agents : Compared(a)
      BY <2>2 DEF IInv, LoopInv, EndInv, Rulings
    <3> QED
      BY <2>2, <3>1, <3>2 DEF Compared, Over
  <2> QED
    BY <2>1, <2>2 DEF IInv, LoopInv, EndInv, Rulings, SummaryIsTrue
<1> QED
  BY <1>1, LoopInvariant, PTL

\* Whatever the window silences has an alert of its key inside the window, an alert
\* that still stands after a window goes out again, and none goes out twice inside
\* it (drive.rs DedupWindow; decide.rs decide_prompt, decide_cli_unavailable).
THEOREM WindowIsTimely == Spec => []AlertsAreTimely
<1>1. IInv => AlertsAreTimely
  <2> SUFFICES ASSUME IInv, NEW a \in Agents, Swept(a), shown[a] \in Alerts
               PROVE  /\ ~flooded
                      /\ \E y \in Alerts : Key(y) = Key(shown[a]) /\ told[a][y] < Window
                      /\ stood[a] >= Window => told[a][shown[a]] < Window
    BY DEF AlertsAreTimely, IInv, LoopInv, AlertInv
  <2>1. ~flooded /\ KeyInv(a) /\ StoodInv(a) /\ SweptInv(a)
    BY DEF IInv, LoopInv, AlertInv
  <2>2. Key(shown[a]) \in Keys /\ seen[a][Key(shown[a])] < Window
    BY <2>1 DEF SweptInv, Keys
  <2>3. \E y \in Alerts : Key(y) = Key(shown[a]) /\ told[a][y] < Window
    BY <2>1, <2>2 DEF KeyInv
  <2>4. stood[a] \in 0 .. Window /\ seen[a][Key(shown[a])] \in 0 .. Window /\ Window \in Nat
    BY <2>2, TypeParts, TimeAssumption DEF IInv, TypeAlerts, TypeView
  <2>5. stood[a] >= Window => told[a][shown[a]] < Window
    BY <2>1, <2>2, <2>4 DEF StoodInv
  <2> QED
    BY <2>1, <2>3, <2>5
<1> QED
  BY <1>1, LoopInvariant, PTL

\* The heartbeat ends the loop only when no commit it could read is younger than
\* the heartbeat (drive.rs tick_made_progress, heartbeat_due).
THEOREM HeartbeatDeserved == Spec => []HeartbeatIsDeserved
<1>1. IInv => HeartbeatIsDeserved
  BY DEF IInv, LoopInv, SinceInv, HeartbeatIsDeserved
<1> QED
  BY <1>1, LoopInvariant, PTL

\* The loop never puts its exit off for what it did itself, nor for more than one
\* tick without a move of the wave (drive.rs tick_made_progress, heartbeat_deferred).
THEOREM LoopLeavesInTime == Spec => []LeavesInTime
<1>1. IInv => LeavesInTime
  <2> SUFFICES ASSUME IInv PROVE credit >= 0 /\ late <= 1
    BY DEF LeavesInTime
  <2>1. /\ Cardinality(known \intersect moved) \in Nat /\ Cardinality(Risen) \in Nat
        /\ Advance \in {0, 1} /\ credit \in Int
    BY Backing, TypeParts DEF IInv, Advance, TypeGhosts
  <2>2. credit >= Cardinality(known \intersect moved) + Cardinality(Risen) + Advance
    BY DEF IInv, LoopInv, CreditInv
  <2>3. late <= 1
    BY DEF IInv, LoopInv, LateInv
  <2> QED
    BY <2>1, <2>2, <2>3
<1> QED
  BY <1>1, LoopInvariant, PTL
=============================================================================
