--------------------------- MODULE SessionProofs ----------------------------
(***************************************************************************)
(* Theorems about the two modules of a session.  First DriveBinding, for   *)
(* every number of invocations, every staleness window each records, and   *)
(* every number of session instances; then SessionReceipt, for every       *)
(* number of commands and every finite set of branches.                    *)
(***************************************************************************)
EXTENDS DriveBinding, SessionReceipt, FiniteSetTheorems, TLAPS

\* The lock is held by exactly the loop that is inside a locked section.
LockInv == \A p \in Loops : lock = p <=> pc[p] \in Critical

\* A record carries its writer's window; an absent binding has no age.
RecordInv == /\ binding.loop \in Loops => binding.window = Window[binding.loop]
             /\ binding.loop = None => binding = NoBinding

\* A loop that has bound and has not been late, nor been displaced by right.
Punctual(q) == pc[q] \in Bound /\ q \notin excused

\* A lease older than its holder's own window lapsed by the holder's lateness.
LapsedInv == \A q \in Loops :
                 Holds(q) /\ binding.age > binding.window => ~Punctual(q)

\* What p decided under the lock is still so when it publishes.
DecisionInv == \A p, q \in Loops :
                   pc[p] = "publish" /\ Holds(q) /\ Punctual(q)
                     => Supersedes(p) \/ binding.instance # token[p]

\* What p found under the lock is still so, or gone, when it removes the file.
RemovalInv == \A p \in Loops : pc[p] = "remove" => binding.loop \in {p, None}

LeaseInv == /\ RecordInv /\ LapsedInv /\ DecisionInv /\ RemovalInv
            /\ PunctualKeepsLease

\* A loop counted overdue has no binding and is past this tick's check.
LateInv == \A p \in Loops :
               overdue[p] # 0 => /\ overdue[p] = 1 /\ ~Holds(p)
                                 /\ pc[p] \in {"acting", "tick", "drop", "release"}

-----------------------------------------------------------------------------
\* The type invariant, by what a step leaves alone together.
TypeWorld == receipt \in Receipts /\ launched \in Instances /\ session \in BOOLEAN
TypeBinding == binding \in [loop : Loops \union {None}, instance : Instances,
                            window : 0 .. MaxAge, age : 0 .. MaxAge]
TypeLock == lock \in Loops \union {None}
TypePc == pc \in [Loops -> Steps]
TypeMine == /\ seen \in [Loops -> [receipt : Receipts, effective : Statuses]]
            /\ token \in [Loops -> Instances]
TypeStop == stop \in [at : {"idle", "save", "revoke"}, seen : Receipts]
TypeGhosts == excused \subseteq Loops /\ overdue \in [Loops -> 0 .. 2]

LEMMA TypeParts ==
    TypeOK <=> /\ TypeWorld /\ TypeBinding /\ TypeLock /\ TypePc
               /\ TypeMine /\ TypeStop /\ TypeGhosts
BY DEF TypeOK, TypeWorld, TypeBinding, TypeLock, TypePc, TypeMine, TypeStop, TypeGhosts

LEMMA TypePartsNext ==
    TypeOK' <=> /\ TypeWorld' /\ TypeBinding' /\ TypeLock' /\ TypePc'
                /\ TypeMine' /\ TypeStop' /\ TypeGhosts'
BY DEF TypeOK, TypeWorld, TypeBinding, TypeLock, TypePc, TypeMine, TypeStop, TypeGhosts

\* The values a record or a snapshot is reset to are of the type.
LEMMA Constants ==
    /\ NoReceipt \in Receipts
    /\ NoSnapshot \in [receipt : Receipts, effective : Statuses]
    /\ NoBinding \in [loop : Loops \union {None}, instance : Instances,
                      window : 0 .. MaxAge, age : 0 .. MaxAge]
    /\ \A r \in Receipts, t \in Statuses : [r EXCEPT !.status = t] \in Receipts
BY InstanceAssumption, AgeAssumption
   DEF NoReceipt, NoSnapshot, NoBinding, Receipts, Statuses, Instances

\* An invocation that ends forgets what it knew, in type.
LEMMA GoneTypes ==
    ASSUME TypeOK, NEW p \in Loops, Gone(p) PROVE TypeMine' /\ TypeGhosts'
<1>1. TypeMine'
  BY Constants, InstanceAssumption DEF TypeOK, TypeMine, Gone, ForgetSnapshot, Instances
<1>2. TypeGhosts'
  BY DEF TypeOK, TypeGhosts, Gone
<1> QED
  BY <1>1, <1>2

\* Moving on to a step of the program keeps every place a place.
LEMMA AtTypes ==
    ASSUME TypeOK, NEW p \in Loops, NEW from, NEW to \in Steps, At(p, from, to)
    PROVE  TypePc'
BY DEF TypeOK, TypePc, At

\* The variables keep their types through every step.
LEMMA TypeStep == TypeOK /\ [Next]_vars => TypeOK'
<1> SUFFICES ASSUME TypeOK, [Next]_vars PROVE TypeOK'
  OBVIOUS
<1> USE TypeParts, TypePartsNext
<1>0. \A t \in {"idle", "stamp", "lock", "decide", "publish", "revive", "tick", "bump",
                "checked", "acting", "drop", "release", "remove", "done", "dead"} : t \in Steps
  BY DEF Steps, Bound
<1>1. ASSUME NEW p \in Loops, Launch(p) PROVE TypeOK'
  <2>1. TypePc'
    BY <1>0, <1>1, AtTypes DEF Launch
  <2>2. TypeWorld'
    BY <1>1, InstanceAssumption
       DEF Launch, TypeWorld, Receipts, Statuses, Instances
  <2>3. TypeMine'
    BY <1>1, <2>2 DEF Launch, TypeMine, TypeWorld, Statuses
  <2>4. TypeBinding' /\ TypeLock' /\ TypeStop' /\ TypeGhosts'
    BY <1>1 DEF Launch, lease, ghosts, TypeBinding, TypeLock, TypeStop, TypeGhosts
  <2> QED
    BY <2>1, <2>2, <2>3, <2>4
<1>2. ASSUME NEW p \in Loops, ReadSession(p) PROVE TypeOK'
  <2>1. TypePc'
    BY <1>0, <1>2, AtTypes DEF ReadSession
  <2>2. TypeMine'
    BY <1>2 DEF ReadSession, Effective, TypeMine, TypeWorld, Receipts, Statuses
  <2>3. TypeWorld' /\ TypeBinding' /\ TypeLock' /\ TypeStop' /\ TypeGhosts'
    BY <1>2 DEF ReadSession, world, lease, ghosts, TypeWorld, TypeBinding, TypeLock,
                TypeStop, TypeGhosts
  <2> QED
    BY <2>1, <2>2, <2>3
<1>3. ASSUME NEW p \in Loops, Stamp(p) PROVE TypeOK'
  <2>1. TypePc'
    BY <1>0, <1>3, AtTypes DEF Stamp
  <2>2. TypeMine'
    BY <1>3 DEF Stamp, TypeMine, TypeWorld, Receipts
  <2>3. TypeWorld' /\ TypeBinding' /\ TypeLock' /\ TypeStop' /\ TypeGhosts'
    BY <1>3 DEF Stamp, world, lease, ghosts, TypeWorld, TypeBinding, TypeLock,
                TypeStop, TypeGhosts
  <2> QED
    BY <2>1, <2>2, <2>3
<1>4. ASSUME NEW p \in Loops, AcquireLock(p) PROVE TypeOK'
  <2>1. TypePc'
    BY <1>0, <1>4, AtTypes DEF AcquireLock
  <2>2. TypeLock'
    BY <1>4 DEF AcquireLock, TakeLock, TypeLock
  <2>3. TypeWorld' /\ TypeBinding' /\ TypeMine' /\ TypeStop' /\ TypeGhosts'
    BY <1>4 DEF AcquireLock, world, mine, ghosts, TypeWorld, TypeBinding, TypeMine,
                TypeStop, TypeGhosts
  <2> QED
    BY <2>1, <2>2, <2>3
<1>5. ASSUME NEW p \in Loops, Decide(p) PROVE TypeOK'
  <2>1. TypePc'
    BY <1>0, <1>5, AtTypes DEF Decide
  <2>2. TypeMine' /\ TypeGhosts'
    BY <1>5, GoneTypes DEF Decide, mine, ghosts, TypeMine, TypeGhosts
  <2>3. TypeWorld' /\ TypeBinding' /\ TypeLock' /\ TypeStop'
    BY <1>5 DEF Decide, world, TypeWorld, TypeBinding, TypeLock, TypeStop
  <2> QED
    BY <2>1, <2>2, <2>3
<1>6. ASSUME NEW p \in Loops, Publish(p) PROVE TypeOK'
  <2>1. TypePc'
    BY <1>0, <1>6, AtTypes DEF Publish
  <2>2. TypeBinding'
    BY <1>6, WindowAssumption, AgeAssumption DEF Publish, TypeBinding, TypeMine
  <2>3. TypeGhosts'
    BY <1>6 DEF Publish, Displaces, Holder, TypeGhosts
  <2>4. TypeWorld' /\ TypeLock' /\ TypeMine' /\ TypeStop'
    BY <1>6 DEF Publish, world, mine, TypeWorld, TypeLock, TypeMine, TypeStop
  <2> QED
    BY <2>1, <2>2, <2>3, <2>4
<1>7. ASSUME NEW p \in Loops, Revive(p) PROVE TypeOK'
  <2>1. TypePc'
    BY <1>0, <1>7, AtTypes DEF Revive
  <2>2. TypeMine'
    BY <1>7, Constants DEF Revive, ForgetSnapshot, TypeMine
  <2>3. seen[p].receipt \in Receipts /\ "active" \in Statuses
    BY DEF TypeMine, Statuses
  <2>4. TypeWorld'
    BY <1>7, <2>3, Constants DEF Revive, TypeWorld
  <2>5. TypeBinding' /\ TypeLock' /\ TypeStop' /\ TypeGhosts'
    BY <1>7 DEF Revive, lease, ghosts, TypeBinding, TypeLock, TypeStop, TypeGhosts
  <2> QED
    BY <2>1, <2>2, <2>4, <2>5
<1>8. ASSUME NEW p \in Loops, ReviveFails(p) PROVE TypeOK'
  <2>1. TypePc'
    BY <1>0, <1>8, AtTypes DEF ReviveFails
  <2>2. TypeMine'
    BY <1>8, Constants DEF ReviveFails, ForgetSnapshot, TypeMine
  <2>3. seen[p].receipt \in Receipts
    BY DEF TypeMine
  <2>4. TypeWorld'
    <3>1. [seen[p].receipt EXCEPT !.status = "active"] \in Receipts
      BY <2>3 DEF Receipts, Statuses
    <3>2. /\ receipt' \in {receipt, seen[p].receipt, [seen[p].receipt EXCEPT !.status = "active"]}
          /\ session' \in BOOLEAN /\ launched' = launched
      BY <1>8 DEF ReviveFails, TypeWorld
    <3> QED
      BY <2>3, <3>1, <3>2 DEF TypeWorld
  <2>5. TypeBinding' /\ TypeLock' /\ TypeStop' /\ TypeGhosts'
    BY <1>8 DEF ReviveFails, lease, ghosts, TypeBinding, TypeLock, TypeStop, TypeGhosts
  <2> QED
    BY <2>1, <2>2, <2>4, <2>5
<1>9. ASSUME NEW p \in Loops, Tick(p) PROVE TypeOK'
  <2>1. TypePc'
    BY <1>0, <1>9, AtTypes DEF Tick, CheckBinding, Bump, CheckReceipt, EndTick
  <2>2. TypeBinding'
    BY <1>9, AgeAssumption DEF Tick, CheckBinding, Bump, CheckReceipt, EndTick, lease, TypeBinding
  <2>3. TypeGhosts'
    BY <1>9 DEF Tick, CheckBinding, Bump, CheckReceipt, EndTick, ghosts, TypeGhosts
  <2>4. TypeWorld' /\ TypeLock' /\ TypeMine' /\ TypeStop'
    BY <1>9 DEF Tick, CheckBinding, Bump, CheckReceipt, EndTick, world, lease, mine,
                TypeWorld, TypeLock, TypeMine, TypeStop
  <2> QED
    BY <2>1, <2>2, <2>3, <2>4
<1>10. ASSUME NEW p \in Loops, LoopEnds(p) PROVE TypeOK'
  <2>1. TypePc'
    BY <1>0, <1>10, AtTypes DEF LoopEnds
  <2> QED
    BY <1>10, <2>1 DEF LoopEnds, world, lease, mine, ghosts, TypeWorld, TypeBinding,
                       TypeLock, TypeMine, TypeStop, TypeGhosts
<1>11. ASSUME NEW p \in Loops, Drop(p) PROVE TypeOK'
  <2>1. TypePc'
    BY <1>0, <1>11, AtTypes DEF Drop, DropLock, DropCheck, DropRemove
  <2>2. TypeMine' /\ TypeGhosts'
    BY <1>11, GoneTypes DEF Drop, DropLock, DropCheck, DropRemove, mine, ghosts,
                            TypeMine, TypeGhosts
  <2>3. TypeBinding' /\ TypeLock'
    BY <1>11, Constants DEF Drop, DropLock, DropCheck, DropRemove, TakeLock, lease,
                            TypeBinding, TypeLock
  <2>4. TypeWorld' /\ TypeStop'
    BY <1>11 DEF Drop, DropLock, DropCheck, DropRemove, world, TypeWorld, TypeStop
  <2> QED
    BY <2>1, <2>2, <2>3, <2>4
<1>12. ASSUME NEW p \in Loops, Crash(p) PROVE TypeOK'
  <2>1. TypePc'
    BY <1>0, <1>12 DEF Crash, TypePc
  <2>2. TypeMine' /\ TypeGhosts'
    BY <1>12, GoneTypes DEF Crash
  <2>3. TypeWorld' /\ TypeBinding' /\ TypeLock' /\ TypeStop'
    BY <1>12 DEF Crash, world, TypeWorld, TypeBinding, TypeLock, TypeStop
  <2> QED
    BY <2>1, <2>2, <2>3
<1>13. ASSUME Age PROVE TypeOK'
  <2>1. TypeBinding'
    BY <1>13, AgeAssumption DEF Age, TypeBinding
  <2>2. TypeGhosts'
    BY <1>13 DEF Age, Holder, TypeGhosts
  <2>3. TypeWorld' /\ TypeLock' /\ TypePc' /\ TypeMine' /\ TypeStop'
    BY <1>13 DEF Age, world, mine, TypeWorld, TypeLock, TypePc, TypeMine, TypeStop
  <2> QED
    BY <2>1, <2>2, <2>3
<1>14. ASSUME Commands PROVE TypeOK'
  <2> USE DEF Commands, Stop, StopKill, StopSave, StopRevoke, Pause, ReviveAttended,
              Purge, SessionDies
  <2>1. "stopped" \in Statuses /\ "paused" \in Statuses /\ "active" \in Statuses
        /\ "none" \in Statuses
    BY DEF Statuses
  <2>2. stop.seen \in Receipts
    BY DEF TypeStop
  <2>3. TypeWorld'
    <3>1. receipt' = receipt \/ receipt' = [stop.seen EXCEPT !.status = "stopped"]
          \/ \E t \in {"active", "paused", "none"} : receipt' = [receipt EXCEPT !.status = t]
      BY <1>14 DEF world
    <3>2. receipt' \in Receipts
      BY <2>1, <2>2, <3>1, Constants DEF TypeWorld
    <3>3. launched' = launched /\ session' \in BOOLEAN
      BY <1>14 DEF world, TypeWorld
    <3> QED
      BY <3>2, <3>3 DEF TypeWorld
  <2>4. TypeBinding'
    BY <1>14, Constants DEF lease, TypeBinding
  <2>5. TypeStop'
    BY <1>14, Constants DEF TypeStop, TypeWorld
  <2>6. TypeGhosts'
    BY <1>14 DEF ghosts, Holder, TypeGhosts
  <2>7. TypeLock' /\ TypePc' /\ TypeMine'
    BY <1>14 DEF lease, mine, TypeLock, TypePc, TypeMine
  <2> QED
    BY <2>3, <2>4, <2>5, <2>6, <2>7
<1>15. ASSUME UNCHANGED vars PROVE TypeOK'
  BY <1>15 DEF vars, TypeOK
<1> QED
  BY <1>1, <1>2, <1>3, <1>4, <1>5, <1>6, <1>7, <1>8, <1>9, <1>10, <1>11, <1>12,
     <1>13, <1>14, <1>15 DEF Next, Start, Run, Bind

\* The initial state is well typed.
LEMMA TypeInit == Init => TypeOK
<1> SUFFICES ASSUME Init PROVE TypeOK
  OBVIOUS
<1>1. TypeWorld
  <2>1. receipt \in Receipts
    BY Constants DEF Init
  <2>2. launched \in Instances
    BY InstanceAssumption DEF Init, Instances
  <2>3. session \in BOOLEAN
    BY DEF Init
  <2> QED
    BY <2>1, <2>2, <2>3 DEF TypeWorld
<1>1a. TypeStop
  BY Constants DEF Init, TypeStop
<1>2. TypeBinding /\ TypeLock /\ TypePc
  BY Constants DEF Init, TypeBinding, TypeLock, TypePc, Steps
<1>3. TypeMine /\ TypeGhosts
  BY Constants, InstanceAssumption DEF Init, TypeMine, TypeGhosts, Instances
<1> QED
  BY <1>1, <1>2, <1>3, <1>1a, TypeParts

(* Every variable of the binding protocol keeps its type: the record's        *)
(* window and age stay within their bounds, tokens name launched sessions.    *)
THEOREM TypeCorrect == Spec => []TypeOK
BY TypeInit, TypeStep, PTL DEF Spec

-----------------------------------------------------------------------------
\* The lock, step by step: moving outside or inside a locked section, taking
\* the lock, releasing it.
LEMMA LockMoves ==
    ASSUME TypeOK, LockInv, NEW p \in Loops, NEW from, NEW to, At(p, from, to),
           \/ from \notin Critical /\ to \notin Critical /\ lock' = lock
           \/ from \in Critical /\ to \in Critical /\ lock' = lock
           \/ lock = None /\ to \in Critical /\ lock' = p
           \/ from \in Critical /\ to \notin Critical /\ lock' = None
    PROVE  LockInv'
<1>1. \A q \in Loops : q # p => pc'[q] = pc[q]
  BY DEF TypeOK, At
<1>2. pc[p] = from /\ pc'[p] = to
  BY DEF TypeOK, At
<1> QED
  BY <1>1, <1>2, NoneAssumption DEF LockInv

\* The lock names the loop inside a locked section, and no other is in one.
LEMMA LockStep == TypeOK /\ LockInv /\ [Next]_vars => LockInv'
<1> SUFFICES ASSUME TypeOK, LockInv, [Next]_vars PROVE LockInv'
  OBVIOUS
<1> USE DEF Critical
<1>1. ASSUME NEW p \in Loops, Start(p) PROVE LockInv'
  BY <1>1, LockMoves DEF Start, Launch, ReadSession, lease
<1>2. ASSUME NEW p \in Loops, Bind(p) PROVE LockInv'
  BY <1>2, LockMoves DEF Bind, Stamp, AcquireLock, TakeLock, Decide, Publish, lease
<1>3. ASSUME NEW p \in Loops, Revive(p) \/ ReviveFails(p) \/ LoopEnds(p) PROVE LockInv'
  BY <1>3, LockMoves DEF Revive, ReviveFails, LoopEnds, lease
<1>4. ASSUME NEW p \in Loops, Tick(p) PROVE LockInv'
  BY <1>4, LockMoves DEF Tick, CheckBinding, Bump, CheckReceipt, EndTick, lease
<1>5. ASSUME NEW p \in Loops, Drop(p) PROVE LockInv'
  BY <1>5, LockMoves DEF Drop, DropLock, DropCheck, DropRemove, TakeLock, lease
<1>6. ASSUME NEW p \in Loops, Crash(p) PROVE LockInv'
  <2>1. pc'[p] = "dead" /\ \A q \in Loops : q # p => pc'[q] = pc[q]
    BY <1>6 DEF Crash, TypeOK
  <2> QED
    BY <1>6, <2>1, NoneAssumption DEF Crash, LockInv
<1>7. ASSUME UNCHANGED <<lock, pc>> PROVE LockInv'
  BY <1>7 DEF LockInv
<1>8. CASE Age \/ Commands \/ UNCHANGED vars
  BY <1>7, <1>8 DEF Age, Commands, Stop, StopKill, StopSave, StopRevoke, Pause,
                    ReviveAttended, Purge, SessionDies, lease, vars
<1> QED
  BY <1>1, <1>2, <1>3, <1>4, <1>5, <1>6, <1>8 DEF Next, Run

-----------------------------------------------------------------------------
\* A step of p that leaves the binding alone keeps the lease's invariant, if
\* what it decides or finds on the way to a write is so.
LEMMA Calm ==
    ASSUME TypeOK, LeaseInv, NEW p \in Loops, binding' = binding,
           \A q \in Loops \ {p} : /\ pc'[q] = pc[q] /\ seen'[q] = seen[q]
                                  /\ token'[q] = token[q]
                                  /\ q \in excused => q \in excused',
           Punctual(p)' => Punctual(p),
           pc'[p] = "publish" => \A q \in Loops \ {p} :
               Holds(q) /\ Punctual(q) => Supersedes(p)' \/ binding.instance # token'[p],
           pc'[p] = "remove" => binding.loop \in {p, None}
    PROVE  LeaseInv'
<1>1. \A q \in Loops : Punctual(q)' => Punctual(q)
  BY DEF Punctual
<1>2. \A q \in Loops : Holds(q)' <=> Holds(q)
  BY DEF Holds
<1>3. RecordInv'
  BY DEF LeaseInv, RecordInv
<1>4. LapsedInv'
  BY <1>1, <1>2 DEF LeaseInv, LapsedInv
<1>5. DecisionInv'
  <2> SUFFICES ASSUME NEW r \in Loops, NEW q \in Loops, pc'[r] = "publish",
                      Holds(q)', Punctual(q)'
               PROVE  Supersedes(r)' \/ binding'.instance # token'[r]
    BY DEF DecisionInv
  <2>1. Holds(q) /\ Punctual(q)
    BY <1>1, <1>2
  <2>2. q # r
    BY DEF Punctual, Bound
  <2>3. CASE r = p
    BY <2>1, <2>2, <2>3
  <2>4. CASE r # p
    BY <2>1, <2>4 DEF LeaseInv, DecisionInv, Supersedes
  <2> QED
    BY <2>3, <2>4
<1>6. RemovalInv'
  BY DEF LeaseInv, RemovalInv
<1>7. PunctualKeepsLease'
  BY <1>1, <1>2 DEF LeaseInv, PunctualKeepsLease, Punctual
<1> QED
  BY <1>3, <1>4, <1>5, <1>6, <1>7 DEF LeaseInv

\* A step that touches neither the binding nor the loops keeps it too.
LEMMA Still ==
    ASSUME LeaseInv, UNCHANGED <<binding, pc, seen, token, excused>>
    PROVE  LeaseInv'
BY DEF LeaseInv, RecordInv, LapsedInv, DecisionInv, RemovalInv, PunctualKeepsLease,
       Punctual, Holds, Supersedes

\* The binding's writers: the publish that follows a decision under the lock,
\* the time stamp of a refresh, the removals, and the clock.
LEMMA PublishStep ==
    ASSUME TypeOK, LockInv, LeaseInv, NEW p \in Loops, Publish(p) PROVE LeaseInv'
<1>1. /\ pc[p] = "publish" /\ pc'[p] = "revive"
      /\ \A q \in Loops \ {p} : pc'[q] = pc[q]
  BY DEF TypeOK, Publish, At
<1>2. /\ binding'.loop = p /\ binding'.window = Window[p] /\ binding'.age = 0
      /\ binding' # NoBinding
  BY NoneAssumption DEF Publish, NoBinding
<1>3. \A q \in Loops \ {p} : ~Holds(q)' /\ pc[q] \notin Critical
  BY <1>1, <1>2 DEF Holds, LockInv, Critical
<1>4. RecordInv'
  BY <1>2, NoneAssumption DEF RecordInv
<1>5. LapsedInv'
  BY <1>2, <1>3, WindowAssumption DEF LapsedInv
<1>6. DecisionInv' /\ RemovalInv'
  BY <1>1, <1>3 DEF DecisionInv, RemovalInv, Critical
<1>7. PunctualKeepsLease'
  <2> SUFFICES ASSUME NEW q \in Loops, q # p, pc'[q] \in Bound, q \notin excused'
               PROVE  FALSE
    BY <1>2 DEF PunctualKeepsLease, Holds
  <2>1. pc[q] \in Bound /\ q \notin excused
    BY <1>1 DEF Publish
  <2>2. Holds(q) /\ q \in Holder
    BY <2>1 DEF LeaseInv, PunctualKeepsLease, Holder
  <2>3. Supersedes(p) \/ binding.instance # token[p]
    BY <1>1, <2>1, <2>2 DEF LeaseInv, DecisionInv, Punctual
  <2> QED
    BY <2>2, <2>3 DEF Publish, Displaces
<1> QED
  BY <1>4, <1>5, <1>6, <1>7 DEF LeaseInv

LEMMA BumpStep ==
    ASSUME TypeOK, LeaseInv, NEW p \in Loops, Bump(p) PROVE LeaseInv'
<1>1. /\ pc[p] = "bump" /\ pc'[p] = "checked"
      /\ \A q \in Loops \ {p} : pc'[q] = pc[q]
  BY DEF TypeOK, Bump, At
<1>2. /\ binding'.loop = binding.loop /\ binding'.window = binding.window
      /\ binding'.instance = binding.instance /\ binding'.age = 0
      /\ binding = NoBinding => binding' = NoBinding
  BY DEF TypeOK, Bump, NoBinding
<1>3. UNCHANGED <<seen, token, excused>>
  BY DEF Bump, mine, ghosts
<1>4. \A q \in Loops : (Holds(q)' <=> Holds(q)) /\ (Punctual(q)' <=> Punctual(q))
  BY <1>1, <1>2, <1>3 DEF Holds, Punctual, Bound
<1>5. RecordInv'
  BY <1>2 DEF LeaseInv, RecordInv
<1>6. LapsedInv'
  BY <1>2 DEF TypeOK, LapsedInv
<1>7. DecisionInv'
  BY <1>1, <1>2, <1>3, <1>4 DEF LeaseInv, DecisionInv, Supersedes
<1>8. RemovalInv'
  BY <1>1, <1>2 DEF LeaseInv, RemovalInv
<1>9. PunctualKeepsLease'
  BY <1>4 DEF LeaseInv, PunctualKeepsLease, Punctual
<1> QED
  BY <1>5, <1>6, <1>7, <1>8, <1>9 DEF LeaseInv

LEMMA RemoveStep ==
    ASSUME TypeOK, LeaseInv, NEW p \in Loops, DropRemove(p) PROVE LeaseInv'
<1>1. /\ pc[p] = "remove" /\ pc'[p] = "done"
      /\ \A q \in Loops \ {p} : pc'[q] = pc[q]
  BY DEF TypeOK, DropRemove, At
<1>2. binding' = NoBinding /\ \A q \in Loops : ~Holds(q)'
  BY NoneAssumption DEF DropRemove, NoBinding, Holds
<1>3. RecordInv' /\ LapsedInv' /\ DecisionInv'
  BY <1>2, NoneAssumption DEF RecordInv, NoBinding, LapsedInv, DecisionInv
<1>4. RemovalInv'
  BY <1>2 DEF RemovalInv, NoBinding
<1>5. PunctualKeepsLease'
  <2> SUFFICES ASSUME NEW q \in Loops, pc'[q] \in Bound, q \notin excused'
               PROVE  FALSE
    BY DEF PunctualKeepsLease
  <2>1. q # p
    BY <1>1 DEF Bound
  <2>2. pc[q] \in Bound /\ q \notin excused
    BY <1>1, <2>1 DEF DropRemove, Gone
  <2>3. binding.loop = q
    BY <2>2 DEF LeaseInv, PunctualKeepsLease, Holds
  <2> QED
    BY <1>1, <2>1, <2>3, NoneAssumption DEF LeaseInv, RemovalInv
<1> QED
  BY <1>3, <1>4, <1>5 DEF LeaseInv

LEMMA RevokeStep == ASSUME TypeOK, LeaseInv, StopRevoke PROVE LeaseInv'
<1>1. binding' = NoBinding /\ \A q \in Loops : ~Holds(q)'
  BY NoneAssumption DEF StopRevoke, NoBinding, Holds
<1>2. RecordInv' /\ LapsedInv' /\ DecisionInv'
  BY <1>1, NoneAssumption DEF RecordInv, NoBinding, LapsedInv, DecisionInv
<1>3. RemovalInv'
  BY <1>1 DEF RemovalInv, NoBinding
<1>4. PunctualKeepsLease'
  BY DEF StopRevoke, Holder, LeaseInv, PunctualKeepsLease
<1> QED
  BY <1>2, <1>3, <1>4 DEF LeaseInv

LEMMA AgeStep == ASSUME TypeOK, LeaseInv, Age PROVE LeaseInv'
<1>1. /\ binding'.loop = binding.loop /\ binding'.window = binding.window
      /\ binding'.instance = binding.instance /\ binding'.age = binding.age + 1
      /\ binding # NoBinding
  BY DEF TypeOK, Age
<1>2. UNCHANGED <<pc, seen, token>> /\ excused \subseteq excused'
  BY DEF Age, mine
<1>3. \A q \in Loops : (Holds(q)' <=> Holds(q)) /\ (Punctual(q)' => Punctual(q))
  BY <1>1, <1>2 DEF Holds, Punctual
<1>4. RecordInv'
  BY <1>1 DEF LeaseInv, RecordInv
<1>5. LapsedInv'
  BY <1>1, <1>2, <1>3 DEF Age, Holder, LapsedInv, Punctual
<1>6. DecisionInv'
  BY <1>1, <1>2, <1>3 DEF LeaseInv, DecisionInv, Supersedes
<1>7. RemovalInv'
  BY <1>1, <1>2 DEF LeaseInv, RemovalInv
<1>8. PunctualKeepsLease'
  BY <1>2, <1>3 DEF LeaseInv, PunctualKeepsLease, Punctual
<1> QED
  BY <1>4, <1>5, <1>6, <1>7, <1>8 DEF LeaseInv

\* At its decision a loop goes on only if it displaces nobody by surprise.
LEMMA DecideSound ==
    ASSUME TypeOK, LeaseInv, NEW p \in Loops, ~Refuses(p), NEW q \in Loops,
           Holds(q), Punctual(q)
    PROVE  Supersedes(p) \/ binding.instance # token[p]
<1>1. binding # NoBinding
  BY NoneAssumption DEF Holds, NoBinding
<1>2. ASSUME Stale(p) PROVE FALSE
  <2>1. binding.age > binding.window
    BY <1>2, WindowAssumption DEF TypeOK, Stale, Max2
  <2> QED
    BY <2>1 DEF LeaseInv, LapsedInv
<1> QED
  BY <1>1, <1>2 DEF Refuses

\* Every step keeps the lease's invariant.
LEMMA LeaseStep == TypeOK /\ LockInv /\ LeaseInv /\ [Next]_vars => LeaseInv'
<1> SUFFICES ASSUME TypeOK, LockInv, LeaseInv, [Next]_vars PROVE LeaseInv'
  OBVIOUS
<1>1. ASSUME NEW p \in Loops, Start(p) PROVE LeaseInv'
  BY <1>1, Calm DEF Start, Launch, ReadSession, At, lease, ghosts, TypeOK, Punctual, Bound
<1>2. ASSUME NEW p \in Loops, Stamp(p) \/ AcquireLock(p) PROVE LeaseInv'
  BY <1>2, Calm DEF Stamp, AcquireLock, At, lease, ghosts, mine, TypeOK, Punctual, Bound
<1>3. ASSUME NEW p \in Loops, Decide(p) PROVE LeaseInv'
  <2>1. CASE Refuses(p)
    BY <1>3, <2>1, Calm DEF Decide, Gone, ForgetSnapshot, At, TypeOK, Punctual, Bound
  <2>2. CASE ~Refuses(p)
    <3>1. /\ UNCHANGED <<binding, seen, token, excused>> /\ pc'[p] = "publish"
          /\ \A q \in Loops \ {p} : pc'[q] = pc[q]
      BY <1>3, <2>2 DEF Decide, At, mine, ghosts, TypeOK
    <3>2. \A q \in Loops : Holds(q) /\ Punctual(q)
                             => Supersedes(p)' \/ binding.instance # token'[p]
      BY <2>2, <3>1, DecideSound DEF Supersedes
    <3> QED
      BY <3>1, <3>2, Calm DEF Punctual, Bound
  <2> QED
    BY <2>1, <2>2
<1>4. ASSUME NEW p \in Loops, Publish(p) PROVE LeaseInv'
  BY <1>4, PublishStep
<1>5. ASSUME NEW p \in Loops, Revive(p) \/ ReviveFails(p) PROVE LeaseInv'
  BY <1>5, Calm DEF Revive, ReviveFails, ForgetSnapshot, At, lease, ghosts, TypeOK,
                    Punctual, Bound
<1>6. ASSUME NEW p \in Loops, CheckBinding(p) \/ CheckReceipt(p) \/ EndTick(p) \/ LoopEnds(p)
      PROVE  LeaseInv'
  BY <1>6, Calm DEF CheckBinding, CheckReceipt, EndTick, LoopEnds, At, lease, ghosts, mine,
                    TypeOK, Punctual, Bound
<1>7. ASSUME NEW p \in Loops, Bump(p) PROVE LeaseInv'
  BY <1>7, BumpStep
<1>8. ASSUME NEW p \in Loops, DropLock(p) \/ DropCheck(p) PROVE LeaseInv'
  BY <1>8, Calm DEF DropLock, DropCheck, Gone, ForgetSnapshot, At, lease, ghosts, mine,
                    TypeOK, Holds, Punctual, Bound
<1>9. ASSUME NEW p \in Loops, DropRemove(p) PROVE LeaseInv'
  BY <1>9, RemoveStep
<1>10. ASSUME NEW p \in Loops, Crash(p) PROVE LeaseInv'
  BY <1>10, Calm DEF Crash, Gone, ForgetSnapshot, TypeOK, Punctual, Bound
<1>11. CASE Age
  BY <1>11, AgeStep
<1>12. ASSUME Commands PROVE LeaseInv'
  <2>1. CASE StopRevoke
    BY <2>1, RevokeStep
  <2>2. CASE ~StopRevoke
    BY <1>12, <2>2, Still DEF Commands, Stop, StopKill, StopSave, Pause, ReviveAttended,
                              Purge, SessionDies, lease, mine, ghosts
  <2> QED
    BY <2>1, <2>2
<1>13. CASE UNCHANGED vars
  BY <1>13, Still DEF vars
<1> QED
  BY <1>1, <1>2, <1>3, <1>4, <1>5, <1>6, <1>7, <1>8, <1>9, <1>10, <1>11, <1>12, <1>13
     DEF Next, Run, Bind, Tick, Drop

(* A loop that refreshes within its own window keeps its binding, whatever    *)
(* the other starts, their windows and the other commands do: only git paw    *)
(* stop, a recovery or a launch of another instance takes it away             *)
(* (loop_binding.rs acquire and Drop under one lock).                         *)
THEOREM PunctualLoopsKeepTheirLease == Spec => []PunctualKeepsLease
<1> DEFINE Inv == TypeOK /\ LockInv /\ LeaseInv
<1>1. Init => Inv
  <2> SUFFICES ASSUME Init PROVE Inv
    OBVIOUS
  <2>1. LockInv
    BY NoneAssumption DEF Init, LockInv, Critical
  <2>2. \A p \in Loops : pc[p] = "idle"
    BY DEF Init
  <2>3. RecordInv /\ LapsedInv /\ DecisionInv /\ RemovalInv
    BY <2>2, NoneAssumption DEF Init, RecordInv, LapsedInv, DecisionInv, RemovalInv,
                                NoBinding, Punctual, Bound
  <2>4. PunctualKeepsLease
    BY <2>2 DEF PunctualKeepsLease, Bound
  <2> QED
    BY <2>1, <2>3, <2>4, TypeInit DEF LeaseInv
<1>2. Inv /\ [Next]_vars => Inv'
  BY TypeStep, LockStep, LeaseStep
<1>3. Inv => PunctualKeepsLease
  BY DEF LeaseInv
<1> QED
  BY <1>1, <1>2, <1>3, PTL DEF Spec

-----------------------------------------------------------------------------
\* A step of p that keeps the loop's name in the binding, or takes p's out,
\* keeps the count of overdue ticks right.
LEMMA LateMoves ==
    ASSUME TypeOK, LateInv, NEW p \in Loops,
           \A q \in Loops \ {p} : /\ pc'[q] = pc[q] /\ overdue'[q] = overdue[q]
                                  /\ Holds(q)' => Holds(q),
           overdue'[p] # 0 => /\ overdue'[p] = 1 /\ ~Holds(p)'
                              /\ pc'[p] \in {"acting", "tick", "drop", "release"}
    PROVE  LateInv'
BY DEF LateInv

LEMMA LateStep == TypeOK /\ LateInv /\ [Next]_vars => LateInv'
<1> SUFFICES ASSUME TypeOK, LateInv, [Next]_vars PROVE LateInv'
  OBVIOUS
<1>1. ASSUME NEW p \in Loops, Start(p) PROVE LateInv'
  BY <1>1, LateMoves DEF Start, Launch, ReadSession, At, lease, ghosts, TypeOK, Holds, LateInv
<1>2. ASSUME NEW p \in Loops, Stamp(p) \/ AcquireLock(p) PROVE LateInv'
  BY <1>2, LateMoves DEF Stamp, AcquireLock, At, lease, ghosts, TypeOK, Holds, LateInv
<1>3. ASSUME NEW p \in Loops, Decide(p) PROVE LateInv'
  BY <1>3, LateMoves DEF Decide, Gone, At, ghosts, TypeOK, Holds, LateInv
<1>4. ASSUME NEW p \in Loops, Publish(p) PROVE LateInv'
  BY <1>4, LateMoves DEF Publish, At, TypeOK, Holds, LateInv
<1>5. ASSUME NEW p \in Loops, Revive(p) \/ ReviveFails(p) PROVE LateInv'
  BY <1>5, LateMoves DEF Revive, ReviveFails, At, lease, ghosts, TypeOK, Holds, LateInv
<1>6. ASSUME NEW p \in Loops, CheckBinding(p) PROVE LateInv'
  BY <1>6, LateMoves DEF CheckBinding, At, lease, ghosts, TypeOK, Holds, LateInv
<1>7. ASSUME NEW p \in Loops, Bump(p) PROVE LateInv'
  BY <1>7, LateMoves DEF Bump, At, ghosts, TypeOK, Holds, LateInv
<1>8. ASSUME NEW p \in Loops, CheckReceipt(p) PROVE LateInv'
  <2>1. pc[p] = "checked" /\ overdue[p] = 0
    BY <1>8 DEF CheckReceipt, At, LateInv, TypeOK
  <2> QED
    BY <1>8, <2>1, LateMoves DEF CheckReceipt, At, lease, TypeOK, Holds
<1>9. ASSUME NEW p \in Loops, EndTick(p) \/ LoopEnds(p) PROVE LateInv'
  BY <1>9, LateMoves DEF EndTick, LoopEnds, At, lease, ghosts, TypeOK, Holds, LateInv
<1>10. ASSUME NEW p \in Loops, DropLock(p) \/ DropCheck(p) PROVE LateInv'
  BY <1>10, LateMoves DEF DropLock, DropCheck, Gone, At, lease, ghosts, TypeOK, Holds, LateInv
<1>11. ASSUME NEW p \in Loops, DropRemove(p) PROVE LateInv'
  BY <1>11, LateMoves, NoneAssumption
     DEF DropRemove, Gone, At, NoBinding, TypeOK, Holds, LateInv
<1>12. ASSUME NEW p \in Loops, Crash(p) PROVE LateInv'
  BY <1>12, LateMoves DEF Crash, Gone, TypeOK, Holds, LateInv
<1>13. ASSUME UNCHANGED <<pc, overdue>>, \A q \in Loops : Holds(q)' => Holds(q)
       PROVE  LateInv'
  BY <1>13 DEF LateInv
<1>14. CASE Age
  BY <1>13, <1>14 DEF Age, Holds, TypeOK
<1>15. CASE Commands
  BY <1>13, <1>15, NoneAssumption
     DEF Commands, Stop, StopKill, StopSave, StopRevoke, Pause, ReviveAttended, Purge,
         SessionDies, lease, ghosts, Holds, NoBinding
<1>16. CASE UNCHANGED vars
  BY <1>13, <1>16 DEF vars, Holds
<1> QED
  BY <1>1, <1>2, <1>3, <1>4, <1>5, <1>6, <1>7, <1>8, <1>9, <1>10, <1>11, <1>12, <1>14,
     <1>15, <1>16 DEF Next, Run, Bind, Tick, Drop

(* A loop whose binding was revoked or taken acts in at most the one tick it  *)
(* had already checked (drive.rs drive_loop_logged, BoundInstanceGuard).      *)
THEOREM LateByOneTickAtMost == Spec => []AtMostOneTickLate
<1>1. Init => LateInv
  BY DEF Init, LateInv
<1>2. TypeOK /\ LateInv => AtMostOneTickLate
  BY DEF TypeOK, LateInv, AtMostOneTickLate
<1> QED
  BY <1>1, <1>2, TypeInit, TypeStep, LateStep, PTL DEF Spec

-----------------------------------------------------------------------------
(* SessionReceipt.                                                             *)

\* No branch and no port slot has two entries.
Regular(r) == r # Nothing =>
                \A e, f \in r.agents : e.branch = f.branch \/ e.slot = f.slot => e = f

Reactivated(r) == [r EXCEPT !.status = "active"]

\* The steps of each command.
Steady(k) == \/ k.kind = "add" /\ k.at \in {"lock", "attach", "spawn", "save", "gate"}
             \/ k.kind = "remove" /\ k.at \in {"lock", "kill", "detach", "save"}
             \/ k.kind = "stop" /\ k.at \in {"kill", "save"}
             \/ k.kind = "pause" /\ k.at = "save"
             \/ k.kind = "purge" /\ k.at \in {"kill", "detach", "delete"}
             \/ k.kind = "start" /\ k.at \in {"detach", "delete", "launch", "close", "open",
                                              "host", "submit", "save"}

\* The copy a command works on, and how it differs from what it last read or wrote.
Copied(k) ==
  /\ Locked(k.kind) => k.branch \in Branches
  /\ (k.kind = "start" /\ k.at \in {"detach", "delete", "launch"}) \/ k.seen \in Sessions
  /\ Regular(k.seen)
  /\ k.kind = "add" => k.branch \notin Listed(k.seen)
  /\ (k.kind = "add" /\ k.at # "gate") \/ k.kind \in {"remove", "stop", "pause", "purge"}
        \/ (k.kind = "start" /\ k.at \in {"detach", "delete", "close", "submit"})
       => k.base = k.seen
  /\ k.kind = "start" /\ k.at = "launch" => k.base = Nothing
  /\ k.kind = "start" /\ k.at = "open" => k.base = Reactivated(k.seen)
  /\ k.kind = "start" /\ k.at = "host" => k.base \in {k.seen, Reactivated(k.seen)}

CommandInv == \A c \in Callers : cmd[c] = Idle \/ (Steady(cmd[c]) /\ Copied(cmd[c]))
CopyInv == CommandInv /\ Regular(stored)

\* The lock is held by the one command that is past taking it.
HolderInv == \A c \in Callers :
               addLock = c <=> Locked(cmd[c].kind) /\ cmd[c].at \notin {"idle", "lock"}

WindowInv == ~tmux => panes = {}

\* A command that has not yet acted on what it read.
Fresh(k) == \/ k = Idle
            \/ k.kind = "add" /\ k.at \in {"lock", "attach"}
            \/ k.kind = "remove" /\ k.at \in {"lock", "kill"}

\* Commands overlap only when each of them takes the lock.
TogetherInv == \A c, d \in Callers :
                 \/ c = d \/ cmd[c] = Idle \/ cmd[d] = Idle
                 \/ Locked(cmd[c].kind) /\ Locked(cmd[d].kind)

CurrentInv == \A c \in Callers : Fresh(cmd[c]) \/ cmd[c].base = stored

\* An entry is true: its worktree has its slot, its prompt is held or was typed.
Backed(e) == work[e.branch] = e.slot
Prompted(e) == e.held <=> e.branch \notin asked
TrueBut(r, b) == r # Nothing => \A e \in r.agents : e.branch = b \/ (Backed(e) /\ Prompted(e))
Settled(r) == /\ panes \subseteq Listed(r)
              /\ r # Nothing => \A e \in r.agents : Backed(e) /\ Prompted(e)

\* How far things have come when a command is under way.
Midway(k) ==
  /\ k.kind = "add" /\ k.at = "spawn" =>
       Settled(stored) /\ work[k.branch] = AllocateSlot(stored)
  /\ k.kind = "add" /\ k.at = "save" =>
       /\ panes \subseteq Listed(stored) \union {k.branch} /\ TrueBut(stored, k.branch)
       /\ work[k.branch] = AllocateSlot(stored)
  /\ k.kind = "add" /\ k.at = "gate" =>
       /\ panes \subseteq Listed(stored) /\ TrueBut(stored, k.branch)
       /\ stored \in Sessions
       /\ \A e \in stored.agents : e.branch = k.branch => Backed(e) /\ ~e.held
  /\ k.kind = "remove" /\ k.at \in {"detach", "save"} =>
       panes \subseteq Listed(stored) \ {k.branch} /\ TrueBut(stored, k.branch)
  /\ k.kind = "start" /\ k.at = "save" => Settled(k.seen)
  /\ k.kind \in {"purge", "start"} /\ k.at \in {"detach", "delete", "launch"} => panes = {}
  /\ (\/ k.kind \in {"stop", "pause"} \/ (k.kind = "purge" /\ k.at = "kill")
      \/ (k.kind = "start" /\ k.at \in {"close", "open", "host", "submit"}))
       => Settled(stored)

WorkInv == /\ (\A c \in Callers : Fresh(cmd[c])) => Settled(stored)
           /\ \A c \in Callers : Fresh(cmd[c]) \/ Midway(cmd[c])

CleanInv == mishaps = {} => TogetherInv /\ CurrentInv /\ WorkInv

-----------------------------------------------------------------------------
\* A set of numbers that is not empty has a least one.
LEMMA LeastExists ==
  ASSUME NEW T \in SUBSET Nat, T # {}
  PROVE  \E x \in T : \A y \in T : x <= y
<1> DEFINE Below(n) == 0 .. n - 1
           Belows == {Below(n) : n \in T}
           Smaller == StrictSubsetOrdering(Nat)
<1>1. \A n \in T : Below(n) \in FiniteSubsetsOf(Nat)
  BY FS_Interval DEF FiniteSubsetsOf
<1>2. IsWellFoundedOn(Smaller, FiniteSubsetsOf(Nat))
  BY FS_StrictSubsetOrderingWellFounded
<1>3. PICK m \in Belows : \A k \in Belows : ~ (<<k, m>> \in Smaller)
  <2>1. Belows # {} /\ Belows \subseteq FiniteSubsetsOf(Nat)
    BY <1>1
  <2> HIDE DEF Belows, Smaller
  <2> QED BY <1>2, <2>1, WFMin
<1>4. PICK x \in T : m = Below(x)
  OBVIOUS
<1>5. ASSUME NEW y \in T, y < x PROVE FALSE
  <2>1. Below(y) \subseteq Below(x) /\ y \in Below(x) /\ y \notin Below(y)
    BY <1>5
  <2>2. Below(x) \subseteq Nat
    OBVIOUS
  <2>3. <<Below(y), m>> \in Smaller
    BY <1>4, <2>1, <2>2 DEF StrictSubsetOrdering
  <2> QED BY <1>3, <2>3
<1> QED BY <1>5

\* Some slot is free as long as some branch has no entry: as many slots as branches.
LEMMA SlotLeft ==
  ASSUME NEW r \in Sessions, Regular(r), NEW b \in Branches, b \notin Listed(r)
  PROVE  \E s \in Slots : s \notin SlotsOf(r)
<1> SUFFICES ASSUME Slots \subseteq SlotsOf(r) PROVE FALSE
  OBVIOUS
<1> DEFINE owner == [s \in Slots |-> (CHOOSE e \in r.agents : e.slot = s).branch]
           n == Cardinality(Branches)
<1>1. r # Nothing /\ IsFiniteSet(Branches) /\ r.agents \subseteq Entries
  BY NothingAssumption, BranchesAssumption DEF Sessions
<1>2. \A s \in Slots : \E e \in r.agents : e.slot = s /\ owner[s] = e.branch
  BY DEF SlotsOf
<1>3. owner \in [Slots -> Branches \ {b}]
  BY <1>1, <1>2 DEF Listed, Entries
<1>4. n \in Nat /\ n # 0 /\ IsFiniteSet(Branches \ {b}) /\ Cardinality(Branches \ {b}) = n - 1
  BY <1>1, FS_CardinalityType, FS_EmptySet, FS_RemoveElement
<1>5. IsFiniteSet(Slots) /\ Cardinality(Slots) = n
  <2>1. Slots = 0 .. n - 1
    BY DEF Slots
  <2> HIDE DEF n
  <2> QED BY <1>4, <2>1, FS_Interval
<1>6. PICK s, t \in Slots : s # t /\ owner[s] = owner[t]
  <2> HIDE DEF owner, n
  <2>1. Cardinality(Branches \ {b}) < Cardinality(Slots)
    BY <1>4, <1>5
  <2> QED BY <1>3, <1>4, <1>5, <2>1, FS_PigeonHole
<1>7. PICK e \in r.agents, f \in r.agents : e.slot = s /\ f.slot = t /\ e.branch = f.branch
  BY <1>2, <1>6
<1> QED
  BY <1>1, <1>6, <1>7 DEF Regular

\* allocate_slot returns a slot that no entry has.
LEMMA AllocateFree ==
  ASSUME NEW r \in Sessions, Regular(r), NEW b \in Branches, b \notin Listed(r)
  PROVE  AllocateSlot(r) \in Slots /\ AllocateSlot(r) \notin SlotsOf(r)
<1> DEFINE Free == {s \in Slots : s \notin SlotsOf(r)}
<1>1. Free # {} /\ Free \subseteq Nat
  <2>1. Slots \subseteq Nat
    BY DEF Slots
  <2> QED BY <2>1, SlotLeft
<1>2. PICK s \in Free : \A t \in Free : s <= t
  BY <1>1, LeastExists
<1>3. \A t \in Slots : t < s => t \in SlotsOf(r)
  <2>1. \A t \in Slots : t \in Nat
    BY DEF Slots
  <2> QED BY <1>1, <1>2, <2>1
<1> QED
  BY <1>2, <1>3 DEF AllocateSlot

\* Replacing the agents, or the status, of a session.
LEMMA AgentsReplaced ==
  ASSUME NEW r \in Sessions, NEW S \in SUBSET Entries
  PROVE  LET w == [r EXCEPT !.agents = S]
         IN  w \in Sessions /\ w.agents = S /\ w.status = r.status /\ w # Nothing /\ r # Nothing
BY NothingAssumption DEF Sessions

LEMMA AgentAdded ==
  ASSUME NEW r \in Sessions, Regular(r), NEW b \in Branches, b \notin Listed(r)
  PROVE  /\ WithAgent(r, b) \in Sessions /\ Regular(WithAgent(r, b))
         /\ Listed(WithAgent(r, b)) = Listed(r) \union {b}
         /\ WithAgent(r, b).status = r.status
         /\ WithAgent(r, b).agents =
              r.agents \union {[branch |-> b, slot |-> AllocateSlot(r),
                                held |-> HoldsPrompt(r)]}
<1> DEFINE new == [branch |-> b, slot |-> AllocateSlot(r), held |-> HoldsPrompt(r)]
           w == WithAgent(r, b)
<1>1. new \in Entries /\ new.slot \notin SlotsOf(r) /\ new.branch \notin Listed(r)
  BY AllocateFree DEF Entries, HoldsPrompt
<1>2. r.agents \union {new} \subseteq Entries
  BY <1>1 DEF Sessions
<1>3. w = [r EXCEPT !.agents = r.agents \union {new}]
  BY DEF WithAgent
<1>4. /\ w \in Sessions /\ w.agents = r.agents \union {new} /\ w.status = r.status
      /\ w # Nothing /\ r # Nothing
  <2> HIDE DEF w, new
  <2> QED BY <1>2, <1>3, AgentsReplaced
<1>5. Listed(w) = Listed(r) \union {b}
  <2>1. new.branch = b
    OBVIOUS
  <2> HIDE DEF w, new
  <2> QED BY <1>4, <2>1 DEF Listed
<1>6. Regular(w)
  <2> HIDE DEF w, new
  <2> QED BY <1>1, <1>4 DEF Regular, Listed, SlotsOf
<1> QED BY <1>4, <1>5, <1>6

LEMMA AgentRemoved ==
  ASSUME NEW r \in Sessions, Regular(r), NEW b \in Branches
  PROVE  /\ Without(r, b) \in Sessions /\ Regular(Without(r, b))
         /\ Listed(Without(r, b)) = Listed(r) \ {b}
         /\ Without(r, b).agents = {e \in r.agents : e.branch # b}
<1> DEFINE w == Without(r, b)
           Rest == {e \in r.agents : e.branch # b}
<1>1. w = [r EXCEPT !.agents = Rest] /\ Rest \in SUBSET Entries
  BY DEF Without, Sessions
<1>2. w \in Sessions /\ w.agents = Rest /\ w # Nothing /\ r # Nothing
  <2> HIDE DEF w, Rest
  <2> QED BY <1>1, AgentsReplaced
<1> HIDE DEF w
<1>3. Regular(w) /\ Listed(w) = Listed(r) \ {b}
  BY <1>2 DEF Listed, Regular
<1> QED BY <1>2, <1>3 DEF w

LEMMA StatusSet ==
  ASSUME NEW r \in Sessions, Regular(r), NEW s \in SessionStatuses
  PROVE  LET w == [r EXCEPT !.status = s]
         IN  /\ w \in Sessions /\ Regular(w) /\ Listed(w) = Listed(r)
             /\ w.agents = r.agents /\ w.status = s
<1> DEFINE w == [r EXCEPT !.status = s]
<1>1. w \in Sessions /\ w.agents = r.agents /\ w.status = s
  BY DEF Sessions
<1>2. r # Nothing /\ w # Nothing
  BY <1>1, NothingAssumption
<1> QED BY <1>1, <1>2 DEF Listed, Regular

LEMMA PromptsCleared ==
  ASSUME NEW r \in Sessions, Regular(r), NEW done
  PROVE  LET w == Cleared(r, done)
         IN  /\ w \in Sessions /\ Regular(w) /\ Listed(w) = Listed(r)
             /\ w.agents = {[e EXCEPT !.held = e.held /\ e.branch \notin done] : e \in r.agents}
             /\ w.status = r.status
<1> DEFINE w == Cleared(r, done)
           Clear(e) == [e EXCEPT !.held = e.held /\ e.branch \notin done]
           All == {Clear(e) : e \in r.agents}
<1>1. w = [r EXCEPT !.agents = All]
  BY DEF Cleared
<1>2. \A e \in Entries : /\ Clear(e) \in Entries /\ Clear(e).branch = e.branch
                           /\ Clear(e).slot = e.slot
  BY DEF Entries
<1>3. r.agents \subseteq Entries
  BY DEF Sessions
<1>4. All \in SUBSET Entries
  BY <1>2, <1>3
<1>5. w \in Sessions /\ w.agents = All /\ w.status = r.status /\ w # Nothing /\ r # Nothing
  <2> HIDE DEF w, All
  <2> QED BY <1>1, <1>4, AgentsReplaced
<1> HIDE DEF Clear, w
<1>6. Regular(w)
  BY <1>2, <1>3, <1>4, <1>5 DEF Regular
<1>7. Listed(w) = Listed(r)
  BY <1>2, <1>3, <1>4, <1>5 DEF Listed
<1> QED BY <1>5, <1>6, <1>7 DEF Clear, w

LEMMA SlotZero ==
  ASSUME NEW b \in Branches
  PROVE  0 \in Slots
<1>1. IsFiniteSet(Branches) /\ Branches # {}
  BY BranchesAssumption
<1> QED BY <1>1, FS_CardinalityType, FS_EmptySet DEF Slots

LEMMA LaunchedOne ==
  ASSUME NEW b \in Branches
  PROVE  /\ Launched(b) \in Sessions /\ Regular(Launched(b))
         /\ Listed(Launched(b)) = {b}
         /\ Launched(b).agents = {[branch |-> b, slot |-> 0, held |-> FALSE]}
<1> DEFINE w == Launched(b)
           first == [branch |-> b, slot |-> 0, held |-> FALSE]
<1>1. 0 \in Slots
  BY SlotZero
<1>2. w \in Sessions /\ w.agents = {first}
  BY <1>1 DEF Launched, Sessions, SessionStatuses, Entries
<1>3. w # Nothing
  BY <1>2, NothingAssumption
<1> QED BY <1>2, <1>3 DEF Listed, Regular

-----------------------------------------------------------------------------
\* The state and what every command knows are of their type.
Known(k) == k \in CommandRecords /\ (k = Idle \/ (Steady(k) /\ Copied(k)))
WorldType == /\ stored \in SavedReceipts /\ tmux \in BOOLEAN /\ panes \subseteq Branches
             /\ work \in [Branches -> Slots \union {Nothing}] /\ asked \subseteq Branches
             /\ addLock \in Callers \union {Nothing, Dead}
             /\ begun \in 0 .. MaxCommands /\ mishaps \subseteq Mishaps
             /\ kept \subseteq Branches
ReceiptInv == ReceiptTypeOK /\ CopyInv

LEMMA ReceiptParts ==
  /\ ReceiptInv <=> /\ WorldType /\ Regular(stored)
                    /\ cmd \in [Callers -> CommandRecords]
                    /\ \A c \in Callers : Known(cmd[c])
  /\ ReceiptInv' <=> /\ WorldType' /\ Regular(stored')
                     /\ cmd' \in [Callers -> CommandRecords]
                     /\ \A c \in Callers : Known(cmd'[c])
BY DEF ReceiptInv, WorldType, CopyInv, CommandInv, Known, ReceiptTypeOK

LEMMA IdleKnown == Known(Idle)
BY DEF Known, Idle, CommandRecords, CommandSteps, SavedReceipts

\* One command moves on, and the rest of the state stays of its type.
LEMMA OneMoves ==
  ASSUME ReceiptInv, NEW c \in Callers, NEW k, Known(k), cmd' = [cmd EXCEPT ![c] = k],
         WorldType', Regular(stored')
  PROVE  ReceiptInv'
<1>1. cmd \in [Callers -> CommandRecords] /\ \A d \in Callers : Known(cmd[d])
  BY ReceiptParts
<1>2. cmd' \in [Callers -> CommandRecords]
  BY <1>1 DEF Known
<1>3. \A d \in Callers : cmd'[d] = IF d = c THEN k ELSE cmd[d]
  BY <1>1
<1> QED
  BY <1>1, <1>2, <1>3, ReceiptParts

\* What is known of a command that is under way.
LEMMA UnderWay ==
  ASSUME ReceiptInv, NEW c \in Callers, cmd[c].at # "idle"
  PROVE  /\ WorldType /\ Regular(stored)
         /\ cmd[c] \in CommandRecords /\ Steady(cmd[c]) /\ Copied(cmd[c])
BY ReceiptParts DEF Known, Idle

LEMMA SteadyAt ==
  ASSUME NEW k \in CommandRecords, NEW step \in CommandSteps
  PROVE  LET n == [k EXCEPT !.at = step]
         IN  /\ n \in CommandRecords /\ n.at = step /\ n.kind = k.kind
             /\ n.branch = k.branch /\ n.seen = k.seen /\ n.base = k.base
BY DEF CommandRecords

LEMMA Noted ==
  ASSUME WorldType, NEW c \in Callers, NEW more \in SUBSET Mishaps, Notes(c, more)
  PROVE  mishaps' \subseteq Mishaps
BY DEF WorldType, Notes, Mishaps

\* A command that only goes on to its next step.
LEMMA GoesOn ==
  ASSUME ReceiptInv, NEW c \in Callers, cmd[c].at # "idle", NEW step \in CommandSteps,
         Goto(c, step), WorldType', UNCHANGED stored,
         LET k == [cmd[c] EXCEPT !.at = step] IN Steady(k) /\ Copied(k)
  PROVE  ReceiptInv'
<1> DEFINE k == [cmd[c] EXCEPT !.at = step]
<1>1. cmd' = [cmd EXCEPT ![c] = k]
  BY ReceiptParts DEF Goto
<1>2. Known(k) /\ Regular(stored')
  BY UnderWay, SteadyAt DEF Known
<1> HIDE DEF k
<1> QED BY <1>1, <1>2, OneMoves

LEMMA Ends ==
  ASSUME ReceiptInv, NEW c \in Callers, Done(c), WorldType', Regular(stored')
  PROVE  ReceiptInv'
BY IdleKnown, OneMoves DEF Done

\* A command that has just read the receipt.
LEMMA Begins ==
  ASSUME ReceiptInv, NEW c \in Callers, NEW kind \in Kinds, NEW step \in CommandSteps,
         NEW b \in Branches \union {Nothing}, Be(c, kind, step, b), UNCHANGED stored,
         LET k == [kind |-> kind, at |-> step, branch |-> b, seen |-> stored, base |-> stored]
         IN  Steady(k) /\ Copied(k),
         UNCHANGED <<tmux, panes, work, asked, addLock>>, begun' \in 0 .. MaxCommands,
         kept' \subseteq Branches
  PROVE  ReceiptInv'
<1> DEFINE k == [kind |-> kind, at |-> step, branch |-> b, seen |-> stored, base |-> stored]
<1>1. WorldType /\ Regular(stored)
  BY ReceiptParts
<1>2. k \in CommandRecords
  BY <1>1 DEF CommandRecords, WorldType
<1>3. cmd' = [cmd EXCEPT ![c] = k] /\ Known(k)
  BY <1>2 DEF Be, Known
<1>4. WorldType' /\ Regular(stored')
  <2>1. mishaps' \subseteq Mishaps
    BY <1>1 DEF WorldType, Be, Mishaps
  <2> QED BY <1>1, <2>1 DEF WorldType
<1> HIDE DEF k
<1> QED BY <1>3, <1>4, OneMoves

LEMMA BegunCounted ==
  ASSUME WorldType, Started
  PROVE  begun' \in 0 .. MaxCommands
BY BoundAssumption DEF WorldType, Started

LEMMA AddBegins ==
  ASSUME ReceiptInv, NEW c \in Callers, NEW b \in Branches,
         AddReads(c, b) \/ RemoveReads(c, b)
  PROVE  ReceiptInv'
<1>1. WorldType /\ Regular(stored)
  BY ReceiptParts
<1>2. begun' \in 0 .. MaxCommands
  BY BegunCounted, <1>1 DEF AddReads, RemoveReads
<1>3. stored \in Sessions
  BY <1>1 DEF AddReads, RemoveReads, Listed, WorldType, SavedReceipts
<1>4. CASE AddReads(c, b)
  <2> DEFINE k == [kind |-> "add", at |-> "lock", branch |-> b,
                   seen |-> stored, base |-> stored]
  <2>1. Steady(k) /\ Copied(k)
    BY <1>1, <1>3, <1>4 DEF Steady, Copied, Locked, AddReads, Duplicate
  <2>2. /\ Be(c, "add", "lock", b) /\ UNCHANGED <<stored, tmux, panes, work, asked, addLock>>
        /\ kept' \subseteq Branches /\ "add" \in Kinds /\ "lock" \in CommandSteps
    BY <1>1, <1>4 DEF AddReads, Disk, Screen, WorldType, Kinds, CommandSteps
  <2> QED BY <1>2, <2>1, <2>2, Begins
<1>5. CASE RemoveReads(c, b)
  <2> DEFINE k == [kind |-> "remove", at |-> "lock", branch |-> b,
                   seen |-> stored, base |-> stored]
  <2>1. Steady(k) /\ Copied(k)
    BY <1>1, <1>3 DEF Steady, Copied, Locked
  <2>2. /\ Be(c, "remove", "lock", b)
        /\ UNCHANGED <<stored, tmux, panes, work, asked, addLock>>
        /\ kept' \subseteq Branches /\ "remove" \in Kinds /\ "lock" \in CommandSteps
    BY <1>1, <1>5 DEF RemoveReads, Screen, WorldType, Kinds, CommandSteps
  <2> QED BY <1>2, <2>1, <2>2, Begins
<1> QED BY <1>4, <1>5

LEMMA StopBegins ==
  ASSUME ReceiptInv, NEW c \in Callers,
         StopReads(c) \/ PauseReads(c) \/ PurgeReads(c)
  PROVE  ReceiptInv'
<1> DEFINE k(kind, step) == [kind |-> kind, at |-> step, branch |-> Nothing,
                             seen |-> stored, base |-> stored]
<1>1. WorldType /\ Regular(stored)
  BY ReceiptParts
<1>2. begun' \in 0 .. MaxCommands
  BY BegunCounted, <1>1 DEF StopReads, PauseReads, PurgeReads
<1>3. stored \in Sessions
  BY <1>1 DEF StopReads, PauseReads, PurgeReads, WorldType, SavedReceipts
<1>4. /\ UNCHANGED <<stored, tmux, panes, work, asked, addLock>> /\ kept' \subseteq Branches
      /\ \/ Be(c, "stop", "kill", Nothing) \/ Be(c, "pause", "save", Nothing)
         \/ Be(c, "purge", "kill", Nothing)
  BY <1>1 DEF StopReads, PauseReads, PurgeReads, Disk, Screen, WorldType
<1>5. /\ Steady(k("stop", "kill")) /\ Copied(k("stop", "kill"))
      /\ Steady(k("pause", "save")) /\ Copied(k("pause", "save"))
      /\ Steady(k("purge", "kill")) /\ Copied(k("purge", "kill"))
  BY <1>1, <1>3 DEF Steady, Copied, Locked
<1>6. {"stop", "pause", "purge"} \subseteq Kinds /\ {"kill", "save"} \subseteq CommandSteps
  BY DEF Kinds, CommandSteps
<1> QED BY <1>2, <1>4, <1>5, <1>6, Begins

\* The first step of a start, by what it read.
LEMMA StartWays ==
  ASSUME WorldType, Ways(stored) # "idle"
  PROVE  \/ Ways(stored) = "launch" /\ stored = Nothing
         \/ Ways(stored) = "detach" /\ stored \in Sessions /\ ~tmux
         \/ Ways(stored) = "host" /\ stored \in Sessions /\ stored.status = "paused"
         \/ Ways(stored) = "close" /\ stored \in Sessions
BY DEF Ways, StaleReceipt, EffectiveStatus, WorldType, SavedReceipts

LEMMA StartBegins ==
  ASSUME ReceiptInv, NEW c \in Callers, StartReads(c)
  PROVE  ReceiptInv'
<1> DEFINE k == [kind |-> "start", at |-> Ways(stored), branch |-> Nothing,
                 seen |-> stored, base |-> stored]
<1>1. WorldType /\ Regular(stored)
  BY ReceiptParts
<1>2. begun' \in 0 .. MaxCommands
  BY BegunCounted, <1>1 DEF StartReads
<1>3. Steady(k) /\ Copied(k) /\ Ways(stored) \in CommandSteps
  <2>1. Ways(stored) # "idle"
    BY DEF StartReads
  <2>2. "start" \notin {"add", "remove", "stop", "pause", "purge"}
    OBVIOUS
  <2>3. Regular(stored) /\ ~Locked("start")
    BY <1>1 DEF Locked
  <2> QED BY <1>1, <2>1, <2>3, StartWays DEF Steady, Copied, CommandSteps
<1>4. /\ Be(c, "start", Ways(stored), Nothing) /\ "start" \in Kinds
      /\ UNCHANGED <<stored, tmux, panes, work, asked, addLock>> /\ kept' \subseteq Branches
  BY <1>1 DEF StartReads, Disk, Screen, WorldType, Kinds
<1> QED BY <1>2, <1>3, <1>4, Begins

\* A command that writes r to the receipt and goes on to its next step.
LEMMA WritesOn ==
  ASSUME ReceiptInv, NEW c \in Callers, cmd[c].at # "idle", NEW step \in CommandSteps,
         NEW r \in SavedReceipts, Regular(r), Saved(c, r, step), WorldType',
         LET k == [cmd[c] EXCEPT !.at = step, !.base = r] IN Steady(k) /\ Copied(k)
  PROVE  ReceiptInv'
<1> DEFINE k == [cmd[c] EXCEPT !.at = step, !.base = r]
<1>1. cmd' = [cmd EXCEPT ![c] = k] /\ stored' = r
  BY ReceiptParts DEF Saved, Put
<1>2. k \in CommandRecords
  BY UnderWay DEF CommandRecords
<1>3. Known(k) /\ Regular(stored')
  BY <1>1, <1>2 DEF Known
<1> HIDE DEF k
<1> QED BY <1>1, <1>3, OneMoves

LEMMA ReceiptIsRecord == ASSUME NEW r \in Sessions PROVE r \in SavedReceipts
BY DEF SavedReceipts

LEMMA AddKeepsType ==
  ASSUME ReceiptInv, NEW c \in Callers,
         Lock(c) \/ Attach(c) \/ Spawn(c) \/ AddSaves(c) \/ Gate(c)
  PROVE  ReceiptInv'
<1> DEFINE k == cmd[c]
<1>1. k.at # "idle"
  BY DEF Lock, Attach, Spawn, AddSaves, Gate, Doing
<1>2. WorldType /\ Regular(stored) /\ k \in CommandRecords /\ Steady(k) /\ Copied(k)
  BY <1>1, UnderWay
<1>3. \A step \in CommandSteps :
         LET n == [k EXCEPT !.at = step]
         IN  /\ n \in CommandRecords /\ n.at = step /\ n.kind = k.kind
             /\ n.branch = k.branch /\ n.seen = k.seen /\ n.base = k.base
  BY <1>2, SteadyAt
<1>4. {"attach", "spawn", "kill", "save", "gate"} \subseteq CommandSteps
  BY DEF CommandSteps
<1>5. k.kind = "add" => /\ k.seen \in Sessions /\ Regular(k.seen) /\ k.branch \in Branches
                        /\ k.branch \notin Listed(k.seen)
  BY <1>2 DEF Copied, Locked
<1> HIDE DEF k
<1>6. CASE Lock(c)
  <2>1. /\ k.at = "lock" /\ Locked(k.kind) /\ UNCHANGED <<stored, tmux, panes, work, asked>>
        /\ UNCHANGED <<kept, begun, mishaps>>
    BY <1>2, <1>6 DEF Lock, Disk, Screen, Steady, Locked, k
  <2>2. addLock' \in {c, addLock}
    BY <1>6 DEF Lock
  <2>3. WorldType'
    BY <1>2, <2>1, <2>2 DEF WorldType
  <2>4. CASE k.kind = "add" /\ Goto(c, "attach")
    <3>1. LET n == [k EXCEPT !.at = "attach"] IN Steady(n) /\ Copied(n)
      BY <1>2, <1>3, <1>4, <2>1, <2>4 DEF Steady, Copied, Locked
    <3> QED BY <1>1, <1>4, <2>1, <2>3, <2>4, <3>1, GoesOn DEF k
  <2>5. CASE k.kind = "remove" /\ Goto(c, "kill")
    <3>1. LET n == [k EXCEPT !.at = "kill"] IN Steady(n) /\ Copied(n)
      BY <1>2, <1>3, <1>4, <2>1, <2>5 DEF Steady, Copied, Locked
    <3> QED BY <1>1, <1>4, <2>1, <2>3, <2>5, <3>1, GoesOn DEF k
  <2>6. CASE Done(c)
    BY <1>2, <2>1, <2>3, <2>6, Ends
  <2> QED
    BY <1>6, <2>1, <2>4, <2>5, <2>6 DEF Lock, Locked, k
<1>7. CASE Attach(c)
  <2>1. /\ k.kind = "add" /\ k.at = "attach"
        /\ UNCHANGED <<stored, tmux, panes, asked, begun, kept>>
        /\ work' \in {work, [work EXCEPT ![k.branch] = AllocateSlot(k.seen)]}
        /\ \/ Goto(c, "spawn") /\ Notes(c, {}) /\ UNCHANGED addLock
           \/ Notes(c, {"pane"}) /\ Unlock /\ Done(c)
    BY <1>7 DEF Attach, Doing, Acts, Screen, Worktree, k
  <2>2. AllocateSlot(k.seen) \in Slots
    BY <1>5, <2>1, AllocateFree
  <2>5. addLock' \in {addLock, Nothing} /\ {"pane"} \subseteq Mishaps
    BY <2>1 DEF Unlock, Mishaps
  <2>3. WorldType'
    BY <1>2, <2>1, <2>2, <2>5, Noted DEF WorldType
  <2>4. LET n == [k EXCEPT !.at = "spawn"] IN Steady(n) /\ Copied(n)
    BY <1>2, <1>3, <1>4, <2>1 DEF Steady, Copied, Locked
  <2> QED BY <1>1, <1>2, <1>4, <2>1, <2>3, <2>4, GoesOn, Ends DEF k
<1>8. CASE Spawn(c)
  <2>1. /\ k.kind = "add" /\ k.at = "spawn" /\ UNCHANGED <<stored, work, asked, kept, tmux, begun>>
        /\ \/ /\ panes' = panes \union {k.branch} /\ Goto(c, "save") /\ Notes(c, {})
              /\ UNCHANGED addLock
           \/ Notes(c, {"pane"}) /\ Unlock /\ Done(c) /\ UNCHANGED panes
    BY <1>8 DEF Spawn, Doing, Acts, Disk, k
  <2>2. addLock' \in {addLock, Nothing} /\ panes' \subseteq Branches
    BY <1>2, <1>5, <2>1 DEF Unlock, WorldType
  <2>3. {"pane"} \subseteq Mishaps
    BY DEF Mishaps
  <2>4. WorldType'
    BY <1>2, <2>1, <2>2, <2>3, Noted DEF WorldType
  <2>5. LET n == [k EXCEPT !.at = "save"] IN Steady(n) /\ Copied(n)
    BY <1>2, <1>3, <1>4, <2>1 DEF Steady, Copied, Locked
  <2> QED BY <1>1, <1>2, <1>4, <2>1, <2>4, <2>5, GoesOn, Ends DEF k
<1>9. CASE AddSaves(c)
  <2> DEFINE r == WithAgent(k.seen, k.branch)
  <2>1. /\ k.kind = "add" /\ k.at = "save" /\ UNCHANGED <<work, tmux, panes, kept, begun>>
        /\ asked' = asked \ {k.branch}
        /\ \/ Put(c, r) /\ Unlock /\ Done(c)
           \/ Saved(c, r, "gate") /\ UNCHANGED addLock
    BY <1>9 DEF AddSaves, Doing, Screen, k
  <2>2. r \in SavedReceipts /\ Regular(r)
    BY <1>5, <2>1, AgentAdded DEF SavedReceipts
  <2> HIDE DEF r
  <2>3. stored' = r /\ addLock' \in {addLock, Nothing} /\ Notes(c, {})
    BY <2>1 DEF Put, Saved, Acts, Unlock
  <2>4. WorldType'
    BY <1>2, <2>1, <2>2, <2>3, Noted DEF WorldType
  <2>5. LET n == [k EXCEPT !.at = "gate", !.base = r] IN Steady(n) /\ Copied(n)
    <3> DEFINE n == [k EXCEPT !.at = "gate", !.base = r]
    <3>1. /\ n.at = "gate" /\ n.kind = k.kind /\ n.branch = k.branch /\ n.seen = k.seen
      BY <1>2 DEF CommandRecords
    <3> HIDE DEF n
    <3>2. Steady(n) /\ Copied(n)
      BY <1>2, <2>1, <3>1 DEF Steady, Copied, Locked
    <3> QED BY <3>2 DEF n
  <2> QED BY <1>1, <1>4, <2>1, <2>2, <2>3, <2>4, <2>5, WritesOn, Ends DEF k
<1>10. CASE Gate(c)
  <2>1. /\ k.kind = "add" /\ Unlock /\ Done(c)
        /\ UNCHANGED <<stored, work, tmux, panes, kept, begun>>
        /\ asked' \in {asked, asked \union {k.branch}}
        /\ Notes(c, {}) \/ Notes(c, {"pane"})
    BY <1>10 DEF Gate, Doing, Screen, Acts, k
  <2>2. addLock' \in {addLock, Nothing} /\ {"pane"} \subseteq Mishaps
    BY <2>1 DEF Unlock, Mishaps
  <2>3. WorldType'
    BY <1>2, <1>5, <2>1, <2>2, Noted DEF WorldType
  <2> QED BY <1>2, <2>1, <2>3, Ends
<1> QED BY <1>6, <1>7, <1>8, <1>9, <1>10

LEMMA RemoveKeepsType ==
  ASSUME ReceiptInv, NEW c \in Callers,
         RemoveKills(c) \/ RemoveDetaches(c) \/ RemoveSaves(c)
  PROVE  ReceiptInv'
<1> DEFINE k == cmd[c]
<1>1. k.at # "idle"
  BY DEF RemoveKills, RemoveDetaches, RemoveSaves, Doing
<1>2. WorldType /\ Regular(stored) /\ k \in CommandRecords /\ Steady(k) /\ Copied(k)
  BY <1>1, UnderWay
<1>3. \A step \in CommandSteps :
         LET n == [k EXCEPT !.at = step]
         IN  /\ n \in CommandRecords /\ n.at = step /\ n.kind = k.kind
             /\ n.branch = k.branch /\ n.seen = k.seen /\ n.base = k.base
  BY <1>2, SteadyAt
<1>4. {"detach", "save"} \subseteq CommandSteps
  BY DEF CommandSteps
<1>5. k.kind = "remove" /\ k.seen \in Sessions /\ Regular(k.seen) /\ k.branch \in Branches
  BY <1>2 DEF RemoveKills, RemoveDetaches, RemoveSaves, Doing, Copied, Locked
<1> HIDE DEF k
<1>6. CASE RemoveKills(c)
  <2>1. /\ k.at = "kill" /\ Goto(c, "detach") /\ Notes(c, {}) /\ panes' = panes \ {k.branch}
        /\ UNCHANGED <<stored, work, asked, kept, tmux, addLock, begun>>
    BY <1>6 DEF RemoveKills, Doing, Acts, Disk, k
  <2>2. WorldType'
    BY <1>2, <2>1, Noted DEF WorldType
  <2>3. LET n == [k EXCEPT !.at = "detach"] IN Steady(n) /\ Copied(n)
    BY <1>2, <1>3, <1>4, <1>5, <2>1 DEF Steady, Copied, Locked
  <2> QED BY <1>1, <1>4, <2>1, <2>2, <2>3, GoesOn DEF k
<1>7. CASE RemoveDetaches(c)
  <2>1. /\ k.at = "detach" /\ Goto(c, "save") /\ Notes(c, {})
        /\ work' \in {work, [work EXCEPT ![k.branch] = Nothing]}
        /\ UNCHANGED <<stored, tmux, panes, asked, kept, addLock, begun>>
    BY <1>7 DEF RemoveDetaches, Doing, Acts, Screen, Worktree, k
  <2>2. WorldType'
    BY <1>2, <2>1, Noted DEF WorldType
  <2>3. LET n == [k EXCEPT !.at = "save"] IN Steady(n) /\ Copied(n)
    BY <1>2, <1>3, <1>4, <1>5, <2>1 DEF Steady, Copied, Locked
  <2> QED BY <1>1, <1>4, <2>1, <2>2, <2>3, GoesOn DEF k
<1>8. CASE RemoveSaves(c)
  <2> DEFINE r == Without(k.seen, k.branch)
  <2>1. /\ stored' = r /\ Notes(c, {}) /\ Unlock /\ Done(c)
        /\ UNCHANGED <<work, asked, kept, tmux, panes, begun>>
    BY <1>8 DEF RemoveSaves, Put, Acts, Screen, k
  <2>2. r \in SavedReceipts /\ Regular(r)
    BY <1>5, AgentRemoved DEF SavedReceipts
  <2> HIDE DEF r
  <2>3. addLock' \in {addLock, Nothing}
    BY <2>1 DEF Unlock
  <2>4. WorldType'
    BY <1>2, <2>1, <2>2, <2>3, Noted DEF WorldType
  <2> QED BY <2>1, <2>2, <2>4, Ends
<1> QED BY <1>6, <1>7, <1>8

LEMMA StopKeepsType ==
  ASSUME ReceiptInv, NEW c \in Callers,
         \/ Kills(c) \/ StopSaves(c) \/ PauseSaves(c) \/ Detaches(c) \/ Deletes(c)
  PROVE  ReceiptInv'
<1> DEFINE k == cmd[c]
<1>1. k.at # "idle"
  BY DEF Kills, StopSaves, PauseSaves, Detaches, Deletes, Doing
<1>2. WorldType /\ Regular(stored) /\ k \in CommandRecords /\ Steady(k) /\ Copied(k)
  BY <1>1, UnderWay
<1>3. \A step \in CommandSteps :
         LET n == [k EXCEPT !.at = step]
         IN  /\ n \in CommandRecords /\ n.at = step /\ n.kind = k.kind
             /\ n.branch = k.branch /\ n.seen = k.seen /\ n.base = k.base
  BY <1>2, SteadyAt
<1>4. {"detach", "save", "delete", "launch"} \subseteq CommandSteps
  BY DEF CommandSteps
<1>5. Nothing \in SavedReceipts /\ Regular(Nothing)
  BY DEF SavedReceipts, Regular
<1> HIDE DEF k
<1>6. CASE Kills(c)
  <2>1. /\ k.kind \in {"stop", "purge"} /\ k.at = "kill"
        /\ Goto(c, IF k.kind = "stop" THEN "save" ELSE "detach")
        /\ Notes(c, {}) /\ tmux' = FALSE /\ panes' = {}
        /\ UNCHANGED <<stored, work, asked, kept, addLock, begun>>
    BY <1>6 DEF Kills, NoWindow, Acts, Disk, k
  <2>2. WorldType'
    BY <1>2, <2>1, Noted DEF WorldType
  <2>3. CASE k.kind = "stop"
    <3>1. LET n == [k EXCEPT !.at = "save"] IN Steady(n) /\ Copied(n)
      BY <1>2, <1>3, <1>4, <2>1, <2>3 DEF Steady, Copied, Locked
    <3> QED BY <1>1, <1>4, <2>1, <2>2, <2>3, <3>1, GoesOn DEF k
  <2>4. CASE k.kind = "purge"
    <3>1. LET n == [k EXCEPT !.at = "detach"] IN Steady(n) /\ Copied(n)
      BY <1>2, <1>3, <1>4, <2>1, <2>4 DEF Steady, Copied, Locked
    <3>2. Goto(c, "detach")
      BY <2>1, <2>4
    <3> QED BY <1>1, <1>4, <2>1, <2>2, <3>1, <3>2, GoesOn DEF k
  <2> QED BY <2>1, <2>3, <2>4
<1>7. CASE StopSaves(c) \/ PauseSaves(c)
  <2>1. PICK s \in SessionStatuses : stored' = [k.seen EXCEPT !.status = s]
    BY <1>7 DEF StopSaves, PauseSaves, Put, SessionStatuses, k
  <2>2. k.kind \in {"stop", "pause"}
    BY <1>7 DEF StopSaves, PauseSaves, Doing, k
  <2>3. k.seen \in Sessions /\ Regular(k.seen)
    BY <1>2, <2>2 DEF Copied
  <2>4. stored' \in Sessions /\ Regular(stored')
    BY <2>1, <2>3, StatusSet
  <2>5. /\ Notes(c, {}) /\ Done(c) /\ UNCHANGED <<work, asked, tmux, panes, addLock, begun>>
    BY <1>7 DEF StopSaves, PauseSaves, Put, Acts, Screen
  <2>6. kept' \subseteq Branches
    <3>1. Listed(k.seen) \subseteq Branches
      BY <2>3 DEF Listed, Sessions, Entries
    <3> QED BY <1>2, <1>7, <3>1 DEF StopSaves, PauseSaves, WorldType, k
  <2>7. WorldType'
    BY <1>2, <2>4, <2>5, <2>6, Noted, ReceiptIsRecord DEF WorldType
  <2> QED BY <2>4, <2>5, <2>7, Ends
<1>8. CASE Detaches(c)
  <2>1. /\ k.kind \in {"purge", "start"} /\ k.at = "detach" /\ Goto(c, "delete")
        /\ Notes(c, {}) /\ UNCHANGED <<stored, asked, kept, tmux, panes, addLock, begun>>
        /\ \E gone \in SUBSET Listed(k.seen) :
             work' = [b \in Branches |-> IF b \in gone THEN Nothing ELSE work[b]]
    BY <1>8 DEF Detaches, Acts, Screen, k
  <2>2. WorldType'
    BY <1>2, <2>1, Noted DEF WorldType
  <2>3. LET n == [k EXCEPT !.at = "delete"] IN Steady(n) /\ Copied(n)
    BY <1>2, <1>3, <1>4, <2>1 DEF Steady, Copied, Locked
  <2> QED BY <1>1, <1>4, <2>1, <2>2, <2>3, GoesOn DEF k
<1>9. CASE Deletes(c)
  <2>1. /\ k.at = "delete" /\ stored' = Nothing /\ Notes(c, {})
        /\ UNCHANGED <<work, asked, kept, tmux, panes, addLock, begun>>
        /\ \/ k.kind = "start" /\ Saved(c, Nothing, "launch")
           \/ Done(c)
    BY <1>9 DEF Deletes, Saved, Put, Acts, Screen, k
  <2>2. WorldType'
    BY <1>2, <1>5, <2>1, Noted DEF WorldType
  <2>3. CASE k.kind = "start" /\ Saved(c, Nothing, "launch")
    <3> DEFINE n == [k EXCEPT !.at = "launch", !.base = Nothing]
    <3>1. /\ n.at = "launch" /\ n.kind = k.kind /\ n.seen = k.seen /\ n.base = Nothing
      BY <1>2 DEF CommandRecords
    <3> HIDE DEF n
    <3>2. Steady(n) /\ Copied(n)
      BY <1>2, <2>3, <3>1 DEF Steady, Copied, Locked
    <3> QED BY <1>1, <1>4, <1>5, <2>2, <2>3, <3>2, WritesOn DEF k, n
  <2> QED BY <1>5, <2>1, <2>2, <2>3, Ends
<1> QED BY <1>6, <1>7, <1>8, <1>9

LEMMA LaunchKeepsType ==
  ASSUME ReceiptInv, NEW c \in Callers,
         (\E b \in Branches : FreshLaunch(c, b)) \/ LaunchElsewhere(c)
  PROVE  ReceiptInv'
<1>1. WorldType /\ Regular(stored)
  BY ReceiptParts
<1>2. CASE \E b \in Branches : FreshLaunch(c, b)
  <2>1. PICK b \in Branches : FreshLaunch(c, b)
    BY <1>2
  <2>2. /\ tmux' = TRUE /\ panes' = {b} /\ asked' = {b} /\ work' = [work EXCEPT ![b] = 0]
        /\ stored' = Launched(b) /\ Notes(c, {}) /\ Done(c)
        /\ UNCHANGED <<kept, addLock, begun>>
    BY <2>1 DEF FreshLaunch, Put, Acts, Worktree
  <2>3. stored' \in Sessions /\ Regular(stored')
    BY <2>2, LaunchedOne
  <2>4. 0 \in Slots
    BY SlotZero
  <2>5. WorldType'
    BY <1>1, <2>2, <2>3, <2>4, Noted, ReceiptIsRecord DEF WorldType
  <2> QED BY <2>2, <2>3, <2>5, Ends
<1>3. CASE LaunchElsewhere(c)
  <2>1. /\ Done(c) /\ WorldType' /\ UNCHANGED stored
    BY <1>1, <1>3 DEF LaunchElsewhere, Disk, Screen, WorldType
  <2> QED BY <1>1, <2>1, Ends
<1> QED BY <1>2, <1>3

LEMMA RecoverKeepsType ==
  ASSUME ReceiptInv, NEW c \in Callers,
         RecoverCloses(c) \/ RecoverOpens(c) \/ RecoverHosts(c)
  PROVE  ReceiptInv'
<1> DEFINE k == cmd[c]
<1>1. k.kind = "start" /\ k.at \in {"close", "open", "host"}
  BY DEF RecoverCloses, RecoverOpens, RecoverHosts, Recovering, Doing
<1>2. WorldType /\ Regular(stored) /\ k \in CommandRecords /\ Steady(k) /\ Copied(k)
  BY <1>1, UnderWay
<1>3. \A step \in CommandSteps :
         LET n == [k EXCEPT !.at = step]
         IN  /\ n \in CommandRecords /\ n.at = step /\ n.kind = k.kind
             /\ n.branch = k.branch /\ n.seen = k.seen /\ n.base = k.base
  BY <1>2, SteadyAt
<1>4. {"open", "host"} \subseteq CommandSteps
  BY DEF CommandSteps
<1>5. k.seen \in Sessions /\ Regular(k.seen) /\ k.seen \in SavedReceipts
  BY <1>1, <1>2 DEF Copied, SavedReceipts
<1>6. Listed(k.seen) \subseteq Branches
  BY <1>5 DEF Listed, Sessions, Entries
<1> HIDE DEF k
<1>7. CASE RecoverCloses(c)
  <2> DEFINE r == [k.seen EXCEPT !.status = "active"]
  <2>1. /\ k.at = "close" /\ Saved(c, r, "open") /\ tmux' = FALSE /\ panes' = {}
        /\ UNCHANGED <<work, asked, kept, addLock, begun>>
    BY <1>7 DEF RecoverCloses, Doing, NoWindow, k
  <2>2. r \in SavedReceipts /\ Regular(r)
    BY <1>5, StatusSet DEF SavedReceipts, SessionStatuses
  <2>3. r = Reactivated(k.seen)
    BY DEF Reactivated
  <2> HIDE DEF r
  <2>4. stored' = r /\ Notes(c, {})
    BY <2>1 DEF Saved, Put, Acts
  <2>5. WorldType'
    BY <1>2, <2>1, <2>2, <2>4, Noted DEF WorldType
  <2> DEFINE n == [k EXCEPT !.at = "open", !.base = r]
  <2>6. /\ n.at = "open" /\ n.kind = k.kind /\ n.seen = k.seen /\ n.base = r
    BY <1>2 DEF CommandRecords
  <2> HIDE DEF n
  <2>7. Steady(n) /\ Copied(n)
    BY <1>1, <1>2, <1>5, <2>3, <2>6 DEF Steady, Copied, Locked
  <2> QED BY <1>1, <1>4, <2>1, <2>2, <2>5, <2>7, WritesOn DEF k, n
<1>8. CASE RecoverOpens(c)
  <2>1. /\ k.at = "open" /\ UNCHANGED <<stored, work, asked, kept, addLock, begun>>
        /\ tmux' \in {tmux, TRUE} /\ panes' \subseteq panes \union Listed(k.seen)
        /\ \/ Goto(c, "host") /\ Notes(c, {})
           \/ Notes(c, {"recovery"}) /\ Done(c)
    BY <1>8 DEF RecoverOpens, Doing, Acts, Disk, Screen, k
  <2>2. {"recovery"} \subseteq Mishaps
    BY DEF Mishaps
  <2>3. WorldType'
    BY <1>2, <1>6, <2>1, <2>2, Noted DEF WorldType
  <2>4. LET n == [k EXCEPT !.at = "host"] IN Steady(n) /\ Copied(n)
    BY <1>1, <1>2, <1>3, <1>4, <2>1 DEF Steady, Copied, Locked
  <2> QED BY <1>1, <1>2, <1>4, <2>1, <2>3, <2>4, GoesOn, Ends DEF k
<1>9. CASE RecoverHosts(c)
  <2>1. /\ UNCHANGED <<work, asked, addLock, begun>> /\ Notes(c, {}) /\ Done(c)
        /\ stored' \in {stored, k.seen} /\ kept' \subseteq kept /\ panes' \subseteq panes
        /\ tmux' \in {tmux, FALSE}
    BY <1>9 DEF RecoverHosts, Put, Acts, NoWindow, Screen, k
  <2>2. stored' \in SavedReceipts /\ Regular(stored')
    BY <1>2, <1>5, <2>1 DEF WorldType
  <2>3. WorldType'
    BY <1>2, <2>1, <2>2, Noted DEF WorldType
  <2> QED BY <2>1, <2>2, <2>3, Ends
<1> QED BY <1>7, <1>8, <1>9

LEMMA ResumeKeepsType ==
  ASSUME ReceiptInv, NEW c \in Callers,
         ResumeHosts(c) \/ ResumeSubmits(c) \/ ResumeSaves(c)
  PROVE  ReceiptInv'
<1> DEFINE k == cmd[c]
<1>1. k.kind = "start" /\ k.at \in {"host", "submit", "save"}
  BY DEF ResumeHosts, ResumeSubmits, ResumeSaves, Resuming, Doing
<1>2. WorldType /\ Regular(stored) /\ k \in CommandRecords /\ Steady(k) /\ Copied(k)
  BY <1>1, UnderWay
<1>3. {"submit", "save"} \subseteq CommandSteps
  BY DEF CommandSteps
<1>4. k.seen \in Sessions /\ Regular(k.seen) /\ k.seen \in SavedReceipts
  BY <1>1, <1>2 DEF Copied, SavedReceipts
<1> HIDE DEF k
<1>5. CASE ResumeHosts(c)
  <2>1. /\ stored' = k.seen /\ Notes(c, {})
        /\ Saved(c, k.seen, "submit") \/ Done(c)
        /\ UNCHANGED <<work, asked, kept, tmux, panes, addLock, begun>>
    BY <1>5 DEF ResumeHosts, Saved, Put, Acts, Screen, k
  <2>2. WorldType'
    BY <1>2, <1>4, <2>1, Noted DEF WorldType
  <2> DEFINE r == k.seen
             n == [k EXCEPT !.at = "submit", !.base = r]
  <2>3. /\ n.at = "submit" /\ n.kind = k.kind /\ n.seen = k.seen /\ n.base = k.seen
    BY <1>2 DEF CommandRecords
  <2> HIDE DEF n
  <2>4. Steady(n) /\ Copied(n)
    BY <1>1, <1>2, <1>4, <2>3 DEF Steady, Copied, Locked
  <2>5. CASE Saved(c, r, "submit")
    <3> HIDE DEF r
    <3>1. r \in SavedReceipts /\ Regular(r)
      BY <1>4 DEF r
    <3> QED BY <1>1, <1>3, <2>2, <2>4, <2>5, <3>1, WritesOn DEF k, n
  <2> QED BY <1>4, <2>1, <2>2, <2>5, Ends
<1>6. CASE ResumeSubmits(c)
  <2>1. PICK done \in SUBSET (Held(k.seen) \intersect panes) :
          /\ asked' = asked \union done
          /\ cmd' = [cmd EXCEPT ![c].at = "save", ![c].seen = Cleared(k.seen, done)]
    BY <1>6 DEF ResumeSubmits, k
  <2> DEFINE r == Cleared(k.seen, done)
             n == [k EXCEPT !.at = "save", !.seen = r]
  <2>2. r \in Sessions /\ Regular(r)
    BY <1>4, PromptsCleared
  <2>3. Notes(c, {}) /\ UNCHANGED <<stored, work, kept, tmux, panes, addLock, begun>>
    BY <1>6 DEF ResumeSubmits, Acts, Screen
  <2>4. WorldType'
    BY <1>2, <2>1, <2>3, Noted DEF WorldType
  <2>5. cmd' = [cmd EXCEPT ![c] = n]
    BY <2>1, ReceiptParts DEF k
  <2> HIDE DEF r
  <2>6. /\ n.at = "save" /\ n.kind = k.kind /\ n.seen = r /\ n \in CommandRecords
    BY <1>2, <1>3, <2>2, ReceiptIsRecord DEF CommandRecords
  <2> HIDE DEF n
  <2>7. Known(n)
    BY <1>1, <2>2, <2>6 DEF Known, Steady, Copied, Locked
  <2> QED BY <1>2, <2>3, <2>4, <2>5, <2>7, OneMoves
<1>7. CASE ResumeSaves(c)
  <2>1. /\ stored' = [k.seen EXCEPT !.status = "active"] /\ Notes(c, {}) /\ Done(c)
        /\ UNCHANGED <<work, asked, kept, tmux, panes, addLock, begun>>
    BY <1>7 DEF ResumeSaves, Put, Acts, Screen, k
  <2>2. stored' \in Sessions /\ Regular(stored')
    BY <1>4, <2>1, StatusSet DEF SessionStatuses
  <2>3. WorldType'
    BY <1>2, <2>1, <2>2, Noted, ReceiptIsRecord DEF WorldType
  <2> QED BY <2>1, <2>2, <2>3, Ends
<1> QED BY <1>5, <1>6, <1>7

LEMMA WorldKeepsType ==
  ASSUME ReceiptInv,
         (\E c \in Callers : Killed(c)) \/ TmuxDies \/ LockRemoved \/ UNCHANGED receiptVars
  PROVE  ReceiptInv'
<1>1. WorldType /\ Regular(stored)
  BY ReceiptParts
<1>2. ASSUME NEW c \in Callers, Killed(c) PROVE ReceiptInv'
  <2>1. /\ Done(c) /\ addLock' \in {addLock, Dead} /\ mishaps' = mishaps \union {"killed"}
        /\ UNCHANGED <<stored, work, asked, kept, tmux, panes, begun>>
    BY <1>2 DEF Killed, Disk, Screen
  <2>2. WorldType'
    BY <1>1, <2>1 DEF WorldType, Mishaps
  <2> QED BY <1>1, <2>1, <2>2, Ends
<1>3. CASE TmuxDies \/ LockRemoved \/ UNCHANGED receiptVars
  <2>1. /\ UNCHANGED <<stored, work, asked, kept, cmd, begun, mishaps>>
        /\ tmux' \in {tmux, FALSE} /\ panes' \subseteq panes /\ addLock' \in {addLock, Nothing}
    BY <1>3 DEF TmuxDies, LockRemoved, receiptVars, Disk, Screen, NoWindow
  <2>2. WorldType'
    BY <1>1, <2>1 DEF WorldType
  <2>3. stored' = stored /\ cmd' = cmd
    BY <2>1
  <2> QED BY <2>2, <2>3, ReceiptParts
<1> QED BY <1>2, <1>3

LEMMA ReceiptStep == ReceiptInv /\ [ReceiptNext]_receiptVars => ReceiptInv'
BY AddBegins, StopBegins, StartBegins, AddKeepsType, RemoveKeepsType, StopKeepsType,
   LaunchKeepsType, RecoverKeepsType, ResumeKeepsType, WorldKeepsType DEF ReceiptNext

LEMMA LaunchIsKnown == ReceiptInit => ReceiptInv
<1> SUFFICES ASSUME ReceiptInit PROVE ReceiptInv
  OBVIOUS
<1>1. PICK b \in Branches : /\ stored = Launched(b) /\ work = Worktrees(b)
                            /\ panes = {b} /\ asked = {b}
  BY DEF ReceiptInit
<1>2. 0 \in Slots
  BY SlotZero
<1>3. /\ stored \in Sessions /\ Regular(stored)
      /\ work \in [Branches -> Slots \union {Nothing}]
  BY <1>1, <1>2, LaunchedOne DEF Worktrees
<1>4. WorldType
  BY <1>1, <1>3, ReceiptIsRecord, BoundAssumption DEF WorldType, ReceiptInit
<1>5. Known(Idle) /\ cmd = [c \in Callers |-> Idle]
  BY IdleKnown DEF ReceiptInit
<1> QED BY <1>3, <1>4, <1>5, ReceiptParts DEF Known

(* The state is of its type (session.rs, lock.rs, commands/*.rs).             *)
THEOREM ReceiptTypeCorrect == ReceiptSpec => []ReceiptTypeOK
<1>1. ReceiptInv => ReceiptTypeOK
  BY DEF ReceiptInv
<1>2. ReceiptInit => ReceiptInv
  BY LaunchIsKnown
<1>3. ReceiptInv /\ [ReceiptNext]_receiptVars => ReceiptInv'
  BY ReceiptStep
<1> QED BY <1>1, <1>2, <1>3, PTL DEF ReceiptSpec

(* Whatever overlaps, is killed or acts by a copy that is old: the receipt    *)
(* never lists a branch twice and never gives a port slot to two of its       *)
(* entries (add.rs, remove.rs, worktree_provision.rs: allocate_slot).         *)
THEOREM NoEntryTwice == ReceiptSpec => []Regular(stored)
<1>1. ReceiptInv => Regular(stored)
  BY DEF ReceiptInv, CopyInv
<1>2. ReceiptInit => ReceiptInv
  BY LaunchIsKnown
<1>3. ReceiptInv /\ [ReceiptNext]_receiptVars => ReceiptInv'
  BY ReceiptStep
<1> QED BY <1>1, <1>2, <1>3, PTL DEF ReceiptSpec

-----------------------------------------------------------------------------
\* Who holds the lock, and what is left when the tmux session is gone.
Holding(k) == Locked(k.kind) /\ k.at \notin {"idle", "lock"}

LEMMA HolderMoves ==
  ASSUME ReceiptInv, HolderInv, NEW c \in Callers, NEW k, cmd' = [cmd EXCEPT ![c] = k],
         addLock' = c <=> Holding(k),
         \A d \in Callers \ {c} : addLock' = d <=> addLock = d
  PROVE  HolderInv'
<1>1. cmd \in [Callers -> CommandRecords]
  BY ReceiptParts
<1>2. \A d \in Callers : cmd'[d] = IF d = c THEN k ELSE cmd[d]
  BY <1>1
<1> QED BY <1>2 DEF HolderInv, Holding

\* The lock stays where it is while a command goes from step to step.
LEMMA HolderGoesOn ==
  ASSUME ReceiptInv, HolderInv, NEW c \in Callers, NEW k, cmd' = [cmd EXCEPT ![c] = k],
         Holding(k) <=> Holding(cmd[c]), UNCHANGED addLock
  PROVE  HolderInv'
BY HolderMoves DEF HolderInv, Holding

LEMMA HolderEnds ==
  ASSUME ReceiptInv, HolderInv, NEW c \in Callers, Done(c),
         (Holding(cmd[c]) /\ Unlock) \/ (addLock' = IF addLock = c THEN Dead ELSE addLock)
           \/ (~Holding(cmd[c]) /\ UNCHANGED addLock)
  PROVE  HolderInv'
<1>1. ~Holding(Idle)
  BY DEF Holding, Idle
<1>2. cmd' = [cmd EXCEPT ![c] = Idle]
  BY DEF Done
<1>3. Nothing \notin Callers /\ Dead \notin Callers
  BY NothingAssumption
<1>4. addLock' # c /\ \A d \in Callers \ {c} : addLock' = d <=> addLock = d
  BY <1>3 DEF Unlock, HolderInv, Holding
<1> QED BY <1>1, <1>2, <1>4, HolderMoves

LEMMA HolderBegins ==
  ASSUME ReceiptInv, HolderInv, NEW c \in Callers, NEW kind, NEW step, NEW b,
         cmd[c] = Idle, Be(c, kind, step, b), step = "lock" \/ ~Locked(kind),
         UNCHANGED addLock
  PROVE  HolderInv'
<1> DEFINE k == [kind |-> kind, at |-> step, branch |-> b, seen |-> stored, base |-> stored]
<1>1. ~Holding(k) /\ ~Holding(cmd[c])
  BY DEF Holding, Idle
<1>2. cmd' = [cmd EXCEPT ![c] = k]
  BY DEF Be
<1> HIDE DEF k
<1> QED BY <1>1, <1>2, HolderGoesOn

LEMMA HolderStep ==
  ASSUME ReceiptInv, HolderInv, [ReceiptNext]_receiptVars
  PROVE  HolderInv'
<1> USE DEF Doing
<1>1. ASSUME NEW c \in Callers, NEW b \in Branches, AddReads(c, b) \/ RemoveReads(c, b)
      PROVE  HolderInv'
  BY <1>1, HolderBegins DEF AddReads, RemoveReads
<1>2. ASSUME NEW c \in Callers,
             StopReads(c) \/ PauseReads(c) \/ PurgeReads(c) \/ StartReads(c)
      PROVE  HolderInv'
  <2>1. \A kind \in {"stop", "pause", "purge", "start"} : ~Locked(kind)
    BY DEF Locked
  <2> QED
    BY <1>2, <2>1, HolderBegins DEF StopReads, PauseReads, PurgeReads, StartReads
<1>3. ASSUME NEW c \in Callers, cmd[c].at # "idle", NEW step, Goto(c, step),
             step \notin {"idle", "lock"}, cmd[c].at # "lock" \/ ~Locked(cmd[c].kind),
             UNCHANGED addLock
      PROVE  HolderInv'
  <2> DEFINE k == [cmd[c] EXCEPT !.at = step]
  <2>1. cmd' = [cmd EXCEPT ![c] = k] /\ k.kind = cmd[c].kind /\ k.at = step
    <3>1. cmd[c] \in CommandRecords /\ cmd' = [cmd EXCEPT ![c] = k]
      BY <1>3, ReceiptParts DEF Goto
    <3> QED BY <3>1 DEF CommandRecords
  <2> HIDE DEF k
  <2> QED BY <1>3, <2>1, HolderGoesOn DEF Holding
<1>4. ASSUME NEW c \in Callers, cmd[c].at # "idle", NEW step, NEW r, Saved(c, r, step),
             step \notin {"idle", "lock"}, cmd[c].at # "lock" \/ ~Locked(cmd[c].kind),
             UNCHANGED addLock
      PROVE  HolderInv'
  <2> DEFINE k == [cmd[c] EXCEPT !.at = step, !.base = r]
  <2>1. cmd' = [cmd EXCEPT ![c] = k] /\ k.kind = cmd[c].kind /\ k.at = step
    <3>1. cmd[c] \in CommandRecords /\ cmd' = [cmd EXCEPT ![c] = k]
      BY <1>4, ReceiptParts DEF Saved
    <3> QED BY <3>1 DEF CommandRecords
  <2> HIDE DEF k
  <2> QED BY <1>4, <2>1, HolderGoesOn DEF Holding
<1>5. ASSUME NEW c \in Callers, Lock(c) PROVE HolderInv'
  <2>1. cmd[c] \in CommandRecords /\ Steady(cmd[c]) /\ cmd[c].at = "lock"
    BY <1>5, UnderWay DEF Lock
  <2>2. Nothing \notin Callers
    BY NothingAssumption
  <2>3. CASE addLock = Nothing /\ addLock' = c
    <3> DEFINE k == [cmd[c] EXCEPT !.at = IF cmd[c].kind = "add" THEN "attach" ELSE "kill"]
    <3>1. cmd' = [cmd EXCEPT ![c] = k]
      BY <1>5, <2>2, <2>3, ReceiptParts DEF Lock, Goto
    <3>2. Holding(k)
      BY <2>1 DEF Holding, CommandRecords, Steady, Locked
    <3> HIDE DEF k
    <3> QED BY <2>2, <2>3, <3>1, <3>2, HolderMoves
  <2>4. CASE Done(c) /\ UNCHANGED addLock
    BY <2>1, <2>4, HolderEnds DEF Holding
  <2> QED BY <1>5, <2>3, <2>4 DEF Lock
<1>6. ASSUME NEW c \in Callers, RemoveKills(c) \/ RemoveDetaches(c)
      PROVE  HolderInv'
  BY <1>3, <1>6 DEF RemoveKills, RemoveDetaches
<1>7. ASSUME NEW c \in Callers, Attach(c) \/ Spawn(c) PROVE HolderInv'
  <2>1. Holding(cmd[c])
    BY <1>7 DEF Attach, Spawn, Doing, Holding, Locked
  <2> QED BY <1>3, <1>7, <2>1, HolderEnds DEF Attach, Spawn
<1>8. ASSUME NEW c \in Callers, AddSaves(c) PROVE HolderInv'
  <2>1. CASE Saved(c, WithAgent(cmd[c].seen, cmd[c].branch), "gate") /\ UNCHANGED addLock
    BY <1>4, <1>8, <2>1 DEF AddSaves
  <2>2. CASE Unlock /\ Done(c)
    <3>1. Holding(cmd[c])
      BY <1>8 DEF AddSaves, Doing, Holding, Locked
    <3> QED BY <2>2, <3>1, HolderEnds
  <2> QED BY <1>8, <2>1, <2>2 DEF AddSaves
<1>9. ASSUME NEW c \in Callers, Gate(c) \/ RemoveSaves(c) PROVE HolderInv'
  <2>1. Holding(cmd[c])
    BY <1>9 DEF Gate, RemoveSaves, Doing, Holding, Locked
  <2> QED BY <1>9, <2>1, HolderEnds DEF Gate, RemoveSaves
<1>10. ASSUME NEW c \in Callers, Kills(c) \/ Detaches(c) PROVE HolderInv'
  <2>1. cmd[c].kind \in {"stop", "purge", "start"} => ~Locked(cmd[c].kind)
    BY DEF Locked
  <2> QED BY <1>3, <1>10, <2>1 DEF Kills, Detaches
<1>11. ASSUME NEW c \in Callers, ~Holding(cmd[c]), Done(c), UNCHANGED addLock
       PROVE  HolderInv'
  BY <1>11, HolderEnds
<1>12. ASSUME NEW c \in Callers, StopSaves(c) \/ PauseSaves(c) PROVE HolderInv'
  BY <1>11, <1>12 DEF StopSaves, PauseSaves, Holding, Locked
<1>13. ASSUME NEW c \in Callers, Deletes(c) PROVE HolderInv'
  <2>1. ~Locked(cmd[c].kind)
    BY <1>13, UnderWay DEF Deletes, Steady, Locked
  <2> QED BY <1>4, <1>11, <1>13, <2>1 DEF Deletes, Holding
<1>14. ASSUME NEW c \in Callers, (\E b \in Branches : FreshLaunch(c, b)) \/ LaunchElsewhere(c)
       PROVE  HolderInv'
  BY <1>11, <1>14 DEF FreshLaunch, LaunchElsewhere, Holding, Locked
<1>15. ASSUME NEW c \in Callers, RecoverCloses(c) \/ RecoverOpens(c) \/ RecoverHosts(c)
       PROVE  HolderInv'
  <2>1. ~Locked(cmd[c].kind) /\ ~Holding(cmd[c])
    BY <1>15 DEF RecoverCloses, RecoverOpens, RecoverHosts, Recovering, Locked, Holding
  <2> QED BY <1>3, <1>4, <1>11, <1>15, <2>1
          DEF RecoverCloses, RecoverOpens, RecoverHosts, Recovering
<1>16. ASSUME NEW c \in Callers, ResumeHosts(c) \/ ResumeSaves(c) PROVE HolderInv'
  <2>1. ~Locked(cmd[c].kind) /\ ~Holding(cmd[c])
    BY <1>16 DEF ResumeHosts, ResumeSaves, Resuming, Locked, Holding
  <2> QED BY <1>4, <1>11, <1>16, <2>1 DEF ResumeHosts, ResumeSaves, Resuming
<1>17. ASSUME NEW c \in Callers, ResumeSubmits(c) PROVE HolderInv'
  <2>1. PICK done : cmd' = [cmd EXCEPT ![c].at = "save", ![c].seen = Cleared(cmd[c].seen, done)]
    BY <1>17, ReceiptParts DEF ResumeSubmits
  <2> DEFINE k == [cmd[c] EXCEPT !.at = "save", !.seen = Cleared(cmd[c].seen, done)]
  <2>2. cmd' = [cmd EXCEPT ![c] = k] /\ k.kind = "start" /\ cmd[c].kind = "start"
    <3>1. cmd[c] \in CommandRecords /\ cmd' = [cmd EXCEPT ![c] = k]
      BY <2>1, ReceiptParts
    <3> QED BY <1>17, <3>1 DEF CommandRecords, ResumeSubmits
  <2>3. ~Holding(k) /\ ~Holding(cmd[c])
    BY <2>2 DEF Holding, Locked
  <2> HIDE DEF k
  <2> QED BY <1>17, <2>2, <2>3, HolderGoesOn DEF ResumeSubmits
<1>18. ASSUME NEW c \in Callers, Killed(c) PROVE HolderInv'
  BY <1>18, HolderEnds DEF Killed
<1>19. CASE TmuxDies \/ UNCHANGED receiptVars
  BY <1>19 DEF TmuxDies, receiptVars, Disk, HolderInv
<1>20. CASE LockRemoved
  BY <1>20, NothingAssumption DEF LockRemoved, HolderInv
<1> QED
  BY <1>1, <1>2, <1>5, <1>6, <1>7, <1>8, <1>9, <1>10, <1>12, <1>13, <1>14, <1>15, <1>16,
     <1>17, <1>18, <1>19, <1>20 DEF ReceiptNext

LEMMA WindowStep ==
  ASSUME WindowInv, [ReceiptNext]_receiptVars
  PROVE  WindowInv'
<1> USE DEF WindowInv, Screen, NoWindow
<1>1. ASSUME NEW c \in Callers, NEW b \in Branches,
             AddReads(c, b) \/ RemoveReads(c, b) \/ FreshLaunch(c, b)
      PROVE  WindowInv'
  BY <1>1 DEF AddReads, RemoveReads, FreshLaunch
<1>2. ASSUME NEW c \in Callers,
             Lock(c) \/ Attach(c) \/ Spawn(c) \/ AddSaves(c) \/ Gate(c)
      PROVE  WindowInv'
  BY <1>2 DEF Lock, Attach, Spawn, AddSaves, Gate
<1>3. ASSUME NEW c \in Callers, RemoveKills(c) \/ RemoveDetaches(c) \/ RemoveSaves(c)
      PROVE  WindowInv'
  BY <1>3 DEF RemoveKills, RemoveDetaches, RemoveSaves
<1>4. ASSUME NEW c \in Callers,
             \/ StopReads(c) \/ Kills(c) \/ StopSaves(c) \/ PauseReads(c)
             \/ PauseSaves(c) \/ PurgeReads(c) \/ Detaches(c) \/ Deletes(c)
      PROVE  WindowInv'
  BY <1>4 DEF StopReads, Kills, StopSaves, PauseReads, PauseSaves, PurgeReads,
              Detaches, Deletes
<1>5. ASSUME NEW c \in Callers,
             \/ StartReads(c) \/ LaunchElsewhere(c) \/ RecoverCloses(c)
             \/ RecoverOpens(c) \/ RecoverHosts(c) \/ ResumeHosts(c)
             \/ ResumeSubmits(c) \/ ResumeSaves(c) \/ Killed(c)
      PROVE  WindowInv'
  BY <1>5 DEF StartReads, LaunchElsewhere, RecoverCloses, RecoverOpens,
              RecoverHosts, ResumeHosts, ResumeSubmits, ResumeSaves, Killed
<1>6. CASE TmuxDies \/ LockRemoved \/ UNCHANGED receiptVars
  BY <1>6 DEF TmuxDies, LockRemoved, receiptVars
<1> QED BY <1>1, <1>2, <1>3, <1>4, <1>5, <1>6 DEF ReceiptNext

-----------------------------------------------------------------------------
\* What holds until something goes wrong.
Clean == TogetherInv /\ CurrentInv /\ WorkInv
SessionInv == ReceiptInv /\ HolderInv /\ WindowInv /\ CleanInv

\* A command that is past the lock, or takes none, is the only one under way
\* that has acted.
LEMMA OthersFresh ==
  ASSUME ReceiptInv, HolderInv, TogetherInv, NEW c \in Callers,
         cmd[c].at # "idle", cmd[c].at # "lock" \/ ~Locked(cmd[c].kind)
  PROVE  \A d \in Callers \ {c} : /\ Fresh(cmd[d])
                                  /\ cmd[d] = Idle
                                     \/ (Locked(cmd[d].kind) /\ Locked(cmd[c].kind))
<1> SUFFICES ASSUME NEW d \in Callers \ {c}, cmd[d] # Idle
             PROVE  Fresh(cmd[d]) /\ Locked(cmd[d].kind) /\ Locked(cmd[c].kind)
  BY DEF Fresh
<1>1. cmd[c] # Idle
  BY DEF Idle
<1>2. Locked(cmd[d].kind) /\ Locked(cmd[c].kind)
  BY <1>1 DEF TogetherInv
<1>3. addLock = c
  BY <1>2 DEF HolderInv
<1>4. cmd[d].at \in {"idle", "lock"} /\ Steady(cmd[d])
  BY <1>2, <1>3, ReceiptParts DEF HolderInv, Known
<1> QED BY <1>2, <1>4 DEF Fresh, Steady, Locked

\* Nothing new went wrong in a step, so nothing had before, and the command's
\* copy is the receipt.
LEMMA ActsOnTruth ==
  ASSUME CleanInv, NEW c \in Callers, NEW more, Notes(c, more), mishaps' = {}
  PROVE  Clean /\ stored = cmd[c].base /\ more = {}
BY DEF CleanInv, Clean, Notes

\* One command, the only one that has acted, moves on.
LEMMA CleanMoves ==
  ASSUME ReceiptInv, HolderInv, Clean, NEW c \in Callers, cmd[c].at # "idle",
         cmd[c].at # "lock" \/ ~Locked(cmd[c].kind),
         NEW k, cmd' = [cmd EXCEPT ![c] = k], k = Idle \/ k.kind = cmd[c].kind,
         (k = Idle \/ Fresh(k)) => Settled(stored)',
         Fresh(k) \/ (k.base = stored' /\ Midway(cmd[c])')
  PROVE  Clean'
<1>1. cmd \in [Callers -> CommandRecords]
  BY ReceiptParts
<1>2. \A d \in Callers : cmd'[d] = IF d = c THEN k ELSE cmd[d]
  BY <1>1
<1>3. \A d \in Callers \ {c} : /\ Fresh(cmd'[d])
                               /\ cmd[d] = Idle
                                  \/ (Locked(cmd[d].kind) /\ Locked(cmd[c].kind))
  BY <1>2, OthersFresh DEF Clean
<1>4. TogetherInv'
  BY <1>2, <1>3 DEF TogetherInv, Clean
<1>5. CurrentInv'
  BY <1>2, <1>3 DEF CurrentInv
<1>6. (\A d \in Callers : Fresh(cmd'[d])) => Settled(stored)'
  BY <1>2
<1>7. \A d \in Callers : Fresh(cmd'[d]) \/ Midway(cmd[d])'
  BY <1>2, <1>3
<1>8. WorkInv'
  BY <1>6, <1>7 DEF WorkInv
<1> QED BY <1>4, <1>5, <1>8 DEF Clean

\* A command that is over, or has not acted, leaves things settled.
LEMMA CleanSettles ==
  ASSUME ReceiptInv, HolderInv, Clean, NEW c \in Callers, cmd[c].at # "idle",
         cmd[c].at # "lock" \/ ~Locked(cmd[c].kind), Done(c), Settled(stored)'
  PROVE  Clean'
BY CleanMoves DEF Done, Fresh

\* What a command that is under way may count on.
LEMMA WorkKnown ==
  ASSUME ReceiptInv, HolderInv, Clean, NEW c \in Callers, cmd[c].at # "idle",
         cmd[c].at # "lock" \/ ~Locked(cmd[c].kind)
  PROVE  IF Fresh(cmd[c]) THEN Settled(stored) ELSE Midway(cmd[c])
BY OthersFresh DEF Clean, WorkInv

\* Commands that neither move nor see any of what the properties speak of.
LEMMA CleanKept ==
  ASSUME Clean, UNCHANGED <<stored, cmd, work, asked>>, panes' \in {panes, {}}
  PROVE  Clean'
<1>1. TogetherInv' /\ CurrentInv'
  BY DEF Clean, TogetherInv, CurrentInv
<1>2. ASSUME NEW r, Settled(r) PROVE (Settled(r))'
  BY <1>2 DEF Settled, Backed, Prompted
<1>3. ASSUME NEW r, NEW b, TrueBut(r, b) PROVE (TrueBut(r, b))'
  BY <1>3 DEF TrueBut, Backed, Prompted
<1>4. ASSUME NEW k, Midway(k) PROVE (Midway(k))'
  <2>1. /\ k.kind = "add" /\ k.at = "spawn" =>
             (Settled(stored))' /\ work'[k.branch] = AllocateSlot(stored')
        /\ k.kind = "add" /\ k.at = "save" =>
             /\ panes' \subseteq Listed(stored') \union {k.branch}
             /\ (TrueBut(stored, k.branch))' /\ work'[k.branch] = AllocateSlot(stored')
    BY <1>2, <1>3, <1>4 DEF Midway
  <2>2. k.kind = "add" /\ k.at = "gate" =>
          /\ panes' \subseteq Listed(stored') /\ (TrueBut(stored, k.branch))'
          /\ stored' \in Sessions
          /\ \A e \in stored'.agents : e.branch = k.branch => (Backed(e))' /\ ~e.held
    BY <1>3, <1>4 DEF Midway, Backed
  <2>3. k.kind = "remove" /\ k.at \in {"detach", "save"} =>
          panes' \subseteq Listed(stored') \ {k.branch} /\ (TrueBut(stored, k.branch))'
    BY <1>3, <1>4 DEF Midway
  <2>4. /\ k.kind = "start" /\ k.at = "save" => (Settled(k.seen))'
        /\ k.kind \in {"purge", "start"} /\ k.at \in {"detach", "delete", "launch"}
             => panes' = {}
        /\ (\/ k.kind \in {"stop", "pause"} \/ (k.kind = "purge" /\ k.at = "kill")
            \/ (k.kind = "start" /\ k.at \in {"close", "open", "host", "submit"}))
             => (Settled(stored))'
    BY <1>2, <1>4 DEF Midway
  <2> QED BY <2>1, <2>2, <2>3, <2>4 DEF Midway
<1>5. WorkInv'
  BY <1>2, <1>4 DEF Clean, WorkInv
<1> QED BY <1>1, <1>5 DEF Clean

LEMMA CleanBegins ==
  ASSUME ReceiptInv, CleanInv, NEW c \in Callers, NEW kind, NEW step, NEW b,
         cmd[c] = Idle, Be(c, kind, step, b), mishaps' = {},
         UNCHANGED <<stored, panes, work, asked>>,
         LET k == [kind |-> kind, at |-> step, branch |-> b, seen |-> stored, base |-> stored]
         IN  IF Locked(kind) THEN Fresh(k) ELSE Settled(stored) => Midway(k)
  PROVE  Clean'
<1> DEFINE k == [kind |-> kind, at |-> step, branch |-> b, seen |-> stored, base |-> stored]
<1>1. Clean /\ \A d \in Callers \ {c} :
                 cmd[d] = Idle \/ (Locked(kind) /\ Locked(cmd[d].kind))
  BY DEF CleanInv, Clean, Be, Beside
<1>2. \A d \in Callers : cmd'[d] = IF d = c THEN k ELSE cmd[d]
  BY ReceiptParts DEF Be
<1>3. k.kind = kind /\ k.base = stored
  OBVIOUS
<1>4. Fresh(cmd[c])
  BY DEF Fresh
<1>5. IF Locked(kind) THEN Fresh(k) ELSE Settled(stored) => Midway(k)
  OBVIOUS
<1> HIDE DEF k
<1>6. TogetherInv'
  BY <1>1, <1>2, <1>3 DEF Clean, TogetherInv
<1>7. CurrentInv'
  BY <1>1, <1>2, <1>3 DEF Clean, CurrentInv
<1>8. \A r : (Settled(r))' <=> Settled(r)
  BY DEF Settled, Backed, Prompted
<1>9. \A j : (Midway(j))' <=> Midway(j)
  BY DEF Midway, Settled, TrueBut, Backed, Prompted
<1>10. (Settled(stored))' <=> Settled(stored)
  BY DEF Settled, Backed, Prompted
<1>11. \A d \in Callers : (Midway(cmd[d]))' <=> Midway(cmd'[d])
  BY DEF Midway, Settled, TrueBut, Backed, Prompted
<1>12. CASE Locked(kind)
  <2>1. \A d \in Callers : Fresh(cmd'[d]) <=> Fresh(cmd[d])
    BY <1>2, <1>4, <1>5, <1>12
  <2>2. \A d \in Callers : Fresh(cmd[d]) \/ Midway(cmd'[d])
    BY <1>1, <1>2, <1>4 DEF Clean, WorkInv
  <2>3. WorkInv'
    BY <1>1, <1>10, <1>11, <2>1, <2>2 DEF Clean, WorkInv
  <2> QED BY <1>6, <1>7, <2>3 DEF Clean
<1>13. CASE ~Locked(kind)
  <2>1. \A d \in Callers : Fresh(cmd[d])
    BY <1>1, <1>4, <1>13 DEF Fresh
  <2>2. Settled(stored)
    BY <1>1, <2>1 DEF Clean, WorkInv
  <2>3. \A d \in Callers : Fresh(cmd'[d]) \/ Midway(cmd'[d])
    BY <1>2, <1>5, <1>13, <2>1, <2>2
  <2>4. WorkInv'
    BY <1>10, <1>11, <2>2, <2>3 DEF WorkInv
  <2> QED BY <1>6, <1>7, <2>4 DEF Clean
<1> QED BY <1>12, <1>13

LEMMA BeginsClean ==
  ASSUME SessionInv, NEW c \in Callers, mishaps' = {},
         \/ \E b \in Branches : AddReads(c, b) \/ RemoveReads(c, b)
         \/ StopReads(c) \/ PauseReads(c) \/ PurgeReads(c) \/ StartReads(c)
  PROVE  Clean'
<1> USE DEF SessionInv
<1>1. ASSUME NEW b \in Branches, AddReads(c, b) \/ RemoveReads(c, b) PROVE Clean'
  <2>1. \A kind \in {"add", "remove"} :
          LET k == [kind |-> kind, at |-> "lock", branch |-> b,
                    seen |-> stored, base |-> stored]
          IN  Fresh(k) /\ Locked(kind)
    BY DEF Fresh, Locked
  <2>2. PICK kind \in {"add", "remove"} : Be(c, kind, "lock", b)
    BY <1>1 DEF AddReads, RemoveReads
  <2>3. cmd[c] = Idle /\ UNCHANGED <<stored, panes, work, asked>>
    BY <1>1 DEF AddReads, RemoveReads, Disk, Screen
  <2> QED BY <2>1, <2>2, <2>3, CleanBegins
<1>2. CASE StopReads(c) \/ PauseReads(c) \/ PurgeReads(c)
  <2>1. \A s \in {<<"stop", "kill">>, <<"pause", "save">>, <<"purge", "kill">>} :
          LET k == [kind |-> s[1], at |-> s[2], branch |-> Nothing,
                    seen |-> stored, base |-> stored]
          IN  ~Locked(s[1]) /\ (Settled(stored) => Midway(k))
    BY DEF Midway, Locked
  <2>2. \/ Be(c, "stop", "kill", Nothing) \/ Be(c, "pause", "save", Nothing)
        \/ Be(c, "purge", "kill", Nothing)
    BY <1>2 DEF StopReads, PauseReads, PurgeReads
  <2>3. PICK s \in {<<"stop", "kill">>, <<"pause", "save">>, <<"purge", "kill">>} :
          Be(c, s[1], s[2], Nothing)
    BY <2>2
  <2>4. cmd[c] = Idle /\ UNCHANGED <<stored, panes, work, asked>>
    BY <1>2 DEF StopReads, PauseReads, PurgeReads, Disk, Screen
  <2> QED BY <2>1, <2>3, <2>4, CleanBegins
<1>3. CASE StartReads(c)
  <2> DEFINE w == Ways(stored)
             k == [kind |-> "start", at |-> w, branch |-> Nothing,
                  seen |-> stored, base |-> stored]
  <2>1. WorldType /\ w # "idle"
    BY <1>3, ReceiptParts DEF StartReads
  <2>2. \/ w = "launch" /\ stored = Nothing
        \/ w = "detach" /\ panes = {}
        \/ w \in {"host", "close"}
    BY <2>1, StartWays DEF WindowInv
  <2> HIDE DEF w
  <2>3. ~Locked("start") /\ (Settled(stored) => Midway(k))
    BY <2>2 DEF Midway, Locked, Settled, Listed
  <2>4. cmd[c] = Idle /\ UNCHANGED <<stored, panes, work, asked>> /\ Be(c, "start", w, Nothing)
    BY <1>3 DEF StartReads, Disk, Screen, w
  <2> QED BY <2>3, <2>4, CleanBegins
<1> QED BY <1>1, <1>2, <1>3

LEMMA LockClean ==
  ASSUME SessionInv, NEW c \in Callers, mishaps' = {}, Lock(c)
  PROVE  Clean'
<1> USE DEF SessionInv
<1>1. Clean /\ UNCHANGED <<stored, panes, work, asked>>
  BY DEF Lock, Disk, Screen, CleanInv, Clean
<1>2. cmd[c] \in CommandRecords /\ Steady(cmd[c]) /\ cmd[c].at = "lock"
  BY UnderWay DEF Lock
<1>3. PICK k : /\ cmd' = [cmd EXCEPT ![c] = k] /\ Fresh(k)
               /\ k = Idle \/ k.kind = cmd[c].kind
  <2>1. CASE Done(c)
    BY <2>1 DEF Done, Fresh
  <2>2. CASE Goto(c, IF cmd[c].kind = "add" THEN "attach" ELSE "kill")
    <3> DEFINE k == [cmd[c] EXCEPT !.at = IF cmd[c].kind = "add" THEN "attach" ELSE "kill"]
    <3>1. cmd' = [cmd EXCEPT ![c] = k]
      BY <2>2, ReceiptParts DEF Goto
    <3>2. Fresh(k) /\ k.kind = cmd[c].kind
      BY <1>2 DEF CommandRecords, Fresh, Steady
    <3> HIDE DEF k
    <3> QED BY <3>1, <3>2
  <2> QED BY <2>1, <2>2 DEF Lock
<1>4. \A d \in Callers : cmd'[d] = IF d = c THEN k ELSE cmd[d]
  BY <1>3, ReceiptParts
<1>5. Fresh(cmd[c]) /\ cmd[c] # Idle
  BY <1>2 DEF Fresh, Steady, Idle
<1>6. TogetherInv'
  BY <1>1, <1>3, <1>4, <1>5 DEF Clean, TogetherInv
<1>7. CurrentInv'
  BY <1>1, <1>3, <1>4 DEF Clean, CurrentInv
<1>8. (Settled(stored))' <=> Settled(stored)
  BY <1>1 DEF Settled, Backed, Prompted
<1>9. \A d \in Callers : (Midway(cmd[d]))' <=> Midway(cmd'[d])
  BY <1>1 DEF Midway, Settled, TrueBut, Backed, Prompted
<1>10. \A d \in Callers : Fresh(cmd'[d]) <=> Fresh(cmd[d])
  BY <1>3, <1>4, <1>5
<1>11. \A d \in Callers : Fresh(cmd[d]) \/ Midway(cmd'[d])
  BY <1>1, <1>4, <1>5 DEF Clean, WorkInv
<1>12. WorkInv'
  BY <1>1, <1>8, <1>9, <1>10, <1>11 DEF Clean, WorkInv
<1> QED BY <1>6, <1>7, <1>12 DEF Clean

\* What a command that acts may count on while nothing has gone wrong.
LEMMA Acting ==
  ASSUME SessionInv, NEW c \in Callers, NEW more, Notes(c, more), mishaps' = {},
         cmd[c].at \notin {"idle", "lock"}
  PROVE  /\ ReceiptInv /\ HolderInv /\ Clean /\ WorldType /\ Regular(stored)
         /\ cmd[c] \in CommandRecords /\ Copied(cmd[c])
         /\ stored = cmd[c].base /\ more = {}
         /\ IF Fresh(cmd[c]) THEN Settled(stored) ELSE Midway(cmd[c])
<1>1. ReceiptInv /\ HolderInv /\ CleanInv
  BY DEF SessionInv
<1>2. Clean /\ stored = cmd[c].base /\ more = {}
  BY <1>1, ActsOnTruth
<1> QED BY <1>1, <1>2, UnderWay, WorkKnown

\* A step after which the command is under way and has acted.
LEMMA CleanGoesOn ==
  ASSUME ReceiptInv, HolderInv, Clean, NEW c \in Callers, cmd[c].at \notin {"idle", "lock"},
         NEW step \in CommandSteps \ {"idle", "lock", "attach", "kill"}, NEW r,
         \/ Goto(c, step) /\ UNCHANGED stored /\ r = cmd[c].base /\ stored = r
         \/ Saved(c, r, step),
         \A k : /\ k.at = step /\ k.kind = cmd[c].kind /\ k.branch = cmd[c].branch
                /\ k.seen = cmd[c].seen /\ k.base = r /\ stored' = r /\ cmd'[c] = k
                => Midway(cmd[c])'
  PROVE  Clean'
<1> DEFINE k == [cmd[c] EXCEPT !.at = step, !.base = r]
<1>1. cmd \in [Callers -> CommandRecords] /\ cmd[c] \in CommandRecords
  BY ReceiptParts
<1>2. cmd' = [cmd EXCEPT ![c] = k] /\ stored' = r
  <2>1. CASE Goto(c, step) /\ UNCHANGED stored /\ r = cmd[c].base /\ stored = r
    <3>1. k = [cmd[c] EXCEPT !.at = step]
      BY <1>1, <2>1 DEF CommandRecords
    <3> QED BY <2>1, <3>1 DEF Goto
  <2>2. CASE Saved(c, r, step)
    BY <2>2, <1>1 DEF Saved, Put
  <2> QED BY <2>1, <2>2
<1>3. /\ k.at = step /\ k.kind = cmd[c].kind /\ k.branch = cmd[c].branch
      /\ k.seen = cmd[c].seen /\ k.base = r
  BY <1>1 DEF CommandRecords
<1> HIDE DEF k
<1>4. cmd'[c] = k
  BY <1>1, <1>2
<1>5. Midway(cmd[c])'
  BY <1>2, <1>3, <1>4
<1>6. ~Fresh(k) /\ k # Idle
  BY <1>3 DEF Fresh, Idle
<1> QED BY <1>2, <1>3, <1>5, <1>6, CleanMoves

\* The agents stay as they are, and their panes stay or go together.
LEMMA SettledStays ==
  ASSUME NEW r \in Sessions, Settled(r), stored' \in Sessions,
         stored'.agents = r.agents, UNCHANGED <<work, asked>>, panes' \in {panes, {}}
  PROVE  Settled(stored)'
<1>1. r # Nothing /\ stored' # Nothing
  BY NothingAssumption
<1> QED BY <1>1 DEF Settled, Listed, Backed, Prompted

LEMMA AttachClean ==
  ASSUME SessionInv, NEW c \in Callers, mishaps' = {}, Attach(c)
  PROVE  Clean'
<1>1. cmd[c].kind = "add" /\ cmd[c].at = "attach" /\ Fresh(cmd[c])
  BY DEF Attach, Doing, Fresh
<1>8. PICK more : Notes(c, more) /\ (more = {} =>
                    Goto(c, "spawn") /\ Worktree(cmd[c].branch, AllocateSlot(cmd[c].seen)))
  BY DEF Attach, Acts
<1>2. /\ ReceiptInv /\ HolderInv /\ Clean /\ WorldType /\ cmd[c] \in CommandRecords
      /\ Copied(cmd[c]) /\ stored = cmd[c].base /\ Settled(stored) /\ more = {}
  BY <1>1, <1>8, Acting
<1>3. /\ stored = cmd[c].seen /\ stored \in Sessions /\ cmd[c].branch \in Branches
      /\ cmd[c].branch \notin Listed(stored) /\ stored # Nothing
  BY <1>1, <1>2, NothingAssumption DEF Copied, Locked
<1>4. /\ work' = [work EXCEPT ![cmd[c].branch] = AllocateSlot(stored)]
      /\ UNCHANGED <<stored, panes, asked>> /\ Goto(c, "spawn")
  BY <1>2, <1>3, <1>8 DEF Attach, Worktree, Screen
<1>5. \A e \in stored.agents : e.branch # cmd[c].branch /\ e.branch \in Branches
  BY <1>3 DEF Listed, Sessions, Entries
<1>6. Settled(stored)' /\ work'[cmd[c].branch] = AllocateSlot(stored')
  BY <1>2, <1>3, <1>4, <1>5 DEF Settled, Backed, Prompted, WorldType
<1>7. ASSUME NEW k, k.at = "spawn", k.kind = "add", k.branch = cmd[c].branch, cmd'[c] = k
      PROVE Midway(cmd[c])'
  BY <1>6, <1>7 DEF Midway
<1> QED BY <1>1, <1>2, <1>4, <1>7, CleanGoesOn DEF CommandSteps

LEMMA SpawnClean ==
  ASSUME SessionInv, NEW c \in Callers, mishaps' = {}, Spawn(c)
  PROVE  Clean'
<1>1. /\ cmd[c].kind = "add" /\ cmd[c].at = "spawn" /\ ~Fresh(cmd[c])
      /\ UNCHANGED <<stored, work, asked>>
  BY DEF Spawn, Doing, Fresh, Idle, Disk
<1>2. PICK more : Notes(c, more) /\ (more = {} => Goto(c, "save")
                                        /\ panes' = panes \union {cmd[c].branch})
  BY DEF Spawn, Acts
<1>3. /\ ReceiptInv /\ HolderInv /\ Clean /\ Copied(cmd[c]) /\ stored = cmd[c].base
      /\ more = {} /\ Midway(cmd[c])
  BY <1>1, <1>2, Acting
<1>4. Settled(stored) /\ work[cmd[c].branch] = AllocateSlot(stored)
  BY <1>1, <1>3 DEF Midway
<1>5. /\ panes' \subseteq Listed(stored') \union {cmd[c].branch}
      /\ TrueBut(stored, cmd[c].branch)' /\ work'[cmd[c].branch] = AllocateSlot(stored')
  <2>1. panes' \subseteq Listed(stored') \union {cmd[c].branch}
    BY <1>1, <1>2, <1>3, <1>4 DEF Settled
  <2>2. \A b : TrueBut(stored, b)'
    BY <1>1, <1>4 DEF Settled, TrueBut, Backed, Prompted
  <2> QED BY <1>1, <1>4, <2>1, <2>2
<1>6. ASSUME NEW k, k.at = "save", k.kind = "add", k.branch = cmd[c].branch, cmd'[c] = k
      PROVE Midway(cmd[c])'
  BY <1>5, <1>6 DEF Midway
<1> QED BY <1>1, <1>2, <1>3, <1>6, CleanGoesOn DEF CommandSteps

LEMMA AddSavesClean ==
  ASSUME SessionInv, NEW c \in Callers, mishaps' = {}, AddSaves(c)
  PROVE  Clean'
<1>b. PICK b : b = cmd[c].branch
  OBVIOUS
<1>r. PICK r : r = WithAgent(cmd[c].seen, b)
  OBVIOUS
<1>n. PICK new : new = [branch |-> b, slot |-> AllocateSlot(stored),
                        held |-> HoldsPrompt(stored)]
  OBVIOUS
<1>1. /\ cmd[c].kind = "add" /\ cmd[c].at = "save" /\ ~Fresh(cmd[c]) /\ Notes(c, {})
      /\ stored' = r /\ asked' = asked \ {b} /\ UNCHANGED <<work, panes>>
      /\ IF HoldsPrompt(r) THEN Done(c) ELSE Saved(c, r, "gate")
  BY <1>b, <1>r DEF AddSaves, Doing, Put, Saved, Acts, Fresh, Idle, Screen
<1>2. /\ ReceiptInv /\ HolderInv /\ Clean /\ Copied(cmd[c]) /\ stored = cmd[c].base
      /\ Midway(cmd[c])
  BY <1>1, Acting
<1>3. /\ stored = cmd[c].seen /\ stored \in Sessions /\ b \in Branches
      /\ b \notin Listed(stored) /\ Regular(stored) /\ stored # Nothing
  BY <1>b, <1>1, <1>2, NothingAssumption DEF Copied, Locked
<1>4. /\ panes \subseteq Listed(stored) \union {b} /\ TrueBut(stored, b)
      /\ work[b] = AllocateSlot(stored)
  BY <1>b, <1>1, <1>2 DEF Midway
<1>5. /\ r \in Sessions /\ Listed(r) = Listed(stored) \union {b}
      /\ r.status = stored.status /\ r.agents = stored.agents \union {new}
  BY <1>r, <1>n, <1>3, AgentAdded
<1>6. new.branch = b /\ new.slot = AllocateSlot(stored) /\ new.held = HoldsPrompt(stored)
  BY <1>n
<1>7. \A e \in stored.agents : e.branch # b
  BY <1>3 DEF Listed
<1>8. \A e \in stored.agents : Backed(e)' /\ Prompted(e)'
  BY <1>1, <1>3, <1>4, <1>7 DEF TrueBut, Backed, Prompted
<1>9. Backed(new)' /\ panes' \subseteq Listed(stored')
  BY <1>1, <1>4, <1>5, <1>6 DEF Backed
<1>10. HoldsPrompt(r) <=> HoldsPrompt(stored)
  BY <1>5 DEF HoldsPrompt
<1>11. CASE HoldsPrompt(r)
  <2>1. Prompted(new)'
    BY <1>1, <1>6, <1>10, <1>11 DEF Prompted
  <2>2. Settled(stored)'
    BY <1>1, <1>5, <1>8, <1>9, <2>1 DEF Settled
  <2> QED BY <1>1, <1>2, <1>11, <2>2, CleanSettles
<1>12. CASE ~HoldsPrompt(r)
  <2>1. TrueBut(stored, b)'
    BY <1>1, <1>5, <1>6, <1>8 DEF TrueBut
  <2>2. \A e \in stored'.agents : e.branch = b => Backed(e)' /\ ~e.held
    BY <1>1, <1>5, <1>6, <1>7, <1>9, <1>10, <1>12
  <2>3. ASSUME NEW k, k.at = "gate", k.kind = "add", k.branch = b, cmd'[c] = k
        PROVE Midway(cmd[c])'
    BY <1>1, <1>5, <1>9, <2>1, <2>2, <2>3 DEF Midway
  <2> QED BY <1>1, <1>2, <1>12, <2>3, <1>b, CleanGoesOn DEF CommandSteps
<1> QED BY <1>11, <1>12

LEMMA GateClean ==
  ASSUME SessionInv, NEW c \in Callers, mishaps' = {}, Gate(c)
  PROVE  Clean'
<1>b. PICK b : b = cmd[c].branch
  OBVIOUS
<1>1. /\ cmd[c].kind = "add" /\ cmd[c].at = "gate" /\ ~Fresh(cmd[c]) /\ Done(c)
      /\ UNCHANGED <<stored, work, panes>>
  BY DEF Gate, Doing, Fresh, Idle, Screen
<1>2. PICK more : Notes(c, more) /\ (more = {} => asked' = asked \union {b})
  BY <1>b DEF Gate, Acts
<1>3. ReceiptInv /\ HolderInv /\ Clean /\ more = {} /\ Midway(cmd[c])
  BY <1>1, <1>2, Acting
<1>4. /\ panes \subseteq Listed(stored) /\ TrueBut(stored, b) /\ stored \in Sessions
      /\ \A e \in stored.agents : e.branch = b => Backed(e) /\ ~e.held
  BY <1>b, <1>1, <1>3 DEF Midway
<1>5. stored # Nothing
  BY <1>4, NothingAssumption
<1>6. asked' = asked \union {b}
  BY <1>2, <1>3
<1>7. \A e \in stored.agents : Backed(e)' /\ Prompted(e)'
  BY <1>1, <1>4, <1>5, <1>6 DEF TrueBut, Backed, Prompted
<1>8. Settled(stored)'
  BY <1>1, <1>4, <1>7 DEF Settled
<1> QED BY <1>1, <1>3, <1>8, CleanSettles

LEMMA RemoveKillsClean ==
  ASSUME SessionInv, NEW c \in Callers, mishaps' = {}, RemoveKills(c)
  PROVE  Clean'
<1>1. /\ cmd[c].kind = "remove" /\ cmd[c].at = "kill" /\ Fresh(cmd[c]) /\ Notes(c, {})
      /\ Goto(c, "detach") /\ UNCHANGED <<stored, work, asked>>
      /\ panes' = panes \ {cmd[c].branch}
  BY DEF RemoveKills, Doing, Acts, Fresh, Disk
<1>2. ReceiptInv /\ HolderInv /\ Clean /\ stored = cmd[c].base /\ Settled(stored)
  BY <1>1, Acting
<1>3. /\ panes' \subseteq Listed(stored') \ {cmd[c].branch}
      /\ TrueBut(stored, cmd[c].branch)'
  BY <1>1, <1>2 DEF Settled, TrueBut, Backed, Prompted
<1>4. ASSUME NEW k, k.at = "detach", k.kind = "remove", k.branch = cmd[c].branch, cmd'[c] = k
      PROVE Midway(cmd[c])'
  BY <1>3, <1>4 DEF Midway
<1> QED BY <1>1, <1>2, <1>4, CleanGoesOn DEF CommandSteps

LEMMA RemoveDetachesClean ==
  ASSUME SessionInv, NEW c \in Callers, mishaps' = {}, RemoveDetaches(c)
  PROVE  Clean'
<1>b. PICK b : b = cmd[c].branch
  OBVIOUS
<1>1. /\ cmd[c].kind = "remove" /\ cmd[c].at = "detach" /\ ~Fresh(cmd[c]) /\ Notes(c, {})
      /\ Goto(c, "save") /\ UNCHANGED <<stored, panes, asked>>
      /\ work' = [work EXCEPT ![b] = Nothing] \/ work' = work
  BY <1>b DEF RemoveDetaches, Doing, Acts, Fresh, Idle, Worktree, Screen
<1>2. /\ ReceiptInv /\ HolderInv /\ Clean /\ WorldType /\ stored = cmd[c].base
      /\ Midway(cmd[c])
  BY <1>1, Acting
<1>3. panes \subseteq Listed(stored) \ {b} /\ TrueBut(stored, b)
  BY <1>b, <1>1, <1>2 DEF Midway
<1>4. \A d \in Branches : d # b => work'[d] = work[d]
  BY <1>1, <1>2 DEF WorldType
<1>5. stored # Nothing => \A e \in stored.agents : e.branch \in Branches
  BY <1>2 DEF WorldType, SavedReceipts, Sessions, Entries
<1>6. TrueBut(stored, b)'
  BY <1>1, <1>3, <1>4, <1>5 DEF TrueBut, Backed, Prompted
<1>7. ASSUME NEW k, k.at = "save", k.kind = "remove", k.branch = b, cmd'[c] = k
      PROVE Midway(cmd[c])'
  BY <1>1, <1>3, <1>6, <1>7 DEF Midway
<1> QED BY <1>1, <1>2, <1>7, <1>b, CleanGoesOn DEF CommandSteps

LEMMA RemoveSavesClean ==
  ASSUME SessionInv, NEW c \in Callers, mishaps' = {}, RemoveSaves(c)
  PROVE  Clean'
<1>b. PICK b : b = cmd[c].branch
  OBVIOUS
<1>r. PICK r : r = Without(cmd[c].seen, b)
  OBVIOUS
<1>1. /\ cmd[c].kind = "remove" /\ cmd[c].at = "save" /\ ~Fresh(cmd[c]) /\ Notes(c, {})
      /\ Done(c) /\ stored' = r /\ UNCHANGED <<work, panes, asked>>
  BY <1>b, <1>r DEF RemoveSaves, Doing, Put, Acts, Fresh, Idle, Screen
<1>2. /\ ReceiptInv /\ HolderInv /\ Clean /\ Copied(cmd[c]) /\ stored = cmd[c].base
      /\ Midway(cmd[c])
  BY <1>1, Acting
<1>3. /\ stored = cmd[c].seen /\ stored \in Sessions /\ b \in Branches /\ Regular(stored)
      /\ stored # Nothing
  BY <1>b, <1>1, <1>2, NothingAssumption DEF Copied, Locked
<1>4. panes \subseteq Listed(stored) \ {b} /\ TrueBut(stored, b)
  BY <1>b, <1>1, <1>2 DEF Midway
<1>5. /\ Listed(r) = Listed(stored) \ {b}
      /\ r.agents = {e \in stored.agents : e.branch # b}
  BY <1>r, <1>3, AgentRemoved
<1>6. Settled(stored)'
  BY <1>1, <1>3, <1>4, <1>5 DEF Settled, TrueBut, Backed, Prompted
<1> QED BY <1>1, <1>2, <1>6, CleanSettles

LEMMA KillsClean ==
  ASSUME SessionInv, NEW c \in Callers, mishaps' = {}, Kills(c)
  PROVE  Clean'
<1>1. /\ cmd[c].kind \in {"stop", "purge"} /\ cmd[c].at = "kill" /\ ~Fresh(cmd[c])
      /\ Notes(c, {}) /\ panes' = {} /\ UNCHANGED <<stored, work, asked>>
      /\ Goto(c, IF cmd[c].kind = "stop" THEN "save" ELSE "detach")
  BY DEF Kills, NoWindow, Acts, Fresh, Idle, Disk
<1>2. ReceiptInv /\ HolderInv /\ Clean /\ stored = cmd[c].base /\ Midway(cmd[c])
  BY <1>1, Acting
<1>3. Settled(stored)
  BY <1>1, <1>2 DEF Midway
<1>4. Settled(stored)'
  BY <1>1, <1>3 DEF Settled, Backed, Prompted
<1>5. CASE cmd[c].kind = "stop"
  <2>1. ASSUME NEW k, k.at = "save", k.kind = "stop", cmd'[c] = k PROVE Midway(cmd[c])'
    BY <1>4, <2>1 DEF Midway
  <2> QED BY <1>1, <1>2, <1>5, <2>1, CleanGoesOn DEF CommandSteps
<1>6. CASE cmd[c].kind = "purge"
  <2>1. ASSUME NEW k, k.at = "detach", k.kind = "purge", cmd'[c] = k PROVE Midway(cmd[c])'
    BY <1>1, <2>1 DEF Midway
  <2> QED BY <1>1, <1>2, <1>6, <2>1, CleanGoesOn DEF CommandSteps
<1> QED BY <1>1, <1>5, <1>6

LEMMA StatusClean ==
  ASSUME SessionInv, NEW c \in Callers, mishaps' = {}, StopSaves(c) \/ PauseSaves(c)
  PROVE  Clean'
<1>1. /\ cmd[c].kind \in {"stop", "pause"} /\ cmd[c].at = "save" /\ ~Fresh(cmd[c])
      /\ Notes(c, {}) /\ Done(c) /\ UNCHANGED <<work, panes, asked>>
  BY DEF StopSaves, PauseSaves, Doing, Put, Acts, Screen, Fresh, Idle
<1>2. PICK s \in SessionStatuses : stored' = [cmd[c].seen EXCEPT !.status = s]
  BY DEF StopSaves, PauseSaves, Put, SessionStatuses
<1>3. /\ ReceiptInv /\ HolderInv /\ Clean /\ stored = cmd[c].base /\ Midway(cmd[c])
      /\ Copied(cmd[c]) /\ Regular(stored)
  BY <1>1, Acting
<1>4. stored = cmd[c].seen /\ stored \in Sessions /\ Settled(stored)
  BY <1>1, <1>3 DEF Copied, Midway
<1>5. stored' \in Sessions /\ stored'.agents = stored.agents
  BY <1>2, <1>3, <1>4, StatusSet
<1>6. Settled(stored)'
  BY <1>1, <1>4, <1>5, SettledStays
<1> QED BY <1>1, <1>3, <1>6, CleanSettles

LEMMA DetachesClean ==
  ASSUME SessionInv, NEW c \in Callers, mishaps' = {}, Detaches(c)
  PROVE  Clean'
<1>1. /\ cmd[c].kind \in {"purge", "start"} /\ cmd[c].at = "detach" /\ ~Fresh(cmd[c])
      /\ Notes(c, {}) /\ Goto(c, "delete") /\ UNCHANGED <<stored, panes>>
  BY DEF Detaches, Acts, Screen, Fresh, Idle
<1>2. ReceiptInv /\ HolderInv /\ Clean /\ stored = cmd[c].base /\ Midway(cmd[c])
  BY <1>1, Acting
<1>3. panes' = {}
  BY <1>1, <1>2 DEF Midway
<1>4. ASSUME NEW k, k.at = "delete", k.kind = cmd[c].kind, cmd'[c] = k PROVE Midway(cmd[c])'
  BY <1>1, <1>3, <1>4 DEF Midway
<1> QED BY <1>1, <1>2, <1>4, CleanGoesOn DEF CommandSteps

LEMMA DeletesClean ==
  ASSUME SessionInv, NEW c \in Callers, mishaps' = {}, Deletes(c)
  PROVE  Clean'
<1>1. /\ cmd[c].at = "delete" /\ ~Fresh(cmd[c]) /\ Notes(c, {}) /\ stored' = Nothing
      /\ UNCHANGED panes
      /\ IF cmd[c].kind = "start" THEN Saved(c, Nothing, "launch") ELSE Done(c)
  BY DEF Deletes, Put, Saved, Acts, Screen, Fresh, Idle
<1>2. /\ ReceiptInv /\ HolderInv /\ Clean /\ Midway(cmd[c]) /\ Steady(cmd[c])
  BY <1>1, Acting, UnderWay
<1>3. panes' = {}
  BY <1>1, <1>2 DEF Midway, Steady
<1>4. CASE cmd[c].kind = "start"
  <2>1. ASSUME NEW k, k.at = "launch", k.kind = "start", cmd'[c] = k PROVE Midway(cmd[c])'
    BY <1>3, <2>1 DEF Midway
  <2> QED BY <1>1, <1>2, <1>4, <2>1, CleanGoesOn DEF CommandSteps
<1>5. CASE cmd[c].kind # "start"
  <2>1. Settled(stored)'
    BY <1>1, <1>3 DEF Settled
  <2> QED BY <1>1, <1>2, <1>5, <2>1, CleanSettles
<1> QED BY <1>4, <1>5

LEMMA LaunchClean ==
  ASSUME SessionInv, NEW c \in Callers, NEW b \in Branches, mishaps' = {},
         FreshLaunch(c, b)
  PROVE  Clean'
<1>1. /\ cmd[c].kind = "start" /\ cmd[c].at = "launch" /\ ~Fresh(cmd[c]) /\ Notes(c, {})
      /\ Done(c) /\ panes' = {b} /\ asked' = {b} /\ work' = [work EXCEPT ![b] = 0]
      /\ stored' = Launched(b)
  BY DEF FreshLaunch, Doing, Put, Acts, Worktree, Fresh, Idle
<1>2. ReceiptInv /\ HolderInv /\ Clean /\ WorldType
  BY <1>1, Acting
<1>3. /\ Listed(Launched(b)) = {b}
      /\ Launched(b).agents = {[branch |-> b, slot |-> 0, held |-> FALSE]}
  BY LaunchedOne
<1>4. work'[b] = 0
  BY <1>1, <1>2 DEF WorldType
<1>5. Settled(stored)'
  BY <1>1, <1>3, <1>4 DEF Settled, Backed, Prompted
<1> QED BY <1>1, <1>2, <1>5, CleanSettles

\* A launch under another name finds no receipt and no pane of this session.
LEMMA ElsewhereClean ==
  ASSUME SessionInv, NEW c \in Callers, mishaps' = {}, LaunchElsewhere(c)
  PROVE  Clean'
<1>1. /\ cmd[c].kind = "start" /\ cmd[c].at = "launch" /\ ~Fresh(cmd[c]) /\ Done(c)
      /\ UNCHANGED <<stored, panes, work, asked, mishaps>>
  BY DEF LaunchElsewhere, Doing, Fresh, Idle, Disk, Screen
<1>2. ReceiptInv /\ HolderInv /\ Clean
  BY <1>1 DEF SessionInv, CleanInv, Clean
<1>3. Copied(cmd[c]) /\ Midway(cmd[c]) /\ cmd[c].base = stored
  BY <1>1, <1>2, UnderWay, WorkKnown DEF Clean, CurrentInv
<1>4. stored = Nothing /\ panes = {}
  BY <1>1, <1>3 DEF Copied, Midway
<1>5. Settled(stored)'
  BY <1>1, <1>4 DEF Settled
<1> QED BY <1>1, <1>2, <1>5, CleanSettles

LEMMA RecoverClosesClean ==
  ASSUME SessionInv, NEW c \in Callers, mishaps' = {}, RecoverCloses(c)
  PROVE  Clean'
<1>1. /\ cmd[c].kind = "start" /\ cmd[c].at = "close" /\ ~Fresh(cmd[c]) /\ Notes(c, {})
      /\ Saved(c, Reactivated(cmd[c].seen), "open") /\ stored' = Reactivated(cmd[c].seen)
      /\ panes' = {} /\ UNCHANGED <<work, asked>>
  BY DEF RecoverCloses, Doing, NoWindow, Saved, Put, Acts, Fresh, Idle, Reactivated
<1>2. /\ ReceiptInv /\ HolderInv /\ Clean /\ stored = cmd[c].base /\ Midway(cmd[c])
      /\ Copied(cmd[c]) /\ Regular(stored)
  BY <1>1, Acting
<1>3. stored = cmd[c].seen /\ stored \in Sessions /\ Settled(stored)
  BY <1>1, <1>2 DEF Copied, Midway
<1>4. stored' \in Sessions /\ stored'.agents = stored.agents
  BY <1>1, <1>2, <1>3, StatusSet DEF Reactivated, SessionStatuses
<1>5. Settled(stored)'
  BY <1>1, <1>3, <1>4, SettledStays
<1>6. ASSUME NEW k, k.at = "open", k.kind = "start", cmd'[c] = k PROVE Midway(cmd[c])'
  BY <1>5, <1>6 DEF Midway
<1> QED BY <1>1, <1>2, <1>6, CleanGoesOn DEF CommandSteps

\* The copy of a recovery has the agents of the receipt.
LEMMA RecoveredAgents ==
  ASSUME NEW k, Copied(k), k.kind = "start", k.at \in {"open", "host"}
  PROVE  k.seen \in Sessions /\ k.base \in Sessions /\ k.base.agents = k.seen.agents
<1>1. k.seen \in Sessions /\ Regular(k.seen) /\ k.base \in {k.seen, Reactivated(k.seen)}
  BY DEF Copied
<1>2. /\ Reactivated(k.seen) \in Sessions /\ Reactivated(k.seen).agents = k.seen.agents
  BY <1>1, StatusSet DEF Reactivated, SessionStatuses
<1> QED BY <1>1, <1>2

LEMMA RecoverOpensClean ==
  ASSUME SessionInv, NEW c \in Callers, mishaps' = {}, RecoverOpens(c)
  PROVE  Clean'
<1>1. /\ cmd[c].kind = "start" /\ cmd[c].at = "open" /\ ~Fresh(cmd[c])
      /\ UNCHANGED <<stored, work, asked>>
  BY DEF RecoverOpens, Doing, Fresh, Idle, Disk
<1>2. PICK more : Notes(c, more) /\ (more = {} => Goto(c, "host")
                                        /\ panes' = Listed(cmd[c].seen))
  BY DEF RecoverOpens, Acts
<1>3. /\ ReceiptInv /\ HolderInv /\ Clean /\ stored = cmd[c].base /\ Midway(cmd[c])
      /\ Copied(cmd[c]) /\ more = {}
  BY <1>1, <1>2, Acting
<1>4. /\ stored \in Sessions /\ stored.agents = cmd[c].seen.agents
      /\ cmd[c].seen \in Sessions /\ Settled(stored)
  BY <1>1, <1>3, RecoveredAgents DEF Midway
<1>5. stored # Nothing /\ cmd[c].seen # Nothing
  BY <1>4, NothingAssumption
<1>6. panes' = Listed(stored)
  BY <1>2, <1>3, <1>4, <1>5 DEF Listed
<1>7. Settled(stored)'
  BY <1>1, <1>4, <1>6 DEF Settled, Backed, Prompted
<1>8. ASSUME NEW k, k.at = "host", k.kind = "start", cmd'[c] = k PROVE Midway(cmd[c])'
  BY <1>7, <1>8 DEF Midway
<1> QED BY <1>1, <1>2, <1>3, <1>8, CleanGoesOn DEF CommandSteps

LEMMA RecoverHostsClean ==
  ASSUME SessionInv, NEW c \in Callers, mishaps' = {}, RecoverHosts(c)
  PROVE  Clean'
<1>1. /\ cmd[c].kind = "start" /\ cmd[c].at = "host" /\ ~Fresh(cmd[c]) /\ Notes(c, {})
      /\ Done(c) /\ UNCHANGED <<work, asked>> /\ panes' \in {panes, {}}
      /\ stored' \in {stored, cmd[c].seen}
  BY DEF RecoverHosts, Recovering, Doing, NoWindow, Put, Acts, Screen, Fresh, Idle
<1>2. /\ ReceiptInv /\ HolderInv /\ Clean /\ stored = cmd[c].base /\ Midway(cmd[c])
      /\ Copied(cmd[c])
  BY <1>1, Acting
<1>3. /\ stored \in Sessions /\ stored.agents = cmd[c].seen.agents
      /\ cmd[c].seen \in Sessions /\ Settled(stored)
  BY <1>1, <1>2, RecoveredAgents DEF Midway
<1>4. stored' \in Sessions /\ stored'.agents = stored.agents
  BY <1>1, <1>3
<1>5. Settled(stored)'
  BY <1>1, <1>3, <1>4, SettledStays
<1> QED BY <1>1, <1>2, <1>5, CleanSettles

LEMMA ResumeHostsClean ==
  ASSUME SessionInv, NEW c \in Callers, mishaps' = {}, ResumeHosts(c)
  PROVE  Clean'
<1>1. /\ cmd[c].kind = "start" /\ cmd[c].at = "host" /\ ~Fresh(cmd[c]) /\ Notes(c, {})
      /\ UNCHANGED <<work, asked, panes>> /\ stored' = cmd[c].seen
      /\ Saved(c, cmd[c].seen, "submit") \/ Done(c)
  BY DEF ResumeHosts, Resuming, Doing, Saved, Put, Acts, Screen, Fresh, Idle
<1>2. /\ ReceiptInv /\ HolderInv /\ Clean /\ stored = cmd[c].base /\ Midway(cmd[c])
      /\ Copied(cmd[c])
  BY <1>1, Acting
<1>3. /\ stored \in Sessions /\ stored.agents = cmd[c].seen.agents
      /\ cmd[c].seen \in Sessions /\ Settled(stored)
  BY <1>1, <1>2, RecoveredAgents DEF Midway
<1>4. Settled(stored)'
  BY <1>1, <1>3, SettledStays
<1>5. ASSUME NEW k, k.at = "submit", k.kind = "start", cmd'[c] = k PROVE Midway(cmd[c])'
  BY <1>4, <1>5 DEF Midway
<1>6. CASE Saved(c, cmd[c].seen, "submit")
  BY <1>1, <1>2, <1>5, <1>6, CleanGoesOn DEF CommandSteps
<1>7. CASE Done(c)
  BY <1>1, <1>2, <1>4, <1>7, CleanSettles
<1> QED BY <1>1, <1>6, <1>7

LEMMA ResumeSubmitsClean ==
  ASSUME SessionInv, NEW c \in Callers, mishaps' = {}, ResumeSubmits(c)
  PROVE  Clean'
<1>1. /\ cmd[c].kind = "start" /\ cmd[c].at = "submit" /\ ~Fresh(cmd[c]) /\ Notes(c, {})
      /\ UNCHANGED <<stored, work, panes>>
  BY DEF ResumeSubmits, Doing, Acts, Screen, Fresh, Idle
<1>2. PICK done : /\ asked' = asked \union done
                  /\ cmd' = [cmd EXCEPT ![c].at = "save",
                                        ![c].seen = Cleared(cmd[c].seen, done)]
  BY DEF ResumeSubmits
<1>3. PICK r : r = Cleared(cmd[c].seen, done)
  OBVIOUS
<1>4. /\ ReceiptInv /\ HolderInv /\ Clean /\ stored = cmd[c].base /\ Midway(cmd[c])
      /\ Copied(cmd[c]) /\ Regular(stored) /\ cmd[c] \in CommandRecords
  BY <1>1, Acting
<1>5. stored = cmd[c].seen /\ stored \in Sessions /\ Settled(stored)
  BY <1>1, <1>4 DEF Copied, Midway
<1>6. /\ r \in Sessions /\ Listed(r) = Listed(stored)
      /\ r.agents = {[e EXCEPT !.held = e.held /\ e.branch \notin done] : e \in stored.agents}
  BY <1>3, <1>4, <1>5, PromptsCleared
<1>7. stored # Nothing /\ stored.agents \subseteq Entries
  BY <1>5, NothingAssumption DEF Sessions
<1>8. \A e \in r.agents : Backed(e)' /\ Prompted(e)'
  <2>1. ASSUME NEW e \in stored.agents, NEW f,
               f = [e EXCEPT !.held = e.held /\ e.branch \notin done]
        PROVE  Backed(f)' /\ Prompted(f)'
    <3>1. /\ f.branch = e.branch /\ f.slot = e.slot
          /\ f.held = (e.held /\ e.branch \notin done)
      BY <1>7, <2>1 DEF Entries
    <3>2. Backed(e) /\ Prompted(e)
      BY <1>5, <1>7 DEF Settled
    <3> QED BY <1>1, <1>2, <3>1, <3>2 DEF Backed, Prompted
  <2> QED BY <1>6, <2>1
<1>9. (Settled(r))'
  BY <1>1, <1>5, <1>6, <1>8 DEF Settled
<1>10. PICK k : k = [cmd[c] EXCEPT !.at = "save", !.seen = r]
  OBVIOUS
<1>11. k.at = "save" /\ k.kind = "start" /\ k.seen = r /\ k.base = stored /\ k # Idle
  BY <1>1, <1>4, <1>10 DEF CommandRecords, Idle
<1>12. cmd' = [cmd EXCEPT ![c] = k] /\ cmd'[c] = k
  BY <1>2, <1>3, <1>4, <1>10, ReceiptParts
<1>13. Midway(cmd[c])' /\ ~Fresh(k)
  BY <1>9, <1>11, <1>12 DEF Midway, Fresh
<1> QED BY <1>1, <1>4, <1>11, <1>12, <1>13, CleanMoves

LEMMA ResumeSavesClean ==
  ASSUME SessionInv, NEW c \in Callers, mishaps' = {}, ResumeSaves(c)
  PROVE  Clean'
<1>1. /\ cmd[c].kind = "start" /\ cmd[c].at = "save" /\ ~Fresh(cmd[c]) /\ Notes(c, {})
      /\ Done(c) /\ stored' = Reactivated(cmd[c].seen) /\ UNCHANGED <<work, panes, asked>>
  BY DEF ResumeSaves, Doing, Put, Acts, Screen, Fresh, Idle, Reactivated
<1>2. ReceiptInv /\ HolderInv /\ Clean /\ Midway(cmd[c]) /\ Copied(cmd[c])
  BY <1>1, Acting
<1>3. cmd[c].seen \in Sessions /\ Regular(cmd[c].seen) /\ Settled(cmd[c].seen)
  BY <1>1, <1>2 DEF Copied, Midway
<1>4. stored' \in Sessions /\ stored'.agents = cmd[c].seen.agents
  BY <1>1, <1>3, StatusSet DEF Reactivated, SessionStatuses
<1>5. Settled(stored)'
  BY <1>1, <1>3, <1>4, SettledStays
<1> QED BY <1>1, <1>2, <1>5, CleanSettles

\* Steps of nobody's, and a command that is killed.
LEMMA WorldClean ==
  ASSUME SessionInv, mishaps' = {},
         (\E c \in Callers : Killed(c)) \/ TmuxDies \/ LockRemoved \/ UNCHANGED receiptVars
  PROVE  Clean'
<1>1. ~ \E c \in Callers : Killed(c)
  BY DEF Killed
<1>2. UNCHANGED <<stored, cmd, work, asked, mishaps>> /\ panes' \in {panes, {}}
  BY <1>1 DEF TmuxDies, NoWindow, LockRemoved, Disk, Screen, receiptVars
<1>3. Clean
  BY <1>2 DEF SessionInv, CleanInv, Clean
<1> QED BY <1>2, <1>3, CleanKept

LEMMA CleanStep ==
  ASSUME SessionInv, [ReceiptNext]_receiptVars
  PROVE  CleanInv'
<1> SUFFICES ASSUME mishaps' = {} PROVE Clean'
  BY DEF CleanInv, Clean
<1>1. ASSUME NEW c \in Callers,
             \/ \E b \in Branches : AddReads(c, b) \/ RemoveReads(c, b)
             \/ StopReads(c) \/ PauseReads(c) \/ PurgeReads(c) \/ StartReads(c)
      PROVE  Clean'
  BY <1>1, BeginsClean
<1>2. ASSUME NEW c \in Callers,
             Lock(c) \/ Attach(c) \/ Spawn(c) \/ AddSaves(c) \/ Gate(c)
      PROVE  Clean'
  BY <1>2, LockClean, AttachClean, SpawnClean, AddSavesClean, GateClean
<1>3. ASSUME NEW c \in Callers, RemoveKills(c) \/ RemoveDetaches(c) \/ RemoveSaves(c)
      PROVE  Clean'
  BY <1>3, RemoveKillsClean, RemoveDetachesClean, RemoveSavesClean
<1>4. ASSUME NEW c \in Callers, \/ Kills(c) \/ StopSaves(c) \/ PauseSaves(c)
                                \/ Detaches(c) \/ Deletes(c)
      PROVE  Clean'
  BY <1>4, KillsClean, StatusClean, DetachesClean, DeletesClean
<1>5. ASSUME NEW c \in Callers, (\E b \in Branches : FreshLaunch(c, b)) \/ LaunchElsewhere(c)
      PROVE  Clean'
  BY <1>5, LaunchClean, ElsewhereClean
<1>6. ASSUME NEW c \in Callers, RecoverCloses(c) \/ RecoverOpens(c) \/ RecoverHosts(c)
      PROVE  Clean'
  BY <1>6, RecoverClosesClean, RecoverOpensClean, RecoverHostsClean
<1>7. ASSUME NEW c \in Callers, ResumeHosts(c) \/ ResumeSubmits(c) \/ ResumeSaves(c)
      PROVE  Clean'
  BY <1>7, ResumeHostsClean, ResumeSubmitsClean, ResumeSavesClean
<1>8. ASSUME (\E c \in Callers : Killed(c)) \/ TmuxDies \/ LockRemoved
               \/ UNCHANGED receiptVars
      PROVE  Clean'
  BY <1>8, WorldClean
<1> QED BY <1>1, <1>2, <1>3, <1>4, <1>5, <1>6, <1>7, <1>8 DEF ReceiptNext

\* A session that was launched for one branch is settled.
LEMMA SessionInit == ReceiptInit => SessionInv
<1> SUFFICES ASSUME ReceiptInit PROVE SessionInv
  OBVIOUS
<1>1. ReceiptInv
  BY LaunchIsKnown
<1>2. PICK b \in Branches : /\ stored = Launched(b) /\ work = Worktrees(b)
                            /\ panes = {b} /\ asked = {b}
  BY DEF ReceiptInit
<1>3. /\ tmux = TRUE /\ addLock = Nothing
      /\ \A c \in Callers : cmd[c] = Idle /\ cmd[c].kind = Nothing
  BY DEF ReceiptInit, Idle
<1>4. HolderInv /\ WindowInv
  BY <1>3, NothingAssumption DEF HolderInv, WindowInv, Locked, Kinds
<1>5. Settled(stored)
  <2>1. /\ Listed(stored) = {b}
        /\ stored.agents = {[branch |-> b, slot |-> 0, held |-> FALSE]}
    BY <1>2, LaunchedOne
  <2>2. work[b] = 0
    BY <1>2 DEF Worktrees
  <2> QED BY <1>2, <2>1, <2>2 DEF Settled, Backed, Prompted
<1>6. \A c \in Callers : Fresh(cmd[c])
  BY <1>3 DEF Fresh
<1>7. CleanInv
  BY <1>3, <1>5, <1>6 DEF CleanInv, TogetherInv, CurrentInv, WorkInv
<1> QED BY <1>1, <1>4, <1>7 DEF SessionInv

\* The inductive invariant: nobody acts on a copy that is out of date unless a
\* command ran beside one that takes no lock, or one was killed, or a pane or a
\* recovery failed; and how far each command has come shows in what is on disk
\* and on the screen.
THEOREM SessionInvariant == ReceiptSpec => []SessionInv
<1>1. ReceiptInit => SessionInv
  BY SessionInit
<1>2. SessionInv /\ [ReceiptNext]_receiptVars => SessionInv'
  <2> SUFFICES ASSUME SessionInv, [ReceiptNext]_receiptVars PROVE SessionInv'
    OBVIOUS
  <2>1. ReceiptInv /\ HolderInv /\ WindowInv
    BY DEF SessionInv
  <2>2. ReceiptInv' /\ HolderInv' /\ WindowInv' /\ CleanInv'
    BY <2>1, ReceiptStep, HolderStep, WindowStep, CleanStep
  <2> QED BY <2>2 DEF SessionInv
<1> QED BY <1>1, <1>2, PTL DEF ReceiptSpec

\* Two agents that run have different port blocks.
LEMMA SlotsApart ==
  ASSUME ReceiptInv, HolderInv, Clean
  PROVE  \A b, d \in panes : b # d => work[b] # work[d]
<1> SUFFICES ASSUME NEW b \in panes, NEW d \in panes, b # d PROVE work[b] # work[d]
  OBVIOUS
<1>1. Regular(stored) /\ stored \in SavedReceipts
  BY ReceiptParts DEF WorldType
<1>2. \A x \in Listed(stored) :
        stored # Nothing /\ \E e \in stored.agents : e.branch = x
  BY DEF Listed
<1>3. CASE Settled(stored)
  BY <1>1, <1>2, <1>3 DEF Settled, Backed, Regular
<1>4. CASE ~Settled(stored)
  <2>1. PICK c \in Callers : ~Fresh(cmd[c]) /\ Midway(cmd[c])
    BY <1>4 DEF Clean, WorkInv
  <2>2. cmd[c].at # "idle" /\ (cmd[c].at # "lock" \/ ~Locked(cmd[c].kind))
    <3>1. Known(cmd[c])
      BY ReceiptParts
    <3> QED BY <2>1, <3>1 DEF Known, Steady, Fresh, Locked
  <2>3. Steady(cmd[c]) /\ Copied(cmd[c]) /\ cmd[c].base = stored
    BY <2>1, <2>2, UnderWay DEF Clean, CurrentInv
  <2>4. CASE cmd[c].kind = "add" /\ cmd[c].at = "save"
    <3>1. /\ stored \in Sessions /\ cmd[c].branch \in Branches
          /\ cmd[c].branch \notin Listed(stored) /\ stored # Nothing
      BY <2>3, <2>4, NothingAssumption DEF Copied, Locked
    <3>2. /\ panes \subseteq Listed(stored) \union {cmd[c].branch}
          /\ TrueBut(stored, cmd[c].branch)
          /\ work[cmd[c].branch] = AllocateSlot(stored)
      BY <2>1, <2>4 DEF Midway
    <3>3. AllocateSlot(stored) \notin SlotsOf(stored)
      BY <1>1, <3>1, AllocateFree
    <3>4. \A x \in panes : x = cmd[c].branch \/
            \E e \in stored.agents : e.branch = x /\ work[x] = e.slot
      BY <1>2, <3>2 DEF TrueBut, Backed
    <3>5. \A e \in stored.agents : e.slot # work[cmd[c].branch]
      BY <3>2, <3>3 DEF SlotsOf
    <3> QED BY <1>1, <3>1, <3>4, <3>5 DEF Regular
  <2>5. CASE cmd[c].kind = "add" /\ cmd[c].at = "gate"
    <3>1. /\ panes \subseteq Listed(stored) /\ TrueBut(stored, cmd[c].branch)
          /\ \A e \in stored.agents : e.branch = cmd[c].branch => Backed(e)
      BY <2>1, <2>5 DEF Midway
    <3>2. \A e \in stored.agents : stored # Nothing => Backed(e)
      BY <3>1 DEF TrueBut
    <3> QED BY <1>1, <1>2, <3>1, <3>2 DEF Backed, Regular
  <2>6. CASE cmd[c].kind = "remove"
    <3>1. panes \subseteq Listed(stored) \ {cmd[c].branch} /\ TrueBut(stored, cmd[c].branch)
      BY <2>1, <2>2, <2>3, <2>6 DEF Midway, Steady, Fresh
    <3> QED BY <1>1, <1>2, <3>1 DEF TrueBut, Backed, Regular
  <2>7. CASE panes = {}
    BY <2>7
  <2>8. CASE cmd[c].kind = "start" /\ cmd[c].at = "save"
    <3>1. cmd[c].seen \in Sessions /\ Regular(cmd[c].seen) /\ Settled(cmd[c].seen)
      BY <2>1, <2>3, <2>8 DEF Midway, Copied
    <3>2. cmd[c].seen # Nothing
      BY <3>1, NothingAssumption
    <3> QED BY <3>1, <3>2 DEF Settled, Backed, Regular, Listed
  <2>9. \/ cmd[c].kind = "add" /\ cmd[c].at \in {"save", "gate"}
        \/ cmd[c].kind = "remove"
        \/ panes = {} \/ (cmd[c].kind = "start" /\ cmd[c].at = "save") \/ Settled(stored)
    BY <2>1, <2>3 DEF Midway, Steady, Fresh
  <2> QED BY <1>4, <2>4, <2>5, <2>6, <2>7, <2>8, <2>9
<1> QED BY <1>3, <1>4

\* No command is under way and nothing has gone wrong.
LEMMA RestSettled ==
  ASSUME SessionInv, AtRest, mishaps = {}
  PROVE  Settled(stored)
BY DEF AtRest, SessionInv, CleanInv, WorkInv, Fresh

(* At most one add or remove is past taking the lock, and the lock file is    *)
(* its own, whatever is killed and whenever the user removes the file a       *)
(* killed one left (lock.rs: SessionLock::acquire, drop).                     *)
THEOREM LockHasOneHolder == ReceiptSpec => []OneHolder
<1>1. SessionInv => OneHolder
  <2> SUFFICES ASSUME SessionInv, NEW c \in Callers, PastLock(c) PROVE addLock = c
    BY DEF OneHolder
  <2>1. cmd[c] # Idle
    BY NothingAssumption DEF PastLock, Locked, Idle, Kinds
  <2>2. cmd[c].at # "idle"
    BY <2>1, ReceiptParts DEF SessionInv, Known, Steady
  <2> QED BY <2>2 DEF SessionInv, HolderInv, PastLock
<1> QED BY <1>1, SessionInvariant, PTL

(* The lock has one holder, and                                               *)
(* a receipt shares no port slot among agents that run and, once no command   *)
(* is under way, lists every pane and only branches with a worktree, unless   *)
(* one of the mishaps happened (add.rs, remove.rs, recover.rs,                *)
(* worktree_provision.rs: allocate_slot).                                     *)
THEOREM SoundReceipt == ReceiptSpec => []ReceiptIsSound
<1>1. SessionInv => SharedSlotNeedsAMishap
  <2> SUFFICES ASSUME SessionInv, mishaps = {}
               PROVE  \A b, d \in panes : b # d => work[b] # work[d]
    BY DEF SharedSlotNeedsAMishap
  <2>1. ReceiptInv /\ HolderInv /\ Clean
    BY DEF SessionInv, CleanInv, Clean
  <2> QED BY <2>1, SlotsApart
<1>2. SessionInv => ReceiptIsComplete
  <2> SUFFICES ASSUME SessionInv, AtRest, mishaps = {}
               PROVE  /\ panes \subseteq Listed(stored)
                      /\ \A b \in Listed(stored) : work[b] # Nothing
    BY DEF ReceiptIsComplete
  <2>1. Settled(stored)
    BY RestSettled
  <2>2. stored \in SavedReceipts
    BY ReceiptParts DEF SessionInv, WorldType
  <2>3. stored # Nothing => \A e \in stored.agents : e.slot # Nothing
    <3>1. \A s \in Slots : s \in Nat
      BY DEF Slots
    <3>2. Nothing \notin Nat
      BY NothingAssumption
    <3> QED BY <2>2, <3>1, <3>2 DEF SavedReceipts, Sessions, Entries
  <2> QED BY <2>1, <2>3 DEF Settled, Backed, Listed
<1>3. SharedSlotNeedsAMishap /\ ReceiptIsComplete /\ OneHolder => ReceiptIsSound
  BY DEF ReceiptIsSound
<1> QED BY <1>1, <1>2, <1>3, SessionInvariant, LockHasOneHolder, PTL

(* Once no command is under way, the boot prompt of an agent is either held   *)
(* in its entry or was typed into its pane (start.rs:                         *)
(* submit_held_boot_prompts, add.rs).                                         *)
THEOREM PromptHeldOrAsked == ReceiptSpec => []HeldOrAsked
<1>1. SessionInv => HeldOrAsked
  <2> SUFFICES ASSUME SessionInv, AtRest, mishaps = {}, stored # Nothing
               PROVE  \A e \in stored.agents : e.held <=> e.branch \notin asked
    BY DEF HeldOrAsked
  <2>1. Settled(stored)
    BY RestSettled
  <2> QED BY <2>1 DEF Settled, Prompted
<1> QED BY <1>1, SessionInvariant, PTL
=============================================================================
