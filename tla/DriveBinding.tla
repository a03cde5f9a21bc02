---------------------------- MODULE DriveBinding ----------------------------
(* The drive-loop binding (src/supervisor/loop_binding.rs): at most one drive *)
(* loop per session instance, kept by a lease file that its holder refreshes  *)
(* once a tick, a lock over its read-decide-write sections, and a staleness   *)
(* window.  Beside it run the commands that move the session under the loop:  *)
(* git paw stop, pause, purge, an attended start, and start --unattended      *)
(* itself, which binds, revives the session and then drives it.               *)
EXTENDS Naturals, FiniteSets

CONSTANTS Loops,        \* invocations of git paw start --unattended
          None,         \* no loop
          Window,       \* [Loops -> Nat]: the staleness window each one records
          MaxAge,       \* bound: how far the age of a lease is followed
          MaxInstance   \* bound: sessions launched in the repository

ASSUME NoneAssumption == None \notin Loops
ASSUME WindowAssumption == Window \in [Loops -> Nat \ {0}]
ASSUME AgeAssumption == MaxAge \in Nat /\ \A p \in Loops : Window[p] < MaxAge
ASSUME InstanceAssumption == MaxInstance \in Nat \ {0}

VARIABLES receipt,  \* the session receipt on disk
          launched, \* session instances launched so far
          session,  \* the tmux session is alive
          binding,  \* drive-loop.binding; a record, or absent
          lock,     \* who holds drive-loop.lock
          pc,       \* where each invocation is
          seen,     \* the receipt (with effective status) it read at its start
          token,    \* the instance token it binds to
          stop,     \* a running git paw stop: its step and the receipt it read
          excused,  \* loops whose lease was revoked, superseded or let lapse
          overdue   \* ticks a loop has acted in since it lost the binding

vars == <<receipt, launched, session, binding, lock, pc, seen, token, stop,
          excused, overdue>>

world == <<receipt, launched, session>>
lease == <<binding, lock>>
mine == <<seen, token>>
ghosts == <<excused, overdue>>

Max2(a, b) == IF a > b THEN a ELSE b
NoBinding == [loop |-> None, instance |-> 0, window |-> 0, age |-> 0]
NoReceipt == [status |-> "none", instance |-> 0]
Instances == 0 .. MaxInstance
Statuses == {"none", "active", "paused", "stopped"}
Receipts == [status : Statuses, instance : Instances]
(* What a start read: the receipt and the effective status it derived. *)
NoSnapshot == [receipt |-> NoReceipt, effective |-> "none"]

Critical == {"decide", "publish", "release", "remove"}
Bound == {"revive", "tick", "bump", "checked", "acting", "drop", "release", "remove"}
Steps == Bound \union {"idle", "stamp", "lock", "decide", "publish", "done", "dead"}

(* Mutant of Holds: the instance is compared, not the loop. *)
HoldsInstance(p) == binding # NoBinding /\ binding.instance = token[p]

(* The binding file names this very loop (its loop id, not its instance). *)
Holds(p) == binding.loop = p

Init == /\ receipt = NoReceipt /\ launched = 0 /\ session = FALSE
        /\ binding = NoBinding /\ lock = None
        /\ pc = [p \in Loops |-> "idle"]
        /\ seen = [p \in Loops |-> NoSnapshot]
        /\ token = [p \in Loops |-> 0]
        /\ stop = [at |-> "idle", seen |-> NoReceipt]
        /\ excused = {}
        /\ overdue = [p \in Loops |-> 0]

(* What an invocation remembers goes when it needs it no more. *)
ForgetSnapshot(p) == seen' = [seen EXCEPT ![p] = NoSnapshot]
Gone(p) == /\ ForgetSnapshot(p) /\ token' = [token EXCEPT ![p] = 0]
           /\ excused' = excused \ {p} /\ overdue' = [overdue EXCEPT ![p] = 0]

At(p, from, to) == pc[p] = from /\ pc' = [pc EXCEPT ![p] = to]

-----------------------------------------------------------------------------
(* git paw start --unattended, up to the binding.                            *)

(* No session, or one recorded active whose tmux session is gone: the stale   *)
(* receipt is purged and a new session launched and saved.                    *)
Launch(p) == /\ At(p, "idle", "stamp")
             /\ receipt.status = "none" \/ (receipt.status = "active" /\ ~session)
             /\ launched < MaxInstance /\ launched' = launched + 1
             /\ receipt' = [status |-> "active", instance |-> launched']
             /\ seen' = [seen EXCEPT ![p] = [receipt |-> receipt', effective |-> "active"]]
             /\ session' = TRUE
             /\ UNCHANGED <<lease, ghosts, token, stop>>

(* The effective status: stopped when the tmux session is gone, and also when *)
(* the probe for live agents misreads a live session.                         *)
Effective == {"stopped"} \union (IF session THEN {receipt.status} ELSE {})

(* A session is there: read it and leave it untouched until bound. *)
ReadSession(p) == /\ At(p, "idle", "stamp")
                  /\ receipt.status # "none" /\ ~(receipt.status = "active" /\ ~session)
                  /\ \E status \in Effective :
                       seen' = [seen EXCEPT ![p] = [receipt |-> receipt, effective |-> status]]
                  /\ UNCHANGED <<world, lease, ghosts, token, stop>>

(* The instance token is read from disk again, not taken from the snapshot. *)
Stamp(p) == /\ At(p, "stamp", "lock")
            /\ token' = [token EXCEPT ![p] = IF receipt.status = "none"
                                             THEN seen[p].receipt.instance ELSE receipt.instance]
            /\ UNCHANGED <<world, lease, ghosts, seen, stop>>

(* Mutant of TakeLock: nobody waits for the lock. *)
TakeLockUnguarded(p) == lock' = p

TakeLock(p) == lock = None /\ lock' = p

AcquireLock(p) == /\ At(p, "lock", "decide") /\ TakeLock(p)
                  /\ UNCHANGED <<world, mine, ghosts, binding, stop>>

Supersedes(p) == seen[p].effective = "stopped"

(* Mutant of Stale: a lease never lapses. *)
NeverStale(p) == FALSE

(* Older than the acquirer's window and the holder's recorded one. *)
Stale(p) == binding.age > Max2(Window[p], binding.window)

Refuses(p) == /\ ~Supersedes(p)
              /\ binding # NoBinding /\ binding.instance = token[p]
              /\ ~Stale(p)

(* A refused command ends with nothing changed; the user may run it again. *)
Decide(p) == /\ \/ /\ Refuses(p) /\ At(p, "decide", "idle") /\ Gone(p)
                   /\ lock' = None
                \/ /\ ~Refuses(p) /\ At(p, "decide", "publish")
                   /\ UNCHANGED <<mine, ghosts, lock>>
             /\ UNCHANGED <<world, binding, stop>>

Holder == {p \in Loops : Holds(p) /\ pc[p] \in Bound}

(* Whom a publish displaces by right: a superseded loop, or one that drives a *)
(* session instance that is gone.                                             *)
Displaces(p) == IF Supersedes(p) \/ binding.instance # token[p]
                THEN Holder ELSE {}

(* The rename over the binding, then the lock is dropped. *)
Publish(p) == /\ At(p, "publish", "revive")
              /\ binding' = [loop |-> p, instance |-> token[p], window |-> Window[p], age |-> 0]
              /\ excused' = excused \union Displaces(p)
              /\ lock' = None
              /\ UNCHANGED <<world, mine, stop, overdue>>

-----------------------------------------------------------------------------
(* Bringing the session up, from the snapshot read before the binding. *)

Revive(p) ==
  /\ At(p, "revive", "tick")
  /\ \/ /\ seen[p].effective = "active"
        /\ UNCHANGED <<receipt, session>>
     \/ /\ seen[p].effective = "paused" /\ session
        /\ receipt' = [seen[p].receipt EXCEPT !.status = "active"]
        /\ UNCHANGED session
     \/ /\ seen[p].effective = "stopped"
        /\ receipt' = [seen[p].receipt EXCEPT !.status = "active"]
        /\ session' = TRUE
  /\ ForgetSnapshot(p)
  /\ UNCHANGED <<lease, ghosts, launched, token, stop>>

(* A failed revive or set-up drops the binding on its way out.  It has touched *)
(* nothing, or put the receipt back as it was; a recovery closes what is left  *)
(* of the session first, and one whose launch fails leaves the receipt active. *)
ReviveFails(p) ==
  /\ At(p, "revive", "drop")
  /\ \/ UNCHANGED <<receipt, session>>
     \/ /\ seen[p].effective = "paused"
        /\ receipt' = seen[p].receipt /\ UNCHANGED session
     \/ /\ Supersedes(p)
        /\ \/ UNCHANGED receipt /\ session' = FALSE
           \/ receipt' = seen[p].receipt /\ session' = FALSE
           \/ receipt' = [seen[p].receipt EXCEPT !.status = "active"] /\ session' \in BOOLEAN
  /\ ForgetSnapshot(p)
  /\ UNCHANGED <<lease, ghosts, launched, token, stop>>

-----------------------------------------------------------------------------
(* One tick of the loop.                                                      *)

(* refresh: the binding is read and the loop's id compared ... *)
CheckBinding(p) == /\ \/ Holds(p) /\ At(p, "tick", "bump")
                      \/ ~Holds(p) /\ At(p, "tick", "drop")
                   /\ UNCHANGED <<world, lease, mine, ghosts, stop>>

(* ... and then the time is set of the file that is now at that path. *)
Bump(p) == /\ At(p, "bump", "checked")
           /\ binding' = [binding EXCEPT !.age = 0]
           /\ UNCHANGED <<world, mine, ghosts, lock, stop>>

SessionCurrent(p) == receipt.instance = token[p] /\ receipt.status \notin {"none", "stopped"}

(* The receipt check, and with it the start of the sweep. *)
CheckReceipt(p) ==
  /\ \/ /\ SessionCurrent(p) /\ At(p, "checked", "acting")
        /\ overdue' = [overdue EXCEPT ![p] = IF Holds(p) \/ @ = 2 THEN @ ELSE @ + 1]
     \/ /\ ~SessionCurrent(p) /\ At(p, "checked", "drop")
        /\ UNCHANGED overdue
  /\ UNCHANGED <<world, lease, mine, stop, excused>>

EndTick(p) == /\ At(p, "acting", "tick")
              /\ UNCHANGED <<world, lease, mine, ghosts, stop>>

(* Completion or heartbeat. *)
LoopEnds(p) == /\ At(p, "acting", "drop")
               /\ UNCHANGED <<world, lease, mine, ghosts, stop>>

(* Drop: check and removal under the lock. *)
DropLock(p) == /\ At(p, "drop", "release") /\ TakeLock(p)
               /\ UNCHANGED <<world, mine, ghosts, binding, stop>>

DropCheck(p) ==
  \/ /\ Holds(p) /\ At(p, "release", "remove")
     /\ UNCHANGED <<world, lease, mine, ghosts, stop>>
  \/ /\ ~Holds(p) /\ At(p, "release", "done") /\ Gone(p)
     /\ lock' = None
     /\ UNCHANGED <<world, binding, stop>>

DropRemove(p) == /\ At(p, "remove", "done") /\ Gone(p)
                 /\ binding' = NoBinding /\ lock' = None
                 /\ UNCHANGED <<world, stop>>

(* The process is killed; the OS releases the lock. *)
Crash(p) == /\ pc[p] \notin {"idle", "done", "dead"}
            /\ pc' = [pc EXCEPT ![p] = "dead"] /\ Gone(p)
            /\ lock' = IF lock = p THEN None ELSE lock
            /\ UNCHANGED <<world, binding, stop>>

(* Mutant of Age: the clock runs past its bound. *)
AgeOn == /\ binding # NoBinding /\ binding.age <= MaxAge
         /\ binding' = [binding EXCEPT !.age = @ + 1]
         /\ UNCHANGED <<world, mine, ghosts, lock, pc, stop>>

(* Time passes without a refresh.  A live holder that lets its own window run *)
(* out (a long tick, a suspended laptop) has been late.                       *)
Age == /\ binding # NoBinding /\ binding.age < MaxAge
       /\ binding' = [binding EXCEPT !.age = @ + 1]
       /\ excused' = IF binding.age + 1 > binding.window
                     THEN excused \union Holder ELSE excused
       /\ UNCHANGED <<world, mine, lock, pc, stop, overdue>>

-----------------------------------------------------------------------------
(* The other commands.                                                        *)

StopKill == /\ stop.at = "idle" /\ receipt.status # "none"
            /\ stop' = [at |-> "save", seen |-> receipt]
            /\ session' = FALSE
            /\ UNCHANGED <<lease, mine, ghosts, receipt, launched, pc>>

StopSave == /\ stop.at = "save"
            /\ receipt' = [stop.seen EXCEPT !.status = "stopped"]
            /\ stop' = [at |-> "revoke", seen |-> NoReceipt]
            /\ UNCHANGED <<lease, mine, ghosts, launched, session, pc>>

(* revoke removes the file, whoever holds it, without the lock. *)
StopRevoke == /\ stop.at = "revoke"
              /\ stop' = [at |-> "idle", seen |-> NoReceipt]
              /\ binding' = NoBinding
              /\ excused' = excused \union Holder
              /\ UNCHANGED <<world, mine, lock, pc, overdue>>

Pause == /\ receipt.status = "active" /\ session
         /\ receipt' = [receipt EXCEPT !.status = "paused"]
         /\ UNCHANGED <<lease, mine, ghosts, launched, session, pc, stop>>

(* git paw start without --unattended: no binding is taken. *)
ReviveAttended == /\ receipt.status \in {"paused", "stopped"}
                  /\ receipt' = [receipt EXCEPT !.status = "active"]
                  /\ session' = TRUE
                  /\ UNCHANGED <<lease, mine, ghosts, launched, pc, stop>>

(* Purging does not revoke the binding. *)
Purge == /\ receipt.status # "none"
         /\ receipt' = [receipt EXCEPT !.status = "none"]
         /\ session' = FALSE
         /\ UNCHANGED <<lease, mine, ghosts, launched, pc, stop>>

SessionDies == /\ session /\ session' = FALSE
               /\ UNCHANGED <<lease, mine, ghosts, receipt, launched, pc, stop>>

-----------------------------------------------------------------------------
Start(p) == Launch(p) \/ ReadSession(p)
Bind(p) == Stamp(p) \/ AcquireLock(p) \/ Decide(p) \/ Publish(p)
Tick(p) == CheckBinding(p) \/ Bump(p) \/ CheckReceipt(p) \/ EndTick(p)
Drop(p) == DropLock(p) \/ DropCheck(p) \/ DropRemove(p)
Run(p) == Bind(p) \/ Revive(p) \/ ReviveFails(p) \/ Tick(p) \/ LoopEnds(p) \/ Drop(p)
Stop == StopKill \/ StopSave \/ StopRevoke
Commands == Stop \/ Pause \/ ReviveAttended \/ Purge \/ SessionDies

Next == \/ \E p \in Loops : Start(p) \/ Run(p) \/ Crash(p)
        \/ Age \/ Commands

Spec == Init /\ [][Next]_vars

(* Each process is scheduled.  A user whose command was refused runs it again,*)
(* and the lease of a loop that is gone grows old.                            *)
AgeAbandoned == binding # NoBinding /\ pc[binding.loop] \in {"done", "dead"} /\ Age

FairSpec == /\ Spec
            /\ \A p \in Loops : WF_vars(Start(p) \/ Run(p))
            /\ WF_vars(AgeAbandoned)

-----------------------------------------------------------------------------
TypeOK == /\ receipt \in Receipts /\ launched \in Instances /\ session \in BOOLEAN
          /\ binding \in [loop : Loops \union {None}, instance : Instances,
                         window : 0 .. MaxAge, age : 0 .. MaxAge]
          /\ lock \in Loops \union {None}
          /\ pc \in [Loops -> Steps]
          /\ seen \in [Loops -> [receipt : Receipts, effective : Statuses]]
          /\ token \in [Loops -> Instances]
          /\ stop \in [at : {"idle", "save", "revoke"}, seen : Receipts]
          /\ excused \subseteq Loops
          /\ overdue \in [Loops -> 0 .. 2]

(* A loop that refreshes in time keeps its binding: only git paw stop, a      *)
(* recovery, or a launch of another instance takes it away -- never a second  *)
(* start that judged it stale, nor the exit of the loop it replaced           *)
(* (loop_binding.rs acquire, Drop).                                           *)
PunctualKeepsLease == \A p \in Loops : pc[p] \in Bound /\ p \notin excused => Holds(p)

(* A loop whose binding was taken acts in no tick but the one it had already  *)
(* checked (loop_binding.rs refresh, drive.rs BoundInstanceGuard).            *)
AtMostOneTickLate == \A p \in Loops : overdue[p] <= 1

(* The repository has a live session and every other loop is gone, perhaps    *)
(* without releasing its binding.                                             *)
Alone(p) == session /\ receipt.status # "none"
            /\ \A q \in Loops \ {p} : pc[q] \in {"done", "dead"}

(* A binding left behind never wedges the session: running the command again  *)
(* is enough (loop_binding.rs is_stale, BindingLock).                         *)
NeverWedged == \A p \in Loops : <>[]Alone(p) => <>(pc[p] \in Bound \union {"done", "dead"})
=============================================================================
