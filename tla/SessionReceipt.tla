--------------------------- MODULE SessionReceipt ---------------------------
(* The session receipt of one repository and the commands that rewrite it     *)
(* (src/commands/{add,remove,stop,pause,start,recover,purge}.rs, src/lock.rs).*)
(* Every command is a process of its own: it reads the receipt once, acts on  *)
(* tmux and the worktrees according to that copy, and writes the copy back.   *)
(* Only add and remove take the lock, and they read before they take it.      *)
EXTENDS Integers, FiniteSets

CONSTANTS Callers,      \* the commands that can run at the same time
          Branches,     \* the branches that can be agents
          Nothing,      \* no branch, no receipt, no command, no slot
          Dead,         \* the lock file of a killed command
          MaxCommands   \* bound: commands the user runs

ASSUME BoundAssumption == MaxCommands \in Nat
ASSUME BranchesAssumption == IsFiniteSet(Branches)

VARIABLES
  stored,   \* the saved session (the receipt), or Nothing
  tmux,     \* the tmux session exists
  panes,    \* branches with a pane in it
  work,     \* the slot a worktree was provisioned with; Nothing: no worktree
  asked,    \* branches whose boot prompt was typed into their pane
  addLock,  \* .add-remove.lock: a command, Dead or Nothing
  cmd,      \* what each command is doing
  begun,    \* commands run so far
  mishaps,  \* what went wrong so far, of Mishaps
  kept      \* worktrees the last stop said were preserved

receiptVars == <<stored, tmux, panes, work, asked, addLock, cmd, begun, mishaps, kept>>

Kinds == {"add", "remove", "stop", "pause", "start", "purge"}
SessionStatuses == {"active", "paused", "stopped"}
Slots == 0 .. Cardinality(Branches) - 1
Entries == [branch : Branches, slot : Slots, held : BOOLEAN]
Sessions == [status : SessionStatuses, agents : SUBSET Entries]
SavedReceipts == Sessions \union {Nothing}

ASSUME NothingAssumption == /\ Nothing \notin Branches \union Callers \union Nat
                            /\ Nothing \notin Kinds \union Sessions
                            /\ Dead \notin Callers \union {Nothing}

(* stale:     a command acted by a copy that was no longer the receipt.       *)
(* unlocked:  a command ran beside one of the four that take no lock.         *)
(* killed:    a command did not get to its end.                               *)
(* pane:      the pane of an agent could not be made, or its CLI not reached. *)
(* recovery:  a recovery could not build its tmux session.                    *)
Mishaps == {"stale", "unlocked", "killed", "pane", "recovery"}
CommandSteps == {"idle", "lock", "attach", "spawn", "kill", "detach", "save", "gate",
                 "delete", "launch", "close", "open", "host", "submit"}

Idle == [kind |-> Nothing, at |-> "idle", branch |-> Nothing,
         seen |-> Nothing, base |-> Nothing]

Listed(r) == IF r = Nothing THEN {} ELSE {e.branch : e \in r.agents}
SlotsOf(r) == {e.slot : e \in r.agents}
Alive == tmux /\ panes # {}
EffectiveStatus(r) == IF r.status # "stopped" /\ ~Alive THEN "stopped" ELSE r.status

(* A receipt that says active, and no tmux session of its name. *)
StaleReceipt(r) == r.status = "active" /\ ~tmux

(* Mutant of AllocateSlot: the slot after the highest. *)
SlotAfterLast(r) == IF r.agents = {} THEN 0
                    ELSE 1 + CHOOSE s \in SlotsOf(r) : \A t \in SlotsOf(r) : t <= s

AllocateSlot(r) == CHOOSE s \in Slots : /\ s \notin SlotsOf(r)
                                        /\ \A t \in Slots : t < s => t \in SlotsOf(r)

(* A session that was just launched for one branch. *)
Launched(b) == [status |-> "active", agents |-> {[branch |-> b, slot |-> 0, held |-> FALSE]}]
Worktrees(b) == [c \in Branches |-> IF c = b THEN 0 ELSE Nothing]

ReceiptInit ==
  /\ \E b \in Branches : /\ stored = Launched(b) /\ work = Worktrees(b)
                         /\ panes = {b} /\ asked = {b}
  /\ tmux = TRUE /\ addLock = Nothing
  /\ cmd = [c \in Callers |-> Idle]
  /\ begun = 0 /\ mishaps = {} /\ kept = {}

-----------------------------------------------------------------------------
Locked(kind) == kind \in {"add", "remove"}
Beside(c, kind) == \E d \in Callers \ {c} :
                     cmd[d] # Idle /\ ~(Locked(kind) /\ Locked(cmd[d].kind))
Be(c, kind, step, b) ==
  /\ mishaps' = mishaps \union (IF Beside(c, kind) THEN {"unlocked"} ELSE {})
  /\ cmd' = [cmd EXCEPT ![c] = [kind |-> kind, at |-> step, branch |-> b,
                                 seen |-> stored, base |-> stored]]
Doing(c, kind, step) == cmd[c].kind = kind /\ cmd[c].at = step
Goto(c, step) == cmd' = [cmd EXCEPT ![c].at = step]
Done(c) == cmd' = [cmd EXCEPT ![c] = Idle]
(* A command that ends removes whatever is at the path. *)
Unlock == addLock' = Nothing

(* What goes wrong in a step of c. *)
Notes(c, more) ==
  mishaps' = mishaps \union more
                     \union (IF stored = cmd[c].base THEN {} ELSE {"stale"})
Acts(c) == Notes(c, {})

(* session::save_session and delete_session: the whole file, whatever it says *)
(* by now.                                                                    *)
Put(c, r) == stored' = r /\ Acts(c)
Saved(c, r, step) == /\ Put(c, r)
                     /\ cmd' = [cmd EXCEPT ![c].at = step, ![c].base = r]

Worktree(b, s) == work' = [work EXCEPT ![b] = s]
Disk == <<stored, work, asked, kept>>
Screen == <<tmux, panes>>
Started == begun < MaxCommands /\ begun' = begun + 1
NoWindow == tmux' = FALSE /\ panes' = {}

-----------------------------------------------------------------------------
(* git paw add.                                                               *)

Duplicate(r, b) == b \in Listed(r)

AddReads(c, b) ==
  /\ cmd[c] = Idle /\ Started
  /\ stored # Nothing /\ EffectiveStatus(stored) # "stopped" /\ ~Duplicate(stored, b)
  /\ Be(c, "add", "lock", b)
  /\ UNCHANGED <<Disk, Screen, addLock>>

(* Mutant of Lock: a lock file that is there already is no error. *)
LockShared(c) ==
  /\ cmd[c].at = "lock" /\ addLock' = c
  /\ Goto(c, IF cmd[c].kind = "add" THEN "attach" ELSE "kill")
  /\ UNCHANGED <<Disk, Screen, begun, mishaps>>

(* The first caller gets the lock, the second an error. *)
Lock(c) ==
  /\ cmd[c].at = "lock"
  /\ IF addLock = Nothing
     THEN addLock' = c /\ Goto(c, IF cmd[c].kind = "add" THEN "attach" ELSE "kill")
     ELSE Done(c) /\ UNCHANGED addLock
  /\ UNCHANGED <<Disk, Screen, begun, mishaps>>

(* attach_agent: the worktree, made or reused, and its port block.  It may    *)
(* fail before the worktree is there or after.                                *)
Attach(c) ==
  /\ Doing(c, "add", "attach")
  /\ \/ /\ Worktree(cmd[c].branch, AllocateSlot(cmd[c].seen)) /\ Goto(c, "spawn")
        /\ Acts(c) /\ UNCHANGED addLock
     \/ /\ Worktree(cmd[c].branch, AllocateSlot(cmd[c].seen)) \/ UNCHANGED work
        /\ Notes(c, {"pane"}) /\ Unlock /\ Done(c)
  /\ UNCHANGED <<stored, asked, kept, Screen, begun>>

Spawn(c) ==
  /\ Doing(c, "add", "spawn")
  /\ \/ /\ tmux /\ panes' = panes \union {cmd[c].branch} /\ Goto(c, "save")
        /\ Acts(c) /\ UNCHANGED addLock
     \/ /\ Notes(c, {"pane"}) /\ Unlock /\ Done(c) /\ UNCHANGED panes
  /\ UNCHANGED <<Disk, tmux, begun>>

(* The prompt of a paused session's agent is held in its entry. *)
HoldsPrompt(r) == r.status = "paused"
WithAgent(r, b) == [r EXCEPT !.agents = @ \union
                      {[branch |-> b, slot |-> AllocateSlot(r), held |-> HoldsPrompt(r)]}]

AddSaves(c) ==
  LET r == WithAgent(cmd[c].seen, cmd[c].branch) IN
  /\ Doing(c, "add", "save")
  /\ asked' = asked \ {cmd[c].branch}
  /\ IF HoldsPrompt(r) THEN Put(c, r) /\ Unlock /\ Done(c)
                       ELSE Saved(c, r, "gate") /\ UNCHANGED addLock
  /\ UNCHANGED <<work, kept, Screen, begun>>

(* The boot prompt, once the CLI is ready; a dialog in its way fails add. *)
Gate(c) ==
  /\ Doing(c, "add", "gate") /\ Unlock /\ Done(c)
  /\ \/ asked' = asked \union {cmd[c].branch} /\ cmd[c].branch \in panes /\ Acts(c)
     \/ Notes(c, {"pane"}) /\ UNCHANGED asked
  /\ UNCHANGED <<stored, work, kept, Screen, begun>>

-----------------------------------------------------------------------------
(* git paw remove.  The check for uncommitted work may refuse.                *)

RemoveReads(c, b) ==
  /\ cmd[c] = Idle /\ Started
  /\ b \in Listed(stored) /\ Be(c, "remove", "lock", b)
  /\ kept' = kept \ {b}
  /\ UNCHANGED <<stored, work, asked, Screen, addLock>>

RemoveKills(c) ==
  /\ Doing(c, "remove", "kill") /\ panes' = panes \ {cmd[c].branch}
  /\ Goto(c, "detach") /\ Acts(c)
  /\ UNCHANGED <<Disk, tmux, addLock, begun>>

(* --keep-worktree leaves the directory. *)
RemoveDetaches(c) ==
  /\ Doing(c, "remove", "detach") /\ Goto(c, "save")
  /\ Acts(c) /\ (Worktree(cmd[c].branch, Nothing) \/ UNCHANGED work)
  /\ UNCHANGED <<stored, asked, kept, Screen, addLock, begun>>

(* Mutant of Without: the first entry goes, not the one found. *)
WithoutFirst(r, b) ==
  [r EXCEPT !.agents = @ \ {CHOOSE e \in @ : \A f \in @ : e.slot <= f.slot}]

Without(r, b) == [r EXCEPT !.agents = {e \in @ : e.branch # b}]

RemoveSaves(c) ==
  /\ Doing(c, "remove", "save") /\ Put(c, Without(cmd[c].seen, cmd[c].branch))
  /\ Unlock /\ Done(c)
  /\ UNCHANGED <<work, asked, kept, Screen, begun>>

-----------------------------------------------------------------------------
(* git paw stop, pause and purge.  None of them takes the lock.               *)

StopReads(c) ==
  /\ cmd[c] = Idle /\ Started /\ stored # Nothing /\ Be(c, "stop", "kill", Nothing)
  /\ UNCHANGED <<Disk, Screen, addLock>>

(* tmux goes, with every pane. *)
Kills(c) ==
  /\ cmd[c].kind \in {"stop", "purge"} /\ cmd[c].at = "kill" /\ NoWindow
  /\ Goto(c, IF cmd[c].kind = "stop" THEN "save" ELSE "detach") /\ Acts(c)
  /\ UNCHANGED <<Disk, addLock, begun>>

OthersIdle(c) == \A d \in Callers \ {c} : cmd[d] = Idle

StopSaves(c) ==
  /\ Doing(c, "stop", "save") /\ Put(c, [cmd[c].seen EXCEPT !.status = "stopped"]) /\ Done(c)
  /\ kept' = IF OthersIdle(c) THEN {b \in Listed(cmd[c].seen) : work[b] # Nothing} ELSE {}
  /\ UNCHANGED <<work, asked, Screen, addLock, begun>>

PauseReads(c) ==
  /\ cmd[c] = Idle /\ Started
  /\ stored # Nothing /\ stored.status # "paused" /\ EffectiveStatus(stored) # "stopped"
  /\ Be(c, "pause", "save", Nothing)
  /\ UNCHANGED <<Disk, Screen, addLock>>

PauseSaves(c) ==
  /\ Doing(c, "pause", "save") /\ Put(c, [cmd[c].seen EXCEPT !.status = "paused"]) /\ Done(c)
  /\ UNCHANGED <<work, asked, kept, Screen, addLock, begun>>

PurgeReads(c) ==
  /\ cmd[c] = Idle /\ Started /\ stored # Nothing /\ Be(c, "purge", "kill", Nothing)
  /\ kept' = {}
  /\ UNCHANGED <<stored, work, asked, Screen, addLock>>

(* teardown: the worktrees of the copy, then the receipt.  One that cannot be *)
(* removed stays, with a warning.                                             *)
Detaches(c) ==
  /\ cmd[c].kind \in {"purge", "start"} /\ cmd[c].at = "detach"
  /\ \E gone \in SUBSET Listed(cmd[c].seen) :
       work' = [b \in Branches |-> IF b \in gone THEN Nothing ELSE work[b]]
  /\ Goto(c, "delete") /\ Acts(c)
  /\ UNCHANGED <<stored, asked, kept, Screen, addLock, begun>>

(* A start that found the receipt stale goes on to a fresh launch. *)
Deletes(c) ==
  /\ cmd[c].at = "delete"
  /\ IF cmd[c].kind = "start" THEN Saved(c, Nothing, "launch")
     ELSE Put(c, Nothing) /\ Done(c)
  /\ UNCHANGED <<work, asked, kept, Screen, addLock, begun>>

-----------------------------------------------------------------------------
(* git paw start: purge a stale receipt, restart from pause, recover, or      *)
(* launch afresh; a session that runs is only attached to.                    *)

Ways(r) == IF r = Nothing THEN "launch"
           ELSE IF StaleReceipt(r) THEN "detach"
           ELSE IF EffectiveStatus(r) = "paused" THEN "host"
           ELSE IF EffectiveStatus(r) = "stopped" THEN "close" ELSE "idle"

StartReads(c) ==
  /\ cmd[c] = Idle /\ Started /\ Ways(stored) # "idle"
  /\ Be(c, "start", Ways(stored), Nothing)
  /\ UNCHANGED <<Disk, Screen, addLock>>

(* A fresh launch for one branch.  If a session of the name runs, the launch  *)
(* takes another name, which is not modelled.                                 *)
FreshLaunch(c, b) ==
  /\ Doing(c, "start", "launch") /\ ~tmux
  /\ tmux' = TRUE /\ panes' = {b} /\ Worktree(b, 0) /\ asked' = {b}
  /\ Put(c, Launched(b)) /\ Done(c)
  /\ UNCHANGED <<kept, addLock, begun>>

LaunchElsewhere(c) ==
  /\ Doing(c, "start", "launch") /\ tmux /\ Done(c)
  /\ UNCHANGED <<Disk, Screen, addLock, begun, mishaps>>

(* recover: what is left of the tmux session is closed, the receipt says      *)
(* active, and only then the session is built.                                *)
RecoverCloses(c) ==
  /\ Doing(c, "start", "close") /\ NoWindow
  /\ Saved(c, [cmd[c].seen EXCEPT !.status = "active"], "open")
  /\ UNCHANGED <<work, asked, kept, addLock, begun>>

RecoverOpens(c) ==
  /\ Doing(c, "start", "open")
  /\ \/ /\ ~tmux /\ tmux' = TRUE /\ panes' = Listed(cmd[c].seen) /\ Goto(c, "host")
        /\ Acts(c)
     \/ /\ Notes(c, {"recovery"}) /\ Done(c)
        /\ \/ UNCHANGED Screen
           \/ ~tmux /\ tmux' = TRUE /\ panes' \in SUBSET Listed(cmd[c].seen)
  /\ UNCHANGED <<Disk, addLock, begun>>

Recovering(c) == Doing(c, "start", "host") /\ cmd[c].base.status = "active"
Resuming(c) == Doing(c, "start", "host") /\ cmd[c].base.status = "paused"

(* The broker host comes up, or the recovery is undone. *)
RecoverHosts(c) ==
  /\ Recovering(c)
  /\ \/ kept' = {} /\ Done(c) /\ Acts(c) /\ UNCHANGED <<stored, Screen>>
     \/ NoWindow /\ Put(c, cmd[c].seen) /\ Done(c) /\ UNCHANGED kept
  /\ UNCHANGED <<work, asked, addLock, begun>>

(* restart_from_pause: the copy with the log path is written back, and the    *)
(* host started; a failure leaves the session paused.                         *)
ResumeHosts(c) ==
  /\ Resuming(c)
  /\ \/ Saved(c, cmd[c].seen, "submit")
     \/ Put(c, cmd[c].seen) /\ Done(c)
  /\ UNCHANGED <<work, asked, kept, Screen, addLock, begun>>

(* submit_held_boot_prompts: to every pane that is found and ready; the rest  *)
(* stays held.                                                                *)
Held(r) == {e.branch : e \in {f \in r.agents : f.held}}

(* Mutant of Cleared: a submitted prompt stays in the entry. *)
NotCleared(r, done) == r

Cleared(r, done) ==
  [r EXCEPT !.agents = {[e EXCEPT !.held = @ /\ e.branch \notin done] : e \in @}]

ResumeSubmits(c) ==
  /\ Doing(c, "start", "submit")
  /\ \E done \in SUBSET (Held(cmd[c].seen) \intersect panes) :
       /\ asked' = asked \union done
       /\ cmd' = [cmd EXCEPT ![c].at = "save", ![c].seen = Cleared(@, done)] /\ Acts(c)
  /\ UNCHANGED <<stored, work, kept, Screen, addLock, begun>>

ResumeSaves(c) ==
  /\ Doing(c, "start", "save") /\ Put(c, [cmd[c].seen EXCEPT !.status = "active"]) /\ Done(c)
  /\ UNCHANGED <<work, asked, kept, Screen, addLock, begun>>

-----------------------------------------------------------------------------
(* Beside the commands: tmux dies with the machine or its server, a command   *)
(* is killed, and the user removes the lock file it left.                     *)

TmuxDies == tmux /\ NoWindow /\ UNCHANGED <<Disk, addLock, cmd, begun, mishaps>>

Killed(c) == /\ cmd[c] # Idle /\ Done(c)
             /\ addLock' = IF addLock = c THEN Dead ELSE addLock
             /\ mishaps' = mishaps \union {"killed"}
             /\ UNCHANGED <<Disk, Screen, begun>>

LockRemoved == /\ addLock = Dead /\ addLock' = Nothing
               /\ UNCHANGED <<Disk, Screen, cmd, begun, mishaps>>

ReceiptNext ==
  \/ \E c \in Callers :
       \/ \E b \in Branches : AddReads(c, b) \/ RemoveReads(c, b) \/ FreshLaunch(c, b)
       \/ Lock(c) \/ Attach(c) \/ Spawn(c) \/ AddSaves(c) \/ Gate(c)
       \/ RemoveKills(c) \/ RemoveDetaches(c) \/ RemoveSaves(c)
       \/ StopReads(c) \/ Kills(c) \/ StopSaves(c) \/ PauseReads(c) \/ PauseSaves(c)
       \/ PurgeReads(c) \/ Detaches(c) \/ Deletes(c)
       \/ StartReads(c) \/ LaunchElsewhere(c)
       \/ RecoverCloses(c) \/ RecoverOpens(c) \/ RecoverHosts(c)
       \/ ResumeHosts(c) \/ ResumeSubmits(c) \/ ResumeSaves(c) \/ Killed(c)
  \/ TmuxDies \/ LockRemoved

ReceiptSpec == ReceiptInit /\ [][ReceiptNext]_receiptVars
-----------------------------------------------------------------------------
(* The state is of its type.                                                  *)
CommandRecords == [kind : Kinds \union {Nothing}, at : CommandSteps,
                   branch : Branches \union {Nothing},
                   seen : SavedReceipts, base : SavedReceipts]

ReceiptTypeOK ==
  /\ stored \in SavedReceipts /\ tmux \in BOOLEAN /\ panes \subseteq Branches
  /\ work \in [Branches -> Slots \union {Nothing}] /\ asked \subseteq Branches
  /\ addLock \in Callers \union {Nothing, Dead}
  /\ cmd \in [Callers -> CommandRecords]
  /\ begun \in 0 .. MaxCommands /\ mishaps \subseteq Mishaps /\ kept \subseteq Branches

(* Two agents that run at the same time have different port blocks, unless a  *)
(* save undid another one or a command failed half way                        *)
(* (worktree_provision.rs: allocate_slot).                                    *)
SharedSlotNeedsAMishap ==
  mishaps = {} => \A b, d \in panes : b # d => work[b] # work[d]

(* Every pane has an entry in the receipt and every entry a worktree, as soon *)
(* as no command is under way: what start, stop and purge know of is what is  *)
(* there (add.rs, remove.rs, recover.rs).                                     *)
AtRest == \A c \in Callers : cmd[c] = Idle
ReceiptIsComplete ==
  (AtRest /\ mishaps = {}) => /\ panes \subseteq Listed(stored)
                              /\ \A b \in Listed(stored) : work[b] # Nothing

(* At most one add or remove is past taking the lock, and the lock file is    *)
(* its own: also when another was killed with the lock and the user removed   *)
(* the file it left (lock.rs: SessionLock::acquire, drop).                    *)
PastLock(c) == Locked(cmd[c].kind) /\ cmd[c].at # "lock"
OneHolder == \A c, d \in Callers : PastLock(c) /\ PastLock(d) => c = d /\ addLock = c

(* The lock has one holder, and while nothing has gone wrong commands that    *)
(* overlap leave a receipt that lists what is there and shares no port block. *)
ReceiptIsSound == OneHolder /\ SharedSlotNeedsAMishap /\ ReceiptIsComplete

(* A boot prompt is held or has been typed, never both and never neither: the *)
(* next resume neither repeats it nor forgets it (start.rs:                   *)
(* submit_held_boot_prompts).                                                 *)
HeldOrAsked ==
  AtRest /\ mishaps = {} /\ stored # Nothing =>
    \A e \in stored.agents : e.held <=> e.branch \notin asked

(* What a stop left on disk stays there until the user removes or purges it,  *)
(* or has the session back (stop.rs: "Worktrees and state preserved").        *)
StopKeepsWork == \A b \in kept : work[b] # Nothing
=============================================================================
