------------------------------ MODULE PaneClaim ------------------------------
(* The exclusive claim on one agent pane (src/supervisor/claim.rs and         *)
(* assets/scripts/sweep.sh) and those who type into the pane under it: the    *)
(* drive loop's nudges, its submission of buffered input and its branch       *)
(* refresh (src/supervisor/drive.rs), and sweep.sh approve.  The claim is a   *)
(* file; it is created, judged by its age, removed and created again in       *)
(* separate system calls, and any of those processes may be killed.           *)
EXTENDS Naturals, FiniteSets

CONSTANTS Loop,      \* the drive loop
          Helpers,   \* processes that run sweep.sh approve
          Nobody,    \* the maker of a claim whose process was killed
          Ttl,       \* CLAIM_TTL, in units of time
          Settle,    \* the settle delay of the pane's CLI
          GitTime,   \* the longest a branch refresh takes
          Attempts,  \* NUDGE_RECOVERY_ATTEMPTS
          MaxKills   \* bound: processes killed

Senders == {Loop} \union Helpers

ASSUME SendersAssumption == Loop \notin Helpers /\ Nobody \notin Senders
ASSUME TimeAssumption == {Ttl, Settle, GitTime} \subseteq Nat /\ Attempts \in Nat \ {0}
ASSUME BoundAssumption == MaxKills \in Nat

VARIABLES
  claim,      \* the claim file: who made it and its age, or NoClaim
  at,         \* the step each sender is at
  wait,       \* time it has still to sleep before that step
  errand,     \* what the loop wants of the pane
  tries,      \* recovery attempts it has begun
  begun,      \* errands and helpers begun in this unit of time
  screen,     \* what the pane shows
  line,       \* text stands in its input box (under a prompt: behind it)
  confirmed,  \* helpers that have seen the prompt which the pane shows
  \* history
  kills,      \* processes killed
  raced       \* a steal removed a claim that was not old

pane == <<screen, line, confirmed>>
loop == <<errand, tries, begun>>
vars == <<claim, at, wait, loop, pane, kills, raced>>

NoClaim == [by |-> Nobody, age |-> Ttl + 2]
Claims == [by : Senders \union {Nobody}, age : 0 .. Ttl + 1] \union {NoClaim}
Errands == {"nudge", "submit", "refresh"}
Acquiring == {"create", "judge", "unlink", "recreate"}
Holding == {"capture", "type", "enter", "verify", "clear", "digit", "git", "release"}
Steps == {"idle", "push", "recheck"} \union Acquiring \union Holding
Holders == {s \in Senders : at[s] \in Holding}

(* A wave under way; a prompt may already be waiting. *)
Init == /\ claim = NoClaim
        /\ at = [s \in Senders |-> "idle"] /\ wait = [s \in Senders |-> 0]
        /\ errand = "nudge" /\ tries = 0 /\ begun = {}
        /\ screen \in {"idle", "busy", "prompt"} /\ line = FALSE /\ confirmed = {}
        /\ kills = 0 /\ raced = FALSE

Ready(s, step) == at[s] = step /\ wait[s] = 0
Goto(s, step, time) == at' = [at EXCEPT ![s] = step] /\ wait' = [wait EXCEPT ![s] = time]
Step(s, from, to) == Ready(s, from) /\ Goto(s, to, 0)
ClaimStays == UNCHANGED <<claim, raced, kills>>

-----------------------------------------------------------------------------
(* Around the senders.                                                       *)

(* A unit of time; whoever does not sleep is done with its steps before. *)
Tick == /\ \A s \in Senders : at[s] = "idle" \/ wait[s] > 0
        /\ wait' = [s \in Senders |-> IF wait[s] > 0 THEN wait[s] - 1 ELSE 0]
        /\ claim' = IF claim # NoClaim /\ claim.age <= Ttl
                    THEN [claim EXCEPT !.age = @ + 1] ELSE claim
        /\ begun' = {}
        /\ UNCHANGED <<at, errand, tries, pane, kills, raced>>

(* The agent finishes its turn, or asks for a permission. *)
AgentStops == /\ screen = "busy" /\ screen' \in {"idle", "prompt"}
              /\ UNCHANGED <<claim, at, wait, loop, line, confirmed, kills, raced>>

(* SIGKILL: no destructor and no trap runs.  The process is started again     *)
(* some time.                                                                 *)
Killed(s) == /\ at[s] # "idle" /\ kills < MaxKills /\ kills' = kills + 1
             /\ Goto(s, "idle", 0)
             /\ claim' = IF claim # NoClaim /\ claim.by = s
                         THEN [claim EXCEPT !.by = Nobody] ELSE claim
             /\ confirmed' = confirmed \ {s}
             /\ UNCHANGED <<loop, screen, line, raced>>

-----------------------------------------------------------------------------
(* The claim: try_acquire, and acquire_pane_claim of the shell.              *)

(* What a sender does first once it holds the pane. *)
FirstStep(s) == IF s # Loop \/ errand = "nudge" THEN "capture"
                ELSE IF errand = "submit" THEN "clear" ELSE "git"

Made(s) == claim' = [by |-> s, age |-> 0]

(* Mutant of Refused: the guard is there before the file, its drop removes.   *)
RefusedDrops(s) == Goto(s, "idle", 0) /\ claim' = NoClaim

(* Another holds the pane: it is left alone until the next attempt. *)
Refused(s) == Goto(s, "idle", 0) /\ UNCHANGED claim

Acquired(s) == IF s = Loop /\ errand = "refresh"
               THEN \E t \in 0 .. GitTime : Goto(s, FirstStep(s), t)
               ELSE Goto(s, FirstStep(s), 0)

(* create_new, or a redirection under noclobber. *)
Create(s) == /\ Ready(s, "create")
             /\ IF claim = NoClaim THEN Made(s) /\ Acquired(s)
                                   ELSE Goto(s, "judge", 0) /\ UNCHANGED claim
             /\ UNCHANGED <<loop, pane, kills, raced>>

(* Mutant of Abandoned: nothing is. *)
NeverAbandoned == FALSE

Abandoned == claim # NoClaim /\ claim.age > Ttl

Judge(s) == /\ Ready(s, "judge")
            /\ IF Abandoned THEN Goto(s, "unlink", 0) /\ UNCHANGED claim ELSE Refused(s)
            /\ UNCHANGED <<loop, pane, kills, raced>>

(* remove_file fails when the file has gone, rm -f does not. *)
Unlink(s) == /\ Ready(s, "unlink")
             /\ IF s = Loop /\ claim = NoClaim
                THEN Refused(s) ELSE claim' = NoClaim /\ Goto(s, "recreate", 0)
             /\ raced' = (raced \/ (claim # NoClaim /\ ~Abandoned))
             /\ UNCHANGED <<loop, pane, kills>>

Recreate(s) == /\ Ready(s, "recreate")
               /\ IF claim = NoClaim THEN Made(s) /\ Acquired(s) ELSE Refused(s)
               /\ UNCHANGED <<loop, pane, kills, raced>>

(* The guard's drop, or the trap: whatever is at the path goes. *)
Release(s) == /\ Step(s, "release", "idle") /\ claim' = NoClaim
              /\ confirmed' = confirmed \ {s}
              /\ UNCHANGED <<loop, screen, line, kills, raced>>

-----------------------------------------------------------------------------
(* Keys.                                                                      *)

(* Enter answers a prompt with the option it stands on; it submits the text   *)
(* in the box, unless the CLI swallows it.                                    *)
Enter ==
  \/ /\ screen = "prompt" /\ screen' = "busy" /\ confirmed' = {} /\ UNCHANGED line
  \/ /\ screen # "prompt" /\ line /\ line' = FALSE /\ screen' = "busy"
     /\ UNCHANGED confirmed
  \/ screen # "prompt" /\ UNCHANGED pane

(* Text, or a digit, goes into the box; a prompt takes no text.              *)
Typed == line' = (line \/ screen # "prompt") /\ UNCHANGED <<screen, confirmed>>

-----------------------------------------------------------------------------
(* sweep.sh approve.                                                          *)

Approve(h) == /\ h \notin begun /\ begun' = begun \union {h}
              /\ Step(h, "idle", "create")
              /\ UNCHANGED <<errand, tries, pane>> /\ ClaimStays

(* Only a live prompt is answered, and only if its first option is no lasting *)
(* grant.                                                                     *)
Reconfirm(h) == /\ h \in Helpers /\ Ready(h, "capture")
                /\ \/ /\ screen = "prompt" /\ Goto(h, "digit", 0)
                      /\ confirmed' = confirmed \union {h}
                   \/ Goto(h, "release", 0) /\ UNCHANGED confirmed
                /\ UNCHANGED <<loop, screen, line>> /\ ClaimStays

(* Whether tmux took a key is not looked at. *)
Digit(h) == /\ Step(h, "digit", "enter") /\ (Typed \/ UNCHANGED pane)
            /\ UNCHANGED loop /\ ClaimStays

ApproveEnter(h) == /\ h \in Helpers /\ Step(h, "enter", "release")
                   /\ Enter \/ UNCHANGED pane
                   /\ UNCHANGED loop /\ ClaimStays

-----------------------------------------------------------------------------
(* The drive loop.                                                            *)

Quiet == UNCHANGED pane /\ ClaimStays

(* Mutant of Buffered: whether a prompt is up is not looked at. *)
BufferedAnyhow == screen # "busy" /\ line

(* An idle pane with text in its box. *)
Buffered == screen = "idle" /\ line

Begin(e) == /\ e \notin begun /\ (e = "submit" => Buffered)
            /\ Step(Loop, "idle", IF e = "submit" THEN "push" ELSE "create")
            /\ errand' = e /\ tries' = (IF e = "submit" THEN 1 ELSE 0)
            /\ begun' = begun \union {e} /\ Quiet

(* The first Enter of a submission needs no claim. *)
Push == /\ Ready(Loop, "push") /\ UNCHANGED loop /\ ClaimStays
        /\ \/ Enter /\ Goto(Loop, "recheck", Settle)
           \/ Goto(Loop, "idle", 0) /\ UNCHANGED pane

Recheck == /\ Ready(Loop, "recheck") /\ UNCHANGED loop /\ Quiet
           /\ Goto(Loop, IF Buffered THEN "create" ELSE "idle", 0)

(* A nudge goes to any pane without a prompt. *)
Capture == /\ Ready(Loop, "capture") /\ UNCHANGED loop /\ Quiet
           /\ Goto(Loop, IF screen = "prompt" THEN "release" ELSE "type", 0)

Type == /\ Ready(Loop, "type") /\ Goto(Loop, "enter", Settle)
        /\ Typed /\ UNCHANGED loop /\ ClaimStays

Submit == /\ Ready(Loop, "enter") /\ Goto(Loop, "verify", Settle)
          /\ Enter /\ UNCHANGED loop /\ ClaimStays

(* Mutant of MayRetry: one attempt too many. *)
RetryOnceMore == tries <= Attempts

MayRetry == tries < Attempts

(* Text that is still there is cleared and typed again, or given up. *)
Verify == /\ Ready(Loop, "verify") /\ UNCHANGED <<errand, begun>> /\ Quiet
          /\ IF Buffered /\ MayRetry
             THEN Goto(Loop, "clear", 0) /\ tries' = tries + 1
             ELSE Goto(Loop, "release", 0) /\ UNCHANGED tries

(* C-u; a placeholder in the box is not touched, nor is a box that has        *)
(* emptied before the claim was had.                                          *)
Clear == /\ Ready(Loop, "clear") /\ UNCHANGED loop /\ ClaimStays
         /\ \/ /\ Goto(Loop, "type", 0) /\ line' = (line /\ screen = "prompt")
               /\ UNCHANGED <<screen, confirmed>>
            \/ errand = "submit" /\ tries = 1 /\ Goto(Loop, "release", 0) /\ UNCHANGED pane

(* A key the loop could not send ends its attempt. *)
SendFails == /\ at[Loop] \in {"type", "enter", "clear"} /\ wait[Loop] = 0
             /\ Goto(Loop, "release", 0)
             /\ UNCHANGED loop /\ Quiet

(* The branch is looked at and rebased while the claim is held. *)
Git == Step(Loop, "git", "release") /\ UNCHANGED loop /\ Quiet

-----------------------------------------------------------------------------
Takes(s) == Create(s) \/ Judge(s) \/ Unlink(s) \/ Recreate(s) \/ Release(s)
Works(h) == Reconfirm(h) \/ Digit(h) \/ ApproveEnter(h)
Drives == Push \/ Recheck \/ Capture \/ Type \/ Submit \/ Verify \/ Clear \/ SendFails \/ Git

Next == \/ Tick \/ AgentStops \/ Drives \/ \E e \in Errands : Begin(e)
        \/ \E s \in Senders : Takes(s) \/ Killed(s)
        \/ \E h \in Helpers : Approve(h) \/ Works(h)

Spec == Init /\ [][Next]_vars

(* Time passes, a process that runs goes on, and the loop, which keeps a      *)
(* correction pending until it was sent, comes back to the pane; it does so   *)
(* once a sweep, and a unit is the most often a sender begins.                *)
FairSpec == /\ Spec /\ WF_vars(Tick) /\ SF_vars(Begin("nudge")) /\ WF_vars(Drives)
            /\ \A s \in Senders : WF_vars(Takes(s))
            /\ \A h \in Helpers : WF_vars(Works(h))

-----------------------------------------------------------------------------
TypeOK ==
  /\ claim \in Claims /\ at \in [Senders -> Steps]
  /\ wait \in [Senders -> 0 .. Settle + GitTime]
  /\ errand \in Errands /\ tries \in 0 .. Attempts
  /\ begun \subseteq Errands \union Helpers
  /\ screen \in {"idle", "busy", "prompt"} /\ line \in BOOLEAN
  /\ confirmed \subseteq Helpers
  /\ kills \in 0 .. MaxKills /\ raced \in BOOLEAN

(* Exactly one sender can hold a pane at a time (docs                         *)
(* user-guide/supervisor.md, "One sender per pane, enforced").                *)
OneSender == Cardinality(Holders) <= 1

(* The digit and the Enter of an approval reach the prompt that was confirmed *)
(* on the capture, and not one that came up after it (sweep.sh cmd_approve).  *)
ApprovedAsSeen ==
  \A h \in Helpers : at[h] \in {"digit", "enter"} => h \in confirmed

(* Both hold unless a sender was killed and two others stole its claim at     *)
(* once, the later one removing the file the earlier one had made; a sender   *)
(* that lives is robbed in no other way, however long its nudge takes         *)
(* (claim.rs try_acquire, is_abandoned; drive.rs NUDGE_RECOVERY_ATTEMPTS).    *)
PaneIsKept == /\ raced \/ (OneSender /\ ApprovedAsSeen)
              /\ raced => kills > 0

(* A killed sender does not wedge the pane: its claim goes, while there is    *)
(* somebody who wants the pane (claim.rs CLAIM_TTL).                          *)
Orphaned == claim # NoClaim /\ claim.by = Nobody
PaneComesBack == Orphaned ~> ~Orphaned
=============================================================================
