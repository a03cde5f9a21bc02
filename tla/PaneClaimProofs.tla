--------------------------- MODULE PaneClaimProofs ---------------------------
(***************************************************************************)
(* Theorems about PaneClaim, for every number of helpers, any number of    *)
(* recovery attempts and processes killed, and any delays that fit into    *)
(* the limit of a claim.                                                   *)
(***************************************************************************)
EXTENDS PaneClaim, FiniteSetTheorems, TLAPS

\* A nudge with all its recoveries, and a branch refresh, end before their claim
\* counts as abandoned.  The defaults do (three times two settle delays of 1.5
\* seconds against ten); a configured submit_delay_ms can be too long.
Rest(rounds) == 2 * Settle * rounds
DelaysFit == Rest(1 + Attempts) <= Ttl /\ GitTime <= Ttl

\* The type invariant, by what the steps leave alone together.
TypeClaim == claim \in Claims /\ kills \in 0 .. MaxKills /\ raced \in BOOLEAN
TypePlace == at \in [Senders -> Steps] /\ wait \in [Senders -> 0 .. Settle + GitTime]
TypeLoop == /\ errand \in Errands /\ tries \in 0 .. Attempts
            /\ begun \subseteq Errands \union Helpers
TypePane == /\ screen \in {"idle", "busy", "prompt"} /\ line \in BOOLEAN
            /\ confirmed \subseteq Helpers

\* Only the loop sleeps, and only before these steps.
Sleeping == {"recheck", "enter", "verify", "git"}
WaitInv == \A s \in Senders : wait[s] > 0 => s = Loop /\ at[s] \in Sleeping

\* Nothing is left behind, stolen or raced for unless a sender was killed.
OrphanInv == /\ claim # NoClaim /\ claim.by = Nobody => kills > 0
             /\ \A s \in Senders : at[s] \in {"unlink", "recreate"} => kills > 0
             /\ raced => kills > 0

\* A prompt that was confirmed is the one on the screen.
SeenInv == confirmed # {} => screen = "prompt"

\* Until two steals race, the file names the one sender that holds the pane.
OwnInv == ~raced => \A s \in Senders : at[s] \in Holding <=> claim.by = s

\* And it is young: a helper does not sleep, and the loop has less still to sleep
\* than its claim has to live.
Left == IF at[Loop] \in {"capture", "clear", "type"} THEN Rest(1 + Attempts - tries)
        ELSE IF at[Loop] = "enter" THEN wait[Loop] + Settle + Rest(Attempts - tries)
        ELSE IF at[Loop] = "verify" THEN wait[Loop] + Rest(Attempts - tries)
        ELSE IF at[Loop] = "git" THEN wait[Loop] ELSE 0
AgeInv == ~raced => /\ \A h \in Helpers : claim.by = h => claim.age = 0
                    /\ claim.by = Loop => claim.age + Left <= Ttl

\* The prompt an approval is about to answer was confirmed, and the loop's Enter
\* without a claim finds no prompt.
AnswerInv == ~raced => ApprovedAsSeen /\ (at[Loop] = "push" => screen = "idle")

ClaimInv == WaitInv /\ OrphanInv /\ SeenInv /\ OwnInv /\ AgeInv /\ AnswerInv
IInv == TypeOK /\ ClaimInv

-----------------------------------------------------------------------------
\* What the rounds still to go cost.
LEMMA RestIsLinear ==
    ASSUME NEW n \in Nat, NEW m \in Nat
    PROVE  Rest(n) \in Nat /\ Rest(n + m) = Rest(n) + Rest(m) /\ Rest(1) = 2 * Settle
BY TimeAssumption DEF Rest

LEMMA LoopIsSender == Loop \in Senders /\ Nobody \notin Senders /\ Helpers \subseteq Senders
                      /\ Loop \notin Helpers
BY SendersAssumption DEF Senders

LEMMA TypeParts == TypeOK <=> TypeClaim /\ TypePlace /\ TypeLoop /\ TypePane
BY DEF TypeOK, TypeClaim, TypePlace, TypeLoop, TypePane

LEMMA TypePartsNext == TypeOK' <=> TypeClaim' /\ TypePlace' /\ TypeLoop' /\ TypePane'
BY DEF TypeOK, TypeClaim, TypePlace, TypeLoop, TypePane

\* No claim has no maker and no age that a claim could have.
LEMMA ClaimFacts ==
    ASSUME TypeOK
    PROVE  /\ NoClaim.by = Nobody /\ NoClaim \in Claims
           /\ claim # NoClaim => claim.by \in Senders \union {Nobody} /\ claim.age \in 0 .. Ttl + 1
           /\ claim.by \in Senders => claim # NoClaim
           /\ claim # NoClaim => claim = [by |-> claim.by, age |-> claim.age]
           /\ \A s \in Senders : [by |-> s, age |-> 0] \in Claims
BY LoopIsSender, TimeAssumption DEF TypeOK, Claims, NoClaim

\* A sender that goes to a step is there, and the others are where they were.
LEMMA Goes ==
    ASSUME TypeOK, NEW s \in Senders, NEW step \in Steps, NEW time \in 0 .. Settle + GitTime,
           Goto(s, step, time)
    PROVE  /\ TypePlace' /\ at'[s] = step /\ wait'[s] = time
           /\ \A r \in Senders : r # s => at'[r] = at[r] /\ wait'[r] = wait[r]
BY DEF TypeOK, TypePlace, Goto

\* The time a sender that holds the claim has still to sleep is a number.
LEMMA LeftType == ASSUME TypeOK PROVE Left \in Nat
<1>1. Attempts - tries \in Nat /\ 1 + Attempts - tries \in Nat
  BY TimeAssumption DEF TypeOK
<1>2. Rest(Attempts - tries) \in Nat /\ Rest(1 + Attempts - tries) \in Nat
  BY <1>1, RestIsLinear
<1>3. wait[Loop] \in Nat /\ Settle \in Nat
  BY LoopIsSender, TimeAssumption DEF TypeOK
<1> QED
  BY <1>2, <1>3 DEF Left

LEMMA LeftTypeNext == ASSUME TypeOK' PROVE Left' \in Nat
<1>0. PICK n \in 0 .. Attempts : n = tries'
  BY DEF TypeOK
<1>1. Attempts - tries' \in Nat /\ 1 + Attempts - tries' \in Nat
  <2>1. Attempts - n \in Nat /\ 1 + Attempts - n \in Nat
    BY TimeAssumption
  <2> QED
    BY <1>0, <2>1
<1>2. Rest(Attempts - tries') \in Nat /\ Rest(1 + Attempts - tries') \in Nat
  BY <1>1, RestIsLinear
<1>3. wait'[Loop] \in Nat /\ Settle \in Nat
  BY LoopIsSender, TimeAssumption DEF TypeOK
<1> QED
  BY <1>2, <1>3 DEF Left, Rest

\* A step that leaves the claim to whoever has it.
LEMMA Moves ==
    ASSUME IInv, NEW s \in Senders, NEW step \in Steps, NEW time \in 0 .. Settle + GitTime,
           Goto(s, step, time), UNCHANGED <<claim, raced, kills>>,
           at[s] \in Holding <=> step \in Holding,
           step \in {"unlink", "recreate"} => kills > 0,
           time > 0 => s = Loop /\ step \in Sleeping
    PROVE  /\ TypePlace' /\ TypeClaim' /\ WaitInv' /\ OrphanInv' /\ OwnInv'
           /\ at'[s] = step /\ wait'[s] = time
           /\ \A r \in Senders : r # s => at'[r] = at[r] /\ wait'[r] = wait[r]
<1>1. /\ TypePlace' /\ at'[s] = step /\ wait'[s] = time
      /\ \A r \in Senders : r # s => at'[r] = at[r] /\ wait'[r] = wait[r]
  BY Goes DEF IInv
<1>2. TypeClaim'
  BY TypeParts DEF IInv, TypeClaim
<1>3. WaitInv'
  BY <1>1 DEF IInv, ClaimInv, WaitInv
<1>4. OrphanInv'
  BY <1>1 DEF IInv, ClaimInv, OrphanInv
<1>5. OwnInv'
  BY <1>1 DEF IInv, ClaimInv, OwnInv
<1> QED
  BY <1>1, <1>2, <1>3, <1>4, <1>5

\* It keeps the claim young if it leaves less to sleep, or is none of the loop's.
LEMMA StaysYoung ==
    ASSUME IInv, UNCHANGED <<claim, raced>>, Left' \in Nat,
           ~raced /\ claim.by = Loop => Left' <= Left
    PROVE  AgeInv'
<1>1. ASSUME ~raced, claim.by = Loop PROVE claim.age + Left' <= Ttl
  <2>1. claim.age + Left <= Ttl /\ Left' <= Left
    BY <1>1 DEF IInv, ClaimInv, AgeInv
  <2>2. claim.age \in Nat /\ Left \in Nat /\ Ttl \in Nat
    BY <1>1, ClaimFacts, LeftType, LoopIsSender, TimeAssumption DEF IInv
  <2> QED
    BY <2>1, <2>2
<1> QED
  BY <1>1 DEF IInv, ClaimInv, AgeInv

LEMMA InitIInv == Init => IInv
<1> SUFFICES ASSUME Init PROVE IInv
  OBVIOUS
<1>1. claim = NoClaim /\ NoClaim \in Claims /\ claim.by = Nobody
  BY DEF Init, NoClaim, Claims
<1>2. TypeOK
  <2>1. TypeClaim
    <3>1. kills \in 0 .. MaxKills
      BY BoundAssumption DEF Init
    <3>2. raced \in BOOLEAN
      BY DEF Init
    <3> QED
      BY <1>1, <3>1, <3>2 DEF TypeClaim
  <2>2. TypePlace
    <3>1. 0 \in 0 .. Settle + GitTime
      BY TimeAssumption
    <3> QED
      BY <3>1 DEF Init, TypePlace, Steps
  <2>3. TypeLoop
    BY TimeAssumption DEF Init, TypeLoop, Errands
  <2>4. TypePane
    BY DEF Init, TypePane
  <2> QED
    BY <2>1, <2>2, <2>3, <2>4, TypeParts
<1>3. WaitInv /\ OrphanInv /\ SeenInv /\ AnswerInv
  <2>1. /\ \A s \in Senders : wait[s] = 0 /\ at[s] = "idle"
        /\ confirmed = {} /\ ~raced
    BY DEF Init
  <2>2. WaitInv
    BY <2>1 DEF WaitInv
  <2>3. OrphanInv /\ SeenInv
    BY <1>1, <2>1 DEF OrphanInv, SeenInv
  <2>4. AnswerInv
    BY <2>1, LoopIsSender DEF AnswerInv, ApprovedAsSeen
  <2> QED
    BY <2>2, <2>3, <2>4
<1>4. OwnInv /\ AgeInv
  BY <1>1, LoopIsSender DEF Init, OwnInv, AgeInv, Holding
<1> QED
  BY <1>2, <1>3, <1>4 DEF IInv, ClaimInv

-----------------------------------------------------------------------------
(* Around the senders.                                                       *)

\* Time passes only while whoever holds the claim sleeps.
LEMMA TickStep ==
    ASSUME IInv, Tick PROVE IInv'
<1>0. TypeClaim /\ TypePlace /\ TypeLoop /\ TypePane /\ ClaimInv /\ Ttl \in Nat
  BY TypeParts, TimeAssumption DEF IInv
<1>1. /\ \A s \in Senders : at[s] = "idle" \/ wait[s] > 0
      /\ wait' = [s \in Senders |-> IF wait[s] > 0 THEN wait[s] - 1 ELSE 0]
      /\ UNCHANGED <<at, errand, tries, screen, line, confirmed, kills, raced>>
  BY DEF Tick, pane
<1>2. \A s \in Senders : wait[s] \in 0 .. Settle + GitTime
                         /\ wait'[s] = IF wait[s] > 0 THEN wait[s] - 1 ELSE 0
  BY <1>0, <1>1 DEF TypePlace
<1>3. \/ claim' = claim
      \/ claim # NoClaim /\ claim' = [by |-> claim.by, age |-> claim.age + 1]
         /\ claim.age + 1 \in 0 .. Ttl + 1
  <2>1. CASE claim # NoClaim /\ claim.age <= Ttl
    <3>1. claim' = [claim EXCEPT !.age = @ + 1]
      BY <2>1 DEF Tick
    <3>2. claim = [by |-> claim.by, age |-> claim.age] /\ claim.age \in 0 .. Ttl + 1
      BY <2>1, ClaimFacts DEF IInv
    <3> QED
      BY <1>0, <2>1, <3>1, <3>2
  <2>2. CASE ~(claim # NoClaim /\ claim.age <= Ttl)
    BY <2>2 DEF Tick
  <2> QED
    BY <2>1, <2>2
<1>4. claim' \in Claims /\ claim'.by = claim.by /\ (claim' # NoClaim => claim # NoClaim)
  BY <1>0, <1>3, ClaimFacts DEF IInv, Claims, TypeClaim
<1>5. TypeClaim' /\ TypePane'
  BY <1>0, <1>1, <1>4 DEF TypeClaim, TypePane
<1>6. TypePlace'
  <2>1. \A s \in Senders : (IF wait[s] > 0 THEN wait[s] - 1 ELSE 0) \in 0 .. Settle + GitTime
    BY <1>2, TimeAssumption
  <2>2. wait' \in [Senders -> 0 .. Settle + GitTime]
    BY <1>1, <2>1
  <2> QED
    BY <1>0, <1>1, <2>2 DEF TypePlace
<1>7. TypeLoop'
  BY <1>0, <1>1 DEF Tick, TypeLoop
<1>8. WaitInv' /\ OrphanInv' /\ SeenInv' /\ OwnInv' /\ AnswerInv'
  BY <1>0, <1>1, <1>2, <1>4
     DEF ClaimInv, WaitInv, OrphanInv, SeenInv, OwnInv, AnswerInv, ApprovedAsSeen
<1>9. AgeInv'
  <2> SUFFICES ASSUME ~raced PROVE /\ \A h \in Helpers : claim.by # h
                                   /\ claim.by = Loop => claim'.age + Left' <= Ttl
    BY <1>1, <1>4 DEF AgeInv
  <2>1. ASSUME NEW s \in Senders, claim.by = s
        PROVE  s = Loop /\ at[Loop] \in {"enter", "verify", "git"} /\ wait[Loop] > 0
    <3>1. at[s] \in Holding /\ at[s] # "idle"
      BY <1>0, <2>1 DEF ClaimInv, OwnInv, Holding
    <3>2. wait[s] > 0 /\ s = Loop /\ at[s] \in Sleeping
      BY <1>0, <1>1, <3>1 DEF ClaimInv, WaitInv
    <3> QED
      BY <3>1, <3>2 DEF Holding, Sleeping
  <2>2. \A h \in Helpers : claim.by # h
    BY <2>1, LoopIsSender
  <2>3. ASSUME claim.by = Loop PROVE claim'.age + Left' <= Ttl
    <3>1. /\ at[Loop] \in {"enter", "verify", "git"} /\ at' = at /\ tries' = tries
          /\ wait[Loop] \in Nat \ {0} /\ wait'[Loop] = wait[Loop] - 1
      BY <1>1, <1>2, <2>1, <2>3, LoopIsSender
    <3>2. /\ claim.age + Left <= Ttl /\ Left \in Nat /\ claim.age \in Nat
          /\ claim'.age \in {claim.age, claim.age + 1}
      BY <1>0, <1>3, <2>3, ClaimFacts, LeftType, LoopIsSender DEF ClaimInv, AgeInv, IInv
    <3>3. Left' = Left - 1
      <4>1. Attempts - tries \in Nat /\ Rest(Attempts - tries) \in Nat /\ Settle \in Nat
        <5>1. Attempts - tries \in Nat /\ Settle \in Nat
          BY <1>0, TimeAssumption DEF TypeLoop
        <5> QED
          BY <5>1, RestIsLinear
      <4>2. PICK r \in Nat : r = Rest(Attempts - tries)
        BY <4>1
      <4>3. r = Rest(Attempts' - tries')
        BY <3>1, <4>2 DEF Rest
      <4>4. CASE at[Loop] = "enter"
        <5>1. Left = wait[Loop] + Settle + r /\ Left' = wait'[Loop] + Settle + r
          BY <3>1, <4>2, <4>3, <4>4 DEF Left
        <5> QED
          BY <3>1, <4>1, <5>1
      <4>5. CASE at[Loop] = "verify"
        <5>1. Left = wait[Loop] + r /\ Left' = wait'[Loop] + r
          BY <3>1, <4>2, <4>3, <4>5 DEF Left
        <5> QED
          BY <3>1, <5>1
      <4>6. CASE at[Loop] = "git"
        BY <3>1, <4>6 DEF Left
      <4> QED
        BY <3>1, <4>4, <4>5, <4>6
    <3> QED
      BY <1>0, <3>2, <3>3
  <2> QED
    BY <2>2, <2>3
<1> QED
  BY <1>5, <1>6, <1>7, <1>8, <1>9, TypePartsNext DEF IInv, ClaimInv

\* The agent alone brings a prompt up, and takes none away.
LEMMA AgentStep ==
    ASSUME IInv, AgentStops PROVE IInv'
<1>0. TypeClaim /\ TypePlace /\ TypeLoop /\ TypePane /\ ClaimInv
  BY TypeParts DEF IInv
<1>1. /\ screen = "busy" /\ screen' \in {"idle", "prompt"}
      /\ UNCHANGED <<claim, at, wait, errand, tries, begun, line, confirmed, kills, raced>>
  BY DEF AgentStops, loop
<1>2. TypeClaim' /\ TypePlace' /\ TypeLoop' /\ TypePane'
  BY <1>0, <1>1 DEF TypeClaim, TypePlace, TypeLoop, TypePane
<1>3. WaitInv' /\ OrphanInv' /\ SeenInv' /\ OwnInv' /\ AnswerInv'
  BY <1>0, <1>1
     DEF ClaimInv, WaitInv, OrphanInv, SeenInv, OwnInv, AnswerInv, ApprovedAsSeen
<1>4. Left' = Left
  BY <1>1 DEF Left
<1>5. AgeInv'
  BY <1>0, <1>1, <1>4 DEF ClaimInv, AgeInv
<1> QED
  BY <1>2, <1>3, <1>5, TypePartsNext DEF IInv, ClaimInv

\* A killed sender leaves a claim without a maker.
LEMMA KilledStep ==
    ASSUME IInv, NEW s \in Senders, Killed(s) PROVE IInv'
<1>0. TypeClaim /\ TypePlace /\ TypeLoop /\ TypePane /\ ClaimInv
  BY TypeParts DEF IInv
<1>1. /\ kills < MaxKills /\ kills' = kills + 1 /\ Goto(s, "idle", 0)
      /\ claim' = IF claim # NoClaim /\ claim.by = s THEN [claim EXCEPT !.by = Nobody] ELSE claim
      /\ confirmed' = confirmed \ {s}
      /\ UNCHANGED <<errand, tries, begun, screen, line, raced>>
  BY DEF Killed, loop
<1>2. /\ TypePlace' /\ at'[s] = "idle" /\ wait'[s] = 0
      /\ \A r \in Senders : r # s => at'[r] = at[r] /\ wait'[r] = wait[r]
  <2>1. "idle" \in Steps /\ 0 \in 0 .. Settle + GitTime
    BY TimeAssumption DEF Steps
  <2> QED
    BY <1>1, <2>1, Goes DEF IInv
<1>3. /\ claim' \in Claims /\ claim'.by # s
      /\ \A r \in Senders : r # s => (claim'.by = r <=> claim.by = r)
      /\ claim' = claim \/ claim'.by = Nobody
  <2>1. CASE claim # NoClaim /\ claim.by = s
    <3>1. claim = [by |-> claim.by, age |-> claim.age] /\ claim.age \in 0 .. Ttl + 1
      BY <2>1, ClaimFacts DEF IInv
    <3>2. claim' = [by |-> Nobody, age |-> claim.age]
      BY <1>1, <2>1, <3>1
    <3> QED
      BY <2>1, <3>1, <3>2, LoopIsSender DEF Claims
  <2>2. CASE ~(claim # NoClaim /\ claim.by = s)
    <3>1. claim' = claim /\ claim.by # s
      BY <1>1, <2>2, ClaimFacts DEF IInv
    <3> QED
      BY <1>0, <3>1 DEF TypeClaim
  <2> QED
    BY <2>1, <2>2
<1>4. kills' \in 0 .. MaxKills /\ kills' > 0
  BY <1>0, <1>1, BoundAssumption DEF TypeClaim
<1>5. TypeClaim' /\ TypeLoop' /\ TypePane'
  BY <1>0, <1>1, <1>3, <1>4 DEF TypeClaim, TypeLoop, TypePane
<1>6. WaitInv' /\ OrphanInv' /\ SeenInv' /\ OwnInv'
  BY <1>0, <1>1, <1>2, <1>3, <1>4
     DEF ClaimInv, WaitInv, OrphanInv, SeenInv, OwnInv, Holding
<1>7. AgeInv'
  <2> SUFFICES ASSUME ~raced PROVE /\ \A h \in Helpers : claim'.by = h => claim'.age = 0
                                   /\ claim'.by = Loop => claim'.age + Left' <= Ttl
    BY <1>1 DEF AgeInv
  <2>1. ASSUME NEW h \in Helpers, claim'.by = h PROVE claim'.age = 0
    BY <1>0, <1>3, <2>1, LoopIsSender DEF ClaimInv, AgeInv
  <2>2. ASSUME claim'.by = Loop PROVE claim'.age + Left' <= Ttl
    <3>1. s # Loop /\ claim' = claim
      BY <1>3, <2>2, LoopIsSender
    <3>2. Left' = Left
      BY <1>1, <1>2, <3>1, LoopIsSender DEF Left
    <3> QED
      BY <1>0, <2>2, <3>1, <3>2 DEF ClaimInv, AgeInv
  <2> QED
    BY <2>1, <2>2
<1>8. AnswerInv'
  BY <1>0, <1>1, <1>2, LoopIsSender DEF ClaimInv, AnswerInv, ApprovedAsSeen
<1> QED
  BY <1>2, <1>5, <1>6, <1>7, <1>8, TypePartsNext DEF IInv, ClaimInv

-----------------------------------------------------------------------------
(* The claim.                                                                *)

\* A sender that finds no claim makes one, and goes to its first step: under the
\* loop's claim the delays of all its rounds are still ahead.
LEMMA AcquireStep ==
    ASSUME IInv, DelaysFit, NEW s \in Senders, claim = NoClaim, Made(s), Acquired(s),
           at[s] \in Acquiring, UNCHANGED <<loop, pane, kills, raced>>
    PROVE  IInv'
<1>0. TypeClaim /\ TypePlace /\ TypeLoop /\ TypePane /\ ClaimInv
  BY TypeParts DEF IInv
<1>1. PICK step \in {"capture", "clear", "git"}, time \in 0 .. GitTime :
        /\ Goto(s, step, time) /\ (s # Loop => step = "capture")
        /\ (step # "git" => time = 0)
  <2>1. CASE s = Loop /\ errand = "refresh"
    <3>1. FirstStep(s) = "git"
      BY <2>1 DEF FirstStep
    <3> QED
      BY <2>1, <3>1 DEF Acquired
  <2>2. CASE ~(s = Loop /\ errand = "refresh")
    <3>1. /\ FirstStep(s) \in {"capture", "clear"} /\ Goto(s, FirstStep(s), 0)
          /\ (s # Loop => FirstStep(s) = "capture")
      BY <1>0, <2>2 DEF FirstStep, Acquired, TypeLoop, Errands
    <3>2. 0 \in 0 .. GitTime
      BY TimeAssumption
    <3> QED
      BY <3>1, <3>2
  <2> QED
    BY <2>1, <2>2
<1>2. /\ TypePlace' /\ at'[s] = step /\ wait'[s] = time
      /\ \A r \in Senders : r # s => at'[r] = at[r] /\ wait'[r] = wait[r]
  <2>1. step \in Steps /\ time \in 0 .. Settle + GitTime
    BY <1>1, TimeAssumption DEF Steps, Holding
  <2> QED
    BY <1>1, <2>1, Goes DEF IInv
<1>3. /\ claim' = [by |-> s, age |-> 0] /\ claim' \in Claims /\ claim.by = Nobody
      /\ claim'.by = s /\ claim'.age = 0
  BY ClaimFacts DEF Made, IInv
<1>4. UNCHANGED <<errand, tries, begun, screen, line, confirmed, kills, raced>>
  BY DEF loop, pane
<1>5. TypeClaim' /\ TypeLoop' /\ TypePane'
  BY <1>0, <1>3, <1>4 DEF TypeClaim, TypeLoop, TypePane
<1>6. WaitInv'
  <2>1. time > 0 => s = Loop /\ step = "git"
    BY <1>1, TimeAssumption
  <2> QED
    BY <1>0, <1>2, <2>1 DEF ClaimInv, WaitInv, Sleeping
<1>7. OrphanInv' /\ SeenInv'
  BY <1>0, <1>2, <1>3, <1>4, LoopIsSender DEF ClaimInv, OrphanInv, SeenInv
<1>8. OwnInv'
  BY <1>0, <1>2, <1>3, <1>4, LoopIsSender DEF ClaimInv, OwnInv, Holding
<1>9. AgeInv'
  <2>1. ASSUME s = Loop PROVE Left' <= Ttl
    <3>1. CASE step = "git"
      BY <1>2, <2>1, <3>1, TimeAssumption DEF Left, DelaysFit
    <3>2. CASE step \in {"capture", "clear"}
      <4>1. Left' = Rest(1 + Attempts - tries)
        BY <1>2, <1>4, <2>1, <3>2 DEF Left, Rest
      <4>2. 1 + Attempts - tries \in Nat /\ tries \in Nat
            /\ 1 + Attempts = (1 + Attempts - tries) + tries
        BY <1>0, TimeAssumption DEF TypeLoop
      <4>3. /\ Rest(1 + Attempts) = Rest(1 + Attempts - tries) + Rest(tries)
            /\ Rest(1 + Attempts - tries) \in Nat /\ Rest(tries) \in Nat
        <5>1. PICK n \in Nat, m \in Nat :
                n = 1 + Attempts - tries /\ m = tries /\ 1 + Attempts = n + m
          BY <4>2
        <5>2. Rest(n) \in Nat /\ Rest(m) \in Nat /\ Rest(n + m) = Rest(n) + Rest(m)
          BY RestIsLinear
        <5> QED
          BY <5>1, <5>2
      <4> QED
        BY <4>1, <4>3, TimeAssumption DEF DelaysFit
    <3> QED
      BY <1>1, <3>1, <3>2
  <2>2. claim'.by = Loop => claim'.age + Left' <= Ttl
    <3>1. ASSUME claim'.by = Loop PROVE claim'.age + Left' <= Ttl
      <4>1. Left' <= Ttl /\ Left' \in Nat
        BY <1>2, <1>3, <1>5, <2>1, <3>1, LeftTypeNext, TypePartsNext
      <4> QED
        BY <1>3, <4>1, TimeAssumption
    <3> QED
      BY <3>1
  <2> QED
    BY <1>3, <2>2 DEF AgeInv
<1>10. AnswerInv'
  <2> SUFFICES ASSUME ~raced
               PROVE  ApprovedAsSeen' /\ (at'[Loop] = "push" => screen' = "idle")
    BY <1>4 DEF AnswerInv
  <2>1. ApprovedAsSeen'
    BY <1>0, <1>1, <1>2, <1>4, LoopIsSender DEF ClaimInv, AnswerInv, ApprovedAsSeen
  <2>2. at'[Loop] = "push" => screen' = "idle"
    BY <1>0, <1>1, <1>2, <1>4, LoopIsSender DEF ClaimInv, AnswerInv
  <2> QED
    BY <2>1, <2>2
<1> QED
  BY <1>2, <1>5, <1>6, <1>7, <1>8, <1>9, <1>10, TypePartsNext DEF IInv, ClaimInv

\* A sender that is refused, or goes on towards a claim, disturbs nobody.
LEMMA ApproachStep ==
    ASSUME IInv, NEW s \in Senders, NEW step \in {"idle", "create", "judge", "unlink"},
           Goto(s, step, 0), at[s] \notin Holding, step = "unlink" => kills > 0,
           UNCHANGED <<claim, kills, raced, pane>>, TypeLoop',
           s # Loop => UNCHANGED tries
    PROVE  IInv'
<1>1. /\ TypePlace' /\ TypeClaim' /\ WaitInv' /\ OrphanInv' /\ OwnInv'
      /\ at'[s] = step /\ wait'[s] = 0
      /\ \A r \in Senders : r # s => at'[r] = at[r] /\ wait'[r] = wait[r]
  <2>1. step \in Steps /\ step \notin Holding /\ 0 \in 0 .. Settle + GitTime /\ step # "recreate"
    BY TimeAssumption DEF Steps, Holding, Acquiring
  <2> QED
    BY <2>1, Moves
<1>2. TypePane' /\ SeenInv'
  BY TypeParts DEF IInv, ClaimInv, TypePane, SeenInv, pane
<1>3. AgeInv'
  <2>1. TypeOK'
    BY <1>1, <1>2, TypePartsNext
  <2>2. Left' \in Nat /\ Left \in Nat
    BY <2>1, LeftType, LeftTypeNext DEF IInv
  <2>3. Left' <= Left
    <3>1. CASE s = Loop
      <4>1. Left' = 0
        BY <1>1, <3>1 DEF Left
      <4> QED
        BY <2>2, <4>1
    <3>2. CASE s # Loop
      <4>1. Left' = Left
        BY <1>1, <3>2, LoopIsSender DEF Left
      <4> QED
        BY <2>2, <4>1
    <3> QED
      BY <3>1, <3>2
  <2> QED
    BY <2>2, <2>3, StaysYoung
<1>4. AnswerInv'
  BY <1>1, LoopIsSender DEF IInv, ClaimInv, AnswerInv, ApprovedAsSeen, pane
<1> QED
  BY <1>1, <1>2, <1>3, <1>4, TypePartsNext DEF IInv, ClaimInv

\* A claim that counts as abandoned has no maker any more, until steals race.
LEMMA OldIsOrphan ==
    ASSUME IInv, ~raced, Abandoned PROVE claim # NoClaim /\ claim.by = Nobody
<1>1. claim # NoClaim /\ claim.age \in Nat /\ claim.age > Ttl
      /\ claim.by \in Helpers \union {Loop, Nobody}
  BY ClaimFacts DEF Abandoned, IInv, Senders
<1>2. claim.by \notin Helpers
  BY <1>1, TimeAssumption DEF IInv, ClaimInv, AgeInv
<1>3. claim.by # Loop
  <2>1. claim.by = Loop => claim.age + Left <= Ttl /\ Left \in Nat
    BY LeftType DEF IInv, ClaimInv, AgeInv
  <2> QED
    BY <1>1, <2>1, TimeAssumption
<1> QED
  BY <1>1, <1>2, <1>3

\* Creating, judging, removing, creating again: a claim that is old has no maker
\* any more, and one that is removed while it is young was raced for.
LEMMA TakeStep ==
    ASSUME IInv, DelaysFit, NEW s \in Senders,
           Create(s) \/ Judge(s) \/ Unlink(s) \/ Recreate(s)
    PROVE  IInv'
<1>0. TypeClaim /\ TypePlace /\ TypeLoop /\ TypePane /\ ClaimInv
  BY TypeParts DEF IInv
<1>1. TypeLoop' /\ UNCHANGED <<tries, loop, pane, kills>>
  BY <1>0 DEF Create, Judge, Unlink, Recreate, loop, TypeLoop
<1>2. at[s] \in Acquiring /\ at[s] \notin Holding
  BY DEF Create, Judge, Unlink, Recreate, Ready, Acquiring, Holding
<1>3. ASSUME Refused(s), UNCHANGED raced PROVE IInv'
  <2>1. Goto(s, "idle", 0) /\ UNCHANGED claim
    BY <1>3 DEF Refused
  <2> QED
    BY <1>1, <1>2, <1>3, <2>1, ApproachStep
<1>4. ASSUME claim = NoClaim, Made(s), Acquired(s), UNCHANGED raced PROVE IInv'
  BY <1>1, <1>2, <1>4, AcquireStep
<1>5. CASE Create(s)
  <2>1. CASE claim = NoClaim
    BY <1>4, <1>5, <2>1 DEF Create
  <2>2. CASE claim # NoClaim
    <3>1. Goto(s, "judge", 0) /\ UNCHANGED <<claim, raced>>
      BY <1>5, <2>2 DEF Create
    <3> QED
      BY <1>1, <1>2, <3>1, ApproachStep
  <2> QED
    BY <2>1, <2>2
<1>6. CASE Judge(s)
  <2>1. CASE Abandoned
    <3>1. Goto(s, "unlink", 0) /\ UNCHANGED <<claim, raced>>
      BY <1>6, <2>1 DEF Judge
    <3>2. kills > 0
      BY <1>0, <2>1, OldIsOrphan DEF IInv, ClaimInv, OrphanInv
    <3> QED
      BY <1>1, <1>2, <3>1, <3>2, ApproachStep
  <2>2. CASE ~Abandoned
    BY <1>3, <1>6, <2>2 DEF Judge
  <2> QED
    BY <2>1, <2>2
<1>7. CASE Recreate(s)
  BY <1>3, <1>4, <1>7 DEF Recreate
<1>8. CASE Unlink(s)
  <2>0. raced' = (raced \/ (claim # NoClaim /\ ~Abandoned)) /\ at[s] = "unlink" /\ kills > 0
    BY <1>0, <1>8 DEF Unlink, Ready, ClaimInv, OrphanInv
  <2>1. CASE s = Loop /\ claim = NoClaim
    <3>1. raced' = raced
      BY <1>0, <2>0, <2>1 DEF TypeClaim
    <3> QED
      BY <1>3, <1>8, <2>1, <3>1 DEF Unlink
  <2>2. CASE ~(s = Loop /\ claim = NoClaim)
    <3>1. claim' = NoClaim /\ Goto(s, "recreate", 0) /\ claim'.by = Nobody
      BY <1>8, <2>2, ClaimFacts DEF Unlink, IInv
    <3>2. /\ TypePlace' /\ at'[s] = "recreate" /\ wait'[s] = 0
          /\ \A r \in Senders : r # s => at'[r] = at[r] /\ wait'[r] = wait[r]
      <4>1. "recreate" \in Steps /\ 0 \in 0 .. Settle + GitTime
        BY TimeAssumption DEF Steps, Acquiring
      <4> QED
        BY <3>1, <4>1, Goes DEF IInv
    <3>3. raced' \in BOOLEAN /\ claim' \in Claims
      BY <1>0, <2>0, <3>1, ClaimFacts DEF TypeClaim, IInv
    <3>4. TypeClaim' /\ TypePane'
      BY <1>0, <1>1, <3>3 DEF TypeClaim, TypePane, pane
    <3>5. WaitInv' /\ SeenInv'
      BY <1>0, <1>1, <3>2 DEF ClaimInv, WaitInv, SeenInv, pane
    <3>6. OrphanInv'
      BY <1>1, <2>0, <3>1 DEF OrphanInv
    <3>7. ~raced' => ~raced /\ \A r \in Senders : at[r] \notin Holding
      <4>1. ASSUME ~raced' PROVE ~raced /\ claim.by = Nobody
        <5>1. ~raced /\ (claim = NoClaim \/ Abandoned)
          BY <2>0, <4>1
        <5> QED
          BY <5>1, OldIsOrphan, ClaimFacts DEF IInv
      <4> QED
        BY <1>0, <4>1, LoopIsSender DEF ClaimInv, OwnInv
    <3>8. OwnInv'
      BY <3>1, <3>2, <3>7, LoopIsSender DEF OwnInv, Holding
    <3>9. AgeInv'
      BY <3>1, LoopIsSender DEF AgeInv
    <3>10. AnswerInv'
      BY <1>0, <1>1, <3>2, <3>7, LoopIsSender DEF ClaimInv, AnswerInv, ApprovedAsSeen, pane
    <3> QED
      BY <1>1, <3>2, <3>4, <3>5, <3>6, <3>8, <3>9, <3>10, TypePartsNext DEF IInv, ClaimInv
  <2> QED
    BY <2>1, <2>2
<1> QED
  BY <1>5, <1>6, <1>7, <1>8

\* A release takes the claim of the one that holds it.
LEMMA ReleaseStep ==
    ASSUME IInv, NEW s \in Senders, Release(s) PROVE IInv'
<1>0. TypeClaim /\ TypePlace /\ TypeLoop /\ TypePane /\ ClaimInv
  BY TypeParts DEF IInv
<1>1. /\ at[s] = "release" /\ Goto(s, "idle", 0) /\ claim' = NoClaim /\ claim'.by = Nobody
      /\ confirmed' = confirmed \ {s}
      /\ UNCHANGED <<errand, tries, begun, screen, line, kills, raced>>
  BY ClaimFacts DEF Release, Step, Ready, loop, IInv
<1>2. /\ TypePlace' /\ at'[s] = "idle" /\ wait'[s] = 0
      /\ \A r \in Senders : r # s => at'[r] = at[r] /\ wait'[r] = wait[r]
  <2>1. "idle" \in Steps /\ 0 \in 0 .. Settle + GitTime
    BY TimeAssumption DEF Steps
  <2> QED
    BY <1>1, <2>1, Goes DEF IInv
<1>3. TypeClaim' /\ TypeLoop' /\ TypePane'
  BY <1>0, <1>1, ClaimFacts DEF TypeClaim, TypeLoop, TypePane, IInv
<1>4. WaitInv' /\ SeenInv'
  BY <1>0, <1>1, <1>2 DEF ClaimInv, WaitInv, SeenInv
<1>5. OrphanInv'
  BY <1>0, <1>1, <1>2 DEF ClaimInv, OrphanInv
<1>6. OwnInv'
  BY <1>0, <1>1, <1>2, LoopIsSender DEF ClaimInv, OwnInv, Holding
<1>7. AgeInv'
  BY <1>1, LoopIsSender DEF AgeInv
<1>8. AnswerInv'
  BY <1>0, <1>1, <1>2, LoopIsSender DEF ClaimInv, AnswerInv, ApprovedAsSeen
<1> QED
  BY <1>2, <1>3, <1>4, <1>5, <1>6, <1>7, <1>8, TypePartsNext DEF IInv, ClaimInv

-----------------------------------------------------------------------------
(* sweep.sh approve.                                                          *)

LEMMA HelperStep ==
    ASSUME IInv, NEW h \in Helpers, Approve(h) \/ Works(h) PROVE IInv'
<1>0. /\ TypeClaim /\ TypePlace /\ TypeLoop /\ TypePane /\ ClaimInv
      /\ h \in Senders /\ h # Loop
  BY TypeParts, LoopIsSender DEF IInv
<1>1. CASE Approve(h)
  <2>1. /\ at[h] = "idle" /\ Goto(h, "create", 0)
        /\ UNCHANGED <<claim, kills, raced, pane, errand, tries>>
        /\ begun' = begun \union {h}
    BY <1>1 DEF Approve, Step, Ready, ClaimStays
  <2>2. TypeLoop' /\ at[h] \notin Holding
    BY <1>0, <2>1 DEF TypeLoop, Holding
  <2> QED
    BY <1>0, <2>1, <2>2, ApproachStep
<1>2. CASE Works(h)
  <2>1. PICK step \in {"digit", "enter", "release"} :
          /\ Goto(h, step, 0) /\ at[h] \in {"capture", "digit", "enter"}
          /\ UNCHANGED <<claim, kills, raced, loop>>
          /\ (step = "digit" => h \in confirmed')
          /\ (step = "enter" => at[h] = "digit" /\ UNCHANGED <<screen, confirmed>>)
    BY <1>2 DEF Works, Reconfirm, Digit, ApproveEnter, Step, Ready, ClaimStays, Typed, pane
  <2>2. /\ screen' \in {"idle", "busy", "prompt"} /\ line' \in BOOLEAN
        /\ confirmed' \subseteq Helpers /\ (confirmed' # {} => screen' = "prompt")
    <3>1. line' \in BOOLEAN
      BY <1>0, <1>2, Zenon
         DEF Works, Reconfirm, Digit, ApproveEnter, Typed, Enter, pane, TypePane
    <3>2. /\ screen' \in {"idle", "busy", "prompt"}
          /\ confirmed' \subseteq Helpers /\ (confirmed' # {} => screen' = "prompt")
      BY <1>0, <1>2
         DEF Works, Reconfirm, Digit, ApproveEnter, Typed, Enter, pane, TypePane,
             ClaimInv, SeenInv
    <3> QED
      BY <3>1, <3>2
  <2>3. /\ TypePlace' /\ TypeClaim' /\ WaitInv' /\ OrphanInv' /\ OwnInv'
        /\ at'[h] = step
        /\ \A r \in Senders : r # h => at'[r] = at[r] /\ wait'[r] = wait[r]
    <3>1. /\ step \in Steps /\ step \in Holding /\ step \notin {"unlink", "recreate"}
          /\ at[h] \in Holding /\ 0 \in 0 .. Settle + GitTime
      BY <2>1, TimeAssumption DEF Steps, Holding, Acquiring
    <3> QED
      BY <1>0, <2>1, <3>1, Moves
  <2>4. TypePane' /\ TypeLoop' /\ SeenInv'
    BY <1>0, <2>1, <2>2 DEF TypePane, TypeLoop, SeenInv, loop
  <2>5. AgeInv'
    <3>1. Left' = Left
      BY <1>0, <2>1, <2>3, LoopIsSender DEF Left, loop
    <3>2. Left \in Nat
      BY LeftType DEF IInv
    <3>3. Left' <= Left /\ Left' \in Nat
      BY <3>1, <3>2
    <3> QED
      BY <2>1, <3>3, StaysYoung
  <2>6. AnswerInv'
    <3> SUFFICES ASSUME ~raced
                 PROVE  ApprovedAsSeen' /\ (at'[Loop] = "push" => screen' = "idle")
      BY <2>1 DEF AnswerInv
    <3>1. \A r \in Senders : r # h => at[r] \notin Holding
      BY <1>0, <2>1, LoopIsSender DEF ClaimInv, OwnInv, Holding
    <3>2. ApprovedAsSeen
      BY <1>0 DEF ClaimInv, AnswerInv
    <3>3. ApprovedAsSeen'
      <4>1. ASSUME NEW r \in Helpers, at'[r] \in {"digit", "enter"} PROVE r \in confirmed'
        <5>1. r = h
          BY <2>3, <3>1, <4>1, LoopIsSender DEF Holding
        <5>2. at[h] = "digit" => h \in confirmed
          BY <3>2 DEF ApprovedAsSeen
        <5> QED
          BY <2>1, <2>3, <4>1, <5>1, <5>2
      <4> QED
        BY <4>1 DEF ApprovedAsSeen
    <3>4. ASSUME at'[Loop] = "push" PROVE screen' = "idle"
      <4>1. screen = "idle"
        BY <1>0, <2>3, <3>4, LoopIsSender DEF ClaimInv, AnswerInv
      <4>2. confirmed = {} /\ at[h] \notin {"digit", "enter"}
        BY <1>0, <3>2, <4>1 DEF ClaimInv, SeenInv, ApprovedAsSeen
      <4>3. at[h] = "capture" => UNCHANGED screen
        BY <1>2 DEF Works, Reconfirm, Digit, ApproveEnter, Step, Ready
      <4> QED
        BY <2>1, <4>1, <4>2, <4>3
    <3> QED
      BY <3>3, <3>4
  <2> QED
    BY <2>3, <2>4, <2>5, <2>6, TypePartsNext DEF IInv, ClaimInv
<1> QED
  BY <1>1, <1>2

-----------------------------------------------------------------------------
(* The drive loop.                                                            *)

\* A step of the loop that leaves it in or out of the pane as it is.
LEMMA LoopMoves ==
    ASSUME IInv, NEW step \in Steps \ {"unlink", "recreate", "push"},
           NEW time \in 0 .. Settle + GitTime, Goto(Loop, step, time),
           at[Loop] \in Holding <=> step \in Holding, time > 0 => step \in Sleeping,
           UNCHANGED <<claim, raced, kills>>, TypeLoop', TypePane', SeenInv',
           at[Loop] \in Holding \/ raced \/ UNCHANGED confirmed,
           at[Loop] \in Holding => Left' <= Left
    PROVE  IInv'
<1>1. /\ TypePlace' /\ TypeClaim' /\ WaitInv' /\ OrphanInv' /\ OwnInv'
      /\ at'[Loop] = step
      /\ \A r \in Senders : r # Loop => at'[r] = at[r] /\ wait'[r] = wait[r]
  BY Moves, LoopIsSender
<1>2. AgeInv'
  <2>1. TypeOK'
    BY <1>1, TypePartsNext
  <2>2. Left' \in Nat
    BY <2>1, LeftTypeNext
  <2>3. ~raced /\ claim.by = Loop => at[Loop] \in Holding
    BY LoopIsSender DEF IInv, ClaimInv, OwnInv
  <2> QED
    BY <2>2, <2>3, StaysYoung
<1>3. AnswerInv'
  <2> SUFFICES ASSUME ~raced, NEW h \in Helpers, at'[h] \in {"digit", "enter"}
               PROVE  h \in confirmed'
    BY <1>1 DEF AnswerInv, ApprovedAsSeen
  <2>1. h \in Senders /\ h # Loop /\ at[h] \in {"digit", "enter"}
    BY <1>1, LoopIsSender
  <2>2. at[Loop] \notin Holding
    BY <2>1, LoopIsSender DEF IInv, ClaimInv, OwnInv, Holding
  <2>3. h \in confirmed
    BY <2>1 DEF IInv, ClaimInv, AnswerInv, ApprovedAsSeen
  <2> QED
    BY <2>2, <2>3
<1> QED
  BY <1>1, <1>2, <1>3, TypePartsNext DEF IInv, ClaimInv

\* What the loop has still to sleep does not grow from one step under the claim to
\* the next: a round is two settle delays, and a recovery uses up a round.
LEMMA LeftShrinks ==
    ASSUME TypeOK, TypeOK', at[Loop] \in Holding,
           \/ /\ at[Loop] \in {"capture", "clear"} /\ at'[Loop] = "type" /\ tries' = tries
           \/ /\ at[Loop] = "type" /\ at'[Loop] = "enter" /\ wait'[Loop] = Settle
              /\ tries' = tries
           \/ /\ at[Loop] = "enter" /\ at'[Loop] = "verify" /\ wait'[Loop] = Settle
              /\ wait[Loop] = 0 /\ tries' = tries
           \/ /\ at[Loop] = "verify" /\ at'[Loop] = "clear" /\ wait[Loop] = 0
              /\ tries' = tries + 1
           \/ at'[Loop] = "release"
    PROVE  Left' <= Left
<1>1. Left \in Nat /\ Left' \in Nat
  BY LeftType, LeftTypeNext
<1>2. tries \in 0 .. Attempts /\ Attempts \in Nat /\ Settle \in Nat
  BY TimeAssumption DEF TypeOK
<1>3. PICK n \in Nat : /\ n = Attempts - tries /\ n + 1 = 1 + Attempts - tries
                       /\ tries' = tries + 1 => 1 + Attempts - tries' = n
  BY <1>2
<1>4. PICK r \in Nat : r = Rest(n) /\ Rest(n + 1) = r + 2 * Settle
  BY RestIsLinear
<1>5. CASE at[Loop] \in {"capture", "clear"} /\ at'[Loop] = "type" /\ tries' = tries
  <2>1. Left' = Left
    BY <1>5 DEF Left, Rest
  <2> QED
    BY <1>1, <2>1
<1>6. CASE at[Loop] = "type" /\ at'[Loop] = "enter" /\ wait'[Loop] = Settle /\ tries' = tries
  <2>1. Left = Rest(1 + Attempts - tries) /\ Left' = Settle + Settle + Rest(Attempts - tries)
    BY <1>6 DEF Left, Rest
  <2>2. Left = r + 2 * Settle /\ Left' = Settle + Settle + r
    BY <1>3, <1>4, <2>1
  <2> QED
    BY <1>2, <1>4, <2>2
<1>7. CASE /\ at[Loop] = "enter" /\ at'[Loop] = "verify" /\ wait'[Loop] = Settle
           /\ wait[Loop] = 0 /\ tries' = tries
  <2>1. Left = 0 + Settle + Rest(Attempts - tries) /\ Left' = Settle + Rest(Attempts - tries)
    BY <1>7 DEF Left, Rest
  <2>2. Left = Settle + r /\ Left' = Settle + r
    BY <1>2, <1>3, <1>4, <2>1
  <2> QED
    BY <1>2, <1>4, <2>2
<1>8. CASE /\ at[Loop] = "verify" /\ at'[Loop] = "clear" /\ wait[Loop] = 0
           /\ tries' = tries + 1
  <2>1. Left = 0 + Rest(Attempts - tries) /\ Left' = Rest(1 + Attempts - tries')
    BY <1>8 DEF Left, Rest
  <2>2. Left = r /\ Left' = r
    BY <1>3, <1>4, <1>8, <2>1
  <2> QED
    BY <1>4, <2>2
<1>9. CASE at'[Loop] = "release"
  <2>1. Left' = 0
    BY <1>9 DEF Left
  <2> QED
    BY <1>1, <2>1
<1> QED
  BY <1>5, <1>6, <1>7, <1>8, <1>9

\* An errand begins without the claim; a submission on a pane without a prompt.
LEMMA BeginStep ==
    ASSUME IInv, NEW e \in Errands, Begin(e) PROVE IInv'
<1>0. TypeClaim /\ TypePlace /\ TypeLoop /\ TypePane /\ ClaimInv /\ Loop \in Senders
  BY TypeParts, LoopIsSender DEF IInv
<1>1. /\ (e = "submit" => Buffered) /\ at[Loop] = "idle"
      /\ Goto(Loop, IF e = "submit" THEN "push" ELSE "create", 0)
      /\ errand' = e /\ tries' = (IF e = "submit" THEN 1 ELSE 0)
      /\ begun' = begun \union {e} /\ UNCHANGED <<claim, raced, kills, pane>>
  BY DEF Begin, Step, Ready, Quiet, ClaimStays
<1>2. TypeLoop' /\ at[Loop] \notin Holding
  BY <1>0, <1>1, TimeAssumption DEF TypeLoop, Holding
<1>3. CASE e # "submit"
  <2>1. Goto(Loop, "create", 0)
    BY <1>1, <1>3
  <2> QED
    BY <1>0, <1>1, <1>2, <2>1, ApproachStep
<1>4. CASE e = "submit"
  <2>1. /\ TypePlace' /\ TypeClaim' /\ WaitInv' /\ OrphanInv' /\ OwnInv'
        /\ at'[Loop] = "push"
        /\ \A r \in Senders : r # Loop => at'[r] = at[r] /\ wait'[r] = wait[r]
    <3>1. "push" \in Steps /\ "push" \notin Holding /\ 0 \in 0 .. Settle + GitTime
      BY TimeAssumption DEF Steps, Holding
    <3>2. Goto(Loop, "push", 0)
      BY <1>1, <1>4
    <3> QED
      BY <1>0, <1>1, <1>2, <3>1, <3>2, Moves
  <2>2. TypePane' /\ SeenInv'
    BY <1>0, <1>1 DEF TypePane, ClaimInv, SeenInv, pane
  <2>3. AgeInv'
    <3>1. ~raced => claim.by # Loop
      BY <1>0, <1>2 DEF ClaimInv, OwnInv
    <3>2. Left' \in Nat
      BY <1>2, <2>1, <2>2, TypePartsNext, LeftTypeNext
    <3> QED
      BY <1>1, <3>1, <3>2, StaysYoung
  <2>4. AnswerInv'
    BY <1>0, <1>1, <1>4, <2>1, LoopIsSender
       DEF ClaimInv, AnswerInv, ApprovedAsSeen, Buffered, pane
  <2> QED
    BY <1>2, <2>1, <2>2, <2>3, <2>4, TypePartsNext DEF IInv, ClaimInv
<1> QED
  BY <1>3, <1>4

LEMMA DriveStep ==
    ASSUME IInv, Drives PROVE IInv'
<1>0. TypeClaim /\ TypePlace /\ TypeLoop /\ TypePane /\ ClaimInv /\ Loop \in Senders
  BY TypeParts, LoopIsSender DEF IInv
<1>1. UNCHANGED <<claim, raced, kills>>
  BY DEF Drives, Push, Recheck, Capture, Type, Submit, Verify, Clear, SendFails, Git, Quiet,
         ClaimStays
<1>2. TypeLoop' /\ errand' = errand
  <2>1. CASE UNCHANGED loop
    BY <1>0, <2>1 DEF TypeLoop, loop
  <2>2. CASE Verify
    BY <1>0, <2>2, TimeAssumption DEF Verify, MayRetry, TypeLoop
  <2> QED
    BY <2>1, <2>2
       DEF Drives, Push, Recheck, Capture, Type, Submit, Clear, SendFails, Git
<1>3. TypePane' /\ SeenInv'
  <2>1. UNCHANGED pane \/ Enter \/ Typed
        \/ (line' = (line /\ screen = "prompt") /\ UNCHANGED <<screen, confirmed>>)
    BY DEF Drives, Push, Recheck, Capture, Type, Submit, Verify, Clear, SendFails, Git, Quiet
  <2>2. line' \in BOOLEAN
    BY <1>0, <2>1, Zenon DEF Enter, Typed, pane, TypePane
  <2>3. /\ screen' \in {"idle", "busy", "prompt"}
        /\ confirmed' \subseteq Helpers /\ (confirmed' # {} => screen' = "prompt")
    BY <1>0, <2>1 DEF Enter, Typed, pane, TypePane, ClaimInv, SeenInv
  <2> QED
    BY <2>2, <2>3 DEF TypePane, SeenInv
<1>4. {0, Settle} \subseteq 0 .. Settle + GitTime /\ Settle \in Nat
  BY TimeAssumption
<1>5. CASE Push
  <2>1. at[Loop] = "push" /\ at[Loop] \notin Holding
    BY <1>5 DEF Push, Ready, Holding
  <2>2. raced \/ UNCHANGED confirmed
    BY <1>0, <1>5, <2>1 DEF Push, Enter, ClaimInv, AnswerInv, pane
  <2>3. PICK step \in {"recheck", "idle"}, time \in {0, Settle} :
          Goto(Loop, step, time) /\ (time > 0 => step = "recheck")
    BY <1>4, <1>5 DEF Push
  <2>4. step \in Steps \ {"unlink", "recreate", "push"} /\ step \notin Holding
        /\ (time > 0 => step \in Sleeping) /\ time \in 0 .. Settle + GitTime
    BY <1>4, <2>3 DEF Steps, Holding, Sleeping
  <2> QED
    BY <1>1, <1>2, <1>3, <2>1, <2>2, <2>3, <2>4, LoopMoves
<1>6. CASE Recheck
  <2>1. at[Loop] \notin Holding /\ UNCHANGED confirmed
    BY <1>6 DEF Recheck, Ready, Holding, Quiet, pane
  <2>2. PICK step \in {"create", "idle"} : Goto(Loop, step, 0)
    BY <1>6 DEF Recheck
  <2>3. step \in Steps \ {"unlink", "recreate", "push"} /\ step \notin Holding
    BY DEF Steps, Holding, Acquiring
  <2> QED
    BY <1>1, <1>2, <1>3, <1>4, <2>1, <2>2, <2>3, LoopMoves
<1>7. CASE Capture \/ Type \/ Submit \/ Verify \/ Clear \/ SendFails \/ Git
  <2>1. PICK step \in {"type", "enter", "verify", "clear", "release"}, time \in {0, Settle} :
          /\ Goto(Loop, step, time) /\ at[Loop] \in Holding
          /\ (time > 0 => step \in {"enter", "verify"})
          /\ \/ at[Loop] \in {"capture", "clear"} /\ step = "type" /\ tries' = tries
             \/ at[Loop] = "type" /\ step = "enter" /\ time = Settle /\ tries' = tries
             \/ /\ at[Loop] = "enter" /\ step = "verify" /\ time = Settle
                /\ wait[Loop] = 0 /\ tries' = tries
             \/ at[Loop] = "verify" /\ step = "clear" /\ wait[Loop] = 0 /\ tries' = tries + 1
             \/ step = "release"
    <3>1. CASE Capture \/ SendFails \/ Git
      BY <3>1 DEF Capture, SendFails, Git, Step, Ready, Holding, loop
    <3>2. CASE Type
      BY <3>2 DEF Type, Ready, Holding, loop
    <3>3. CASE Submit
      BY <3>3 DEF Submit, Ready, Holding, loop
    <3>4. CASE Verify
      BY <3>4 DEF Verify, Ready, Holding
    <3>5. CASE Clear
      BY <3>5 DEF Clear, Ready, Holding, loop
    <3> QED
      BY <1>7, <3>1, <3>2, <3>3, <3>4, <3>5
  <2>2. /\ step \in Steps \ {"unlink", "recreate", "push"} /\ step \in Holding
        /\ (time > 0 => step \in Sleeping) /\ time \in 0 .. Settle + GitTime
    BY <1>4, <2>1 DEF Steps, Holding, Sleeping
  <2>3. TypePlace' /\ at'[Loop] = step /\ wait'[Loop] = time
    BY <1>0, <2>1, <2>2, Goes DEF IInv
  <2>4. TypeOK /\ TypeOK'
    <3>1. TypeClaim'
      BY <1>0, <1>1 DEF TypeClaim
    <3> QED
      BY <1>2, <1>3, <2>3, <3>1, TypePartsNext DEF IInv
  <2>5. Left' <= Left
    BY <2>1, <2>3, <2>4, LeftShrinks
  <2> QED
    BY <1>1, <1>2, <1>3, <2>1, <2>2, <2>5, LoopMoves
<1> QED
  BY <1>5, <1>6, <1>7 DEF Drives

-----------------------------------------------------------------------------
LEMMA StepIInv == DelaysFit /\ IInv /\ [Next]_vars => IInv'
<1> SUFFICES ASSUME DelaysFit, IInv, [Next]_vars PROVE IInv'
  OBVIOUS
<1>1. CASE Tick
  BY <1>1, TickStep
<1>2. CASE AgentStops
  BY <1>2, AgentStep
<1>3. CASE Drives
  BY <1>3, DriveStep
<1>4. ASSUME NEW e \in Errands, Begin(e) PROVE IInv'
  BY <1>4, BeginStep
<1>5. ASSUME NEW s \in Senders, Takes(s) \/ Killed(s) PROVE IInv'
  BY <1>5, TakeStep, ReleaseStep, KilledStep DEF Takes
<1>6. ASSUME NEW h \in Helpers, Approve(h) \/ Works(h) PROVE IInv'
  BY <1>6, HelperStep
<1>7. CASE UNCHANGED vars
  <2>1. UNCHANGED <<claim, at, wait, errand, tries, begun, screen, line, confirmed, kills, raced>>
    BY <1>7 DEF vars, loop, pane
  <2>2. TypeOK'
    BY <2>1 DEF IInv, TypeOK
  <2>3. WaitInv' /\ OrphanInv' /\ SeenInv' /\ OwnInv' /\ AnswerInv'
    BY <2>1
       DEF IInv, ClaimInv, WaitInv, OrphanInv, SeenInv, OwnInv, AnswerInv, ApprovedAsSeen
  <2>4. Left' = Left
    BY <2>1 DEF Left, Rest
  <2>5. AgeInv'
    BY <2>1, <2>4 DEF IInv, ClaimInv, AgeInv
  <2> QED
    BY <2>2, <2>3, <2>5 DEF IInv, ClaimInv
<1> QED
  BY <1>1, <1>2, <1>3, <1>4, <1>5, <1>6, <1>7 DEF Next

\* The invariant holds of every behaviour of the senders of a pane.
THEOREM PaneInvariant == ASSUME DelaysFit PROVE Spec => []IInv
<1>1. Init => IInv
  BY InitIInv
<1>2. IInv /\ [Next]_vars => IInv'
  BY StepIInv
<1> QED
  BY <1>1, <1>2, PTL DEF Spec

\* No step breaks a type, whatever the delays are.
LEMMA TypeStep == TypeOK /\ [Next]_vars => TypeOK'
<1> SUFFICES ASSUME TypeOK, [Next]_vars PROVE TypeOK'
  OBVIOUS
<1>0. /\ TypeClaim /\ TypePlace /\ TypeLoop /\ TypePane /\ Loop \in Senders
      /\ {0, Settle} \subseteq 0 .. Settle + GitTime /\ 0 .. GitTime \subseteq 0 .. Settle + GitTime
      /\ Settle \in Nat
  BY TypeParts, LoopIsSender, TimeAssumption
<1>1. CASE Tick
  <2>1. TypePlace'
    <3>1. \A s \in Senders : (IF wait[s] > 0 THEN wait[s] - 1 ELSE 0) \in 0 .. Settle + GitTime
      BY <1>0, TimeAssumption DEF TypePlace
    <3> QED
      BY <1>0, <1>1, <3>1 DEF Tick, TypePlace
  <2>2. claim' \in Claims
    <3>1. CASE claim # NoClaim /\ claim.age <= Ttl
      <4>1. /\ claim = [by |-> claim.by, age |-> claim.age] /\ claim.age + 1 \in 0 .. Ttl + 1
            /\ claim.by \in Senders \union {Nobody}
        BY <3>1, ClaimFacts, TimeAssumption
      <4>2. claim' = [by |-> claim.by, age |-> claim.age + 1]
        BY <1>1, <3>1, <4>1 DEF Tick
      <4> QED
        BY <4>1, <4>2 DEF Claims
    <3>2. CASE ~(claim # NoClaim /\ claim.age <= Ttl)
      BY <1>0, <1>1, <3>2 DEF Tick, TypeClaim
    <3> QED
      BY <3>1, <3>2
  <2>3. TypeClaim' /\ TypeLoop' /\ TypePane'
    BY <1>0, <1>1, <2>2 DEF Tick, TypeClaim, TypeLoop, TypePane, pane
  <2> QED
    BY <2>1, <2>3, TypePartsNext
<1>2. CASE AgentStops
  BY <1>0, <1>2, TypePartsNext
     DEF AgentStops, TypeClaim, TypePlace, TypeLoop, TypePane, loop
<1>3. ASSUME NEW s \in Senders, NEW step \in Steps, NEW time \in 0 .. Settle + GitTime,
             Goto(s, step, time), TypeClaim', TypeLoop', TypePane'
      PROVE  TypeOK'
  BY <1>3, Goes, TypePartsNext
<1>4. CASE Drives
  <2>1. PICK step \in Steps, time \in {0, Settle} : Goto(Loop, step, time)
    BY <1>4 DEF Drives, Push, Recheck, Capture, Type, Submit, Verify, Clear, SendFails, Git,
                Step, Steps, Holding, Acquiring
  <2>2. UNCHANGED pane \/ Enter \/ Typed
        \/ (line' = (line /\ screen = "prompt") /\ UNCHANGED <<screen, confirmed>>)
    BY <1>4
       DEF Drives, Push, Recheck, Capture, Type, Submit, Verify, Clear, SendFails, Git, Quiet
  <2>3. TypePane'
    <3>1. line' \in BOOLEAN
      BY <1>0, <2>2, Zenon DEF Enter, Typed, pane, TypePane
    <3>2. screen' \in {"idle", "busy", "prompt"} /\ confirmed' \subseteq Helpers
      BY <1>0, <2>2 DEF Enter, Typed, pane, TypePane
    <3> QED
      BY <3>1, <3>2 DEF TypePane
  <2>4. TypeLoop'
    <3>1. CASE UNCHANGED loop
      BY <1>0, <3>1 DEF TypeLoop, loop
    <3>2. CASE Verify
      BY <1>0, <3>2, TimeAssumption DEF Verify, MayRetry, TypeLoop
    <3> QED
      BY <1>4, <3>1, <3>2
         DEF Drives, Push, Recheck, Capture, Type, Submit, Clear, SendFails, Git
  <2>5. TypeClaim'
    BY <1>0, <1>4
       DEF Drives, Push, Recheck, Capture, Type, Submit, Verify, Clear, SendFails, Git, Quiet,
           ClaimStays, TypeClaim
  <2> QED
    BY <1>0, <1>3, <2>1, <2>3, <2>4, <2>5
<1>5. ASSUME NEW e \in Errands, Begin(e) PROVE TypeOK'
  <2>1. PICK step \in Steps : Goto(Loop, step, 0)
    BY <1>5 DEF Begin, Step, Steps, Acquiring
  <2>2. TypeClaim' /\ TypeLoop' /\ TypePane'
    BY <1>0, <1>5, TimeAssumption
       DEF Begin, Quiet, ClaimStays, TypeClaim, TypeLoop, TypePane, pane
  <2> QED
    BY <1>0, <1>3, <2>1, <2>2
<1>6. ASSUME NEW s \in Senders, Takes(s) PROVE TypeOK'
  <2>1. PICK step \in Steps, time \in 0 .. GitTime : Goto(s, step, time)
    <3>1. 0 \in 0 .. GitTime /\ FirstStep(s) \in Steps
      BY TimeAssumption DEF FirstStep, Steps, Holding
    <3> QED
      BY <1>6, <3>1
         DEF Takes, Create, Judge, Unlink, Recreate, Release, Step, Acquired, Refused,
             Steps, Acquiring
  <2>2. claim' \in Claims
    BY <1>0, <1>6, ClaimFacts
       DEF Takes, Create, Judge, Unlink, Recreate, Release, Refused, Made, TypeClaim
  <2>3. raced' \in BOOLEAN
    <3>1. raced' = raced \/ Unlink(s)
      BY <1>6 DEF Takes, Create, Judge, Recreate, Release
    <3> QED
      BY <1>0, <3>1 DEF Unlink, TypeClaim
  <2>4. TypeLoop' /\ TypePane' /\ kills' = kills
    BY <1>0, <1>6
       DEF Takes, Create, Judge, Unlink, Recreate, Release, TypeLoop, TypePane, loop, pane
  <2> QED
    BY <1>0, <1>3, <2>1, <2>2, <2>3, <2>4 DEF TypeClaim
<1>7. ASSUME NEW s \in Senders, Killed(s) PROVE TypeOK'
  <2>1. Goto(s, "idle", 0) /\ "idle" \in Steps
    BY <1>7 DEF Killed, Steps
  <2>2. claim' \in Claims
    <3>1. CASE claim # NoClaim /\ claim.by = s
      <4>1. claim = [by |-> claim.by, age |-> claim.age] /\ claim.age \in 0 .. Ttl + 1
        BY <3>1, ClaimFacts
      <4>2. claim' = [by |-> Nobody, age |-> claim.age]
        BY <1>7, <3>1, <4>1 DEF Killed
      <4> QED
        BY <4>1, <4>2 DEF Claims
    <3>2. CASE ~(claim # NoClaim /\ claim.by = s)
      BY <1>0, <1>7, <3>2 DEF Killed, TypeClaim
    <3> QED
      BY <3>1, <3>2
  <2>3. kills' \in 0 .. MaxKills
    BY <1>0, <1>7, BoundAssumption DEF Killed, TypeClaim
  <2>4. TypeClaim' /\ TypeLoop' /\ TypePane'
    BY <1>0, <1>7, <2>2, <2>3 DEF Killed, TypeClaim, TypeLoop, TypePane, loop
  <2> QED
    BY <1>0, <1>3, <2>1, <2>4
<1>8. ASSUME NEW h \in Helpers, Approve(h) \/ Works(h) PROVE TypeOK'
  <2>1. PICK step \in Steps : Goto(h, step, 0)
    BY <1>8
       DEF Approve, Works, Reconfirm, Digit, ApproveEnter, Step, Steps, Holding, Acquiring
  <2>2. TypeClaim' /\ TypeLoop'
    BY <1>0, <1>8
       DEF Approve, Works, Reconfirm, Digit, ApproveEnter, ClaimStays, TypeClaim, TypeLoop, loop
  <2>3. line' \in BOOLEAN
    BY <1>0, <1>8, Zenon
       DEF Approve, Works, Reconfirm, Digit, ApproveEnter, Typed, Enter, pane, TypePane
  <2>4. screen' \in {"idle", "busy", "prompt"} /\ confirmed' \subseteq Helpers
    BY <1>0, <1>8
       DEF Approve, Works, Reconfirm, Digit, ApproveEnter, Typed, Enter, pane, TypePane
  <2> QED
    BY <1>0, <1>3, <2>1, <2>2, <2>3, <2>4, LoopIsSender DEF TypePane
<1>9. CASE UNCHANGED vars
  BY <1>0, <1>9, TypePartsNext
     DEF vars, loop, pane, TypeClaim, TypePlace, TypeLoop, TypePane
<1> QED
  BY <1>1, <1>2, <1>4, <1>5, <1>6, <1>7, <1>8, <1>9 DEF Next

\* Every variable keeps its type, also where a claim does not outlast its sender:
\* the recovery attempts stay within their bound (drive.rs NUDGE_RECOVERY_ATTEMPTS).
THEOREM TypeCorrect == Spec => []TypeOK
<1>1. Init => TypeOK
  BY InitIInv DEF IInv
<1>2. TypeOK /\ [Next]_vars => TypeOK'
  BY TypeStep
<1> QED
  BY <1>1, <1>2, PTL DEF Spec

\* One sender at a time types into a pane, and an approval answers the prompt it
\* saw, unless a sender was killed and two others stole its claim at once
\* (claim.rs try_acquire; sweep.sh acquire_pane_claim; drive.rs send_nudge).
THEOREM PaneKept == ASSUME DelaysFit PROVE Spec => []PaneIsKept
<1>1. IInv => PaneIsKept
  <2> SUFFICES ASSUME IInv PROVE PaneIsKept
    OBVIOUS
  <2>1. raced => kills > 0
    BY DEF IInv, ClaimInv, OrphanInv
  <2>2. ASSUME ~raced PROVE OneSender /\ ApprovedAsSeen
    <3>1. Holders \subseteq {claim.by}
      BY <2>2 DEF IInv, ClaimInv, OwnInv, Holders
    <3>2. IsFiniteSet({claim.by}) /\ Cardinality({claim.by}) = 1
      BY FS_Singleton
    <3>3. Cardinality(Holders) <= 1
      BY <3>1, <3>2, FS_Subset
    <3> QED
      BY <2>2, <3>3 DEF OneSender, IInv, ClaimInv, AnswerInv
  <2> QED
    BY <2>1, <2>2 DEF PaneIsKept
<1> QED
  BY <1>1, PaneInvariant, PTL
=============================================================================
