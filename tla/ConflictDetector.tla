-------------------------- MODULE ConflictDetector --------------------------
(* The broker's conflict detector (src/broker/conflict.rs).  One task tails   *)
(* the message log: at every poll it takes the new messages through           *)
(* process_message, all at the same instant, and then runs tick.  The agents  *)
(* declare what they intend to change and report what they have changed, the  *)
(* supervisor acknowledges conflicts, intents expire, and a commit empties an *)
(* agent's files for a while.  Time is counted in polls.  Files under         *)
(* .git-paw/ and tasks.md, which the detector exempts, and its own messages,  *)
(* which it skips, are left out; both policies of the configuration are on.   *)
EXTENDS Integers

CONSTANTS Agents,      \* agent ids, numbered in their order
          Files,
          WholeFile,   \* a file claimed without regions
          Claims,      \* what can be claimed of a file: WholeFile or a list of regions
          Symbol(_),   \* normalize_region_name: what a written name stands for
          None,        \* no intent, no claim, no record, no time
          Window,      \* [supervisor.conflict] window_seconds, in polls
          Retention,   \* decision_retention, in polls
          Ttl          \* valid_for of an intent, in polls

(* A region: a named one, as it was written, or a range of lines.             *)
Named(r) == r.kind # "range"
Regions(c) == {c[i] : i \in DOMAIN c}

ASSUME AgentsAssumption == Agents \subseteq Int
ASSUME ClaimsAssumption ==
  \A c \in Claims \ {WholeFile} :
    \A r \in Regions(c) : Named(r) \/ (r.first \in Nat /\ r.last \in Nat)
ASSUME TimeAssumption == /\ Window \in Nat /\ Ttl \in Nat
                         /\ Retention \in Nat \ {0} /\ Retention >= Window

Pairs == {p \in SUBSET Agents : \E a, b \in p : a # b /\ p = {a, b}}
Triples == [pair : Pairs, file : Files]

VARIABLES
  intents,    \* ConflictTracker: the intent of each agent and the polls it has left,
  files,      \*   current_files,
  warned,     \*   warned_intent_pairs,
  live,       \*   in_flight_pairs,
  decisions,  \*   decisions, with ages for instants,
  accused,    \*   and warned_violations
  out,        \* the messages the last step published
  \* history
  seen,       \* polls since an overlap was first there; None once it is forgotten
  gone,       \* polls since it was last there; None once it is forgotten
  settled     \* the shape in which it was put to someone or acknowledged

tracker == <<intents, files, warned, live, decisions, accused>>
vars == <<tracker, out, seen, gone, settled>>

NoRecord == [first |-> None, warned |-> FALSE, decided |-> FALSE,
             acknowledged |-> FALSE, shape |-> None, absent |-> None]

Init == /\ intents = [a \in Agents |-> None]
        /\ files = [a \in Agents |-> {}]
        /\ warned = {} /\ live = {} /\ accused = {} /\ out = {}
        /\ decisions = [t \in Triples |-> None]
        /\ seen = [t \in Triples |-> None] /\ gone = [t \in Triples |-> None]
        /\ settled = [t \in Triples |-> None]

-----------------------------------------------------------------------------
(* Regions.                                                                   *)

Higher(i, j) == IF i < j THEN j ELSE i
Lower(i, j) == IF i < j THEN i ELSE j

RangesOverlap(r, s) == r.first <= s.last /\ s.first <= r.last
Common(r, s) == [kind |-> "range", first |-> Higher(r.first, s.first),
                 last |-> Lower(r.last, s.last)]

(* What a pair of regions contributes: two ranges their common lines, a range *)
(* and a name both, two names of the same symbol both, or the first alone, in *)
(* its spelling, if they are of one kind.                                     *)
Meet(r, s) ==
  IF Named(r) /\ Named(s)
  THEN IF Symbol(r.name) # Symbol(s.name) THEN {}
       ELSE IF r.kind = s.kind THEN {r} ELSE {r, s}
  ELSE IF Named(r) \/ Named(s) THEN {r, s}
  ELSE IF RangesOverlap(r, s) THEN {Common(r, s)} ELSE {}

RegionsIntersect(c, d) == UNION {Meet(p[1], p[2]) : p \in Regions(c) \X Regions(d)}

(* Two agents' claims on one file. *)
ClaimsConflict(c, d) ==
  None \notin {c, d} /\ (WholeFile \in {c, d} \/ RegionsIntersect(c, d) # {})

NoIntent == [is |-> "no intent", hits |-> {}]
FileLevel == [is |-> "file level", hits |-> {}]
Declared(hits) == [is |-> "declared", hits |-> hits]
Disjoint == Declared({})

-----------------------------------------------------------------------------
(* Expiry comes first in whatever the detector does.                          *)

Expired(a) == intents[a] # None /\ intents[a].left < 0
Current == [a \in Agents |-> IF Expired(a) THEN None ELSE intents[a]]
StillWarned == {p \in warned : \A a \in p : ~Expired(a)}

(* What an agent with an active intent claims of a file. *)
Claim(a, f) == IF Current[a] = None THEN None ELSE Current[a].claims[f]

(* ordered_pair *)
First(p) == CHOOSE a \in p : \A b \in p : a <= b
Second(p) == CHOOSE a \in p : \A b \in p : a >= b

OverlapShape(t) ==
  LET claims == {Claim(a, t.file) : a \in t.pair} IN
  IF None \in claims THEN NoIntent
  ELSE IF WholeFile \in claims THEN FileLevel
  ELSE Declared(RegionsIntersect(Claim(First(t.pair), t.file),
                                 Claim(Second(t.pair), t.file)))

MateriallyDiffers(shape, recorded) == shape # NoIntent /\ shape # recorded

Overlapping(fs) == {t \in Triples : \A a \in t.pair : t.file \in fs[a]}

-----------------------------------------------------------------------------
(* The decision records. *)

(* record_in_flight_pair *)
ClockOfANewRecord(r) ==  \* a mutant
  IF r = None THEN [NoRecord EXCEPT !.warned = TRUE, !.first = 0]
  ELSE [r EXCEPT !.absent = None, !.warned = TRUE]
RecordInFlight(r) ==
  LET known == IF r = None THEN NoRecord ELSE r IN
  [known EXCEPT !.absent = None, !.warned = TRUE,
                !.first = IF @ = None THEN 0 ELSE @]

(* sweep_in_flight_pairs: what becomes of a record whose overlap is there, or *)
(* is not.                                                                    *)
SweepAtOnce(r, there) ==  \* a mutant
  IF r = None \/ ~there THEN None ELSE [r EXCEPT !.absent = None]
Sweep(r, there) ==
  IF r = None THEN None
  ELSE IF there THEN [r EXCEPT !.absent = None]
  ELSE IF r.absent = None THEN [r EXCEPT !.absent = 0]
  ELSE IF r.absent >= Retention THEN None ELSE r

(* take_due_escalations: the decision and the acknowledgement that a material *)
(* change takes back, ...                                                     *)
ReconsiderDecision(r, shape) ==  \* a mutant
  IF r.shape # None /\ MateriallyDiffers(shape, r.shape)
  THEN [r EXCEPT !.decided = FALSE, !.shape = None] ELSE r
Reconsider(r, shape) ==
  IF r.shape # None /\ MateriallyDiffers(shape, r.shape)
  THEN [r EXCEPT !.decided = FALSE, !.acknowledged = FALSE, !.shape = None] ELSE r

(* ... the records that are due, and what becomes of them. *)
Due(r) == /\ ~r.acknowledged /\ ~r.decided
          /\ r.first # None /\ r.first >= Window
Decide(r, shape) == [r EXCEPT !.decided = TRUE, !.shape = shape]

(* A poll passes. *)
Older(age, most) == IF age = None THEN None ELSE Lower(age + 1, most)
Age(r) == IF r = None THEN None
          ELSE [r EXCEPT !.first = Older(@, Window), !.absent = Older(@, Retention)]

-----------------------------------------------------------------------------
(* Messages. *)

Forward(p) == {[kind |-> "forward conflict", to |-> a, about |-> p] : a \in p}
InFlight(t) == {[kind |-> "in-flight conflict", to |-> a, about |-> t] : a \in t.pair}
Violation(a, f) == {[kind |-> "ownership violation", to |-> a, about |-> f],
                    [kind |-> "ownership question", to |-> None, about |-> <<a, f>>]}
Question(t) == [kind |-> "in-flight question", to |-> None, about |-> t]
Additive(t) == {[kind |-> "additive overlap", to |-> a, about |-> t] : a \in t.pair}

-----------------------------------------------------------------------------
(* process_message *)

(* The warnings that stand when an agent claims this: not its own, when it    *)
(* claims something else than before, in other words or another order.        *)
StillWarnedOfAll(a, claims) == StillWarned  \* a mutant
Standing(a, claims) ==
  {p \in StillWarned :
     a \in p => Current[a] # None /\ Current[a].claims = claims}

(* An agent publishes its intent. *)
Intent(a, claims) ==
  LET overlaps == {b \in Agents \ {a} :
                    \E f \in Files : ClaimsConflict(claims[f], Claim(b, f))}
      told == {{a, b} : b \in overlaps} \ Standing(a, claims)
  IN /\ intents' = [Current EXCEPT ![a] = [claims |-> claims, left |-> Ttl]]
     /\ warned' = Standing(a, claims) \union told
     /\ out' = UNION {Forward(p) : p \in told}
     /\ UNCHANGED <<files, live, decisions, accused, seen, gone, settled>>

(* The history a sweep sees: an overlap is forgotten once it has been gone    *)
(* for the retention.                                                         *)
Forgotten(t, fs) == gone[t] # None /\ gone[t] >= Retention /\ t \notin Overlapping(fs)
Note(fs) ==
  /\ seen' = [t \in Triples |-> IF Forgotten(t, fs) THEN None
                               ELSE IF t \in Overlapping(fs) /\ seen[t] = None THEN 0
                               ELSE seen[t]]
  /\ gone' = [t \in Triples |-> IF Forgotten(t, fs) THEN None
                               ELSE IF t \in Overlapping(fs) THEN 0 ELSE gone[t]]
  /\ settled' = [t \in Triples |-> IF Forgotten(t, fs) THEN None ELSE settled[t]]

(* An agent reports the files it has changed. *)
Status(a, fs) ==
  LET now == [files EXCEPT ![a] = fs]
      here == {t \in Overlapping(now) : a \in t.pair}
      stay == (live \union here) \intersect Overlapping(now)
      first == {t \in here : decisions[t] = None \/ ~decisions[t].warned}
      violated == {f \in fs : /\ Claim(a, f) = None /\ <<a, f>> \notin accused
                              /\ \E b \in Agents \ {a} : Claim(b, f) # None}
  IN /\ files' = now
     /\ live' = stay
     /\ decisions' = [t \in Triples |->
          Sweep(IF t \in here THEN RecordInFlight(decisions[t]) ELSE decisions[t],
                t \in stay)]
     /\ accused' = accused \union {<<a, f>> : f \in violated}
     /\ out' = (UNION {InFlight(t) : t \in first})
                \union (UNION {Violation(a, f) : f \in violated})
     /\ intents' = Current /\ warned' = StillWarned
     /\ Note(now)

(* The supervisor acknowledges a conflict, that is there or not. *)
Acknowledge(t) ==
  LET known == IF decisions[t] = None THEN NoRecord ELSE decisions[t]
  IN /\ decisions' = [decisions EXCEPT
            ![t] = [known EXCEPT !.acknowledged = TRUE, !.shape = OverlapShape(t)]]
     /\ intents' = Current /\ warned' = StillWarned /\ out' = {}
     /\ gone' = [gone EXCEPT ![t] = IF @ = None THEN 0 ELSE @]
     /\ settled' = [settled EXCEPT ![t] = OverlapShape(t)]
     /\ UNCHANGED <<files, live, accused, seen>>

(* tick, and the time until the next poll. *)
Tick ==
  LET stay == live \intersect Overlapping(files)
      swept == [t \in Triples |-> Sweep(decisions[t], t \in stay)]
      asked == {t \in stay : Due(Reconsider(swept[t], OverlapShape(t)))}
      additive == {t \in asked : OverlapShape(t) = Disjoint}
      took == [t \in Triples |->
                 IF t \notin stay THEN swept[t]
                 ELSE LET r == Reconsider(swept[t], OverlapShape(t)) IN
                      IF t \in asked THEN Decide(r, OverlapShape(t)) ELSE r]
  IN /\ live' = stay
     /\ decisions' = [t \in Triples |-> Age(took[t])]
     /\ out' = {Question(t) : t \in asked \ additive} \union UNION {Additive(t) : t \in additive}
     /\ intents' = [a \in Agents |-> IF Current[a] = None THEN None
                                    ELSE [Current[a] EXCEPT !.left = @ - 1]]
     /\ warned' = StillWarned
     /\ seen' = [t \in Triples |-> IF Forgotten(t, files) THEN None
                                  ELSE Older(seen[t], Window)]
     /\ gone' = [t \in Triples |-> IF Forgotten(t, files) THEN None
                                  ELSE IF t \in Overlapping(files) THEN 0
                                  ELSE Older(gone[t], Retention)]
     /\ settled' = [t \in Triples |->
          IF Forgotten(t, files) THEN None
          ELSE IF Question(t) \in out' \/ Additive(t) \subseteq out' THEN OverlapShape(t)
          ELSE IF /\ t \in Overlapping(files) /\ settled[t] # None
                  /\ MateriallyDiffers(OverlapShape(t), settled[t]) THEN None
          ELSE settled[t]]
     /\ UNCHANGED <<files, accused>>

Next == \/ \E a \in Agents, claims \in [Files -> Claims \union {None}] : Intent(a, claims)
        \/ \E a \in Agents, fs \in SUBSET Files : Status(a, fs)
        \/ \E t \in Triples : Acknowledge(t)
        \/ Tick

Spec == Init /\ [][Next]_vars

-----------------------------------------------------------------------------
(* Properties. *)

Shapes == {NoIntent, FileLevel}
          \union {Declared(RegionsIntersect(c, d)) : c, d \in Claims \ {WholeFile}}
Promise == [claims : [Files -> Claims \union {None}], left : -1 .. Ttl]
Record == [first : (0 .. Window) \union {None}, warned : BOOLEAN, decided : BOOLEAN,
           acknowledged : BOOLEAN, shape : Shapes \union {None},
           absent : (0 .. Retention) \union {None}]

ASSUME NoneAssumption ==
  /\ None \notin Int /\ None \notin Shapes /\ None \notin Promise
  /\ None \notin Record

(* The state has its shape: the live view holds what the agents' files have   *)
(* in common, and every conflict in it has a record, that is not ageing, has  *)
(* its clock running and was announced.                                       *)
TypeOK ==
  /\ intents \in [Agents -> Promise \union {None}]
  /\ files \in [Agents -> SUBSET Files]
  /\ warned \subseteq Pairs
  /\ live = Overlapping(files)
  /\ accused \subseteq Agents \X Files
  /\ decisions \in [Triples -> Record \union {None}]
  /\ \A t \in live : /\ decisions[t] # None /\ decisions[t].warned
                     /\ decisions[t].first # None /\ decisions[t].absent = None
  /\ seen \in [Triples -> (0 .. Window) \union {None}]
  /\ gone \in [Triples -> (0 .. Retention) \union {None}]
  /\ settled \in [Triples -> Shapes \union {None}]

(* Two agents are told that their intents conflict exactly when the conflict  *)
(* is new to them: there was none before the step, or one of them has changed *)
(* what it claims.  And two agents that edit the same file are told so when   *)
(* they have not shared it within the retention, and not otherwise: whatever  *)
(* a commit, an expiry or an early acknowledgement did in between, no         *)
(* conflict is announced twice or not at all.                                 *)
Claimed(a) == IF Current[a] = None THEN None ELSE Current[a].claims
Conflicting(p) == \E a, b \in p : /\ a # b
                                  /\ \E f \in Files : ClaimsConflict(Claim(a, f), Claim(b, f))
ToldOnceEach ==
  [][/\ \A p \in Pairs :
          Forward(p) \subseteq out'
            <=> /\ Conflicting(p)'
                /\ ~Conflicting(p) \/ \E a \in p : Claimed(a)' # Claimed(a)
     /\ \A t \in Triples :
          InFlight(t) \subseteq out' <=> seen[t] = None /\ seen'[t] # None]_vars

(* A conflict that was put to the supervisor, or downgraded, or acknowledged, *)
(* is not put to anyone again until it is over, that is gone for the          *)
(* retention, or one poll saw its shape materially changed.                   *)
AskedOnce ==
  [][\A t \in Triples : Question(t) \in out' \/ Additive(t) \subseteq out' =>
       settled[t] = None \/ MateriallyDiffers(OverlapShape(t), settled[t])]_vars

(* After a poll no overlap that has lasted for the window, short absences     *)
(* included, is left undecided: it was put to someone, or acknowledged, in a  *)
(* shape from which the present one does not materially differ.               *)
DueIsDecided ==
  [][Tick => \A t \in Overlapping(files) : seen[t] >= Window =>
       settled'[t] # None /\ ~MateriallyDiffers(OverlapShape(t), settled'[t])]_vars
=============================================================================
