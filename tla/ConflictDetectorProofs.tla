----------------------- MODULE ConflictDetectorProofs -----------------------
(* Theorems about ConflictDetector, for every set of agents, files and        *)
(* claims, every window, retention and validity of an intent.                 *)
EXTENDS ConflictDetector, TLAPS

(* What the history remembers of one overlap is what its record says: the     *)
(* clock, the absence, the shape; it was announced exactly if its clock runs, *)
(* and has a shape exactly if it was decided or acknowledged.                 *)
Matches(r, s, g, z) ==
  /\ r = None => s = None /\ g = None /\ z = None
  /\ r # None => /\ r \in Record
                 /\ s = r.first /\ z = r.shape
                 /\ r.warned <=> r.first # None
                 /\ r.acknowledged \/ r.decided <=> r.shape # None
                 /\ g = IF r.absent = None THEN 0 ELSE r.absent

RecordInv == \A t \in Triples : Matches(decisions[t], seen[t], gone[t], settled[t])

(* The warnings that stand are those of the pairs whose claims conflict.      *)
WarnedInv == \A p \in Pairs : p \in StillWarned <=> Conflicting(p)

IInv == TypeOK /\ RecordInv /\ WarnedInv

-----------------------------------------------------------------------------
(* Regions and shapes.                                                        *)

(* Whether two regions meet does not depend on whose comes first; in whose    *)
(* spelling does.                                                             *)
LEMMA MeetSymmetric ==
  ASSUME NEW c \in Claims \ {WholeFile}, NEW d \in Claims \ {WholeFile},
         NEW r \in Regions(c), NEW s \in Regions(d)
  PROVE  Meet(r, s) = {} <=> Meet(s, r) = {}
<1>1. CASE Named(r) \/ Named(s)
  BY <1>1 DEF Meet
<1>2. CASE ~Named(r) /\ ~Named(s)
  <2>1. RangesOverlap(r, s) <=> RangesOverlap(s, r)
    BY DEF RangesOverlap
  <2> QED
    BY <1>2, <2>1 DEF Meet
<1> QED
  BY <1>1, <1>2

LEMMA IntersectHas ==
  ASSUME NEW c, NEW d
  PROVE  RegionsIntersect(c, d) # {}
           <=> \E r \in Regions(c), s \in Regions(d) : Meet(r, s) # {}
<1>1. ASSUME RegionsIntersect(c, d) # {}
      PROVE  \E r \in Regions(c), s \in Regions(d) : Meet(r, s) # {}
  <2>1. PICK p \in Regions(c) \X Regions(d) : Meet(p[1], p[2]) # {}
    BY <1>1 DEF RegionsIntersect
  <2>2. p[1] \in Regions(c) /\ p[2] \in Regions(d)
    BY <2>1
  <2> QED
    BY <2>1, <2>2
<1>2. ASSUME NEW r \in Regions(c), NEW s \in Regions(d), Meet(r, s) # {}
      PROVE  RegionsIntersect(c, d) # {}
  <2>1. PICK p \in Regions(c) \X Regions(d) : p[1] = r /\ p[2] = s
    <3>1. /\ <<r, s>> \in Regions(c) \X Regions(d)
          /\ <<r, s>>[1] = r /\ <<r, s>>[2] = s
      OBVIOUS
    <3> QED
      BY <3>1
  <2>2. Meet(p[1], p[2]) # {}
    BY <1>2, <2>1
  <2> QED
    BY <2>1, <2>2 DEF RegionsIntersect
<1> QED
  BY <1>1, <1>2

LEMMA IntersectSymmetric ==
  ASSUME NEW c \in Claims \ {WholeFile}, NEW d \in Claims \ {WholeFile}
  PROVE  RegionsIntersect(c, d) = {} <=> RegionsIntersect(d, c) = {}
<1>1. \A r \in Regions(c), s \in Regions(d) : Meet(r, s) = {} <=> Meet(s, r) = {}
  BY MeetSymmetric
<1> QED
  BY <1>1, IntersectHas

LEMMA ConflictSymmetric ==
  ASSUME NEW c \in Claims \union {None}, NEW d \in Claims \union {None}
  PROVE  ClaimsConflict(c, d) <=> ClaimsConflict(d, c)
<1>1. CASE None \in {c, d} \/ WholeFile \in {c, d}
  BY <1>1 DEF ClaimsConflict
<1>2. CASE ~(None \in {c, d} \/ WholeFile \in {c, d})
  BY <1>2, IntersectSymmetric DEF ClaimsConflict
<1> QED
  BY <1>1, <1>2

LEMMA PairType ==
  ASSUME NEW p \in Pairs
  PROVE  \E a, b \in Agents : a # b /\ p = {a, b}
  BY DEF Pairs

LEMMA TripleType ==
  ASSUME NEW t \in Triples
  PROVE  t.pair \in Pairs /\ t.file \in Files
  BY DEF Triples

(* What an agent claims now.                                                  *)
LEMMA ClaimType ==
  ASSUME TypeOK, NEW a \in Agents
  PROVE  /\ Current[a] \in {intents[a], None}
         /\ Current[a] # None => /\ Current[a] = intents[a] /\ Current[a] \in Promise
                                 /\ Current[a].left \in 0 .. Ttl
                                 /\ Current[a].claims \in [Files -> Claims \union {None}]
         /\ \A f \in Files : Claim(a, f) \in Claims \union {None}
<1>1. Current[a] = IF Expired(a) THEN None ELSE intents[a]
  BY DEF Current
<1>2. intents[a] \in Promise \union {None}
  BY DEF TypeOK
<1>3. ASSUME Current[a] # None
      PROVE  /\ Current[a] = intents[a] /\ Current[a] \in Promise
             /\ Current[a].left \in 0 .. Ttl
             /\ Current[a].claims \in [Files -> Claims \union {None}]
  <2>1. Current[a] = intents[a] /\ ~Expired(a) /\ intents[a] \in Promise
    BY <1>1, <1>2, <1>3
  <2>2. /\ intents[a].left \in -1 .. Ttl /\ ~(intents[a].left < 0)
        /\ intents[a].claims \in [Files -> Claims \union {None}]
    BY <1>3, <2>1 DEF Expired, Promise
  <2>3. intents[a].left \in 0 .. Ttl
    BY <2>2
  <2> QED
    BY <2>1, <2>2, <2>3
<1>4. ASSUME NEW f \in Files PROVE Claim(a, f) \in Claims \union {None}
  BY <1>3 DEF Claim
<1> QED
  BY <1>1, <1>3, <1>4

LEMMA ShapeType ==
  ASSUME TypeOK, NEW t \in Triples
  PROVE  OverlapShape(t) \in Shapes
<1>1. PICK a \in Agents, b \in Agents : a # b /\ t.pair = {a, b}
  BY PairType, TripleType
<1>2. PICK c \in Claims \union {None}, d \in Claims \union {None} :
        c = Claim(a, t.file) /\ d = Claim(b, t.file)
  BY ClaimType, TripleType
<1>3. {Claim(x, t.file) : x \in t.pair} = {c, d}
  BY <1>1, <1>2
<1>4. CASE None \in {c, d}
  <2>1. OverlapShape(t) = NoIntent
    BY <1>3, <1>4 DEF OverlapShape
  <2> QED
    BY <2>1 DEF Shapes
<1>5. CASE None \notin {c, d} /\ WholeFile \in {c, d}
  <2>1. OverlapShape(t) = FileLevel
    BY <1>3, <1>5 DEF OverlapShape
  <2> QED
    BY <2>1 DEF Shapes
<1>6. CASE None \notin {c, d} /\ WholeFile \notin {c, d}
  <2>1. First(t.pair) \in {a, b} /\ Second(t.pair) \in {a, b}
    <3>1. a \in Int /\ b \in Int
      BY AgentsAssumption
    <3>2. \E x \in {a, b} : \A y \in {a, b} : x <= y
      BY <3>1
    <3>3. \E x \in {a, b} : \A y \in {a, b} : x >= y
      BY <3>1
    <3> QED
      BY <1>1, <3>2, <3>3 DEF First, Second
  <2>2. PICK e \in {c, d}, g \in {c, d} :
          e = Claim(First(t.pair), t.file) /\ g = Claim(Second(t.pair), t.file)
    BY <1>2, <2>1
  <2>3. e \in Claims \ {WholeFile} /\ g \in Claims \ {WholeFile}
    BY <1>6
  <2>4. OverlapShape(t) = Declared(RegionsIntersect(e, g))
    BY <1>3, <1>6, <2>2 DEF OverlapShape
  <2> QED
    BY <2>3, <2>4 DEF Shapes
<1> QED
  BY <1>4, <1>5, <1>6

-----------------------------------------------------------------------------
(* The records and what the history remembers of them.                        *)

LEMMA NoneDiffers == \A i \in Int : i # None
  BY NoneAssumption

LEMMA RecordFields ==
  ASSUME NEW r \in Record
  PROVE  /\ r.first \in (0 .. Window) \union {None} /\ r.warned \in BOOLEAN
         /\ r.decided \in BOOLEAN /\ r.acknowledged \in BOOLEAN
         /\ r.shape \in Shapes \union {None}
         /\ r.absent \in (0 .. Retention) \union {None} /\ r # None
  BY NoneAssumption DEF Record

(* A sweep forgets a record when the history forgets the overlap.             *)
LEMMA SweepMatches ==
  ASSUME NEW r, NEW s, NEW g, NEW z, Matches(r, s, g, z), NEW there \in BOOLEAN,
         there => r # None,
         NEW forgotten \in BOOLEAN,
         forgotten <=> g # None /\ g >= Retention /\ ~there
  PROVE  /\ Matches(Sweep(r, there), IF forgotten THEN None ELSE s,
                    IF forgotten THEN None ELSE IF there THEN 0 ELSE g,
                    IF forgotten THEN None ELSE z)
         /\ Sweep(r, there) = None <=> r = None \/ forgotten
         /\ Sweep(r, there) # None => (there <=> Sweep(r, there).absent = None)
<1>1. CASE r = None
  <2>1. ~there /\ Sweep(r, there) = None
    BY <1>1 DEF Sweep
  <2>2. s = None /\ g = None /\ z = None /\ ~forgotten
    BY <1>1 DEF Matches
  <2> QED
    BY <1>1, <2>1, <2>2
<1>2. CASE r # None
  <2>1. /\ r \in Record /\ s = r.first /\ z = r.shape
        /\ r.warned <=> r.first # None
        /\ r.acknowledged \/ r.decided <=> r.shape # None
        /\ g = IF r.absent = None THEN 0 ELSE r.absent
    BY <1>2 DEF Matches
  <2>2. Retention \in Nat \ {0} /\ 0 # None /\ 0 \in 0 .. Retention
    BY TimeAssumption, NoneDiffers
  <2>3. PICK x : x \in Record /\ x = [r EXCEPT !.absent = None]
    BY <2>1 DEF Record
  <2>4. /\ x.first = r.first /\ x.warned = r.warned /\ x.shape = r.shape
        /\ x.acknowledged = r.acknowledged /\ x.decided = r.decided /\ x.absent = None
    BY <2>1, <2>3 DEF Record
  <2>5. PICK y : y \in Record /\ y = [r EXCEPT !.absent = 0]
    BY <2>1, <2>2 DEF Record
  <2>6. /\ y.first = r.first /\ y.warned = r.warned /\ y.shape = r.shape
        /\ y.acknowledged = r.acknowledged /\ y.decided = r.decided /\ y.absent = 0
    BY <2>1, <2>5 DEF Record
  <2>7. x # None /\ y # None
    BY <2>3, <2>5, RecordFields
  <2>8. CASE there
    <3>1. Sweep(r, there) = x /\ ~forgotten
      BY <1>2, <2>3, <2>8 DEF Sweep
    <3>2. Matches(x, s, 0, z)
      BY <2>1, <2>3, <2>4, <2>7 DEF Matches
    <3> QED
      BY <1>2, <2>4, <2>7, <2>8, <3>1, <3>2
  <2>9. CASE ~there /\ r.absent = None
    <3>1. g = 0 /\ ~forgotten
      BY <2>1, <2>2, <2>9
    <3>2. Sweep(r, there) = y
      BY <1>2, <2>5, <2>9 DEF Sweep
    <3>3. Matches(y, s, 0, z)
      BY <2>1, <2>2, <2>5, <2>6, <2>7 DEF Matches
    <3> QED
      BY <1>2, <2>2, <2>6, <2>7, <2>9, <3>1, <3>2, <3>3
  <2>10. CASE ~there /\ r.absent # None
    <3>1. g = r.absent
      BY <2>1, <2>10
    <3>2. CASE r.absent >= Retention
      <4>1. forgotten /\ Sweep(r, there) = None
        BY <1>2, <2>10, <3>1, <3>2 DEF Sweep
      <4> QED
        BY <1>2, <2>10, <4>1 DEF Matches
    <3>3. CASE ~(r.absent >= Retention)
      <4>1. ~forgotten /\ Sweep(r, there) = r
        BY <1>2, <2>10, <3>1, <3>3 DEF Sweep
      <4> QED
        BY <1>2, <2>10, <4>1
    <3> QED
      BY <3>2, <3>3
  <2> QED
    BY <2>8, <2>9, <2>10
<1> QED
  BY <1>1, <1>2

LEMMA NoRecordType ==
  /\ NoRecord \in Record
  /\ NoRecord.first = None /\ NoRecord.warned = FALSE /\ NoRecord.decided = FALSE
  /\ NoRecord.acknowledged = FALSE /\ NoRecord.shape = None /\ NoRecord.absent = None
  BY DEF NoRecord, Record

(* The record that is there, or an empty one.                                 *)
Known(r) == IF r = None THEN NoRecord ELSE r

LEMMA KnownMatches ==
  ASSUME NEW r, NEW s, NEW g, NEW z, Matches(r, s, g, z)
  PROVE  /\ Known(r) \in Record /\ s = Known(r).first /\ z = Known(r).shape
         /\ Known(r).warned <=> Known(r).first # None
         /\ Known(r).acknowledged \/ Known(r).decided <=> Known(r).shape # None
  BY NoRecordType DEF Matches, Known

(* An overlap that is announced has its clock running from then on.           *)
LEMMA InFlightMatches ==
  ASSUME NEW r, NEW s, NEW g, NEW z, Matches(r, s, g, z)
  PROVE  Matches(RecordInFlight(r), IF s = None THEN 0 ELSE s, 0, z)
<1>1. PICK k \in Record :
        /\ k = Known(r) /\ s = k.first /\ z = k.shape
        /\ k.acknowledged \/ k.decided <=> k.shape # None
  BY KnownMatches
<1>2. 0 # None /\ Window \in Nat
  BY NoneDiffers, TimeAssumption
<1>3. PICK f : f = IF k.first = None THEN 0 ELSE k.first
  OBVIOUS
<1>4. f \in 0 .. Window /\ f # None
  BY <1>2, <1>3, RecordFields
<1>5. PICK x : x = [k EXCEPT !.absent = None, !.warned = TRUE, !.first = f]
  OBVIOUS
<1>6. /\ x \in Record /\ x.first = f /\ x.warned = TRUE /\ x.shape = k.shape
      /\ x.acknowledged = k.acknowledged /\ x.decided = k.decided /\ x.absent = None
  BY <1>4, <1>5 DEF Record
<1>7. RecordInFlight(r) = x
  BY <1>1, <1>3, <1>5 DEF RecordInFlight, Known
<1>8. x # None
  BY <1>6, RecordFields
<1> QED
  BY <1>1, <1>3, <1>4, <1>6, <1>7, <1>8 DEF Matches

(* Record and history age alike.                                              *)
LEMMA OlderType ==
  ASSUME NEW most \in Nat, NEW age \in (0 .. most) \union {None}
  PROVE  /\ Older(age, most) \in (0 .. most) \union {None}
         /\ Older(age, most) = None <=> age = None
<1>1. CASE age = None
  BY <1>1 DEF Older
<1>2. CASE age # None
  <2>1. age \in 0 .. most
    BY <1>2
  <2>2. Older(age, most) \in 0 .. most
    BY <1>2, <2>1 DEF Older, Lower
  <2> QED
    BY <1>2, <2>2, NoneDiffers
<1> QED
  BY <1>1, <1>2

LEMMA AgeMatches ==
  ASSUME NEW r, NEW s, NEW g, NEW z, Matches(r, s, g, z), NEW there \in BOOLEAN,
         r # None => (there <=> r.absent = None)
  PROVE  /\ Matches(Age(r), IF r = None THEN None ELSE Older(s, Window),
                    IF r = None THEN None ELSE IF there THEN 0 ELSE Older(g, Retention), z)
         /\ r # None => /\ Age(r) # None
                        /\ Age(r).absent = None <=> r.absent = None
                        /\ Age(r).first = None <=> r.first = None
<1>1. CASE r = None
  BY <1>1 DEF Matches, Age
<1>2. CASE r # None
  <2>1. /\ r \in Record /\ s = r.first /\ z = r.shape
        /\ r.warned <=> r.first # None
        /\ r.acknowledged \/ r.decided <=> r.shape # None
        /\ g = IF r.absent = None THEN 0 ELSE r.absent
    BY <1>2 DEF Matches
  <2>2. PICK f : f = Older(r.first, Window)
    OBVIOUS
  <2>3. PICK b : b = Older(r.absent, Retention)
    OBVIOUS
  <2>4. f \in (0 .. Window) \union {None} /\ (f = None <=> r.first = None)
    BY <2>1, <2>2, OlderType, RecordFields, TimeAssumption
  <2>5. b \in (0 .. Retention) \union {None} /\ (b = None <=> r.absent = None)
    BY <2>1, <2>3, OlderType, RecordFields, TimeAssumption
  <2>6. PICK x : x = [r EXCEPT !.first = f, !.absent = b]
    OBVIOUS
  <2>7. /\ x \in Record /\ x.first = f /\ x.warned = r.warned /\ x.shape = r.shape
        /\ x.acknowledged = r.acknowledged /\ x.decided = r.decided /\ x.absent = b
    BY <2>1, <2>4, <2>5, <2>6 DEF Record
  <2>8. Age(r) = x
    BY <1>2, <2>2, <2>3, <2>6 DEF Age
  <2>9. x # None
    BY <2>7, RecordFields
  <2>10. (IF there THEN 0 ELSE Older(g, Retention)) = IF b = None THEN 0 ELSE b
    BY <1>2, <2>1, <2>3, <2>5
  <2> QED
    BY <1>2, <2>1, <2>2, <2>4, <2>5, <2>7, <2>8, <2>9, <2>10 DEF Matches
<1> QED
  BY <1>1, <1>2

(* A material change of its shape reopens the record and the history.         *)
LEMMA ReconsiderMatches ==
  ASSUME NEW r, r # None, NEW s, NEW g, NEW z, Matches(r, s, g, z), NEW shape \in Shapes
  PROVE  /\ Matches(Reconsider(r, shape), s, g,
                    IF z # None /\ MateriallyDiffers(shape, z) THEN None ELSE z)
         /\ Reconsider(r, shape) # None
         /\ Reconsider(r, shape).absent = r.absent
<1>1. /\ r \in Record /\ s = r.first /\ z = r.shape
      /\ r.warned <=> r.first # None
      /\ r.acknowledged \/ r.decided <=> r.shape # None
      /\ g = IF r.absent = None THEN 0 ELSE r.absent
  BY DEF Matches
<1>2. CASE z # None /\ MateriallyDiffers(shape, z)
  <2>1. PICK x : x = [r EXCEPT !.decided = FALSE, !.acknowledged = FALSE, !.shape = None]
    OBVIOUS
  <2>2. /\ x \in Record /\ x.first = r.first /\ x.warned = r.warned /\ x.shape = None
        /\ x.acknowledged = FALSE /\ x.decided = FALSE /\ x.absent = r.absent
    BY <1>1, <2>1 DEF Record
  <2>3. Reconsider(r, shape) = x
    BY <1>1, <1>2, <2>1 DEF Reconsider
  <2>4. x # None
    BY <2>2, RecordFields
  <2> QED
    BY <1>1, <1>2, <2>2, <2>3, <2>4 DEF Matches
<1>3. CASE ~(z # None /\ MateriallyDiffers(shape, z))
  <2>1. Reconsider(r, shape) = r
    BY <1>1, <1>3 DEF Reconsider
  <2> QED
    BY <1>3, <2>1
<1> QED
  BY <1>2, <1>3

(* A record is due exactly if its overlap is old enough and has no shape.     *)
LEMMA DueMatches ==
  ASSUME NEW r, r # None, NEW s, NEW g, NEW z, Matches(r, s, g, z)
  PROVE  Due(r) <=> z = None /\ s # None /\ s >= Window
  BY DEF Due, Matches

(* What is decided, or acknowledged, has the shape it has now.                *)
LEMMA DecideMatches ==
  ASSUME NEW r, r # None, NEW s, NEW g, NEW z, Matches(r, s, g, z), NEW shape \in Shapes
  PROVE  /\ Matches(Decide(r, shape), s, g, shape)
         /\ Decide(r, shape) # None /\ Decide(r, shape).absent = r.absent
<1>1. /\ r \in Record /\ s = r.first
      /\ r.warned <=> r.first # None
      /\ g = IF r.absent = None THEN 0 ELSE r.absent
  BY DEF Matches
<1>2. shape # None /\ shape \in Shapes \union {None}
  BY NoneAssumption
<1>3. PICK x : x = [r EXCEPT !.decided = TRUE, !.shape = shape]
  OBVIOUS
<1>4. /\ x \in Record /\ x.first = r.first /\ x.warned = r.warned /\ x.shape = shape
      /\ x.acknowledged = r.acknowledged /\ x.decided = TRUE /\ x.absent = r.absent
  BY <1>1, <1>2, <1>3 DEF Record
<1>5. Decide(r, shape) = x
  BY <1>3 DEF Decide
<1>6. x # None
  BY <1>4, RecordFields
<1> QED
  BY <1>1, <1>2, <1>4, <1>5, <1>6 DEF Matches

LEMMA AcknowledgeMatches ==
  ASSUME NEW r, NEW s, NEW g, NEW z, Matches(r, s, g, z), NEW shape \in Shapes
  PROVE  Matches([Known(r) EXCEPT !.acknowledged = TRUE, !.shape = shape],
                 s, IF g = None THEN 0 ELSE g, shape)
<1>1. PICK k \in Record : /\ k = Known(r) /\ s = k.first
                          /\ k.warned <=> k.first # None
  BY KnownMatches
<1>2. shape # None /\ shape \in Shapes \union {None}
  BY NoneAssumption
<1>3. PICK x : x = [k EXCEPT !.acknowledged = TRUE, !.shape = shape]
  OBVIOUS
<1>4. /\ x \in Record /\ x.first = k.first /\ x.warned = k.warned /\ x.shape = shape
      /\ x.acknowledged = TRUE /\ x.decided = k.decided /\ x.absent = k.absent
  BY <1>1, <1>2, <1>3 DEF Record
<1>5. x # None
  BY <1>4, RecordFields
<1>6. (IF g = None THEN 0 ELSE g) = IF k.absent = None THEN 0 ELSE k.absent
  <2>1. CASE r = None
    BY <1>1, <2>1, NoRecordType DEF Matches, Known
  <2>2. CASE r # None
    <3>1. k = r /\ g = IF r.absent = None THEN 0 ELSE r.absent
      BY <1>1, <2>2 DEF Matches, Known
    <3> QED
      BY <3>1, NoneDiffers
  <2> QED
    BY <2>1, <2>2
<1> QED
  BY <1>1, <1>2, <1>3, <1>4, <1>5, <1>6 DEF Matches

LEMMA MatchesType ==
  ASSUME NEW r, NEW s, NEW g, NEW z, Matches(r, s, g, z)
  PROVE  /\ r \in Record \union {None}
         /\ s \in (0 .. Window) \union {None}
         /\ g \in (0 .. Retention) \union {None}
         /\ z \in Shapes \union {None}
<1>1. 0 \in 0 .. Retention
  BY TimeAssumption
<1>2. CASE r = None
  BY <1>2 DEF Matches
<1>3. CASE r # None
  BY <1>1, <1>3, RecordFields DEF Matches
<1> QED
  BY <1>2, <1>3

-----------------------------------------------------------------------------
(* TypeOK and RecordInv.                                                      *)

LEMMA RecordOf ==
  ASSUME TypeOK, RecordInv, NEW t \in Triples
  PROVE  /\ Matches(decisions[t], seen[t], gone[t], settled[t])
         /\ t \in Overlapping(files) => /\ decisions[t] # None
                                        /\ decisions[t].absent = None
                                        /\ seen[t] # None
<1>1. Matches(decisions[t], seen[t], gone[t], settled[t])
  BY DEF RecordInv
<1>2. ASSUME t \in Overlapping(files)
      PROVE  /\ decisions[t] # None /\ decisions[t].absent = None
             /\ decisions[t].first # None
  BY <1>2 DEF TypeOK
<1> QED
  BY <1>1, <1>2 DEF Matches

(* What is left to show of the types once record and history match.           *)
OnTriples(d) == d = [t \in Triples |-> d[t]]

LEMMA HistoryTypes ==
  ASSUME \A t \in Triples : Matches(decisions'[t], seen'[t], gone'[t], settled'[t]),
         OnTriples(decisions'), OnTriples(seen'), OnTriples(gone'), OnTriples(settled'),
         NEW l \in SUBSET Triples,
         \A t \in l : /\ decisions'[t] # None /\ decisions'[t].absent = None
                     /\ seen'[t] # None
  PROVE  /\ decisions' \in [Triples -> Record \union {None}]
         /\ seen' \in [Triples -> (0 .. Window) \union {None}]
         /\ gone' \in [Triples -> (0 .. Retention) \union {None}]
         /\ settled' \in [Triples -> Shapes \union {None}]
         /\ \A t \in l : /\ decisions'[t] # None /\ decisions'[t].warned
                         /\ decisions'[t].first # None /\ decisions'[t].absent = None
<1>1. PICK d, s, g, z : d = decisions' /\ s = seen' /\ g = gone' /\ z = settled'
  OBVIOUS
<1>2. \A t \in Triples : Matches(d[t], s[t], g[t], z[t])
  BY <1>1
<1>3. \A t \in l : d[t] # None /\ d[t].absent = None /\ s[t] # None
  BY <1>1
<1>4. OnTriples(d) /\ OnTriples(s) /\ OnTriples(g) /\ OnTriples(z)
  BY <1>1
<1>5. \A t \in Triples : /\ d[t] \in Record \union {None}
                         /\ s[t] \in (0 .. Window) \union {None}
                         /\ g[t] \in (0 .. Retention) \union {None}
                         /\ z[t] \in Shapes \union {None}
  BY <1>2, MatchesType
<1>6. d \in [Triples -> Record \union {None}]
  BY <1>4, <1>5 DEF OnTriples
<1>7. s \in [Triples -> (0 .. Window) \union {None}]
  BY <1>4, <1>5 DEF OnTriples
<1>8. g \in [Triples -> (0 .. Retention) \union {None}]
  BY <1>4, <1>5 DEF OnTriples
<1>9. z \in [Triples -> Shapes \union {None}]
  BY <1>4, <1>5 DEF OnTriples
<1>10. \A t \in l : /\ d[t] # None /\ d[t].warned
                   /\ d[t].first # None /\ d[t].absent = None
  BY <1>2, <1>3 DEF Matches
<1> QED
  BY <1>1, <1>6, <1>7, <1>8, <1>9, <1>10

(* Expiry keeps an intent or drops it, and never a second time.               *)
LEMMA CurrentIntents ==
  ASSUME TypeOK
  PROVE  /\ Current \in [Agents -> Promise \union {None}]
         /\ StillWarned \subseteq Pairs
         /\ StillWarned \subseteq warned
<1>1. \A a \in Agents : Current[a] \in Promise \union {None}
  BY ClaimType
<1>2. Current = [a \in Agents |-> Current[a]]
  BY DEF Current
<1>3. Current \in [Agents -> Promise \union {None}]
  BY <1>1, <1>2
<1> QED
  BY <1>3 DEF StillWarned, TypeOK

LEMMA StayIsLive ==
  ASSUME TypeOK, NEW a \in Agents, NEW now, NEW fs \in SUBSET Files,
         now = [files EXCEPT ![a] = fs]
  PROVE  /\ now \in [Agents -> SUBSET Files]
         /\ (live \union {t \in Overlapping(now) : a \in t.pair}) \intersect Overlapping(now)
              = Overlapping(now)
         /\ \A t \in Overlapping(now) : a \notin t.pair => t \in Overlapping(files)
<1>1. \A b \in Agents : b # a => now[b] = files[b]
  BY DEF TypeOK
<1>2. ASSUME NEW t \in Overlapping(now), a \notin t.pair
      PROVE  t \in Overlapping(files)
  <2>1. \A b \in t.pair : b \in Agents /\ b # a
    BY <1>2 DEF Overlapping, Triples, Pairs
  <2> QED
    BY <1>1, <2>1 DEF Overlapping
<1>3. live = Overlapping(files)
  BY DEF TypeOK
<1>4. now \in [Agents -> SUBSET Files]
  BY DEF TypeOK
<1> QED
  BY <1>2, <1>3, <1>4

LEMMA StatusTypes ==
  ASSUME TypeOK, RecordInv, NEW a \in Agents, NEW fs \in SUBSET Files, Status(a, fs)
  PROVE  TypeOK' /\ RecordInv'
<1>1. PICK now : now = [files EXCEPT ![a] = fs]
  OBVIOUS
<1>2. PICK over : over = Overlapping(now)
  OBVIOUS
<1>3. /\ now \in [Agents -> SUBSET Files]
      /\ (live \union {t \in over : a \in t.pair}) \intersect over = over
      /\ \A t \in over : a \notin t.pair => t \in Overlapping(files)
  BY <1>1, <1>2, StayIsLive
<1>4. /\ files' = now /\ live' = over
      /\ decisions' = [t \in Triples |->
           Sweep(IF t \in {u \in over : a \in u.pair}
                 THEN RecordInFlight(decisions[t]) ELSE decisions[t], t \in over)]
      /\ intents' = Current /\ warned' = StillWarned
      /\ Note(now)
  BY <1>1, <1>2, <1>3 DEF Status
<1>5. over \subseteq Triples
  BY <1>2 DEF Overlapping
<1>6. ASSUME NEW t \in Triples
      PROVE  /\ Matches(decisions'[t], seen'[t], gone'[t], settled'[t])
             /\ t \in over => decisions'[t] # None /\ decisions'[t].absent = None
                              /\ seen'[t] # None
  <2>1. PICK r, s, g, z : /\ r = decisions[t] /\ s = seen[t] /\ g = gone[t] /\ z = settled[t]
                          /\ Matches(r, s, g, z)
    BY RecordOf
  <2>2. PICK there \in BOOLEAN : there <=> t \in over
    OBVIOUS
  <2>3. PICK forgotten \in BOOLEAN : forgotten <=> g # None /\ g >= Retention /\ ~there
    OBVIOUS
  <2>4. Forgotten(t, now) <=> forgotten
    BY <1>2, <2>1, <2>2, <2>3 DEF Forgotten
  <2>5. /\ seen'[t] = IF forgotten THEN None ELSE IF there /\ s = None THEN 0 ELSE s
        /\ gone'[t] = IF forgotten THEN None ELSE IF there THEN 0 ELSE g
        /\ settled'[t] = IF forgotten THEN None ELSE z
    BY <1>2, <1>4, <2>1, <2>2, <2>4 DEF Note
  <2>6. CASE there /\ a \in t.pair
    <3>1. decisions'[t] = Sweep(RecordInFlight(r), TRUE)
      BY <1>4, <2>1, <2>2, <2>6
    <3>2. PICK k, c : k = RecordInFlight(r) /\ c = IF s = None THEN 0 ELSE s
      OBVIOUS
    <3>3. Matches(k, c, 0, z)
      BY <2>1, <3>2, InFlightMatches
    <3>4. k # None /\ c # None
      BY <3>2, NoneDiffers, NoRecordType, RecordFields, <3>3 DEF RecordInFlight, Matches, Record
    <3>5. /\ Matches(Sweep(k, TRUE), c, 0, z) /\ Sweep(k, TRUE) # None
          /\ Sweep(k, TRUE).absent = None
      <4>1. FALSE <=> 0 # None /\ 0 >= Retention /\ ~TRUE
        OBVIOUS
      <4> QED
        BY <3>3, <3>4, <4>1, SweepMatches
    <3>6. seen'[t] = c /\ gone'[t] = 0 /\ settled'[t] = z
      BY <2>3, <2>5, <2>6, <3>2
    <3> QED
      BY <3>1, <3>2, <3>4, <3>5, <3>6
  <2>7. CASE ~(there /\ a \in t.pair)
    <3>1. decisions'[t] = Sweep(r, there)
      BY <1>4, <2>1, <2>2, <2>7
    <3>2. there => r # None /\ s # None
      BY <1>3, <2>1, <2>2, <2>7, RecordOf
    <3>3. /\ Matches(Sweep(r, there), IF forgotten THEN None ELSE s,
                     IF forgotten THEN None ELSE IF there THEN 0 ELSE g,
                     IF forgotten THEN None ELSE z)
          /\ Sweep(r, there) = None <=> r = None \/ forgotten
          /\ Sweep(r, there) # None => (there <=> Sweep(r, there).absent = None)
      BY <2>1, <2>3, <3>2, SweepMatches
    <3>4. seen'[t] = IF forgotten THEN None ELSE s
      BY <2>5, <3>2
    <3> QED
      BY <2>2, <2>3, <2>5, <3>1, <3>2, <3>3, <3>4
  <2> QED
    BY <2>6, <2>7
<1>7. RecordInv'
  BY <1>6 DEF RecordInv
<1>8. /\ decisions' \in [Triples -> Record \union {None}]
      /\ seen' \in [Triples -> (0 .. Window) \union {None}]
      /\ gone' \in [Triples -> (0 .. Retention) \union {None}]
      /\ settled' \in [Triples -> Shapes \union {None}]
      /\ \A t \in over : /\ decisions'[t] # None /\ decisions'[t].warned
                         /\ decisions'[t].first # None /\ decisions'[t].absent = None
  <2>1. /\ decisions' = [t \in Triples |-> decisions'[t]]
        /\ seen' = [t \in Triples |-> seen'[t]]
        /\ gone' = [t \in Triples |-> gone'[t]]
        /\ settled' = [t \in Triples |-> settled'[t]]
    BY <1>4 DEF Note
  <2>2. OnTriples(decisions') /\ OnTriples(seen') /\ OnTriples(gone') /\ OnTriples(settled')
    BY <2>1 DEF OnTriples
  <2> QED
    BY <1>5, <1>6, <2>2, HistoryTypes
<1>9. accused' \subseteq Agents \X Files
  <2>1. PICK new \in SUBSET fs : accused' = accused \union {<<a, f>> : f \in new}
    BY DEF Status
  <2> QED
    BY <2>1 DEF TypeOK
<1>10. live' = Overlapping(files)'
  BY <1>2, <1>4 DEF Overlapping
<1>11. intents' \in [Agents -> Promise \union {None}] /\ warned' \subseteq Pairs
  BY <1>4, CurrentIntents
<1>12. files' \in [Agents -> SUBSET Files]
  BY <1>3, <1>4
<1>13. TypeOK'
  BY <1>4, <1>8, <1>9, <1>10, <1>11, <1>12 DEF TypeOK
<1> QED
  BY <1>7, <1>13

LEMMA AcknowledgeTypes ==
  ASSUME TypeOK, RecordInv, NEW t \in Triples, Acknowledge(t)
  PROVE  TypeOK' /\ RecordInv'
<1>1. PICK shape \in Shapes : shape = OverlapShape(t)
  BY ShapeType
<1>2. PICK x : x = [Known(decisions[t]) EXCEPT !.acknowledged = TRUE, !.shape = shape]
  OBVIOUS
<1>3. /\ decisions' = [decisions EXCEPT ![t] = x]
      /\ gone' = [gone EXCEPT ![t] = IF gone[t] = None THEN 0 ELSE gone[t]]
      /\ settled' = [settled EXCEPT ![t] = shape]
      /\ seen' = seen /\ live' = live /\ files' = files /\ accused' = accused
      /\ intents' = Current /\ warned' = StillWarned
  BY <1>1, <1>2 DEF Acknowledge, Known
<1>4. ASSUME NEW u \in Triples
      PROVE  /\ Matches(decisions'[u], seen'[u], gone'[u], settled'[u])
             /\ u \in live => /\ decisions'[u] # None /\ decisions'[u].absent = None
                              /\ seen'[u] # None
  <2>1. /\ Matches(decisions[u], seen[u], gone[u], settled[u])
        /\ u \in live => /\ decisions[u] # None /\ decisions[u].absent = None
                         /\ seen[u] # None
    BY RecordOf DEF TypeOK
  <2>2. CASE u # t
    <3>1. /\ decisions'[u] = decisions[u] /\ gone'[u] = gone[u]
          /\ settled'[u] = settled[u] /\ seen'[u] = seen[u]
      BY <1>3, <2>2
    <3> QED
      BY <2>1, <3>1
  <2>3. CASE u = t
    <3>1. /\ decisions'[u] = x /\ settled'[u] = shape /\ seen'[u] = seen[u]
          /\ gone'[u] = IF gone[u] = None THEN 0 ELSE gone[u]
      BY <1>3, <2>3 DEF TypeOK
    <3>2. Matches(x, seen[u], IF gone[u] = None THEN 0 ELSE gone[u], shape)
      BY <1>2, <2>1, <2>3, AcknowledgeMatches
    <3>3. decisions[u] # None => decisions[u] \in Record
      BY DEF TypeOK
    <3>4. decisions[u] # None => x.absent = decisions[u].absent /\ x \in Record
      BY <1>1, <1>2, <2>3, <3>3 DEF Known, Record
    <3> QED
      BY <2>1, <3>1, <3>2, <3>4, RecordFields
  <2> QED
    BY <2>2, <2>3
<1>5. RecordInv'
  BY <1>4 DEF RecordInv
<1>6. /\ decisions' \in [Triples -> Record \union {None}]
      /\ seen' \in [Triples -> (0 .. Window) \union {None}]
      /\ gone' \in [Triples -> (0 .. Retention) \union {None}]
      /\ settled' \in [Triples -> Shapes \union {None}]
      /\ \A u \in live : /\ decisions'[u] # None /\ decisions'[u].warned
                         /\ decisions'[u].first # None /\ decisions'[u].absent = None
  <2>1. OnTriples(decisions') /\ OnTriples(seen') /\ OnTriples(gone') /\ OnTriples(settled')
    BY <1>3 DEF TypeOK, OnTriples
  <2>2. live \in SUBSET Triples
    BY DEF TypeOK, Overlapping
  <2> QED
    BY <1>4, <2>1, <2>2, HistoryTypes
<1>7. live' = Overlapping(files)'
  BY <1>3 DEF Overlapping, TypeOK
<1>8. intents' \in [Agents -> Promise \union {None}] /\ warned' \subseteq Pairs
  BY <1>3, CurrentIntents
<1>9. files' \in [Agents -> SUBSET Files] /\ accused' \subseteq Agents \X Files
  BY <1>3 DEF TypeOK
<1>10. TypeOK'
  BY <1>3, <1>6, <1>7, <1>8, <1>9 DEF TypeOK
<1> QED
  BY <1>5, <1>10

LEMMA IntentTypes ==
  ASSUME TypeOK, RecordInv, NEW a \in Agents,
         NEW claims \in [Files -> Claims \union {None}], Intent(a, claims)
  PROVE  TypeOK' /\ RecordInv'
<1>1. PICK x : x = [claims |-> claims, left |-> Ttl]
  OBVIOUS
<1>2. x \in Promise
  BY <1>1, TimeAssumption DEF Promise
<1>3. intents' = [Current EXCEPT ![a] = x]
  BY <1>1 DEF Intent
<1>4. intents' \in [Agents -> Promise \union {None}]
  BY <1>2, <1>3, CurrentIntents
<1>5. warned' \subseteq Pairs
  <2>1. PICK overlaps \in SUBSET (Agents \ {a}) :
           warned' = Standing(a, claims) \union ({{a, b} : b \in overlaps} \ Standing(a, claims))
    BY DEF Intent
  <2>2. Standing(a, claims) \subseteq Pairs
    BY CurrentIntents DEF Standing
  <2>3. \A b \in overlaps : {a, b} \in Pairs
    BY DEF Pairs
  <2> QED
    BY <2>1, <2>2, <2>3
<1>6. UNCHANGED <<files, live, decisions, accused, seen, gone, settled>>
  BY DEF Intent
<1>7. RecordInv'
  BY <1>6 DEF RecordInv
<1>8. Overlapping(files)' = Overlapping(files)
  BY <1>6 DEF Overlapping
<1>9. TypeOK'
  BY <1>4, <1>5, <1>6, <1>8 DEF TypeOK
<1> QED
  BY <1>7, <1>9

-----------------------------------------------------------------------------
(* The messages of a step tell what they are about.                           *)

LEMMA PairsHaveMembers ==
  /\ \A p \in Pairs : \E a : a \in p
  /\ \A t \in Triples : \E a : a \in t.pair
  BY PairType, TripleType

LEMMA MessageKinds ==
  /\ \A p \in Pairs : \A x \in Forward(p) : x.kind = "forward conflict" /\ x.about = p
  /\ \A t \in Triples : \A x \in InFlight(t) : x.kind = "in-flight conflict" /\ x.about = t
  /\ \A t \in Triples : \A x \in Additive(t) : x.kind = "additive overlap" /\ x.about = t
  /\ \A t \in Triples : Question(t).kind = "in-flight question" /\ Question(t).about = t
<1>1. ASSUME NEW p \in Pairs, NEW x, x \in Forward(p)
      PROVE  x.kind = "forward conflict" /\ x.about = p
  <2>1. PICK a \in p : x = [kind |-> "forward conflict", to |-> a, about |-> p]
    BY <1>1 DEF Forward
  <2> QED
    BY <2>1
<1>2. ASSUME NEW t \in Triples, NEW x, x \in InFlight(t)
      PROVE  x.kind = "in-flight conflict" /\ x.about = t
  <2>1. PICK a \in t.pair : x = [kind |-> "in-flight conflict", to |-> a, about |-> t]
    BY <1>2 DEF InFlight
  <2> QED
    BY <2>1
<1>3. ASSUME NEW t \in Triples, NEW x, x \in Additive(t)
      PROVE  x.kind = "additive overlap" /\ x.about = t
  <2>1. PICK a \in t.pair : x = [kind |-> "additive overlap", to |-> a, about |-> t]
    BY <1>3 DEF Additive
  <2> QED
    BY <2>1
<1>4. ASSUME NEW t \in Triples
      PROVE  Question(t).kind = "in-flight question" /\ Question(t).about = t
  BY DEF Question
<1> QED
  BY <1>1, <1>2, <1>3, <1>4

LEMMA MessagesExist ==
  /\ \A p \in Pairs : \E x : x \in Forward(p)
  /\ \A t \in Triples : \E x : x \in InFlight(t)
  /\ \A t \in Triples : \E x : x \in Additive(t)
  BY PairsHaveMembers DEF Forward, InFlight, Additive

(* What a poll makes of one record, up to its ageing.                         *)
Here == Overlapping(files)
Swept(t) == Sweep(decisions[t], t \in Here)
Reconsidered(t) == Reconsider(Swept(t), OverlapShape(t))
Asked == {t \in Here : Due(Reconsidered(t))}
Taken(t) == IF t \notin Here THEN Swept(t)
            ELSE IF t \in Asked THEN Decide(Reconsidered(t), OverlapShape(t))
            ELSE Reconsidered(t)
AskedAbout(t) == Question(t) \in out' \/ Additive(t) \subseteq out'

LEMMA TickDoes ==
  ASSUME TypeOK, Tick
  PROVE  /\ live' = Here /\ files' = files /\ accused' = accused /\ warned' = StillWarned
         /\ Here \subseteq Triples
         /\ decisions' = [t \in Triples |-> Age(Taken(t))]
         /\ intents' = [a \in Agents |-> IF Current[a] = None THEN None
                                        ELSE [Current[a] EXCEPT !.left = Current[a].left - 1]]
         /\ \A t \in Triples : AskedAbout(t) <=> t \in Asked
         /\ \A p \in Pairs : ~(Forward(p) \subseteq out')
         /\ \A t \in Triples : ~(InFlight(t) \subseteq out')
<1>1. live \intersect Overlapping(files) = Here /\ Here \subseteq Triples
  BY DEF TypeOK, Here, Overlapping
<1>2. PICK additive : additive = {t \in Asked : OverlapShape(t) = Disjoint}
  OBVIOUS
<1>3. /\ live' = Here /\ files' = files /\ accused' = accused /\ warned' = StillWarned
      /\ intents' = [a \in Agents |-> IF Current[a] = None THEN None
                                     ELSE [Current[a] EXCEPT !.left = Current[a].left - 1]]
  BY <1>1 DEF Tick
<1>4. decisions' = [t \in Triples |-> Age(Taken(t))]
  <2>1. \A t \in Triples : decisions'[t] = Age(Taken(t))
    BY <1>1 DEF Tick, Taken, Asked, Reconsidered, Swept
  <2>2. OnTriples(decisions')
    BY DEF Tick, OnTriples
  <2> QED
    BY <2>1, <2>2 DEF OnTriples
<1>5. out' = {Question(t) : t \in Asked \ additive} \union UNION {Additive(t) : t \in additive}
  BY <1>1, <1>2 DEF Tick, Asked, Reconsidered, Swept
<1>6. ASSUME NEW x \in out'
      PROVE  \/ \E t \in Asked \ additive : x = Question(t)
             \/ \E t \in additive : x \in Additive(t)
  BY <1>5
<1>7. ASSUME NEW t \in Triples PROVE AskedAbout(t) <=> t \in Asked
  <2>1. ASSUME Question(t) \in out' PROVE t \in Asked
    <3>1. Question(t).kind = "in-flight question" /\ Question(t).about = t
      BY MessageKinds
    <3>2. ASSUME NEW u \in Asked \ additive, Question(t) = Question(u) PROVE u = t
      <4>1. u \in Triples
        BY <1>1 DEF Asked
      <4>2. Question(u).about = u
        BY <4>1, MessageKinds
      <4> QED
        BY <3>1, <3>2, <4>2
    <3>3. ASSUME NEW u \in additive, Question(t) \in Additive(u) PROVE FALSE
      <4>1. u \in Triples
        BY <1>1, <1>2 DEF Asked
      <4>2. Question(t).kind = "additive overlap"
        BY <3>3, <4>1, MessageKinds
      <4> QED
        BY <3>1, <4>2
    <3> QED
      BY <1>6, <2>1, <3>2, <3>3
  <2>2. ASSUME Additive(t) \subseteq out' PROVE t \in Asked
    <3>1. PICK x : x \in Additive(t) /\ x \in out'
      BY <2>2, MessagesExist
    <3>2. x.kind = "additive overlap" /\ x.about = t
      BY <3>1, MessageKinds
    <3>3. ASSUME NEW u \in Asked \ additive, x = Question(u) PROVE FALSE
      <4>1. u \in Triples
        BY <1>1 DEF Asked
      <4>2. Question(u).kind = "in-flight question"
        BY <4>1, MessageKinds
      <4> QED
        BY <3>2, <3>3, <4>2
    <3>4. ASSUME NEW u \in additive, x \in Additive(u) PROVE u = t
      <4>1. u \in Triples
        BY <1>1, <1>2 DEF Asked
      <4>2. x.about = u
        BY <3>4, <4>1, MessageKinds
      <4> QED
        BY <3>2, <4>2
    <3> QED
      BY <1>2, <1>6, <3>1, <3>3, <3>4
  <2>3. ASSUME t \in Asked \ additive PROVE Question(t) \in out'
    BY <1>5, <2>3
  <2>4. ASSUME t \in additive PROVE Additive(t) \subseteq out'
    BY <1>5, <2>4
  <2> QED
    BY <2>1, <2>2, <2>3, <2>4 DEF AskedAbout
<1>8. ASSUME NEW x \in out' PROVE x.kind \in {"in-flight question", "additive overlap"}
  <2>1. Asked \subseteq Triples /\ additive \subseteq Triples
    BY <1>1, <1>2 DEF Asked
  <2>2. ASSUME NEW u \in Asked \ additive, x = Question(u) PROVE x.kind = "in-flight question"
    BY <2>1, <2>2, MessageKinds
  <2>3. ASSUME NEW u \in additive, x \in Additive(u) PROVE x.kind = "additive overlap"
    BY <2>1, <2>3, MessageKinds
  <2> QED
    BY <1>6, <2>2, <2>3
<1>9. /\ \A p \in Pairs : ~(Forward(p) \subseteq out')
      /\ \A t \in Triples : ~(InFlight(t) \subseteq out')
  BY <1>8, MessageKinds, MessagesExist
<1> QED
  BY <1>1, <1>3, <1>4, <1>7, <1>9

(* One record, and the history of its overlap, over a poll.                   *)
LEMMA TickRecord ==
  ASSUME TypeOK, RecordInv, Tick, NEW t \in Triples
  PROVE  /\ Matches(decisions'[t], seen'[t], gone'[t], settled'[t])
         /\ t \in Here => /\ decisions'[t] # None /\ decisions'[t].absent = None
                          /\ seen'[t] # None
         /\ seen[t] = None => seen'[t] = None
         /\ t \in Asked => \/ settled[t] = None
                           \/ MateriallyDiffers(OverlapShape(t), settled[t])
         /\ t \in Here /\ seen[t] >= Window =>
              settled'[t] # None /\ ~MateriallyDiffers(OverlapShape(t), settled'[t])
<1>1. PICK r, s, g, z : /\ r = decisions[t] /\ s = seen[t] /\ g = gone[t] /\ z = settled[t]
                        /\ Matches(r, s, g, z)
  BY RecordOf
<1>2. PICK there \in BOOLEAN : there <=> t \in Here
  OBVIOUS
<1>3. PICK forgotten \in BOOLEAN : forgotten <=> g # None /\ g >= Retention /\ ~there
  OBVIOUS
<1>4. PICK shape \in Shapes : shape = OverlapShape(t)
  BY ShapeType
<1>5. Forgotten(t, files) <=> forgotten
  BY <1>1, <1>2, <1>3 DEF Forgotten, Here
<1>6. there => r # None /\ s # None
  BY <1>1, <1>2, RecordOf DEF Here
<1>7. PICK k, g1, s1, z1 :
        /\ k = Sweep(r, there) /\ s1 = IF forgotten THEN None ELSE s
        /\ g1 = IF forgotten THEN None ELSE IF there THEN 0 ELSE g
        /\ z1 = IF forgotten THEN None ELSE z
  OBVIOUS
<1>8. /\ Matches(k, s1, g1, z1)
      /\ k = None <=> r = None \/ forgotten
      /\ k # None => (there <=> k.absent = None)
  BY <1>1, <1>3, <1>6, <1>7, SweepMatches
<1>9. /\ seen'[t] = IF forgotten THEN None ELSE Older(s, Window)
      /\ gone'[t] = IF forgotten THEN None
                    ELSE IF there THEN 0 ELSE Older(g, Retention)
      /\ settled'[t] = IF forgotten THEN None
                       ELSE IF t \in Asked THEN shape
                       ELSE IF there /\ z # None /\ MateriallyDiffers(shape, z) THEN None
                       ELSE z
  <2>1. seen'[t] = IF forgotten THEN None ELSE Older(s, Window)
    BY <1>1, <1>5 DEF Tick
  <2>2. gone'[t] = IF forgotten THEN None ELSE IF there THEN 0 ELSE Older(g, Retention)
    BY <1>1, <1>2, <1>5 DEF Tick, Here
  <2>3. settled'[t] = IF Forgotten(t, files) THEN None
          ELSE IF AskedAbout(t) THEN OverlapShape(t)
          ELSE IF /\ t \in Here /\ settled[t] # None
                  /\ MateriallyDiffers(OverlapShape(t), settled[t]) THEN None
          ELSE settled[t]
    BY DEF Tick, AskedAbout, Here
  <2>4. AskedAbout(t) <=> t \in Asked
    BY TickDoes
  <2> QED
    BY <1>1, <1>2, <1>4, <1>5, <2>1, <2>2, <2>3, <2>4
<1>10. PICK x : x = Taken(t) /\ decisions'[t] = Age(x)
  BY TickDoes
<1>11. Swept(t) = k
  BY <1>1, <1>2, <1>7 DEF Swept
\* What is taken of the record matches the history but for the ageing.
<1>12. /\ Matches(x, s1, g1, IF forgotten THEN None ELSE settled'[t])
       /\ x = None <=> k = None
       /\ x # None => x.absent = k.absent
       /\ t \in Asked => there /\ (z = None \/ MateriallyDiffers(shape, z))
       /\ there /\ s >= Window =>
            settled'[t] # None /\ ~MateriallyDiffers(shape, settled'[t])
  <2>1. CASE ~there
    <3>1. x = k
      BY <1>2, <1>10, <1>11, <2>1 DEF Taken
    <3>2. t \notin Asked
      BY <1>2, <2>1 DEF Asked
    <3>3. (IF forgotten THEN None ELSE settled'[t]) = z1
      BY <1>7, <1>9, <2>1, <3>2
    <3> QED
      BY <1>8, <2>1, <3>1, <3>2, <3>3
  <2>2. CASE there
    <3>1. ~forgotten /\ k # None /\ z1 = z /\ s1 = s /\ s # None
      BY <1>3, <1>6, <1>7, <1>8, <2>2
    <3>2. PICK y, zy : /\ y = Reconsider(k, shape)
                       /\ zy = IF z # None /\ MateriallyDiffers(shape, z) THEN None ELSE z
      OBVIOUS
    <3>3. Matches(y, s1, g1, zy) /\ y # None /\ y.absent = k.absent
      BY <1>8, <3>1, <3>2, ReconsiderMatches
    <3>4. Due(y) <=> zy = None /\ s >= Window
      BY <3>1, <3>3, DueMatches
    <3>5. t \in Asked <=> Due(y)
      BY <1>2, <1>4, <1>11, <2>2, <3>2 DEF Asked, Reconsidered
    <3>6. x = IF t \in Asked THEN Decide(y, shape) ELSE y
      BY <1>2, <1>4, <1>10, <1>11, <2>2, <3>2 DEF Taken, Reconsidered
    <3>7. settled'[t] = IF t \in Asked THEN shape ELSE zy
      BY <1>9, <2>2, <3>1, <3>2
    <3>8. shape # None /\ ~MateriallyDiffers(shape, shape)
      BY NoneAssumption DEF MateriallyDiffers
    <3>9. CASE t \in Asked
      <4>1. /\ Matches(Decide(y, shape), s1, g1, shape)
            /\ Decide(y, shape) # None /\ Decide(y, shape).absent = y.absent
        BY <3>3, DecideMatches
      <4>2. z = None \/ MateriallyDiffers(shape, z)
        BY <3>2, <3>4, <3>5, <3>9
      <4> QED
        BY <2>2, <3>1, <3>3, <3>6, <3>7, <3>8, <3>9, <4>1, <4>2
    <3>10. CASE t \notin Asked
      <4>1. s >= Window => zy # None
        BY <3>4, <3>5, <3>10
      <4>2. zy # None => zy = z /\ ~MateriallyDiffers(shape, z)
        BY <3>2
      <4> QED
        BY <2>2, <3>1, <3>3, <3>6, <3>7, <3>10, <4>1, <4>2
    <3> QED
      BY <3>9, <3>10
  <2> QED
    BY <2>1, <2>2
<1>13. PICK z2 : z2 = IF forgotten THEN None ELSE settled'[t]
  OBVIOUS
<1>14. settled'[t] = z2
  BY <1>9, <1>13
<1>15. x # None => (there <=> x.absent = None)
  BY <1>8, <1>12
<1>16. /\ Matches(Age(x), IF x = None THEN None ELSE Older(s1, Window),
                  IF x = None THEN None ELSE IF there THEN 0 ELSE Older(g1, Retention), z2)
       /\ x # None => /\ Age(x) # None
                      /\ Age(x).absent = None <=> x.absent = None
                      /\ Age(x).first = None <=> x.first = None
  BY <1>12, <1>13, <1>15, AgeMatches
<1>17. s = None => Older(s, Window) = None
  BY DEF Older
<1>18. r = None => s = None /\ g = None /\ ~there
  BY <1>1, <1>6 DEF Matches
<1>19. /\ seen'[t] = IF x = None THEN None ELSE Older(s1, Window)
       /\ gone'[t] = IF x = None THEN None ELSE IF there THEN 0 ELSE Older(g1, Retention)
  <2>1. CASE forgotten
    BY <1>8, <1>9, <1>12, <2>1
  <2>2. CASE ~forgotten /\ r = None
    <3>1. Older(g, Retention) = None
      BY <1>18, <2>2 DEF Older
    <3> QED
      BY <1>8, <1>9, <1>12, <1>17, <1>18, <2>2, <3>1
  <2>3. CASE ~forgotten /\ r # None
    BY <1>7, <1>8, <1>9, <1>12, <2>3
  <2> QED
    BY <2>1, <2>2, <2>3
<1>20. Matches(decisions'[t], seen'[t], gone'[t], settled'[t])
  BY <1>10, <1>14, <1>16, <1>19
<1>21. there => /\ decisions'[t] # None /\ decisions'[t].absent = None
                /\ seen'[t] # None
  <2>1. there => x # None /\ x.absent = None /\ ~forgotten
    BY <1>3, <1>6, <1>8, <1>12, <1>15
  <2>2. there => s \in (0 .. Window)
    BY <1>1, <1>6, MatchesType
  <2>3. there => Older(s, Window) # None
    BY <1>6, <2>2, OlderType, TimeAssumption
  <2> QED
    BY <1>9, <1>10, <1>16, <2>1, <2>3
<1> QED
  BY <1>1, <1>2, <1>4, <1>9, <1>12, <1>17, <1>20, <1>21

LEMMA TickTypes ==
  ASSUME TypeOK, RecordInv, Tick
  PROVE  TypeOK' /\ RecordInv'
<1>1. /\ live' = Here /\ files' = files /\ accused' = accused /\ warned' = StillWarned
      /\ Here \subseteq Triples
      /\ intents' = [a \in Agents |-> IF Current[a] = None THEN None
                                     ELSE [Current[a] EXCEPT !.left = Current[a].left - 1]]
  BY TickDoes
<1>2. RecordInv'
  BY TickRecord DEF RecordInv
<1>3. /\ decisions' \in [Triples -> Record \union {None}]
      /\ seen' \in [Triples -> (0 .. Window) \union {None}]
      /\ gone' \in [Triples -> (0 .. Retention) \union {None}]
      /\ settled' \in [Triples -> Shapes \union {None}]
      /\ \A t \in Here : /\ decisions'[t] # None /\ decisions'[t].warned
                         /\ decisions'[t].first # None /\ decisions'[t].absent = None
  <2>1. OnTriples(decisions') /\ OnTriples(seen') /\ OnTriples(gone') /\ OnTriples(settled')
    BY DEF Tick, OnTriples
  <2>2. \A t \in Triples : Matches(decisions'[t], seen'[t], gone'[t], settled'[t])
    BY TickRecord
  <2>3. \A t \in Here : /\ decisions'[t] # None /\ decisions'[t].absent = None
                        /\ seen'[t] # None
    BY <1>1, TickRecord
  <2> QED
    BY <1>1, <2>1, <2>2, <2>3, HistoryTypes
<1>4. ASSUME NEW a \in Agents PROVE intents'[a] \in Promise \union {None}
  <2>1. CASE Current[a] = None
    BY <1>1, <2>1
  <2>2. CASE Current[a] # None
    <3>1. /\ Current[a] \in Promise /\ Current[a].left \in 0 .. Ttl
      BY <2>2, ClaimType
    <3>2. PICK n : n = Current[a].left - 1
      OBVIOUS
    <3>3. n \in -1 .. Ttl
      BY <3>1, <3>2, TimeAssumption
    <3>4. intents'[a] = [Current[a] EXCEPT !.left = n]
      BY <1>1, <2>2, <3>2
    <3> QED
      BY <3>1, <3>3, <3>4 DEF Promise
  <2> QED
    BY <2>1, <2>2
<1>5. intents' \in [Agents -> Promise \union {None}]
  BY <1>1, <1>4
<1>6. live' = Overlapping(files)'
  BY <1>1 DEF Overlapping, Here
<1>7. warned' \subseteq Pairs
  BY <1>1, CurrentIntents
<1>8. files' \in [Agents -> SUBSET Files] /\ accused' \subseteq Agents \X Files
  BY <1>1 DEF TypeOK
<1>9. TypeOK'
  BY <1>1, <1>3, <1>5, <1>6, <1>7, <1>8 DEF TypeOK
<1> QED
  BY <1>2, <1>9

-----------------------------------------------------------------------------
(* WarnedInv, and who is told of a conflict between intents.                  *)

(* A step that only lets expired intents go changes nobody's claims.          *)
LEMMA QuietStep ==
  ASSUME TypeOK, WarnedInv, intents' = Current, warned' = StillWarned
  PROVE  /\ WarnedInv'
         /\ \A p \in Pairs : Conflicting(p)' => Conflicting(p)
         /\ \A a \in Agents : Claimed(a)' = Claimed(a)
<1>1. \A a \in Agents : ~Expired(a)'
  <2>1. ASSUME NEW a \in Agents PROVE ~(Current[a] # None /\ Current[a].left < 0)
    <3>1. Current[a] # None => Current[a].left \in 0 .. Ttl
      BY ClaimType
    <3> QED
      BY <3>1
  <2> QED
    BY <2>1 DEF Expired
<1>2. Current' = Current
  <2>1. \A a \in Agents : Current'[a] = Current[a]
    BY <1>1 DEF Current
  <2>2. Current' = [a \in Agents |-> Current'[a]] /\ Current = [a \in Agents |-> Current[a]]
    BY DEF Current
  <2> QED
    BY <2>1, <2>2
<1>3. \A a \in Agents : Claimed(a)' = Claimed(a)
  BY <1>2 DEF Claimed
<1>4. \A p \in Pairs : Conflicting(p)' <=> Conflicting(p)
  BY <1>2 DEF Conflicting, Claim
<1>5. \A p \in Pairs : p \in StillWarned' <=> p \in StillWarned
  <2>1. \A p \in Pairs : \A a \in p : ~Expired(a)'
    BY <1>1 DEF Pairs
  <2>2. StillWarned' = {p \in StillWarned : \A a \in p : ~Expired(a)'}
    BY DEF StillWarned
  <2> QED
    BY <2>1, <2>2
<1> QED
  BY <1>3, <1>4, <1>5 DEF WarnedInv

(* An intent that expires ends its conflicts and starts none.                 *)
LEMMA TickClaims ==
  ASSUME TypeOK, WarnedInv, Tick
  PROVE  /\ WarnedInv'
         /\ \A p \in Pairs : Conflicting(p)' =>
              /\ Conflicting(p) /\ \A a \in p : Claimed(a)' = Claimed(a)
<1>1. /\ warned' = StillWarned
      /\ intents' = [a \in Agents |-> IF Current[a] = None THEN None
                                     ELSE [Current[a] EXCEPT !.left = Current[a].left - 1]]
  BY TickDoes
<1>2. ASSUME NEW a \in Agents
      PROVE  /\ Expired(a)' => Current'[a] = None
             /\ ~Expired(a)' => /\ Current'[a] = None <=> Current[a] = None
                                /\ Current[a] # None => Current'[a].claims = Current[a].claims
  <2>1. Current'[a] = IF Expired(a)' THEN None ELSE intents'[a]
    BY DEF Current
  <2>2. CASE Current[a] = None
    <3>1. intents'[a] = None
      BY <1>1, <2>2
    <3>2. ~Expired(a)'
      BY <3>1 DEF Expired
    <3> QED
      BY <2>1, <2>2, <3>1, <3>2
  <2>3. CASE Current[a] # None
    <3>1. Current[a] \in Promise /\ Current[a].left \in 0 .. Ttl
      BY <2>3, ClaimType
    <3>2. PICK n : n = Current[a].left - 1
      OBVIOUS
    <3>3. n \in -1 .. Ttl
      BY <3>1, <3>2, TimeAssumption
    <3>4. intents'[a] = [Current[a] EXCEPT !.left = n]
      BY <1>1, <2>3, <3>2
    <3>5. intents'[a] \in Promise /\ intents'[a].claims = Current[a].claims
      BY <3>1, <3>3, <3>4 DEF Promise
    <3>6. intents'[a] # None
      BY <3>5, NoneAssumption
    <3> QED
      BY <2>1, <2>3, <3>5, <3>6
  <2> QED
    BY <2>2, <2>3
<1>3. ASSUME NEW a \in Agents
      PROVE  /\ Expired(a)' => \A f \in Files : Claim(a, f)' = None
             /\ ~Expired(a)' => /\ Claimed(a)' = Claimed(a)
                                /\ \A f \in Files : Claim(a, f)' = Claim(a, f)
  <2>1. Expired(a)' => \A f \in Files : Claim(a, f)' = None
    BY <1>2 DEF Claim
  <2>2. ~Expired(a)' => Claimed(a)' = Claimed(a)
    BY <1>2 DEF Claimed
  <2>3. ~Expired(a)' => \A f \in Files : Claim(a, f)' = Claim(a, f)
    BY <1>2 DEF Claim
  <2> QED
    BY <2>1, <2>2, <2>3
<1>4. ASSUME NEW p \in Pairs
      PROVE  Conflicting(p)' <=> Conflicting(p) /\ \A a \in p : ~Expired(a)'
  <2>1. PICK a \in Agents, b \in Agents : a # b /\ p = {a, b}
    BY PairType
  <2>2. ASSUME Conflicting(p)'
        PROVE  Conflicting(p) /\ \A x \in p : ~Expired(x)'
    <3>1. PICK x \in p, y \in p, f \in Files :
             x # y /\ ClaimsConflict(Claim(x, f)', Claim(y, f)')
      BY <2>2 DEF Conflicting
    <3>2. Claim(x, f)' # None /\ Claim(y, f)' # None
      BY <3>1 DEF ClaimsConflict
    <3>3. x \in Agents /\ y \in Agents /\ p = {x, y}
      BY <2>1, <3>1
    <3>4. ~Expired(x)' /\ ~Expired(y)'
      BY <1>3, <3>2, <3>3
    <3>5. Claim(x, f)' = Claim(x, f) /\ Claim(y, f)' = Claim(y, f)
      BY <1>3, <3>3, <3>4
    <3>6. ClaimsConflict(Claim(x, f), Claim(y, f))
      BY <3>1, <3>5
    <3>7. Conflicting(p)
      BY <3>1, <3>6 DEF Conflicting
    <3> QED
      BY <3>3, <3>4, <3>7
  <2>3. ASSUME Conflicting(p), \A x \in p : ~Expired(x)'
        PROVE  Conflicting(p)'
    <3>1. PICK x \in p, y \in p, f \in Files :
             x # y /\ ClaimsConflict(Claim(x, f), Claim(y, f))
      BY <2>3 DEF Conflicting
    <3>2. x \in Agents /\ y \in Agents
      BY <2>1, <3>1
    <3>3. Claim(x, f)' = Claim(x, f) /\ Claim(y, f)' = Claim(y, f)
      BY <1>3, <2>3, <3>1, <3>2
    <3>4. ClaimsConflict(Claim(x, f)', Claim(y, f)')
      BY <3>1, <3>3
    <3> QED
      BY <3>1, <3>4 DEF Conflicting
  <2> QED
    BY <2>2, <2>3
<1>5. StillWarned' = {p \in StillWarned : \A a \in p : ~Expired(a)'}
  BY <1>1 DEF StillWarned
<1>6. WarnedInv'
  BY <1>4, <1>5 DEF WarnedInv
<1>7. ASSUME NEW p \in Pairs, Conflicting(p)'
      PROVE  Conflicting(p) /\ \A a \in p : Claimed(a)' = Claimed(a)
  <2>1. Conflicting(p) /\ \A a \in p : ~Expired(a)'
    BY <1>4, <1>7
  <2>2. \A a \in p : a \in Agents
    BY PairType
  <2> QED
    BY <1>3, <2>1, <2>2
<1> QED
  BY <1>6, <1>7

(* Two agents conflict when their claims on some file do, whoever is first.   *)
LEMMA ConflictingPair ==
  ASSUME TypeOK, NEW a \in Agents, NEW b \in Agents, a # b
  PROVE  Conflicting({a, b}) <=> \E f \in Files : ClaimsConflict(Claim(a, f), Claim(b, f))
<1>1. \A f \in Files : /\ Claim(a, f) \in Claims \union {None}
                       /\ Claim(b, f) \in Claims \union {None}
  BY ClaimType
<1>2. \A f \in Files : ClaimsConflict(Claim(a, f), Claim(b, f))
                         <=> ClaimsConflict(Claim(b, f), Claim(a, f))
  BY <1>1, ConflictSymmetric
<1> QED
  BY <1>2 DEF Conflicting

(* Who conflicts with an agent that claims this.                              *)
Against(a, claims) == {b \in Agents \ {a} :
                        \E f \in Files : ClaimsConflict(claims[f], Claim(b, f))}

LEMMA IntentChanges ==
  ASSUME TypeOK, NEW a \in Agents,
         NEW claims \in [Files -> Claims \union {None}], Intent(a, claims)
  PROVE  /\ \A b \in Agents : ~Expired(b)'
         /\ Claimed(a)' = claims
         /\ \A b \in Agents \ {a} : Claimed(b)' = Claimed(b)
         /\ \A p \in Pairs : a \notin p => (Conflicting(p)' <=> Conflicting(p))
         /\ \A b \in Agents \ {a} : Conflicting({a, b})' <=> b \in Against(a, claims)
<1>1. PICK x : x = [claims |-> claims, left |-> Ttl]
  OBVIOUS
<1>2. x \in Promise /\ x.left \in Nat /\ x.claims = claims
  BY <1>1, TimeAssumption DEF Promise
<1>3. x # None
  BY <1>2, NoneAssumption
<1>4. intents' = [Current EXCEPT ![a] = x]
  BY <1>1 DEF Intent
<1>5. \A b \in Agents : intents'[b] = IF b = a THEN x ELSE Current[b]
  BY <1>4, CurrentIntents
<1>6. ASSUME NEW b \in Agents PROVE ~Expired(b)'
  <2>1. CASE b = a
    BY <1>2, <1>5, <2>1 DEF Expired
  <2>2. CASE b # a
    <3>1. intents'[b] = Current[b]
      BY <1>5, <2>2
    <3>2. Current[b] # None => Current[b].left \in 0 .. Ttl
      BY ClaimType
    <3>3. Current[b] # None => ~(Current[b].left < 0)
      BY <3>2
    <3> QED
      BY <3>1, <3>3 DEF Expired
  <2> QED
    BY <2>1, <2>2
<1>7. \A b \in Agents : Current'[b] = IF b = a THEN x ELSE Current[b]
  BY <1>5, <1>6 DEF Current
<1>8. /\ Claimed(a)' = claims
      /\ \A b \in Agents \ {a} : Claimed(b)' = Claimed(b)
  BY <1>2, <1>3, <1>7 DEF Claimed
<1>9. /\ \A f \in Files : Claim(a, f)' = claims[f]
      /\ \A b \in Agents \ {a}, f \in Files : Claim(b, f)' = Claim(b, f)
  BY <1>2, <1>3, <1>7 DEF Claim
<1>10. ASSUME NEW p \in Pairs, a \notin p PROVE Conflicting(p)' <=> Conflicting(p)
  <2>1. \A b \in p : b \in Agents \ {a}
    BY <1>10 DEF Pairs
  <2> QED
    BY <1>9, <2>1 DEF Conflicting
<1>11. ASSUME NEW b \in Agents \ {a}
       PROVE  Conflicting({a, b})' <=> b \in Against(a, claims)
  <2>1. \A f \in Files : ClaimsConflict(claims[f], Claim(b, f))
                           <=> ClaimsConflict(Claim(b, f), claims[f])
    <3>1. \A f \in Files : /\ Claim(b, f) \in Claims \union {None}
                           /\ claims[f] \in Claims \union {None}
      BY ClaimType
    <3> QED
      BY <3>1, ConflictSymmetric
  <2>2. \A f \in Files : Claim(a, f)' = claims[f] /\ Claim(b, f)' = Claim(b, f)
    BY <1>9
  <2>3. Conflicting({a, b})' <=>
          \E y, z \in {a, b} : y # z /\ \E f \in Files : ClaimsConflict(Claim(y, f)', Claim(z, f)')
    BY DEF Conflicting
  <2>4. Conflicting({a, b})' <=>
          \E f \in Files : \/ ClaimsConflict(Claim(a, f)', Claim(b, f)')
                           \/ ClaimsConflict(Claim(b, f)', Claim(a, f)')
    BY <2>3
  <2> QED
    BY <2>1, <2>2, <2>4 DEF Against
<1> QED
  BY <1>6, <1>8, <1>10, <1>11

(* A pair hears of its conflict when its intents conflict now and did not, or *)
(* when the agent that publishes claims something else than before.           *)
LEMMA IntentClaims ==
  ASSUME TypeOK, WarnedInv, NEW a \in Agents,
         NEW claims \in [Files -> Claims \union {None}], Intent(a, claims)
  PROVE  /\ WarnedInv'
         /\ \A p \in Pairs :
              Forward(p) \subseteq out'
                <=> /\ Conflicting(p)'
                    /\ ~Conflicting(p) \/ \E x \in p : Claimed(x)' # Claimed(x)
         /\ \A t \in Triples : ~(InFlight(t) \subseteq out') /\ ~AskedAbout(t)
<1>1. PICK told : told = {{a, b} : b \in Against(a, claims)} \ Standing(a, claims)
  OBVIOUS
<1>2. /\ warned' = Standing(a, claims) \union told
      /\ out' = UNION {Forward(p) : p \in told}
  BY <1>1 DEF Intent, Against
<1>3. told \subseteq Pairs
  <2>1. \A b \in Against(a, claims) : {a, b} \in Pairs
    BY DEF Pairs, Against
  <2> QED
    BY <1>1, <2>1
<1>4. ASSUME NEW p \in Pairs PROVE Forward(p) \subseteq out' <=> p \in told
  <2>1. ASSUME Forward(p) \subseteq out' PROVE p \in told
    <3>1. PICK x : x \in Forward(p) /\ x \in out'
      BY <2>1, MessagesExist
    <3>2. PICK q \in told : x \in Forward(q)
      BY <1>2, <3>1
    <3>3. x.about = p /\ x.about = q
      BY <1>3, <3>1, <3>2, MessageKinds
    <3> QED
      BY <3>2, <3>3
  <2>2. ASSUME p \in told PROVE Forward(p) \subseteq out'
    BY <1>2, <2>2
  <2> QED
    BY <2>1, <2>2
<1>5. ASSUME NEW t \in Triples PROVE ~(InFlight(t) \subseteq out') /\ ~AskedAbout(t)
  <2>1. ASSUME NEW x \in out' PROVE x.kind = "forward conflict"
    <3>1. PICK q \in told : x \in Forward(q)
      BY <1>2, <2>1
    <3> QED
      BY <1>3, <3>1, MessageKinds
  <2>2. ~(InFlight(t) \subseteq out')
    BY <2>1, MessageKinds, MessagesExist
  <2>3. ~(Additive(t) \subseteq out')
    BY <2>1, MessageKinds, MessagesExist
  <2>4. Question(t) \notin out'
    BY <2>1, MessageKinds
  <2> QED
    BY <2>2, <2>3, <2>4 DEF AskedAbout
<1>6. ASSUME NEW p \in Pairs, a \notin p
      PROVE  /\ p \in StillWarned' <=> Conflicting(p)'
             /\ p \notin told
             /\ Conflicting(p)' <=> Conflicting(p)
             /\ \A x \in p : Claimed(x)' = Claimed(x)
  <2>1. p \notin told
    BY <1>1, <1>6
  <2>2. p \in warned' <=> p \in StillWarned
    BY <1>2, <1>6, <2>1 DEF Standing
  <2>3. \A x \in p : x \in Agents \ {a}
    BY <1>6 DEF Pairs
  <2>4. p \in StillWarned' <=> p \in warned'
    BY <2>3, IntentChanges DEF StillWarned
  <2> QED
    BY <1>6, <2>1, <2>2, <2>3, <2>4, IntentChanges DEF WarnedInv
<1>7. ASSUME NEW b \in Agents \ {a}
      PROVE  /\ {a, b} \in StillWarned' <=> Conflicting({a, b})'
             /\ {a, b} \in told
                  <=> /\ Conflicting({a, b})'
                      /\ \/ ~Conflicting({a, b})
                         \/ \E x \in {a, b} : Claimed(x)' # Claimed(x)
  <2>1. PICK p \in Pairs : p = {a, b}
    BY DEF Pairs
  <2>2. Conflicting(p)' <=> b \in Against(a, claims)
    BY <2>1, IntentChanges
  <2>3. p \in Standing(a, claims) <=>
          Conflicting(p) /\ Current[a] # None /\ Current[a].claims = claims
    BY <2>1 DEF Standing, WarnedInv
  <2>4. Conflicting(p) => Current[a] # None
    <3>1. Conflicting(p) => \E f \in Files : ClaimsConflict(Claim(a, f), Claim(b, f))
      BY <2>1, ConflictingPair
    <3> QED
      BY <3>1 DEF ClaimsConflict, Claim
  <2>5. Current[a] # None => Claimed(a) = Current[a].claims
    BY DEF Claimed
  <2>6. p \in Standing(a, claims) <=> Conflicting(p) /\ Claimed(a)' = Claimed(a)
    <3>1. Claimed(a)' = claims
      BY IntentChanges
    <3> QED
      BY <2>3, <2>4, <2>5, <3>1
  <2>7. p \in Standing(a, claims) => b \in Against(a, claims)
    <3>1. ASSUME p \in Standing(a, claims) PROVE b \in Against(a, claims)
      <4>1. PICK f \in Files : ClaimsConflict(Claim(a, f), Claim(b, f))
        BY <2>1, <2>3, <3>1, ConflictingPair
      <4>2. Claim(a, f) = claims[f]
        BY <2>3, <3>1 DEF Claim
      <4> QED
        BY <4>1, <4>2 DEF Against
    <3> QED
      BY <3>1
  <2>8. p \in {{a, c} : c \in Against(a, claims)} <=> b \in Against(a, claims)
    <3>1. \A c \in Agents \ {a} : p = {a, c} => c = b
      BY <2>1
    <3> QED
      BY <2>1, <3>1 DEF Against
  <2>9. p \in told <=> b \in Against(a, claims) /\ p \notin Standing(a, claims)
    BY <1>1, <2>8
  <2>10. p \in warned' <=> b \in Against(a, claims)
    BY <1>2, <2>7, <2>9
  <2>11. p \in StillWarned' <=> p \in warned'
    BY <2>1, IntentChanges DEF StillWarned
  <2>12. (\E x \in p : Claimed(x)' # Claimed(x)) <=> Claimed(a)' # Claimed(a)
    BY <2>1, IntentChanges
  <2> QED
    BY <2>1, <2>2, <2>6, <2>9, <2>10, <2>11, <2>12
<1>8. ASSUME NEW p \in Pairs, a \in p PROVE \E b \in Agents \ {a} : p = {a, b}
  <2>1. PICK x \in Agents, y \in Agents : x # y /\ p = {x, y}
    BY PairType
  <2> QED
    BY <1>8, <2>1
<1>9. WarnedInv'
  BY <1>6, <1>7, <1>8 DEF WarnedInv
<1>10. \A p \in Pairs :
         p \in told <=> /\ Conflicting(p)'
                        /\ ~Conflicting(p) \/ \E x \in p : Claimed(x)' # Claimed(x)
  BY <1>6, <1>7, <1>8
<1> QED
  BY <1>4, <1>5, <1>9, <1>10

-----------------------------------------------------------------------------
(* The steps that say nothing of intents.                                     *)

(* What a status publishes: an in-flight conflict to both, when its record    *)
(* was not announced, that is when the history had none of it.                *)
LEMMA StatusTold ==
  ASSUME TypeOK, RecordInv, NEW a \in Agents, NEW fs \in SUBSET Files, Status(a, fs)
  PROVE  /\ \A p \in Pairs : ~(Forward(p) \subseteq out')
         /\ \A t \in Triples : InFlight(t) \subseteq out' <=> seen[t] = None /\ seen'[t] # None
         /\ \A t \in Triples : ~AskedAbout(t)
<1>1. PICK now : now = [files EXCEPT ![a] = fs]
  OBVIOUS
<1>2. PICK over : over = Overlapping(now)
  OBVIOUS
<1>3. PICK fresh : fresh = {t \in {u \in over : a \in u.pair} :
                             decisions[t] = None \/ ~decisions[t].warned}
  OBVIOUS
<1>4. PICK violated : violated = {f \in fs :
                        /\ Claim(a, f) = None /\ <<a, f>> \notin accused
                        /\ \E b \in Agents \ {a} : Claim(b, f) # None}
  OBVIOUS
<1>5. out' = (UNION {InFlight(t) : t \in fresh}) \union (UNION {Violation(a, f) : f \in violated})
  BY <1>1, <1>2, <1>3, <1>4 DEF Status
<1>6. fresh \subseteq Triples
  BY <1>2, <1>3 DEF Overlapping
<1>7. ASSUME NEW x \in out'
      PROVE  \/ \E t \in fresh : x \in InFlight(t)
             \/ x.kind \in {"ownership violation", "ownership question"}
  <2>1. (\E t \in fresh : x \in InFlight(t)) \/ \E f \in violated : x \in Violation(a, f)
    BY <1>5
  <2>2. ASSUME NEW f, NEW y \in Violation(a, f)
        PROVE  y.kind \in {"ownership violation", "ownership question"}
    <3>1. \/ y = [kind |-> "ownership violation", to |-> a, about |-> f]
          \/ y = [kind |-> "ownership question", to |-> None, about |-> <<a, f>>]
      BY DEF Violation
    <3>2. CASE y = [kind |-> "ownership violation", to |-> a, about |-> f]
      BY <3>2
    <3>3. CASE y = [kind |-> "ownership question", to |-> None, about |-> <<a, f>>]
      BY <3>3
    <3> QED
      BY <3>1, <3>2, <3>3
  <2> QED
    BY <2>1, <2>2
<1>8. ASSUME NEW x \in out'
      PROVE  x.kind \in {"in-flight conflict", "ownership violation", "ownership question"}
  BY <1>6, <1>7, MessageKinds
<1>9. \A p \in Pairs : ~(Forward(p) \subseteq out')
  BY <1>8, MessageKinds, MessagesExist
<1>10. ASSUME NEW t \in Triples PROVE ~AskedAbout(t)
  <2>1. ~(Additive(t) \subseteq out')
    BY <1>8, MessageKinds, MessagesExist
  <2>2. Question(t) \notin out'
    BY <1>8, MessageKinds
  <2> QED
    BY <2>1, <2>2 DEF AskedAbout
<1>11. ASSUME NEW t \in Triples PROVE InFlight(t) \subseteq out' <=> t \in fresh
  <2>1. ASSUME InFlight(t) \subseteq out' PROVE t \in fresh
    <3>1. PICK x : x \in InFlight(t) /\ x \in out'
      BY <2>1, MessagesExist
    <3>2. x.kind = "in-flight conflict" /\ x.about = t
      BY <3>1, MessageKinds
    <3>3. PICK u \in fresh : x \in InFlight(u)
      BY <1>7, <3>1, <3>2
    <3>4. x.about = u
      BY <1>6, <3>3, MessageKinds
    <3> QED
      BY <3>2, <3>3, <3>4
  <2>2. ASSUME t \in fresh PROVE InFlight(t) \subseteq out'
    BY <1>5, <2>2
  <2> QED
    BY <2>1, <2>2
<1>12. ASSUME NEW t \in Triples PROVE t \in fresh <=> seen[t] = None /\ seen'[t] # None
  <2>1. Matches(decisions[t], seen[t], gone[t], settled[t])
    BY RecordOf
  <2>2. decisions[t] = None \/ ~decisions[t].warned <=> seen[t] = None
    BY <2>1 DEF Matches
  <2>3. t \in over /\ a \notin t.pair => seen[t] # None
    BY <1>1, <1>2, StayIsLive, RecordOf
  <2>4. seen'[t] = IF Forgotten(t, now) THEN None
                   ELSE IF t \in over /\ seen[t] = None THEN 0 ELSE seen[t]
    BY <1>1, <1>2 DEF Status, Note
  <2>5. t \in over => ~Forgotten(t, now)
    BY <1>2 DEF Forgotten
  <2>6. 0 # None
    BY NoneDiffers
  <2>7. t \in fresh <=> t \in over /\ a \in t.pair /\ seen[t] = None
    BY <1>3, <2>2
  <2> QED
    BY <2>3, <2>4, <2>5, <2>6, <2>7
<1> QED
  BY <1>9, <1>10, <1>11, <1>12

LEMMA AcknowledgeTold ==
  ASSUME NEW u \in Triples, Acknowledge(u)
  PROVE  /\ \A p \in Pairs : ~(Forward(p) \subseteq out')
         /\ \A t \in Triples : ~(InFlight(t) \subseteq out') /\ ~AskedAbout(t)
<1>1. out' = {}
  BY DEF Acknowledge
<1> QED
  BY <1>1, MessagesExist DEF AskedAbout

-----------------------------------------------------------------------------
(* The invariant, and the properties of the steps.                            *)

LEMMA InitInv == Init => IInv
<1> SUFFICES ASSUME Init PROVE IInv
  OBVIOUS
<1>1. Overlapping(files) = {}
  <2>1. ASSUME NEW t \in Triples PROVE \E a \in t.pair : t.file \notin files[a]
    <3>1. PICK a \in t.pair : a \in Agents
      BY PairType, TripleType
    <3> QED
      BY <3>1 DEF Init
  <2> QED
    BY <2>1 DEF Overlapping
<1>2. TypeOK
  BY <1>1 DEF Init, TypeOK
<1>3. RecordInv
  BY DEF Init, RecordInv, Matches
<1>4. \A a \in Agents : Current[a] = None
  BY DEF Init, Current
<1>5. ASSUME NEW p \in Pairs PROVE ~Conflicting(p)
  <2>1. \A a \in p : a \in Agents
    BY DEF Pairs
  <2>2. \A a \in p, f \in Files : Claim(a, f) = None
    BY <1>4, <2>1 DEF Claim
  <2> QED
    BY <2>2 DEF Conflicting, ClaimsConflict
<1>6. WarnedInv
  BY <1>5 DEF Init, WarnedInv, StillWarned
<1> QED
  BY <1>2, <1>3, <1>6 DEF IInv

LEMMA NextKeeps == IInv /\ [Next]_vars => IInv'
<1> SUFFICES ASSUME IInv, [Next]_vars PROVE IInv'
  OBVIOUS
<1> USE DEF IInv
<1>1. CASE \E a \in Agents, claims \in [Files -> Claims \union {None}] : Intent(a, claims)
  BY <1>1, IntentTypes, IntentClaims
<1>2. CASE \E a \in Agents, fs \in SUBSET Files : Status(a, fs)
  <2>1. PICK a \in Agents, fs \in SUBSET Files : Status(a, fs)
    BY <1>2
  <2>2. intents' = Current /\ warned' = StillWarned
    BY <2>1 DEF Status
  <2> QED
    BY <2>1, <2>2, StatusTypes, QuietStep
<1>3. CASE \E t \in Triples : Acknowledge(t)
  <2>1. PICK t \in Triples : Acknowledge(t)
    BY <1>3
  <2>2. intents' = Current /\ warned' = StillWarned
    BY <2>1 DEF Acknowledge
  <2> QED
    BY <2>1, <2>2, AcknowledgeTypes, QuietStep
<1>4. CASE Tick
  BY <1>4, TickTypes, TickClaims
<1>5. CASE UNCHANGED vars
  <2>1. /\ Overlapping(files)' = Overlapping(files)
        /\ intents' = intents /\ warned' = warned
        /\ UNCHANGED <<files, live, accused, decisions, seen, gone, settled>>
    BY <1>5 DEF vars, tracker, Overlapping
  <2>2. TypeOK'
    BY <2>1 DEF TypeOK
  <2>3. RecordInv'
    BY <2>1 DEF RecordInv
  <2>4. Current' = Current /\ StillWarned' = StillWarned
    BY <2>1 DEF Current, StillWarned, Expired
  <2>5. \A p \in Pairs : Conflicting(p)' <=> Conflicting(p)
    BY <2>4 DEF Conflicting, Claim
  <2>6. WarnedInv'
    BY <2>4, <2>5 DEF WarnedInv
  <2> QED
    BY <2>2, <2>3, <2>6
<1> QED
  BY <1>1, <1>2, <1>3, <1>4, <1>5 DEF Next

(* The detector's records and the history of its overlaps, its warnings and   *)
(* the claims they are about, agree in every reachable state.                 *)
THEOREM DetectorInvariant == Spec => []IInv
<1> QED
  BY InitInv, NextKeeps, PTL DEF Spec

(* The state of the conflict detector has its shape; every overlap in it has  *)
(* a record whose clock runs.                                                 *)
THEOREM TypeCorrect == Spec => []TypeOK
<1>1. IInv => TypeOK
  BY DEF IInv
<1> QED
  BY <1>1, DetectorInvariant, PTL

LEMMA ToldStep ==
  ASSUME IInv, [Next]_vars, vars' # vars
  PROVE  /\ \A p \in Pairs :
              Forward(p) \subseteq out'
                <=> /\ Conflicting(p)'
                    /\ ~Conflicting(p) \/ \E a \in p : Claimed(a)' # Claimed(a)
         /\ \A t \in Triples :
              InFlight(t) \subseteq out' <=> seen[t] = None /\ seen'[t] # None
<1> USE DEF IInv
<1>1. CASE \E a \in Agents, claims \in [Files -> Claims \union {None}] : Intent(a, claims)
  <2>1. PICK a \in Agents, claims \in [Files -> Claims \union {None}] : Intent(a, claims)
    BY <1>1
  <2>2. seen' = seen
    BY <2>1 DEF Intent
  <2> QED
    BY <2>1, <2>2, IntentClaims
<1>2. CASE \E a \in Agents, fs \in SUBSET Files : Status(a, fs)
  <2>1. PICK a \in Agents, fs \in SUBSET Files : Status(a, fs)
    BY <1>2
  <2>2. intents' = Current /\ warned' = StillWarned
    BY <2>1 DEF Status
  <2>3. \A p \in Pairs : \A x \in p : x \in Agents
    BY DEF Pairs
  <2>4. \A p \in Pairs : Conflicting(p)' =>
           Conflicting(p) /\ \A x \in p : Claimed(x)' = Claimed(x)
    BY <2>2, <2>3, QuietStep
  <2> QED
    BY <2>1, <2>4, StatusTold
<1>3. CASE \E t \in Triples : Acknowledge(t)
  <2>1. PICK t \in Triples : Acknowledge(t)
    BY <1>3
  <2>2. intents' = Current /\ warned' = StillWarned /\ seen' = seen
    BY <2>1 DEF Acknowledge
  <2>3. \A p \in Pairs : \A x \in p : x \in Agents
    BY DEF Pairs
  <2>4. \A p \in Pairs : Conflicting(p)' =>
           Conflicting(p) /\ \A x \in p : Claimed(x)' = Claimed(x)
    BY <2>2, <2>3, QuietStep
  <2> QED
    BY <2>1, <2>2, <2>4, AcknowledgeTold
<1>4. CASE Tick
  <2>1. \A t \in Triples : seen[t] = None => seen'[t] = None
    BY <1>4, TickRecord
  <2> QED
    BY <1>4, <2>1, TickDoes, TickClaims
<1> QED
  BY <1>1, <1>2, <1>3, <1>4 DEF Next

(* Nobody is told of a conflict twice, and nobody is left untold: a pair      *)
(* hears of its intents when they come to conflict or one changes while they  *)
(* do, and of a shared file when it was not shared within the retention,      *)
(* whatever commits, expiries and early acknowledgements came in between.     *)
THEOREM ConflictsToldOnce == Spec => ToldOnceEach
<1>1. IInv /\ [Next]_vars =>
        [/\ \A p \in Pairs :
              Forward(p) \subseteq out'
                <=> /\ Conflicting(p)'
                    /\ ~Conflicting(p) \/ \E a \in p : Claimed(a)' # Claimed(a)
         /\ \A t \in Triples :
              InFlight(t) \subseteq out' <=> seen[t] = None /\ seen'[t] # None]_vars
  BY ToldStep
<1> QED
  BY <1>1, DetectorInvariant, PTL DEF Spec, ToldOnceEach

(* A conflict that was asked about, downgraded or acknowledged is not put to  *)
(* anyone again before it is over or has materially changed.                  *)
THEOREM ConflictsAskedOnce == Spec => AskedOnce
<1>1. IInv /\ [Next]_vars =>
        [\A t \in Triples : Question(t) \in out' \/ Additive(t) \subseteq out' =>
           settled[t] = None \/ MateriallyDiffers(OverlapShape(t), settled[t])]_vars
  <2> SUFFICES ASSUME IInv, Next, NEW t \in Triples, AskedAbout(t)
               PROVE  settled[t] = None \/ MateriallyDiffers(OverlapShape(t), settled[t])
    BY DEF AskedAbout
  <2> USE DEF IInv
  <2>1. ASSUME NEW a \in Agents, NEW claims \in [Files -> Claims \union {None}],
               Intent(a, claims)
        PROVE  FALSE
    BY <2>1, IntentClaims
  <2>2. ASSUME NEW a \in Agents, NEW fs \in SUBSET Files, Status(a, fs) PROVE FALSE
    BY <2>2, StatusTold
  <2>3. ASSUME NEW u \in Triples, Acknowledge(u) PROVE FALSE
    BY <2>3, AcknowledgeTold
  <2>4. CASE Tick
    BY <2>4, TickDoes, TickRecord
  <2> QED
    BY <2>1, <2>2, <2>3, <2>4 DEF Next
<1> QED
  BY <1>1, DetectorInvariant, PTL DEF Spec, AskedOnce

(* A poll leaves no overlap that has lasted for the window undecided.         *)
THEOREM DueConflictsDecided == Spec => DueIsDecided
<1>1. IInv /\ [Next]_vars =>
        [Tick => \A t \in Overlapping(files) : seen[t] >= Window =>
           settled'[t] # None /\ ~MateriallyDiffers(OverlapShape(t), settled'[t])]_vars
  <2> SUFFICES ASSUME IInv, Tick, NEW t \in Overlapping(files), seen[t] >= Window
               PROVE  settled'[t] # None /\ ~MateriallyDiffers(OverlapShape(t), settled'[t])
    OBVIOUS
  <2>1. t \in Triples /\ t \in Here
    BY DEF Overlapping, Here
  <2> QED
    BY <2>1, TickRecord DEF IInv
<1> QED
  BY <1>1, DetectorInvariant, PTL DEF Spec, DueIsDecided
=============================================================================
