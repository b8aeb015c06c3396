------------------------ MODULE ParameterManagerProofs ------------------------
(***************************************************************************)
(* The load of the parameters, for any number of components, parameters,   *)
(* retries and refreshes: nothing is missing untold, and nothing disarms   *)
(* the load or the re-request of an index.                                 *)
(***************************************************************************)
EXTENDS ParameterManager, FiniteSetTheorems, WellFoundedInduction, NaturalsInduction, TLAPS

(* The manager's state.                                                    *)
Signal == {"requested", "ready", "failed", "skipped"}
Loader ==
    [ready : BOOLEAN, missing : BOOLEAN, signals : SUBSET Signal,
     tryftp : BOOLEAN, ftp : BOOLEAN, retries : 0..(MaxListRetry + 1),
     hashDone : BOOLEAN, cacheOnly : BOOLEAN,
     listTimer : BOOLEAN, waitTimer : BOOLEAN, hashTimer : BOOLEAN,
     seen : SUBSET Comp, waiting : SUBSET Reads, tries : [Reads -> 0..MaxIndexRetry], failed : SUBSET Reads,
     facts : SUBSET Reads, active : BOOLEAN, batch : SUBSET Reads,
     heard : SUBSET Comp, silent : [Comp -> 0..SilentCycles],
     lastChance : BOOLEAN, reported : BOOLEAN, asked : SUBSET Comp,
     told : SUBSET Reads, late : SUBSET Comp]

(* What is asked for is waited for, and tries are counted of that only.    *)
Asking(q) ==
    /\ q.asked \subseteq q.seen /\ q.late \subseteq q.seen
    /\ q.batch \subseteq q.waiting /\ Cardinality(q.batch) <= BatchMax
    /\ \A r \in Reads \ q.waiting : q.tries[r] = 0

(* Nothing is missing untold; sp says that a file was read in part.        *)
Kept(q) ==
    /\ \A r \in Reads : r[1] \in q.seen => r \in q.waiting \cup q.failed \cup q.facts
    /\ q.reported => \A r \in OfOthers(q.waiting \cup q.failed) : r \in q.told \/ r[1] \in q.late
Complete(q, sp) == q.ready /\ ~q.missing /\ ~sp => Of(Autopilot, Reads) \subseteq q.facts
Told(q) ==
    q.ready /\ ~highLatency /\ q.waiting = {} => q.reported \/ OfOthers(q.failed) = {}

(* Only a file read in part brings parameters of an autopilot that is not  *)
(* known to stream, and it is not asked for a file again.                  *)
Known(q, sp) == Of(Autopilot, q.facts) # {} => Autopilot \in q.seen \/ (sp /\ ~q.tryftp)
Readied(q) == q.ready => "ready" \in q.signals /\ (~highLatency => Of(Autopilot, q.facts) # {})

(* What drives the load, and the request of each index.                    *)
HasEnded(q) == q.signals \cap {"ready", "failed", "skipped"} # {}
IsArmed(q) == q.listTimer \/ q.waitTimer \/ q.hashTimer \/ q.ftp
Driven(q) == "requested" \in q.signals /\ Of(Autopilot, q.facts) # {} => HasEnded(q) \/ IsArmed(q)
Timed(q) == \A r \in q.waiting : q.waitTimer \/ r[1] \in q.asked
Hashing(q) == q.hashTimer => ~q.hashDone

(* As long as a file may bring the autopilot's parameters, none of them is *)
(* waited for by index.                                                    *)
ByFile(q) ==
    /\ q.tryftp /\ ~highLatency => Of(Autopilot, q.waiting) = {}
    /\ q.ftp => q.tryftp /\ ~highLatency

Sound(q, sp) ==
    /\ q \in Loader /\ Asking(q) /\ Kept(q) /\ Complete(q, sp)
    /\ Known(q, sp) /\ Readied(q) /\ Timed(q) /\ Hashing(q)
Stands(q, sp) == Sound(q, sp) /\ Told(q) /\ ByFile(q) /\ Driven(q)

(* The invariant.                                                          *)
IInv ==
    /\ fw \in Firmwares /\ cached \subseteq Comp /\ {highLatency, spoiled} \subseteq BOOLEAN
    /\ refreshes \in 0..MaxRefreshes[fw]
    /\ Stands(p, spoiled)

-----------------------------------------------------------------------------
(* Indices.                                                                *)

LEMMA NaturalMin ==
    ASSUME NEW S, S \subseteq Nat, S # {}
    PROVE  \E k \in S : \A j \in S : k <= j
<1> DEFINE Less == {pair \in Nat \X Nat : pair[1] < pair[2]}
<1>1. IsWellFoundedOn(Less, Nat)
  BY NatLessThanWellFounded DEF OpToRel
<1>2. PICK k \in S : \A j \in S : <<j, k>> \notin Less
  <2> HIDE DEF Less
  <2> QED BY <1>1, WFMin
<1>3. ASSUME NEW j \in S PROVE k <= j
  <2>1. j \in Nat /\ k \in Nat /\ <<j, k>> \notin Less
    BY <1>2
  <2> QED BY <2>1
<1> QED BY <1>3

LEMMA ReadsAre ==
    ASSUME NEW r \in Reads
    PROVE  r[1] \in Comp /\ r[1] \in Nat /\ r[2] \in Nat /\ r = <<r[1], r[2]>>
BY ParameterAssumption DEF Reads, Indices, Comp

LEMMA ReadsFinite == IsFiniteSet(Reads)
<1> DEFINE F == [c \in Comp |-> {c} \X Indices(c)]
           T == {{c} \X Indices(c) : c \in Comp}
<1>1. F \in Surjection(Comp, T)
  BY DEF Surjection
<1>2. IsFiniteSet(T)
  <2> HIDE DEF F, T
  <2> QED BY <1>1, ParameterAssumption, FS_Surjection
<1>3. ASSUME NEW c \in Comp PROVE IsFiniteSet({c} \X Indices(c))
  <2>1. IsFiniteSet({c})
    BY FS_Singleton
  <2>2. IsFiniteSet(Indices(c))
    <3>1. 0 \in Int /\ Count[c] - 1 \in Int
      BY ParameterAssumption
    <3> QED BY <3>1, FS_Interval DEF Indices
  <2> QED BY <2>1, <2>2, FS_Product
<1>4. \A t \in T : IsFiniteSet(t)
  BY <1>3
<1> QED BY <1>2, <1>4, FS_UNION DEF Reads

(* The order of the walk is total, and any set of indices has a first one. *)
LEMMA WalkOrder ==
    ASSUME NEW a \in Reads, NEW b \in Reads
    PROVE  /\ a # b => Before(a, b) \/ Before(b, a)
           /\ Before(a, b) => ~Before(b, a) /\ a # b
           /\ \A c \in Reads : Before(c, a) /\ Before(a, b) => Before(c, b)
<1>1. /\ a[1] \in Nat /\ a[2] \in Nat /\ a = <<a[1], a[2]>>
      /\ b[1] \in Nat /\ b[2] \in Nat /\ b = <<b[1], b[2]>>
  BY ReadsAre
<1>2. \A c \in Reads : c[1] \in Nat /\ c[2] \in Nat
  BY ReadsAre
<1>3. a # b => a[1] # b[1] \/ a[2] # b[2]
  BY <1>1
<1> QED BY <1>1, <1>2, <1>3 DEF Before

LEMMA WalkHasFirst ==
    ASSUME NEW S, S \subseteq Reads, S # {}
    PROVE  \E r \in S : {a \in S : Before(a, r)} = {}
<1>1. {r[1] : r \in S} \subseteq Nat /\ {r[1] : r \in S} # {}
  BY ReadsAre
<1>2. PICK x \in S : \A r \in S : x[1] <= r[1]
  <2>1. PICK k \in {r[1] : r \in S} : \A j \in {r[1] : r \in S} : k <= j
    BY <1>1, NaturalMin
  <2> QED BY <2>1
<1> DEFINE T == {r \in S : r[1] = x[1]}
<1>3. {r[2] : r \in T} \subseteq Nat /\ {r[2] : r \in T} # {}
  BY ReadsAre
<1>4. PICK y \in T : \A r \in T : y[2] <= r[2]
  <2>1. PICK k \in {r[2] : r \in T} : \A j \in {r[2] : r \in T} : k <= j
    BY <1>3, NaturalMin
  <2> QED BY <2>1
<1>5. ASSUME NEW a \in S PROVE ~Before(a, y)
  <2>1. a[1] \in Nat /\ a[2] \in Nat /\ y[1] \in Nat /\ y[2] \in Nat /\ y[1] = x[1] /\ x[1] <= a[1]
    BY <1>2, ReadsAre
  <2>2. a[1] = y[1] => y[2] <= a[2]
    BY <1>4, <2>1
  <2> QED BY <2>1, <2>2 DEF Before
<1> QED BY <1>5

(* Fewer than k of S come before each of the members that are reached, so  *)
(* no more than k are.                                                     *)
LEMMA WalkBound ==
    ASSUME NEW S, S \subseteq Reads, NEW k \in Nat
    PROVE  LET R == {r \in S : Cardinality({a \in S : Before(a, r)}) < k}
           IN  IsFiniteSet(R) /\ Cardinality(R) <= k
<1> DEFINE Ahead(r) == {a \in S : Before(a, r)}
           R == {r \in S : Cardinality(Ahead(r)) < k}
           F == [r \in R |-> Cardinality(Ahead(r))]
<1>1. IsFiniteSet(S)
  BY ReadsFinite, FS_Subset
<1>2. ASSUME NEW r \in S PROVE IsFiniteSet(Ahead(r)) /\ Cardinality(Ahead(r)) \in Nat
  BY <1>1, FS_Subset, FS_CardinalityType
<1>3. ASSUME NEW r \in S, NEW s \in S, Before(r, s)
      PROVE  Cardinality(Ahead(r)) # Cardinality(Ahead(s))
  <2>1. Ahead(r) \subseteq Ahead(s) /\ r \in Ahead(s) /\ r \notin Ahead(r)
    BY <1>3, WalkOrder
  <2> HIDE DEF Ahead
  <2>2. IsFiniteSet(Ahead(s)) /\ Ahead(r) \in SUBSET Ahead(s) /\ Ahead(r) # Ahead(s)
    BY <1>2, <2>1
  <2> QED BY <2>2, FS_Subset
<1>4. F \in [R -> 0..(k - 1)]
  <2>1. ASSUME NEW r \in R PROVE Cardinality(Ahead(r)) \in 0..(k - 1)
    <3>1. PICK n : n = Cardinality(Ahead(r))
      OBVIOUS
    <3>2. n \in Nat /\ n < k
      BY <1>2, <3>1
    <3> QED BY <3>1, <3>2
  <2> QED BY <2>1
<1>5. ASSUME NEW r \in R, NEW s \in R, r # s PROVE F[r] # F[s]
  <2>1. Before(r, s) \/ Before(s, r)
    BY <1>5, WalkOrder
  <2>2. Cardinality(Ahead(r)) # Cardinality(Ahead(s))
    BY <1>3, <2>1
  <2> QED BY <2>2
<1>6. F \in Injection(R, 0..(k - 1))
  <2> HIDE DEF F
  <2> QED BY <1>4, <1>5 DEF Injection, IsInjective
<1>7. IsFiniteSet(0..(k - 1)) /\ Cardinality(0..(k - 1)) = k
  <2>1. 0 \in Int /\ k - 1 \in Int
    OBVIOUS
  <2> QED BY <2>1, FS_Interval
<1>8. IsFiniteSet(R) /\ Cardinality(R) <= k
  <2> HIDE DEF F, R
  <2> QED BY <1>6, <1>7, FS_Injection
<1> QED BY <1>8

-----------------------------------------------------------------------------
(* Indices asked for again, and given up.                                  *)

(* What neither of them touches.                                           *)
SameLoad(q, z) ==
    /\ z.ready = q.ready /\ z.missing = q.missing /\ z.signals = q.signals /\ z.reported = q.reported
    /\ z.tryftp = q.tryftp /\ z.ftp = q.ftp /\ z.hashDone = q.hashDone
    /\ z.listTimer = q.listTimer /\ z.waitTimer = q.waitTimer /\ z.hashTimer = q.hashTimer
    /\ z.seen = q.seen /\ z.facts = q.facts /\ z.asked = q.asked
    /\ z.told = q.told /\ z.late = q.late

(* Indices only move from those waited for to those given up.              *)
GivesUp(q, z) ==
    /\ SameLoad(q, z)
    /\ z.waiting \subseteq q.waiting /\ q.failed \subseteq z.failed
    /\ z.waiting \cup z.failed = q.waiting \cup q.failed

LEMMA FillAsks ==
    ASSUME NEW q \in Loader, Asking(q)
    PROVE  LET z == _fillIndexBatchQueue(q)
           IN  z \in Loader /\ Asking(z) /\ GivesUp(q, z) /\ (q.active /\ z.batch = {} => z.waiting = {})
<1> DEFINE ask == {r \in q.waiting \ q.batch : MayBeAsked(q, r)}
           reached == {r \in q.waiting \ q.batch :
                       Cardinality(q.batch) + Cardinality({a \in ask : Before(a, r)}) < BatchMax}
           lost == reached \ ask
           batch == q.batch \cup (reached \cap ask)
           failed == q.failed \cup lost
           waiting == q.waiting \ lost
           tries == [r \in Reads |-> IF r \in lost THEN 0 ELSE IF r \in reached THEN q.tries[r] + 1 ELSE q.tries[r]]
<1>1. /\ q.waiting \subseteq Reads /\ q.batch \subseteq q.waiting /\ q.tries \in [Reads -> 0..MaxIndexRetry]
      /\ q.failed \subseteq Reads
      /\ q.active \in BOOLEAN /\ q.asked \subseteq q.seen /\ q.late \subseteq q.seen /\ \A r \in Reads \ q.waiting : q.tries[r] = 0
  BY DEF Loader, Asking
<1>2. ask \subseteq Reads /\ reached \subseteq q.waiting /\ ask \subseteq q.waiting \ q.batch
  BY <1>1
<1>3. batch \subseteq waiting /\ waiting \subseteq Reads /\ failed \subseteq Reads
  BY <1>1
<1>4. PICK n \in Nat : n = Cardinality(q.batch) /\ n <= BatchMax /\ BatchMax \in Nat \ {0}
  BY <1>1, ReadsFinite, FS_Subset, FS_CardinalityType, ParameterAssumption DEF Asking
<1>5. PICK k \in Nat : k = BatchMax - n
  BY <1>4
<1>6. \A r \in ask : Cardinality({a \in ask : Before(a, r)}) \in Nat
  BY <1>2, ReadsFinite, FS_Subset, FS_CardinalityType
<1>7. Cardinality(batch) <= BatchMax
  <2>1. PICK R : R = {r \in ask : Cardinality({a \in ask : Before(a, r)}) < k}
    OBVIOUS
  <2>2. IsFiniteSet(R) /\ Cardinality(R) <= k
    BY <1>2, <2>1, WalkBound
  <2>3. reached \cap ask = R
    <3>1. ASSUME NEW r \in ask
          PROVE  n + Cardinality({a \in ask : Before(a, r)}) < BatchMax <=> Cardinality({a \in ask : Before(a, r)}) < k
      <4>1. PICK j \in Nat : j = Cardinality({a \in ask : Before(a, r)})
        BY <1>6
      <4>2. n + j < BatchMax <=> j < k
        BY <1>4, <1>5
      <4> QED BY <4>1, <4>2
    <3> QED BY <1>2, <1>4, <2>1, <3>1
  <2>4. IsFiniteSet(q.batch) /\ Cardinality(q.batch \cap R) \in Nat /\ Cardinality(R) \in Nat
    BY <1>1, <2>2, ReadsFinite, FS_Subset, FS_CardinalityType, FS_Intersection
  <2>5. Cardinality(q.batch \cup R) = n + Cardinality(R) - Cardinality(q.batch \cap R)
    BY <1>4, <2>2, <2>4, FS_Union
  <2>6. batch = q.batch \cup R
    BY <2>3
  <2>7. PICK x \in Nat, y \in Nat : x = Cardinality(R) /\ y = Cardinality(q.batch \cap R)
    BY <2>4
  <2>8. n + x - y <= BatchMax
    BY <1>4, <1>5, <2>2, <2>7
  <2> QED BY <2>5, <2>6, <2>7, <2>8
<1>8. tries \in [Reads -> 0..MaxIndexRetry] /\ \A r \in Reads \ waiting : tries[r] = 0
  <2>1. MaxIndexRetry \in Nat
    BY ParameterAssumption
  <2>2. ASSUME NEW r \in Reads, r \notin lost, r \in reached PROVE q.tries[r] + 1 \in 0..MaxIndexRetry
    <3>1. q.tries[r] \in 0..MaxIndexRetry /\ q.tries[r] < MaxIndexRetry
      BY <1>1, <2>2 DEF MayBeAsked
    <3> QED BY <2>1, <3>1
  <2>3. \A r \in Reads : tries[r] \in 0..MaxIndexRetry
    BY <1>1, <2>1, <2>2
  <2>4. \A r \in Reads \ waiting : tries[r] = 0
    BY <1>1, <1>2
  <2> QED BY <2>3, <2>4
<1>9. batch = {} => waiting = {}
  <2> SUFFICES ASSUME batch = {} PROVE waiting = {}
    OBVIOUS
  <2>1. q.batch = {} /\ n = 0
    BY <1>4, FS_EmptySet
  <2>2. ask = {}
    <3> SUFFICES ASSUME ask # {} PROVE FALSE
      OBVIOUS
    <3>1. PICK r \in ask : {a \in ask : Before(a, r)} = {}
      BY <1>2, WalkHasFirst
    <3>2. Cardinality({a \in ask : Before(a, r)}) = 0
      BY <3>1, FS_EmptySet
    <3>3. 0 + 0 < BatchMax
      BY <1>4
    <3>4. r \in reached
      BY <1>2, <1>4, <2>1, <3>2, <3>3
    <3> QED BY <3>4
  <2>3. ASSUME NEW r \in q.waiting PROVE r \in lost
    <3>1. {a \in ask : Before(a, r)} = {}
      BY <2>2
    <3>2. Cardinality({a \in ask : Before(a, r)}) = 0
      BY <3>1, FS_EmptySet
    <3>3. 0 + 0 < BatchMax
      BY <1>4
    <3> QED BY <1>4, <2>1, <2>2, <3>2, <3>3
  <2> QED BY <2>3
<1>10. /\ waiting \subseteq q.waiting /\ q.failed \subseteq failed /\ waiting \cup failed = q.waiting \cup q.failed
  BY <1>1, <1>2
<1>11. PICK z : z = _fillIndexBatchQueue(q)
  OBVIOUS
<1>12. CASE ~q.active
  <2>1. z = q
    BY <1>11, <1>12 DEF _fillIndexBatchQueue
  <2> QED BY <1>11, <1>12, <2>1 DEF GivesUp, SameLoad
<1>13. CASE q.active
  <2>1. z = [q EXCEPT !.batch = batch, !.failed = failed, !.waiting = waiting, !.tries = tries]
    BY <1>11, <1>13 DEF _fillIndexBatchQueue
  <2> HIDE DEF ask, reached, lost, batch, failed, waiting, tries
  <2>2. z \in Loader
    BY <1>3, <1>8, <2>1 DEF Loader
  <2>3. z.batch = batch /\ z.failed = failed /\ z.waiting = waiting /\ z.tries = tries
    BY <2>1 DEF Loader
  <2>4. SameLoad(q, z)
    BY <2>1 DEF Loader, SameLoad
  <2>5. Asking(z)
    BY <1>1, <1>3, <1>7, <1>8, <2>3, <2>4 DEF Asking, SameLoad
  <2> QED BY <1>9, <1>10, <1>11, <2>2, <2>3, <2>4, <2>5 DEF GivesUp
<1> QED BY <1>12, <1>13

(* A component that is given up leaves nothing waited for.                 *)
LEMMA SilentGivenUp ==
    ASSUME NEW q \in Loader, Asking(q)
    PROVE  LET z == _giveUpOnUnresponsiveComponents(q)
           IN  z \in Loader /\ Asking(z) /\ GivesUp(q, z) /\ z.active = q.active
<1> DEFINE silent == {c \in q.seen \ ({Autopilot} \cup q.heard) : Cardinality(Of(c, q.batch)) >= MinOutstanding}
           count == [c \in Comp |-> IF c \in silent /\ q.silent[c] < SilentCycles THEN q.silent[c] + 1 ELSE q.silent[c]]
           dead == {r \in q.waiting : r[1] \in silent /\ count[r[1]] >= SilentCycles}
           tries == [r \in Reads |-> IF r \in dead THEN 0 ELSE q.tries[r]]
<1>1. /\ q.waiting \subseteq Reads /\ q.batch \subseteq q.waiting /\ q.tries \in [Reads -> 0..MaxIndexRetry]
      /\ q.failed \subseteq Reads /\ q.silent \in [Comp -> 0..SilentCycles]
      /\ q.asked \subseteq q.seen /\ q.late \subseteq q.seen /\ \A r \in Reads \ q.waiting : q.tries[r] = 0
  BY DEF Loader, Asking
<1>2. MaxIndexRetry \in Nat /\ SilentCycles \in Nat /\ BatchMax \in Nat
  BY ParameterAssumption
<1>3. count \in [Comp -> 0..SilentCycles]
  <2>1. ASSUME NEW c \in Comp, q.silent[c] < SilentCycles PROVE q.silent[c] + 1 \in 0..SilentCycles
    <3>1. q.silent[c] \in 0..SilentCycles
      BY <1>1
    <3> QED BY <1>2, <2>1, <3>1
  <2> QED BY <1>1, <2>1
<1>4. dead \subseteq q.waiting
  OBVIOUS
<1>5. PICK z : z = _giveUpOnUnresponsiveComponents(q)
  OBVIOUS
<1>6. z = [q EXCEPT !.silent = count, !.heard = {}, !.failed = q.failed \cup dead, !.waiting = q.waiting \ dead,
                    !.batch = q.batch \ dead, !.tries = tries]
  BY <1>5 DEF _giveUpOnUnresponsiveComponents
<1> HIDE DEF silent, count, dead
<1>7. tries \in [Reads -> 0..MaxIndexRetry] /\ \A r \in Reads \ (q.waiting \ dead) : tries[r] = 0
  BY <1>1, <1>2
<1> HIDE DEF tries
<1>8. z \in Loader
  BY <1>1, <1>3, <1>4, <1>6, <1>7 DEF Loader
<1>9. /\ z.failed = q.failed \cup dead /\ z.waiting = q.waiting \ dead /\ z.batch = q.batch \ dead
      /\ z.tries = tries /\ z.active = q.active
  BY <1>6 DEF Loader
<1>10. SameLoad(q, z)
  BY <1>6 DEF Loader, SameLoad
<1>11. Cardinality(z.batch) <= BatchMax
  <2>1. IsFiniteSet(q.batch) /\ z.batch \in SUBSET q.batch
    BY <1>1, <1>9, ReadsFinite, FS_Subset
  <2>2. Cardinality(z.batch) <= Cardinality(q.batch) /\ Cardinality(z.batch) \in Nat /\ Cardinality(q.batch) \in Nat
    BY <2>1, FS_Subset, FS_CardinalityType
  <2> QED BY <1>2, <2>2 DEF Asking
<1>12. Asking(z)
  BY <1>1, <1>7, <1>9, <1>10, <1>11 DEF Asking, SameLoad
<1>13. GivesUp(q, z)
  BY <1>4, <1>9, <1>10 DEF GivesUp
<1> QED BY <1>5, <1>8, <1>9, <1>12, <1>13

-----------------------------------------------------------------------------
(* The end of the load.                                                    *)

(* What a check for the end leaves alone.                                  *)
Unchecked(q, z) ==
    /\ z.tryftp = q.tryftp /\ z.ftp = q.ftp /\ z.hashDone = q.hashDone
    /\ z.listTimer = q.listTimer /\ z.waitTimer = q.waitTimer /\ z.hashTimer = q.hashTimer
    /\ z.seen = q.seen /\ z.facts = q.facts /\ z.asked = q.asked /\ z.late = q.late
    /\ z.waiting = q.waiting /\ z.failed = q.failed /\ z.batch = q.batch /\ z.tries = q.tries

LEMMA OtherComponentsTold ==
    ASSUME NEW q \in Loader, Kept(q)
    PROVE  LET z == _checkOtherComponentsLoadComplete(q)
           IN  z \in Loader /\ Kept(z) /\ Told(z) /\ Unchecked(q, z) /\ z.ready = q.ready /\ z.missing = q.missing
               /\ z.signals = q.signals
<1>1. PICK z : z = _checkOtherComponentsLoadComplete(q)
  OBVIOUS
<1>2. CASE q.reported \/ q.waiting # {} \/ OfOthers(q.failed) = {}
  <2>1. z = q
    BY <1>1, <1>2 DEF _checkOtherComponentsLoadComplete
  <2> QED BY <1>1, <1>2, <2>1 DEF Told, Unchecked
<1>3. CASE ~(q.reported \/ q.waiting # {} \/ OfOthers(q.failed) = {})
  <2>1. PICK told : told = OfOthers(q.failed)
    OBVIOUS
  <2>2. z = [q EXCEPT !.reported = TRUE, !.told = told]
    BY <1>1, <1>3, <2>1 DEF _checkOtherComponentsLoadComplete
  <2>3. told \subseteq Reads
    BY <2>1 DEF Loader, OfOthers
  <2>4. z \in Loader
    BY <2>2, <2>3 DEF Loader
  <2>5. /\ Unchecked(q, z) /\ z.ready = q.ready /\ z.missing = q.missing /\ z.signals = q.signals
        /\ z.reported /\ z.told = told
    BY <2>2 DEF Loader, Unchecked
  <2>6. Told(z)
    BY <2>5 DEF Told
  <2>7. z.waiting \cup z.failed = q.failed
    BY <1>3, <2>5 DEF Unchecked
  <2>8. Kept(z)
    BY <2>1, <2>5, <2>7 DEF Kept, Unchecked
  <2> QED BY <1>1, <2>4, <2>5, <2>6, <2>8
<1> QED BY <1>2, <1>3

(* The invariant in a state that differs in what a check may set only.     *)
LEMMA Rechecked ==
    ASSUME NEW q, NEW sp \in BOOLEAN, Sound(q, sp), NEW z \in Loader, Unchecked(q, z), Kept(z),
           z.ready /\ ~z.missing /\ ~sp => Of(Autopilot, Reads) \subseteq q.facts,
           z.ready => "ready" \in z.signals /\ (~highLatency => Of(Autopilot, q.facts) # {}),
           q.signals \subseteq z.signals, "requested" \in z.signals => "requested" \in q.signals
    PROVE  Sound(z, sp) /\ (Driven(q) => Driven(z))
<1>1. Asking(z)
  BY DEF Sound, Asking, Unchecked
<1>2. Complete(z, sp) /\ Readied(z)
  BY DEF Complete, Readied, Unchecked
<1>3. Known(z, sp) /\ Timed(z) /\ Hashing(z)
  BY DEF Sound, Known, Timed, Hashing, Unchecked
<1>4. Driven(q) => Driven(z)
  <2>1. HasEnded(q) => HasEnded(z)
    BY DEF HasEnded
  <2>2. IsArmed(q) = IsArmed(z)
    BY DEF IsArmed, Unchecked
  <2> QED BY <2>1, <2>2 DEF Driven, Unchecked
<1> QED BY <1>1, <1>2, <1>3, <1>4 DEF Sound

LEMMA LoadChecked ==
    ASSUME NEW q, NEW sp \in BOOLEAN, Sound(q, sp)
    PROVE  LET z == _checkInitialLoadComplete(q)
           IN  /\ Sound(z, sp) /\ Told(z) /\ Unchecked(q, z)
               /\ Driven(q) => Driven(z)
               /\ Of(Autopilot, q.waiting) = {} /\ Of(Autopilot, q.facts) # {} => z.ready
               /\ q.ready => z.ready
<1>1. q \in Loader /\ q.ready \in BOOLEAN
  BY DEF Sound, Loader
<1>2. PICK z : z = _checkInitialLoadComplete(q)
  OBVIOUS
<1>3. CASE q.ready
  <2>1. z = _checkOtherComponentsLoadComplete(q)
    BY <1>2, <1>3 DEF _checkInitialLoadComplete
  <2>2. /\ z \in Loader /\ Kept(z) /\ Told(z) /\ Unchecked(q, z) /\ z.ready = q.ready /\ z.missing = q.missing
        /\ z.signals = q.signals
    BY <1>1, <2>1, OtherComponentsTold DEF Sound
  <2>3. Sound(z, sp) /\ (Driven(q) => Driven(z))
    BY <2>2, Rechecked DEF Sound, Complete, Readied
  <2> QED BY <1>2, <1>3, <2>2, <2>3
<1>4. CASE ~q.ready /\ (Of(Autopilot, q.waiting) # {} \/ Of(Autopilot, q.facts) = {})
  <2>1. z = q
    BY <1>2, <1>4 DEF _checkInitialLoadComplete
  <2>2. Told(z) /\ Unchecked(q, z)
    BY <1>4, <2>1 DEF Told, Unchecked
  <2> QED BY <1>2, <1>4, <2>1, <2>2
<1>5. CASE ~q.ready /\ Of(Autopilot, q.waiting) = {} /\ Of(Autopilot, q.facts) # {}
  <2> DEFINE lost == Of(Autopilot, q.failed) # {}
  <2>1. PICK x : x = [q EXCEPT !.ready = TRUE, !.missing = lost, !.signals = q.signals \cup {"ready"}]
    OBVIOUS
  <2>2. z = _checkOtherComponentsLoadComplete(x)
    BY <1>2, <1>5, <2>1 DEF _checkInitialLoadComplete
  <2>3. lost \in BOOLEAN
    OBVIOUS
  <2>4. x \in Loader
    <3> HIDE DEF lost
    <3> QED BY <1>1, <2>1, <2>3 DEF Loader, Signal
  <2>5. /\ Unchecked(q, x) /\ x.ready /\ x.missing = lost /\ x.signals = q.signals \cup {"ready"}
        /\ x.reported = q.reported /\ x.told = q.told
    <3> HIDE DEF lost
    <3> QED BY <1>1, <2>1 DEF Loader, Unchecked
  <2>5a. Kept(x)
    BY <2>5 DEF Sound, Kept, Unchecked
  <2>6. /\ z \in Loader /\ Kept(z) /\ Told(z) /\ Unchecked(x, z) /\ z.ready = x.ready /\ z.missing = x.missing
        /\ z.signals = x.signals
    BY <2>2, <2>4, <2>5a, OtherComponentsTold
  <2>7. Unchecked(q, z)
    BY <2>5, <2>6 DEF Unchecked
  <2>8. ASSUME ~lost, ~sp PROVE Of(Autopilot, Reads) \subseteq q.facts
    <3>1. Autopilot \in q.seen
      BY <1>5, <2>8 DEF Sound, Known
    <3>2. \A r \in Of(Autopilot, Reads) : r \in q.waiting \cup q.failed \cup q.facts /\ r[1] = Autopilot
      BY <3>1 DEF Sound, Kept, Of
    <3> QED BY <1>5, <2>8, <3>2 DEF Of
  <2> HIDE DEF lost
  <2>9. Sound(z, sp) /\ (Driven(q) => Driven(z))
    BY <1>5, <2>5, <2>6, <2>7, <2>8, Rechecked
  <2> QED BY <1>2, <2>5, <2>6, <2>7, <2>9
<1> QED BY <1>1, <1>3, <1>4, <1>5

-----------------------------------------------------------------------------
(* A value.                                                                *)

(* Index i of component c is heard of: it is not waited for any more, and  *)
(* nor is any list; the component's other indices are, from now on.        *)
Hears(q, z, c, i) ==
    /\ z.ready = q.ready /\ z.missing = q.missing /\ z.signals = q.signals
    /\ z.tryftp = q.tryftp /\ z.ftp = q.ftp /\ z.hashDone = q.hashDone /\ z.hashTimer = q.hashTimer
    /\ z.facts = q.facts /\ z.seen = q.seen \cup {c} /\ z.asked = {}
    /\ z.reported = q.reported /\ z.told = q.told /\ q.late \subseteq z.late
    /\ q.reported /\ c \notin q.seen => c \in z.late
    /\ z.waiting \subseteq q.waiting \cup (IF c \in q.seen THEN {} ELSE Of(c, Reads))
    /\ z.failed \subseteq q.waiting \cup q.failed \cup (IF c \in q.seen THEN {} ELSE Of(c, Reads))
    /\ <<c, i>> \notin z.waiting
    /\ \A r \in Reads : r[1] \in z.seen => r \in z.waiting \cup z.failed \cup z.facts \/ r = <<c, i>>

(* What is the same when components are waited for since the report.       *)
Relists(q, z) ==
    /\ z.ready = q.ready /\ z.missing = q.missing /\ z.signals = q.signals /\ z.reported = q.reported
    /\ z.tryftp = q.tryftp /\ z.ftp = q.ftp /\ z.hashDone = q.hashDone /\ z.hashTimer = q.hashTimer
    /\ z.listTimer = q.listTimer /\ z.waitTimer = q.waitTimer
    /\ z.seen = q.seen /\ z.facts = q.facts /\ z.asked = q.asked /\ z.told = q.told
    /\ z.waiting = q.waiting /\ z.failed = q.failed /\ z.batch = q.batch /\ z.tries = q.tries
    /\ z.heard = q.heard /\ z.silent = q.silent

LEMMA Relisting ==
    ASSUME NEW q \in Loader, NEW comps \in SUBSET Comp
    PROVE  LET z == Relisted(q, comps)
           IN  z \in Loader /\ Relists(q, z) /\ z.late = IF q.reported THEN q.late \cup comps ELSE q.late
<1>1. PICK late : late = IF q.reported THEN q.late \cup comps ELSE q.late
  OBVIOUS
<1>2. PICK z : z = [q EXCEPT !.late = late]
  OBVIOUS
<1>3. z = Relisted(q, comps)
  BY <1>1, <1>2 DEF Relisted
<1>4. late \subseteq Comp
  BY <1>1 DEF Loader
<1>5. z \in Loader
  BY <1>2, <1>4 DEF Loader
<1>6. Relists(q, z) /\ z.late = late
  BY <1>2 DEF Loader, Relists
<1> QED BY <1>1, <1>3, <1>5, <1>6

LEMMA ValueHeard ==
    ASSUME NEW q \in Loader, Asking(q), Kept(q), NEW c \in Comp, NEW i
    PROVE  LET told == [Relisted(q, {c} \ q.seen) EXCEPT !.asked = {}, !.listTimer = FALSE,
                          !.heard = @ \cup {c}, !.silent[c] = 0, !.seen = @ \cup {c},
                          !.waiting = IF c \in q.seen THEN @ ELSE @ \cup {r \in Reads : r[1] = c}]
               found == [told EXCEPT !.waiting = @ \ {<<c, i>>}, !.batch = @ \ {<<c, i>>},
                              !.tries = [r \in Reads |-> IF r = <<c, i>> THEN 0 ELSE @[r]]]
               z == IF <<c, i>> \in told.waiting THEN _fillIndexBatchQueue(found) ELSE told
           IN  z \in Loader /\ Asking(z) /\ Hears(q, z, c, i)
<1>1. PICK w : w = IF c \in q.seen THEN q.waiting ELSE q.waiting \cup Of(c, Reads)
  OBVIOUS
<1>2. /\ q.waiting \subseteq Reads /\ q.batch \subseteq q.waiting /\ q.tries \in [Reads -> 0..MaxIndexRetry]
      /\ q.failed \subseteq Reads /\ q.silent \in [Comp -> 0..SilentCycles] /\ q.facts \subseteq Reads
      /\ q.seen \subseteq Comp /\ q.heard \subseteq Comp
      /\ Cardinality(q.batch) <= BatchMax
      /\ q.asked \subseteq q.seen /\ q.late \subseteq q.seen /\ \A r \in Reads \ q.waiting : q.tries[r] = 0
  BY DEF Loader, Asking
<1>3. /\ q.waiting \subseteq w /\ w \subseteq Reads
      /\ w \subseteq q.waiting \cup (IF c \in q.seen THEN {} ELSE Of(c, Reads))
  BY <1>1, <1>2 DEF Of
<1>3a. PICK s : s = [q.silent EXCEPT ![c] = 0]
  OBVIOUS
<1>3b. s \in [Comp -> 0..SilentCycles]
  BY <1>2, <1>3a, ParameterAssumption
<1>3c. PICK b : b = Relisted(q, {c} \ q.seen)
  OBVIOUS
<1>3d. PICK late : late = IF q.reported THEN q.late \cup ({c} \ q.seen) ELSE q.late
  OBVIOUS
<1>3e. /\ late \subseteq q.seen \cup {c} /\ q.late \subseteq late
       /\ q.reported /\ c \notin q.seen => c \in late
  BY <1>2, <1>3d
<1>3f. b \in Loader /\ Relists(q, b) /\ b.late = late
  <2>1. {c} \ q.seen \subseteq Comp
    OBVIOUS
  <2> QED BY <1>3c, <1>3d, <2>1, Relisting
<1>4. PICK told : told = [b EXCEPT !.asked = {}, !.listTimer = FALSE,
                          !.heard = q.heard \cup {c}, !.silent = s, !.seen = q.seen \cup {c},
                          !.waiting = w]
  OBVIOUS
<1>5. told = [Relisted(q, {c} \ q.seen) EXCEPT !.asked = {}, !.listTimer = FALSE,
                          !.heard = @ \cup {c}, !.silent[c] = 0, !.seen = @ \cup {c},
                          !.waiting = IF c \in q.seen THEN @ ELSE @ \cup {r \in Reads : r[1] = c}]
  <2>1. b.heard = q.heard /\ b.silent = q.silent /\ b.seen = q.seen /\ b.waiting = q.waiting
    BY <1>3f DEF Relists
  <2> QED BY <1>1, <1>3a, <1>3c, <1>4, <2>1 DEF Of
<1>6. told \in Loader
  BY <1>2, <1>3, <1>4, <1>3b, <1>3f DEF Loader
<1>7. /\ told.ready = q.ready /\ told.missing = q.missing /\ told.signals = q.signals
      /\ told.tryftp = q.tryftp /\ told.ftp = q.ftp /\ told.hashDone = q.hashDone /\ told.hashTimer = q.hashTimer
      /\ told.facts = q.facts /\ told.seen = q.seen \cup {c} /\ told.asked = {}
      /\ told.reported = q.reported /\ told.told = q.told /\ told.late = late
      /\ told.waiting = w /\ told.failed = q.failed /\ told.batch = q.batch /\ told.tries = q.tries
  BY <1>3f, <1>4 DEF Loader, Relists
<1>8. \A r \in Reads : r[1] \in told.seen => r \in w \cup q.failed \cup q.facts
  <2>1. ASSUME NEW r \in Reads, r[1] \in q.seen PROVE r \in w \cup q.failed \cup q.facts
    BY <1>3, <2>1 DEF Kept
  <2>2. ASSUME NEW r \in Reads, r[1] = c, c \notin q.seen PROVE r \in w
    BY <1>1, <2>2 DEF Of
  <2> QED BY <1>7, <2>1, <2>2
<1>9. Asking(told)
  BY <1>2, <1>3, <1>3e, <1>7 DEF Asking
<1>10. CASE <<c, i>> \notin told.waiting
  <2>1. Hears(q, told, c, i)
    BY <1>3, <1>3e, <1>7, <1>8, <1>10 DEF Hears
  <2> QED BY <1>5, <1>6, <1>9, <1>10, <2>1
<1>11. CASE <<c, i>> \in told.waiting
  <2>1. PICK t : t = [r \in Reads |-> IF r = <<c, i>> THEN 0 ELSE q.tries[r]]
    OBVIOUS
  <2>2. t \in [Reads -> 0..MaxIndexRetry] /\ \A r \in Reads \ (w \ {<<c, i>>}) : t[r] = 0
    BY <1>2, <1>3, <2>1, ParameterAssumption
  <2>3. PICK found : found = [told EXCEPT !.waiting = told.waiting \ {<<c, i>>}, !.batch = told.batch \ {<<c, i>>},
                                          !.tries = t]
    OBVIOUS
  <2>4. found = [told EXCEPT !.waiting = @ \ {<<c, i>>}, !.batch = @ \ {<<c, i>>},
                              !.tries = [r \in Reads |-> IF r = <<c, i>> THEN 0 ELSE @[r]]]
    BY <1>7, <2>1, <2>3
  <2>5. found \in Loader
    BY <1>6, <2>2, <2>3 DEF Loader
  <2>6. /\ found.ready = q.ready /\ found.missing = q.missing /\ found.signals = q.signals
        /\ found.tryftp = q.tryftp /\ found.ftp = q.ftp /\ found.hashDone = q.hashDone
        /\ found.hashTimer = q.hashTimer
        /\ found.facts = q.facts /\ found.seen = q.seen \cup {c} /\ found.asked = {}
        /\ found.reported = q.reported /\ found.told = q.told /\ found.late = late
        /\ found.waiting = w \ {<<c, i>>} /\ found.failed = q.failed /\ found.batch = q.batch \ {<<c, i>>}
        /\ found.tries = t
    BY <1>6, <1>7, <2>3 DEF Loader
  <2>7. Cardinality(found.batch) <= BatchMax
    <3>1. IsFiniteSet(q.batch) /\ found.batch \in SUBSET q.batch
      BY <1>2, <2>6, ReadsFinite, FS_Subset
    <3>2. Cardinality(found.batch) <= Cardinality(q.batch) /\ Cardinality(found.batch) \in Nat
          /\ Cardinality(q.batch) \in Nat
      BY <3>1, FS_Subset, FS_CardinalityType
    <3> QED BY <1>2, <3>2, ParameterAssumption
  <2>8. Asking(found)
    BY <1>2, <1>3, <1>3e, <2>2, <2>6, <2>7 DEF Asking
  <2>9. PICK z : z = _fillIndexBatchQueue(found)
    OBVIOUS
  <2>10. z \in Loader /\ Asking(z) /\ GivesUp(found, z)
    BY <2>5, <2>8, <2>9, FillAsks
  <2>11. \A r \in Reads : r[1] \in z.seen => r \in z.waiting \cup z.failed \cup z.facts \/ r = <<c, i>>
    <3> SUFFICES ASSUME NEW r \in Reads, r[1] \in z.seen, r # <<c, i>> PROVE r \in z.waiting \cup z.failed \cup z.facts
      OBVIOUS
    <3>1. r[1] \in told.seen
      BY <1>7, <2>6, <2>10 DEF GivesUp, SameLoad
    <3>2. r \in found.waiting \cup found.failed \cup found.facts
      BY <1>8, <2>6, <3>1
    <3> QED BY <2>10, <3>2 DEF GivesUp, SameLoad
  <2>12. /\ z.failed \subseteq q.waiting \cup q.failed \cup (IF c \in q.seen THEN {} ELSE Of(c, Reads))
         /\ z.waiting \subseteq q.waiting \cup (IF c \in q.seen THEN {} ELSE Of(c, Reads)) /\ <<c, i>> \notin z.waiting
    <3>1. z.waiting \cup z.failed = (w \ {<<c, i>>}) \cup q.failed /\ z.waiting \subseteq w \ {<<c, i>>}
      BY <2>6, <2>10 DEF GivesUp
    <3> QED BY <1>3, <3>1
  <2>13. Hears(q, z, c, i)
    BY <1>3e, <2>6, <2>10, <2>11, <2>12 DEF Hears, GivesUp, SameLoad
  <2> QED BY <1>5, <1>11, <2>4, <2>9, <2>10, <2>13
<1> QED BY <1>10, <1>11

(* What a value of component c leaves behind.                              *)
Valued(q, z, c, i) ==
    /\ z.tryftp = q.tryftp /\ z.ftp = q.ftp /\ z.seen = q.seen \cup {c}
    /\ q.facts \subseteq z.facts
    /\ z.waiting \subseteq q.waiting \cup (IF c \in q.seen THEN {} ELSE Of(c, Reads))
    /\ <<c, i>> \notin z.waiting

LEMMA ValueHandled ==
    ASSUME NEW q, NEW sp \in BOOLEAN, Sound(q, sp), NEW c \in Comp, NEW n, <<c, n>> \in Reads,
           NEW i \in {n, Unrequested}
    PROVE  LET z == _handleParamValue(q, c, n, i)
           IN  Sound(z, sp) /\ Told(z) /\ Driven(z) /\ Valued(q, z, c, i)
<1> DEFINE told == [Relisted(q, {c} \ q.seen) EXCEPT !.asked = {}, !.listTimer = FALSE,
                          !.heard = @ \cup {c}, !.silent[c] = 0, !.seen = @ \cup {c},
                          !.waiting = IF c \in q.seen THEN @ ELSE @ \cup {r \in Reads : r[1] = c}]
           found == [told EXCEPT !.waiting = @ \ {<<c, i>>}, !.batch = @ \ {<<c, i>>},
                              !.tries = [r \in Reads |-> IF r = <<c, i>> THEN 0 ELSE @[r]]]
<1>1. q \in Loader /\ Asking(q) /\ Kept(q)
  BY DEF Sound
<1> HIDE DEF told, found
<1>2. PICK left : left = IF <<c, i>> \in told.waiting THEN _fillIndexBatchQueue(found) ELSE told
  OBVIOUS
<1>3. left \in Loader /\ Asking(left) /\ Hears(q, left, c, i)
  BY <1>1, <1>2, ValueHeard DEF told, found
<1>4. PICK last : last = [left EXCEPT !.waitTimer = left.waiting # {} \/ Of(Autopilot, q.facts) = {},
                                      !.facts = @ \cup {<<c, n>>}]
  OBVIOUS
<1>5. _handleParamValue(q, c, n, i) = _checkInitialLoadComplete(last)
  BY <1>2, <1>4 DEF _handleParamValue, told, found
<1>6. PICK on \in BOOLEAN : on = (left.waiting # {} \/ Of(Autopilot, q.facts) = {})
  OBVIOUS
<1>7. last = [left EXCEPT !.waitTimer = on, !.facts = left.facts \cup {<<c, n>>}]
  BY <1>4, <1>6
<1>8. last \in Loader
  BY <1>3, <1>7 DEF Loader
<1>9. /\ last.ready = q.ready /\ last.missing = q.missing /\ last.signals = q.signals
      /\ last.tryftp = q.tryftp /\ last.ftp = q.ftp /\ last.hashDone = q.hashDone /\ last.hashTimer = q.hashTimer
      /\ last.facts = q.facts \cup {<<c, n>>} /\ last.seen = q.seen \cup {c} /\ last.asked = {}
      /\ last.reported = q.reported /\ last.told = q.told /\ last.late = left.late
      /\ last.waiting = left.waiting /\ last.failed = left.failed /\ last.batch = left.batch
      /\ last.tries = left.tries /\ last.waitTimer = on
  BY <1>3, <1>7 DEF Loader, Hears
<1>10. Sound(last, sp)
  <2>1. Asking(last)
    BY <1>3, <1>9 DEF Asking, Hears
  <2>2. Kept(last)
    <3>1. ASSUME NEW r \in Reads, r = <<c, i>> PROVE r = <<c, n>>
      <4>1. r[2] \in Nat /\ r[2] = i
        BY <3>1, ReadsAre
      <4> QED BY <3>1, <4>1 DEF Unrequested
    <3>2. ASSUME q.reported, NEW r \in OfOthers(last.waiting \cup last.failed) PROVE r \in q.told \/ r[1] \in left.late
      <4>1. r \in OfOthers(q.waiting \cup q.failed) \/ (c \notin q.seen /\ r[1] = c)
        BY <1>3, <1>9, <3>2 DEF Hears, OfOthers, Of
      <4> QED BY <1>1, <1>3, <3>2, <4>1 DEF Kept, Hears
    <3> QED BY <1>3, <1>9, <3>1, <3>2 DEF Kept, Hears
  <2>3. Complete(last, sp)
    BY <1>9 DEF Sound, Complete
  <2>4. Known(last, sp)
    <3>1. CASE c = Autopilot
      BY <1>9, <3>1 DEF Known
    <3>2. CASE c # Autopilot
      <4>1. Of(Autopilot, last.facts) = Of(Autopilot, q.facts)
        BY <1>9, <3>2 DEF Of
      <4> QED BY <1>9, <4>1 DEF Sound, Known
    <3> QED BY <3>1, <3>2
  <2>5. Readied(last)
    <3>1. Of(Autopilot, q.facts) \subseteq Of(Autopilot, last.facts)
      BY <1>9 DEF Of
    <3> QED BY <1>9, <3>1 DEF Sound, Readied
  <2>6. Timed(last)
    BY <1>6, <1>9 DEF Timed
  <2>7. Hashing(last)
    BY <1>9 DEF Sound, Hashing
  <2> QED BY <1>8, <2>1, <2>2, <2>3, <2>4, <2>5, <2>6, <2>7 DEF Sound
<1>11. PICK z : z = _handleParamValue(q, c, n, i)
  OBVIOUS
<1>12. /\ Sound(z, sp) /\ Told(z) /\ Unchecked(last, z)
       /\ Of(Autopilot, last.waiting) = {} /\ Of(Autopilot, last.facts) # {} => z.ready
  BY <1>5, <1>10, <1>11, LoadChecked
<1>13. Driven(z)
  <2> SUFFICES ASSUME Of(Autopilot, z.facts) # {} PROVE HasEnded(z) \/ IsArmed(z)
    BY DEF Driven
  <2>1. CASE on
    BY <1>9, <1>12, <2>1 DEF IsArmed, Unchecked
  <2>2. CASE ~on
    <3>1. last.waiting = {}
      BY <1>6, <1>9, <2>2
    <3>2. Of(Autopilot, last.waiting) = {} /\ Of(Autopilot, last.facts) # {}
      BY <1>12, <3>1 DEF Of, Unchecked
    <3> QED BY <1>12, <3>2 DEF Sound, Readied, HasEnded
  <2> QED BY <2>1, <2>2
<1>14. Valued(q, z, c, i)
  BY <1>3, <1>9, <1>12 DEF Valued, Hears, Unchecked
<1> QED BY <1>11, <1>12, <1>13, <1>14

-----------------------------------------------------------------------------
(* Starting a load.                                                        *)

LEMMA DownloadStarted ==
    ASSUME NEW q, NEW sp \in BOOLEAN, Sound(q, sp), Told(q), ByFile(q), NEW c \in Comp \cup {All},
           NEW busy \in BOOLEAN
    PROVE  Stands(_startParameterDownload(q, c, busy), sp)
<1> DEFINE again == {r \in Reads : r[1] \in q.seen /\ c \in {All, r[1]}}
           tries == [r \in Reads |-> IF r \in again THEN 0 ELSE q.tries[r]]
<1>1. /\ q \in Loader /\ {q.ready, q.tryftp, q.ftp, q.listTimer, q.waitTimer} \subseteq BOOLEAN
      /\ q.signals \subseteq Signal /\ q.waiting \subseteq Reads /\ q.asked \subseteq q.seen /\ q.late \subseteq q.seen /\ q.seen \subseteq Comp
      /\ q.tries \in [Reads -> 0..MaxIndexRetry] /\ \A r \in Reads \ q.waiting : q.tries[r] = 0
  BY DEF Sound, Asking, Loader
<1>2. PICK z : z = _startParameterDownload(q, c, busy)
  OBVIOUS
<1>3. PICK on \in BOOLEAN : on = (q.listTimer \/ ~q.ready)
  BY <1>1
<1>4. q.ready => HasEnded(q)
  BY DEF Sound, Readied, HasEnded
<1>5. CASE highLatency
  <2>1. z = [q EXCEPT !.ready = TRUE, !.missing = TRUE, !.signals = q.signals \cup {"ready"}, !.lastChance = FALSE]
    BY <1>2, <1>5 DEF _startParameterDownload
  <2>2. z \in Loader
    BY <1>1, <2>1 DEF Loader, Signal
  <2>3. /\ Unchecked(q, z) /\ z.ready /\ z.missing /\ z.signals = q.signals \cup {"ready"}
        /\ z.reported = q.reported /\ z.told = q.told
    BY <1>1, <2>1 DEF Loader, Unchecked
  <2>4. Sound(z, sp)
    <3>1. Kept(z)
      BY <2>3 DEF Sound, Kept, Unchecked
    <3> QED BY <1>5, <2>2, <2>3, <3>1, Rechecked
  <2>5. Told(z) /\ ByFile(z) /\ Driven(z)
    BY <1>5, <2>3 DEF Told, ByFile, Unchecked, Driven, HasEnded
  <2> QED BY <1>2, <2>4, <2>5 DEF Stands
<1>6. CASE ~highLatency /\ fw = "px4" /\ ~q.ready /\ ~q.hashDone
  <2>1. z = [q EXCEPT !.cacheOnly = FALSE, !.hashTimer = TRUE]
    BY <1>2, <1>6 DEF _startParameterDownload
  <2>2. z \in Loader
    BY <1>1, <2>1 DEF Loader
  <2>3. /\ z.ready = q.ready /\ z.missing = q.missing /\ z.signals = q.signals /\ z.reported = q.reported
        /\ z.tryftp = q.tryftp /\ z.ftp = q.ftp /\ z.hashDone = q.hashDone /\ z.waitTimer = q.waitTimer /\ z.hashTimer
        /\ z.seen = q.seen /\ z.facts = q.facts /\ z.asked = q.asked
        /\ z.told = q.told /\ z.late = q.late
        /\ z.waiting = q.waiting /\ z.failed = q.failed /\ z.batch = q.batch /\ z.tries = q.tries
    BY <1>1, <2>1 DEF Loader
  <2>4. Asking(z) /\ Kept(z) /\ Complete(z, sp) /\ Known(z, sp) /\ Readied(z) /\ Timed(z) /\ Hashing(z)
    BY <1>6, <2>3 DEF Sound, Asking, Kept, Complete, Known, Readied, Timed, Hashing
  <2>5. Told(z) /\ ByFile(z) /\ Driven(z)
    BY <2>3 DEF Told, ByFile, Driven, IsArmed
  <2> QED BY <1>2, <2>2, <2>4, <2>5 DEF Stands, Sound
<1>7. CASE ~highLatency /\ ~(fw = "px4" /\ ~q.ready /\ ~q.hashDone) /\ q.tryftp /\ c \in {All, Autopilot} /\ q.ftp
  <2>1. z = q
    BY <1>2, <1>7 DEF _startParameterDownload
  <2> QED BY <1>2, <1>7, <2>1 DEF Stands, Driven, IsArmed
<1>8. CASE ~highLatency /\ ~(fw = "px4" /\ ~q.ready /\ ~q.hashDone) /\ q.tryftp /\ c \in {All, Autopilot} /\ ~q.ftp
  <2>1. PICK file \in BOOLEAN, wait \in BOOLEAN : file = ~busy /\ wait = (q.waitTimer /\ q.waiting # {})
    BY <1>1
  <2>2. PICK listed : listed = [q EXCEPT !.listTimer = on]
    OBVIOUS
  <2>3. listed.waitTimer = q.waitTimer /\ listed \in Loader
    BY <1>1, <2>2 DEF Loader
  <2>4. z = [listed EXCEPT !.ftp = file, !.waitTimer = wait]
    BY <1>2, <1>3, <1>8, <2>1, <2>2, <2>3 DEF _startParameterDownload
  <2>5. z \in Loader
    BY <2>3, <2>4 DEF Loader
  <2>6. /\ z.ready = q.ready /\ z.missing = q.missing /\ z.signals = q.signals /\ z.reported = q.reported
        /\ z.tryftp = q.tryftp /\ z.ftp = file /\ z.hashDone = q.hashDone /\ z.hashTimer = q.hashTimer
        /\ z.waitTimer = wait /\ z.listTimer = on
        /\ z.seen = q.seen /\ z.facts = q.facts /\ z.asked = q.asked
        /\ z.told = q.told /\ z.late = q.late
        /\ z.waiting = q.waiting /\ z.failed = q.failed /\ z.batch = q.batch /\ z.tries = q.tries
    BY <1>1, <2>2, <2>4 DEF Loader
  <2>7. Asking(z) /\ Kept(z) /\ Complete(z, sp) /\ Known(z, sp) /\ Readied(z) /\ Hashing(z)
    BY <2>6 DEF Sound, Asking, Kept, Complete, Known, Readied, Hashing
  <2>8. Timed(z)
    BY <2>1, <2>6 DEF Sound, Timed
  <2>9. Told(z) /\ ByFile(z)
    BY <1>8, <2>6 DEF Told, ByFile
  <2>10. Driven(z)
    BY <1>3, <1>4, <2>6 DEF Driven, HasEnded, IsArmed
  <2> QED BY <1>2, <2>5, <2>7, <2>8, <2>9, <2>10 DEF Stands, Sound
<1>9. CASE ~highLatency /\ ~(fw = "px4" /\ ~q.ready /\ ~q.hashDone) /\ ~(q.tryftp /\ c \in {All, Autopilot})
  <2>1. again \subseteq Reads /\ {r[1] : r \in again} \subseteq q.seen
    OBVIOUS
  <2>2. tries \in [Reads -> 0..MaxIndexRetry] /\ \A r \in Reads \ (q.waiting \cup again) : tries[r] = 0
    BY <1>1, ParameterAssumption
  <2>3. PICK listed : listed = [q EXCEPT !.listTimer = on]
    OBVIOUS
  <2>4. /\ listed.asked = q.asked /\ listed.waiting = q.waiting /\ listed.tries = q.tries /\ listed \in Loader
    BY <1>1, <2>3 DEF Loader
  <2>5. PICK heads : heads = {r[1] : r \in again}
    OBVIOUS
  <2>5a. heads \subseteq q.seen /\ heads \in SUBSET Comp
    BY <1>1, <2>1, <2>5
  <2>5b. PICK b : b = Relisted(listed, heads)
    OBVIOUS
  <2>5c. b \in Loader /\ Relists(listed, b) /\ b.late = IF listed.reported THEN listed.late \cup heads ELSE listed.late
    BY <2>4, <2>5a, <2>5b, Relisting
  <2>6. z = [b EXCEPT !.asked = q.asked \cup heads, !.waiting = q.waiting \cup again, !.tries = tries]
    <3>1. b.asked = q.asked /\ b.waiting = q.waiting /\ b.tries = q.tries
      BY <2>4, <2>5c DEF Relists
    <3>2. b = Relisted([q EXCEPT !.listTimer = @ \/ ~q.ready], {r[1] : r \in again})
      BY <1>3, <2>3, <2>5, <2>5b
    <3> QED BY <1>2, <1>9, <2>5, <3>1, <3>2 DEF _startParameterDownload
  <2>7. \A r \in again : r[1] \in heads
    BY <2>5
  <2>8. q.tryftp => Of(Autopilot, again) = {}
    <3>1. ASSUME q.tryftp, NEW r \in again PROVE r[1] # Autopilot
      BY <1>9, <3>1
    <3> QED BY <3>1 DEF Of
  <2> HIDE DEF again, tries
  <2>9. z \in Loader
    BY <1>1, <2>1, <2>2, <2>5a, <2>5c, <2>6 DEF Loader
  <2>10. /\ z.ready = q.ready /\ z.missing = q.missing /\ z.signals = q.signals /\ z.reported = q.reported
         /\ z.tryftp = q.tryftp /\ z.ftp = q.ftp /\ z.hashDone = q.hashDone /\ z.hashTimer = q.hashTimer
         /\ z.waitTimer = q.waitTimer /\ z.listTimer = on
         /\ z.seen = q.seen /\ z.facts = q.facts /\ z.asked = q.asked \cup heads
         /\ z.told = q.told /\ z.late = (IF q.reported THEN q.late \cup heads ELSE q.late)
         /\ z.waiting = q.waiting \cup again /\ z.failed = q.failed /\ z.batch = q.batch /\ z.tries = tries
    <3>1. /\ listed.ready = q.ready /\ listed.missing = q.missing /\ listed.signals = q.signals
          /\ listed.reported = q.reported /\ listed.tryftp = q.tryftp /\ listed.ftp = q.ftp
          /\ listed.hashDone = q.hashDone /\ listed.hashTimer = q.hashTimer /\ listed.waitTimer = q.waitTimer
          /\ listed.listTimer = on /\ listed.seen = q.seen /\ listed.facts = q.facts /\ listed.asked = q.asked
          /\ listed.told = q.told /\ listed.late = q.late
          /\ listed.failed = q.failed /\ listed.batch = q.batch
      BY <1>1, <2>3 DEF Loader
    <3>2. /\ z.ready = b.ready /\ z.missing = b.missing /\ z.signals = b.signals /\ z.reported = b.reported
          /\ z.tryftp = b.tryftp /\ z.ftp = b.ftp /\ z.hashDone = b.hashDone /\ z.hashTimer = b.hashTimer
          /\ z.waitTimer = b.waitTimer /\ z.listTimer = b.listTimer
          /\ z.seen = b.seen /\ z.facts = b.facts /\ z.asked = q.asked \cup heads
          /\ z.told = b.told /\ z.late = b.late
          /\ z.waiting = q.waiting \cup again /\ z.failed = b.failed /\ z.batch = b.batch /\ z.tries = tries
      BY <2>5c, <2>6 DEF Loader
    <3> QED BY <2>5c, <3>1, <3>2 DEF Relists
  <2>11. Asking(z)
    BY <1>1, <2>1, <2>2, <2>5a, <2>10 DEF Sound, Asking
  <2>11a. Kept(z)
    <3>1. ASSUME q.reported, NEW r \in OfOthers(z.waiting \cup z.failed) PROVE r \in z.told \/ r[1] \in z.late
      <4>1. r \in OfOthers(q.waiting \cup q.failed) \/ r \in again
        BY <2>10, <3>1 DEF OfOthers, Of
      <4>2. r \in OfOthers(q.waiting \cup q.failed) => r \in q.told \/ r[1] \in q.late
        BY <3>1 DEF Sound, Kept
      <4> QED BY <2>7, <2>10, <3>1, <4>1, <4>2
    <3>2. \A r \in Reads : r[1] \in z.seen => r \in z.waiting \cup z.failed \cup z.facts
      BY <2>10 DEF Sound, Kept
    <3> QED BY <2>10, <3>1, <3>2 DEF Kept
  <2>12. Complete(z, sp) /\ Known(z, sp) /\ Readied(z) /\ Hashing(z)
    BY <2>10 DEF Sound, Complete, Known, Readied, Hashing
  <2>13. Timed(z)
    BY <2>7, <2>10 DEF Sound, Timed
  <2>14. Told(z)
    <3>1. z.waiting = {} => q.waiting = {}
      BY <2>10
    <3> QED BY <2>10, <3>1 DEF Told
  <2>15. ByFile(z)
    BY <2>8, <2>10 DEF ByFile, Of
  <2>16. Driven(z)
    BY <1>3, <1>4, <2>10 DEF Driven, HasEnded, IsArmed
  <2> QED BY <1>2, <2>9, <2>11, <2>11a, <2>12, <2>13, <2>14, <2>15, <2>16 DEF Stands, Sound
<1> QED BY <1>5, <1>6, <1>7, <1>8, <1>9

-----------------------------------------------------------------------------
(* Timers, retries, and what ends the hash check and the file.             *)

(* What the load has is the same; more may be signalled, and the file may  *)
(* be done with.                                                           *)
Retimed(q, z) ==
    /\ z.ready = q.ready /\ z.missing = q.missing /\ z.reported = q.reported /\ q.signals \subseteq z.signals
    /\ z.waitTimer = q.waitTimer /\ z.seen = q.seen /\ z.facts = q.facts /\ z.asked = q.asked
    /\ z.told = q.told /\ z.late = q.late
    /\ z.waiting = q.waiting /\ z.failed = q.failed /\ z.batch = q.batch /\ z.tries = q.tries
    /\ (z.tryftp => q.tryftp) /\ (z.ftp => q.ftp /\ z.tryftp)

LEMMA StillSound ==
    ASSUME NEW q, NEW sp \in BOOLEAN, Sound(q, sp), Told(q), ByFile(q),
           NEW z \in Loader, Retimed(q, z), Hashing(z)
    PROVE  Sound(z, sp) /\ Told(z) /\ ByFile(z)
<1>1. Asking(z) /\ Kept(z) /\ Complete(z, sp)
  BY DEF Sound, Asking, Kept, Complete, Retimed
<1>2. Known(z, sp) /\ Readied(z) /\ Timed(z)
  BY DEF Sound, Known, Readied, Timed, Retimed
<1>3. Told(z)
  BY DEF Told, Retimed
<1>4. ByFile(z)
  BY DEF ByFile, Retimed
<1> QED BY <1>1, <1>2, <1>3, <1>4 DEF Sound

LEMMA HashGivenUp ==
    ASSUME NEW q, NEW sp \in BOOLEAN, Sound(q, sp), Told(q), ByFile(q), ~q.hashTimer, NEW busy \in BOOLEAN
    PROVE  Stands(HashUnusable(q, busy), sp)
<1>1. q \in Loader /\ q.signals \subseteq Signal
  BY DEF Sound, Loader
<1>2. CASE q.cacheOnly
  <2>1. PICK z : z = [q EXCEPT !.hashDone = TRUE, !.signals = q.signals \cup {"skipped"}]
    OBVIOUS
  <2>2. HashUnusable(q, busy) = z
    BY <1>2, <2>1 DEF HashUnusable
  <2>3. z \in Loader
    BY <1>1, <2>1 DEF Loader, Signal
  <2>4. Retimed(q, z) /\ z.hashTimer = q.hashTimer /\ z.signals = q.signals \cup {"skipped"}
    <3>1. /\ z.ready = q.ready /\ z.missing = q.missing /\ z.reported = q.reported
          /\ z.waitTimer = q.waitTimer /\ z.seen = q.seen /\ z.facts = q.facts /\ z.asked = q.asked
          /\ z.told = q.told /\ z.late = q.late
          /\ z.waiting = q.waiting /\ z.failed = q.failed /\ z.batch = q.batch /\ z.tries = q.tries
          /\ z.tryftp = q.tryftp /\ z.ftp = q.ftp /\ z.hashTimer = q.hashTimer
          /\ z.signals = q.signals \cup {"skipped"}
      BY <1>1, <2>1 DEF Loader
    <3> QED BY <3>1 DEF Retimed, ByFile
  <2>5. Sound(z, sp) /\ Told(z) /\ ByFile(z)
    BY <2>3, <2>4, StillSound DEF Hashing
  <2>6. Driven(z)
    BY <2>4 DEF Driven, HasEnded
  <2> QED BY <2>2, <2>5, <2>6 DEF Stands
<1>3. CASE ~q.cacheOnly
  <2>1. PICK x : x = [q EXCEPT !.hashDone = TRUE]
    OBVIOUS
  <2>2. x \in Loader
    BY <1>1, <2>1 DEF Loader
  <2>3. Retimed(q, x) /\ x.hashTimer = q.hashTimer
    <3>1. /\ x.ready = q.ready /\ x.missing = q.missing /\ x.reported = q.reported
          /\ x.waitTimer = q.waitTimer /\ x.seen = q.seen /\ x.facts = q.facts /\ x.asked = q.asked
          /\ x.told = q.told /\ x.late = q.late
          /\ x.waiting = q.waiting /\ x.failed = q.failed /\ x.batch = q.batch /\ x.tries = q.tries
          /\ x.tryftp = q.tryftp /\ x.ftp = q.ftp /\ x.hashTimer = q.hashTimer /\ x.signals = q.signals
      BY <1>1, <2>1 DEF Loader
    <3> QED BY <3>1 DEF Retimed, ByFile
  <2>4. Sound(x, sp) /\ Told(x) /\ ByFile(x)
    BY <2>2, <2>3, StillSound DEF Hashing
  <2>5. Stands(_startParameterDownload(x, All, busy), sp)
    BY <2>4, DownloadStarted
  <2> QED BY <1>3, <2>1, <2>5 DEF HashUnusable
<1> QED BY <1>2, <1>3

LEMMA ListRequestedAgain ==
    ASSUME NEW q, NEW sp \in BOOLEAN, Sound(q, sp), Told(q), ByFile(q), NEW busy \in BOOLEAN
    PROVE  Stands(RequestAgain(q, busy), sp)
<1>1. q \in Loader /\ q.signals \subseteq Signal /\ q.retries \in 0..(MaxListRetry + 1) /\ MaxListRetry \in Nat
  BY ParameterAssumption DEF Sound, Loader
<1>2. CASE q.retries < MaxListRetry
  <2>1. PICK k : k = q.retries + 1
    OBVIOUS
  <2>2. k \in 0..(MaxListRetry + 1)
    BY <1>1, <1>2, <2>1
  <2>3. PICK x : x = [q EXCEPT !.retries = k]
    OBVIOUS
  <2>4. x \in Loader
    BY <1>1, <2>2, <2>3 DEF Loader
  <2>5. Retimed(q, x) /\ x.hashTimer = q.hashTimer /\ x.hashDone = q.hashDone
    <3>1. /\ x.ready = q.ready /\ x.missing = q.missing /\ x.reported = q.reported
          /\ x.waitTimer = q.waitTimer /\ x.seen = q.seen /\ x.facts = q.facts /\ x.asked = q.asked
          /\ x.told = q.told /\ x.late = q.late
          /\ x.waiting = q.waiting /\ x.failed = q.failed /\ x.batch = q.batch /\ x.tries = q.tries
          /\ x.tryftp = q.tryftp /\ x.ftp = q.ftp /\ x.hashTimer = q.hashTimer /\ x.hashDone = q.hashDone
          /\ x.signals = q.signals
      BY <1>1, <2>3 DEF Loader
    <3> QED BY <3>1 DEF Retimed, ByFile
  <2>6. Sound(x, sp) /\ Told(x) /\ ByFile(x)
    BY <2>4, <2>5, StillSound DEF Sound, Hashing
  <2>7. Stands(_startParameterDownload(x, All, busy), sp)
    BY <2>6, DownloadStarted
  <2> QED BY <1>2, <2>1, <2>3, <2>7 DEF RequestAgain
<1>3. CASE ~(q.retries < MaxListRetry)
  <2>1. PICK k : k = MaxListRetry + 1
    OBVIOUS
  <2>2. k \in 0..(MaxListRetry + 1)
    BY <1>1, <2>1
  <2>3. PICK z : z = [q EXCEPT !.retries = k, !.signals = q.signals \cup {"failed"}]
    OBVIOUS
  <2>4. RequestAgain(q, busy) = z
    BY <1>3, <2>1, <2>3 DEF RequestAgain
  <2>5. z \in Loader
    BY <1>1, <2>2, <2>3 DEF Loader, Signal
  <2>6. Retimed(q, z) /\ z.hashTimer = q.hashTimer /\ z.hashDone = q.hashDone /\ z.signals = q.signals \cup {"failed"}
    <3>1. /\ z.ready = q.ready /\ z.missing = q.missing /\ z.reported = q.reported
          /\ z.waitTimer = q.waitTimer /\ z.seen = q.seen /\ z.facts = q.facts /\ z.asked = q.asked
          /\ z.told = q.told /\ z.late = q.late
          /\ z.waiting = q.waiting /\ z.failed = q.failed /\ z.batch = q.batch /\ z.tries = q.tries
          /\ z.tryftp = q.tryftp /\ z.ftp = q.ftp /\ z.hashTimer = q.hashTimer /\ z.hashDone = q.hashDone
          /\ z.signals = q.signals \cup {"failed"}
      BY <1>1, <2>3 DEF Loader
    <3> QED BY <3>1 DEF Retimed, ByFile
  <2>7. Sound(z, sp) /\ Told(z) /\ ByFile(z)
    BY <2>5, <2>6, StillSound DEF Sound, Hashing
  <2>8. Driven(z)
    BY <2>6 DEF Driven, HasEnded
  <2> QED BY <2>4, <2>7, <2>8 DEF Stands
<1> QED BY <1>1, <1>2, <1>3

(* The stream replaces the file.                                           *)
LEMMA StreamReplacesFile ==
    ASSUME NEW q, NEW sp \in BOOLEAN, Sound(q, sp), Told(q), ByFile(q)
    PROVE  /\ Sound(AsStream(q), sp) /\ Told(AsStream(q)) /\ ByFile(AsStream(q))
           /\ ~AsStream(q).tryftp /\ ~AsStream(q).ftp /\ AsStream(q).facts = q.facts
<1>1. q \in Loader /\ 0 \in 0..(MaxListRetry + 1)
  BY ParameterAssumption DEF Sound
<1>2. PICK z : z = [q EXCEPT !.ftp = FALSE, !.tryftp = FALSE, !.retries = 0]
  OBVIOUS
<1>3. z = AsStream(q)
  BY <1>2 DEF AsStream
<1>4. z \in Loader
  BY <1>1, <1>2 DEF Loader
<1>5. /\ z.ready = q.ready /\ z.missing = q.missing /\ z.reported = q.reported
      /\ z.waitTimer = q.waitTimer /\ z.seen = q.seen /\ z.facts = q.facts /\ z.asked = q.asked
      /\ z.told = q.told /\ z.late = q.late
      /\ z.waiting = q.waiting /\ z.failed = q.failed /\ z.batch = q.batch /\ z.tries = q.tries
      /\ ~z.tryftp /\ ~z.ftp /\ z.hashTimer = q.hashTimer /\ z.hashDone = q.hashDone
      /\ z.signals = q.signals
  BY <1>1, <1>2 DEF Loader
<1>6. Retimed(q, z)
  BY <1>5 DEF Retimed
<1>7. Sound(z, sp) /\ Told(z) /\ ByFile(z)
  BY <1>4, <1>5, <1>6, StillSound DEF Sound, Hashing
<1> QED BY <1>3, <1>5, <1>7

(* Asking for the list anew takes on what is left.                         *)
LEMMA Listening ==
    ASSUME NEW q, NEW sp \in BOOLEAN, Sound(q, sp), Told(q), ByFile(q), NEW z, z = [q EXCEPT !.listTimer = TRUE]
    PROVE  Stands(z, sp)
<1>1. q \in Loader
  BY DEF Sound
<1>2. z \in Loader
  BY <1>1 DEF Loader
<1>3. /\ z.ready = q.ready /\ z.missing = q.missing /\ z.reported = q.reported
      /\ z.waitTimer = q.waitTimer /\ z.seen = q.seen /\ z.facts = q.facts /\ z.asked = q.asked
      /\ z.told = q.told /\ z.late = q.late
      /\ z.waiting = q.waiting /\ z.failed = q.failed /\ z.batch = q.batch /\ z.tries = q.tries
      /\ z.tryftp = q.tryftp /\ z.ftp = q.ftp /\ z.hashTimer = q.hashTimer /\ z.hashDone = q.hashDone
      /\ z.signals = q.signals /\ z.listTimer
  BY <1>1 DEF Loader
<1>4. Retimed(q, z)
  BY <1>3 DEF Retimed, ByFile
<1>5. Sound(z, sp) /\ Told(z) /\ ByFile(z)
  BY <1>2, <1>3, <1>4, StillSound DEF Sound, Hashing
<1> QED BY <1>3, <1>5 DEF Stands, Driven, IsArmed

-----------------------------------------------------------------------------
(* Three seconds without a value.                                          *)

LEMMA SilenceHandled ==
    ASSUME NEW q, NEW sp \in BOOLEAN, Stands(q, sp)
    PROVE  Stands(WaitingParamTimeout(q), sp)
<1>1. q \in Loader /\ Asking(q) /\ Sound(q, sp) /\ ByFile(q) /\ Told(q)
  BY DEF Stands, Sound
<1>2. PICK x : x = [q EXCEPT !.active = TRUE]
  OBVIOUS
<1>3. x \in Loader /\ SameLoad(q, x) /\ x.active
      /\ x.waiting = q.waiting /\ x.failed = q.failed /\ x.batch = q.batch /\ x.tries = q.tries
  BY <1>1, <1>2 DEF Loader, SameLoad
<1>4. Asking(x)
  BY <1>1, <1>3 DEF Asking, SameLoad
<1>5. PICK y : y = _giveUpOnUnresponsiveComponents(x)
  OBVIOUS
<1>6. y \in Loader /\ Asking(y) /\ GivesUp(x, y) /\ y.active
  BY <1>3, <1>4, <1>5, SilentGivenUp
<1>7. PICK e : e = [y EXCEPT !.batch = {}]
  OBVIOUS
<1>8. e \in Loader /\ SameLoad(y, e) /\ e.active
      /\ e.waiting = y.waiting /\ e.failed = y.failed /\ e.batch = {} /\ e.tries = y.tries
  BY <1>6, <1>7 DEF Loader, SameLoad
<1>9. Asking(e)
  BY <1>6, <1>8, FS_EmptySet, ParameterAssumption DEF Asking, SameLoad
<1>10. PICK f : f = _fillIndexBatchQueue(e)
  OBVIOUS
<1>11. f \in Loader /\ Asking(f) /\ GivesUp(e, f) /\ (f.batch = {} => f.waiting = {})
  BY <1>8, <1>9, <1>10, FillAsks
<1>12. GivesUp(q, f)
  <2>1. SameLoad(q, f)
    BY <1>3, <1>6, <1>8, <1>11 DEF GivesUp, SameLoad
  <2> QED BY <1>3, <1>6, <1>8, <1>11, <2>1 DEF GivesUp
<1>13. Kept(f) /\ Complete(f, sp) /\ Known(f, sp) /\ Readied(f) /\ Hashing(f)
  <2>1. SameLoad(q, f) /\ f.waiting \cup f.failed = q.waiting \cup q.failed
    BY <1>12 DEF GivesUp
  <2>2. Kept(f)
    BY <1>1, <2>1 DEF Sound, Kept, SameLoad
  <2> QED BY <1>1, <2>1, <2>2 DEF Sound, Complete, Known, Readied, Hashing, SameLoad
<1>14. ByFile(f)
  BY <1>1, <1>12 DEF ByFile, GivesUp, SameLoad, Of
<1>15. PICK z : z = WaitingParamTimeout(q)
  OBVIOUS
<1>16. CASE f.batch = {} /\ ~q.lastChance /\ Of(Autopilot, q.facts) = {}
  <2>1. Of(Autopilot, f.facts) = {}
    BY <1>12, <1>16 DEF GivesUp, SameLoad
  <2>2. z = [f EXCEPT !.waitTimer = TRUE, !.lastChance = TRUE]
    BY <1>2, <1>5, <1>7, <1>10, <1>15, <1>16, <2>1 DEF WaitingParamTimeout
  <2>3. z \in Loader
    BY <1>11, <2>2 DEF Loader
  <2>4. /\ z.ready = f.ready /\ z.missing = f.missing /\ z.signals = f.signals /\ z.reported = f.reported
        /\ z.tryftp = f.tryftp /\ z.ftp = f.ftp /\ z.hashDone = f.hashDone /\ z.waitTimer /\ z.hashTimer = f.hashTimer
        /\ z.seen = f.seen /\ z.facts = f.facts /\ z.asked = f.asked
        /\ z.told = f.told /\ z.late = f.late
        /\ z.waiting = f.waiting /\ z.failed = f.failed /\ z.batch = f.batch /\ z.tries = f.tries
    BY <1>11, <2>2 DEF Loader
  <2>5. Asking(z) /\ Kept(z) /\ Complete(z, sp) /\ Known(z, sp) /\ Readied(z) /\ Timed(z) /\ Hashing(z)
    BY <1>11, <1>13, <2>4 DEF Asking, Kept, Complete, Known, Readied, Timed, Hashing
  <2>6. Told(z)
    BY <2>1, <2>4, <2>5 DEF Told, Readied
  <2>7. ByFile(z) /\ Driven(z)
    BY <1>14, <2>4 DEF ByFile, Driven, IsArmed
  <2> QED BY <1>15, <2>3, <2>5, <2>6, <2>7 DEF Stands, Sound
<1>17. CASE ~(f.batch = {} /\ ~q.lastChance /\ Of(Autopilot, q.facts) = {})
  <2>1. PICK on \in BOOLEAN : on = (f.batch # {})
    OBVIOUS
  <2>2. PICK u : u = [f EXCEPT !.waitTimer = on, !.lastChance = FALSE]
    OBVIOUS
  <2>3. z = _checkInitialLoadComplete(u)
    BY <1>2, <1>5, <1>7, <1>10, <1>15, <1>17, <2>1, <2>2 DEF WaitingParamTimeout
  <2>4. u \in Loader
    BY <1>11, <2>2 DEF Loader
  <2>5. /\ u.ready = f.ready /\ u.missing = f.missing /\ u.signals = f.signals /\ u.reported = f.reported
        /\ u.tryftp = f.tryftp /\ u.ftp = f.ftp /\ u.hashDone = f.hashDone /\ u.waitTimer = on
        /\ u.hashTimer = f.hashTimer
        /\ u.seen = f.seen /\ u.facts = f.facts /\ u.asked = f.asked
        /\ u.told = f.told /\ u.late = f.late
        /\ u.waiting = f.waiting /\ u.failed = f.failed /\ u.batch = f.batch /\ u.tries = f.tries
    BY <1>11, <2>2 DEF Loader
  <2>6. Asking(u) /\ Kept(u) /\ Complete(u, sp) /\ Known(u, sp) /\ Readied(u) /\ Hashing(u)
    BY <1>11, <1>13, <2>5 DEF Asking, Kept, Complete, Known, Readied, Hashing
  <2>7. Timed(u)
    BY <1>11, <2>1, <2>5 DEF Timed
  <2>8. Sound(u, sp)
    BY <2>4, <2>6, <2>7 DEF Sound
  <2>9. /\ Sound(z, sp) /\ Told(z) /\ Unchecked(u, z)
        /\ Of(Autopilot, u.waiting) = {} /\ Of(Autopilot, u.facts) # {} => z.ready
    BY <2>3, <2>8, LoadChecked
  <2>10. ByFile(z)
    BY <1>14, <2>5, <2>9 DEF ByFile, Unchecked
  <2>11. Driven(z)
    <3> SUFFICES ASSUME Of(Autopilot, z.facts) # {} PROVE HasEnded(z) \/ IsArmed(z)
      BY DEF Driven
    <3>1. CASE on
      BY <2>5, <2>9, <3>1 DEF IsArmed, Unchecked
    <3>2. CASE ~on
      <4>1. u.waiting = {}
        BY <1>11, <2>1, <2>5, <3>2
      <4>2. Of(Autopilot, u.waiting) = {} /\ Of(Autopilot, u.facts) # {}
        BY <2>9, <4>1 DEF Of, Unchecked
      <4> QED BY <2>9, <4>2 DEF Sound, Readied, HasEnded
    <3> QED BY <3>1, <3>2
  <2> QED BY <1>15, <2>9, <2>10, <2>11 DEF Stands
<1> QED BY <1>15, <1>16, <1>17

-----------------------------------------------------------------------------
(* The parameter file.                                                     *)

LEMMA FileRead ==
    ASSUME NEW sp \in BOOLEAN, Stands(p, sp), p.ftp, FileParsed
    PROVE  Stands(p', sp)
<1>1. p \in Loader /\ Asking(p) /\ Sound(p, sp) /\ Told(p) /\ ByFile(p) /\ Driven(p)
  BY DEF Stands, Sound
<1>2. p.tryftp /\ ~highLatency /\ Of(Autopilot, p.waiting) = {}
  BY <1>1 DEF ByFile
<1>3. /\ p.waiting \subseteq Reads /\ p.tries \in [Reads -> 0..MaxIndexRetry] /\ p.facts \subseteq Reads
      /\ p.seen \subseteq Comp /\ p.asked \subseteq p.seen /\ p.late \subseteq p.seen /\ \A r \in Reads \ p.waiting : p.tries[r] = 0
  BY <1>1 DEF Loader, Asking
<1>4. PICK mine : mine = Of(Autopilot, Reads)
  OBVIOUS
<1>5. mine \subseteq Reads /\ (\A r \in Reads : r[1] = Autopilot <=> r \in mine) /\ <<Autopilot, 0>> \in mine
  <2>1. Autopilot \in Comp /\ 0 \in Indices(Autopilot)
    BY ParameterAssumption DEF Indices
  <2> QED BY <1>4, <2>1 DEF Of, Reads
<1>6. p.waiting \ mine = p.waiting
  BY <1>2, <1>3, <1>5 DEF Of
<1>7. PICK tries : tries = [r \in Reads |-> IF r[1] = Autopilot THEN 0 ELSE p.tries[r]]
  OBVIOUS
<1>8. tries \in [Reads -> 0..MaxIndexRetry] /\ \A r \in Reads \ p.waiting : tries[r] = 0
  BY <1>3, <1>7, ParameterAssumption
<1>9. PICK x : x = [p EXCEPT !.ftp = FALSE, !.seen = p.seen \cup {Autopilot}, !.tries = tries,
                             !.facts = p.facts \cup mine]
  OBVIOUS
<1>10. x = [p EXCEPT !.ftp = FALSE, !.seen = p.seen \cup {Autopilot}, !.waiting = p.waiting, !.tries = tries,
                             !.facts = p.facts \cup mine]
  BY <1>1, <1>9 DEF Loader
<1>11. p' = _checkInitialLoadComplete(x)
  BY <1>4, <1>6, <1>7, <1>10 DEF FileParsed
<1>12. x \in Loader
  BY <1>1, <1>3, <1>5, <1>8, <1>9, ParameterAssumption DEF Loader
<1>13. /\ x.ready = p.ready /\ x.missing = p.missing /\ x.signals = p.signals /\ x.reported = p.reported
       /\ x.tryftp = p.tryftp /\ ~x.ftp /\ x.hashDone = p.hashDone /\ x.waitTimer = p.waitTimer
       /\ x.hashTimer = p.hashTimer
       /\ x.seen = p.seen \cup {Autopilot} /\ x.facts = p.facts \cup mine /\ x.asked = p.asked
       /\ x.told = p.told /\ x.late = p.late
       /\ x.waiting = p.waiting /\ x.failed = p.failed /\ x.batch = p.batch /\ x.tries = tries
  BY <1>1, <1>9 DEF Loader
<1>14. Sound(x, sp)
  <2>1. Asking(x) /\ Timed(x) /\ Hashing(x)
    BY <1>1, <1>3, <1>8, <1>13 DEF Sound, Asking, Timed, Hashing
  <2>2. Kept(x)
    BY <1>1, <1>5, <1>13 DEF Sound, Kept
  <2>3. Complete(x, sp) /\ Known(x, sp)
    BY <1>4, <1>13 DEF Complete, Known
  <2>4. Readied(x)
    BY <1>1, <1>4, <1>5, <1>13 DEF Sound, Readied, Of
  <2> QED BY <1>12, <2>1, <2>2, <2>3, <2>4 DEF Sound
<1>15. PICK z : z = p'
  OBVIOUS
<1>16. Of(Autopilot, x.waiting) = {} /\ Of(Autopilot, x.facts) # {}
  BY <1>2, <1>5, <1>13 DEF Of
<1>17. Sound(z, sp) /\ Told(z) /\ Unchecked(x, z) /\ z.ready
  BY <1>11, <1>14, <1>15, <1>16, LoadChecked
<1>18. ByFile(z)
  BY <1>13, <1>16, <1>17 DEF ByFile, Unchecked
<1>19. Driven(z)
  BY <1>17 DEF Sound, Readied, Driven, HasEnded
<1> QED BY <1>15, <1>17, <1>18, <1>19 DEF Stands

(* Some of the autopilot's parameters are there, and the list is asked for.*)
LEMMA FileReadInPart ==
    ASSUME NEW q, NEW sp \in BOOLEAN, Sound(q, sp), Told(q), ByFile(q), ~q.tryftp,
           NEW S \in SUBSET Of(Autopilot, Reads), NEW z, z = [q EXCEPT !.facts = q.facts \cup S, !.listTimer = TRUE]
    PROVE  Stands(z, sp \/ S # {})
<1>1. q \in Loader /\ S \subseteq Reads
  BY DEF Sound, Of
<1>2. z \in Loader
  BY <1>1 DEF Loader
<1>3. /\ z.ready = q.ready /\ z.missing = q.missing /\ z.reported = q.reported
      /\ z.waitTimer = q.waitTimer /\ z.seen = q.seen /\ z.facts = q.facts \cup S /\ z.asked = q.asked
      /\ z.told = q.told /\ z.late = q.late
      /\ z.waiting = q.waiting /\ z.failed = q.failed /\ z.batch = q.batch /\ z.tries = q.tries
      /\ z.tryftp = q.tryftp /\ z.ftp = q.ftp /\ z.hashTimer = q.hashTimer /\ z.hashDone = q.hashDone
      /\ z.signals = q.signals /\ z.listTimer
  BY <1>1 DEF Loader
<1>4. PICK tp \in BOOLEAN : tp = (sp \/ S # {})
  OBVIOUS
<1>5. Asking(z) /\ Kept(z) /\ Timed(z) /\ Hashing(z)
  BY <1>3 DEF Sound, Asking, Kept, Timed, Hashing
<1>6. Complete(z, tp)
  BY <1>3, <1>4 DEF Sound, Complete
<1>7. Known(z, tp)
  BY <1>3, <1>4 DEF Sound, Known
<1>8. Readied(z)
  <2>1. Of(Autopilot, q.facts) \subseteq Of(Autopilot, z.facts)
    BY <1>3 DEF Of
  <2> QED BY <1>3, <2>1 DEF Sound, Readied
<1>9. Told(z) /\ ByFile(z) /\ Driven(z)
  BY <1>3 DEF Told, ByFile, Driven, IsArmed
<1> QED BY <1>2, <1>4, <1>5, <1>6, <1>7, <1>8, <1>9 DEF Stands, Sound

-----------------------------------------------------------------------------
(* The parameters of the cache file, one value after the other.            *)

(* Induction over the steps of a loop.                                     *)
LEMMA LoopInduction ==
    ASSUME NEW n \in Nat, NEW T, 0 \in T, \A k \in 1..n : k - 1 \in T => k \in T
    PROVE  \A k \in 0..n : k \in T
<1> SUFFICES ASSUME NEW S, S = (0..n) \ T, S # {} PROVE FALSE
  OBVIOUS
<1>1. PICK k \in S : \A j \in S : k <= j
  <2>1. S \subseteq Nat
    OBVIOUS
  <2> QED BY <2>1, NaturalMin
<1>2. k \in 1..n /\ k - 1 \in 0..n /\ k - 1 \notin S
  BY <1>1
<1> QED BY <1>1, <1>2

(* A loop whose body keeps within S runs to its end: f records what it has *)
(* after each of its n steps.                                              *)
Runs(f, S, base, n, step) ==
    f \in [0..n -> S] /\ f[0] = base /\ \A k \in 1..n : f[k] = step[<<k, f[k - 1]>>]
LEMMA LoopRuns ==
    ASSUME NEW S, NEW base \in S, NEW n \in Nat, NEW step \in [(1..n) \X S -> S]
    PROVE  \E f : Runs(f, S, base, n, step)
<1> DEFINE Run(f, k) == f \in [0..k -> S] /\ f[0] = base /\ \A j \in 1..k : f[j] = step[<<j, f[j - 1]>>]
           T == {k \in 0..n : \E f : Run(f, k)}
<1>1. 0 \in T
  <2>1. PICK f : f = [j \in 0..0 |-> base]
    OBVIOUS
  <2>2. f \in [0..0 -> S] /\ f[0] = base /\ 1..0 = {}
    BY <2>1
  <2>3. Run(f, 0)
    BY <2>2
  <2> QED BY <2>3
<1>2. ASSUME NEW k \in 1..n, k - 1 \in T PROVE k \in T
  <2>1. PICK f : Run(f, k - 1)
    BY <1>2
  <2>2. PICK x \in S : x = step[<<k, f[k - 1]>>]
    BY <2>1
  <2>3. PICK g : g = [j \in 0..k |-> IF j = k THEN x ELSE f[j]]
    OBVIOUS
  <2>4. g \in [0..k -> S] /\ g[0] = base
    BY <2>1, <2>3
  <2>5. ASSUME NEW j \in 1..k PROVE g[j] = step[<<j, g[j - 1]>>]
    <3>1. g[j - 1] = f[j - 1]
      BY <2>3
    <3>2. CASE j = k
      <4>1. g[j] = x
        BY <2>3, <3>2
      <4>2. <<j, g[j - 1]>> = <<k, f[k - 1]>>
        BY <3>1, <3>2
      <4> QED BY <2>2, <4>1, <4>2
    <3>3. CASE j # k
      <4>1. j \in 1..(k - 1) /\ g[j] = f[j]
        BY <2>3, <3>3
      <4> QED BY <2>1, <3>1, <4>1
    <3> QED BY <3>2, <3>3
  <2> QED BY <2>4, <2>5
<1> HIDE DEF T
<1>3. n \in T
  BY <1>1, <1>2, LoopInduction
<1> QED BY <1>3 DEF T, Runs

(* Whatever was waited for by index before: n values on, the component's   *)
(* first n indices are not; and nothing more of the others is.             *)
LEMMA CacheLoaded ==
    ASSUME NEW q, NEW sp \in BOOLEAN, Sound(q, sp), Told(q), ByFile(q), ~q.hashTimer, NEW c \in Comp
    PROVE  Stands(LoadedFromCache(q, c), sp)
<1> DEFINE N == Count[c]
           base == [q EXCEPT !.hashDone = TRUE, !.listTimer = FALSE]
           after[n \in 0..Count[c]] ==
            IF n = 0 THEN [q EXCEPT !.hashDone = TRUE, !.listTimer = FALSE]
            ELSE _handleParamValue(after[n - 1], c, n - 1, n - 1)
           S == {x \in Loader : Sound(x, sp)}
<1>1. c \in Comp /\ N \in Nat \ {0}
  BY ParameterAssumption
<1>2. LoadedFromCache(q, c) = after[N]
  BY DEF LoadedFromCache
<1>3. after = CHOOSE f : f = [n \in 0..N |->
                               IF n = 0 THEN base ELSE _handleParamValue(f[n - 1], c, n - 1, n - 1)]
  BY DEF after
<1> HIDE DEF after
<1>4. Sound(base, sp) /\ base.ftp = q.ftp /\ base.tryftp = q.tryftp /\ base.waiting = q.waiting
  <2>1. q \in Loader
    BY DEF Sound
  <2>2. PICK z : z = base
    OBVIOUS
  <2>3. z \in Loader
    BY <2>1, <2>2 DEF Loader
  <2>4. /\ z.ready = q.ready /\ z.missing = q.missing /\ z.reported = q.reported
        /\ z.waitTimer = q.waitTimer /\ z.seen = q.seen /\ z.facts = q.facts /\ z.asked = q.asked
        /\ z.told = q.told /\ z.late = q.late
        /\ z.waiting = q.waiting /\ z.failed = q.failed /\ z.batch = q.batch /\ z.tries = q.tries
        /\ z.tryftp = q.tryftp /\ z.ftp = q.ftp /\ z.hashTimer = q.hashTimer /\ z.signals = q.signals
    BY <2>1, <2>2 DEF Loader
  <2> HIDE DEF base
  <2>5. Retimed(q, z) /\ Hashing(z)
    BY <2>4 DEF Retimed, ByFile, Hashing
  <2> QED BY <2>2, <2>3, <2>4, <2>5, StillSound
<1> HIDE DEF base, N
<1>5. ASSUME NEW n \in 1..N PROVE <<c, n - 1>> \in Reads
  <2>1. n - 1 \in Indices(c)
    BY <1>1 DEF N, Indices
  <2> QED BY <1>1, <2>1 DEF Reads
<1>6. \A x \in S, n \in 1..N : _handleParamValue(x, c, n - 1, n - 1) \in S
  <2> SUFFICES ASSUME NEW x \in S, NEW n \in 1..N PROVE _handleParamValue(x, c, n - 1, n - 1) \in S
    OBVIOUS
  <2>1. PICK z : z = _handleParamValue(x, c, n - 1, n - 1)
    OBVIOUS
  <2>2. PICK k : k = n - 1
    OBVIOUS
  <2>3. Sound(z, sp)
    BY <1>1, <1>5, <2>1, <2>2, ValueHandled
  <2> QED BY <2>1, <2>3 DEF Sound
<1>7. after[0] = base /\ \A n \in 1..N : after[n] = _handleParamValue(after[n - 1], c, n - 1, n - 1)
  <2> DEFINE step == [pair \in (1..N) \X S |-> _handleParamValue(pair[2], c, pair[1] - 1, pair[1] - 1)]
  <2>1. base \in S
    BY <1>4 DEF Sound
  <2> HIDE DEF S
  <2>2. step \in [(1..N) \X S -> S]
    BY <1>6
  <2>3. \A n \in 1..N, x \in S : step[<<n, x>>] = _handleParamValue(x, c, n - 1, n - 1)
    OBVIOUS
  <2> HIDE DEF step
  <2>4. PICK f \in [0..N -> S] : f[0] = base /\ \A n \in 1..N : f[n] = step[<<n, f[n - 1]>>]
    <3>1. \E f : Runs(f, S, base, N, step)
      BY <1>1, <2>1, <2>2, LoopRuns
    <3> QED BY <3>1 DEF Runs
  <2>5. \A n \in 1..N : n - 1 \in 0..N /\ f[n - 1] \in S
    BY <1>1, <2>4
  <2>6. \A n \in 1..N : f[n] = _handleParamValue(f[n - 1], c, n - 1, n - 1)
    BY <2>3, <2>4, <2>5
  <2>7. f = [n \in 0..N |-> IF n = 0 THEN base ELSE _handleParamValue(f[n - 1], c, n - 1, n - 1)]
    BY <1>1, <2>4, <2>6
  <2>8. after = [n \in 0..N |-> IF n = 0 THEN base ELSE _handleParamValue(after[n - 1], c, n - 1, n - 1)]
    BY <1>3, <2>7
  <2>9. 0 \in 0..N /\ after[0] = base
    BY <1>1, <2>8
  <2>10. ASSUME NEW n \in 1..N PROVE after[n] = _handleParamValue(after[n - 1], c, n - 1, n - 1)
    <3>1. n \in 0..N /\ n # 0
      BY <1>1
    <3> QED BY <2>8, <3>1
  <2> QED BY <2>9, <2>10
<1> HIDE DEF S
<1> DEFINE Loads(x, n) == /\ Sound(x, sp) /\ x.ftp = q.ftp /\ x.tryftp = q.tryftp
                          /\ \A r \in x.waiting : (r[1] = c => r[2] >= n) /\ (r[1] # c => r \in q.waiting)
                          /\ n # 0 => c \in x.seen /\ Told(x) /\ Driven(x)
           T == {n \in 0..N : Loads(after[n], n)}
<1>8. 0 \in T
  <2>1. \A r \in q.waiting : r[2] >= 0
    <3>1. q.waiting \subseteq Reads
      BY DEF Sound, Loader
    <3> QED BY <3>1, ReadsAre
  <2> QED BY <1>1, <1>4, <1>7, <2>1
<1>9. ASSUME NEW n \in 1..N, n - 1 \in T PROVE n \in T
  <2>1. PICK x : x = after[n - 1]
    OBVIOUS
  <2>2. PICK k \in Nat : k = n - 1 /\ n = k + 1
    BY <1>1
  <2>3. Loads(x, k)
    BY <1>9, <2>1, <2>2
  <2>4. PICK z : z = after[n]
    OBVIOUS
  <2>5. z = _handleParamValue(x, c, k, k)
    BY <1>7, <2>1, <2>2, <2>4
  <2>6. <<c, k>> \in Reads
    BY <1>5, <2>2
  <2>7. Sound(z, sp) /\ Told(z) /\ Driven(z) /\ Valued(x, z, c, k)
    BY <1>1, <2>3, <2>5, <2>6, ValueHandled
  <2>8. ASSUME NEW r \in z.waiting, r[1] = c PROVE r[2] >= n
    <3>1. r \in Reads
      BY <2>7 DEF Sound, Loader
    <3>2. r[2] \in Nat /\ r = <<r[1], r[2]>>
      BY <3>1, ReadsAre
    <3>3. r[2] # k
      BY <2>7, <2>8, <3>2 DEF Valued
    <3>4. r[2] >= k
      <4>1. CASE r \in x.waiting
        BY <2>3, <2>8, <4>1
      <4>2. CASE r \notin x.waiting
        BY <2>2, <2>3, <2>7, <3>2, <4>2 DEF Valued
      <4> QED BY <4>1, <4>2
    <3> QED BY <2>2, <3>2, <3>3, <3>4
  <2>8a. ASSUME NEW r \in z.waiting, r[1] # c PROVE r \in q.waiting
    BY <2>3, <2>7, <2>8a DEF Valued, Of
  <2>9. Loads(z, n)
    BY <2>3, <2>7, <2>8, <2>8a DEF Valued
  <2>10. n \in 0..N
    BY <1>1
  <2> QED BY <2>4, <2>9, <2>10
<1>10. N \in T
  <2> HIDE DEF T
  <2> QED BY <1>1, <1>8, <1>9, LoopInduction
<1>11. PICK z : z = after[N]
  OBVIOUS
<1>12. Sound(z, sp) /\ Told(z) /\ Driven(z) /\ z.ftp = q.ftp /\ z.tryftp = q.tryftp
       /\ \A r \in z.waiting : (r[1] = c => r[2] >= N) /\ (r[1] # c => r \in q.waiting)
  BY <1>1, <1>10, <1>11
<1>13. ASSUME Of(Autopilot, z.waiting) # {} PROVE Of(Autopilot, q.waiting) # {}
  <2>1. PICK r \in z.waiting : r[1] = Autopilot
    BY <1>13 DEF Of
  <2>2. CASE c # Autopilot
    BY <1>12, <2>1, <2>2 DEF Of
  <2>3. CASE c = Autopilot
    <3>1. r \in Reads
      BY <1>12, <2>1 DEF Sound, Loader
    <3>2. r[2] \in 0..(N - 1)
      BY <1>1, <2>1, <2>3, <3>1 DEF Reads, Indices, N
    <3> QED BY <1>1, <1>12, <2>1, <2>3, <3>2
  <2> QED BY <2>2, <2>3
<1>14. ByFile(z)
  BY <1>12, <1>13 DEF ByFile
<1> QED BY <1>2, <1>11, <1>12, <1>14 DEF Stands

-----------------------------------------------------------------------------
(* The invariant holds initially and is kept by every step.                *)

LEMMA InitInv == Init => IInv
<1> SUFFICES ASSUME Init PROVE IInv
  OBVIOUS
<1> DEFINE file == fw # "other"
           zero == [r \in Reads |-> 0]
           quiet == [c \in Comp |-> 0]
<1>1. {MaxListRetry, MaxIndexRetry, SilentCycles} \subseteq Nat /\ BatchMax \in Nat
  BY ParameterAssumption
<1>2. p = [ready |-> FALSE, missing |-> FALSE, signals |-> {},
            tryftp |-> file, ftp |-> FALSE, retries |-> 0,
            hashDone |-> FALSE, cacheOnly |-> FALSE,
            listTimer |-> FALSE, waitTimer |-> FALSE, hashTimer |-> FALSE,
            seen |-> {}, waiting |-> {}, tries |-> zero, failed |-> {},
            facts |-> {}, active |-> FALSE, batch |-> {},
            heard |-> {}, silent |-> quiet,
            lastChance |-> FALSE, reported |-> FALSE, asked |-> {}, told |-> {}, late |-> {}]
  BY DEF Init
<1>3. zero \in [Reads -> 0..MaxIndexRetry] /\ quiet \in [Comp -> 0..SilentCycles] /\ 0 \in 0..(MaxListRetry + 1)
      /\ file \in BOOLEAN /\ \A r \in Reads : zero[r] = 0
  BY <1>1
<1> HIDE DEF file, zero, quiet
<1>4. /\ fw \in Firmwares /\ cached \subseteq Comp /\ {highLatency, spoiled} \subseteq BOOLEAN
      /\ refreshes \in 0..MaxRefreshes[fw]
  <2>1. fw \in Firmwares /\ highLatency \in BOOLEAN /\ refreshes = 0 /\ spoiled = FALSE
    BY DEF Init
  <2>2. cached \in (IF fw = "px4" THEN SUBSET Fitted[fw] ELSE {{}})
    BY DEF Init
  <2>3. cached \subseteq Comp
    BY <2>1, <2>2, ParameterAssumption
  <2>4. MaxRefreshes[fw] \in Nat
    BY <2>1, ParameterAssumption
  <2>5. refreshes \in 0..MaxRefreshes[fw]
    BY <2>1, <2>4
  <2> QED BY <2>1, <2>3, <2>5
<1>5. p \in Loader
  BY <1>2, <1>3 DEF Loader
<1>6. /\ ~p.ready /\ p.signals = {} /\ ~p.ftp /\ ~p.hashTimer /\ p.seen = {} /\ p.waiting = {} /\ p.failed = {}
      /\ p.tries = zero /\ p.facts = {} /\ p.batch = {} /\ p.asked = {} /\ ~p.reported /\ p.late = {}
  BY <1>2
<1>7. Asking(p)
  <2>1. Cardinality(p.batch) = 0 /\ 0 <= BatchMax
    BY <1>1, <1>6, FS_EmptySet
  <2> QED BY <1>3, <1>6, <2>1 DEF Asking
<1>8. Kept(p) /\ Complete(p, spoiled) /\ Known(p, spoiled) /\ Readied(p) /\ Timed(p) /\ Hashing(p)
  BY <1>6 DEF Kept, Complete, Known, Readied, Timed, Hashing, Of
<1>9. Told(p) /\ ByFile(p) /\ Driven(p)
  BY <1>6 DEF Told, ByFile, Driven, Of
<1> QED BY <1>4, <1>5, <1>7, <1>8, <1>9 DEF IInv, Stands, Sound

(* What no operation but a refresh and a spoiled file changes.             *)
Elsewhere == UNCHANGED <<fw, highLatency, cached, refreshes, spoiled>>

LEMMA Elsewise ==
    ASSUME IInv, Elsewhere, Stands(p, spoiled)'
    PROVE  IInv'
BY DEF IInv, Elsewhere

LEMMA StandsHere ==
    ASSUME IInv
    PROVE  /\ p \in Loader /\ spoiled \in BOOLEAN /\ Stands(p, spoiled)
           /\ Sound(p, spoiled) /\ Told(p) /\ ByFile(p) /\ Driven(p)
BY DEF IInv, Stands, Sound

(* Stands speaks of the link's latency, which never changes.               *)
LEMMA StandsNext ==
    ASSUME highLatency' = highLatency, NEW z, p' = z, NEW sp, spoiled' = sp, Stands(z, sp)
    PROVE  Stands(p, spoiled)'
BY DEF Stands, Sound, Loader, Asking, Kept, Complete, Known, Readied, Timed, Hashing, Told, ByFile, Driven,
       HasEnded, IsArmed, OfOthers, Of

LEMMA RefreshInv ==
    ASSUME IInv, NEW c \in Comp \cup {All}, refreshAllParameters(c)
    PROVE  IInv'
<1>1. p \in Loader /\ spoiled \in BOOLEAN /\ Sound(p, spoiled) /\ Told(p) /\ ByFile(p) /\ p.signals \subseteq Signal
  BY StandsHere DEF Loader
<1>2. PICK said : said = IF c \in {All, Autopilot} THEN p.signals \cup {"requested"} ELSE p.signals
  OBVIOUS
<1>3. said \in SUBSET Signal /\ p.signals \subseteq said
  BY <1>1, <1>2 DEF Signal
<1>4. PICK x : x = [p EXCEPT !.hashTimer = FALSE, !.hashDone = FALSE, !.signals = said]
  OBVIOUS
<1>5. x = [p EXCEPT !.hashTimer = FALSE, !.hashDone = FALSE,
                    !.signals = IF c \in {All, Autopilot} THEN @ \cup {"requested"} ELSE @]
  BY <1>1, <1>2, <1>4 DEF Loader
<1>6. PICK busy \in BOOLEAN : p' = _startParameterDownload(x, c, busy)
  BY <1>5 DEF refreshAllParameters
<1>7. x \in Loader
  BY <1>1, <1>3, <1>4 DEF Loader
<1>8. /\ x.ready = p.ready /\ x.missing = p.missing /\ x.reported = p.reported
      /\ x.waitTimer = p.waitTimer /\ x.seen = p.seen /\ x.facts = p.facts /\ x.asked = p.asked
      /\ x.told = p.told /\ x.late = p.late
      /\ x.waiting = p.waiting /\ x.failed = p.failed /\ x.batch = p.batch /\ x.tries = p.tries
      /\ x.tryftp = p.tryftp /\ x.ftp = p.ftp /\ ~x.hashTimer /\ x.signals = said
  BY <1>1, <1>4 DEF Loader
<1>9. Retimed(p, x) /\ Hashing(x)
  BY <1>1, <1>3, <1>8 DEF Retimed, Hashing, ByFile
<1>10. Sound(x, spoiled) /\ Told(x) /\ ByFile(x)
  BY <1>1, <1>7, <1>9, StillSound
<1>11. PICK z : z = p'
  OBVIOUS
<1>12. Stands(z, spoiled)
  BY <1>1, <1>6, <1>10, <1>11, DownloadStarted
<1>13. PICK sp \in BOOLEAN : sp = spoiled
  BY <1>1
<1>14. Stands(p, spoiled)'
  BY <1>11, <1>12, <1>13, StandsNext DEF refreshAllParameters
<1>15. refreshes' \in 0..MaxRefreshes[fw]
  <2>1. MaxRefreshes[fw] \in Nat
    BY ParameterAssumption DEF IInv
  <2> QED BY <2>1 DEF IInv, refreshAllParameters
<1> QED BY <1>14, <1>15 DEF IInv, refreshAllParameters

LEMMA HashCheckInv ==
    ASSUME IInv, tryHashCheckCacheLoad
    PROVE  IInv'
<1>1. p \in Loader /\ spoiled \in BOOLEAN /\ Sound(p, spoiled) /\ Told(p) /\ ByFile(p) /\ p.signals \subseteq Signal
  BY StandsHere DEF Loader
<1>2. PICK said : said = p.signals \cup {"requested"}
  OBVIOUS
<1>3. PICK x : x = [p EXCEPT !.hashTimer = FALSE, !.hashDone = FALSE, !.cacheOnly = TRUE, !.signals = said]
  OBVIOUS
<1>4. x = [p EXCEPT !.hashTimer = FALSE, !.hashDone = FALSE, !.cacheOnly = TRUE, !.signals = @ \cup {"requested"}]
  BY <1>2, <1>3
<1>5. said \in SUBSET Signal /\ x \in Loader
  BY <1>1, <1>2, <1>3 DEF Loader, Signal
<1>6. /\ x.ready = p.ready /\ x.missing = p.missing /\ x.reported = p.reported
      /\ x.waitTimer = p.waitTimer /\ x.seen = p.seen /\ x.facts = p.facts /\ x.asked = p.asked
      /\ x.told = p.told /\ x.late = p.late
      /\ x.waiting = p.waiting /\ x.failed = p.failed /\ x.batch = p.batch /\ x.tries = p.tries
      /\ x.tryftp = p.tryftp /\ x.ftp = p.ftp /\ ~x.hashTimer /\ ~x.hashDone /\ x.signals = said
  BY <1>1, <1>3 DEF Loader
<1>7. PICK z : z = p'
  OBVIOUS
<1>8. PICK sp \in BOOLEAN : sp = spoiled
  BY <1>1
<1>9. ASSUME highLatency \/ x.ready PROVE Stands(z, sp)
  <2>1. PICK told : told = said \cup {"skipped"}
    OBVIOUS
  <2>2. z = [x EXCEPT !.signals = told]
    BY <1>4, <1>6, <1>7, <1>9, <2>1 DEF tryHashCheckCacheLoad
  <2>3. z \in Loader
    BY <1>5, <2>1, <2>2 DEF Loader, Signal
  <2>4. /\ z.ready = x.ready /\ z.missing = x.missing /\ z.reported = x.reported
        /\ z.waitTimer = x.waitTimer /\ z.seen = x.seen /\ z.facts = x.facts /\ z.asked = x.asked
        /\ z.told = x.told /\ z.late = x.late
        /\ z.waiting = x.waiting /\ z.failed = x.failed /\ z.batch = x.batch /\ z.tries = x.tries
        /\ z.tryftp = x.tryftp /\ z.ftp = x.ftp /\ ~z.hashTimer /\ z.signals = told
    BY <1>5, <1>6, <2>2 DEF Loader
  <2>5. Retimed(p, z) /\ Hashing(z)
    BY <1>1, <1>2, <1>6, <2>1, <2>4 DEF Retimed, Hashing, ByFile
  <2>6. Sound(z, spoiled) /\ Told(z) /\ ByFile(z)
    BY <1>1, <2>3, <2>5, StillSound
  <2>7. Driven(z)
    BY <2>1, <2>4 DEF Driven, HasEnded
  <2> QED BY <1>8, <2>6, <2>7 DEF Stands
<1>10. ASSUME ~(highLatency \/ x.ready) PROVE Stands(z, sp)
  <2>1. z = [x EXCEPT !.hashTimer = TRUE]
    BY <1>4, <1>7, <1>10 DEF tryHashCheckCacheLoad
  <2>2. z \in Loader
    BY <1>5, <2>1 DEF Loader
  <2>3. /\ z.ready = x.ready /\ z.missing = x.missing /\ z.reported = x.reported
        /\ z.waitTimer = x.waitTimer /\ z.seen = x.seen /\ z.facts = x.facts /\ z.asked = x.asked
        /\ z.told = x.told /\ z.late = x.late
        /\ z.waiting = x.waiting /\ z.failed = x.failed /\ z.batch = x.batch /\ z.tries = x.tries
        /\ z.tryftp = x.tryftp /\ z.ftp = x.ftp /\ z.hashTimer /\ ~z.hashDone /\ z.signals = x.signals
    BY <1>5, <1>6, <2>1 DEF Loader
  <2>4. Retimed(p, z) /\ Hashing(z)
    BY <1>1, <1>2, <1>6, <2>3 DEF Retimed, Hashing, ByFile
  <2>5. Sound(z, spoiled) /\ Told(z) /\ ByFile(z)
    BY <1>1, <2>2, <2>4, StillSound
  <2>6. Driven(z)
    BY <2>3 DEF Driven, IsArmed
  <2> QED BY <1>8, <2>5, <2>6 DEF Stands
<1>11. Stands(z, sp)
  BY <1>9, <1>10
<1>12. Stands(p, spoiled)'
  BY <1>7, <1>8, <1>11, StandsNext DEF tryHashCheckCacheLoad
<1> QED BY <1>12, Elsewise DEF tryHashCheckCacheLoad, Elsewhere

(* The hash timer is stopped, as a timeout and an answer both begin.       *)
LEMMA HashTimerStopped ==
    ASSUME NEW q, NEW sp \in BOOLEAN, Sound(q, sp), Told(q), ByFile(q), NEW x, x = [q EXCEPT !.hashTimer = FALSE]
    PROVE  /\ Sound(x, sp) /\ Told(x) /\ ByFile(x) /\ ~x.hashTimer
           /\ x.ready = q.ready /\ x.hashDone = q.hashDone
           /\ Driven(q) /\ (x.ready \/ x.hashDone) => Driven(x)
<1>1. q \in Loader
  BY DEF Sound
<1>2. x \in Loader
  BY <1>1 DEF Loader
<1>3. /\ x.ready = q.ready /\ x.missing = q.missing /\ x.reported = q.reported
      /\ x.waitTimer = q.waitTimer /\ x.seen = q.seen /\ x.facts = q.facts /\ x.asked = q.asked
      /\ x.told = q.told /\ x.late = q.late
      /\ x.waiting = q.waiting /\ x.failed = q.failed /\ x.batch = q.batch /\ x.tries = q.tries
      /\ x.tryftp = q.tryftp /\ x.ftp = q.ftp /\ ~x.hashTimer /\ x.hashDone = q.hashDone
      /\ x.listTimer = q.listTimer /\ x.signals = q.signals
  BY <1>1 DEF Loader
<1>4. Retimed(q, x) /\ Hashing(x)
  BY <1>3 DEF Retimed, Hashing, ByFile
<1>5. Sound(x, sp) /\ Told(x) /\ ByFile(x)
  BY <1>2, <1>4, StillSound
<1>6. Driven(q) /\ (x.ready \/ x.hashDone) => Driven(x)
  BY <1>3, <1>5 DEF Sound, Driven, HasEnded, IsArmed, Readied, Hashing
<1> QED BY <1>3, <1>5, <1>6

LEMMA HashTimeoutInv ==
    ASSUME IInv, _hashCheckTimeout
    PROVE  IInv'
<1>1. p \in Loader /\ spoiled \in BOOLEAN /\ Sound(p, spoiled) /\ Told(p) /\ ByFile(p)
  BY StandsHere
<1>2. PICK x : x = [p EXCEPT !.hashTimer = FALSE]
  OBVIOUS
<1>3. PICK busy \in BOOLEAN : p' = HashUnusable(x, busy)
  BY <1>2 DEF _hashCheckTimeout
<1>4. PICK z : z = p'
  OBVIOUS
<1>5. PICK sp \in BOOLEAN : sp = spoiled
  BY <1>1
<1>6. Sound(x, sp) /\ Told(x) /\ ByFile(x) /\ ~x.hashTimer
  BY <1>1, <1>2, <1>5, HashTimerStopped
<1>7. Stands(z, sp)
  BY <1>3, <1>4, <1>6, HashGivenUp
<1>8. Stands(p, spoiled)'
  BY <1>4, <1>5, <1>7, StandsNext DEF _hashCheckTimeout
<1> QED BY <1>8, Elsewise DEF _hashCheckTimeout, Elsewhere

LEMMA HashAnsweredInv ==
    ASSUME IInv, NEW c \in Comp, _tryCacheHashLoad(c)
    PROVE  IInv'
<1>1. p \in Loader /\ spoiled \in BOOLEAN /\ Sound(p, spoiled) /\ Told(p) /\ ByFile(p) /\ Driven(p)
  BY StandsHere
<1>2. PICK x : x = [p EXCEPT !.hashTimer = FALSE]
  OBVIOUS
<1>3. PICK busy \in BOOLEAN : p' = IF x.ready THEN x
                                   ELSE IF c \in cached THEN LoadedFromCache(x, c)
                                   ELSE IF x.hashDone THEN x
                                   ELSE HashUnusable(x, busy)
  BY <1>2 DEF _tryCacheHashLoad
<1>4. PICK z : z = p'
  OBVIOUS
<1>5. PICK sp \in BOOLEAN : sp = spoiled
  BY <1>1
<1>6. /\ Sound(x, sp) /\ Told(x) /\ ByFile(x) /\ ~x.hashTimer
      /\ x.ready \/ x.hashDone => Driven(x)
  BY <1>1, <1>2, <1>5, HashTimerStopped
<1>7. Stands(z, sp)
  <2>1. CASE x.ready
    BY <1>3, <1>4, <1>6, <2>1 DEF Stands
  <2>2. CASE ~x.ready /\ c \in cached
    BY <1>3, <1>4, <1>6, <2>2, CacheLoaded
  <2>3. CASE ~x.ready /\ c \notin cached /\ x.hashDone
    BY <1>3, <1>4, <1>6, <2>3 DEF Stands
  <2>4. CASE ~x.ready /\ c \notin cached /\ ~x.hashDone
    BY <1>3, <1>4, <1>6, <2>4, HashGivenUp
  <2> QED BY <2>1, <2>2, <2>3, <2>4
<1>8. Stands(p, spoiled)'
  BY <1>4, <1>5, <1>7, StandsNext DEF _tryCacheHashLoad
<1> QED BY <1>8, Elsewise DEF _tryCacheHashLoad, Elsewhere

LEMMA ListTimeoutInv ==
    ASSUME IInv, _paramRequestListTimeout
    PROVE  IInv'
<1>1. p \in Loader /\ spoiled \in BOOLEAN /\ Sound(p, spoiled) /\ Told(p) /\ ByFile(p)
  BY StandsHere
<1>2. PICK x : x = [p EXCEPT !.listTimer = FALSE]
  OBVIOUS
<1>3. PICK busy \in BOOLEAN : p' = RequestAgain(x, busy)
  BY <1>2 DEF _paramRequestListTimeout
<1>4. PICK z : z = p'
  OBVIOUS
<1>5. PICK sp \in BOOLEAN : sp = spoiled
  BY <1>1
<1>6. x \in Loader
  BY <1>1, <1>2 DEF Loader
<1>7. /\ x.ready = p.ready /\ x.missing = p.missing /\ x.reported = p.reported
      /\ x.waitTimer = p.waitTimer /\ x.seen = p.seen /\ x.facts = p.facts /\ x.asked = p.asked
      /\ x.told = p.told /\ x.late = p.late
      /\ x.waiting = p.waiting /\ x.failed = p.failed /\ x.batch = p.batch /\ x.tries = p.tries
      /\ x.tryftp = p.tryftp /\ x.ftp = p.ftp /\ x.hashTimer = p.hashTimer /\ x.hashDone = p.hashDone
      /\ x.signals = p.signals
  BY <1>1, <1>2 DEF Loader
<1>8. Retimed(p, x) /\ Hashing(x)
  BY <1>1, <1>7 DEF Sound, Retimed, Hashing, ByFile
<1>9. Sound(x, sp) /\ Told(x) /\ ByFile(x)
  BY <1>1, <1>5, <1>6, <1>8, StillSound
<1>10. Stands(z, sp)
  BY <1>3, <1>4, <1>9, ListRequestedAgain
<1>11. Stands(p, spoiled)'
  BY <1>4, <1>5, <1>10, StandsNext DEF _paramRequestListTimeout
<1> QED BY <1>11, Elsewise DEF _paramRequestListTimeout, Elsewhere

LEMMA WaitTimeoutInv ==
    ASSUME IInv, _waitingParamTimeout
    PROVE  IInv'
<1>1. spoiled \in BOOLEAN /\ Stands(p, spoiled)
  BY StandsHere
<1>2. PICK z : z = p'
  OBVIOUS
<1>3. PICK sp \in BOOLEAN : sp = spoiled
  BY <1>1
<1>4. Stands(z, sp)
  BY <1>1, <1>2, <1>3, SilenceHandled DEF _waitingParamTimeout
<1>5. Stands(p, spoiled)'
  BY <1>2, <1>3, <1>4, StandsNext DEF _waitingParamTimeout
<1> QED BY <1>5, Elsewise DEF _waitingParamTimeout, Elsewhere

(* The autopilot's stream is taken only when no file is awaited, or when   *)
(* it was heard before: it brings no new index to wait for meanwhile.      *)
LEMMA ValueInv ==
    ASSUME IInv, NEW r \in Reads, NEW i \in {r[2], Unrequested}, ParamValue(r[1], r[2], i)
    PROVE  IInv'
<1>1. p \in Loader /\ spoiled \in BOOLEAN /\ Sound(p, spoiled) /\ ByFile(p)
  BY StandsHere
<1>2. PICK c \in Comp : c = r[1]
  BY ReadsAre
<1>3. PICK n : n = r[2]
  OBVIOUS
<1>4. <<c, n>> \in Reads
  BY <1>2, <1>3, ReadsAre
<1>5. PICK z : z = p'
  OBVIOUS
<1>6. PICK sp \in BOOLEAN : sp = spoiled
  BY <1>1
<1>7. z = _handleParamValue(p, c, n, i) /\ ~(p.tryftp /\ c = Autopilot /\ ~p.ready)
  BY <1>2, <1>3, <1>5 DEF ParamValue
<1>8. Sound(z, sp) /\ Told(z) /\ Driven(z) /\ Valued(p, z, c, i)
  BY <1>1, <1>3, <1>4, <1>6, <1>7, ValueHandled
<1>9. ByFile(z)
  <2>1. ASSUME p.tryftp, ~highLatency, NEW s \in z.waiting, s[1] = Autopilot PROVE FALSE
    <3>1. Of(Autopilot, p.waiting) = {}
      BY <1>1, <2>1 DEF ByFile
    <3>2. s \notin p.waiting
      BY <2>1, <3>1 DEF Of
    <3>3. c \notin p.seen /\ s \in Of(c, Reads)
      BY <1>8, <2>1, <3>2 DEF Valued
    <3>4. c = Autopilot
      BY <2>1, <3>3 DEF Of
    <3>5. p.ready
      BY <1>7, <2>1, <3>4
    <3>6. Of(Autopilot, p.facts) # {}
      BY <1>1, <2>1, <3>5 DEF Sound, Readied
    <3> QED BY <1>1, <2>1, <3>3, <3>4, <3>6 DEF Sound, Known
  <2>2. p.tryftp /\ ~highLatency => Of(Autopilot, z.waiting) = {}
    BY <2>1 DEF Of
  <2> QED BY <1>1, <1>8, <2>2 DEF ByFile, Valued
<1>10. Stands(z, sp)
  BY <1>8, <1>9 DEF Stands
<1>11. Stands(p, spoiled)'
  BY <1>5, <1>6, <1>10, StandsNext DEF ParamValue
<1> QED BY <1>11, Elsewise DEF ParamValue, Elsewhere

LEMMA ProgressInv ==
    ASSUME IInv, _ftpDownloadProgress
    PROVE  IInv'
<1>1. p \in Loader /\ spoiled \in BOOLEAN /\ Sound(p, spoiled) /\ Told(p) /\ ByFile(p) /\ p.ftp
  BY StandsHere DEF _ftpDownloadProgress
<1>2. PICK z : z = p'
  OBVIOUS
<1>3. PICK sp \in BOOLEAN : sp = spoiled
  BY <1>1
<1>4. z = [p EXCEPT !.listTimer = FALSE]
  BY <1>2 DEF _ftpDownloadProgress
<1>5. z \in Loader
  BY <1>1, <1>4 DEF Loader
<1>6. /\ z.ready = p.ready /\ z.missing = p.missing /\ z.reported = p.reported
      /\ z.waitTimer = p.waitTimer /\ z.seen = p.seen /\ z.facts = p.facts /\ z.asked = p.asked
      /\ z.told = p.told /\ z.late = p.late
      /\ z.waiting = p.waiting /\ z.failed = p.failed /\ z.batch = p.batch /\ z.tries = p.tries
      /\ z.tryftp = p.tryftp /\ z.ftp = p.ftp /\ z.hashTimer = p.hashTimer /\ z.hashDone = p.hashDone
      /\ z.signals = p.signals
  BY <1>1, <1>4 DEF Loader
<1>7. Retimed(p, z) /\ Hashing(z)
  BY <1>1, <1>6 DEF Sound, Retimed, Hashing, ByFile
<1>8. Sound(z, sp) /\ Told(z) /\ ByFile(z)
  BY <1>1, <1>3, <1>5, <1>7, StillSound
<1>9. Driven(z)
  BY <1>1, <1>6 DEF Driven, IsArmed
<1>10. Stands(p, spoiled)'
  BY <1>2, <1>3, <1>8, <1>9, StandsNext DEF _ftpDownloadProgress, Stands
<1> QED BY <1>10, Elsewise DEF _ftpDownloadProgress, Elsewhere

LEMMA FileEndsInv ==
    ASSUME IInv, _ftpDownloadComplete
    PROVE  IInv'
<1>1. /\ p \in Loader /\ spoiled \in BOOLEAN /\ Stands(p, spoiled) /\ Sound(p, spoiled) /\ Told(p) /\ ByFile(p)
      /\ p.ftp
  BY StandsHere DEF _ftpDownloadComplete
<1>2. UNCHANGED <<fw, highLatency, cached, refreshes>>
  BY DEF _ftpDownloadComplete
<1>3. PICK z : z = p'
  OBVIOUS
<1>4. PICK sp \in BOOLEAN : sp = spoiled
  BY <1>1
<1>5. PICK q : q = AsStream(p)
  OBVIOUS
<1>6. Sound(q, sp) /\ Told(q) /\ ByFile(q) /\ ~q.tryftp
  BY <1>1, <1>4, <1>5, StreamReplacesFile
<1>7. ASSUME FileParsed, UNCHANGED spoiled PROVE IInv'
  <2>1. Stands(z, sp)
    BY <1>1, <1>3, <1>4, <1>7, FileRead
  <2>2. Stands(p, spoiled)'
    BY <1>2, <1>3, <1>4, <1>7, <2>1, StandsNext
  <2> QED BY <1>2, <1>7, <2>2, Elsewise DEF Elsewhere
<1>8. ASSUME FileSpoiled PROVE IInv'
  <2>1. PICK S \in SUBSET Of(Autopilot, Reads) :
           spoiled' = (spoiled \/ S # {}) /\ p' = [AsStream(p) EXCEPT !.facts = @ \cup S, !.listTimer = TRUE]
    BY <1>8 DEF FileSpoiled
  <2>2. z = [q EXCEPT !.facts = q.facts \cup S, !.listTimer = TRUE]
    BY <1>3, <1>5, <2>1
  <2>3. PICK tp \in BOOLEAN : tp = (sp \/ S # {})
    OBVIOUS
  <2>4. Stands(z, sp \/ S # {})
    BY <1>6, <2>2, FileReadInPart
  <2>5. Stands(z, tp)
    BY <2>3, <2>4
  <2>6. spoiled' = tp
    BY <1>4, <2>1, <2>3
  <2>7. Stands(p, spoiled)'
    BY <1>2, <1>3, <2>5, <2>6, StandsNext
  <2> QED BY <1>2, <2>6, <2>7 DEF IInv
<1>9. ASSUME Stands(z, sp), UNCHANGED spoiled PROVE IInv'
  <2>1. Stands(p, spoiled)'
    BY <1>2, <1>3, <1>4, <1>9, StandsNext
  <2> QED BY <1>2, <1>9, <2>1, Elsewise DEF Elsewhere
<1>10. ASSUME z = [q EXCEPT !.listTimer = TRUE] PROVE Stands(z, sp)
  BY <1>6, <1>10, Listening
<1>11. ASSUME FileNotFound PROVE Stands(z, sp)
  <2>1. CASE p.retries = 0
    <3>1. z = RequestAgain(q, FALSE)
      BY <1>3, <1>5, <1>11, <2>1 DEF FileNotFound
    <3> QED BY <1>6, <3>1, ListRequestedAgain
  <2>2. CASE p.retries # 0
    BY <1>3, <1>5, <1>10, <1>11, <2>2 DEF FileNotFound
  <2> QED BY <2>1, <2>2
<1>12. ASSUME FileFailed PROVE Stands(z, sp)
  <2>1. CASE p' = [AsStream(p) EXCEPT !.listTimer = TRUE]
    BY <1>3, <1>5, <1>10, <2>1
  <2>2. CASE p' = [p EXCEPT !.ftp = FALSE, !.listTimer = TRUE]
    <3>1. z \in Loader
      BY <1>1, <1>3, <2>2 DEF Loader
    <3>2. /\ z.ready = p.ready /\ z.missing = p.missing /\ z.reported = p.reported
          /\ z.waitTimer = p.waitTimer /\ z.seen = p.seen /\ z.facts = p.facts /\ z.asked = p.asked
          /\ z.told = p.told /\ z.late = p.late
          /\ z.waiting = p.waiting /\ z.failed = p.failed /\ z.batch = p.batch /\ z.tries = p.tries
          /\ z.tryftp = p.tryftp /\ ~z.ftp /\ z.hashTimer = p.hashTimer /\ z.hashDone = p.hashDone
          /\ z.signals = p.signals /\ z.listTimer
      BY <1>1, <1>3, <2>2 DEF Loader
    <3>3. Retimed(p, z) /\ Hashing(z)
      BY <1>1, <3>2 DEF Sound, Retimed, Hashing
    <3>4. Sound(z, sp) /\ Told(z) /\ ByFile(z)
      BY <1>1, <1>4, <3>1, <3>3, StillSound
    <3> QED BY <3>2, <3>4 DEF Stands, Driven, IsArmed
  <2> QED BY <1>12, <2>1, <2>2 DEF FileFailed
<1> QED BY <1>7, <1>8, <1>9, <1>11, <1>12 DEF _ftpDownloadComplete

LEMMA FittedHere == IInv => Fitted[fw] \subseteq Comp
BY ParameterAssumption DEF IInv

LEMMA NextInv ==
    ASSUME IInv, [Next]_vars
    PROVE  IInv'
<1>1. CASE \E c \in Fitted[fw] \cup {All} : refreshAllParameters(c)
  BY <1>1, FittedHere, RefreshInv
<1>2. CASE tryHashCheckCacheLoad
  BY <1>2, HashCheckInv
<1>3. CASE _hashCheckTimeout
  BY <1>3, HashTimeoutInv
<1>4. CASE _paramRequestListTimeout
  BY <1>4, ListTimeoutInv
<1>5. CASE _waitingParamTimeout
  BY <1>5, WaitTimeoutInv
<1>6. CASE \E r \in {x \in Reads : x[1] \in Fitted[fw]} : \E i \in {r[2], Unrequested} : ParamValue(r[1], r[2], i)
  BY <1>6, ValueInv
<1>7. CASE \E c \in Fitted[fw] : _tryCacheHashLoad(c)
  BY <1>7, FittedHere, HashAnsweredInv
<1>8. CASE _ftpDownloadProgress
  BY <1>8, ProgressInv
<1>9. CASE _ftpDownloadComplete
  BY <1>9, FileEndsInv
<1>10. CASE UNCHANGED vars
  <2>1. PICK z : z = p'
    OBVIOUS
  <2>2. PICK sp \in BOOLEAN : sp = spoiled
    BY StandsHere
  <2>3. Elsewhere /\ Stands(z, sp)
    BY <1>10, <2>1, <2>2, StandsHere DEF vars, Elsewhere
  <2>4. Stands(p, spoiled)'
    BY <2>1, <2>2, <2>3, StandsNext DEF Elsewhere
  <2> QED BY <2>3, <2>4, Elsewise
<1> QED BY <1>1, <1>2, <1>3, <1>4, <1>5, <1>6, <1>7, <1>8, <1>9, <1>10 DEF Next

-----------------------------------------------------------------------------
(* The properties.                                                         *)

(* The inductive invariant: what is asked for is waited for, nothing is    *)
(* missing untold, something drives the load, and no index of the          *)
(* autopilot is waited for while a file may still bring it.                *)
THEOREM Inductive == Spec => []IInv
<1>1. Init => IInv
  BY InitInv
<1>2. IInv /\ [Next]_vars => IInv'
  BY NextInv
<1> QED BY <1>1, <1>2, PTL DEF Spec

(* The types of the state; no more indices are asked for at once than      *)
(* kIndexBatchMaxOutstanding allows and none more often than it may be,    *)
(* and tries are counted of the indices waited for only.                   *)
THEOREM TypeCorrect == Spec => []TypeOK
<1>1. IInv => TypeOK
  <2> SUFFICES ASSUME IInv PROVE TypeOK
    OBVIOUS
  <2>1. p \in Loader /\ Asking(p)
    BY StandsHere DEF Sound
  <2>2. /\ {p.ready, p.missing, p.tryftp, p.ftp, p.hashDone, p.cacheOnly, p.listTimer,
            p.waitTimer, p.hashTimer, p.active, p.lastChance, p.reported} \subseteq BOOLEAN
        /\ p.signals \subseteq Signal /\ p.retries \in 0..(MaxListRetry + 1)
        /\ p.seen \subseteq Comp /\ p.heard \subseteq Comp
        /\ {p.waiting, p.failed, p.facts, p.told} \subseteq SUBSET Reads
        /\ p.tries \in [Reads -> 0..MaxIndexRetry] /\ p.silent \in [Comp -> 0..SilentCycles]
    BY <2>1 DEF Loader
  <2> QED BY <2>1, <2>2 DEF IInv, TypeOK, Asking, Signal
<1> QED BY <1>1, Inductive, PTL

(* No index of a component heard is forgotten, whatever its retries.       *)
(* Parameters that are ready and not said to be missing are complete, if   *)
(* no file could be read only in part.  When nothing is waited for any     *)
(* more, the user was told of every parameter another component failed to  *)
(* deliver, over any number of refreshes, lost values and components that  *)
(* finish in any order; of one first heard, or whose list was asked for    *)
(* again, after he was told, the theorem says nothing.                     *)
THEOREM NothingMissing == Spec => []NothingMissingUntold
<1>1. IInv => NothingMissingUntold
  <2> SUFFICES ASSUME IInv PROVE NothingMissingUntold
    OBVIOUS
  <2>1. Kept(p) /\ Complete(p, spoiled) /\ Told(p)
    BY StandsHere DEF Sound
  <2>2. ASSUME p.ready, ~highLatency, p.waiting = {}, NEW r \in OfOthers(p.failed)
        PROVE  r \in p.told \/ r[1] \in p.late
    <3>1. p.reported
      BY <2>1, <2>2 DEF Told
    <3>2. p.waiting \cup p.failed = p.failed
      BY <2>2
    <3> QED BY <2>1, <2>2, <3>1, <3>2 DEF Kept
  <2> QED BY <2>1, <2>2 DEF Kept, Complete, NothingMissingUntold
<1> QED BY <1>1, Inductive, PTL

(* Once parameters of the autopilot are known, hash check, file and stream *)
(* never disarm the first load between them: one of them is armed until    *)
(* the load has an outcome (ready, failed or skipped).  In any load, an    *)
(* index waited for has its timer unless its list was only just asked for  *)
(* and no value arrived since.                                             *)
THEOREM AlwaysDriven == Spec => []LoadIsDriven
<1>1. IInv => LoadIsDriven
  BY StandsHere DEF Sound, Driven, HasEnded, IsArmed, Timed, LoadIsDriven, Ended, Armed
<1> QED BY <1>1, Inductive, PTL

===============================================================================
