----------------------- MODULE MultiVehicleManagerProofs -----------------------
(***************************************************************************)
(* The vehicles and their links, for any links, ids and number of vehicle  *)
(* objects: the primary link of each vehicle is usable, a link stays open  *)
(* while it is used, nothing refers to a deleted vehicle, and the choice   *)
(* of the active vehicle settles.                                          *)
(***************************************************************************)
EXTENDS MultiVehicleManager, SequenceTheorems, FunctionTheorems, FiniteSetTheorems, WellFoundedInduction,
        NaturalsInduction, TLAPS

(* The manager of a vehicle object: its links are distinct, its primary    *)
(* link is one of them, and one of high latency is never marked silent.    *)
ManagerType ==
    [rgLinkInfo : Seq(LinkInfo), primary : Links \cup {NoLink}, communicationLost : BOOLEAN,
     enabled : BOOLEAN, autoDisconnect : BOOLEAN, signalled : BOOLEAN, byUser : BOOLEAN]
Tidy(x) ==
    /\ \A i, j \in DOMAIN x.rgLinkInfo : x.rgLinkInfo[i].link = x.rgLinkInfo[j].link => i = j
    /\ x.primary \in ListedLinks(x) \cup {NoLink}
    /\ LostLinks(x) \cap HighLatency = {}
Usable(x) ==
    ~x.byUser => /\ LiveLinks(x) # {} => x.primary \in LiveLinks(x)
                 /\ LiveLinks(x) \ HighLatency # {} => x.primary \notin HighLatency

(* A link is listened to, once, by exactly those that list it, and counts  *)
(* each of them.                                                           *)
LinkType == [state : {"up", "closing", "gone"}, refs : Nat, listeners : Seq(Vehicles)]
World == [m : [Vehicles -> ManagerType], link : [Links -> LinkType], removed : Seq(Vehicles)]
Wired(w) ==
    \A l \in Links : /\ IsInjective(w.link[l].listeners)
                     /\ Range(w.link[l].listeners) = {v \in Vehicles : l \in ListedLinks(w.m[v])}
                     /\ Len(w.link[l].listeners) <= w.link[l].refs
Sound(w) == w \in World /\ Wired(w) /\ \A v \in Vehicles : Tidy(w.m[v])

(* A link that is gone has no listeners.  A reference left by a deleted    *)
(* object is all that a link counts beside its listeners.                  *)
Quiet(w) == \A l \in Links : w.link[l].state = "gone" => w.link[l].listeners = <<>>
Counted(w, d) == \A l \in Links : w.link[l].refs <= Len(w.link[l].listeners) + Cardinality(d)

(* The objects are numbered as they are created.                           *)
Objects ==
    /\ bound \in Bounds /\ choices \in 0..bound.choices
    /\ id \in [Vehicles -> Ids \cup {0}] /\ \E n \in 0..MaxVehicles : Created = 1..n
    /\ deleted \subseteq Created /\ ready \subseteq Alive

(* The manager of the vehicles: a vehicle is deleted once, the last thing  *)
(* that happens to it, when it is off the list; the last of the changes    *)
(* under way says what becomes active.                                     *)
Pending == [does : {"activate", "delete"}, vehicle : Vehicles]
Members ==
    [vehicles : Seq(Vehicles), active : Vehicles \cup {NoVehicle}, available : BOOLEAN,
     paramReady : BOOLEAN, timers : Seq(Pending)]
Deletes(x) == {i \in DOMAIN x.timers : x.timers[i].does = "delete"}
Orderly(x, alive) ==
    /\ IsInjective(x.vehicles) /\ Range(x.vehicles) \subseteq alive
    /\ x.active \in alive \cup {NoVehicle}
    /\ \A i \in DOMAIN x.timers : x.timers[i].vehicle \in alive
    /\ \A i \in Deletes(x) : /\ x.timers[i].vehicle \notin Range(x.vehicles)
                             /\ \A j \in DOMAIN x.timers : j > i => x.timers[j].vehicle # x.timers[i].vehicle
    /\ alive \ Range(x.vehicles) \subseteq {x.timers[i].vehicle : i \in Deletes(x)}
Selecting(x) ==
    /\ x.timers # <<>> /\ Len(x.timers) \notin Deletes(x) => x.timers[Len(x.timers)].vehicle \in Range(x.vehicles)
    /\ x.timers = <<>> => /\ x.active \in Range(x.vehicles) \cup {NoVehicle}
                          /\ x.active = NoVehicle <=> x.vehicles = <<>>
                          /\ x.active # NoVehicle => x.available

(* What makes a vehicle leave the list.                                    *)
Leaving(x) == x.rgLinkInfo = <<>> \/ x.signalled
OnTheList ==
    \A v \in Listed : /\ ~Leaving(m[v])
                      /\ \A u \in Listed \ {v} : id[u] # id[v]

(* The invariant.  An object that is not alive has no links.               *)
IInv ==
    /\ Sound(Now) /\ Quiet(Now) /\ Counted(Now, deleted) /\ Objects
    /\ \A v \in Vehicles : Usable(m[v]) /\ (v \notin Alive => m[v] = NoManager)
    /\ Manager \in Members /\ Orderly(Manager, Alive) /\ Selecting(Manager) /\ OnTheList

-----------------------------------------------------------------------------
(* Naturals and loops.                                                     *)

LEMMA MinOfNaturals ==
    ASSUME NEW S, S \subseteq Nat, S # {}
    PROVE  Min(S) \in S /\ \A k \in S : Min(S) <= k
<1> DEFINE Less == {pair \in Nat \X Nat : pair[1] < pair[2]}
<1>1. IsWellFoundedOn(Less, Nat)
  BY NatLessThanWellFounded DEF OpToRel
<1>2. PICK k \in S : \A j \in S : <<j, k>> \notin Less
  <2> HIDE DEF Less
  <2> QED BY <1>1, WFMin
<1>3. ASSUME NEW j \in S PROVE k <= j
  <2>1. j \in Nat /\ k \in Nat /\ <<j, k>> \notin Less
    BY <1>2
  <2>2. ~(j < k)
    BY <2>1
  <2> QED BY <2>1, <2>2
<1> QED BY <1>3 DEF Min

(* Induction over the steps of a loop.                                     *)
LEMMA LoopInduction ==
    ASSUME NEW n \in Nat, NEW T, 0 \in T, \A k \in 1..n : k - 1 \in T => k \in T
    PROVE  \A k \in 0..n : k \in T
<1> SUFFICES ASSUME NEW S, S = (0..n) \ T, S # {} PROVE FALSE
  OBVIOUS
<1>1. S \subseteq Nat
  OBVIOUS
<1>2. PICK k : k = Min(S)
  OBVIOUS
<1>3. k \in S /\ \A j \in S : k <= j
  BY <1>1, <1>2, MinOfNaturals
<1>4. k \in 1..n /\ k - 1 \in 0..n /\ k - 1 \notin S
  BY <1>3
<1> QED BY <1>3, <1>4

(* A loop whose body keeps within S runs to its end: f records what it has *)
(* after each of its n steps.                                              *)
Runs(f, S, base, n, step) ==
    f \in [0..n -> S] /\ f[0] = base /\ \A k \in 1..n : f[k] = step[<<k, f[k - 1]>>]
LEMMA LoopRuns ==
    ASSUME NEW S, NEW base \in S, NEW n \in Nat, NEW step \in [(1..n) \X S -> S]
    PROVE  \E f : Runs(f, S, base, n, step)
<1> DEFINE Run(f, k) == f \in [0..k -> S] /\ f[0] = base /\ \A j \in 1..k : f[j] = step[<<j, f[j - 1]>>]
           T == {k \in 0..n : \E f : Run(f, k)}
<1>1. 0 \in T
  <2>1. PICK f : f = [j \in 0..0 |-> base]
    OBVIOUS
  <2>2. f \in [0..0 -> S] /\ f[0] = base /\ 1..0 = {}
    BY <2>1
  <2>3. Run(f, 0)
    BY <2>2
  <2> QED BY <2>3
<1>2. ASSUME NEW k \in 1..n, k - 1 \in T PROVE k \in T
  <2>1. PICK f : Run(f, k - 1)
    BY <1>2
  <2>2. PICK x \in S : x = step[<<k, f[k - 1]>>]
    BY <2>1
  <2>3. PICK g : g = [j \in 0..k |-> IF j = k THEN x ELSE f[j]]
    OBVIOUS
  <2>4. g \in [0..k -> S] /\ g[0] = base
    BY <2>1, <2>3
  <2>5. ASSUME NEW j \in 1..k PROVE g[j] = step[<<j, g[j - 1]>>]
    <3>1. g[j - 1] = f[j - 1]
      BY <2>3
    <3>2. CASE j = k
      <4>1. g[j] = x
        BY <2>3, <3>2
      <4>2. <<j, g[j - 1]>> = <<k, f[k - 1]>>
        BY <3>1, <3>2
      <4> QED BY <2>2, <4>1, <4>2
    <3>3. CASE j # k
      <4>1. j \in 1..(k - 1) /\ g[j] = f[j]
        BY <2>3, <3>3
      <4> QED BY <2>1, <3>1, <4>1
    <3> QED BY <3>2, <3>3
  <2> QED BY <2>4, <2>5
<1> HIDE DEF T
<1>3. n \in T
  BY <1>1, <1>2, LoopInduction
<1> QED BY <1>3 DEF T, Runs

-----------------------------------------------------------------------------
(* Sequences without repetition.                                           *)

LEMMA RangeIs ==
    ASSUME NEW S, NEW s \in Seq(S)
    PROVE  /\ Len(s) \in Nat /\ DOMAIN s = 1..Len(s)
           /\ \A x : x \in Range(s) <=> \E i \in 1..Len(s) : s[i] = x
BY LenProperties DEF Range

LEMMA HeadTailOfLine ==
    ASSUME NEW S, NEW s \in Seq(S), s # <<>>, IsInjective(s)
    PROVE  /\ Head(s) \in Range(s) /\ Head(s) = s[1] /\ Tail(s) \in Seq(S) /\ IsInjective(Tail(s))
           /\ Range(Tail(s)) = Range(s) \ {Head(s)}
<1> DEFINE t == Tail(s)
<1>1. /\ t \in Seq(S) /\ Len(t) = Len(s) - 1 /\ Len(s) \in Nat \ {0}
      /\ \A i \in 1..Len(t) : t[i] = s[i + 1]
  BY HeadTailProperties, EmptySeq
<1>2. Head(s) = s[1]
  OBVIOUS
<1> HIDE DEF t
<1>3. DOMAIN s = 1..Len(s) /\ DOMAIN t = 1..Len(t) /\ Len(t) \in Nat
  BY <1>1, LenProperties
<1>4. IsInjective(t)
  <2> SUFFICES ASSUME NEW i \in 1..Len(t), NEW j \in 1..Len(t), t[i] = t[j] PROVE i = j
    BY <1>3 DEF IsInjective
  <2>1. i + 1 \in 1..Len(s) /\ j + 1 \in 1..Len(s) /\ s[i + 1] = s[j + 1]
    BY <1>1, <1>3
  <2>2. i + 1 = j + 1
    BY <1>3, <2>1 DEF IsInjective
  <2> QED BY <2>2
<1>5. 1 \in 1..Len(s) /\ Head(s) \in Range(s)
  BY <1>1, <1>2, <1>3 DEF Range
<1>6. ASSUME NEW x \in Range(t) PROVE x \in Range(s) /\ x # Head(s)
  <2>1. PICK i \in 1..Len(t) : t[i] = x
    BY <1>1, RangeIs
  <2>2. i + 1 \in 1..Len(s) /\ s[i + 1] = x /\ i + 1 # 1
    BY <1>1, <1>3, <2>1
  <2>3. x # s[1]
    BY <1>3, <1>5, <2>2 DEF IsInjective
  <2> QED BY <1>2, <2>2, <2>3, RangeIs
<1>7. ASSUME NEW x \in Range(s), x # Head(s) PROVE x \in Range(t)
  <2>1. PICK i \in 1..Len(s) : s[i] = x
    BY RangeIs
  <2>2. i - 1 \in 1..Len(t) /\ i = (i - 1) + 1
    BY <1>1, <1>2, <1>7, <2>1
  <2>3. t[i - 1] = x
    BY <1>1, <2>1, <2>2
  <2> QED BY <1>1, <2>2, <2>3, RangeIs
<1>8. Range(t) = Range(s) \ {Head(s)}
  BY <1>6, <1>7
<1> QED BY <1>1, <1>2, <1>4, <1>5, <1>8 DEF t

LEMMA LongerLine ==
    ASSUME NEW S, NEW s \in Seq(S), NEW x \in S, x \notin Range(s), IsInjective(s)
    PROVE  /\ Append(s, x) \in Seq(S) /\ IsInjective(Append(s, x)) /\ Append(s, x) # <<>>
           /\ Range(Append(s, x)) = Range(s) \cup {x}
<1> DEFINE t == Append(s, x)
<1>1. /\ t \in Seq(S) /\ Len(t) = Len(s) + 1 /\ t[Len(s) + 1] = x
      /\ \A i \in 1..Len(s) : t[i] = s[i]
  BY AppendProperties
<1> HIDE DEF t
<1>2. /\ Len(s) \in Nat /\ DOMAIN s = 1..Len(s) /\ DOMAIN t = 1..(Len(s) + 1)
      /\ \A i \in 1..Len(s) : s[i] \in Range(s)
  BY <1>1, RangeIs
<1>3. IsInjective(t)
  <2> SUFFICES ASSUME NEW i \in 1..(Len(s) + 1), NEW j \in 1..(Len(s) + 1), t[i] = t[j] PROVE i = j
    BY <1>2 DEF IsInjective
  <2>1. CASE i \in 1..Len(s) /\ j \in 1..Len(s)
    <3>1. s[i] = s[j]
      BY <1>1, <2>1
    <3> QED BY <1>2, <2>1, <3>1 DEF IsInjective
  <2>2. CASE i = Len(s) + 1 \/ j = Len(s) + 1
    BY <1>1, <1>2, <2>2
  <2> QED BY <1>2, <2>1, <2>2
<1>4. \A y : y \in Range(t) <=> y \in Range(s) \cup {x}
  <2>1. \A y : y \in Range(s) <=> \E i \in 1..Len(s) : s[i] = y
    BY RangeIs
  <2>2. \A y : y \in Range(t) <=> \E i \in 1..(Len(s) + 1) : t[i] = y
    BY <1>1, <1>2, RangeIs
  <2>3. \A i \in 1..(Len(s) + 1) : i \in 1..Len(s) \/ i = Len(s) + 1
    BY <1>2
  <2>4. Len(s) + 1 \in 1..(Len(s) + 1) /\ \A i \in 1..Len(s) : i \in 1..(Len(s) + 1)
    BY <1>2
  <2> QED BY <1>1, <2>1, <2>2, <2>3, <2>4
<1>5. t # <<>>
  BY <1>1, <1>2, EmptySeq
<1> QED BY <1>1, <1>3, <1>4, <1>5 DEF t

(* Taking one element out of a sequence closes the gap: every element of   *)
(* the result was an element at its own place or at the next one.          *)
LEMMA RemoveAtProperties ==
    ASSUME NEW S, NEW s \in Seq(S), NEW i \in DOMAIN s
    PROVE  /\ RemoveAt(s, i) \in Seq(S)
           /\ Len(RemoveAt(s, i)) = Len(s) - 1
           /\ \A j \in 1..(Len(s) - 1) : RemoveAt(s, i)[j] = s[IF j < i THEN j ELSE j + 1]
<1> DEFINE left == SubSeq(s, 1, i - 1)
           right == SubSeq(s, i + 1, Len(s))
<1>1. /\ Len(s) \in Nat /\ i \in 1..Len(s) /\ DOMAIN s = 1..Len(s)
      /\ \A j \in 1..Len(s) : s[j] \in S
  BY LenProperties, ElementOfSeq
<1>2. /\ left \in Seq(S) /\ Len(left) = i - 1
      /\ \A j \in 1..(i - 1) : left[j] = s[j]
  <2>1. \A j \in 1..(i - 1) : s[j] \in S
    BY <1>1
  <2>2. /\ left \in Seq(S)
        /\ Len(left) = IF 1 <= i - 1 THEN (i - 1) - 1 + 1 ELSE 0
        /\ \A j \in 1..((i - 1) - 1 + 1) : left[j] = s[1 + j - 1]
    BY <1>1, <2>1, SubSeqProperties
  <2> QED BY <1>1, <2>2
<1>3. /\ right \in Seq(S) /\ Len(right) = Len(s) - i
      /\ \A j \in 1..(Len(s) - i) : right[j] = s[i + j]
  <2>1. \A j \in (i + 1)..Len(s) : s[j] \in S
    BY <1>1
  <2>2. /\ right \in Seq(S)
        /\ Len(right) = IF i + 1 <= Len(s) THEN Len(s) - (i + 1) + 1 ELSE 0
        /\ \A j \in 1..(Len(s) - (i + 1) + 1) : right[j] = s[(i + 1) + j - 1]
    BY <1>1, <2>1, SubSeqProperties
  <2> HIDE DEF right
  <2>3. Len(right) = Len(s) - i
    BY <1>1, <2>2
  <2>4. ASSUME NEW j \in 1..(Len(s) - i) PROVE right[j] = s[i + j]
    <3>1. j \in 1..(Len(s) - (i + 1) + 1) /\ (i + 1) + j - 1 = i + j
      BY <1>1
    <3> QED BY <2>2, <3>1
  <2> QED BY <2>2, <2>3, <2>4
<1>4. /\ left \o right \in Seq(S)
      /\ Len(left \o right) = Len(left) + Len(right)
      /\ \A j \in 1..(Len(left) + Len(right)) :
            (left \o right)[j] = IF j <= Len(left) THEN left[j] ELSE right[j - Len(left)]
  BY <1>2, <1>3, ConcatProperties
<1>5. RemoveAt(s, i) = left \o right
  BY DEF RemoveAt
<1> HIDE DEF left, right
<1>6. Len(left) + Len(right) = Len(s) - 1
  BY <1>1, <1>2, <1>3
<1>7. ASSUME NEW j \in 1..(Len(s) - 1)
      PROVE  (left \o right)[j] = s[IF j < i THEN j ELSE j + 1]
  <2>1. CASE j < i
    BY <2>1, <1>1, <1>2, <1>4, <1>6
  <2>2. CASE ~(j < i)
    <3>1. (left \o right)[j] = right[j - (i - 1)]
      BY <2>2, <1>1, <1>2, <1>4, <1>6
    <3>2. j - (i - 1) \in 1..(Len(s) - i) /\ i + (j - (i - 1)) = j + 1
      BY <2>2, <1>1
    <3> QED BY <2>2, <3>1, <3>2, <1>3
  <2> QED BY <2>1, <2>2
<1> QED BY <1>4, <1>5, <1>6, <1>7

(* The first element that fits, if one does.                               *)
LEMMA FirstIndex ==
    ASSUME NEW S, NEW s \in Seq(S), NEW I, I \subseteq 1..Len(s)
    PROVE  LET i == IF I # {} THEN Min(I) ELSE 0
           IN  I # {} => i \in I /\ i \in DOMAIN s /\ i # 0
<1>1. DOMAIN s = 1..Len(s) /\ Len(s) \in Nat
  BY LenProperties
<1>2. I \subseteq Nat
  BY <1>1
<1>3. ASSUME I # {} PROVE Min(I) \in I
  BY <1>2, <1>3, MinOfNaturals
<1>4. ASSUME I # {} PROVE Min(I) \in 1..Len(s) /\ Min(I) # 0
  <2>1. PICK k : k = Min(I)
    OBVIOUS
  <2>2. k \in 1..Len(s)
    BY <1>3, <1>4, <2>1
  <2>3. k # 0
    BY <1>1, <2>2
  <2> QED BY <2>1, <2>2, <2>3
<1> QED BY <1>1, <1>3, <1>4

(* A sequence without repetition loses an element.                         *)
LEMMA ShorterLine ==
    ASSUME NEW S, NEW s \in Seq(S), NEW i \in DOMAIN s, IsInjective(s)
    PROVE  LET t == RemoveAt(s, i)
           IN  t \in Seq(S) /\ IsInjective(t) /\ Range(t) = Range(s) \ {s[i]} /\ Len(t) = Len(s) - 1
<1> DEFINE t == RemoveAt(s, i)
           from(j) == IF j < i THEN j ELSE j + 1
<1>1. t \in Seq(S) /\ Len(t) = Len(s) - 1 /\ \A j \in 1..(Len(s) - 1) : t[j] = s[from(j)]
  BY RemoveAtProperties
<1>2. Len(s) \in Nat /\ DOMAIN s = 1..Len(s) /\ i \in 1..Len(s) /\ DOMAIN t = 1..(Len(s) - 1)
  BY <1>1, LenProperties
<1> HIDE DEF t
<1>3. \A j \in 1..(Len(s) - 1) : from(j) \in 1..Len(s) /\ from(j) # i
  BY <1>2
<1>4. \A j, k \in 1..(Len(s) - 1) : from(j) = from(k) => j = k
  BY <1>2
<1>5. \A k \in 1..Len(s) : k # i => \E j \in 1..(Len(s) - 1) : from(j) = k
  <2> SUFFICES ASSUME NEW k \in 1..Len(s), k # i PROVE \E j \in 1..(Len(s) - 1) : from(j) = k
    OBVIOUS
  <2>1. CASE k < i
    <3>1. k \in 1..(Len(s) - 1) /\ from(k) = k
      BY <1>2, <2>1
    <3> QED BY <3>1
  <2>2. CASE k > i
    <3>1. k - 1 \in 1..(Len(s) - 1) /\ from(k - 1) = k
      BY <1>2, <2>2
    <3> QED BY <3>1
  <2> QED BY <1>2, <2>1, <2>2
<1> HIDE DEF from
<1>6. IsInjective(t)
  BY <1>1, <1>2, <1>3, <1>4 DEF IsInjective
<1>7. Range(t) = Range(s) \ {s[i]}
  <2>1. \A x : x \in Range(s) <=> \E k \in 1..Len(s) : s[k] = x
    BY RangeIs
  <2>2. \A x : x \in Range(t) <=> \E j \in 1..(Len(s) - 1) : t[j] = x
    BY <1>1, <1>2, RangeIs
  <2>3. ASSUME NEW x \in Range(t) PROVE x \in Range(s) /\ x # s[i]
    BY <1>1, <1>2, <1>3, <2>1, <2>2 DEF IsInjective
  <2>4. ASSUME NEW x \in Range(s), x # s[i] PROVE x \in Range(t)
    <3>1. PICK k \in 1..Len(s) : s[k] = x
      BY <2>1
    <3>2. PICK j \in 1..(Len(s) - 1) : from(j) = k
      BY <1>5, <2>4, <3>1
    <3> QED BY <1>1, <2>2, <3>1, <3>2
  <2> QED BY <2>3, <2>4
<1> QED BY <1>1, <1>6, <1>7 DEF t

LEMMA WithoutFirst ==
    ASSUME NEW S, NEW s \in Seq(S), NEW x, IsInjective(s)
    PROVE  LET t == RemoveFirst(s, x)
           IN  /\ t \in Seq(S) /\ IsInjective(t) /\ Range(t) = Range(s) \ {x}
               /\ Len(t) = IF x \in Range(s) THEN Len(s) - 1 ELSE Len(s)
<1> DEFINE I == {i \in 1..Len(s) : s[i] = x}
           i == IF I # {} THEN Min(I) ELSE 0
<1>1. x \in Range(s) <=> I # {}
  BY RangeIs
<1>2. CASE I = {}
  <2>1. RemoveFirst(s, x) = s
    BY <1>2 DEF RemoveFirst
  <2> QED BY <1>1, <1>2, <2>1
<1>3. CASE I # {}
  <2>1. i \in I /\ i \in DOMAIN s
    <3> HIDE DEF I
    <3>1. I \subseteq 1..Len(s)
      BY DEF I
    <3> QED BY <1>3, <3>1, FirstIndex
  <2>2. RemoveFirst(s, x) = RemoveAt(s, i)
    BY <1>3 DEF RemoveFirst, SelectInSeq
  <2> HIDE DEF i
  <2>3. s[i] = x
    BY <2>1
  <2> HIDE DEF I
  <2> QED BY <1>1, <1>3, <2>1, <2>2, <2>3, ShorterLine
<1> QED BY <1>2, <1>3

-----------------------------------------------------------------------------
(* The links of one vehicle.                                               *)

LEMMA ListIs ==
    ASSUME NEW x \in ManagerType
    PROVE  /\ Len(x.rgLinkInfo) \in Nat /\ DOMAIN x.rgLinkInfo = 1..Len(x.rgLinkInfo)
           /\ \A i \in DOMAIN x.rgLinkInfo : x.rgLinkInfo[i] \in LinkInfo
           /\ ListedLinks(x) \subseteq Links /\ LostLinks(x) \subseteq ListedLinks(x)
           /\ x.rgLinkInfo = <<>> <=> ListedLinks(x) = {}
<1>1. x.rgLinkInfo \in Seq(LinkInfo)
  BY DEF ManagerType
<1>2. PICK s \in Seq(LinkInfo) : s = x.rgLinkInfo
  BY <1>1
<1>3. Len(s) \in Nat /\ DOMAIN s = 1..Len(s) /\ \A i \in DOMAIN s : s[i] \in LinkInfo
  BY LenProperties, ElementOfSeq
<1>4. s = <<>> <=> Len(s) = 0
  BY EmptySeq
<1>5. s # <<>> => 1 \in DOMAIN s
  BY <1>3, <1>4
<1>6. s = <<>> => DOMAIN s = {}
  BY <1>3, <1>4
<1>7. \A i \in DOMAIN s : s[i].link \in Links
  BY <1>3 DEF LinkInfo
<1>8. ListedLinks(x) = {s[i].link : i \in DOMAIN s} /\ LostLinks(x) \subseteq ListedLinks(x)
  BY <1>2 DEF ListedLinks, LostLinks
<1>9. ListedLinks(x) \subseteq Links /\ (s = <<>> <=> ListedLinks(x) = {})
  BY <1>5, <1>6, <1>7, <1>8
<1> QED BY <1>2, <1>3, <1>8, <1>9

LEMMA LiveIs ==
    ASSUME NEW x \in ManagerType, Tidy(x), NEW i \in DOMAIN x.rgLinkInfo
    PROVE  /\ x.rgLinkInfo[i].link \in ListedLinks(x)
           /\ x.rgLinkInfo[i].link \in LostLinks(x) <=> x.rgLinkInfo[i].commLost
           /\ x.rgLinkInfo[i].link \in LiveLinks(x) <=> ~x.rgLinkInfo[i].commLost
BY ListIs DEF Tidy, ListedLinks, LostLinks, LiveLinks, LinkInfo

(* What a change of marks leaves alone.                                    *)
Alike(x, y) ==
    /\ ListedLinks(y) = ListedLinks(x) /\ y.signalled = x.signalled
    /\ y.primary = x.primary /\ y.byUser = x.byUser

LEMMA MarkedIs ==
    ASSUME NEW x \in ManagerType, Tidy(x), NEW S, NEW lost \in BOOLEAN, lost => S \cap HighLatency = {}
    PROVE  LET y == Marked(x, S, lost) IN y \in ManagerType /\ Tidy(y) /\ Alike(x, y)
<1> DEFINE mark(info) == IF info.link \in S THEN [link |-> info.link, commLost |-> lost] ELSE info
           s == x.rgLinkInfo
<1>1. Len(s) \in Nat /\ DOMAIN s = 1..Len(s) /\ \A i \in DOMAIN s : s[i] \in LinkInfo
  BY ListIs
<1>2. PICK t : t = [i \in 1..Len(s) |-> mark(s[i])]
  OBVIOUS
<1>3. ASSUME NEW i \in 1..Len(s) PROVE t[i] \in LinkInfo /\ t[i].link = s[i].link
  <2>1. t[i] = mark(s[i]) /\ s[i] \in LinkInfo
    BY <1>1, <1>2
  <2> QED BY <2>1 DEF LinkInfo
<1>4. t \in Seq(LinkInfo) /\ DOMAIN t = 1..Len(s)
  <2>1. t \in [1..Len(s) -> LinkInfo]
    BY <1>2, <1>3
  <2> QED BY <1>1, <2>1, SeqDef
<1>5. PICK y : y = [x EXCEPT !.rgLinkInfo = t]
  OBVIOUS
<1>6. Marked(x, S, lost) = y
  BY <1>1, <1>2, <1>5 DEF Marked, ManagerType
<1>7. /\ y \in ManagerType /\ y.rgLinkInfo = t /\ y.signalled = x.signalled
      /\ y.primary = x.primary /\ y.byUser = x.byUser
  BY <1>4, <1>5 DEF ManagerType
<1>8. ListedLinks(y) = ListedLinks(x)
  BY <1>1, <1>3, <1>4, <1>7 DEF ListedLinks
<1>9. LostLinks(y) \cap HighLatency = {}
  <2> SUFFICES ASSUME NEW i \in 1..Len(s), t[i].commLost, t[i].link \in HighLatency PROVE FALSE
    BY <1>4, <1>7 DEF LostLinks
  <2>1. t[i] = mark(s[i])
    BY <1>2
  <2>2. CASE s[i].link \in S
    <3>1. t[i] = [link |-> s[i].link, commLost |-> lost]
      BY <2>1, <2>2
    <3> QED BY <2>2, <3>1
  <2>3. CASE s[i].link \notin S
    <3>1. t[i] = s[i]
      BY <2>1, <2>3
    <3> QED BY <1>1, <3>1 DEF Tidy, LostLinks
  <2> QED BY <2>2, <2>3
<1>10. Tidy(y)
  BY <1>1, <1>3, <1>4, <1>7, <1>8, <1>9 DEF Tidy
<1> QED BY <1>6, <1>7, <1>8, <1>10 DEF Alike

LEMMA FirstLiveIs ==
    ASSUME NEW x \in ManagerType, Tidy(x), NEW S
    PROVE  LET l == FirstLive(x, S)
           IN  IF LiveLinks(x) \cap S = {} THEN l = NoLink ELSE l \in LiveLinks(x) \cap S
<1> DEFINE s == x.rgLinkInfo
           I == {i \in 1..Len(s) : s[i].link \in S /\ ~s[i].commLost}
           i == IF I # {} THEN Min(I) ELSE 0
<1>1. s \in Seq(LinkInfo) /\ Len(s) \in Nat /\ DOMAIN s = 1..Len(s)
  BY ListIs DEF ManagerType
<1>2. FirstLive(x, S) = IF i = 0 THEN NoLink ELSE s[i].link
  BY DEF FirstLive, SelectInSeq
<1>3. I = {} <=> LiveLinks(x) \cap S = {}
  <2>1. \A j \in 1..Len(s) : /\ s[j].link \in ListedLinks(x)
                             /\ s[j].link \in LiveLinks(x) <=> ~s[j].commLost
    BY <1>1, LiveIs
  <2>2. \A l \in LiveLinks(x) : \E j \in 1..Len(s) : s[j].link = l
    BY <1>1 DEF LiveLinks, ListedLinks
  <2> QED BY <2>1, <2>2
<1>4. CASE I = {}
  BY <1>2, <1>3, <1>4
<1>5. CASE I # {}
  <2> HIDE DEF I
  <2>1. I \subseteq 1..Len(s)
    BY DEF I
  <2>2. i \in I /\ i # 0
    BY <1>1, <1>5, <2>1, FirstIndex
  <2> HIDE DEF i
  <2>3. i \in DOMAIN s /\ s[i].link \in S /\ ~s[i].commLost
    BY <1>1, <2>2 DEF I
  <2>4. s[i].link \in LiveLinks(x)
    BY <2>3, LiveIs
  <2> QED BY <1>2, <1>3, <1>5, <2>2, <2>3, <2>4
<1> QED BY <1>4, <1>5

LEMMA UpdateIs ==
    ASSUME NEW x \in ManagerType, Tidy(x)
    PROVE  LET y == _updatePrimaryLink(x)
           IN  /\ y \in ManagerType /\ Tidy(y) /\ Usable(y)
               /\ y.rgLinkInfo = x.rgLinkInfo /\ y.signalled = x.signalled
<1> DEFINE best == _bestActivePrimaryLink(x)
           keeps == \/ x.primary \in LiveLinks(x) \ HighLatency
                    \/ x.primary # NoLink /\ best = NoLink
           p == IF keeps THEN x.primary ELSE best
<1>1. NoLink \notin Links /\ HighLatency \subseteq Links /\ UsbDirect \subseteq Links \ HighLatency
  BY LinkAssumption
<1>2. LiveLinks(x) \subseteq ListedLinks(x) /\ ListedLinks(x) \subseteq Links
  BY ListIs DEF LiveLinks
<1>3. x.primary \in ListedLinks(x) \cup {NoLink} /\ (x.primary \in HighLatency => x.primary \in LiveLinks(x))
  BY <1>1, <1>2 DEF Tidy, LiveLinks
<1>4. /\ best \in LiveLinks(x) \cup {NoLink}
      /\ best = NoLink => LiveLinks(x) = {}
      /\ LiveLinks(x) \ HighLatency # {} => best \notin HighLatency
  <2>1. PICK usb : usb = FirstLive(x, UsbDirect)
    OBVIOUS
  <2>2. PICK normal : normal = FirstLive(x, Links \ HighLatency)
    OBVIOUS
  <2>3. PICK sat : sat = FirstLive(x, HighLatency)
    OBVIOUS
  <2>4. IF LiveLinks(x) \cap UsbDirect = {} THEN usb = NoLink ELSE usb \in LiveLinks(x) \cap UsbDirect
    BY <2>1, FirstLiveIs
  <2>5. IF LiveLinks(x) \cap (Links \ HighLatency) = {} THEN normal = NoLink
        ELSE normal \in LiveLinks(x) \cap (Links \ HighLatency)
    BY <2>2, FirstLiveIs
  <2>6. IF LiveLinks(x) \cap HighLatency = {} THEN sat = NoLink ELSE sat \in LiveLinks(x) \cap HighLatency
    BY <2>3, FirstLiveIs
  <2>7. best = IF usb # NoLink THEN usb ELSE IF normal # NoLink THEN normal
               ELSE IF x.primary \in HighLatency THEN x.primary ELSE sat
    BY <2>1, <2>2, <2>3 DEF _bestActivePrimaryLink
  <2> HIDE DEF best
  <2>8. CASE usb # NoLink
    BY <1>1, <2>4, <2>7, <2>8
  <2>9. CASE usb = NoLink /\ normal # NoLink
    BY <1>1, <2>5, <2>7, <2>9
  <2>10. CASE usb = NoLink /\ normal = NoLink
    BY <1>1, <1>2, <1>3, <2>5, <2>6, <2>7, <2>10
  <2> QED BY <2>8, <2>9, <2>10
<1>5. PICK y : y = [x EXCEPT !.primary = p, !.byUser = FALSE]
  OBVIOUS
<1>6. y = _updatePrimaryLink(x)
  <2>1. "primary" \in DOMAIN x /\ "byUser" \in DOMAIN x
    BY DEF ManagerType
  <2> QED BY <1>5, <2>1 DEF _updatePrimaryLink
<1> HIDE DEF best
<1>7. p \in ListedLinks(x) \cup {NoLink}
  BY <1>2, <1>3, <1>4
<1>8. (LiveLinks(x) # {} => p \in LiveLinks(x)) /\ (LiveLinks(x) \ HighLatency # {} => p \notin HighLatency)
  BY <1>1, <1>2, <1>3, <1>4
<1> HIDE DEF p
<1>9. /\ y \in ManagerType /\ y.rgLinkInfo = x.rgLinkInfo /\ y.signalled = x.signalled
      /\ y.primary = p /\ y.byUser = FALSE
  <2>1. p \in Links \cup {NoLink}
    BY <1>2, <1>7
  <2> QED BY <1>5, <2>1 DEF ManagerType
<1>10. ListedLinks(y) = ListedLinks(x) /\ LostLinks(y) = LostLinks(x) /\ LiveLinks(y) = LiveLinks(x)
  BY <1>9 DEF ListedLinks, LostLinks, LiveLinks
<1>11. Tidy(y)
  BY <1>7, <1>9, <1>10 DEF Tidy
<1>12. Usable(y)
  BY <1>8, <1>9, <1>10 DEF Usable
<1> QED BY <1>6, <1>9, <1>11, <1>12

LEMMA AddedIs ==
    ASSUME NEW x \in ManagerType, Tidy(x), NEW l \in Links \ ListedLinks(x)
    PROVE  LET y == Listing(x, l)
           IN  /\ y \in ManagerType /\ Tidy(y) /\ ListedLinks(y) = ListedLinks(x) \cup {l}
               /\ y.signalled = x.signalled
<1> DEFINE s == x.rgLinkInfo
           new == [link |-> l, commLost |-> FALSE]
<1>1. s \in Seq(LinkInfo) /\ Len(s) \in Nat /\ DOMAIN s = 1..Len(s)
  BY ListIs DEF ManagerType
<1>2. new \in LinkInfo /\ new.link = l /\ ~new.commLost
  BY DEF LinkInfo
<1> HIDE DEF new
<1>3. PICK t : t = Append(s, new)
  OBVIOUS
<1>4. /\ t \in Seq(LinkInfo) /\ DOMAIN t = 1..(Len(s) + 1) /\ t[Len(s) + 1] = new
      /\ \A i \in 1..Len(s) : t[i] = s[i]
  BY <1>1, <1>2, <1>3, AppendProperties, LenProperties
<1>5. PICK y : y = [x EXCEPT !.rgLinkInfo = t]
  OBVIOUS
<1>6. y \in ManagerType /\ y.rgLinkInfo = t /\ y.signalled = x.signalled /\ y.primary = x.primary
  BY <1>4, <1>5 DEF ManagerType
<1>7. \A i \in DOMAIN t : i \in 1..Len(s) \/ i = Len(s) + 1
  BY <1>1, <1>4
<1>8. \A i \in 1..Len(s) : s[i].link \in ListedLinks(x) /\ i \in DOMAIN t
  BY <1>1, <1>4 DEF ListedLinks
<1>9. ListedLinks(y) = ListedLinks(x) \cup {l}
  <2>1. Len(s) + 1 \in DOMAIN t
    BY <1>1, <1>4
  <2> QED BY <1>1, <1>2, <1>4, <1>6, <1>7, <1>8, <2>1 DEF ListedLinks
<1>10. LostLinks(y) \subseteq LostLinks(x)
  BY <1>1, <1>2, <1>4, <1>6, <1>7 DEF LostLinks
<1>11. Tidy(y)
  <2>1. ASSUME NEW i \in DOMAIN t, NEW j \in DOMAIN t, t[i].link = t[j].link PROVE i = j
    <3>1. CASE i \in 1..Len(s) /\ j \in 1..Len(s)
      BY <1>1, <1>4, <2>1, <3>1 DEF Tidy
    <3>2. CASE i = Len(s) + 1 \/ j = Len(s) + 1
      BY <1>2, <1>4, <1>7, <1>8, <2>1, <3>2
    <3> QED BY <1>7, <3>1, <3>2
  <2> QED BY <1>6, <1>9, <1>10, <2>1 DEF Tidy
<1>12. y = Listing(x, l)
  BY <1>3, <1>5 DEF new, ManagerType, Listing
<1> QED BY <1>6, <1>9, <1>11, <1>12

LEMMA DroppedIs ==
    ASSUME NEW x \in ManagerType, Tidy(x), NEW l \in ListedLinks(x)
    PROVE  LET y == Without(x, l)
           IN  /\ y \in ManagerType /\ Tidy(y) /\ ListedLinks(y) = ListedLinks(x) \ {l}
               /\ y.signalled = x.signalled
<1> DEFINE s == x.rgLinkInfo
           I == {i \in 1..Len(s) : s[i].link = l}
           i == IF I # {} THEN Min(I) ELSE 0
<1>1. s \in Seq(LinkInfo) /\ Len(s) \in Nat /\ DOMAIN s = 1..Len(s)
  BY ListIs DEF ManagerType
<1>2. I # {}
  BY <1>1 DEF ListedLinks
<1>3. RemoveFirstMatch(s, LAMBDA info : info.link = l) = RemoveAt(s, i)
  BY <1>2 DEF RemoveFirstMatch, SelectInSeq
<1>4. i \in DOMAIN s /\ s[i].link = l
  <2> HIDE DEF I
  <2>1. I \subseteq 1..Len(s)
    BY DEF I
  <2>2. i \in I
    BY <1>1, <1>2, <2>1, FirstIndex
  <2> HIDE DEF i
  <2> QED BY <1>1, <2>2 DEF I
<1> HIDE DEF i, I
<1>5. PICK t : t = RemoveAt(s, i)
  OBVIOUS
<1> DEFINE from(j) == IF j < i THEN j ELSE j + 1
<1>6. t \in Seq(LinkInfo) /\ Len(t) = Len(s) - 1 /\ \A j \in 1..(Len(s) - 1) : t[j] = s[from(j)]
  BY <1>1, <1>4, <1>5, RemoveAtProperties
<1>7. i \in 1..Len(s) /\ DOMAIN t = 1..(Len(s) - 1)
  BY <1>1, <1>4, <1>6, LenProperties
<1>8. \A j \in 1..(Len(s) - 1) : from(j) \in 1..Len(s) /\ from(j) # i
  BY <1>1, <1>7
<1>9. \A j, k \in 1..(Len(s) - 1) : from(j) = from(k) => j = k
  BY <1>1, <1>7
<1>10. ASSUME NEW k \in 1..Len(s), k # i PROVE \E j \in 1..(Len(s) - 1) : from(j) = k
  <2>1. CASE k < i
    <3>1. k \in 1..(Len(s) - 1) /\ from(k) = k
      BY <1>1, <1>7, <2>1
    <3> QED BY <3>1
  <2>2. CASE k > i
    <3>1. k - 1 \in 1..(Len(s) - 1) /\ from(k - 1) = k
      BY <1>1, <1>7, <2>2
    <3> QED BY <3>1
  <2> QED BY <1>1, <1>7, <1>10, <2>1, <2>2
<1> HIDE DEF from
<1>11. PICK p : p = IF x.primary = l THEN NoLink ELSE x.primary
  OBVIOUS
<1>12. PICK y : y = [x EXCEPT !.primary = p, !.rgLinkInfo = t]
  OBVIOUS
<1>13. /\ y \in ManagerType /\ y.rgLinkInfo = t /\ y.signalled = x.signalled /\ y.primary = p
  BY <1>6, <1>11, <1>12 DEF ManagerType
<1>14. ListedLinks(y) = ListedLinks(x) \ {l}
  <2>1. ListedLinks(y) = {t[j].link : j \in 1..(Len(s) - 1)} /\ ListedLinks(x) = {s[j].link : j \in 1..Len(s)}
    BY <1>1, <1>7, <1>13 DEF ListedLinks
  <2>2. ASSUME NEW j \in 1..(Len(s) - 1) PROVE t[j].link \in ListedLinks(x) /\ t[j].link # l
    BY <1>1, <1>4, <1>6, <1>8, <2>1 DEF Tidy
  <2>3. ASSUME NEW k \in 1..Len(s), s[k].link # l PROVE s[k].link \in ListedLinks(y)
    <3>1. PICK j \in 1..(Len(s) - 1) : from(j) = k
      BY <1>4, <1>10, <2>3
    <3> QED BY <1>6, <2>1, <3>1
  <2> QED BY <2>1, <2>2, <2>3
<1>15. LostLinks(y) \subseteq LostLinks(x)
  <2> SUFFICES ASSUME NEW j \in 1..(Len(s) - 1), t[j].commLost PROVE t[j].link \in LostLinks(x)
    BY <1>7, <1>13 DEF LostLinks
  <2>1. from(j) \in DOMAIN s /\ s[from(j)].commLost /\ t[j] = s[from(j)]
    BY <1>1, <1>6, <1>8
  <2> QED BY <2>1 DEF LostLinks
<1>16. Tidy(y)
  <2>1. ASSUME NEW j \in DOMAIN t, NEW k \in DOMAIN t, t[j].link = t[k].link PROVE j = k
    <3>1. /\ from(j) \in DOMAIN s /\ from(k) \in DOMAIN s
          /\ s[from(j)].link = s[from(k)].link
      BY <1>1, <1>6, <1>7, <1>8, <2>1
    <3>2. from(j) = from(k)
      BY <3>1 DEF Tidy
    <3> QED BY <1>7, <1>9, <3>2
  <2>2. p \in ListedLinks(y) \cup {NoLink}
    BY <1>11, <1>14 DEF Tidy
  <2> QED BY <1>13, <1>15, <2>1, <2>2 DEF Tidy
<1>17. y = Without(x, l)
  BY <1>3, <1>5, <1>11, <1>12 DEF ManagerType, Without
<1> QED BY <1>13, <1>14, <1>16, <1>17

LEMMA RegainedIs ==
    ASSUME NEW x \in ManagerType, Tidy(x), NEW l
    PROVE  LET y == _commRegainedOnLink(x, l)
           IN  /\ y \in ManagerType /\ Tidy(y) /\ Usable(y)
               /\ ListedLinks(y) = ListedLinks(x) /\ y.signalled = x.signalled
<1>1. PICK a : a = Marked(x, {l}, FALSE)
  OBVIOUS
<1>2. a \in ManagerType /\ Tidy(a) /\ Alike(x, a)
  BY <1>1, MarkedIs
<1>3. PICK b : b = _updatePrimaryLink(a)
  OBVIOUS
<1>4. /\ b \in ManagerType /\ Tidy(b) /\ Usable(b)
      /\ b.rgLinkInfo = a.rgLinkInfo /\ b.signalled = a.signalled
  BY <1>2, <1>3, UpdateIs
<1>5. PICK c : c = (b.communicationLost /\ LiveLinks(b) = {})
  OBVIOUS
<1>6. PICK y : y = [b EXCEPT !.communicationLost = c]
  OBVIOUS
<1>7. y = _commRegainedOnLink(x, l)
  BY <1>1, <1>3, <1>4, <1>5, <1>6 DEF _commRegainedOnLink, ManagerType
<1>8. c \in BOOLEAN
  BY <1>4, <1>5 DEF ManagerType
<1>9. /\ y \in ManagerType /\ y.rgLinkInfo = b.rgLinkInfo /\ y.signalled = b.signalled
      /\ y.primary = b.primary /\ y.byUser = b.byUser
  BY <1>4, <1>6, <1>8 DEF ManagerType
<1>10. ListedLinks(y) = ListedLinks(b) /\ LostLinks(y) = LostLinks(b) /\ LiveLinks(y) = LiveLinks(b)
       /\ ListedLinks(b) = ListedLinks(a)
  BY <1>4, <1>9 DEF ListedLinks, LostLinks, LiveLinks
<1>11. Tidy(y) /\ Usable(y)
  BY <1>4, <1>9, <1>10 DEF Tidy, Usable
<1> QED BY <1>2, <1>4, <1>7, <1>9, <1>10, <1>11 DEF Alike

-----------------------------------------------------------------------------
(* The managers and links together.                                        *)

(* One manager and one link change.                                        *)
With(w, v, x, l, k, r) == [m |-> [w.m EXCEPT ![v] = x], link |-> [w.link EXCEPT ![l] = k], removed |-> r]

(* What a link counts beside its listeners stays.                          *)
SameBooks(w, z) ==
    \A l \in Links : z.link[l].refs + Len(w.link[l].listeners) = w.link[l].refs + Len(z.link[l].listeners)
OthersKept(w, z, v) == \A u \in Vehicles \ {v} : z.m[u] = w.m[u]

(* Links only ever gain listeners, or only lose them; one that is made to  *)
(* disconnect has none.                                                    *)
Opens(w, z) == \A l \in Links : z.link[l].state = w.link[l].state
Closes(w, z) ==
    \A l \in Links :
       /\ Range(z.link[l].listeners) \subseteq Range(w.link[l].listeners)
       /\ \/ z.link[l].state = w.link[l].state
          \/ w.link[l].state = "up" /\ z.link[l].state = "closing" /\ z.link[l].listeners = <<>>

LEMMA WorldParts ==
    ASSUME NEW w \in World
    PROVE  /\ w.m \in [Vehicles -> ManagerType] /\ w.link \in [Links -> LinkType] /\ w.removed \in Seq(Vehicles)
           /\ \A l \in Links : /\ w.link[l] \in LinkType /\ w.link[l].refs \in Nat
                               /\ w.link[l].state \in {"up", "closing", "gone"}
                               /\ w.link[l].listeners \in Seq(Vehicles) /\ Len(w.link[l].listeners) \in Nat
           /\ \A v \in Vehicles : w.m[v] \in ManagerType
           /\ w = [m |-> w.m, link |-> w.link, removed |-> w.removed]
<1>1. w.m \in [Vehicles -> ManagerType] /\ w.link \in [Links -> LinkType] /\ w.removed \in Seq(Vehicles)
  BY DEF World
<1>2. ASSUME NEW l \in Links
      PROVE  /\ w.link[l] \in LinkType /\ w.link[l].refs \in Nat
             /\ w.link[l].state \in {"up", "closing", "gone"}
             /\ w.link[l].listeners \in Seq(Vehicles) /\ Len(w.link[l].listeners) \in Nat
  BY <1>1, LenProperties DEF LinkType
<1>3. w = [m |-> w.m, link |-> w.link, removed |-> w.removed]
  BY DEF World
<1> QED BY <1>1, <1>2, <1>3

LEMMA WithIs ==
    ASSUME NEW w \in World, NEW v \in Vehicles, NEW x \in ManagerType, NEW l \in Links, NEW k \in LinkType,
           NEW r \in Seq(Vehicles)
    PROVE  LET z == With(w, v, x, l, k, r)
           IN  /\ z \in World /\ z.m[v] = x /\ OthersKept(w, z, v) /\ z.removed = r
               /\ z.link[l] = k /\ \A j \in Links \ {l} : z.link[j] = w.link[j]
<1>1. PICK z : z = With(w, v, x, l, k, r)
  OBVIOUS
<1>2. w.m \in [Vehicles -> ManagerType] /\ w.link \in [Links -> LinkType]
  BY WorldParts
<1>3. z.m = [w.m EXCEPT ![v] = x] /\ z.link = [w.link EXCEPT ![l] = k] /\ z.removed = r
  BY <1>1 DEF With
<1>4. z.m \in [Vehicles -> ManagerType] /\ z.link \in [Links -> LinkType]
  BY <1>2, <1>3
<1>5. z \in World
  BY <1>1, <1>2, <1>4 DEF With, World
<1>6. z.m[v] = x /\ OthersKept(w, z, v) /\ z.link[l] = k /\ \A j \in Links \ {l} : z.link[j] = w.link[j]
  BY <1>2, <1>3 DEF OthersKept
<1> QED BY <1>1, <1>3, <1>5, <1>6

(* What must hold of the link and the manager that change.                 *)
LEMMA SoundAgain ==
    ASSUME NEW w, Sound(w), NEW v \in Vehicles, NEW x \in ManagerType, NEW l \in Links, NEW k \in LinkType,
           NEW r \in Seq(Vehicles), Tidy(x), ListedLinks(x) \ {l} = ListedLinks(w.m[v]) \ {l},
           IsInjective(k.listeners), Len(k.listeners) <= k.refs,
           Range(k.listeners) = (Range(w.link[l].listeners) \ {v}) \cup (IF l \in ListedLinks(x) THEN {v} ELSE {})
    PROVE  Sound(With(w, v, x, l, k, r))
<1>1. PICK z : z = With(w, v, x, l, k, r)
  OBVIOUS
<1>2. w \in World /\ Wired(w) /\ \A u \in Vehicles : Tidy(w.m[u])
  BY DEF Sound
<1>3. /\ z \in World /\ z.m[v] = x /\ OthersKept(w, z, v) /\ z.removed = r
      /\ z.link[l] = k /\ \A j \in Links \ {l} : z.link[j] = w.link[j]
  BY <1>1, <1>2, WithIs
<1>4. \A u \in Vehicles : Tidy(z.m[u])
  BY <1>2, <1>3 DEF OthersKept
<1>5. ASSUME NEW j \in Links
      PROVE  /\ IsInjective(z.link[j].listeners) /\ Len(z.link[j].listeners) <= z.link[j].refs
             /\ Range(z.link[j].listeners) = {u \in Vehicles : j \in ListedLinks(z.m[u])}
  <2>1. Range(w.link[j].listeners) = {u \in Vehicles : j \in ListedLinks(w.m[u])}
    BY <1>2 DEF Wired
  <2>2. \A u \in Vehicles \ {v} : ListedLinks(z.m[u]) = ListedLinks(w.m[u])
    BY <1>3 DEF OthersKept
  <2>3. CASE j = l
    <3>1. IsInjective(z.link[j].listeners) /\ Len(z.link[j].listeners) <= z.link[j].refs
      BY <1>3, <2>3
    <3>2. ASSUME NEW u PROVE u \in Range(k.listeners) <=> u \in Vehicles /\ l \in ListedLinks(z.m[u])
      BY <1>3, <2>1, <2>2, <2>3
    <3> QED BY <1>3, <2>3, <3>1, <3>2
  <2>4. CASE j # l
    <3>1. z.link[j] = w.link[j] /\ j \in ListedLinks(x) <=> j \in ListedLinks(w.m[v])
      BY <1>3, <2>4
    <3>2. IsInjective(z.link[j].listeners) /\ Len(z.link[j].listeners) <= z.link[j].refs
      BY <1>2, <1>3, <2>4 DEF Wired
    <3>3. ASSUME NEW u \in Vehicles PROVE j \in ListedLinks(z.m[u]) <=> j \in ListedLinks(w.m[u])
      BY <1>3, <2>2, <2>4
    <3> QED BY <1>3, <2>1, <2>4, <3>2, <3>3
  <2> QED BY <2>3, <2>4
<1> QED BY <1>1, <1>3, <1>4, <1>5 DEF Sound, Wired

LEMMA EqualsWith ==
    ASSUME NEW w \in World, NEW v \in Vehicles, NEW l \in Links, NEW x, NEW k
    PROVE  [w EXCEPT !.m[v] = x, !.link[l] = k] = With(w, v, x, l, k, w.removed)
<1>1. PICK a \in [Vehicles -> ManagerType], b \in [Links -> LinkType], c \in Seq(Vehicles) :
         w = [m |-> a, link |-> b, removed |-> c]
  BY WorldParts
<1>2. PICK d : d = [a EXCEPT ![v] = x]
  OBVIOUS
<1>3. PICK e : e = [b EXCEPT ![l] = k]
  OBVIOUS
<1>4. PICK y : y = [w EXCEPT !.m[v] = x]
  OBVIOUS
<1>5. y = [m |-> d, link |-> b, removed |-> c]
  BY <1>1, <1>2, <1>4
<1>6. [w EXCEPT !.m[v] = x, !.link[l] = k] = [y EXCEPT !.link[l] = k]
  BY <1>4
<1>7. [y EXCEPT !.link[l] = k] = [m |-> d, link |-> e, removed |-> c]
  BY <1>3, <1>5
<1>8. With(w, v, x, l, k, w.removed) = [m |-> d, link |-> e, removed |-> c]
  BY <1>1, <1>2, <1>3 DEF With
<1> QED BY <1>6, <1>7, <1>8

LEMMA AddLinkIs ==
    ASSUME NEW w, Sound(w), NEW v \in Vehicles, NEW l \in Links, l \notin ListedLinks(w.m[v]),
           w.link[l].state # "gone"
    PROVE  LET z == _addLink(w, v, l)
           IN  /\ Sound(z) /\ Usable(z.m[v]) /\ OthersKept(w, z, v) /\ SameBooks(w, z) /\ Opens(w, z)
               /\ z.removed = w.removed /\ z.m[v].signalled = w.m[v].signalled
               /\ ListedLinks(z.m[v]) = ListedLinks(w.m[v]) \cup {l}
<1>1. w \in World /\ Wired(w) /\ Tidy(w.m[v])
  BY DEF Sound
<1>2. /\ w.m \in [Vehicles -> ManagerType] /\ w.link \in [Links -> LinkType] /\ w.removed \in Seq(Vehicles)
      /\ w.link[l] \in LinkType /\ w.link[l].refs \in Nat /\ w.link[l].listeners \in Seq(Vehicles)
      /\ Len(w.link[l].listeners) \in Nat /\ w.m[v] \in ManagerType
  BY <1>1, WorldParts
<1>3. PICK a : a = Listing(w.m[v], l)
  OBVIOUS
<1>4. /\ a \in ManagerType /\ Tidy(a) /\ ListedLinks(a) = ListedLinks(w.m[v]) \cup {l}
      /\ a.signalled = w.m[v].signalled
  BY <1>1, <1>2, <1>3, AddedIs
<1>5. PICK x : x = _updatePrimaryLink(a)
  OBVIOUS
<1>6. /\ x \in ManagerType /\ Tidy(x) /\ Usable(x) /\ x.signalled = w.m[v].signalled
      /\ ListedLinks(x) = ListedLinks(w.m[v]) \cup {l}
  <2>1. x \in ManagerType /\ Tidy(x) /\ Usable(x) /\ x.rgLinkInfo = a.rgLinkInfo /\ x.signalled = a.signalled
    BY <1>4, <1>5, UpdateIs
  <2> QED BY <1>4, <2>1 DEF ListedLinks
<1>7. PICK s : s = Append(w.link[l].listeners, v)
  OBVIOUS
<1>8. v \notin Range(w.link[l].listeners)
  BY <1>1 DEF Wired
<1>9. /\ s \in Seq(Vehicles) /\ IsInjective(s) /\ Range(s) = Range(w.link[l].listeners) \cup {v}
      /\ Len(s) = Len(w.link[l].listeners) + 1
  <2>1. IsInjective(w.link[l].listeners)
    BY <1>1 DEF Wired
  <2> QED BY <1>2, <1>7, <1>8, <2>1, LongerLine, AppendProperties
<1>10. PICK k : k = addVehicleReference(w.link[l], v)
  OBVIOUS
<1>11. /\ k \in LinkType /\ k.state = w.link[l].state /\ k.refs = w.link[l].refs + 1 /\ k.listeners = s
  <2>1. w.link[l].refs + 1 \in Nat
    BY <1>2
  <2> QED BY <1>2, <1>7, <1>9, <1>10, <2>1 DEF LinkType, addVehicleReference
<1>12. PICK z : z = With(w, v, x, l, k, w.removed)
  OBVIOUS
<1>13. _addLink(w, v, l) = z
  <2>1. _addLink(w, v, l) = [w EXCEPT !.m[v] = x, !.link[l] = k]
    BY <1>3, <1>5, <1>10 DEF _addLink
  <2> QED BY <1>1, <1>12, <2>1, EqualsWith
<1>14. /\ z \in World /\ z.m[v] = x /\ OthersKept(w, z, v) /\ z.removed = w.removed
       /\ z.link[l] = k /\ \A j \in Links \ {l} : z.link[j] = w.link[j]
  BY <1>1, <1>2, <1>6, <1>11, <1>12, WithIs
<1>15. Sound(z)
  <2>1. Len(w.link[l].listeners) <= w.link[l].refs
    BY <1>1 DEF Wired
  <2>2. Len(k.listeners) <= k.refs
    BY <1>2, <1>9, <1>11, <2>1
  <2>3. ListedLinks(x) \ {l} = ListedLinks(w.m[v]) \ {l} /\ l \in ListedLinks(x)
    BY <1>6
  <2>4. Range(k.listeners) = (Range(w.link[l].listeners) \ {v}) \cup (IF l \in ListedLinks(x) THEN {v} ELSE {})
    BY <1>8, <1>9, <1>11, <2>3
  <2>5. IsInjective(k.listeners)
    BY <1>9, <1>11
  <2> QED BY <1>2, <1>6, <1>11, <1>12, <2>2, <2>3, <2>4, <2>5, SoundAgain
<1>16. k.refs + Len(w.link[l].listeners) = w.link[l].refs + Len(k.listeners)
  <2>1. PICK n \in Nat, r \in Nat : n = Len(w.link[l].listeners) /\ r = w.link[l].refs
    BY <1>2
  <2>2. k.refs = r + 1 /\ Len(k.listeners) = n + 1
    BY <1>9, <1>11, <2>1
  <2>3. (r + 1) + n = r + (n + 1)
    OBVIOUS
  <2>4. k.refs + Len(w.link[l].listeners) = (r + 1) + n
    BY <2>1, <2>2
  <2>5. w.link[l].refs + Len(k.listeners) = r + (n + 1)
    BY <2>1, <2>2
  <2> QED BY <2>3, <2>4, <2>5
<1>17. \A j \in Links : /\ z.link[j].refs + Len(w.link[j].listeners) = w.link[j].refs + Len(z.link[j].listeners)
                        /\ z.link[j].state = w.link[j].state
  BY <1>1, <1>11, <1>14, <1>16, WorldParts
<1> QED BY <1>6, <1>13, <1>14, <1>15, <1>17 DEF SameBooks, Opens

LEMMA RemoveLinkIs ==
    ASSUME NEW w, Sound(w), NEW v \in Vehicles, NEW l \in Links
    PROVE  LET z == _removeLink(w, v, l)
           IN  /\ Sound(z) /\ OthersKept(w, z, v) /\ SameBooks(w, z) /\ Closes(w, z)
               /\ z.removed = w.removed /\ z.m[v].signalled = w.m[v].signalled
               /\ ListedLinks(z.m[v]) = ListedLinks(w.m[v]) \ {l}
<1>1. w \in World /\ Wired(w) /\ Tidy(w.m[v])
  BY DEF Sound
<1>2. /\ w.m \in [Vehicles -> ManagerType] /\ w.link \in [Links -> LinkType] /\ w.removed \in Seq(Vehicles)
      /\ w.link[l] \in LinkType /\ w.link[l].refs \in Nat /\ w.link[l].listeners \in Seq(Vehicles)
      /\ Len(w.link[l].listeners) \in Nat /\ w.m[v] \in ManagerType
  BY <1>1, WorldParts
<1>3. CASE l \notin ListedLinks(w.m[v])
  <2>1. _removeLink(w, v, l) = w
    BY <1>3 DEF _removeLink
  <2>2. SameBooks(w, w) /\ Closes(w, w) /\ OthersKept(w, w, v)
    BY DEF SameBooks, Closes, OthersKept
  <2> QED BY <1>3, <2>1, <2>2
<1>4. CASE l \in ListedLinks(w.m[v])
  <2>1. PICK x : x = Without(w.m[v], l)
    OBVIOUS
  <2>2. /\ x \in ManagerType /\ Tidy(x) /\ ListedLinks(x) = ListedLinks(w.m[v]) \ {l}
        /\ x.signalled = w.m[v].signalled
    BY <1>1, <1>2, <1>4, <2>1, DroppedIs
  <2>3. PICK s : s = RemoveFirst(w.link[l].listeners, v)
    OBVIOUS
  <2>4. v \in Range(w.link[l].listeners) /\ IsInjective(w.link[l].listeners)
        /\ Len(w.link[l].listeners) <= w.link[l].refs
    BY <1>1, <1>4 DEF Wired
  <2>5. /\ s \in Seq(Vehicles) /\ IsInjective(s) /\ Range(s) = Range(w.link[l].listeners) \ {v}
        /\ Len(s) = Len(w.link[l].listeners) - 1
    BY <1>2, <2>3, <2>4, WithoutFirst
  <2>6. PICK n \in Nat, r \in Nat : n = Len(s) /\ r = w.link[l].refs - 1 /\ n <= r
    <3>1. Len(s) \in Nat
      BY <2>5, LenProperties
    <3>2. w.link[l].refs - 1 \in Nat /\ Len(s) <= w.link[l].refs - 1
      BY <1>2, <2>4, <2>5, <3>1
    <3> QED BY <3>1, <3>2
  <2>7. PICK u : u = Unheard(w.link[l], v)
    OBVIOUS
  <2>8. u \in LinkType /\ u.state = w.link[l].state /\ u.refs = w.link[l].refs /\ u.listeners = s
    BY <1>2, <2>3, <2>5, <2>7 DEF LinkType, Unheard
  <2>9. PICK k : k = removeVehicleReference(u)
    OBVIOUS
  <2>10. /\ k.refs = r /\ k.listeners = s
         /\ k.state = IF r = 0 /\ u.state = "up" THEN "closing" ELSE u.state
         /\ k \in LinkType
    <3>1. k = [u EXCEPT !.refs = r, !.state = IF r = 0 /\ @ = "up" THEN "closing" ELSE @]
      BY <2>6, <2>8, <2>9 DEF removeVehicleReference
    <3> QED BY <2>8, <3>1 DEF LinkType
  <2>11. PICK z : z = With(w, v, x, l, k, w.removed)
    OBVIOUS
  <2>12. _removeLink(w, v, l) = z
    <3>1. _removeLink(w, v, l) = [w EXCEPT !.m[v] = x, !.link[l] = k]
      BY <1>4, <2>1, <2>7, <2>9 DEF _removeLink
    <3> QED BY <1>1, <2>11, <3>1, EqualsWith
  <2>13. /\ z \in World /\ z.m[v] = x /\ OthersKept(w, z, v) /\ z.removed = w.removed
         /\ z.link[l] = k /\ \A j \in Links \ {l} : z.link[j] = w.link[j]
    BY <1>1, <1>2, <2>2, <2>10, <2>11, WithIs
  <2>14. Sound(z)
    <3>1. Len(k.listeners) <= k.refs
      BY <2>6, <2>10
    <3>2. ListedLinks(x) \ {l} = ListedLinks(w.m[v]) \ {l} /\ l \notin ListedLinks(x)
      BY <2>2
    <3>3. Range(k.listeners) = (Range(w.link[l].listeners) \ {v}) \cup (IF l \in ListedLinks(x) THEN {v} ELSE {})
      BY <2>5, <2>10, <3>2
    <3>4. IsInjective(k.listeners)
      BY <2>5, <2>10
    <3> QED BY <1>2, <2>2, <2>10, <2>11, <3>1, <3>2, <3>3, <3>4, SoundAgain
  <2>15. k.refs + Len(w.link[l].listeners) = w.link[l].refs + Len(k.listeners)
    <3>1. Len(w.link[l].listeners) = n + 1 /\ w.link[l].refs = r + 1
      BY <1>2, <2>5, <2>6
    <3>2. k.refs = r /\ Len(k.listeners) = n
      BY <2>6, <2>10
    <3> QED BY <3>1, <3>2
  <2>16. SameBooks(w, z)
    <3>1. \A j \in Links : z.link[j].refs + Len(w.link[j].listeners) = w.link[j].refs + Len(z.link[j].listeners)
      BY <1>1, <2>13, <2>15, WorldParts
    <3> QED BY <3>1 DEF SameBooks
  <2>17. Closes(w, z)
    <3>1. r = 0 => s = <<>>
      BY <2>5, <2>6, EmptySeq
    <3>2. ASSUME NEW j \in Links
          PROVE  /\ Range(z.link[j].listeners) \subseteq Range(w.link[j].listeners)
                 /\ \/ z.link[j].state = w.link[j].state
                    \/ w.link[j].state = "up" /\ z.link[j].state = "closing" /\ z.link[j].listeners = <<>>
      <4>1. CASE j = l
        BY <2>5, <2>8, <2>10, <2>13, <3>1, <4>1
      <4>2. CASE j # l
        BY <2>13, <4>2
      <4> QED BY <4>1, <4>2
    <3> QED BY <3>2 DEF Closes
  <2> QED BY <2>2, <2>12, <2>13, <2>14, <2>16, <2>17
<1> QED BY <1>3, <1>4

-----------------------------------------------------------------------------
(* The handlers of one vehicle.                                            *)

Changed(w, v, x) == [w EXCEPT !.m[v] = x]
Signals(w, v) == [w EXCEPT !.removed = Append(@, v)]

LEMMA ManagerChanges ==
    ASSUME NEW w, Sound(w), NEW v \in Vehicles, NEW x \in ManagerType, Tidy(x),
           ListedLinks(x) = ListedLinks(w.m[v])
    PROVE  LET z == Changed(w, v, x)
           IN  /\ Sound(z) /\ z.m[v] = x /\ OthersKept(w, z, v) /\ z.link = w.link /\ z.removed = w.removed
               /\ SameBooks(w, z) /\ Opens(w, z) /\ Closes(w, z)
<1> PICK z : z = Changed(w, v, x)
  OBVIOUS
<1>1. w \in World /\ Wired(w) /\ \A u \in Vehicles : Tidy(w.m[u])
  BY DEF Sound
<1>2. PICK a \in [Vehicles -> ManagerType], b \in [Links -> LinkType], c \in Seq(Vehicles) :
         w = [m |-> a, link |-> b, removed |-> c]
  BY <1>1, WorldParts
<1>3. PICK d : d = [a EXCEPT ![v] = x]
  OBVIOUS
<1>4. z = [m |-> d, link |-> b, removed |-> c]
  BY <1>2, <1>3 DEF Changed
<1>5. d \in [Vehicles -> ManagerType] /\ d[v] = x /\ \A u \in Vehicles \ {v} : d[u] = a[u]
  BY <1>2, <1>3
<1>6. z \in World /\ z.m[v] = x /\ OthersKept(w, z, v) /\ z.link = w.link /\ z.removed = w.removed
  BY <1>2, <1>4, <1>5 DEF World, OthersKept
<1>7. \A u \in Vehicles : Tidy(z.m[u]) /\ ListedLinks(z.m[u]) = ListedLinks(w.m[u])
  BY <1>1, <1>6 DEF OthersKept
<1>8. Wired(z)
  BY <1>1, <1>6, <1>7 DEF Wired
<1>9. SameBooks(w, z) /\ Opens(w, z) /\ Closes(w, z)
  BY <1>6 DEF SameBooks, Opens, Closes
<1> QED BY <1>6, <1>7, <1>8, <1>9 DEF Sound

LEMMA SignalSent ==
    ASSUME NEW w, Sound(w), NEW v \in Vehicles
    PROVE  LET z == Signals(w, v)
           IN  Sound(z) /\ z.m = w.m /\ z.link = w.link /\ Range(z.removed) = Range(w.removed) \cup {v}
<1> PICK z : z = Signals(w, v)
  OBVIOUS
<1>1. w \in World /\ Wired(w) /\ \A u \in Vehicles : Tidy(w.m[u])
  BY DEF Sound
<1>2. PICK a \in [Vehicles -> ManagerType], b \in [Links -> LinkType], c \in Seq(Vehicles) :
         w = [m |-> a, link |-> b, removed |-> c]
  BY <1>1, WorldParts
<1>3. PICK d : d = Append(c, v)
  OBVIOUS
<1>4. z = [m |-> a, link |-> b, removed |-> d]
  BY <1>2, <1>3 DEF Signals
<1>5. /\ d \in Seq(Vehicles) /\ Len(d) = Len(c) + 1 /\ d[Len(c) + 1] = v /\ Len(c) \in Nat
      /\ \A i \in 1..Len(c) : d[i] = c[i]
  BY <1>2, <1>3, AppendProperties, LenProperties
<1>6. Range(d) = Range(c) \cup {v}
  <2>1. \A x : x \in Range(c) <=> \E i \in 1..Len(c) : c[i] = x
    BY <1>2, RangeIs
  <2>2. \A x : x \in Range(d) <=> \E i \in 1..(Len(c) + 1) : d[i] = x
    BY <1>5, RangeIs
  <2>3. \A i \in 1..(Len(c) + 1) : i \in 1..Len(c) \/ i = Len(c) + 1
    BY <1>5
  <2>4. Len(c) + 1 \in 1..(Len(c) + 1) /\ \A i \in 1..Len(c) : i \in 1..(Len(c) + 1)
    BY <1>5
  <2> QED BY <1>5, <2>1, <2>2, <2>3, <2>4
<1>7. z \in World
  BY <1>2, <1>4, <1>5 DEF World
<1>8. w.m = a /\ w.link = b /\ w.removed = c
  BY <1>2
<1>9. z.m = a /\ z.link = b /\ z.removed = d
  BY <1>4
<1>10. Wired(z) /\ \A u \in Vehicles : Tidy(z.m[u])
  BY <1>1, <1>8, <1>9 DEF Wired
<1> QED BY <1>6, <1>7, <1>8, <1>9, <1>10 DEF Sound

LEMMA BooksOnward ==
    ASSUME NEW a \in World, NEW b \in World, NEW c \in World, SameBooks(a, b), SameBooks(b, c)
    PROVE  SameBooks(a, c)
<1>1. ASSUME NEW l \in Links
      PROVE  c.link[l].refs + Len(a.link[l].listeners) = a.link[l].refs + Len(c.link[l].listeners)
  <2>1. PICK ra \in Nat, rb \in Nat, rc \in Nat, na \in Nat, nb \in Nat, nc \in Nat :
           /\ a.link[l].refs = ra /\ b.link[l].refs = rb /\ c.link[l].refs = rc
           /\ Len(a.link[l].listeners) = na /\ Len(b.link[l].listeners) = nb /\ Len(c.link[l].listeners) = nc
    BY WorldParts
  <2>2. rb + na = ra + nb /\ rc + nb = rb + nc
    BY <2>1 DEF SameBooks
  <2>3. rc + na = ra + nc
    BY <2>2
  <2> QED BY <2>1, <2>3
<1> QED BY <1>1 DEF SameBooks

(* What a sequence of removals leaves.                                     *)
LEMMA ClosesOnward ==
    ASSUME NEW a \in World, NEW b \in World, NEW c \in World, Closes(a, b), Closes(b, c)
    PROVE  Closes(a, c)
<1>1. ASSUME NEW l \in Links
      PROVE  /\ Range(c.link[l].listeners) \subseteq Range(a.link[l].listeners)
             /\ \/ c.link[l].state = a.link[l].state
                \/ a.link[l].state = "up" /\ c.link[l].state = "closing" /\ c.link[l].listeners = <<>>
  <2>1. Range(c.link[l].listeners) \subseteq Range(b.link[l].listeners)
    BY DEF Closes
  <2>2. c.link[l].listeners \in Seq(Vehicles)
    BY WorldParts
  <2>3. b.link[l].listeners = <<>> => c.link[l].listeners = <<>>
    <3> SUFFICES ASSUME b.link[l].listeners = <<>>, c.link[l].listeners # <<>> PROVE FALSE
      OBVIOUS
    <3>1. Range(c.link[l].listeners) # {}
      <4>1. PICK s \in Seq(Vehicles) : s = c.link[l].listeners
        BY <2>2
      <4>2. Len(s) \in Nat /\ Len(s) # 0
        BY <4>1, EmptySeq, LenProperties
      <4>3. s[1] \in Range(s)
        BY <4>2, RangeIs
      <4> QED BY <4>1, <4>3
    <3>2. Range(<<>>) = {}
      BY DEF Range
    <3> QED BY <2>1, <3>1, <3>2
  <2>4. b.link[l].state = a.link[l].state
        \/ (a.link[l].state = "up" /\ b.link[l].state = "closing" /\ b.link[l].listeners = <<>>)
    BY DEF Closes
  <2>5. c.link[l].state = b.link[l].state
        \/ (b.link[l].state = "up" /\ c.link[l].state = "closing" /\ c.link[l].listeners = <<>>)
    BY DEF Closes
  <2>6. Range(b.link[l].listeners) \subseteq Range(a.link[l].listeners)
    BY DEF Closes
  <2> QED BY <2>1, <2>3, <2>4, <2>5, <2>6
<1> QED BY <1>1 DEF Closes

LEMMA LinkDisconnectedIs ==
    ASSUME NEW w, Sound(w), NEW v \in Vehicles, NEW l \in Links
    PROVE  LET z == _linkDisconnected(w, v, l)
           IN  /\ Sound(z) /\ Usable(z.m[v]) /\ OthersKept(w, z, v) /\ SameBooks(w, z) /\ Closes(w, z)
               /\ ListedLinks(z.m[v]) = ListedLinks(w.m[v]) \ {l}
               /\ Range(w.removed) \subseteq Range(z.removed)
               /\ Leaving(z.m[v]) => v \in Range(z.removed) \/ Leaving(w.m[v])
<1>1. PICK a : a = _removeLink(w, v, l)
  OBVIOUS
<1>2. /\ Sound(a) /\ OthersKept(w, a, v) /\ SameBooks(w, a) /\ Closes(w, a)
      /\ a.removed = w.removed /\ a.m[v].signalled = w.m[v].signalled
      /\ ListedLinks(a.m[v]) = ListedLinks(w.m[v]) \ {l}
  BY <1>1, RemoveLinkIs
<1>3. a \in World /\ w \in World /\ a.m[v] \in ManagerType /\ Tidy(a.m[v])
  BY <1>2, WorldParts DEF Sound
<1>4. PICK x : x = _updatePrimaryLink(a.m[v])
  OBVIOUS
<1>5. /\ x \in ManagerType /\ Tidy(x) /\ Usable(x)
      /\ x.rgLinkInfo = a.m[v].rgLinkInfo /\ x.signalled = a.m[v].signalled
  BY <1>3, <1>4, UpdateIs
<1>6. ListedLinks(x) = ListedLinks(a.m[v])
  BY <1>5 DEF ListedLinks
<1>7. PICK b : b = Changed(a, v, x)
  OBVIOUS
<1>8. /\ Sound(b) /\ b.m[v] = x /\ OthersKept(a, b, v) /\ b.link = a.link /\ b.removed = a.removed
  BY <1>2, <1>5, <1>6, <1>7, ManagerChanges
<1>9. PICK z : z = _linkDisconnected(w, v, l)
  OBVIOUS
<1>10. z = IF x.rgLinkInfo = <<>> /\ ~x.signalled THEN Signals(b, v) ELSE b
  <2>1. b = [a EXCEPT !.m[v] = _updatePrimaryLink(@)]
    BY <1>4, <1>7 DEF Changed
  <2>2. z = IF b.m[v].rgLinkInfo = <<>> /\ ~b.m[v].signalled THEN [b EXCEPT !.removed = Append(@, v)] ELSE b
    BY <1>1, <1>9, <2>1 DEF _linkDisconnected
  <2> QED BY <1>8, <2>2 DEF Signals
<1>11. /\ Sound(z) /\ z.m = b.m /\ z.link = b.link /\ Range(b.removed) \subseteq Range(z.removed)
       /\ x.rgLinkInfo = <<>> /\ ~x.signalled => v \in Range(z.removed)
  <2>1. CASE x.rgLinkInfo = <<>> /\ ~x.signalled
    <3>1. z = Signals(b, v)
      BY <1>10, <2>1
    <3>2. Sound(z) /\ z.m = b.m /\ z.link = b.link /\ Range(z.removed) = Range(b.removed) \cup {v}
      BY <1>8, <3>1, SignalSent
    <3> QED BY <3>2
  <2>2. CASE ~(x.rgLinkInfo = <<>> /\ ~x.signalled)
    BY <1>8, <1>10, <2>2
  <2> QED BY <2>1, <2>2
<1>12. OthersKept(w, z, v)
  BY <1>2, <1>8, <1>11 DEF OthersKept
<1>13. SameBooks(w, z) /\ Closes(w, z)
  BY <1>2, <1>8, <1>11 DEF SameBooks, Closes
<1>14. Leaving(z.m[v]) => v \in Range(z.removed) \/ Leaving(w.m[v])
  BY <1>2, <1>5, <1>8, <1>11 DEF Leaving
<1> QED BY <1>2, <1>5, <1>6, <1>8, <1>9, <1>11, <1>12, <1>13, <1>14

(* The link a vehicle is taken off, and what stays.                        *)
Removes(w, z, v, l) ==
    /\ Sound(z) /\ OthersKept(w, z, v) /\ SameBooks(w, z) /\ Closes(w, z)
    /\ z.removed = w.removed /\ ListedLinks(z.m[v]) = ListedLinks(w.m[v]) \ {l}

LEMMA RemovesLink ==
    ASSUME NEW w, Sound(w), NEW v \in Vehicles, NEW l \in Links
    PROVE  Removes(w, _removeLink(w, v, l), v, l)
<1>1. PICK z : z = _removeLink(w, v, l)
  OBVIOUS
<1>2. /\ Sound(z) /\ OthersKept(w, z, v) /\ SameBooks(w, z) /\ Closes(w, z)
      /\ z.removed = w.removed /\ ListedLinks(z.m[v]) = ListedLinks(w.m[v]) \ {l}
  BY <1>1, RemoveLinkIs
<1> QED BY <1>1, <1>2 DEF Removes

LEMMA CloseVehicleIs ==
    ASSUME NEW w, Sound(w), NEW v \in Vehicles
    PROVE  LET z == closeVehicle(w, v)
           IN  /\ Sound(z) /\ Usable(z.m[v]) /\ OthersKept(w, z, v) /\ SameBooks(w, z) /\ Closes(w, z)
               /\ v \in Range(z.removed) /\ Range(w.removed) \subseteq Range(z.removed)
<1> DEFINE links == w.m[v].rgLinkInfo
           without[i \in 0..Len(links)] == IF i = 0 THEN w ELSE _removeLink(without[i - 1], v, links[i].link)
           n == Len(links)
           S == {x \in World : Sound(x)}
<1>1. w \in World /\ w \in S /\ w.m[v] \in ManagerType /\ Tidy(w.m[v])
  BY WorldParts DEF Sound
<1>2. n \in Nat /\ DOMAIN links = 1..n /\ \A i \in 1..n : links[i].link \in Links
  BY <1>1, ListIs DEF LinkInfo
<1>3. without = CHOOSE f : f = [i \in 0..n |-> IF i = 0 THEN w ELSE _removeLink(f[i - 1], v, links[i].link)]
  BY DEF without
<1> HIDE DEF without
<1>0. ASSUME NEW a, Sound(a), NEW l \in Links PROVE Removes(a, _removeLink(a, v, l), v, l)
  BY <1>0, RemovesLink
<1>4. \A x \in S, i \in 1..n : _removeLink(x, v, links[i].link) \in S
  BY <1>2, RemoveLinkIs DEF Sound
<1>5. /\ without[0] = w
      /\ \A i \in 1..n : without[i] = _removeLink(without[i - 1], v, links[i].link)
  <2> DEFINE step == [pair \in (1..n) \X S |-> _removeLink(pair[2], v, links[pair[1]].link)]
  <2>1. step \in [(1..n) \X S -> S]
    BY <1>4
  <2>2. \A i \in 1..n, x \in S : step[<<i, x>>] = _removeLink(x, v, links[i].link)
    OBVIOUS
  <2> HIDE DEF step, S, n
  <2>3. PICK f \in [0..n -> S] : f[0] = w /\ \A i \in 1..n : f[i] = step[<<i, f[i - 1]>>]
    <3>1. \E f : Runs(f, S, w, n, step)
      BY <1>1, <1>2, <2>1, LoopRuns
    <3> QED BY <3>1 DEF Runs
  <2>4. \A i \in 1..n : i - 1 \in 0..n /\ f[i - 1] \in S
    BY <1>2, <2>3
  <2>5. \A i \in 1..n : f[i] = _removeLink(f[i - 1], v, links[i].link)
    BY <2>2, <2>3, <2>4
  <2>6. f = [i \in 0..n |-> IF i = 0 THEN w ELSE _removeLink(f[i - 1], v, links[i].link)]
    BY <1>2, <2>3, <2>5
  <2>7. without = [i \in 0..n |-> IF i = 0 THEN w ELSE _removeLink(without[i - 1], v, links[i].link)]
    BY <1>3, <2>6
  <2>8. 0 \in 0..n
    BY <1>2
  <2>9. without[0] = w
    BY <2>7, <2>8
  <2>10. ASSUME NEW i \in 1..n PROVE without[i] = _removeLink(without[i - 1], v, links[i].link)
    <3>1. i \in 0..n /\ i # 0
      BY <1>2
    <3> QED BY <2>7, <3>1
  <2> QED BY <2>9, <2>10
<1> DEFINE Left(i) == ListedLinks(w.m[v]) \ {links[j].link : j \in 1..i}
           Holds(a, i) == /\ Sound(a) /\ OthersKept(w, a, v) /\ SameBooks(w, a) /\ Closes(w, a)
                          /\ a.removed = w.removed /\ ListedLinks(a.m[v]) = Left(i)
           T == {i \in 0..n : Holds(without[i], i)}
<1>6. 0 \in T
  <2>1. 0 \in 0..n /\ 1..0 = {}
    BY <1>2
  <2>2. OthersKept(w, w, v) /\ SameBooks(w, w) /\ Closes(w, w)
    BY DEF OthersKept, SameBooks, Closes
  <2> QED BY <1>5, <2>1, <2>2
<1>7. ASSUME NEW i \in 1..n, i - 1 \in T PROVE i \in T
  <2>1. PICK a : a = without[i - 1]
    OBVIOUS
  <2>2. PICK b : b = without[i]
    OBVIOUS
  <2>3. Holds(a, i - 1) /\ links[i].link \in Links /\ i \in 0..n
    BY <1>2, <1>7, <2>1
  <2>4. b = _removeLink(a, v, links[i].link)
    BY <1>5, <2>1, <2>2
  <2>5. /\ Sound(b) /\ OthersKept(a, b, v) /\ SameBooks(a, b) /\ Closes(a, b)
        /\ b.removed = a.removed /\ ListedLinks(b.m[v]) = ListedLinks(a.m[v]) \ {links[i].link}
    <3>1. PICK l \in Links : l = links[i].link
      BY <2>3
    <3>2. Sound(a)
      BY <2>3
    <3> HIDE DEF links, n, S, Left, Holds, T
    <3>3. /\ Sound(b) /\ OthersKept(a, b, v) /\ SameBooks(a, b) /\ Closes(a, b)
          /\ b.removed = a.removed /\ ListedLinks(b.m[v]) = ListedLinks(a.m[v]) \ {l}
      <4>1. b = _removeLink(a, v, l)
        BY <2>4, <3>1
      <4>2. Removes(a, b, v, l)
        BY <1>0, <3>2, <4>1
      <4> QED BY <4>2 DEF Removes
    <3> QED BY <3>1, <3>3
  <2>6. SameBooks(w, b) /\ Closes(w, b)
    <3>1. a \in World /\ b \in World
      BY <2>3, <2>5 DEF Sound
    <3> QED BY <1>1, <2>3, <2>5, <3>1, ClosesOnward, BooksOnward
  <2>7. OthersKept(w, b, v)
    BY <2>3, <2>5 DEF OthersKept
  <2>8. Left(i) = Left(i - 1) \ {links[i].link}
    <3>1. \A j : j \in 1..i <=> j \in 1..(i - 1) \/ j = i
      OBVIOUS
    <3> QED BY <3>1
  <2>9. Holds(b, i)
    BY <2>3, <2>5, <2>6, <2>7, <2>8
  <2> QED BY <2>2, <2>3, <2>9
<1> HIDE DEF T, n, Holds, Left, S
<1>8. n \in T
  <2>1. n \in Nat /\ n \in 0..n
    BY <1>2
  <2>2. \A k \in 1..n : k - 1 \in T => k \in T
    BY <1>7
  <2>3. \A k \in 0..n : k \in T
    BY <1>6, <2>1, <2>2, LoopInduction
  <2> QED BY <2>1, <2>3
<1>9. PICK a : a = without[n]
  OBVIOUS
<1>10. Holds(a, n) /\ Left(n) = {}
  <2>1. Left(n) = {}
    BY <1>2 DEF ListedLinks, Left
  <2> QED BY <1>8, <1>9, <2>1 DEF T
<1>11. /\ Sound(a) /\ OthersKept(w, a, v) /\ SameBooks(w, a) /\ Closes(w, a) /\ a.removed = w.removed
       /\ ListedLinks(a.m[v]) = {}
  BY <1>10 DEF Holds
<1>12. PICK x : x = [a.m[v] EXCEPT !.signalled = TRUE]
  OBVIOUS
<1>13. a \in World /\ a.m[v] \in ManagerType /\ Tidy(a.m[v])
  BY <1>11, WorldParts DEF Sound
<1>14. /\ x \in ManagerType /\ x.rgLinkInfo = a.m[v].rgLinkInfo /\ x.primary = a.m[v].primary
  BY <1>12, <1>13 DEF ManagerType
<1>15. ListedLinks(x) = ListedLinks(a.m[v]) /\ LostLinks(x) = LostLinks(a.m[v])
  BY <1>14 DEF ListedLinks, LostLinks
<1>16. Tidy(x) /\ Usable(x)
  <2>1. Tidy(x)
    BY <1>13, <1>14, <1>15 DEF Tidy
  <2>2. LiveLinks(x) = {}
    BY <1>11, <1>15 DEF LiveLinks
  <2> QED BY <2>1, <2>2 DEF Usable
<1>17. PICK b : b = Changed(a, v, x)
  OBVIOUS
<1>18. /\ Sound(b) /\ b.m[v] = x /\ OthersKept(a, b, v) /\ b.link = a.link /\ b.removed = a.removed
  BY <1>11, <1>14, <1>15, <1>16, <1>17, ManagerChanges
<1>19. PICK z : z = Signals(b, v)
  OBVIOUS
<1>20. Sound(z) /\ z.m = b.m /\ z.link = b.link /\ Range(z.removed) = Range(b.removed) \cup {v}
  BY <1>18, <1>19, SignalSent
<1>21. closeVehicle(w, v) = z
  <2>1. closeVehicle(w, v) = [without[n] EXCEPT !.m[v].signalled = TRUE, !.removed = Append(@, v)]
    BY DEF closeVehicle, without, n
  <2>2. closeVehicle(w, v) = [a EXCEPT !.m[v] = x, !.removed = Append(@, v)]
    BY <1>9, <1>12, <2>1
  <2>3. [a EXCEPT !.m[v] = x, !.removed = Append(@, v)] = z
    BY <1>13, <1>17, <1>19 DEF World, Changed, Signals
  <2> QED BY <2>2, <2>3
<1>22. OthersKept(w, z, v) /\ SameBooks(w, z) /\ Closes(w, z)
  BY <1>11, <1>18, <1>20 DEF OthersKept, SameBooks, Closes
<1> QED BY <1>11, <1>16, <1>18, <1>20, <1>21, <1>22

-----------------------------------------------------------------------------
(* What every handler keeps, where A are the vehicles it may change.       *)

Progress(w, z, A) ==
    /\ Sound(z) /\ SameBooks(w, z) /\ Range(w.removed) \subseteq Range(z.removed)
    /\ \A v \in Vehicles : /\ Usable(w.m[v]) => Usable(z.m[v])
                           /\ Leaving(z.m[v]) => v \in Range(z.removed) \/ Leaving(w.m[v])
                           /\ v \notin A => z.m[v] = w.m[v]

LEMMA ProgressStart ==
    ASSUME NEW w, Sound(w), NEW A
    PROVE  Progress(w, w, A) /\ Opens(w, w) /\ Closes(w, w)
BY DEF Progress, SameBooks, Opens, Closes

LEMMA ProgressOnward ==
    ASSUME NEW a, NEW b, NEW c, NEW A, Sound(a), Progress(a, b, A), Progress(b, c, A)
    PROVE  Progress(a, c, A)
<1>1. a \in World /\ b \in World /\ c \in World
  BY DEF Progress, Sound
<1>2. SameBooks(a, c)
  BY <1>1, BooksOnward DEF Progress
<1> QED BY <1>2 DEF Progress

LEMMA ProgressOfOne ==
    ASSUME NEW w, Sound(w), NEW z, Sound(z), NEW v \in Vehicles, NEW A, v \in A, OthersKept(w, z, v),
           SameBooks(w, z), Range(w.removed) \subseteq Range(z.removed), Usable(z.m[v]),
           Leaving(z.m[v]) => v \in Range(z.removed) \/ Leaving(w.m[v])
    PROVE  Progress(w, z, A)
<1>1. \A u \in Vehicles \ {v} : z.m[u] = w.m[u]
  BY DEF OthersKept
<1>2. ASSUME NEW u \in Vehicles
      PROVE  /\ Usable(w.m[u]) => Usable(z.m[u])
             /\ Leaving(z.m[u]) => u \in Range(z.removed) \/ Leaving(w.m[u])
             /\ u \notin A => z.m[u] = w.m[u]
  BY <1>1
<1> QED BY <1>2 DEF Progress

(* A change of one manager that keeps its links.                           *)
LEMMA ChangeProgresses ==
    ASSUME NEW w, Sound(w), NEW v \in Vehicles, NEW A, v \in A, NEW x \in ManagerType, Tidy(x), Usable(x),
           ListedLinks(x) = ListedLinks(w.m[v]), x.signalled = w.m[v].signalled
    PROVE  LET z == Changed(w, v, x)
           IN  /\ Progress(w, z, A) /\ z.m[v] = x /\ OthersKept(w, z, v)
               /\ z.link = w.link /\ Opens(w, z) /\ Closes(w, z)
<1>1. PICK z : z = Changed(w, v, x)
  OBVIOUS
<1>2. /\ Sound(z) /\ z.m[v] = x /\ OthersKept(w, z, v) /\ z.link = w.link /\ z.removed = w.removed
      /\ SameBooks(w, z) /\ Opens(w, z) /\ Closes(w, z)
  BY <1>1, ManagerChanges
<1>3. w.m[v] \in ManagerType
  BY WorldParts DEF Sound
<1>4. Leaving(x) => Leaving(w.m[v])
  BY <1>3, ListIs DEF Leaving
<1>5. Usable(z.m[v]) /\ (Leaving(z.m[v]) => v \in Range(z.removed) \/ Leaving(w.m[v]))
  BY <1>2, <1>4
<1>6. Range(w.removed) \subseteq Range(z.removed)
  BY <1>2
<1>7. Progress(w, z, A)
  BY <1>2, <1>5, <1>6, ProgressOfOne
<1> QED BY <1>1, <1>2, <1>7

LEMMA ClosingProgresses ==
    ASSUME NEW w, Sound(w), NEW v \in Vehicles, NEW A, v \in A
    PROVE  Progress(w, closeVehicle(w, v), A) /\ Closes(w, closeVehicle(w, v))
<1>1. PICK z : z = closeVehicle(w, v)
  OBVIOUS
<1>2. /\ Sound(z) /\ Usable(z.m[v]) /\ OthersKept(w, z, v) /\ SameBooks(w, z) /\ Closes(w, z)
      /\ v \in Range(z.removed) /\ Range(w.removed) \subseteq Range(z.removed)
  BY <1>1, CloseVehicleIs
<1>3. Progress(w, z, A)
  BY <1>2, ProgressOfOne
<1> QED BY <1>1, <1>2, <1>3

LEMMA TellingProgresses ==
    ASSUME NEW w, Sound(w), NEW v \in Vehicles, NEW l \in Links, NEW A, v \in A
    PROVE  LET z == _linkDisconnected(w, v, l)
           IN  /\ Progress(w, z, A) /\ Closes(w, z) /\ OthersKept(w, z, v)
               /\ ListedLinks(z.m[v]) = ListedLinks(w.m[v]) \ {l}
<1>1. PICK z : z = _linkDisconnected(w, v, l)
  OBVIOUS
<1>2. /\ Sound(z) /\ Usable(z.m[v]) /\ OthersKept(w, z, v) /\ SameBooks(w, z) /\ Closes(w, z)
      /\ ListedLinks(z.m[v]) = ListedLinks(w.m[v]) \ {l}
      /\ Range(w.removed) \subseteq Range(z.removed)
      /\ Leaving(z.m[v]) => v \in Range(z.removed) \/ Leaving(w.m[v])
  BY <1>1, LinkDisconnectedIs
<1>3. Progress(w, z, A)
  BY <1>2, ProgressOfOne
<1> QED BY <1>1, <1>2, <1>3

LEMMA CheckProgresses ==
    ASSUME NEW w, Sound(w), NEW v \in Vehicles, NEW A, v \in A, NEW silent
    PROVE  Progress(w, _commLostCheck(w, v, silent), A) /\ Closes(w, _commLostCheck(w, v, silent))
<1>1. w \in World /\ w.m[v] \in ManagerType /\ Tidy(w.m[v])
  BY WorldParts DEF Sound
<1>2. PICK y : y = Marked(w.m[v], silent \ HighLatency, TRUE)
  OBVIOUS
<1>3. y \in ManagerType /\ Tidy(y) /\ Alike(w.m[v], y)
  <2>1. (silent \ HighLatency) \cap HighLatency = {}
    OBVIOUS
  <2> QED BY <1>1, <1>2, <2>1, MarkedIs
<1>4. PICK x : x = _updatePrimaryLink(y)
  OBVIOUS
<1>5. x \in ManagerType /\ Tidy(x) /\ Usable(x) /\ x.rgLinkInfo = y.rgLinkInfo /\ x.signalled = y.signalled
  BY <1>3, <1>4, UpdateIs
<1>6. ListedLinks(x) = ListedLinks(w.m[v]) /\ x.signalled = w.m[v].signalled
  BY <1>3, <1>5 DEF ListedLinks, Alike
<1>7. PICK b : b = Changed(w, v, x)
  OBVIOUS
<1>8. /\ Progress(w, b, A) /\ b.m[v] = x /\ OthersKept(w, b, v)
      /\ b.link = w.link /\ Opens(w, b) /\ Closes(w, b)
  BY <1>1, <1>5, <1>6, <1>7, ChangeProgresses
<1>9. Sound(b) /\ b \in World
  BY <1>8 DEF Progress, Sound
<1>10. PICK c : c = closeVehicle(b, v)
  OBVIOUS
<1>11. Progress(w, c, A) /\ Closes(w, c)
  <2>1. Progress(b, c, A) /\ Closes(b, c)
    BY <1>9, <1>10, ClosingProgresses
  <2>2. c \in World
    BY <2>1 DEF Progress, Sound
  <2> QED BY <1>1, <1>8, <1>9, <2>1, <2>2, ProgressOnward, ClosesOnward
<1>12. PICK t : t = [x EXCEPT !.communicationLost = TRUE]
  OBVIOUS
<1>13. /\ t \in ManagerType /\ t.rgLinkInfo = x.rgLinkInfo /\ t.primary = x.primary /\ t.byUser = x.byUser
       /\ t.signalled = x.signalled
  BY <1>5, <1>12 DEF ManagerType
<1>14. ListedLinks(t) = ListedLinks(x) /\ LostLinks(t) = LostLinks(x)
  BY <1>13 DEF ListedLinks, LostLinks
<1>15. Tidy(t) /\ Usable(t)
  BY <1>5, <1>13, <1>14 DEF Tidy, Usable, LiveLinks
<1>16. PICK d : d = Changed(b, v, t)
  OBVIOUS
<1>17. Progress(w, d, A) /\ Closes(w, d)
  <2>1. ListedLinks(t) = ListedLinks(b.m[v]) /\ t.signalled = b.m[v].signalled
    BY <1>8, <1>13, <1>14
  <2>2. Progress(b, d, A) /\ Closes(b, d)
    BY <1>9, <1>13, <1>15, <1>16, <2>1, ChangeProgresses
  <2>3. d \in World
    BY <2>2 DEF Progress, Sound
  <2> QED BY <1>1, <1>8, <1>9, <2>2, <2>3, ProgressOnward, ClosesOnward
<1>18. _commLostCheck(w, v, silent) \in {w, b, c, d}
  <2>1. b = [w EXCEPT !.m[v] = _updatePrimaryLink(Marked(w.m[v], silent \ HighLatency, TRUE))]
    BY <1>2, <1>4, <1>7 DEF Changed
  <2>2. d = [b EXCEPT !.m[v].communicationLost = TRUE]
    BY <1>8, <1>12, <1>16 DEF Changed
  <2> QED BY <1>10, <2>1, <2>2 DEF _commLostCheck
<1> QED BY <1>8, <1>11, <1>17, <1>18, ProgressStart

(* A vehicle is heard on a link: nothing but that link is listed.          *)
Adds(w, z, l) == \A v \in Vehicles : ListedLinks(z.m[v]) \subseteq ListedLinks(w.m[v]) \cup {l}

LEMMA MessageProgresses ==
    ASSUME NEW w, Sound(w), NEW v \in Vehicles, NEW l \in Links, w.link[l].state # "gone", NEW A, v \in A
    PROVE  LET z == mavlinkMessageReceived(w, v, l)
           IN  Progress(w, z, A) /\ Opens(w, z) /\ Adds(w, z, l)
<1>1. w \in World /\ w.m[v] \in ManagerType /\ Tidy(w.m[v])
  BY WorldParts DEF Sound
<1>2. CASE l \notin ListedLinks(w.m[v])
  <2>1. PICK z : z = _addLink(w, v, l)
    OBVIOUS
  <2>2. /\ Sound(z) /\ Usable(z.m[v]) /\ OthersKept(w, z, v) /\ SameBooks(w, z) /\ Opens(w, z)
        /\ z.removed = w.removed /\ z.m[v].signalled = w.m[v].signalled
        /\ ListedLinks(z.m[v]) = ListedLinks(w.m[v]) \cup {l}
    BY <1>2, <2>1, AddLinkIs
  <2>3. z.m[v] \in ManagerType
    BY <2>2, WorldParts DEF Sound
  <2>4. Leaving(z.m[v]) => Leaving(w.m[v])
    BY <2>2, <2>3, ListIs DEF Leaving
  <2>5. Range(w.removed) \subseteq Range(z.removed)
    BY <2>2
  <2>6. Progress(w, z, A)
    BY <2>2, <2>4, <2>5, ProgressOfOne
  <2>7. Adds(w, z, l)
    BY <2>2 DEF Adds, OthersKept
  <2>8. mavlinkMessageReceived(w, v, l) = z
    BY <1>2, <2>1 DEF mavlinkMessageReceived
  <2> QED BY <2>2, <2>6, <2>7, <2>8
<1>3. CASE l \in LostLinks(w.m[v])
  <2>1. l \in ListedLinks(w.m[v])
    BY <1>1, <1>3, ListIs
  <2>2. PICK x : x = _commRegainedOnLink(w.m[v], l)
    OBVIOUS
  <2>3. /\ x \in ManagerType /\ Tidy(x) /\ Usable(x)
        /\ ListedLinks(x) = ListedLinks(w.m[v]) /\ x.signalled = w.m[v].signalled
    BY <1>1, <2>2, RegainedIs
  <2>4. PICK z : z = Changed(w, v, x)
    OBVIOUS
  <2>5. Progress(w, z, A) /\ z.m[v] = x /\ OthersKept(w, z, v) /\ Opens(w, z)
    BY <2>3, <2>4, ChangeProgresses
  <2>6. mavlinkMessageReceived(w, v, l) = z
    BY <1>3, <2>1, <2>2, <2>4 DEF mavlinkMessageReceived, Changed
  <2>7. Adds(w, z, l)
    BY <2>3, <2>5 DEF Adds, OthersKept
  <2> QED BY <2>5, <2>6, <2>7
<1>4. CASE l \in ListedLinks(w.m[v]) /\ l \notin LostLinks(w.m[v])
  <2>1. mavlinkMessageReceived(w, v, l) = w
    BY <1>4 DEF mavlinkMessageReceived
  <2>2. Progress(w, w, A) /\ Opens(w, w) /\ Adds(w, w, l)
    BY ProgressStart DEF Adds
  <2> QED BY <2>1, <2>2
<1> QED BY <1>2, <1>3, <1>4

LEMMA HearingProgresses ==
    ASSUME NEW w, Sound(w), NEW i, NEW l \in Links, w.link[l].state # "gone", NEW ids, NEW A,
           \A v \in Vehicles : ids[v] = i /\ v \notin deleted => v \in A
    PROVE  LET z == Hears(w, i, l, ids)
           IN  Progress(w, z, A) /\ Opens(w, z) /\ Adds(w, z, l)
<1> DEFINE body(x, v) == IF ids[v] = i /\ v \notin deleted THEN mavlinkMessageReceived(x, v, l) ELSE x
           heard[v \in 0..MaxVehicles] ==
               IF v = 0 THEN w
               ELSE IF ids[v] = i /\ v \notin deleted THEN mavlinkMessageReceived(heard[v - 1], v, l)
               ELSE heard[v - 1]
           n == MaxVehicles
           S == {x \in World : Sound(x) /\ x.link[l].state # "gone"}
           Holds(x) == Progress(w, x, A) /\ Opens(w, x) /\ Adds(w, x, l)
           T == {k \in 0..n : Holds(heard[k])}
<1>1. n \in Nat /\ Vehicles = 1..n
  BY VehicleAssumption DEF Vehicles
<1>2. Hears(w, i, l, ids) = heard[n]
  BY DEF Hears, heard, n
<1>3. heard = CHOOSE f : f = [v \in 0..n |-> IF v = 0 THEN w ELSE body(f[v - 1], v)]
  BY DEF heard
<1> HIDE DEF heard, n, S
<1>4. ASSUME NEW x, Sound(x), x.link[l].state # "gone", NEW v \in Vehicles
      PROVE  Progress(x, body(x, v), A) /\ Opens(x, body(x, v)) /\ Adds(x, body(x, v), l)
  <2>1. CASE ids[v] = i /\ v \notin deleted
    <3>1. v \in A
      BY <2>1
    <3>2. PICK z : z = mavlinkMessageReceived(x, v, l)
      OBVIOUS
    <3>3. Progress(x, z, A) /\ Opens(x, z) /\ Adds(x, z, l)
      BY <1>4, <3>1, <3>2, MessageProgresses
    <3>4. body(x, v) = z
      BY <2>1, <3>2
    <3> QED BY <3>3, <3>4
  <2>2. CASE ~(ids[v] = i /\ v \notin deleted)
    <3>1. body(x, v) = x
      BY <2>2
    <3>2. Progress(x, x, A) /\ Opens(x, x) /\ Adds(x, x, l)
      BY <1>4, ProgressStart DEF Adds
    <3> QED BY <3>1, <3>2
  <2> QED BY <2>1, <2>2
<1> HIDE DEF body
<1>5. \A x \in S, v \in 1..n : body(x, v) \in S
  <2> SUFFICES ASSUME NEW x \in S, NEW v \in 1..n PROVE body(x, v) \in S
    OBVIOUS
  <2>1. Sound(x) /\ x.link[l].state # "gone" /\ v \in Vehicles
    BY <1>1 DEF S
  <2>2. PICK z : z = body(x, v)
    OBVIOUS
  <2>3. Progress(x, z, A) /\ Opens(x, z)
    BY <1>4, <2>1, <2>2
  <2>4. Sound(z) /\ z.link[l].state # "gone" /\ z \in World
    BY <2>1, <2>3 DEF Progress, Opens, Sound
  <2> QED BY <2>2, <2>4 DEF S
<1>6. heard[0] = w /\ \A v \in 1..n : heard[v] = body(heard[v - 1], v)
  <2> DEFINE step == [pair \in (1..n) \X S |-> body(pair[2], pair[1])]
  <2>1. step \in [(1..n) \X S -> S]
    BY <1>5
  <2>2. \A v \in 1..n, x \in S : step[<<v, x>>] = body(x, v)
    OBVIOUS
  <2> HIDE DEF step
  <2>3. w \in S
    BY DEF S, Sound
  <2>4. PICK f \in [0..n -> S] : f[0] = w /\ \A v \in 1..n : f[v] = step[<<v, f[v - 1]>>]
    <3>1. n \in Nat
      BY <1>1
    <3> HIDE DEF Holds, T
    <3>2. \E f : Runs(f, S, w, n, step)
      BY <2>1, <2>3, <3>1, LoopRuns
    <3> QED BY <3>2 DEF Runs
  <2>5. \A v \in 1..n : v - 1 \in 0..n /\ f[v - 1] \in S
    BY <1>1, <2>4
  <2>6. \A v \in 1..n : f[v] = body(f[v - 1], v)
    BY <2>2, <2>4, <2>5
  <2>7. f = [v \in 0..n |-> IF v = 0 THEN w ELSE body(f[v - 1], v)]
    BY <1>1, <2>4, <2>6
  <2>8. heard = [v \in 0..n |-> IF v = 0 THEN w ELSE body(heard[v - 1], v)]
    BY <1>3, <2>7
  <2>9. heard[0] = w
    BY <1>1, <2>8
  <2>10. ASSUME NEW v \in 1..n PROVE heard[v] = body(heard[v - 1], v)
    <3>1. v \in 0..n /\ v # 0
      BY <1>1
    <3> QED BY <2>8, <3>1
  <2> QED BY <2>9, <2>10
<1>7. 0 \in T
  <2>1. Progress(w, w, A) /\ Opens(w, w) /\ Adds(w, w, l)
    BY ProgressStart DEF Adds
  <2> QED BY <1>1, <1>6, <2>1
<1>8. ASSUME NEW k \in 1..n, k - 1 \in T PROVE k \in T
  <2>1. PICK a : a = heard[k - 1]
    OBVIOUS
  <2>2. PICK b : b = heard[k]
    OBVIOUS
  <2>3. Holds(a) /\ b = body(a, k) /\ k \in 0..n /\ k \in Vehicles
    BY <1>1, <1>6, <1>8, <2>1, <2>2
  <2>4. Sound(a) /\ a.link[l].state # "gone"
    BY <2>3 DEF Progress, Opens
  <2>5. Progress(a, b, A) /\ Opens(a, b) /\ Adds(a, b, l)
    BY <1>4, <2>3, <2>4
  <2>6. Progress(w, b, A)
    BY <2>3, <2>5, ProgressOnward
  <2>7. Opens(w, b) /\ Adds(w, b, l)
    BY <2>3, <2>5 DEF Opens, Adds
  <2> QED BY <2>2, <2>3, <2>6, <2>7
<1> HIDE DEF T
<1>9. n \in T
  <2>1. n \in 0..n
    BY <1>1
  <2>2. \A k \in 1..n : k - 1 \in T => k \in T
    BY <1>8
  <2>3. \A k \in 0..n : k \in T
    BY <1>1, <1>7, <2>2, LoopInduction
  <2> QED BY <2>1, <2>3
<1>10. Holds(heard[n])
  BY <1>9 DEF T
<1> QED BY <1>2, <1>10

-----------------------------------------------------------------------------
(* A link that disconnects.                                                *)

Goes(w, l) == [w EXCEPT !.link[l].state = "gone"]

LEMMA GoneIs ==
    ASSUME NEW w, Sound(w), NEW l \in Links
    PROVE  LET g == Goes(w, l)
           IN  /\ Sound(g) /\ g.m = w.m /\ g.removed = w.removed /\ SameBooks(w, g)
               /\ g.link[l].state = "gone" /\ g.link[l].listeners = w.link[l].listeners
               /\ \A j \in Links \ {l} : g.link[j] = w.link[j]
<1>1. PICK g : g = Goes(w, l)
  OBVIOUS
<1>2. w \in World /\ Wired(w) /\ \A v \in Vehicles : Tidy(w.m[v])
  BY DEF Sound
<1>3. PICK a \in [Vehicles -> ManagerType], b \in [Links -> LinkType], c \in Seq(Vehicles) :
         w = [m |-> a, link |-> b, removed |-> c]
  BY <1>2, WorldParts
<1>4. PICK k : k = [b[l] EXCEPT !.state = "gone"]
  OBVIOUS
<1>5. PICK d : d = [b EXCEPT ![l] = k]
  OBVIOUS
<1>6. g = [m |-> a, link |-> d, removed |-> c]
  BY <1>1, <1>3, <1>4, <1>5 DEF Goes
<1>7. b[l] \in LinkType /\ k \in LinkType /\ k.state = "gone" /\ k.refs = b[l].refs /\ k.listeners = b[l].listeners
  BY <1>3, <1>4 DEF LinkType
<1>8. d \in [Links -> LinkType] /\ d[l] = k /\ \A j \in Links \ {l} : d[j] = b[j]
  BY <1>3, <1>5, <1>7
<1>9. g \in World
  BY <1>3, <1>6, <1>8 DEF World
<1>10. w.m = a /\ w.link = b /\ w.removed = c
  BY <1>3
<1>11. g.m = a /\ g.link = d /\ g.removed = c
  BY <1>6
<1>12. \A j \in Links : g.link[j].refs = w.link[j].refs /\ g.link[j].listeners = w.link[j].listeners
  BY <1>7, <1>8, <1>10, <1>11
<1>13. SameBooks(w, g)
  BY <1>12 DEF SameBooks
<1>14. Sound(g)
  BY <1>2, <1>9, <1>10, <1>11, <1>12 DEF Sound, Wired
<1> QED BY <1>1, <1>7, <1>8, <1>10, <1>11, <1>13, <1>14

LEMMA DisconnectProgresses ==
    ASSUME NEW w, Sound(w), NEW l \in Links, NEW A, Range(w.link[l].listeners) \subseteq A
    PROVE  LET z == LinkDisconnects(w, l)
           IN  Progress(w, z, A) /\ Closes(Goes(w, l), z) /\ z.link[l].listeners = <<>>
<1> DEFINE told == w.link[l].listeners
           n == Len(told)
           after[i \in 0..Len(told)] ==
               IF i = 0 THEN [w EXCEPT !.link[l].state = "gone"] ELSE _linkDisconnected(after[i - 1], told[i], l)
           S == {x \in World : Sound(x)}
<1>1. PICK g : g = Goes(w, l)
  OBVIOUS
<1>2. /\ Sound(g) /\ g.m = w.m /\ g.removed = w.removed /\ SameBooks(w, g)
      /\ g.link[l].state = "gone" /\ g.link[l].listeners = told
  BY <1>1, GoneIs
<1>3. told \in Seq(Vehicles) /\ n \in Nat
  BY WorldParts, LenProperties DEF Sound
<1>4. \A i \in 1..n : told[i] \in Vehicles /\ told[i] \in A
  BY <1>3, RangeIs, ElementOfSeq
<1>5. LinkDisconnects(w, l) = after[n]
  BY DEF LinkDisconnects, after, n, told
<1>6. after = CHOOSE f : f = [i \in 0..n |-> IF i = 0 THEN g ELSE _linkDisconnected(f[i - 1], told[i], l)]
  BY <1>1 DEF after, Goes
<1> HIDE DEF after, n, told, S
<1>7. ASSUME NEW x, Sound(x), NEW i \in 1..n
      PROVE  LET z == _linkDisconnected(x, told[i], l)
             IN  /\ Progress(x, z, A) /\ Closes(x, z)
                 /\ ListedLinks(z.m[told[i]]) = ListedLinks(x.m[told[i]]) \ {l}
  <2>1. PICK v \in Vehicles : v = told[i] /\ v \in A
    BY <1>4
  <2>2. PICK z : z = _linkDisconnected(x, v, l)
    OBVIOUS
  <2>3. /\ Progress(x, z, A) /\ Closes(x, z) /\ ListedLinks(z.m[v]) = ListedLinks(x.m[v]) \ {l}
    BY <1>7, <2>1, <2>2, TellingProgresses
  <2> QED BY <2>1, <2>2, <2>3
<1>8. \A x \in S, i \in 1..n : _linkDisconnected(x, told[i], l) \in S
  <2> SUFFICES ASSUME NEW x \in S, NEW i \in 1..n PROVE _linkDisconnected(x, told[i], l) \in S
    OBVIOUS
  <2>1. PICK z : z = _linkDisconnected(x, told[i], l)
    OBVIOUS
  <2>2. Sound(x)
    BY DEF S
  <2>3. Progress(x, z, A)
    BY <1>7, <2>1, <2>2
  <2>4. Sound(z) /\ z \in World
    BY <2>3 DEF Progress, Sound
  <2> QED BY <2>1, <2>4 DEF S
<1>9. after[0] = g /\ \A i \in 1..n : after[i] = _linkDisconnected(after[i - 1], told[i], l)
  <2> DEFINE step == [pair \in (1..n) \X S |-> _linkDisconnected(pair[2], told[pair[1]], l)]
  <2>1. step \in [(1..n) \X S -> S]
    BY <1>8
  <2>2. \A i \in 1..n, x \in S : step[<<i, x>>] = _linkDisconnected(x, told[i], l)
    OBVIOUS
  <2> HIDE DEF step
  <2>3. g \in S
    BY <1>2 DEF S, Sound
  <2>4. n \in Nat
    BY <1>3
  <2>5. PICK f \in [0..n -> S] : f[0] = g /\ \A i \in 1..n : f[i] = step[<<i, f[i - 1]>>]
    <3>1. \E f : Runs(f, S, g, n, step)
      BY <2>1, <2>3, <2>4, LoopRuns
    <3> QED BY <3>1 DEF Runs
  <2>6. \A i \in 1..n : i - 1 \in 0..n /\ f[i - 1] \in S
    BY <2>4, <2>5
  <2>7. \A i \in 1..n : f[i] = _linkDisconnected(f[i - 1], told[i], l)
    BY <2>2, <2>5, <2>6
  <2>8. f = [i \in 0..n |-> IF i = 0 THEN g ELSE _linkDisconnected(f[i - 1], told[i], l)]
    BY <2>4, <2>5, <2>7
  <2>9. after = [i \in 0..n |-> IF i = 0 THEN g ELSE _linkDisconnected(after[i - 1], told[i], l)]
    BY <1>6, <2>8
  <2>10. 0 \in 0..n /\ after[0] = g
    BY <2>4, <2>9
  <2>11. ASSUME NEW i \in 1..n PROVE after[i] = _linkDisconnected(after[i - 1], told[i], l)
    <3>1. i \in 0..n /\ i # 0
      BY <2>4
    <3> QED BY <2>9, <3>1
  <2> QED BY <2>10, <2>11
<1> DEFINE Holds(x, i) == /\ Progress(g, x, A) /\ Closes(g, x)
                          /\ \A j \in 1..i : told[j] \notin Range(x.link[l].listeners)
           T == {i \in 0..n : Holds(after[i], i)}
<1>10. 0 \in T
  <2>1. Progress(g, g, A) /\ Closes(g, g)
    BY <1>2, ProgressStart
  <2>2. 0 \in 0..n /\ 1..0 = {}
    BY <1>3
  <2> QED BY <1>9, <2>1, <2>2
<1>11. ASSUME NEW i \in 1..n, i - 1 \in T PROVE i \in T
  <2>1. PICK a : a = after[i - 1]
    OBVIOUS
  <2>2. PICK b : b = after[i]
    OBVIOUS
  <2>3. Holds(a, i - 1) /\ i \in 0..n
    BY <1>3, <1>11, <2>1
  <2>4. PICK v \in Vehicles : v = told[i]
    BY <1>4
  <2>5. b = _linkDisconnected(a, told[i], l)
    BY <1>9, <2>1, <2>2
  <2>6. Sound(a) /\ Sound(g)
    BY <1>2, <2>3 DEF Progress
  <2>7. Progress(a, b, A) /\ Closes(a, b) /\ ListedLinks(b.m[v]) = ListedLinks(a.m[v]) \ {l}
    BY <1>7, <2>4, <2>5, <2>6
  <2>8. Progress(g, b, A)
    BY <2>3, <2>6, <2>7, ProgressOnward
  <2>9. a \in World /\ b \in World /\ g \in World /\ Wired(b)
    BY <2>6, <2>8 DEF Progress, Sound
  <2>10. Closes(g, b)
    BY <2>3, <2>7, <2>9, ClosesOnward
  <2>11. told[i] \notin Range(b.link[l].listeners)
    BY <2>4, <2>7, <2>9 DEF Wired
  <2>12. Range(b.link[l].listeners) \subseteq Range(a.link[l].listeners)
    BY <2>7 DEF Closes
  <2>13. \A j \in 1..i : j = i \/ j \in 1..(i - 1)
    OBVIOUS
  <2>14. \A j \in 1..i : told[j] \notin Range(b.link[l].listeners)
    BY <2>3, <2>11, <2>12, <2>13
  <2> QED BY <2>2, <2>3, <2>8, <2>10, <2>14
<1> HIDE DEF T, Holds
<1>12. n \in T
  <2>1. n \in Nat /\ n \in 0..n
    BY <1>3
  <2>2. \A k \in 1..n : k - 1 \in T => k \in T
    BY <1>11
  <2>3. \A k \in 0..n : k \in T
    BY <1>10, <2>1, <2>2, LoopInduction
  <2> QED BY <2>1, <2>3
<1>13. PICK z : z = after[n]
  OBVIOUS
<1>14. /\ Progress(g, z, A) /\ Closes(g, z)
       /\ \A j \in 1..n : told[j] \notin Range(z.link[l].listeners)
  <2>1. Holds(after[n], n)
    BY <1>12 DEF T
  <2> QED BY <1>13, <2>1 DEF Holds
<1>15. z.link[l].listeners = <<>>
  <2>1. PICK s \in Seq(Vehicles) : s = z.link[l].listeners
    <3>1. z \in World
      BY <1>14 DEF Progress, Sound
    <3> QED BY <3>1, WorldParts
  <2>2. Range(s) \subseteq Range(told)
    BY <1>2, <1>14, <2>1 DEF Closes
  <2>3. \A x \in Range(told) : \E j \in 1..n : told[j] = x
    BY <1>3, RangeIs DEF n
  <2>4. Range(s) = {}
    BY <1>14, <2>1, <2>2, <2>3
  <2>5. Len(s) = 0
    <3> SUFFICES ASSUME Len(s) # 0 PROVE FALSE
      OBVIOUS
    <3>1. Len(s) \in Nat /\ 1 \in 1..Len(s)
      BY RangeIs
    <3>2. s[1] \in Range(s)
      BY <3>1, RangeIs
    <3> QED BY <2>4, <3>2
  <2> QED BY <2>1, <2>5, EmptySeq
<1>16. Progress(w, z, A)
  <2>1. w \in World /\ g \in World /\ z \in World
    BY <1>2, <1>14 DEF Progress, Sound
  <2>2. SameBooks(w, z)
    BY <1>2, <1>14, <2>1, BooksOnward DEF Progress
  <2> QED BY <1>2, <1>14, <2>2 DEF Progress
<1> QED BY <1>1, <1>5, <1>13, <1>14, <1>15, <1>16

-----------------------------------------------------------------------------
(* What a handler leaves of the links.                                     *)

(* A link that is made to disconnect has no listeners.                     *)
Released(w, z) ==
    \A l \in Links : w.link[l].state = "up" /\ z.link[l].state = "closing" => z.link[l].listeners = <<>>
Outcome(w, z, A) == Progress(w, z, A) /\ Quiet(z) /\ Released(w, z)

LEMMA EmptyLine ==
    ASSUME NEW S, NEW s \in Seq(S)
    PROVE  Range(s) = {} <=> s = <<>>
<1>1. ASSUME s # <<>> PROVE Range(s) # {}
  <2>1. Len(s) \in Nat /\ Len(s) # 0
    BY <1>1, EmptySeq, LenProperties
  <2>2. s[1] \in Range(s)
    BY <2>1, RangeIs
  <2> QED BY <2>2
<1>2. Range(<<>>) = {}
  BY DEF Range
<1> QED BY <1>1, <1>2

LEMMA ClosedOutcome ==
    ASSUME NEW w, Sound(w), Quiet(w), NEW z, NEW A, Progress(w, z, A), Closes(w, z)
    PROVE  Outcome(w, z, A)
<1>1. w \in World /\ z \in World
  BY DEF Progress, Sound
<1>2. ASSUME NEW l \in Links, z.link[l].state = "gone" PROVE z.link[l].listeners = <<>>
  <2>1. w.link[l].state = "gone" /\ Range(z.link[l].listeners) \subseteq Range(w.link[l].listeners)
    BY <1>2 DEF Closes
  <2>2. w.link[l].listeners = <<>> /\ w.link[l].listeners \in Seq(Vehicles) /\ z.link[l].listeners \in Seq(Vehicles)
    BY <1>1, <2>1, WorldParts DEF Quiet
  <2>3. Range(w.link[l].listeners) = {}
    BY <2>2, EmptyLine
  <2>4. Range(z.link[l].listeners) = {}
    BY <2>1, <2>3
  <2> QED BY <2>2, <2>4, EmptyLine
<1>3. Released(w, z)
  BY DEF Released, Closes
<1> QED BY <1>2, <1>3 DEF Outcome, Quiet

LEMMA OpenedOutcome ==
    ASSUME NEW w, Sound(w), Quiet(w), NEW z, NEW A, Progress(w, z, A), Opens(w, z), NEW l \in Links,
           w.link[l].state # "gone", Adds(w, z, l)
    PROVE  Outcome(w, z, A)
<1>1. w \in World /\ z \in World /\ Wired(w) /\ Wired(z)
  BY DEF Progress, Sound
<1>2. ASSUME NEW j \in Links, z.link[j].state = "gone" PROVE z.link[j].listeners = <<>>
  <2>1. w.link[j].state = "gone" /\ j # l
    BY <1>2 DEF Opens
  <2>2. w.link[j].listeners = <<>> /\ w.link[j].listeners \in Seq(Vehicles) /\ z.link[j].listeners \in Seq(Vehicles)
    BY <1>1, <2>1, WorldParts DEF Quiet
  <2>3. Range(w.link[j].listeners) = {}
    BY <2>2, EmptyLine
  <2>4. \A v \in Vehicles : j \notin ListedLinks(w.m[v])
    BY <1>1, <2>3 DEF Wired
  <2>5. \A v \in Vehicles : j \notin ListedLinks(z.m[v])
    BY <2>1, <2>4 DEF Adds
  <2>6. Range(z.link[j].listeners) = {}
    BY <1>1, <2>5 DEF Wired
  <2> QED BY <2>2, <2>6, EmptyLine
<1>3. Released(w, z)
  BY DEF Released, Opens
<1> QED BY <1>2, <1>3 DEF Outcome, Quiet

LEMMA HearingOutcome ==
    ASSUME NEW w, Sound(w), Quiet(w), NEW i, NEW l \in Links, w.link[l].state # "gone", NEW ids, NEW A,
           \A v \in Vehicles : ids[v] = i /\ v \notin deleted => v \in A
    PROVE  Outcome(w, Hears(w, i, l, ids), A)
<1>1. PICK z : z = Hears(w, i, l, ids)
  OBVIOUS
<1>2. Progress(w, z, A) /\ Opens(w, z) /\ Adds(w, z, l)
  BY <1>1, HearingProgresses
<1> QED BY <1>1, <1>2, OpenedOutcome

LEMMA DisconnectOutcome ==
    ASSUME NEW w, Sound(w), Quiet(w), NEW l \in Links, NEW A, Range(w.link[l].listeners) \subseteq A
    PROVE  Outcome(w, LinkDisconnects(w, l), A)
<1>1. PICK z : z = LinkDisconnects(w, l)
  OBVIOUS
<1>2. PICK g : g = Goes(w, l)
  OBVIOUS
<1>3. Progress(w, z, A) /\ Closes(g, z) /\ z.link[l].listeners = <<>>
  BY <1>1, <1>2, DisconnectProgresses
<1>4. Sound(g) /\ \A j \in Links \ {l} : g.link[j] = w.link[j]
  BY <1>2, GoneIs
<1>5. g.link[l].state = "gone"
  BY <1>2, GoneIs
<1>6. z \in World /\ g \in World /\ w \in World
  BY <1>3, <1>4 DEF Progress, Sound
<1>7. ASSUME NEW j \in Links, z.link[j].state = "gone" PROVE z.link[j].listeners = <<>>
  <2>1. CASE j = l
    BY <1>3, <2>1
  <2>2. CASE j # l
    <3>1. g.link[j].state = "gone" /\ Range(z.link[j].listeners) \subseteq Range(g.link[j].listeners)
      BY <1>3, <1>7 DEF Closes
    <3>2. g.link[j].listeners = <<>> /\ g.link[j].listeners \in Seq(Vehicles) /\ z.link[j].listeners \in Seq(Vehicles)
      BY <1>4, <1>6, <2>2, <3>1, WorldParts DEF Quiet
    <3>3. Range(g.link[j].listeners) = {}
      BY <3>2, EmptyLine
    <3>4. Range(z.link[j].listeners) = {}
      BY <3>1, <3>3
    <3> QED BY <3>2, <3>4, EmptyLine
  <2> QED BY <2>1, <2>2
<1>8. ASSUME NEW j \in Links, w.link[j].state = "up", z.link[j].state = "closing"
      PROVE  z.link[j].listeners = <<>>
  <2>1. CASE j = l
    BY <1>3, <2>1
  <2>2. CASE j # l
    BY <1>3, <1>4, <1>8, <2>2 DEF Closes
  <2> QED BY <2>1, <2>2
<1>9. Outcome(w, z, A)
  BY <1>3, <1>7, <1>8 DEF Outcome, Quiet, Released
<1> QED BY <1>1, <1>9

LEMMA CheckOutcome ==
    ASSUME NEW w, Sound(w), Quiet(w), NEW v \in Vehicles, NEW A, v \in A, NEW silent
    PROVE  Outcome(w, _commLostCheck(w, v, silent), A)
BY CheckProgresses, ClosedOutcome

LEMMA ClosingOutcome ==
    ASSUME NEW w, Sound(w), Quiet(w), NEW v \in Vehicles, NEW A, v \in A
    PROVE  Outcome(w, closeVehicle(w, v), A)
BY ClosingProgresses, ClosedOutcome

(* The settings a user changes.                                            *)
LEMMA ChoiceOutcome ==
    ASSUME NEW w, Sound(w), Quiet(w), NEW v \in Vehicles, NEW A, v \in A, Usable(w.m[v])
    PROVE  /\ Outcome(w, w, A)
           /\ \A l \in ListedLinks(w.m[v]) : Outcome(w, setPrimaryLinkByName(w, v, l), A)
           /\ \A on \in BOOLEAN : Outcome(w, setCommunicationLostEnabled(w, v, on), A)
           /\ \A on \in BOOLEAN : Outcome(w, setAutoDisconnect(w, v, on), A)
<1>1. w \in World /\ w.m[v] \in ManagerType /\ Tidy(w.m[v])
  BY WorldParts DEF Sound
<1>2. ASSUME NEW x \in ManagerType, Tidy(x), Usable(x), x.rgLinkInfo = w.m[v].rgLinkInfo,
             x.signalled = w.m[v].signalled
      PROVE  Outcome(w, Changed(w, v, x), A)
  <2>1. ListedLinks(x) = ListedLinks(w.m[v])
    BY <1>2 DEF ListedLinks
  <2>2. PICK z : z = Changed(w, v, x)
    OBVIOUS
  <2>3. Progress(w, z, A) /\ Closes(w, z)
    BY <1>2, <2>1, <2>2, ChangeProgresses
  <2> QED BY <2>2, <2>3, ClosedOutcome
<1>3. ASSUME NEW l \in ListedLinks(w.m[v]) PROVE Outcome(w, setPrimaryLinkByName(w, v, l), A)
  <2>1. PICK x : x = [w.m[v] EXCEPT !.primary = l, !.byUser = TRUE]
    OBVIOUS
  <2>2. l \in Links
    BY <1>1, ListIs
  <2>3. /\ x \in ManagerType /\ x.rgLinkInfo = w.m[v].rgLinkInfo /\ x.signalled = w.m[v].signalled
        /\ x.primary = l /\ x.byUser = TRUE
    BY <1>1, <2>1, <2>2 DEF ManagerType
  <2>4. ListedLinks(x) = ListedLinks(w.m[v]) /\ LostLinks(x) = LostLinks(w.m[v])
    BY <2>3 DEF ListedLinks, LostLinks
  <2>5. Tidy(x) /\ Usable(x)
    BY <1>1, <2>3, <2>4 DEF Tidy, Usable
  <2>6. setPrimaryLinkByName(w, v, l) = Changed(w, v, x)
    <3>1. PICK y : y = w.m[v]
      OBVIOUS
    <3> QED BY <1>1, <2>1 DEF setPrimaryLinkByName, Changed, World
  <2> QED BY <1>2, <2>3, <2>5, <2>6
<1>4. ASSUME NEW on \in BOOLEAN PROVE Outcome(w, setCommunicationLostEnabled(w, v, on), A)
  <2>1. PICK x : x = [w.m[v] EXCEPT !.enabled = on]
    OBVIOUS
  <2>2. /\ x \in ManagerType /\ x.rgLinkInfo = w.m[v].rgLinkInfo /\ x.signalled = w.m[v].signalled
        /\ x.primary = w.m[v].primary /\ x.byUser = w.m[v].byUser
    BY <1>1, <2>1 DEF ManagerType
  <2>3. ListedLinks(x) = ListedLinks(w.m[v]) /\ LostLinks(x) = LostLinks(w.m[v])
    BY <2>2 DEF ListedLinks, LostLinks
  <2>4. Tidy(x) /\ Usable(x)
    BY <1>1, <2>2, <2>3 DEF Tidy, Usable, LiveLinks
  <2>5. setCommunicationLostEnabled(w, v, on) = Changed(w, v, x)
    BY <2>1 DEF setCommunicationLostEnabled, Changed
  <2> QED BY <1>2, <2>2, <2>4, <2>5
<1>5. ASSUME NEW on \in BOOLEAN PROVE Outcome(w, setAutoDisconnect(w, v, on), A)
  <2>1. PICK x : x = [w.m[v] EXCEPT !.autoDisconnect = on]
    OBVIOUS
  <2>2. /\ x \in ManagerType /\ x.rgLinkInfo = w.m[v].rgLinkInfo /\ x.signalled = w.m[v].signalled
        /\ x.primary = w.m[v].primary /\ x.byUser = w.m[v].byUser
    BY <1>1, <2>1 DEF ManagerType
  <2>3. ListedLinks(x) = ListedLinks(w.m[v]) /\ LostLinks(x) = LostLinks(w.m[v])
    BY <2>2 DEF ListedLinks, LostLinks
  <2>4. Tidy(x) /\ Usable(x)
    BY <1>1, <2>2, <2>3 DEF Tidy, Usable, LiveLinks
  <2>5. setAutoDisconnect(w, v, on) = Changed(w, v, x)
    BY <2>1 DEF setAutoDisconnect, Changed
  <2> QED BY <1>2, <2>2, <2>4, <2>5
<1>6. Outcome(w, w, A)
  BY ProgressStart, ClosedOutcome
<1> QED BY <1>3, <1>4, <1>5, <1>6

-----------------------------------------------------------------------------
(* The list of vehicles and the changes under way.                         *)

LEMMA MembersAre ==
    ASSUME NEW x \in Members
    PROVE  /\ x.vehicles \in Seq(Vehicles) /\ x.active \in Vehicles \cup {NoVehicle}
           /\ x.available \in BOOLEAN /\ x.paramReady \in BOOLEAN /\ x.timers \in Seq(Pending)
           /\ Len(x.timers) \in Nat /\ DOMAIN x.timers = 1..Len(x.timers)
           /\ \A i \in 1..Len(x.timers) :
                 /\ x.timers[i] \in Pending /\ x.timers[i].vehicle \in Vehicles
                 /\ x.timers[i].does \in {"activate", "delete"}
<1>1. x.vehicles \in Seq(Vehicles) /\ x.active \in Vehicles \cup {NoVehicle} /\ x.timers \in Seq(Pending)
  BY DEF Members
<1>2. x.available \in BOOLEAN /\ x.paramReady \in BOOLEAN
  BY DEF Members
<1>3. Len(x.timers) \in Nat /\ DOMAIN x.timers = 1..Len(x.timers)
  BY <1>1, LenProperties
<1>4. \A i \in 1..Len(x.timers) : x.timers[i] \in Pending
  BY <1>1, <1>3, ElementOfSeq
<1>5. \A i \in 1..Len(x.timers) : x.timers[i].vehicle \in Vehicles /\ x.timers[i].does \in {"activate", "delete"}
  BY <1>4 DEF Pending
<1> QED BY <1>1, <1>2, <1>3, <1>4, <1>5

(* A change of a listed vehicle is put behind the others.                  *)
LEMMA ChangeQueued ==
    ASSUME NEW x \in Members, NEW A, Orderly(x, A), NEW c \in Pending, c.vehicle \in Range(x.vehicles),
           NEW z \in Members, z.timers = Append(x.timers, c), z.active = x.active, IsInjective(z.vehicles),
           Range(z.vehicles) = Range(x.vehicles) \ (IF c.does = "delete" THEN {c.vehicle} ELSE {})
    PROVE  Orderly(z, A) /\ Selecting(z)
<1>1. PICK n \in Nat : n = Len(x.timers)
  BY MembersAre
<1>2. PICK s \in Seq(Pending) : s = x.timers
  BY MembersAre
<1>3. PICK t : t = z.timers
  OBVIOUS
<1>4. /\ DOMAIN s = 1..n /\ DOMAIN t = 1..(n + 1) /\ Len(t) = n + 1 /\ t # <<>>
      /\ t[n + 1] = c /\ \A i \in 1..n : t[i] = s[i]
  <2>1. t \in Seq(Pending) /\ t = Append(s, c)
    BY <1>2, <1>3, MembersAre
  <2>2. Len(s) = n /\ Len(t) = n + 1
    BY <1>1, <1>2, <2>1, AppendProperties
  <2> QED BY <1>2, <2>1, <2>2, AppendProperties, LenProperties
<1>5. Deletes(x) = {i \in 1..n : s[i].does = "delete"} /\ Deletes(z) = {i \in 1..(n + 1) : t[i].does = "delete"}
  BY <1>2, <1>3, <1>4 DEF Deletes
<1>6. \A i \in 1..(n + 1) : i \in 1..n \/ i = n + 1
  OBVIOUS
<1>7. \A i \in 1..n : i \in 1..(n + 1) /\ i # n + 1
  OBVIOUS
<1>8. n + 1 \in 1..(n + 1) /\ \A j \in 1..(n + 1) : ~(j > n + 1)
  OBVIOUS
<1>9. /\ Range(x.vehicles) \subseteq A /\ x.active \in A \cup {NoVehicle}
      /\ \A i \in 1..n : s[i].vehicle \in A
      /\ \A i \in Deletes(x) : /\ s[i].vehicle \notin Range(x.vehicles)
                               /\ \A j \in 1..n : j > i => s[j].vehicle # s[i].vehicle
      /\ A \ Range(x.vehicles) \subseteq {s[i].vehicle : i \in Deletes(x)}
  BY <1>2, <1>4 DEF Orderly
<1>10. \A i \in 1..(n + 1) : t[i].vehicle \in A
  BY <1>4, <1>6, <1>9
<1>11. ASSUME NEW i \in Deletes(z)
       PROVE  /\ t[i].vehicle \notin Range(z.vehicles)
              /\ \A j \in 1..(n + 1) : j > i => t[j].vehicle # t[i].vehicle
  <2>1. CASE i \in 1..n
    <3>1. i \in Deletes(x) /\ t[i] = s[i]
      BY <1>4, <1>5, <2>1
    <3>2. t[i].vehicle \notin Range(x.vehicles)
      BY <1>9, <3>1
    <3>3. ASSUME NEW j \in 1..(n + 1), j > i PROVE t[j].vehicle # t[i].vehicle
      <4>1. CASE j \in 1..n
        BY <1>4, <1>9, <3>1, <3>3, <4>1
      <4>2. CASE j = n + 1
        BY <1>4, <3>2, <4>2
      <4> QED BY <1>6, <4>1, <4>2
    <3> QED BY <3>2, <3>3
  <2>2. CASE i = n + 1
    <3>1. c.does = "delete" /\ t[i] = c
      BY <1>4, <1>5, <2>2
    <3> QED BY <1>8, <2>2, <3>1
  <2> QED BY <1>5, <1>6, <2>1, <2>2
<1>12. ASSUME NEW u \in A \ Range(z.vehicles) PROVE u \in {t[i].vehicle : i \in Deletes(z)}
  <2>1. CASE u \in Range(x.vehicles)
    <3>1. c.does = "delete" /\ u = c.vehicle
      BY <2>1
    <3>2. n + 1 \in Deletes(z)
      BY <1>4, <1>5, <1>8, <3>1
    <3> QED BY <1>4, <3>1, <3>2
  <2>2. CASE u \notin Range(x.vehicles)
    <3>1. PICK i \in Deletes(x) : s[i].vehicle = u
      BY <1>9, <2>2
    <3>2. i \in Deletes(z) /\ t[i] = s[i]
      BY <1>4, <1>5, <1>7, <3>1
    <3> QED BY <3>1, <3>2
  <2> QED BY <2>1, <2>2
<1>13. Orderly(z, A)
  <2>1. Range(z.vehicles) \subseteq A /\ z.active \in A \cup {NoVehicle}
    BY <1>9
  <2>2. \A i \in DOMAIN z.timers : z.timers[i].vehicle \in A
    BY <1>3, <1>4, <1>10
  <2>3. \A i \in Deletes(z) : /\ z.timers[i].vehicle \notin Range(z.vehicles)
                               /\ \A j \in DOMAIN z.timers : j > i => z.timers[j].vehicle # z.timers[i].vehicle
    BY <1>3, <1>4, <1>11
  <2>4. A \ Range(z.vehicles) \subseteq {z.timers[i].vehicle : i \in Deletes(z)}
    BY <1>3, <1>12
  <2> QED BY <2>1, <2>2, <2>3, <2>4 DEF Orderly
<1>14. Selecting(z)
  <2>1. n + 1 \notin Deletes(z) => t[n + 1].vehicle \in Range(z.vehicles)
    BY <1>4, <1>5, <1>8
  <2> QED BY <1>3, <1>4, <2>1 DEF Selecting
<1> QED BY <1>13, <1>14

(* The first change is made.                                               *)
LEMMA ChangeMade ==
    ASSUME NEW x \in Members, NEW A, Orderly(x, A), Selecting(x), x.timers # <<>>, NEW B,
           B = A \ (IF Head(x.timers).does = "delete" THEN {Head(x.timers).vehicle} ELSE {}),
           NEW z \in Members, z.timers = Tail(x.timers), z.vehicles = x.vehicles, z.active \in B \cup {NoVehicle},
           z.timers = <<>> => /\ z.active \in Range(z.vehicles) \cup {NoVehicle}
                              /\ z.active = NoVehicle <=> z.vehicles = <<>>
                              /\ z.active # NoVehicle => z.available
    PROVE  Orderly(z, B) /\ Selecting(z) /\ Head(x.timers) \in Pending /\ Head(x.timers).vehicle \in A
<1>1. PICK n \in Nat : n = Len(x.timers)
  BY MembersAre
<1>2. PICK s \in Seq(Pending) : s = x.timers
  BY MembersAre
<1>3. PICK t : t = z.timers
  OBVIOUS
<1>4. /\ n \in Nat \ {0} /\ DOMAIN s = 1..n /\ DOMAIN t = 1..(n - 1) /\ Len(t) = n - 1 /\ Head(s) = s[1]
      /\ \A i \in 1..(n - 1) : t[i] = s[i + 1]
  <2>1. s # <<>> /\ Len(s) = n /\ t = Tail(s) /\ t \in Seq(Pending)
    BY <1>1, <1>2, <1>3, MembersAre
  <2>2. n # 0
    BY <2>1, EmptySeq
  <2>3. Len(t) = n - 1 /\ \A i \in 1..(n - 1) : t[i] = s[i + 1]
    BY <2>1, HeadTailProperties
  <2> QED BY <2>1, <2>2, <2>3, LenProperties
<1>5. Deletes(x) = {i \in 1..n : s[i].does = "delete"} /\ Deletes(z) = {i \in 1..(n - 1) : t[i].does = "delete"}
  BY <1>2, <1>3, <1>4 DEF Deletes
<1>6. \A i \in 1..(n - 1) : i + 1 \in 1..n /\ i + 1 > 1
  BY <1>4
<1>7. 1 \in 1..n /\ \A i \in 1..n : i = 1 \/ (i - 1 \in 1..(n - 1) /\ (i - 1) + 1 = i)
  BY <1>4
<1>8. /\ IsInjective(x.vehicles) /\ Range(x.vehicles) \subseteq A
      /\ \A i \in 1..n : s[i].vehicle \in A
      /\ \A i \in Deletes(x) : /\ s[i].vehicle \notin Range(x.vehicles)
                               /\ \A j \in 1..n : j > i => s[j].vehicle # s[i].vehicle
      /\ A \ Range(x.vehicles) \subseteq {s[i].vehicle : i \in Deletes(x)}
  BY <1>2, <1>4 DEF Orderly
<1>9. B = A \ (IF s[1].does = "delete" THEN {s[1].vehicle} ELSE {})
  BY <1>2, <1>4
<1>10. s[1].does = "delete" => 1 \in Deletes(x)
  BY <1>5, <1>7
<1>11. Range(z.vehicles) \subseteq B
  BY <1>8, <1>9, <1>10
<1>12. ASSUME NEW i \in 1..(n - 1) PROVE t[i].vehicle \in B
  <2>1. t[i] = s[i + 1] /\ i + 1 \in 1..n /\ i + 1 > 1
    BY <1>4, <1>6
  <2>2. s[1].does = "delete" => s[i + 1].vehicle # s[1].vehicle
    BY <1>8, <1>10, <2>1
  <2> QED BY <1>8, <1>9, <2>1, <2>2
<1>13. ASSUME NEW i \in Deletes(z)
       PROVE  /\ t[i].vehicle \notin Range(z.vehicles)
              /\ \A j \in 1..(n - 1) : j > i => t[j].vehicle # t[i].vehicle
  <2>1. i \in 1..(n - 1) /\ t[i].does = "delete"
    BY <1>5
  <2>2. t[i] = s[i + 1] /\ i + 1 \in Deletes(x)
    BY <1>4, <1>5, <1>6, <2>1
  <2>3. ASSUME NEW j \in 1..(n - 1), j > i PROVE t[j].vehicle # t[i].vehicle
    <3>1. t[j] = s[j + 1] /\ j + 1 \in 1..n /\ j + 1 > i + 1
      BY <1>4, <2>1, <2>3
    <3> QED BY <1>8, <2>2, <3>1
  <2> QED BY <1>8, <2>2, <2>3
<1>14. ASSUME NEW u \in B \ Range(z.vehicles) PROVE u \in {t[i].vehicle : i \in Deletes(z)}
  <2>1. PICK i \in Deletes(x) : s[i].vehicle = u
    BY <1>8, <1>9
  <2>2. i # 1
    BY <1>5, <1>9, <2>1
  <2>3. i - 1 \in 1..(n - 1) /\ (i - 1) + 1 = i
    BY <1>5, <1>7, <2>1, <2>2
  <2>4. t[i - 1] = s[i] /\ i - 1 \in Deletes(z)
    BY <1>4, <1>5, <2>1, <2>3
  <2> QED BY <2>1, <2>4
<1>15. Orderly(z, B)
  <2>1. IsInjective(z.vehicles) /\ Range(z.vehicles) \subseteq B
    BY <1>8, <1>11
  <2>2. \A i \in DOMAIN z.timers : z.timers[i].vehicle \in B
    BY <1>3, <1>4, <1>12
  <2>3. \A i \in Deletes(z) : /\ z.timers[i].vehicle \notin Range(z.vehicles)
                               /\ \A j \in DOMAIN z.timers : j > i => z.timers[j].vehicle # z.timers[i].vehicle
    BY <1>3, <1>4, <1>13
  <2>4. B \ Range(z.vehicles) \subseteq {z.timers[i].vehicle : i \in Deletes(z)}
    BY <1>3, <1>14
  <2> QED BY <2>1, <2>2, <2>3, <2>4 DEF Orderly
<1>16. Selecting(z)
  <2>1. ASSUME t # <<>>, n - 1 \notin Deletes(z) PROVE t[n - 1].vehicle \in Range(z.vehicles)
    <3>1. t \in Seq(Pending)
      BY <1>3, MembersAre
    <3>2. n - 1 \in 1..(n - 1)
      BY <1>4, <2>1, <3>1, EmptySeq
    <3>3. t[n - 1] = s[n] /\ n \in 1..n
      BY <1>4, <3>2
    <3>4. n \notin Deletes(x)
      BY <1>5, <2>1, <3>2, <3>3
    <3>5. s[n].vehicle \in Range(x.vehicles)
      BY <1>1, <1>2, <3>4 DEF Selecting
    <3> QED BY <3>3, <3>5
  <2> QED BY <1>3, <1>4, <2>1 DEF Selecting
<1>17. Head(x.timers) \in Pending /\ Head(x.timers).vehicle \in A
  BY <1>2, <1>4, <1>7, <1>8, ElementOfSeq, HeadTailProperties
<1> QED BY <1>15, <1>16, <1>17

LEMMA SetActiveIs ==
    ASSUME NEW x \in Members, NEW A, Orderly(x, A), NEW v \in Range(x.vehicles)
    PROVE  LET z == setActiveVehicle(x, v)
           IN  /\ z \in Members /\ Orderly(z, A) /\ z.vehicles = x.vehicles
               /\ Selecting(x) \/ v # x.active => Selecting(z)
<1>1. PICK z : z = setActiveVehicle(x, v)
  OBVIOUS
<1>2. CASE v = x.active
  BY <1>1, <1>2 DEF setActiveVehicle
<1>3. CASE v # x.active
  <2>1. PICK c : c = [does |-> "activate", vehicle |-> v]
    OBVIOUS
  <2>2. v \in Vehicles
    BY MembersAre, RangeIs, ElementOfSeq
  <2>3. c \in Pending /\ c.does = "activate" /\ c.vehicle = v
    BY <2>1, <2>2 DEF Pending
  <2>4. PICK t : t = Append(x.timers, c)
    OBVIOUS
  <2>5. t \in Seq(Pending)
    BY <2>3, <2>4, MembersAre, AppendProperties
  <2>6. PICK p \in BOOLEAN : p = (x.available /\ x.active = NoVehicle)
    OBVIOUS
  <2>7. PICK q \in BOOLEAN : q = (x.paramReady /\ x.active = NoVehicle)
    OBVIOUS
  <2>8. z = [x EXCEPT !.available = p, !.paramReady = q, !.timers = t]
    BY <1>1, <1>3, <2>1, <2>4, <2>6, <2>7 DEF setActiveVehicle
  <2>9. z \in Members /\ z.vehicles = x.vehicles /\ z.active = x.active /\ z.timers = t
    BY <2>5, <2>8 DEF Members
  <2>10. IsInjective(z.vehicles)
    BY <2>9 DEF Orderly
  <2>11. Range(z.vehicles) = Range(x.vehicles) \ (IF c.does = "delete" THEN {c.vehicle} ELSE {})
    BY <2>3, <2>9
  <2>12. Orderly(z, A) /\ Selecting(z)
    BY <2>3, <2>4, <2>9, <2>10, <2>11, ChangeQueued
  <2> QED BY <1>1, <2>9, <2>12
<1> QED BY <1>2, <1>3

(* A vehicle that leaves the list, or is not on it.                        *)
Leaves(x, z, v, A) ==
    z \in Members /\ Orderly(z, A) /\ Selecting(z) /\ Range(z.vehicles) = Range(x.vehicles) \ {v}

LEMMA FirstPhaseIs ==
    ASSUME NEW x \in Members, NEW A, Orderly(x, A), Selecting(x), NEW v
    PROVE  Leaves(x, _deleteVehiclePhase1(x, v), v, A)
<1>1. PICK z : z = _deleteVehiclePhase1(x, v)
  OBVIOUS
<1>2. Contains(x.vehicles, v) <=> v \in Range(x.vehicles)
  <2>1. x.vehicles \in Seq(Vehicles)
    BY MembersAre
  <2> QED BY <2>1, RangeIs DEF Contains
<1>3. CASE v \notin Range(x.vehicles)
  <2>1. z = x
    BY <1>1, <1>2, <1>3 DEF _deleteVehiclePhase1
  <2> QED BY <1>1, <1>3, <2>1 DEF Leaves
<1>4. CASE v \in Range(x.vehicles)
  <2>1. PICK c : c = [does |-> "delete", vehicle |-> v]
    OBVIOUS
  <2>2. v \in Vehicles
    BY <1>4, MembersAre, RangeIs, ElementOfSeq
  <2>3. c \in Pending /\ c.does = "delete" /\ c.vehicle = v
    BY <2>1, <2>2 DEF Pending
  <2>4. PICK t : t = Append(x.timers, c)
    OBVIOUS
  <2>5. t \in Seq(Pending)
    BY <2>3, <2>4, MembersAre, AppendProperties
  <2>6. PICK s : s = RemoveFirst(x.vehicles, v)
    OBVIOUS
  <2>7. s \in Seq(Vehicles) /\ IsInjective(s) /\ Range(s) = Range(x.vehicles) \ {v}
    <3>1. x.vehicles \in Seq(Vehicles) /\ IsInjective(x.vehicles)
      BY MembersAre DEF Orderly
    <3> QED BY <2>6, <3>1, WithoutFirst
  <2>8. z = [x EXCEPT !.vehicles = s, !.available = FALSE, !.paramReady = FALSE, !.timers = t]
    BY <1>1, <1>2, <1>4, <2>1, <2>4, <2>6 DEF _deleteVehiclePhase1
  <2>9. z \in Members /\ z.vehicles = s /\ z.active = x.active /\ z.timers = t
    BY <2>5, <2>7, <2>8 DEF Members
  <2>10. Range(z.vehicles) = Range(x.vehicles) \ (IF c.does = "delete" THEN {c.vehicle} ELSE {})
    BY <2>3, <2>7, <2>9
  <2>11. c.vehicle \in Range(x.vehicles) /\ IsInjective(z.vehicles)
    BY <1>4, <2>3, <2>7, <2>9
  <2>12. Orderly(z, A) /\ Selecting(z)
    BY <2>3, <2>4, <2>9, <2>10, <2>11, ChangeQueued
  <2> QED BY <1>1, <2>7, <2>9, <2>12 DEF Leaves
<1> QED BY <1>3, <1>4

LEMMA ManagerIs ==
    ASSUME NEW x \in Members, ManagerBecomes(x)
    PROVE  Manager' = x
<1>1. x = [vehicles |-> x.vehicles, active |-> x.active, available |-> x.available,
           paramReady |-> x.paramReady, timers |-> x.timers]
  BY DEF Members
<1> QED BY <1>1 DEF ManagerBecomes, Manager

(* Every vehicle whose links or user said so leaves the list.              *)
LEMMA TakesIs ==
    ASSUME NEW w \in World, NEW x \in Members, NEW A, Orderly(x, A), Selecting(x), Takes(w, x)
    PROVE  /\ m' = w.m /\ link' = w.link
           /\ Manager' \in Members /\ Orderly(Manager', A) /\ Selecting(Manager')
           /\ Range(vehicles') = Range(x.vehicles) \ Range(w.removed)
<1> DEFINE n == Len(w.removed)
           gone == w.removed
           without[i \in 0..Len(w.removed)] ==
               IF i = 0 THEN x ELSE _deleteVehiclePhase1(without[i - 1], w.removed[i])
           S == {y \in Members : Orderly(y, A) /\ Selecting(y)}
<1>1. n \in Nat /\ gone \in Seq(Vehicles)
  BY WorldParts, LenProperties
<1>2. m' = w.m /\ link' = w.link /\ ManagerBecomes(without[n])
  BY DEF Takes, Handled, without, n
<1>3. without = CHOOSE f : f = [i \in 0..n |-> IF i = 0 THEN x ELSE _deleteVehiclePhase1(f[i - 1], gone[i])]
  BY DEF without
<1> HIDE DEF without, n, gone
<1>4. \A y \in S, i \in 1..n : _deleteVehiclePhase1(y, gone[i]) \in S
  <2> SUFFICES ASSUME NEW y \in S, NEW i \in 1..n PROVE _deleteVehiclePhase1(y, gone[i]) \in S
    OBVIOUS
  <2>1. PICK z : z = _deleteVehiclePhase1(y, gone[i])
    OBVIOUS
  <2>2. y \in Members /\ Orderly(y, A) /\ Selecting(y)
    OBVIOUS
  <2>3. Leaves(y, z, gone[i], A)
    BY <2>1, <2>2, FirstPhaseIs
  <2> QED BY <2>1, <2>3 DEF Leaves
<1> HIDE DEF S
<1>5. without[0] = x /\ \A i \in 1..n : without[i] = _deleteVehiclePhase1(without[i - 1], gone[i])
  <2> DEFINE step == [pair \in (1..n) \X S |-> _deleteVehiclePhase1(pair[2], gone[pair[1]])]
  <2>1. step \in [(1..n) \X S -> S]
    BY <1>4
  <2>2. \A i \in 1..n, y \in S : step[<<i, y>>] = _deleteVehiclePhase1(y, gone[i])
    OBVIOUS
  <2> HIDE DEF step
  <2>3. x \in S
    BY DEF S
  <2>4. n \in Nat
    BY <1>1
  <2>5. PICK f \in [0..n -> S] : f[0] = x /\ \A i \in 1..n : f[i] = step[<<i, f[i - 1]>>]
    <3>1. \E f : Runs(f, S, x, n, step)
      BY <2>1, <2>3, <2>4, LoopRuns
    <3> QED BY <3>1 DEF Runs
  <2>6. \A i \in 1..n : i - 1 \in 0..n /\ f[i - 1] \in S
    BY <2>4, <2>5
  <2>7. \A i \in 1..n : f[i] = _deleteVehiclePhase1(f[i - 1], gone[i])
    BY <2>2, <2>5, <2>6
  <2>8. f = [i \in 0..n |-> IF i = 0 THEN x ELSE _deleteVehiclePhase1(f[i - 1], gone[i])]
    BY <2>4, <2>5, <2>7
  <2>9. without = [i \in 0..n |-> IF i = 0 THEN x ELSE _deleteVehiclePhase1(without[i - 1], gone[i])]
    BY <1>3, <2>8
  <2>10. 0 \in 0..n /\ without[0] = x
    BY <2>4, <2>9
  <2>11. ASSUME NEW i \in 1..n PROVE without[i] = _deleteVehiclePhase1(without[i - 1], gone[i])
    <3>1. i \in 0..n /\ i # 0
      BY <2>4
    <3> QED BY <2>9, <3>1
  <2> QED BY <2>10, <2>11
<1> DEFINE Holds(y, i) == /\ y \in Members /\ Orderly(y, A) /\ Selecting(y)
                          /\ Range(y.vehicles) = Range(x.vehicles) \ {gone[j] : j \in 1..i}
           T == {i \in 0..n : Holds(without[i], i)}
<1>6. 0 \in T
  <2>1. 0 \in 0..n /\ 1..0 = {}
    BY <1>1
  <2> QED BY <1>5, <2>1
<1>7. ASSUME NEW i \in 1..n, i - 1 \in T PROVE i \in T
  <2>1. PICK y : y = without[i - 1]
    OBVIOUS
  <2>2. PICK z : z = without[i]
    OBVIOUS
  <2>3. Holds(y, i - 1) /\ i \in 0..n
    BY <1>1, <1>7, <2>1
  <2>4. z = _deleteVehiclePhase1(y, gone[i])
    BY <1>5, <2>1, <2>2
  <2>5. Leaves(y, z, gone[i], A)
    BY <2>3, <2>4, FirstPhaseIs
  <2>6. \A j : j \in 1..i <=> j \in 1..(i - 1) \/ j = i
    OBVIOUS
  <2>7. Range(z.vehicles) = Range(x.vehicles) \ {gone[j] : j \in 1..i}
    BY <2>3, <2>5, <2>6 DEF Leaves
  <2> QED BY <2>2, <2>3, <2>5, <2>7 DEF Leaves
<1> HIDE DEF T, Holds
<1>8. n \in T
  <2>1. n \in Nat /\ n \in 0..n
    BY <1>1
  <2>2. \A k \in 1..n : k - 1 \in T => k \in T
    BY <1>7
  <2>3. \A k \in 0..n : k \in T
    BY <1>6, <2>1, <2>2, LoopInduction
  <2> QED BY <2>1, <2>3
<1>9. Holds(without[n], n)
  BY <1>8 DEF T
<1>10. Range(gone) = {gone[j] : j \in 1..n}
  BY <1>1, RangeIs DEF n, gone
<1>11. Manager' = without[n]
  BY <1>2, <1>9, ManagerIs DEF Holds
<1>12. vehicles' = Manager'.vehicles
  BY DEF Manager
<1> QED BY <1>2, <1>9, <1>10, <1>11, <1>12 DEF Holds, gone

-----------------------------------------------------------------------------
(* The objects, and the references they leave.                             *)

LEMMA CardinalityOfLine ==
    ASSUME NEW S, NEW s \in Seq(S), IsInjective(s)
    PROVE  IsFiniteSet(Range(s)) /\ Cardinality(Range(s)) = Len(s)
<1>1. PICK n \in Nat : n = Len(s)
  BY LenProperties
<1>2. DOMAIN s = 1..n /\ s \in [1..n -> Range(s)]
  BY <1>1, LenProperties DEF Range
<1>3. s \in Bijection(1..n, Range(s))
  BY <1>2 DEF Bijection, Injection, Surjection, IsInjective, Range
<1>4. ExistsBijection(1..n, Range(s))
  BY <1>3 DEF ExistsBijection
<1>5. IsFiniteSet(1..n) /\ Cardinality(1..n) = n
  BY FS_Interval
<1> QED BY <1>1, <1>4, <1>5, FS_Bijection

LEMMA ListLength ==
    ASSUME NEW x \in ManagerType, Tidy(x)
    PROVE  Cardinality(ListedLinks(x)) = Len(x.rgLinkInfo)
<1>1. PICK n \in Nat : n = Len(x.rgLinkInfo)
  BY ListIs
<1>2. PICK s : s = [i \in 1..n |-> x.rgLinkInfo[i].link]
  OBVIOUS
<1>3. DOMAIN x.rgLinkInfo = 1..n /\ \A i \in 1..n : x.rgLinkInfo[i].link \in Links
  BY <1>1, ListIs DEF LinkInfo
<1>4. s \in Seq(Links) /\ Len(s) = n
  BY <1>2, <1>3, IsASeq, LenProperties
<1>5. IsInjective(s)
  BY <1>2, <1>3 DEF IsInjective, Tidy
<1>6. Range(s) = ListedLinks(x)
  BY <1>2, <1>3 DEF Range, ListedLinks
<1> QED BY <1>1, <1>4, <1>5, <1>6, CardinalityOfLine

LEMMA CreatedAre ==
    ASSUME Objects
    PROVE  /\ IsFiniteSet(Created) /\ IsFiniteSet(deleted) /\ IsFiniteSet(Alive)
           /\ Cardinality(deleted) \in Nat
           /\ Cardinality(Alive) + Cardinality(deleted) = Cardinality(Created)
           /\ Created = 1..Cardinality(Created) /\ Cardinality(Created) \in 0..MaxVehicles
           /\ NewVehicle = Cardinality(Created) + 1
<1>1. PICK n \in 0..MaxVehicles : Created = 1..n
  BY DEF Objects
<1>2. n \in Nat /\ n \in Int /\ 1 \in Int
  BY <1>1, VehicleAssumption
<1>3. IsFiniteSet(Created) /\ Cardinality(Created) = n
  BY <1>1, <1>2, FS_Interval
<1>4. deleted \subseteq Created /\ Alive = Created \ deleted
  BY DEF Objects, Alive
<1>5. IsFiniteSet(deleted) /\ IsFiniteSet(Alive)
  BY <1>3, <1>4, FS_Subset
<1>6. Cardinality(deleted) \in Nat /\ Cardinality(Alive) \in Nat
  BY <1>5, FS_CardinalityType
<1>7. Cardinality(Alive) = Cardinality(Created) - Cardinality(Created \cap deleted)
  BY <1>3, <1>4, FS_Difference
<1>8. Created \cap deleted = deleted
  BY <1>4
<1>9. Cardinality(Alive) + Cardinality(deleted) = Cardinality(Created)
  <2>1. PICK a \in Nat, d \in Nat : a = Cardinality(Alive) /\ d = Cardinality(deleted)
    BY <1>6
  <2>2. a = n - d
    BY <1>3, <1>7, <1>8, <2>1
  <2>3. a + d = n
    BY <1>2, <2>2
  <2> QED BY <1>3, <2>1, <2>3
<1> QED BY <1>1, <1>2, <1>3, <1>5, <1>6, <1>9 DEF NewVehicle

LEMMA CountedOnward ==
    ASSUME NEW w \in World, NEW z \in World, SameBooks(w, z), NEW d, Cardinality(d) \in Nat, Counted(w, d)
    PROVE  Counted(z, d)
<1>1. ASSUME NEW l \in Links PROVE z.link[l].refs <= Len(z.link[l].listeners) + Cardinality(d)
  <2>1. PICK r \in Nat, s \in Nat, n \in Nat, p \in Nat, c \in Nat :
           /\ w.link[l].refs = r /\ z.link[l].refs = s /\ Len(w.link[l].listeners) = n
           /\ Len(z.link[l].listeners) = p /\ Cardinality(d) = c
    BY WorldParts
  <2>2. s + n = r + p /\ r <= n + c
    BY <2>1 DEF SameBooks, Counted
  <2>3. s <= p + c
    BY <2>2
  <2> QED BY <2>1, <2>3
<1> QED BY <1>1 DEF Counted

LEMMA NoManagerIs ==
    NoManager \in ManagerType /\ Tidy(NoManager) /\ Usable(NoManager) /\ ListedLinks(NoManager) = {}
    /\ ~NoManager.signalled
<1>1. <<>> \in Seq(LinkInfo)
  OBVIOUS
<1>2. NoManager \in ManagerType
  BY <1>1 DEF NoManager, ManagerType
<1>3. /\ NoManager.rgLinkInfo = <<>> /\ NoManager.primary = NoLink /\ NoManager.signalled = FALSE
      /\ NoManager.byUser = FALSE
  BY DEF NoManager
<1>4. ListedLinks(NoManager) = {} /\ LostLinks(NoManager) = {} /\ DOMAIN NoManager.rgLinkInfo = {}
  BY <1>3 DEF ListedLinks, LostLinks
<1>5. Tidy(NoManager) /\ Usable(NoManager)
  BY <1>3, <1>4 DEF Tidy, Usable, LiveLinks
<1> QED BY <1>2, <1>3, <1>4, <1>5

(* What goes with a vehicle object.                                        *)
LEMMA DestroyedIs ==
    ASSUME NEW w, Sound(w), Quiet(w), NEW v \in Vehicles, NEW d, IsFiniteSet(d), v \notin d, Counted(w, d)
    PROVE  LET z == Destroyed(w, v)
           IN  /\ Sound(z) /\ Quiet(z) /\ Counted(z, d \cup {v}) /\ z.m[v] = NoManager /\ OthersKept(w, z, v)
               /\ \A l \in Links : z.link[l].state = w.link[l].state
<1>1. PICK z : z = Destroyed(w, v)
  OBVIOUS
<1>2. w \in World /\ Wired(w) /\ \A u \in Vehicles : Tidy(w.m[u])
  BY DEF Sound
<1>3. PICK a \in [Vehicles -> ManagerType], b \in [Links -> LinkType], c \in Seq(Vehicles) :
         w = [m |-> a, link |-> b, removed |-> c]
  BY <1>2, WorldParts
<1>4. PICK e : e = [a EXCEPT ![v] = NoManager]
  OBVIOUS
<1>5. PICK f : f = [l \in Links |-> Unheard(b[l], v)]
  OBVIOUS
<1>6. z = [m |-> e, link |-> f, removed |-> c]
  BY <1>1, <1>3, <1>4, <1>5 DEF Destroyed
<1>7. w.m = a /\ w.link = b /\ w.removed = c
  BY <1>3
<1>8. z.m = e /\ z.link = f /\ z.removed = c
  BY <1>6
<1>9. e \in [Vehicles -> ManagerType] /\ e[v] = NoManager /\ \A u \in Vehicles \ {v} : e[u] = a[u]
  BY <1>3, <1>4, NoManagerIs
<1>10. ASSUME NEW l \in Links
       PROVE  /\ f[l] \in LinkType /\ f[l].state = b[l].state /\ f[l].refs = b[l].refs
              /\ IsInjective(f[l].listeners) /\ Range(f[l].listeners) = Range(b[l].listeners) \ {v}
              /\ Len(f[l].listeners) \in {Len(b[l].listeners), Len(b[l].listeners) - 1}
  <2>1. PICK s : s = RemoveFirst(b[l].listeners, v)
    OBVIOUS
  <2>2. b[l].listeners \in Seq(Vehicles) /\ IsInjective(b[l].listeners)
    BY <1>2, <1>3, <1>7 DEF Wired, LinkType
  <2>3. /\ s \in Seq(Vehicles) /\ IsInjective(s) /\ Range(s) = Range(b[l].listeners) \ {v}
        /\ Len(s) = IF v \in Range(b[l].listeners) THEN Len(b[l].listeners) - 1 ELSE Len(b[l].listeners)
    BY <2>1, <2>2, WithoutFirst
  <2>4. f[l] = [b[l] EXCEPT !.listeners = s]
    BY <1>5, <2>1 DEF Unheard
  <2>5. f[l] \in LinkType /\ f[l].state = b[l].state /\ f[l].refs = b[l].refs /\ f[l].listeners = s
    BY <1>3, <2>3, <2>4 DEF LinkType
  <2> QED BY <2>3, <2>5
<1>11. z \in World
  <2>1. f \in [Links -> LinkType]
    BY <1>5, <1>10
  <2> QED BY <1>3, <1>6, <1>9, <2>1 DEF World
<1>12. \A u \in Vehicles : Tidy(z.m[u])
  BY <1>2, <1>7, <1>8, <1>9, NoManagerIs
<1>13. ASSUME NEW l \in Links
       PROVE  /\ IsInjective(z.link[l].listeners)
              /\ Range(z.link[l].listeners) = {u \in Vehicles : l \in ListedLinks(z.m[u])}
              /\ Len(z.link[l].listeners) <= z.link[l].refs
              /\ z.link[l].refs <= Len(z.link[l].listeners) + Cardinality(d \cup {v})
  <2>1. IsInjective(z.link[l].listeners)
    BY <1>8, <1>10
  <2>2. Range(z.link[l].listeners) = {u \in Vehicles : l \in ListedLinks(z.m[u])}
    <3>1. Range(w.link[l].listeners) = {u \in Vehicles : l \in ListedLinks(w.m[u])}
      BY <1>2 DEF Wired
    <3>2. ASSUME NEW u \in Vehicles
          PROVE  l \in ListedLinks(z.m[u]) <=> u # v /\ l \in ListedLinks(w.m[u])
      BY <1>7, <1>8, <1>9, NoManagerIs
    <3> QED BY <1>7, <1>8, <1>10, <3>1, <3>2
  <2>3. PICK n \in Nat, p \in Nat, r \in Nat, k \in Nat :
           /\ n = Len(b[l].listeners) /\ p = Len(f[l].listeners) /\ r = b[l].refs /\ k = Cardinality(d)
           /\ Cardinality(d \cup {v}) = k + 1
    <3>1. Cardinality(d) \in Nat /\ Cardinality(d \cup {v}) = Cardinality(d) + 1
      BY FS_CardinalityType, FS_AddElement
    <3>2. Len(b[l].listeners) \in Nat /\ b[l].refs \in Nat
      BY <1>2, <1>7, WorldParts
    <3>3. Len(f[l].listeners) \in Nat
      BY <1>8, <1>11, WorldParts
    <3> QED BY <3>1, <3>2, <3>3
  <2>4. p \in {n, n - 1} /\ n <= r /\ r <= n + k
    BY <1>2, <1>7, <1>10, <2>3 DEF Wired, Counted
  <2>5. p <= r /\ r <= p + (k + 1)
    BY <2>4
  <2> QED BY <1>8, <1>10, <2>1, <2>2, <2>3, <2>5
<1>14. ASSUME NEW l \in Links, z.link[l].state = "gone" PROVE z.link[l].listeners = <<>>
  <2>1. w.link[l].listeners = <<>>
    BY <1>7, <1>8, <1>10, <1>14 DEF Quiet
  <2>2. Range(w.link[l].listeners) = {}
    BY <2>1 DEF Range
  <2>3. Range(z.link[l].listeners) = {} /\ z.link[l].listeners \in Seq(Vehicles)
    BY <1>7, <1>8, <1>10, <1>11, <2>2, WorldParts
  <2> QED BY <2>3, EmptyLine
<1>15. Sound(z) /\ Quiet(z) /\ Counted(z, d \cup {v})
  BY <1>11, <1>12, <1>13, <1>14 DEF Sound, Wired, Quiet, Counted
<1> QED BY <1>1, <1>7, <1>8, <1>9, <1>10, <1>15 DEF OthersKept

-----------------------------------------------------------------------------
(* The invariant.                                                          *)

(* The managers and links go back to the state as a handler left them.     *)
LEMMA StateIs ==
    ASSUME NEW w, Sound(w), Quiet(w), NEW d, Counted(w, d), m' = w.m, link' = w.link
    PROVE  Sound(Now') /\ Quiet(Now') /\ Counted(Now', d)
<1>1. PICK z : z = Now'
  OBVIOUS
<1>2. z = [m |-> w.m, link |-> w.link, removed |-> <<>>]
  BY <1>1 DEF Now
<1>3. z.m = w.m /\ z.link = w.link /\ z.removed = <<>>
  BY <1>2
<1>4. w.m \in [Vehicles -> ManagerType] /\ w.link \in [Links -> LinkType]
  BY WorldParts DEF Sound
<1>5. z \in World
  BY <1>2, <1>4 DEF World
<1>6. Sound(z) /\ Quiet(z) /\ Counted(z, d)
  BY <1>3, <1>5 DEF Sound, Wired, Quiet, Counted
<1> QED BY <1>1, <1>6

(* What makes the invariant hold again.                                    *)
LEMMA HoldsAgain ==
    ASSUME NEW w, Sound(w), Quiet(w), Counted(w, deleted'), m' = w.m, link' = w.link,
           \A v \in Vehicles : Usable(w.m[v]) /\ (v \notin Alive' => w.m[v] = NoManager),
           Objects', Manager' \in Members, Orderly(Manager', Alive'), Selecting(Manager'),
           \A v \in Range(vehicles') : /\ ~Leaving(w.m[v])
                                       /\ \A u \in Range(vehicles') \ {v} : id'[u] # id'[v]
    PROVE  IInv'
<1>1. Sound(Now') /\ Quiet(Now') /\ Counted(Now', deleted')
  BY StateIs
<1>2. \A v \in Vehicles : Usable(m'[v]) /\ (v \notin Alive' => m'[v] = NoManager)
  OBVIOUS
<1>3. OnTheList'
  BY DEF OnTheList, Listed, ToSet, Range
<1> QED BY <1>1, <1>2, <1>3 DEF IInv

(* A link is made to disconnect when none of the vehicles uses it.         *)
Releases ==
    \A l \in Links : link[l].state = "up" /\ link'[l].state = "closing" =>
        \A v \in Alive : l \notin ListedLinks(m'[v])

LEMMA OutcomeReleases ==
    ASSUME NEW w, \A l \in Links : w.link[l].state = link[l].state, NEW z, NEW A, Outcome(w, z, A),
           m' = z.m, link' = z.link
    PROVE  Releases
<1>1. ASSUME NEW l \in Links, link[l].state = "up", link'[l].state = "closing", NEW v \in Alive
      PROVE  l \notin ListedLinks(m'[v])
  <2>1. z.link[l].listeners = <<>>
    BY <1>1 DEF Outcome, Released
  <2>2. Range(z.link[l].listeners) = {}
    BY <2>1 DEF Range
  <2>3. v \in Vehicles
    BY DEF Alive, Created
  <2>4. Wired(z)
    BY DEF Outcome, Progress, Sound
  <2> QED BY <2>2, <2>3, <2>4 DEF Wired
<1> QED BY <1>1 DEF Releases

(* The same for a handler whose signals the manager of the vehicles takes. *)
LEMMA TakenAgain ==
    ASSUME NEW w, Sound(w), Counted(w, deleted), NEW A, A = Alive',
           \A v \in Vehicles : Usable(w.m[v]) /\ (v \notin A => w.m[v] = NoManager),
           NEW z, Outcome(w, z, A), Objects', deleted' = deleted, Cardinality(deleted) \in Nat,
           NEW x \in Members, Orderly(x, A), Selecting(x), Takes(z, x),
           \A v \in Range(x.vehicles) : /\ ~Leaving(w.m[v])
                                        /\ \A u \in Range(x.vehicles) \ {v} : id'[u] # id'[v]
    PROVE  IInv'
<1>1. Progress(w, z, A) /\ Quiet(z) /\ Sound(z) /\ z \in World /\ w \in World
  BY DEF Outcome, Progress, Sound
<1>2. Counted(z, deleted')
  BY <1>1, CountedOnward DEF Progress
<1>3. /\ m' = z.m /\ link' = z.link
      /\ Manager' \in Members /\ Orderly(Manager', A) /\ Selecting(Manager')
      /\ Range(vehicles') = Range(x.vehicles) \ Range(z.removed)
  BY <1>1, TakesIs
<1>4. \A v \in Vehicles : Usable(z.m[v]) /\ (v \notin A => z.m[v] = NoManager)
  BY <1>1 DEF Progress
<1>5. ASSUME NEW v \in Range(vehicles')
      PROVE  ~Leaving(z.m[v]) /\ \A u \in Range(vehicles') \ {v} : id'[u] # id'[v]
  <2>1. v \in Range(x.vehicles) /\ v \notin Range(z.removed)
    BY <1>3
  <2>2. v \in Vehicles
    <3>1. x.vehicles \in Seq(Vehicles)
      BY MembersAre
    <3> QED BY <2>1, <3>1, RangeIs, ElementOfSeq
  <2>3. ~Leaving(z.m[v])
    BY <1>1, <2>1, <2>2 DEF Progress
  <2> QED BY <1>3, <2>1, <2>3
<1>6. \A v \in Vehicles : Usable(z.m[v]) /\ (v \notin Alive' => z.m[v] = NoManager)
  BY <1>4
<1>7. Orderly(Manager', Alive')
  BY <1>3
<1> QED BY <1>1, <1>2, <1>3, <1>5, <1>6, <1>7, HoldsAgain

(* What the invariant says of the state a handler finds.                   *)
LEMMA FoundState ==
    ASSUME IInv
    PROVE  /\ Sound(Now) /\ Quiet(Now) /\ Counted(Now, deleted) /\ Objects
           /\ Now.m = m /\ Now.link = link /\ Now.removed = <<>>
           /\ \A v \in Vehicles : Usable(Now.m[v]) /\ (v \notin Alive => Now.m[v] = NoManager)
           /\ Manager \in Members /\ Orderly(Manager, Alive) /\ Selecting(Manager)
           /\ Manager.vehicles = vehicles /\ Manager.active = active /\ Manager.timers = timers
           /\ \A v \in Range(vehicles) : /\ ~Leaving(Now.m[v])
                                         /\ \A u \in Range(vehicles) \ {v} : id[u] # id[v]
           /\ Listed = Range(vehicles) /\ Range(vehicles) \subseteq Alive /\ Alive \subseteq Vehicles
<1>1. Now.m = m /\ Now.link = link /\ Now.removed = <<>>
  BY DEF Now
<1>2. Manager.vehicles = vehicles /\ Manager.active = active /\ Manager.timers = timers
  BY DEF Manager
<1>3. Listed = Range(vehicles)
  BY DEF Listed, ToSet, Range
<1>4. \A v \in Range(vehicles) : /\ ~Leaving(Now.m[v])
                                 /\ \A u \in Range(vehicles) \ {v} : id[u] # id[v]
  BY <1>1, <1>3 DEF IInv, OnTheList
<1>5. Range(vehicles) \subseteq Alive
  BY <1>2 DEF IInv, Orderly
<1>6. Alive \subseteq Vehicles
  BY DEF Alive, Created
<1> QED BY <1>1, <1>2, <1>3, <1>4, <1>5, <1>6 DEF IInv

(* An event of the link managers, once the vehicles are created.           *)
LEMMA EventKeeps ==
    ASSUME IInv, NEW z, Outcome(Now, z, Alive), NEW x \in Members, Orderly(x, Alive), Selecting(x),
           x.vehicles = vehicles, Takes(z, x), UNCHANGED <<id, deleted, ready, bound>>,
           choices' \in 0..bound.choices
    PROVE  IInv' /\ Releases
<1>1. Created' = Created /\ Alive' = Alive
  BY DEF Created, Alive
<1>2. Objects'
  BY <1>1, FoundState DEF Objects
<1>3. Cardinality(deleted) \in Nat
  BY FoundState, CreatedAre
<1>4. PICK A : A = Alive
  OBVIOUS
<1>5. PICK w : w = Now
  OBVIOUS
<1>6. /\ Sound(w) /\ Counted(w, deleted) /\ A = Alive' /\ Outcome(w, z, A) /\ Orderly(x, A)
      /\ \A v \in Vehicles : Usable(w.m[v]) /\ (v \notin A => w.m[v] = NoManager)
  BY <1>1, <1>4, <1>5, FoundState
<1>7. \A v \in Range(x.vehicles) : /\ ~Leaving(w.m[v])
                                   /\ \A u \in Range(x.vehicles) \ {v} : id'[u] # id'[v]
  BY <1>5, FoundState
<1>8. IInv'
  BY <1>2, <1>3, <1>6, <1>7, TakenAgain
<1>9. Releases
  <2>1. m' = z.m /\ link' = z.link
    BY DEF Takes, Handled
  <2>2. \A l \in Links : w.link[l].state = link[l].state
    BY <1>5, FoundState
  <2> QED BY <1>6, <2>1, <2>2, OutcomeReleases
<1> QED BY <1>8, <1>9

LEMMA InitInv ==
    ASSUME Init
    PROVE  IInv
<1>1. PICK w : w = Now
  OBVIOUS
<1>2. /\ m = [v \in Vehicles |-> NoManager]
      /\ link = [l \in Links |-> [state |-> IF l \in bound.links THEN "up" ELSE "gone",
                                  refs |-> 0, listeners |-> <<>>]]
  BY DEF Init, LinksInit
<1>3. w = [m |-> m, link |-> link, removed |-> <<>>]
  BY <1>1 DEF Now
<1>4. w.m = m /\ w.link = link /\ w.removed = <<>>
  BY <1>3
<1>5. ASSUME NEW l \in Links
      PROVE  link[l] \in LinkType /\ link[l].refs = 0 /\ link[l].listeners = <<>>
  BY <1>2 DEF LinkType
<1>6. \A v \in Vehicles : /\ m[v] = NoManager /\ m[v] \in ManagerType
                          /\ Tidy(m[v]) /\ Usable(m[v]) /\ ListedLinks(m[v]) = {}
  BY <1>2, NoManagerIs
<1>7. w \in World
  <2>1. m \in [Vehicles -> ManagerType]
    BY <1>2, NoManagerIs
  <2>2. link \in [Links -> LinkType]
    BY <1>2, <1>5
  <2> QED BY <1>3, <2>1, <2>2 DEF World
<1>8. Range(<<>>) = {} /\ IsInjective(<<>>) /\ Len(<<>>) = 0
  BY DEF Range, IsInjective
<1>9. Created = {} /\ Alive = {} /\ Listed = {} /\ deleted = {} /\ ready = {}
  BY DEF Init, Created, Alive, Listed, ToSet
<1>10. Cardinality(deleted) = 0
  BY <1>9, FS_EmptySet
<1>11. Sound(w) /\ Quiet(w) /\ Counted(w, deleted)
  <2>1. Wired(w)
    BY <1>4, <1>5, <1>6, <1>8 DEF Wired
  <2>2. Quiet(w)
    BY <1>4, <1>5 DEF Quiet
  <2>3. Counted(w, deleted)
    BY <1>4, <1>5, <1>8, <1>10 DEF Counted
  <2> QED BY <1>4, <1>6, <1>7, <2>1, <2>2, <2>3 DEF Sound
<1>12. Objects
  <2>1. bound \in Bounds /\ choices = 0 /\ bound.choices \in Nat
    BY BoundAssumption DEF Init
  <2>2. id \in [Vehicles -> Ids \cup {0}]
    BY DEF Init
  <2>3. \E n \in 0..MaxVehicles : Created = 1..n
    <3>1. 0 \in 0..MaxVehicles /\ 1..0 = {}
      BY VehicleAssumption
    <3> QED BY <1>9, <3>1
  <2> QED BY <1>9, <2>1, <2>2, <2>3 DEF Objects
<1>13. PICK x : x = Manager
  OBVIOUS
<1>14. x = [vehicles |-> <<>>, active |-> NoVehicle, available |-> FALSE, paramReady |-> FALSE, timers |-> <<>>]
  BY <1>13 DEF Init, Manager
<1>15. x \in Members
  BY <1>14 DEF Members
<1>16. x.vehicles = <<>> /\ x.active = NoVehicle /\ x.timers = <<>>
  BY <1>14
<1>17. Deletes(x) = {} /\ DOMAIN x.timers = {}
  BY <1>16 DEF Deletes
<1>18. Orderly(x, Alive) /\ Selecting(x)
  BY <1>8, <1>9, <1>16, <1>17 DEF Orderly, Selecting
<1>19. OnTheList
  BY <1>9 DEF OnTheList
<1> QED BY <1>1, <1>6, <1>11, <1>12, <1>13, <1>15, <1>18, <1>19, <1>9 DEF IInv, Init

LEMMA HeartbeatKeeps ==
    ASSUME IInv, NEW i \in Ids, NEW l \in Links, _vehicleHeartbeatInfo(i, l)
    PROVE  IInv' /\ Releases
<1>1. PICK n : n = NewVehicle
  OBVIOUS
<1>2. /\ link[l].state # "gone" /\ i \notin {id[v] : v \in Listed} /\ n <= bound.vehicles
      /\ id' = [id EXCEPT ![n] = i] /\ UNCHANGED <<deleted, ready, choices, bound>>
  BY <1>1 DEF _vehicleHeartbeatInfo
<1>3. /\ Created = 1..(n - 1) /\ n \in Nat \ {0} /\ n <= MaxVehicles /\ n \in Vehicles
      /\ Cardinality(deleted) \in Nat /\ n \notin Created
  <2>1. PICK c \in 0..MaxVehicles : Created = 1..c /\ n = c + 1 /\ Cardinality(deleted) \in Nat
    BY <1>1, FoundState, CreatedAre
  <2>2. bound.vehicles \in 0..MaxVehicles
    BY FoundState, BoundAssumption DEF Objects
  <2> QED BY <1>2, <2>1, <2>2, VehicleAssumption DEF Vehicles
<1>4. id \in [Vehicles -> Ids \cup {0}] /\ deleted \subseteq Created /\ ready \subseteq Alive
  BY FoundState DEF Objects
<1>5. Created' = Created \cup {n} /\ id'[n] = i /\ \A v \in Vehicles \ {n} : id'[v] = id[v]
  <2>1. id'[n] = i /\ \A v \in Vehicles \ {n} : id'[v] = id[v]
    BY <1>2, <1>3, <1>4
  <2> QED BY <1>3, <2>1, IdAssumption DEF Created
<1>6. PICK A : A = Alive'
  OBVIOUS
<1>7. A = Alive \cup {n} /\ n \notin Alive /\ A \subseteq Vehicles
  BY <1>2, <1>3, <1>4, <1>5, <1>6 DEF Alive, Created
<1>8. Objects'
  <2>1. n \in 0..MaxVehicles /\ Created' = 1..n
    BY <1>3, <1>5, VehicleAssumption
  <2>2. id' \in [Vehicles -> Ids \cup {0}]
    BY <1>2, <1>3, <1>4
  <2>3. bound' \in Bounds /\ choices' \in 0..bound'.choices
    BY <1>2, FoundState DEF Objects
  <2>4. deleted' \subseteq Created' /\ ready' \subseteq Alive'
    BY <1>2, <1>4, <1>5, <1>6, <1>7
  <2> QED BY <2>1, <2>2, <2>3, <2>4 DEF Objects
<1>9. PICK w : w = Now
  OBVIOUS
<1>10. /\ Sound(w) /\ Quiet(w) /\ Counted(w, deleted) /\ w.m[n] = NoManager /\ w.link[l].state # "gone"
       /\ \A v \in Vehicles : Usable(w.m[v]) /\ (v \notin Alive => w.m[v] = NoManager)
       /\ \A v \in Range(vehicles) : ~Leaving(w.m[v])
  BY <1>2, <1>3, <1>7, <1>9, FoundState
<1>11. PICK y : y = _addLink(w, n, l)
  OBVIOUS
<1>12. /\ Sound(y) /\ Usable(y.m[n]) /\ OthersKept(w, y, n) /\ SameBooks(w, y) /\ Opens(w, y)
       /\ y.m[n].signalled = w.m[n].signalled /\ ListedLinks(y.m[n]) = ListedLinks(w.m[n]) \cup {l}
  <2>1. l \notin ListedLinks(w.m[n])
    BY <1>10, NoManagerIs
  <2> QED BY <1>3, <1>10, <1>11, <2>1, AddLinkIs
<1>13. Quiet(y)
  <2>1. Leaving(y.m[n]) => Leaving(w.m[n])
    BY <1>10, NoManagerIs DEF Leaving, NoManager
  <2>2. Range(w.removed) \subseteq Range(y.removed)
    BY <1>3, <1>10, <1>11, NoManagerIs, AddLinkIs
  <2>3. Progress(w, y, A)
    BY <1>3, <1>7, <1>10, <1>12, <2>1, <2>2, ProgressOfOne
  <2>4. Adds(w, y, l)
    BY <1>12 DEF Adds, OthersKept
  <2>5. Outcome(w, y, A)
    BY <1>10, <1>12, <2>3, <2>4, OpenedOutcome
  <2> QED BY <2>5 DEF Outcome
<1>14. Counted(y, deleted)
  BY <1>3, <1>10, <1>12, CountedOnward DEF Sound
<1>15. /\ \A v \in Vehicles : Usable(y.m[v]) /\ (v \notin A => y.m[v] = NoManager)
       /\ y.link[l].state # "gone" /\ ~Leaving(y.m[n])
  <2>1. ~Leaving(y.m[n])
    <3>1. y.m[n] \in ManagerType
      BY <1>3, <1>12, WorldParts DEF Sound
    <3> QED BY <1>10, <1>12, <3>1, ListIs, NoManagerIs DEF Leaving
  <2>2. \A v \in Vehicles : Usable(y.m[v]) /\ (v \notin A => y.m[v] = NoManager)
    BY <1>7, <1>10, <1>12 DEF OthersKept
  <2> QED BY <1>10, <1>12, <2>1, <2>2 DEF Opens
<1>16. PICK z : z = Hears(y, i, l, id')
  OBVIOUS
<1>17. Outcome(y, z, A)
  <2>1. \A v \in Vehicles : id'[v] = i /\ v \notin deleted => v \in A
    BY <1>2, <1>6, IdAssumption DEF Alive, Created
  <2> QED BY <1>12, <1>13, <1>15, <1>16, <2>1, HearingOutcome
<1>18. PICK a : a = [Manager EXCEPT !.vehicles = Append(@, n)]
  OBVIOUS
<1>19. PICK x : x = IF Len(a.vehicles) > 1 THEN a ELSE setActiveVehicle(a, n)
  OBVIOUS
<1>20. Takes(z, x)
  <2>1. Takes(Hears(_addLink(Now, n, l), i, l, id'), IF Len(a.vehicles) > 1 THEN a ELSE setActiveVehicle(a, n))
    BY <1>1, <1>18 DEF _vehicleHeartbeatInfo
  <2> QED BY <1>9, <1>11, <1>16, <1>19, <2>1
<1>21. /\ a \in Members /\ a.vehicles = Append(vehicles, n) /\ a.active = active /\ a.timers = timers
       /\ Range(a.vehicles) = Range(vehicles) \cup {n} /\ IsInjective(a.vehicles)
       /\ Len(a.vehicles) = Len(vehicles) + 1 /\ Len(vehicles) \in Nat /\ a.available = Manager.available
       /\ vehicles \in Seq(Vehicles)
  <2>1. Manager \in Members /\ Manager.vehicles = vehicles /\ Manager.active = active /\ Manager.timers = timers
    BY FoundState
  <2>2. vehicles \in Seq(Vehicles) /\ IsInjective(vehicles) /\ n \notin Range(vehicles)
    BY <1>7, <2>1, FoundState, MembersAre DEF Orderly
  <2>3. PICK s : s = Append(vehicles, n)
    OBVIOUS
  <2>4. /\ s \in Seq(Vehicles) /\ IsInjective(s) /\ Range(s) = Range(vehicles) \cup {n}
        /\ Len(s) = Len(vehicles) + 1 /\ Len(vehicles) \in Nat
    BY <1>3, <2>2, <2>3, LongerLine, AppendProperties, LenProperties
  <2>5. a = [Manager EXCEPT !.vehicles = s]
    BY <1>18, <2>1, <2>3
  <2>6. /\ a \in Members /\ a.vehicles = s /\ a.active = active /\ a.timers = timers
        /\ a.available = Manager.available
    BY <2>1, <2>4, <2>5 DEF Members
  <2> QED BY <2>2, <2>3, <2>4, <2>6
<1>22. Orderly(a, A)
  <2>1. Deletes(a) = Deletes(Manager)
    BY <1>21, FoundState DEF Deletes
  <2>2. Orderly(Manager, Alive) /\ Manager.vehicles = vehicles /\ Manager.active = active /\ Manager.timers = timers
    BY FoundState
  <2>3. Range(a.vehicles) \subseteq A /\ a.active \in A \cup {NoVehicle}
    BY <1>7, <1>21, <2>2 DEF Orderly
  <2>4. \A j \in DOMAIN timers : timers[j].vehicle \in Alive
    BY <2>2 DEF Orderly
  <2>5. Deletes(Manager) \subseteq DOMAIN timers
    BY <2>2 DEF Deletes
  <2>6. \A j \in Deletes(Manager) : timers[j].vehicle \notin Range(vehicles)
                                    /\ \A k \in DOMAIN timers : k > j => timers[k].vehicle # timers[j].vehicle
    BY <2>2 DEF Orderly
  <2>7. \A j \in Deletes(Manager) : timers[j].vehicle \notin Range(a.vehicles)
    BY <1>7, <1>21, <2>4, <2>5, <2>6
  <2>8. Alive \ Range(vehicles) \subseteq {timers[j].vehicle : j \in Deletes(Manager)}
    BY <2>2 DEF Orderly
  <2>9. A \ Range(a.vehicles) = Alive \ Range(vehicles)
    BY <1>7, <1>21
  <2>10. A \ Range(a.vehicles) \subseteq {a.timers[j].vehicle : j \in Deletes(a)}
    BY <1>21, <2>1, <2>8, <2>9
  <2>11. \A j \in DOMAIN a.timers : a.timers[j].vehicle \in A
    BY <1>7, <1>21, <2>4
  <2>12. \A j \in Deletes(a) : /\ a.timers[j].vehicle \notin Range(a.vehicles)
                               /\ \A k \in DOMAIN a.timers : k > j => a.timers[k].vehicle # a.timers[j].vehicle
    BY <1>21, <2>1, <2>6, <2>7
  <2> QED BY <1>21, <2>3, <2>10, <2>11, <2>12 DEF Orderly
<1>23. x \in Members /\ Orderly(x, A) /\ Selecting(x) /\ x.vehicles = a.vehicles
  <2>1. CASE Len(a.vehicles) > 1
    <3>1. vehicles # <<>> /\ a.vehicles # <<>>
      BY <1>21, <2>1, EmptySeq
    <3>2. Deletes(a) = Deletes(Manager) /\ a.timers = Manager.timers /\ a.active = Manager.active
          /\ Manager.vehicles = vehicles /\ Range(vehicles) \subseteq Range(a.vehicles)
      BY <1>21, FoundState DEF Deletes
    <3>3. Selecting(Manager)
      BY FoundState
    <3>4. Selecting(a)
      BY <1>21, <3>1, <3>2, <3>3 DEF Selecting
    <3> QED BY <1>19, <1>21, <1>22, <2>1, <3>4
  <2>2. CASE ~(Len(a.vehicles) > 1)
    <3>1. n \in Range(a.vehicles) /\ n # a.active
      BY <1>3, <1>7, <1>21, FoundState DEF Orderly, NoVehicle
    <3>2. x = setActiveVehicle(a, n)
      BY <1>19, <2>2
    <3> QED BY <1>21, <1>22, <3>1, <3>2, SetActiveIs
  <2> QED BY <2>1, <2>2
<1>24. ASSUME NEW v \in Range(x.vehicles)
       PROVE  ~Leaving(y.m[v]) /\ \A u \in Range(x.vehicles) \ {v} : id'[u] # id'[v]
  <2>1. Range(x.vehicles) = Range(vehicles) \cup {n}
    BY <1>21, <1>23
  <2>2. n \notin Range(vehicles) /\ Range(vehicles) \subseteq Vehicles /\ Range(vehicles) = Listed
    BY <1>7, FoundState
  <2>3. \A u \in Range(vehicles) : id'[u] = id[u] /\ id[u] # i /\ ~Leaving(y.m[u])
    BY <1>2, <1>5, <1>10, <1>12, <2>2 DEF OthersKept
  <2>4. \A u, t \in Range(vehicles) : u # t => id[u] # id[t]
    BY FoundState
  <2>5. CASE v = n
    BY <1>5, <1>15, <2>1, <2>2, <2>3, <2>5
  <2>6. CASE v # n
    BY <1>5, <2>1, <2>2, <2>3, <2>4, <2>6
  <2> QED BY <2>5, <2>6
<1>25. IInv'
  BY <1>2, <1>3, <1>6, <1>8, <1>12, <1>14, <1>15, <1>17, <1>20, <1>23, <1>24, TakenAgain
<1>26. Releases
  <2>1. m' = z.m /\ link' = z.link
    BY <1>20 DEF Takes, Handled
  <2>2. \A j \in Links : y.link[j].state = link[j].state
    BY <1>9, <1>12, FoundState DEF Opens
  <2> QED BY <1>17, <2>1, <2>2, OutcomeReleases
<1> QED BY <1>25, <1>26

LEMMA ActivationKeeps ==
    ASSUME IInv, _setActiveVehiclePhase2
    PROVE  IInv' /\ Releases
<1>1. PICK x : x = Manager
  OBVIOUS
<1>2. PICK c : c = Head(timers)
  OBVIOUS
<1>3. /\ x \in Members /\ Orderly(x, Alive) /\ Selecting(x) /\ x.vehicles = vehicles
      /\ x.active = active /\ x.timers = timers
  BY <1>1, FoundState
<1>4. /\ timers # <<>> /\ c.does = "activate" /\ timers \in Seq(Pending)
      /\ UNCHANGED <<m, link, id, deleted, ready, choices, bound>>
      /\ ManagerBecomes(Activated([Manager EXCEPT !.timers = Tail(@)], c.vehicle))
  BY <1>2, <1>3, MembersAre DEF _setActiveVehiclePhase2
<1>5. c = timers[1] /\ 1 \in DOMAIN timers /\ Tail(timers) \in Seq(Pending) /\ Len(timers) \in Nat \ {0}
      /\ Len(Tail(timers)) = Len(timers) - 1
  BY <1>2, <1>4, HeadTailProperties, LenProperties, EmptySeq
<1>6. c \in Pending /\ c.vehicle \in Alive /\ c.vehicle \in Vehicles /\ c.vehicle # NoVehicle
  <2>1. c.vehicle \in Alive
    BY <1>3, <1>5 DEF Orderly
  <2>2. c \in Pending
    BY <1>4, <1>5, ElementOfSeq, LenProperties
  <2> QED BY <2>1, <2>2, VehicleAssumption DEF Pending, Vehicles, NoVehicle
<1>7. PICK p \in BOOLEAN : p = (x.available \/ c.vehicle # NoVehicle)
  OBVIOUS
<1>8. PICK q \in BOOLEAN : q = (x.paramReady \/ c.vehicle \in ready)
  OBVIOUS
<1>9. PICK t : t = Tail(timers)
  OBVIOUS
<1>10. PICK z : z = Activated([Manager EXCEPT !.timers = Tail(@)], c.vehicle)
  OBVIOUS
<1>11. z = [x EXCEPT !.timers = t, !.active = c.vehicle, !.available = p, !.paramReady = q]
  <2>1. PICK y : y = [x EXCEPT !.timers = t]
    OBVIOUS
  <2>2. /\ y.available = x.available /\ y.paramReady = x.paramReady
        /\ y = [Manager EXCEPT !.timers = Tail(@)]
    BY <1>1, <1>3, <1>9, <2>1 DEF Members
  <2>3. z = [y EXCEPT !.active = c.vehicle, !.available = p, !.paramReady = q]
    BY <1>7, <1>8, <1>10, <2>2 DEF Activated
  <2> QED BY <2>1, <2>3
<1>12. /\ z \in Members /\ z.timers = t /\ z.vehicles = x.vehicles /\ z.active = c.vehicle /\ z.available = TRUE
  BY <1>3, <1>5, <1>6, <1>7, <1>9, <1>11 DEF Members
<1>13. t = <<>> => c.vehicle \in Range(vehicles)
  <2>1. ASSUME t = <<>> PROVE c.vehicle \in Range(vehicles)
    <3>1. Len(timers) = 1
      <4>1. Len(<<>>) = 0
        OBVIOUS
      <4>2. PICK k \in Nat : k = Len(timers) /\ Len(Tail(timers)) = k - 1
        BY <1>5
      <4>3. k - 1 = 0
        BY <1>9, <2>1, <4>1, <4>2
      <4>4. k = 1
        BY <4>3
      <4>5. k = Len(timers)
        BY <4>2
      <4> QED BY <4>4, <4>5
    <3>2. 1 \notin Deletes(x)
      BY <1>3, <1>4, <1>5 DEF Deletes
    <3> QED BY <1>3, <1>4, <1>5, <3>1, <3>2 DEF Selecting
  <2> QED BY <2>1
<1>14. Orderly(z, Alive) /\ Selecting(z)
  <2>1. Alive = Alive \ (IF Head(x.timers).does = "delete" THEN {Head(x.timers).vehicle} ELSE {})
    BY <1>2, <1>3, <1>4
  <2>2. z.timers = <<>> => /\ z.active \in Range(z.vehicles) \cup {NoVehicle}
                           /\ z.active = NoVehicle <=> z.vehicles = <<>>
                           /\ z.active # NoVehicle => z.available
    <3>1. ASSUME t = <<>> PROVE vehicles # <<>>
      BY <1>13, <3>1 DEF Range
    <3> QED BY <1>3, <1>6, <1>12, <1>13, <3>1
  <2>3. x.timers # <<>> /\ z.timers = Tail(x.timers) /\ z.active \in Alive \cup {NoVehicle}
    BY <1>3, <1>4, <1>6, <1>9, <1>12
  <2> QED BY <1>3, <1>12, <2>1, <2>2, <2>3, ChangeMade
<1>15. Manager' = z /\ vehicles' = vehicles
  <2>1. Manager' = z
    BY <1>4, <1>10, <1>12, ManagerIs
  <2>2. vehicles' = Manager'.vehicles
    BY DEF Manager
  <2> QED BY <1>3, <1>12, <2>1, <2>2
<1>16. Created' = Created /\ Alive' = Alive
  BY <1>4 DEF Created, Alive
<1>17. Objects'
  BY <1>4, <1>16, FoundState DEF Objects
<1>18. PICK w : w = Now
  OBVIOUS
<1>19. /\ Sound(w) /\ Quiet(w) /\ Counted(w, deleted') /\ m' = w.m /\ link' = w.link
       /\ \A v \in Vehicles : Usable(w.m[v]) /\ (v \notin Alive' => w.m[v] = NoManager)
       /\ \A v \in Range(vehicles') : /\ ~Leaving(w.m[v])
                                      /\ \A u \in Range(vehicles') \ {v} : id'[u] # id'[v]
  BY <1>4, <1>15, <1>16, <1>18, FoundState
<1>20. Manager' \in Members /\ Orderly(Manager', Alive') /\ Selecting(Manager')
  BY <1>12, <1>14, <1>15, <1>16
<1> QED BY <1>4, <1>17, <1>19, <1>20, HoldsAgain DEF Releases

LEMMA DeletionKeeps ==
    ASSUME IInv, _deleteVehiclePhase2
    PROVE  IInv' /\ Releases
<1>1. PICK x : x = Manager
  OBVIOUS
<1>2. PICK c : c = Head(timers)
  OBVIOUS
<1>3. /\ x \in Members /\ Orderly(x, Alive) /\ Selecting(x) /\ x.vehicles = vehicles
      /\ x.active = active /\ x.timers = timers /\ Range(vehicles) \subseteq Alive
      /\ vehicles \in Seq(Vehicles)
  BY <1>1, FoundState, MembersAre
<1>4. PICK next : next = NextActive(Manager)
  OBVIOUS
<1>5. /\ timers # <<>> /\ c.does = "delete" /\ timers \in Seq(Pending)
      /\ ManagerBecomes(Activated([Manager EXCEPT !.timers = Tail(@)], next))
      /\ deleted' = deleted \cup {c.vehicle} /\ ready' = ready \ {c.vehicle}
      /\ Handled(Destroyed(Now, c.vehicle)) /\ UNCHANGED <<id, choices, bound>>
  BY <1>2, <1>3, <1>4, MembersAre DEF _deleteVehiclePhase2
<1>6. PICK v : v = c.vehicle
  OBVIOUS
<1>7. Tail(timers) \in Seq(Pending) /\ c = timers[1] /\ 1 \in DOMAIN timers
  BY <1>2, <1>5, HeadTailProperties, LenProperties, EmptySeq
<1>8. /\ v \in Alive /\ v \in Vehicles /\ v \notin deleted /\ v \notin Range(vehicles)
  <2>1. v \in Alive
    BY <1>3, <1>6, <1>7 DEF Orderly
  <2>2. 1 \in Deletes(x)
    BY <1>3, <1>5, <1>7 DEF Deletes
  <2>3. v \notin Range(vehicles)
    BY <1>3, <1>6, <1>7, <2>2 DEF Orderly
  <2> QED BY <2>1, <2>3 DEF Alive, Created
<1>9. PICK p \in BOOLEAN : p = (x.available \/ next # NoVehicle)
  OBVIOUS
<1>10. PICK q \in BOOLEAN : q = (x.paramReady \/ next \in ready)
  OBVIOUS
<1>11. PICK t : t = Tail(timers)
  OBVIOUS
<1>12. PICK z : z = Activated([Manager EXCEPT !.timers = Tail(@)], next)
  OBVIOUS
<1>13. z = [x EXCEPT !.timers = t, !.active = next, !.available = p, !.paramReady = q]
  <2>1. PICK y : y = [x EXCEPT !.timers = t]
    OBVIOUS
  <2>2. /\ y.available = x.available /\ y.paramReady = x.paramReady
        /\ y = [Manager EXCEPT !.timers = Tail(@)]
    BY <1>1, <1>3, <1>11, <2>1 DEF Members
  <2>3. z = [y EXCEPT !.active = next, !.available = p, !.paramReady = q]
    BY <1>9, <1>10, <1>12, <2>2 DEF Activated
  <2> QED BY <2>1, <2>3
<1>14. /\ vehicles = <<>> => next = NoVehicle
       /\ vehicles # <<>> => next \in Range(vehicles) /\ next \in Vehicles /\ next # NoVehicle
  <2>1. next = IF vehicles = <<>> THEN NoVehicle ELSE Head(vehicles)
    BY <1>1, <1>3, <1>4 DEF NextActive
  <2>2. vehicles # <<>> => Head(vehicles) \in Range(vehicles) /\ Head(vehicles) \in Vehicles
    BY <1>3, HeadTailOfLine, HeadTailProperties DEF Orderly
  <2> QED BY <2>1, <2>2, VehicleAssumption DEF Vehicles, NoVehicle
<1>15. /\ z \in Members /\ z.timers = t /\ z.vehicles = x.vehicles /\ z.active = next /\ z.available = p
  BY <1>3, <1>7, <1>11, <1>13, <1>14 DEF Members
<1>16. PICK B : B = Alive \ {v}
  OBVIOUS
<1>17. Orderly(z, B) /\ Selecting(z)
  <2>1. B = Alive \ (IF Head(x.timers).does = "delete" THEN {Head(x.timers).vehicle} ELSE {})
    BY <1>2, <1>3, <1>5, <1>6, <1>16
  <2>2. z.timers = <<>> => /\ z.active \in Range(z.vehicles) \cup {NoVehicle}
                           /\ z.active = NoVehicle <=> z.vehicles = <<>>
                           /\ z.active # NoVehicle => z.available
    BY <1>3, <1>9, <1>14, <1>15
  <2>3. x.timers # <<>> /\ z.timers = Tail(x.timers) /\ z.active \in B \cup {NoVehicle}
    BY <1>3, <1>5, <1>8, <1>11, <1>14, <1>15, <1>16
  <2> QED BY <1>3, <1>15, <2>1, <2>2, <2>3, ChangeMade
<1>18. Manager' = z /\ vehicles' = vehicles
  <2>1. Manager' = z
    BY <1>5, <1>12, <1>15, ManagerIs
  <2>2. vehicles' = Manager'.vehicles
    BY DEF Manager
  <2> QED BY <1>3, <1>15, <2>1, <2>2
<1>19. Created' = Created /\ Alive' = B
  BY <1>5, <1>6, <1>16 DEF Created, Alive
<1>20. Objects'
  <2>1. deleted \subseteq Created /\ ready \subseteq Alive
    BY FoundState DEF Objects
  <2>2. deleted' \subseteq Created /\ ready' \subseteq Alive'
    BY <1>5, <1>6, <1>8, <1>16, <1>19, <2>1 DEF Alive
  <2> QED BY <1>5, <1>19, <2>2, FoundState DEF Objects
<1>21. PICK a : a = Now
  OBVIOUS
<1>22. PICK w : w = Destroyed(a, v)
  OBVIOUS
<1>23. /\ Sound(w) /\ Quiet(w) /\ Counted(w, deleted') /\ w.m[v] = NoManager /\ OthersKept(a, w, v)
       /\ \A l \in Links : w.link[l].state = link[l].state
  <2>1. Sound(a) /\ Quiet(a) /\ Counted(a, deleted) /\ IsFiniteSet(deleted)
    BY <1>21, FoundState, CreatedAre
  <2>2. deleted' = deleted \cup {v}
    BY <1>5, <1>6
  <2>3. a.link = link
    BY <1>21, FoundState
  <2> QED BY <1>8, <1>22, <2>1, <2>2, <2>3, DestroyedIs
<1>24. m' = w.m /\ link' = w.link
  BY <1>5, <1>6, <1>21, <1>22 DEF Handled
<1>25. \A u \in Vehicles : Usable(w.m[u]) /\ (u \notin Alive' => w.m[u] = NoManager)
  BY <1>16, <1>19, <1>21, <1>23, FoundState, NoManagerIs DEF OthersKept
<1>26. ASSUME NEW u \in Range(vehicles')
       PROVE  ~Leaving(w.m[u]) /\ \A o \in Range(vehicles') \ {u} : id'[o] # id'[u]
  <2>1. u \in Range(vehicles) /\ u # v /\ u \in Vehicles
    BY <1>8, <1>18, FoundState
  <2>2. w.m[u] = a.m[u]
    BY <1>23, <2>1 DEF OthersKept
  <2> QED BY <1>5, <1>18, <1>21, <2>1, <2>2, FoundState
<1>27. Manager' \in Members /\ Orderly(Manager', Alive') /\ Selecting(Manager')
  BY <1>15, <1>17, <1>18, <1>19
<1>28. Releases
  BY <1>23, <1>24 DEF Releases
<1> QED BY <1>20, <1>23, <1>24, <1>25, <1>26, <1>27, <1>28, HoldsAgain

LEMMA ReadyKeeps ==
    ASSUME IInv, NEW v, _vehicleParametersReadyChanged(v)
    PROVE  IInv' /\ Releases
<1>1. PICK x : x = Manager
  OBVIOUS
<1>2. /\ v \in Alive \ ready /\ ready' = ready \cup {v}
      /\ ManagerBecomes([Manager EXCEPT !.paramReady = @ \/ v = active])
      /\ UNCHANGED <<m, link, id, deleted, choices, bound>>
  BY DEF _vehicleParametersReadyChanged
<1>3. x \in Members /\ Orderly(x, Alive) /\ Selecting(x) /\ x.vehicles = vehicles
  BY <1>1, FoundState
<1>4. PICK q \in BOOLEAN : q = (x.paramReady \/ v = active)
  OBVIOUS
<1>5. PICK z : z = [x EXCEPT !.paramReady = q]
  OBVIOUS
<1>6. /\ z \in Members /\ z.vehicles = x.vehicles /\ z.active = x.active /\ z.timers = x.timers
      /\ z.available = x.available
  BY <1>3, <1>4, <1>5 DEF Members
<1>7. Orderly(z, Alive) /\ Selecting(z)
  <2>1. Deletes(z) = Deletes(x)
    BY <1>6 DEF Deletes
  <2> QED BY <1>3, <1>6, <2>1 DEF Orderly, Selecting
<1>8. Manager' = z /\ vehicles' = vehicles
  <2>1. [Manager EXCEPT !.paramReady = @ \/ v = active] = z
    BY <1>1, <1>4, <1>5
  <2>2. Manager' = z
    BY <1>2, <1>6, <2>1, ManagerIs
  <2>3. vehicles' = Manager'.vehicles
    BY DEF Manager
  <2> QED BY <1>3, <1>6, <2>2, <2>3
<1>9. Created' = Created /\ Alive' = Alive
  BY <1>2 DEF Created, Alive
<1>10. Objects'
  BY <1>2, <1>9, FoundState DEF Objects
<1>11. PICK w : w = Now
  OBVIOUS
<1>12. /\ Sound(w) /\ Quiet(w) /\ Counted(w, deleted') /\ m' = w.m /\ link' = w.link
       /\ \A u \in Vehicles : Usable(w.m[u]) /\ (u \notin Alive' => w.m[u] = NoManager)
       /\ \A u \in Range(vehicles') : /\ ~Leaving(w.m[u])
                                      /\ \A o \in Range(vehicles') \ {u} : id'[o] # id'[u]
  BY <1>2, <1>8, <1>9, <1>11, FoundState
<1>13. Manager' \in Members /\ Orderly(Manager', Alive') /\ Selecting(Manager')
  BY <1>6, <1>7, <1>8, <1>9
<1> QED BY <1>2, <1>10, <1>12, <1>13, HoldsAgain DEF Releases

LEMMA EventsKeep ==
    ASSUME IInv
    PROVE  /\ \A i \in Ids, l \in Links : messageReceived(i, l) => (IInv' /\ Releases)
           /\ \A v \in Vehicles : CommLostCheck(v) \/ CloseVehicle(v) \/ UserChooses(v) => (IInv' /\ Releases)
           /\ \A l \in Links : Disconnected(l) => (IInv' /\ Releases)
<1>1. PICK w : w = Now
  OBVIOUS
<1>2. PICK x : x = Manager
  OBVIOUS
<1>3. /\ Sound(w) /\ Quiet(w) /\ w.m = m /\ w.link = link /\ \A v \in Vehicles : Usable(w.m[v])
      /\ x \in Members /\ Orderly(x, Alive) /\ Selecting(x) /\ x.vehicles = vehicles
      /\ Listed = Range(vehicles) /\ Listed \subseteq Alive /\ Alive \subseteq Vehicles
      /\ choices \in 0..bound.choices
  BY <1>1, <1>2, FoundState DEF Objects
<1>4. ASSUME NEW z, Outcome(w, z, Alive), Takes(z, x), UNCHANGED <<id, deleted, ready, choices, bound>>
      PROVE  IInv' /\ Releases
  BY <1>1, <1>3, <1>4, EventKeeps
<1>5. ASSUME NEW i \in Ids, NEW l \in Links, messageReceived(i, l) PROVE IInv' /\ Releases
  <2>1. PICK z : z = Hears(w, i, l, id)
    OBVIOUS
  <2>2. /\ w.link[l].state # "gone" /\ Takes(z, x) /\ UNCHANGED <<id, deleted, ready, choices, bound>>
    BY <1>1, <1>2, <1>3, <1>5, <2>1 DEF messageReceived
  <2>3. \A v \in Vehicles : id[v] = i /\ v \notin deleted => v \in Alive
    BY IdAssumption DEF Alive, Created
  <2>4. Outcome(w, z, Alive)
    BY <1>3, <2>1, <2>2, <2>3, HearingOutcome
  <2> QED BY <1>4, <2>2, <2>4
<1>6. ASSUME NEW v \in Vehicles, CommLostCheck(v) PROVE IInv' /\ Releases
  <2>1. PICK silent \in SUBSET ListedLinks(m[v]) : Takes(_commLostCheck(w, v, silent), x)
    BY <1>1, <1>2, <1>6 DEF CommLostCheck
  <2>2. v \in Alive /\ UNCHANGED <<id, deleted, ready, choices, bound>>
    BY <1>6 DEF CommLostCheck
  <2>3. Outcome(w, _commLostCheck(w, v, silent), Alive)
    BY <1>3, <2>2, CheckOutcome
  <2> QED BY <1>4, <2>1, <2>2, <2>3
<1>7. ASSUME NEW v \in Vehicles, CloseVehicle(v) PROVE IInv' /\ Releases
  <2>1. /\ v \in Listed /\ Takes(closeVehicle(w, v), x) /\ UNCHANGED <<id, deleted, ready, choices, bound>>
    BY <1>1, <1>2, <1>7 DEF CloseVehicle
  <2>2. Outcome(w, closeVehicle(w, v), Alive)
    BY <1>3, <2>1, ClosingOutcome
  <2> QED BY <1>4, <2>1, <2>2
<1>8. ASSUME NEW l \in Links, Disconnected(l) PROVE IInv' /\ Releases
  <2>1. Takes(LinkDisconnects(w, l), x) /\ UNCHANGED <<id, deleted, ready, choices, bound>>
    BY <1>1, <1>2, <1>8 DEF Disconnected
  <2>2. Range(w.link[l].listeners) \subseteq Alive
    <3>1. \A v \in Vehicles : v \notin Alive => w.m[v] = NoManager
      BY <1>1, FoundState
    <3>2. Range(w.link[l].listeners) = {v \in Vehicles : l \in ListedLinks(w.m[v])}
      BY <1>3 DEF Sound, Wired
    <3> QED BY <3>1, <3>2, NoManagerIs
  <2>3. Outcome(w, LinkDisconnects(w, l), Alive)
    BY <1>3, <2>2, DisconnectOutcome
  <2> QED BY <1>4, <2>1, <2>3
<1>9. ASSUME NEW v \in Vehicles, UserChooses(v) PROVE IInv' /\ Releases
  <2>1. v \in Listed /\ v \in Alive
    BY <1>3, <1>9 DEF UserChooses
  <2>2. /\ Outcome(w, w, Alive)
        /\ \A l \in ListedLinks(w.m[v]) : Outcome(w, setPrimaryLinkByName(w, v, l), Alive)
        /\ \A on \in BOOLEAN : Outcome(w, setCommunicationLostEnabled(w, v, on), Alive)
        /\ \A on \in BOOLEAN : Outcome(w, setAutoDisconnect(w, v, on), Alive)
    BY <1>3, <2>1, ChoiceOutcome
  <2>3. ASSUME NEW z, NEW y, Outcome(w, z, Alive), y \in Members, Orderly(y, Alive), Selecting(y),
               y.vehicles = vehicles, Choose(z, y)
        PROVE  IInv' /\ Releases
    <3>1. Takes(z, y) /\ UNCHANGED <<id, deleted, ready, bound>> /\ choices' = choices + 1 /\ choices < bound.choices
      BY <2>3 DEF Choose
    <3>2. choices' \in 0..bound.choices
      <4>1. bound.choices \in Nat
        BY BoundAssumption, FoundState DEF Objects
      <4> QED BY <1>3, <3>1, <4>1
    <3>3. Outcome(Now, z, Alive)
      BY <1>1, <2>3
    <3> QED BY <2>3, <3>1, <3>2, <3>3, EventKeeps
  <2>4. CASE Choose(Now, setActiveVehicle(Manager, v))
    <3>1. PICK y : y = setActiveVehicle(x, v)
      OBVIOUS
    <3>2. v \in Range(x.vehicles)
      BY <1>3, <2>1
    <3>3. y \in Members /\ Orderly(y, Alive) /\ y.vehicles = x.vehicles /\ Selecting(y)
      BY <1>3, <3>1, <3>2, SetActiveIs
    <3> QED BY <1>1, <1>2, <1>3, <2>2, <2>3, <2>4, <3>1, <3>3
  <2>5. CASE \E l \in ListedLinks(m[v]) : Choose(setPrimaryLinkByName(Now, v, l), Manager)
    BY <1>1, <1>2, <1>3, <2>2, <2>3, <2>5
  <2>6. CASE Choose(setCommunicationLostEnabled(Now, v, ~m[v].enabled), Manager)
    <3>1. PICK on \in BOOLEAN : on = ~m[v].enabled
      OBVIOUS
    <3> QED BY <1>1, <1>2, <1>3, <2>2, <2>3, <2>6, <3>1
  <2>7. CASE Choose(setAutoDisconnect(Now, v, ~m[v].autoDisconnect), Manager)
    <3>1. PICK on \in BOOLEAN : on = ~m[v].autoDisconnect
      OBVIOUS
    <3> QED BY <1>1, <1>2, <1>3, <2>2, <2>3, <2>7, <3>1
  <2> QED BY <1>9, <2>4, <2>5, <2>6, <2>7 DEF UserChooses
<1> QED BY <1>5, <1>6, <1>7, <1>8, <1>9

LEMMA NextInv ==
    ASSUME IInv, [Next]_vars
    PROVE  IInv' /\ Releases
<1>1. CASE \E i \in Ids, l \in Links : _vehicleHeartbeatInfo(i, l)
  BY <1>1, HeartbeatKeeps
<1>2. CASE \E i \in Ids, l \in Links : messageReceived(i, l)
  BY <1>2, EventsKeep
<1>3. CASE \E v \in Vehicles : CommLostCheck(v) \/ CloseVehicle(v) \/ UserChooses(v)
  BY <1>3, EventsKeep
<1>4. CASE \E v \in Vehicles : _vehicleParametersReadyChanged(v)
  BY <1>4, ReadyKeeps
<1>5. CASE \E l \in Links : Disconnected(l)
  BY <1>5, EventsKeep
<1>6. CASE _setActiveVehiclePhase2
  BY <1>6, ActivationKeeps
<1>7. CASE _deleteVehiclePhase2
  BY <1>7, DeletionKeeps
<1>8. CASE UNCHANGED vars
  <2>1. PICK w : w = Now
    OBVIOUS
  <2>2. /\ UNCHANGED <<m, link, id, vehicles, active, available, paramReady, timers>>
        /\ UNCHANGED <<deleted, ready, choices, bound>>
    BY <1>8 DEF vars, manager
  <2>3. Manager' = Manager /\ Created' = Created /\ Alive' = Alive
    BY <2>2 DEF Manager, Created, Alive
  <2>4. Objects'
    BY <2>2, <2>3, FoundState DEF Objects
  <2>5. /\ Sound(w) /\ Quiet(w) /\ Counted(w, deleted') /\ m' = w.m /\ link' = w.link
        /\ \A v \in Vehicles : Usable(w.m[v]) /\ (v \notin Alive' => w.m[v] = NoManager)
        /\ \A v \in Range(vehicles') : /\ ~Leaving(w.m[v])
                                       /\ \A u \in Range(vehicles') \ {v} : id'[u] # id'[v]
    BY <2>1, <2>2, <2>3, FoundState
  <2>6. Manager' \in Members /\ Orderly(Manager', Alive') /\ Selecting(Manager')
    BY <2>3, FoundState
  <2> QED BY <2>2, <2>4, <2>5, <2>6, HoldsAgain DEF Releases
<1> QED BY <1>1, <1>2, <1>3, <1>4, <1>5, <1>6, <1>7, <1>8 DEF Next

-----------------------------------------------------------------------------
(* What follows from the invariant.                                        *)

LEMMA ReferencesBounded ==
    ASSUME IInv, NEW l \in Links
    PROVE  link[l].refs \in 0..MaxVehicles /\ link[l].state \in {"up", "closing", "gone"}
           /\ link[l].listeners \in Seq(Vehicles)
<1>1. PICK w : w = Now
  OBVIOUS
<1>2. /\ Sound(w) /\ Counted(w, deleted) /\ Objects /\ w.link = link
      /\ \A v \in Vehicles : v \notin Alive => w.m[v] = NoManager
  BY <1>1, FoundState
<1>3. PICK s : s = link[l].listeners
  OBVIOUS
<1>4. /\ s \in Seq(Vehicles) /\ IsInjective(s) /\ Range(s) = {v \in Vehicles : l \in ListedLinks(w.m[v])}
      /\ link[l].refs \in Nat /\ link[l].state \in {"up", "closing", "gone"}
      /\ link[l].refs <= Len(s) + Cardinality(deleted)
  BY <1>2, <1>3, WorldParts DEF Sound, Wired, Counted
<1>5. Range(s) \subseteq Alive
  BY <1>2, <1>4, NoManagerIs
<1>6. Cardinality(Range(s)) = Len(s) /\ Cardinality(Range(s)) <= Cardinality(Alive)
  <2>1. IsFiniteSet(Alive)
    BY <1>2, CreatedAre
  <2> QED BY <1>4, <1>5, <2>1, CardinalityOfLine, FS_Subset
<1>7. PICK n \in Nat, a \in Nat, d \in Nat, r \in Nat :
         /\ n = Len(s) /\ a = Cardinality(Alive) /\ d = Cardinality(deleted) /\ r = link[l].refs
         /\ a + d <= MaxVehicles
  <2>1. Cardinality(Alive) \in Nat
    BY <1>2, CreatedAre, FS_CardinalityType
  <2>2. Cardinality(deleted) \in Nat /\ Cardinality(Alive) + Cardinality(deleted) \in 0..MaxVehicles
    BY <1>2, CreatedAre
  <2>3. Len(s) \in Nat
    BY <1>4, LenProperties
  <2>4. Cardinality(Alive) + Cardinality(deleted) <= MaxVehicles
    BY <2>2, VehicleAssumption
  <2> QED BY <1>4, <2>1, <2>2, <2>3, <2>4
<1>8. r <= MaxVehicles
  BY <1>4, <1>6, <1>7, VehicleAssumption
<1> QED BY <1>3, <1>4, <1>7, <1>8, VehicleAssumption

LEMMA ManagersTyped ==
    ASSUME IInv, NEW v \in Vehicles
    PROVE  /\ m[v].rgLinkInfo \in Seq(LinkInfo) /\ Cardinality(ListedLinks(m[v])) = Len(m[v].rgLinkInfo)
           /\ m[v].primary \in ListedLinks(m[v]) \cup {NoLink}
           /\ {m[v].communicationLost, m[v].enabled, m[v].autoDisconnect, m[v].signalled, m[v].byUser} \subseteq BOOLEAN
<1>1. m[v] \in ManagerType /\ Tidy(m[v])
  BY FoundState, WorldParts DEF Sound
<1>2. Cardinality(ListedLinks(m[v])) = Len(m[v].rgLinkInfo)
  BY <1>1, ListLength
<1>3. m[v].rgLinkInfo \in Seq(LinkInfo)
  BY <1>1 DEF ManagerType
<1>4. {m[v].communicationLost, m[v].enabled, m[v].autoDisconnect, m[v].signalled, m[v].byUser} \subseteq BOOLEAN
  BY <1>1 DEF ManagerType
<1> QED BY <1>1, <1>2, <1>3, <1>4 DEF Tidy

LEMMA Typed ==
    ASSUME IInv
    PROVE  TypeOK
<1>1. PICK x : x = Manager
  OBVIOUS
<1>2. x \in Members /\ Orderly(x, Alive) /\ Objects
  BY <1>1, FoundState
<1>3. /\ vehicles = x.vehicles /\ active = x.active /\ available = x.available
      /\ paramReady = x.paramReady /\ timers = x.timers
  BY <1>1 DEF Manager
<1>4. vehicles \in Seq(Vehicles) /\ Cardinality(Listed) = Len(vehicles)
  <2>1. vehicles \in Seq(Vehicles) /\ IsInjective(vehicles)
    BY <1>2, <1>3, MembersAre DEF Orderly
  <2> QED BY <2>1, CardinalityOfLine, FoundState
<1>5. active \in Created \cup {NoVehicle}
  BY <1>2, <1>3 DEF Orderly, Alive
<1>6. available \in BOOLEAN /\ paramReady \in BOOLEAN
  BY <1>2, <1>3, MembersAre
<1>7. timers \in Seq([does : {"activate", "delete"}, vehicle : Vehicles])
  BY <1>2, <1>3, MembersAre DEF Pending
<1>8. /\ id \in [Vehicles -> Ids \cup {0}] /\ deleted \subseteq Created /\ ready \subseteq Alive
      /\ choices \in 0..bound.choices
  BY <1>2 DEF Objects
<1> QED BY <1>4, <1>5, <1>6, <1>7, <1>8, ReferencesBounded, ManagersTyped DEF TypeOK

LEMMA Usability ==
    ASSUME IInv
    PROVE  PrimaryIsUsable
<1>1. \A v \in Vehicles : Usable(m[v])
  BY DEF IInv
<1>2. Alive \subseteq Vehicles
  BY FoundState
<1> QED BY <1>1, <1>2 DEF Usable, PrimaryIsUsable

LEMMA ListSoundness ==
    ASSUME IInv
    PROVE  ListIsSound
<1>1. PICK x : x = Manager
  OBVIOUS
<1>2. /\ Orderly(x, Alive) /\ x.active = active /\ x.timers = timers /\ x.vehicles = vehicles
      /\ Listed = Range(vehicles)
  BY <1>1, FoundState
<1>3. \A v \in Listed : m[v].rgLinkInfo # <<>> /\ \A u \in Listed \ {v} : id[u] # id[v]
  BY DEF IInv, OnTheList, Leaving
<1>4. active \in Alive \cup {NoVehicle} /\ Listed \subseteq Alive /\ \A i \in DOMAIN timers : timers[i].vehicle \in Alive
  BY <1>2 DEF Orderly
<1>5. Alive \cap deleted = {} /\ NoVehicle \notin deleted
  <2>1. deleted \subseteq Vehicles /\ NoVehicle \notin Vehicles
    BY FoundState, VehicleAssumption DEF Objects, Created, Vehicles, NoVehicle
  <2> QED BY <2>1 DEF Alive
<1> QED BY <1>3, <1>4, <1>5 DEF ListIsSound

LEMMA Settlement ==
    ASSUME IInv
    PROVE  SettledSelection
<1>1. PICK x : x = Manager
  OBVIOUS
<1>2. /\ Orderly(x, Alive) /\ Selecting(x) /\ x.active = active /\ x.timers = timers /\ x.vehicles = vehicles
      /\ x.available = available /\ Listed = Range(vehicles)
  BY <1>1, FoundState DEF Manager
<1>3. ASSUME timers = <<>>
      PROVE  /\ active \in Listed \cup {NoVehicle} /\ (active = NoVehicle <=> vehicles = <<>>)
             /\ (active # NoVehicle => available) /\ Alive = Listed
  <2>1. Deletes(x) = {}
    BY <1>2, <1>3 DEF Deletes
  <2>2. Alive = Listed
    BY <1>2, <2>1 DEF Orderly
  <2> QED BY <1>2, <1>3, <2>2 DEF Selecting
<1> QED BY <1>3 DEF SettledSelection

-----------------------------------------------------------------------------
(* The results.                                                            *)

(* The invariant: the links and the vehicles that list them agree, the     *)
(* list of vehicles and the changes under way too.                         *)
THEOREM Inductive == Spec => []IInv
<1>1. Init => IInv
  BY InitInv
<1>2. IInv /\ [Next]_vars => IInv'
  BY NextInv
<1> QED BY <1>1, <1>2, PTL DEF Spec

(* The variables are well typed, and no more references to a link are      *)
(* counted than there are vehicle objects.                                 *)
THEOREM TypeCorrect == Spec => []TypeOK
<1>1. IInv => TypeOK
  BY Typed
<1> QED BY <1>1, Inductive, PTL

(* The primary link of a vehicle is live when one is, and of normal        *)
(* latency when a live one is, unless the user chose it since.             *)
THEOREM PrimaryUsable == Spec => []PrimaryIsUsable
<1>1. IInv => PrimaryIsUsable
  BY Usability
<1> QED BY <1>1, Inductive, PTL

(* No vehicle on the list is without links or shares its id, and nothing   *)
(* refers to a deleted one.                                                *)
THEOREM ListSound == Spec => []ListIsSound
<1>1. IInv => ListIsSound
  BY ListSoundness
<1> QED BY <1>1, Inductive, PTL

(* Between changes the active vehicle is one of the list, and every other  *)
(* object is deleted.                                                      *)
THEOREM Settles == Spec => []SettledSelection
<1>1. IInv => SettledSelection
  BY Settlement
<1> QED BY <1>1, Inductive, PTL

(* No step makes a link disconnect that a vehicle still lists.             *)
THEOREM OpenWhileUsed == Spec => LinkOpenWhileUsed
<1>1. IInv /\ [Next]_vars => [Releases]_vars
  BY NextInv
<1>2. [Releases]_vars => [\A l \in Links : link[l].state = "up" /\ link'[l].state = "closing" =>
                              \A v \in Alive : l \notin ListedLinks(m'[v])]_vars
  BY DEF Releases
<1> QED BY <1>1, <1>2, Inductive, PTL DEF Spec, LinkOpenWhileUsed
=============================================================================
