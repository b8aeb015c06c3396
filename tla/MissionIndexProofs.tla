-------------------------- MODULE MissionIndexProofs --------------------------
(***************************************************************************)
(* The place to resume a mission from, for any number of items, messages   *)
(* on their way and plans: until the vehicle has come back to Mission      *)
(* mode, the jump to the landing sequence is not adopted.                  *)
(***************************************************************************)
EXTENDS MissionIndex, SequenceTheorems, TLAPS

(* What the wire may still carry about an item the vehicle has not flown.  *)
ReportsItem(m) == m.kind \in {"current", "highLatency"}
SaysMission(m) == m.kind = "heartbeat" /\ m.mission
Jumped(m) == ReportsItem(m) /\ m.item \notin flown

(* As long as the vehicle has not come back to Mission mode, an item that  *)
(* was not flown is reported only after Mission mode was left, so no       *)
(* heartbeat that says Mission mode follows it.                            *)
FlownInMission == mission => item \in flown
JumpsTrail ==
    /\ mission => cachedLastCurrentIndex \in flown \cup {None} /\ \A i \in DOMAIN wire : ~Jumped(wire[i])
    /\ cachedLastCurrentIndex \notin flown \cup {None} => \A i \in DOMAIN wire : ~SaysMission(wire[i])
    /\ \A i, j \in DOMAIN wire : i < j /\ Jumped(wire[i]) => ~SaysMission(wire[j])

FirstFlight == FlownInMission /\ JumpsTrail

IInv == TypeOK /\ (returned \/ FirstFlight) /\ LandingJumpNotAdopted

-----------------------------------------------------------------------------
LEMMA FirstDropped ==
    ASSUME NEW S, NEW s \in Seq(S), s # <<>>
    PROVE  LET t == Tail(s)
           IN  /\ Len(s) \in Nat /\ t \in Seq(S) /\ Len(t) = Len(s) - 1 /\ Head(s) = s[1] /\ Head(s) \in S
               /\ DOMAIN s = 1..Len(s) /\ DOMAIN t = 1..Len(t) /\ 1 \in DOMAIN s
               /\ \A i \in DOMAIN t : t[i] = s[i + 1] /\ i + 1 \in DOMAIN s
<1>1. PICK t : t = Tail(s)
  OBVIOUS
<1>2. /\ t \in Seq(S) /\ Len(t) = Len(s) - 1 /\ Len(s) \in Nat /\ Len(s) # 0
      /\ \A i \in 1..Len(t) : t[i] = s[i + 1]
  BY <1>1, HeadTailProperties, EmptySeq, LenProperties
<1>3. DOMAIN s = 1..Len(s) /\ DOMAIN t = 1..Len(t) /\ Len(t) \in Nat
  BY <1>2, LenProperties
<1>4. Head(s) = s[1] /\ Head(s) \in S
  BY <1>2, ElementOfSeq, <1>3
<1>5. 1 \in DOMAIN s /\ \A i \in DOMAIN t : i + 1 \in DOMAIN s
  BY <1>2, <1>3
<1> QED BY <1>1, <1>2, <1>3, <1>4, <1>5

LEMMA OneAppended ==
    ASSUME NEW S, NEW s \in Seq(S), NEW x \in S
    PROVE  LET t == Append(s, x)
           IN  /\ Len(s) \in Nat /\ t \in Seq(S) /\ Len(t) = Len(s) + 1
               /\ DOMAIN s = 1..Len(s) /\ DOMAIN t = 1..(Len(s) + 1)
               /\ t[Len(s) + 1] = x /\ \A i \in DOMAIN s : t[i] = s[i]
               /\ \A i \in DOMAIN t : i \in DOMAIN s \/ i = Len(s) + 1
<1>1. PICK t : t = Append(s, x)
  OBVIOUS
<1>2. /\ t \in Seq(S) /\ Len(t) = Len(s) + 1 /\ t[Len(s) + 1] = x /\ Len(s) \in Nat
      /\ \A i \in 1..Len(s) : t[i] = s[i]
  BY <1>1, AppendProperties, LenProperties
<1>3. DOMAIN s = 1..Len(s) /\ DOMAIN t = 1..(Len(s) + 1)
  BY <1>2, LenProperties
<1>4. \A i \in DOMAIN t : i \in DOMAIN s \/ i = Len(s) + 1
  BY <1>2, <1>3
<1> QED BY <1>1, <1>2, <1>3, <1>4

-----------------------------------------------------------------------------
(* What is flown stays flown, and a wire that only loses its head carries  *)
(* the rest in the same order.                                             *)
LEMMA WireShrinks ==
    ASSUME TypeOK, wire # <<>>, wire' = Tail(wire)
    PROVE  /\ wire' \in Seq(Message) /\ Len(wire') <= MaxInFlight
           /\ Head(wire) \in Message /\ Head(wire) = wire[1] /\ 1 \in DOMAIN wire
           /\ \A i \in DOMAIN wire' : i \in Nat /\ wire'[i] = wire[i + 1] /\ i + 1 \in DOMAIN wire /\ 1 < i + 1
<1>1. wire \in Seq(Message) /\ Len(wire) <= MaxInFlight /\ MaxInFlight \in Nat
  BY MissionIndexParameters DEF TypeOK
<1>2. /\ Len(wire) \in Nat /\ wire' \in Seq(Message) /\ Len(wire') = Len(wire) - 1
      /\ Head(wire) = wire[1] /\ Head(wire) \in Message
      /\ DOMAIN wire' = 1..Len(wire') /\ 1 \in DOMAIN wire
      /\ \A i \in DOMAIN wire' : wire'[i] = wire[i + 1] /\ i + 1 \in DOMAIN wire
  BY <1>1, FirstDropped
<1> QED BY <1>1, <1>2

(* A step that takes a message from the wire, and perhaps updates the      *)
(* cache with what it reports, keeps the jumps behind.                     *)
LEMMA JumpsStillTrail ==
    ASSUME TypeOK, FirstFlight, wire # <<>>, wire' = Tail(wire), UNCHANGED vehicle,
           \/ cachedLastCurrentIndex' \in {cachedLastCurrentIndex, None}
           \/ ReportsItem(Head(wire)) /\ cachedLastCurrentIndex' = Head(wire).item
    PROVE  FirstFlight'
<1>1. /\ Head(wire) = wire[1] /\ 1 \in DOMAIN wire
      /\ \A i \in DOMAIN wire' : i \in Nat /\ wire'[i] = wire[i + 1] /\ i + 1 \in DOMAIN wire /\ 1 < i + 1
  BY WireShrinks
<1>2. UNCHANGED <<mission, item, flown>>
  BY DEF vehicle
<1>3. FlownInMission'
  BY <1>2 DEF FirstFlight, FlownInMission
<1>4. mission' => cachedLastCurrentIndex' \in flown' \cup {None} /\ \A i \in DOMAIN wire' : ~Jumped(wire[i])'
  BY <1>1, <1>2 DEF FirstFlight, JumpsTrail, Jumped, ReportsItem
<1> QED BY <1>1, <1>2, <1>3, <1>4 DEF FirstFlight, JumpsTrail, Jumped, ReportsItem, SaysMission

(* A step of the vehicle, or a plan written: the wire and the cache stay.  *)
LEMMA VehicleMoves ==
    ASSUME TypeOK, FirstFlight, UNCHANGED <<wire, cachedLastCurrentIndex>>,
           flown \subseteq flown', mission' => mission /\ item' \in flown'
    PROVE  FirstFlight'
BY DEF FirstFlight, FlownInMission, JumpsTrail, Jumped, ReportsItem, SaysMission

(* What the vehicle sends says where it is: in Mission mode, at an item it *)
(* has flown.                                                              *)
LEMMA VehicleSends ==
    ASSUME TypeOK, FirstFlight, NEW m \in Message, VReports(m),
           ReportsItem(m) => m.item = item, SaysMission(m) => mission
    PROVE  FirstFlight'
<1>1. wire' = Append(wire, m) /\ UNCHANGED <<mission, item, flown, cachedLastCurrentIndex>>
  BY DEF VReports, vehicle, indices
<1>2. /\ DOMAIN wire = 1..Len(wire) /\ Len(wire) \in Nat /\ wire'[Len(wire) + 1] = m
      /\ \A i \in DOMAIN wire : wire'[i] = wire[i]
      /\ \A i \in DOMAIN wire' : i \in DOMAIN wire \/ i = Len(wire) + 1
  BY <1>1, OneAppended DEF TypeOK
<1>3. mission => ~Jumped(m)
  BY DEF FirstFlight, FlownInMission, Jumped
<1>4. mission' => cachedLastCurrentIndex' \in flown' \cup {None} /\ \A i \in DOMAIN wire' : ~Jumped(wire'[i])
  <2> SUFFICES ASSUME mission
               PROVE  cachedLastCurrentIndex \in flown \cup {None} /\ \A i \in DOMAIN wire' : ~Jumped(wire'[i])
    BY <1>1
  <2> QED BY <1>2, <1>3 DEF FirstFlight, JumpsTrail
<1>5. ASSUME cachedLastCurrentIndex \notin flown \cup {None}, NEW i \in DOMAIN wire' PROVE ~SaysMission(wire'[i])
  BY <1>2, <1>5 DEF FirstFlight, JumpsTrail
<1>6. ASSUME NEW i \in DOMAIN wire', NEW j \in DOMAIN wire', i < j, Jumped(wire'[i]) PROVE ~SaysMission(wire'[j])
  <2>1. i \in DOMAIN wire
    BY <1>2, <1>6
  <2>2. CASE j \in DOMAIN wire
    BY <1>2, <1>6, <2>1, <2>2 DEF FirstFlight, JumpsTrail
  <2>3. CASE j = Len(wire) + 1
    BY <1>2, <1>6, <2>1, <2>3 DEF FirstFlight, JumpsTrail
  <2> QED BY <1>2, <2>2, <2>3
<1>7. FlownInMission'
  BY <1>1 DEF FirstFlight, FlownInMission
<1> QED BY <1>1, <1>4, <1>5, <1>6, <1>7 DEF FirstFlight, JumpsTrail, Jumped, SaysMission

(* A heartbeat that adopts the cache says Mission mode, or is another      *)
(* component's.                                                            *)
LEMMA AdoptsFlown ==
    ASSUME TypeOK, FirstFlight, LandingJumpNotAdopted, _handleHeartbeat
    PROVE  LandingJumpNotAdopted'
<1>1. /\ wire # <<>> /\ wire' = Tail(wire) /\ Head(wire).kind = "heartbeat" /\ flightMode' = Head(wire).mission
      /\ AdoptCached(flightMode') /\ UNCHANGED <<flown, returned, overheard>>
  BY DEF _handleHeartbeat, Arrives, vehicle
<1>2. Head(wire) = wire[1] /\ 1 \in DOMAIN wire
  BY <1>1, WireShrinks
<1>3. CASE cachedLastCurrentIndex # None /\ flightMode' /\ lastCurrentIndex' = cachedLastCurrentIndex
  <2>1. SaysMission(wire[1])
    BY <1>1, <1>2, <1>3 DEF SaysMission
  <2>2. cachedLastCurrentIndex \in flown
    BY <1>2, <1>3, <2>1 DEF FirstFlight, JumpsTrail
  <2> QED BY <1>1, <1>3, <2>2 DEF LandingJumpNotAdopted
<1>4. CASE UNCHANGED lastCurrentIndex
  BY <1>1, <1>4 DEF LandingJumpNotAdopted
<1> QED BY <1>1, <1>3, <1>4 DEF AdoptCached

-----------------------------------------------------------------------------
LEMMA InitInv == Init => IInv
<1> SUFFICES ASSUME Init PROVE IInv
  OBVIOUS
<1>1. wire = <<>> /\ wire \in Seq(Message) /\ Len(wire) = 0 /\ DOMAIN wire = {}
  BY EmptySeq DEF Init
<1>2. TypeOK
  <2>1. item \in Item /\ 0 \in 0..MaxWrites /\ 0 <= MaxInFlight
    BY MissionIndexParameters DEF Init, Item
  <2>2. mission \in BOOLEAN /\ flown \subseteq Item /\ returned \in BOOLEAN /\ overheard \in BOOLEAN
    <3>1. mission \in BOOLEAN /\ flown = IF mission THEN {item} ELSE {}
      BY DEF Init
    <3> QED BY <2>1, <3>1 DEF Init
  <2> QED BY <1>1, <2>1, <2>2 DEF Init, TypeOK
<1>3. FirstFlight /\ LandingJumpNotAdopted
  BY <1>1 DEF Init, FirstFlight, FlownInMission, JumpsTrail, LandingJumpNotAdopted
<1> QED BY <1>2, <1>3 DEF IInv

LEMMA TypePreserved == TypeOK /\ [Next]_vars => TypeOK'
<1> SUFFICES ASSUME TypeOK, [Next]_vars PROVE TypeOK'
  OBVIOUS
<1>1. MaxIndex \in Nat /\ MaxInFlight \in Nat /\ MaxWrites \in Nat
  BY MissionIndexParameters
<1>2. ASSUME NEW m \in Message, VReports(m) PROVE TypeOK'
  <2>1. wire \in Seq(Message) /\ Len(wire) < MaxInFlight /\ wire' = Append(wire, m)
    BY <1>2 DEF VReports, TypeOK
  <2>2. wire' \in Seq(Message) /\ Len(wire') = Len(wire) + 1 /\ Len(wire) \in Nat
    BY <2>1, OneAppended
  <2> QED BY <1>1, <1>2, <2>1, <2>2 DEF VReports, TypeOK, vehicle, indices
<1>3. [kind |-> "current", item |-> item] \in Message /\ [kind |-> "heartbeat", mission |-> mission] \in Message
      /\ [kind |-> "highLatency", item |-> item, mission |-> mission] \in Message /\ [kind |-> "other"] \in Message
  BY DEF TypeOK, Message
<1>4. CASE VSendsCurrent \/ VSendsHeartbeat \/ VSendsHighLatency \/ OtherComponentSendsHeartbeat
  BY <1>2, <1>3, <1>4 DEF VSendsCurrent, VSendsHeartbeat, VSendsHighLatency, OtherComponentSendsHeartbeat
<1>5. CASE VAdvances \/ VLeavesMission \/ VEntersMission
  <2>1. /\ mission' \in BOOLEAN /\ item' \in Item /\ flown' \subseteq flown \cup {item'} /\ returned' \in BOOLEAN
        /\ UNCHANGED <<wire, flightMode, indices, writes, overheard>>
    <3>1. CASE VAdvances
      BY <1>1, <3>1 DEF VAdvances, TypeOK, Item
    <3>2. CASE VLeavesMission
      <4>1. mission' = FALSE /\ item' \in {item, MaxIndex} /\ flown' = flown /\ returned' = returned
            /\ UNCHANGED <<wire, flightMode, indices, writes, overheard>>
        BY <3>2 DEF VLeavesMission
      <4>2. item' \in Item
        BY <1>1, <4>1 DEF TypeOK, Item
      <4> QED BY <4>1, <4>2 DEF TypeOK
    <3>3. CASE VEntersMission
      BY <3>3 DEF VEntersMission, TypeOK
    <3> QED BY <1>5, <3>1, <3>2, <3>3
  <2> QED BY <2>1 DEF TypeOK, indices
<1>6. CASE PlanReplaced
  BY <1>1, <1>6 DEF PlanReplaced, TypeOK, Item
<1>7. CASE Lose
  <2>1. wire' \in Seq(Message) /\ Len(wire') <= MaxInFlight
    BY <1>7, WireShrinks DEF Lose
  <2> QED BY <1>7, <2>1 DEF Lose, TypeOK, vehicle, indices
<1>8. ASSUME NEW kind, Arrives(kind)
      PROVE  wire' \in Seq(Message) /\ Len(wire') <= MaxInFlight /\ Head(wire) \in Message /\ Head(wire).kind = kind
  BY <1>8, WireShrinks DEF Arrives
<1>9. CASE _handleMissionCurrent
  <2>1. Head(wire).item \in Item /\ wire' \in Seq(Message) /\ Len(wire') <= MaxInFlight
    BY <1>8, <1>9 DEF _handleMissionCurrent, Message
  <2> QED BY <1>9, <2>1 DEF _handleMissionCurrent, _updateMissionIndex, TypeOK, vehicle
<1>10. CASE _handleHighLatency
  <2>1. /\ Head(wire).item \in Item /\ Head(wire).mission \in BOOLEAN
        /\ wire' \in Seq(Message) /\ Len(wire') <= MaxInFlight
    BY <1>8, <1>10 DEF _handleHighLatency, Message
  <2> QED BY <1>10, <2>1 DEF _handleHighLatency, _updateMissionIndex, TypeOK, vehicle
<1>11. CASE _handleHeartbeat
  <2>1. Head(wire).mission \in BOOLEAN /\ wire' \in Seq(Message) /\ Len(wire') <= MaxInFlight
    BY <1>8, <1>11 DEF _handleHeartbeat, Message
  <2> QED BY <1>11, <2>1 DEF _handleHeartbeat, AdoptCached, TypeOK, vehicle
<1>12. CASE HeartbeatOfOther
  <2>1. wire' \in Seq(Message) /\ Len(wire') <= MaxInFlight
    BY <1>8, <1>12 DEF HeartbeatOfOther
  <2> QED BY <1>12, <2>1 DEF HeartbeatOfOther, AdoptCached, TypeOK, vehicle
<1>13. CASE UNCHANGED vars
  BY <1>13 DEF vars, vehicle, indices, TypeOK
<1> QED BY <1>4, <1>5, <1>6, <1>7, <1>9, <1>10, <1>11, <1>12, <1>13 DEF Next

LEMMA NextInv == IInv /\ [Next]_vars => IInv'
<1> SUFFICES ASSUME IInv, [Next]_vars PROVE (returned' \/ FirstFlight') /\ LandingJumpNotAdopted'
  BY TypePreserved DEF IInv
<1>1. TypeOK /\ (returned \/ FirstFlight) /\ LandingJumpNotAdopted
  BY DEF IInv
<1>2. CASE returned
  <2>1. returned'
    BY <1>1, <1>2 DEF Next, vars, vehicle, VAdvances, VLeavesMission, VEntersMission, VReports, VSendsCurrent,
       VSendsHeartbeat, VSendsHighLatency, OtherComponentSendsHeartbeat, Lose, _handleMissionCurrent,
       _handleHighLatency, _handleHeartbeat, HeartbeatOfOther, PlanReplaced
  <2> QED BY <2>1 DEF LandingJumpNotAdopted
<1>3. CASE FirstFlight
  <2>1. CASE VAdvances
    <3>1. FirstFlight'
      BY <1>1, <1>3, <2>1, VehicleMoves DEF VAdvances, indices
    <3> QED BY <1>1, <2>1, <3>1 DEF VAdvances, indices, LandingJumpNotAdopted
  <2>2. CASE VLeavesMission
    <3>1. FirstFlight'
      BY <1>1, <1>3, <2>2, VehicleMoves DEF VLeavesMission, indices
    <3> QED BY <1>1, <2>2, <3>1 DEF VLeavesMission, indices, LandingJumpNotAdopted
  <2>3. CASE VEntersMission
    BY <2>3 DEF VEntersMission, LandingJumpNotAdopted
  <2>4. CASE PlanReplaced
    <3>1. FirstFlight'
      BY <1>1, <1>3, <2>4, VehicleMoves DEF PlanReplaced, TypeOK
    <3> QED BY <2>4, <3>1 DEF PlanReplaced, LandingJumpNotAdopted
  <2>5. ASSUME NEW m \in Message, VReports(m), ReportsItem(m) => m.item = item, SaysMission(m) => mission
        PROVE  FirstFlight' /\ LandingJumpNotAdopted'
    <3>1. FirstFlight'
      BY <1>1, <1>3, <2>5, VehicleSends
    <3> QED BY <1>1, <2>5, <3>1 DEF VReports, vehicle, indices, LandingJumpNotAdopted
  <2>6. CASE VSendsCurrent
    <3>1. /\ [kind |-> "current", item |-> item] \in Message
          /\ ~SaysMission([kind |-> "current", item |-> item])
      BY <1>1 DEF TypeOK, Message, SaysMission
    <3> QED BY <2>5, <2>6, <3>1 DEF VSendsCurrent
  <2>7. CASE VSendsHeartbeat
    <3>1. /\ [kind |-> "heartbeat", mission |-> mission] \in Message
          /\ ~ReportsItem([kind |-> "heartbeat", mission |-> mission])
          /\ SaysMission([kind |-> "heartbeat", mission |-> mission]) => mission
      BY <1>1 DEF TypeOK, Message, SaysMission, ReportsItem
    <3> QED BY <2>5, <2>7, <3>1 DEF VSendsHeartbeat
  <2>8. CASE VSendsHighLatency
    <3>1. /\ [kind |-> "highLatency", item |-> item, mission |-> mission] \in Message
          /\ ~SaysMission([kind |-> "highLatency", item |-> item, mission |-> mission])
      BY <1>1 DEF TypeOK, Message, SaysMission
    <3> QED BY <2>5, <2>8, <3>1 DEF VSendsHighLatency
  <2>9. CASE OtherComponentSendsHeartbeat
    <3>1. [kind |-> "other"] \in Message /\ ~SaysMission([kind |-> "other"]) /\ ~ReportsItem([kind |-> "other"])
      BY DEF Message, SaysMission, ReportsItem
    <3> QED BY <2>5, <2>9, <3>1 DEF OtherComponentSendsHeartbeat
  <2>10. CASE Lose
    <3>1. FirstFlight'
      BY <1>1, <1>3, <2>10, JumpsStillTrail DEF Lose, indices
    <3> QED BY <1>1, <2>10, <3>1 DEF Lose, vehicle, indices, LandingJumpNotAdopted
  <2>11. CASE _handleMissionCurrent
    <3>1. ReportsItem(Head(wire))
      BY <2>11 DEF _handleMissionCurrent, Arrives, ReportsItem
    <3>2. FirstFlight'
      BY <1>1, <1>3, <2>11, <3>1, JumpsStillTrail DEF _handleMissionCurrent, Arrives, _updateMissionIndex
    <3> QED BY <1>1, <2>11, <3>2 DEF _handleMissionCurrent, _updateMissionIndex, vehicle, LandingJumpNotAdopted
  <2>12. CASE _handleHighLatency
    <3>1. ReportsItem(Head(wire))
      BY <2>12 DEF _handleHighLatency, Arrives, ReportsItem
    <3>2. FirstFlight'
      BY <1>1, <1>3, <2>12, <3>1, JumpsStillTrail DEF _handleHighLatency, Arrives, _updateMissionIndex
    <3> QED BY <1>1, <2>12, <3>2 DEF _handleHighLatency, _updateMissionIndex, vehicle, LandingJumpNotAdopted
  <2>13. CASE _handleHeartbeat
    <3>1. FirstFlight'
      BY <1>1, <1>3, <2>13, JumpsStillTrail DEF _handleHeartbeat, Arrives, AdoptCached
    <3> QED BY <1>1, <1>3, <2>13, <3>1, AdoptsFlown
  <2>14. CASE HeartbeatOfOther
    <3>1. FirstFlight'
      BY <1>1, <1>3, <2>14, JumpsStillTrail DEF HeartbeatOfOther, Arrives, AdoptCached
    <3> QED BY <1>1, <2>14, <3>1 DEF HeartbeatOfOther, vehicle, LandingJumpNotAdopted
  <2>15. CASE UNCHANGED vars
    BY <1>1, <1>3, <2>15 DEF vars, vehicle, indices, FirstFlight, FlownInMission, JumpsTrail, Jumped,
                             ReportsItem, SaysMission, LandingJumpNotAdopted
  <2> QED BY <2>1, <2>2, <2>3, <2>4, <2>6, <2>7, <2>8, <2>9, <2>10, <2>11, <2>12, <2>13, <2>14, <2>15 DEF Next
<1> QED BY <1>1, <1>2, <1>3

(* Every state of the indices, the vehicle and the wire satisfies the      *)
(* invariant.                                                              *)
THEOREM Inductive == Spec => []IInv
BY InitInv, NextInv, PTL DEF Spec

(* TypeOK: in particular both indices and the cache are items or none.     *)
THEOREM TypeCorrect == Spec => []TypeOK
<1>1. IInv => TypeOK
  BY DEF IInv
<1> QED BY <1>1, Inductive, PTL

(* LandingJumpNotAdopted: until the vehicle has come back to Mission mode  *)
(* or an index was adopted on another component's heartbeat, the index to  *)
(* resume from is an item flown in Mission mode, whatever is lost and      *)
(* however late the heartbeat with the change of mode is.                  *)
THEOREM ResumesFromWhereItFlew == Spec => []LandingJumpNotAdopted
<1>1. IInv => LandingJumpNotAdopted
  BY DEF IInv
<1> QED BY <1>1, Inductive, PTL
=============================================================================
