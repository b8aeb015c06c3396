----------------------------- MODULE MissionIndex -----------------------------
(***************************************************************************)
(* src/MissionManager/MissionManager.cc: which item the vehicle is flying  *)
(* (currentIndex), and the last one it was flying in Mission flight mode   *)
(* (lastCurrentIndex), from which a mission is resumed.                    *)
(*                                                                         *)
(* The vehicle reports its item and its flight mode in different messages, *)
(* so a new item is cached until a heartbeat says in which mode it is.     *)
(* Messages of one link arrive in order; any may be lost.  The vehicle     *)
(* itself is modelled by what the handlers rely on: in Mission mode it     *)
(* advances, and leaving Mission mode for RTL may take it to the landing   *)
(* sequence, the last item.  On a high latency link one message carries    *)
(* both mode and item, and there are no heartbeats.  Other components of   *)
(* the vehicle (a gimbal, a camera) send heartbeats too: Vehicle takes its *)
(* flight mode from the autopilot's only, MissionManager looks at every    *)
(* one.                                                                    *)
(***************************************************************************)
EXTENDS Integers, Sequences

CONSTANTS
    MaxIndex,       \* items are 0..MaxIndex, the last one starts the landing
    Others,         \* other components of the vehicle send heartbeats
    MaxInFlight,    \* bound: messages on their way
    MaxWrites       \* bound: plans written or removed

ASSUME MissionIndexParameters ==
    /\ MaxIndex \in Nat /\ Others \in BOOLEAN
    /\ MaxInFlight \in Nat /\ MaxWrites \in Nat

VARIABLES
    mission,    \* the vehicle is in Mission flight mode
    item,       \* its current item
    wire,       \* messages from the vehicle
    flightMode, \* Vehicle::flightMode() is the Mission flight mode
    currentMissionIndex, lastCurrentIndex, cachedLastCurrentIndex,
    writes,     \* plans written, for the bound
    flown,      \* history: items that were current in Mission mode
    returned,   \* history: the vehicle has come back to Mission mode from elsewhere
    overheard   \* history: an index was adopted on another component's heartbeat

vehicle == <<mission, item, flown, returned>>
indices == <<currentMissionIndex, lastCurrentIndex, cachedLastCurrentIndex>>
vars == <<vehicle, wire, flightMode, indices, writes, overheard>>

None == -1
Item == 0..MaxIndex
Message == [kind : {"current"}, item : Item] \cup [kind : {"heartbeat"}, mission : BOOLEAN]
           \cup [kind : {"highLatency"}, item : Item, mission : BOOLEAN] \cup [kind : {"other"}]

TypeOK ==
    /\ mission \in BOOLEAN /\ item \in Item
    /\ wire \in Seq(Message) /\ Len(wire) <= MaxInFlight
    /\ flightMode \in BOOLEAN
    /\ currentMissionIndex \in Item \cup {None}
    /\ lastCurrentIndex \in Item \cup {None}
    /\ cachedLastCurrentIndex \in Item \cup {None}
    /\ writes \in 0..MaxWrites
    /\ flown \subseteq Item /\ returned \in BOOLEAN /\ overheard \in BOOLEAN

Init ==
    /\ mission \in BOOLEAN /\ item = 0 /\ wire = <<>> /\ flightMode = FALSE
    /\ currentMissionIndex = None /\ lastCurrentIndex = None /\ cachedLastCurrentIndex = None
    /\ writes = 0
    /\ flown = (IF mission THEN {item} ELSE {}) /\ returned = FALSE /\ overheard = FALSE

-----------------------------------------------------------------------------
(* The vehicle and the link.                                               *)

VAdvances ==
    /\ mission /\ item < MaxIndex
    /\ item' = item + 1 /\ flown' = flown \cup {item'}
    /\ UNCHANGED <<mission, returned, wire, flightMode, indices, writes, overheard>>

VLeavesMission ==
    /\ mission
    /\ mission' = FALSE
    /\ item' \in {item, MaxIndex}
    /\ UNCHANGED <<flown, returned, wire, flightMode, indices, writes, overheard>>

VEntersMission ==
    /\ ~mission
    /\ mission' = TRUE
    /\ item' \in Item
    /\ flown' = flown \cup {item'} /\ returned' = TRUE
    /\ UNCHANGED <<wire, flightMode, indices, writes, overheard>>

VReports(m) ==
    /\ Len(wire) < MaxInFlight
    /\ wire' = Append(wire, m)
    /\ UNCHANGED <<vehicle, flightMode, indices, writes, overheard>>

VSendsCurrent == VReports([kind |-> "current", item |-> item])
VSendsHeartbeat == VReports([kind |-> "heartbeat", mission |-> mission])
VSendsHighLatency == VReports([kind |-> "highLatency", item |-> item, mission |-> mission])
OtherComponentSendsHeartbeat == Others /\ VReports([kind |-> "other"])

Lose ==
    /\ wire # <<>>
    /\ wire' = Tail(wire)
    /\ UNCHANGED <<vehicle, flightMode, indices, writes, overheard>>

-----------------------------------------------------------------------------
(* The ground station.  Vehicle handles a message, and its flight mode,    *)
(* before it passes the message on to MissionManager.                      *)

IndexFromOne(index) ==
    /\ currentMissionIndex' = index + 1
    /\ cachedLastCurrentIndex' =
          IF index # lastCurrentIndex THEN index ELSE cachedLastCurrentIndex
    /\ UNCHANGED lastCurrentIndex
ModeTakenAtOnce(index) ==
    /\ currentMissionIndex' = index
    /\ lastCurrentIndex' = IF flightMode THEN index ELSE lastCurrentIndex
    /\ UNCHANGED cachedLastCurrentIndex

_updateMissionIndex(index) ==
    /\ currentMissionIndex' = index
    /\ cachedLastCurrentIndex' =
          IF index # lastCurrentIndex THEN index ELSE cachedLastCurrentIndex
    /\ UNCHANGED lastCurrentIndex

Arrives(kind) == wire # <<>> /\ Head(wire).kind = kind /\ wire' = Tail(wire)

_handleMissionCurrent ==
    /\ Arrives("current")
    /\ _updateMissionIndex(Head(wire).item)
    /\ UNCHANGED <<vehicle, flightMode, writes, overheard>>

_handleHighLatency ==
    /\ Arrives("highLatency")
    /\ flightMode' = Head(wire).mission
    /\ _updateMissionIndex(Head(wire).item)
    /\ UNCHANGED <<vehicle, writes, overheard>>

(* MissionManager::_handleHeartbeat when Vehicle's flight mode is `mode`.  *)
FirstItemNotAdopted(mode) ==
    IF cachedLastCurrentIndex > 0 /\ mode
    THEN lastCurrentIndex' = cachedLastCurrentIndex /\ cachedLastCurrentIndex' = None
    ELSE UNCHANGED <<lastCurrentIndex, cachedLastCurrentIndex>>

AdoptCached(mode) ==
    IF cachedLastCurrentIndex # None /\ mode
    THEN lastCurrentIndex' = cachedLastCurrentIndex /\ cachedLastCurrentIndex' = None
    ELSE UNCHANGED <<lastCurrentIndex, cachedLastCurrentIndex>>

_handleHeartbeat ==
    /\ Arrives("heartbeat")
    /\ flightMode' = Head(wire).mission
    /\ AdoptCached(flightMode')
    /\ UNCHANGED <<vehicle, currentMissionIndex, writes, overheard>>

HeartbeatOfOther ==
    /\ Arrives("other")
    /\ AdoptCached(flightMode)
    /\ overheard' = (overheard \/ lastCurrentIndex' # lastCurrentIndex)
    /\ UNCHANGED <<vehicle, flightMode, currentMissionIndex, writes>>

(* A successful write, or removeAll: the vehicle starts over, reports of   *)
(* the old plan may still be on their way.                                 *)
PlanReplaced ==
    /\ writes < MaxWrites
    /\ writes' = writes + 1
    /\ item' = 0 /\ flown' = IF mission THEN flown \cup {0} ELSE flown
    /\ currentMissionIndex' = None /\ lastCurrentIndex' = None
    /\ UNCHANGED <<mission, returned, wire, flightMode, cachedLastCurrentIndex, overheard>>

Next ==
    \/ VAdvances \/ VLeavesMission \/ VEntersMission
    \/ VSendsCurrent \/ VSendsHeartbeat \/ VSendsHighLatency
    \/ OtherComponentSendsHeartbeat \/ Lose
    \/ _handleMissionCurrent \/ _handleHighLatency \/ _handleHeartbeat \/ HeartbeatOfOther
    \/ PlanReplaced

Spec == Init /\ [][Next]_vars

(* The vehicle streams both messages, and not every one of them is lost.   *)
FairSpec ==
    /\ Spec
    /\ SF_vars(VSendsCurrent) /\ SF_vars(VSendsHeartbeat)
    /\ SF_vars(_handleMissionCurrent) /\ SF_vars(_handleHeartbeat)
    /\ WF_vars(_handleHighLatency) /\ WF_vars(HeartbeatOfOther)

-----------------------------------------------------------------------------
(* Properties.                                                             *)

(* The comment in _updateMissionIndex: the jump to the landing sequence    *)
(* that comes with leaving Mission mode must not become the place to       *)
(* resume from, though MISSION_CURRENT outruns the heartbeat that tells of *)
(* the new mode.  It does not, as long as the vehicle has not come back to *)
(* Mission mode and only the autopilot's heartbeats release the cache.     *)
LandingJumpNotAdopted ==
    lastCurrentIndex # None => lastCurrentIndex \in flown \/ returned \/ overheard

(* A vehicle that stays at an item in Mission mode ends up with that item  *)
(* in both indices, whatever the cache still held and whatever was lost.   *)
IndexConverges ==
    \A i \in Item :
        <>[](mission /\ item = i) => <>[](currentMissionIndex = i /\ lastCurrentIndex = i)
=============================================================================
