------------------------ MODULE MultiVehicleManager ------------------------
(* The vehicles the ground station knows (src/Vehicle/MultiVehicleManager  *)
(* .cc), composed with the link manager of each.  A vehicle is created by  *)
(* its first heartbeat and taken off the list when its last link goes or   *)
(* it is closed; it is deleted, and another vehicle made the active one,   *)
(* 20 ms later.  Until then the object still receives messages, and a      *)
(* heartbeat may create a second object with the same id.  A change of the *)
(* active vehicle takes 20 ms too; equal delays end in the order they      *)
(* began.                                                                  *)
EXTENDS VehicleLinkManager

CONSTANTS
    Ids,             \* system ids of the vehicles
    Bounds           \* bounds: vehicle objects created, links there are, settings
                     \* changed by the user

ASSUME IdAssumption == 0 \notin Ids
ASSUME BoundAssumption ==
    Bounds \subseteq [vehicles : 0..MaxVehicles, links : SUBSET Links, choices : Nat]

NoVehicle == 0

VARIABLES
    id,              \* system id of each vehicle object, 0 before it is created
    vehicles,        \* _vehicles
    active,          \* _activeVehicle
    available,       \* _activeVehicleAvailable
    paramReady,      \* _parameterReadyVehicleAvailable
    timers,          \* the single shots under way: what they do, for whom
    deleted,         \* vehicle objects deleted
    ready,           \* vehicle objects whose parameters are ready
    choices,         \* settings changed so far
    bound            \* the one of Bounds this behaviour keeps to

manager == <<vehicles, active, available, paramReady, timers>>
vars == <<m, link, id, manager, deleted, ready, choices, bound>>

Created == {v \in Vehicles : id[v] # 0}
Alive == Created \ deleted
Listed == ToSet(vehicles)
NewVehicle == Cardinality(Created) + 1

Init ==
    /\ bound \in Bounds
    /\ LinksInit(bound.links)
    /\ id = [v \in Vehicles |-> 0]
    /\ vehicles = <<>> /\ active = NoVehicle /\ available = FALSE /\ paramReady = FALSE
    /\ timers = <<>> /\ deleted = {} /\ ready = {} /\ choices = 0

-----------------------------------------------------------------------------
(* The manager's own members, threaded like those of the link managers.    *)

Manager == [vehicles |-> vehicles, active |-> active, available |-> available,
            paramReady |-> paramReady, timers |-> timers]
ManagerBecomes(x) ==
    /\ vehicles' = x.vehicles /\ active' = x.active /\ available' = x.available
    /\ paramReady' = x.paramReady /\ timers' = x.timers

(* Nothing is available while the active vehicle changes.                  *)
setActiveVehicle(x, v) ==
    IF v = x.active THEN x
    ELSE [x EXCEPT !.available = @ /\ x.active = NoVehicle,
                   !.paramReady = @ /\ x.active = NoVehicle,
                   !.timers = Append(@, [does |-> "activate", vehicle |-> v])]

NoSecondPhase(x, v) ==
    IF ~Contains(x.vehicles, v) THEN x
    ELSE [x EXCEPT !.vehicles = RemoveFirst(@, v), !.available = FALSE, !.paramReady = FALSE]
_deleteVehiclePhase1(x, v) ==
    IF ~Contains(x.vehicles, v) THEN x
    ELSE [x EXCEPT !.vehicles = RemoveFirst(@, v), !.available = FALSE, !.paramReady = FALSE,
                   !.timers = Append(@, [does |-> "delete", vehicle |-> v])]

(* What the link managers did, and the allLinksRemoved they signalled.     *)
Takes(w, x) ==
    LET without[i \in 0..Len(w.removed)] ==         \* i of the signals received
            IF i = 0 THEN x ELSE _deleteVehiclePhase1(without[i - 1], w.removed[i])
    IN Handled(w) /\ ManagerBecomes(without[Len(w.removed)])

-----------------------------------------------------------------------------
(* A message of the vehicle with an id.  A heartbeat of an unknown id      *)
(* creates a vehicle first; then every object with that id gets the        *)
(* message, those about to be deleted included.                            *)

Hears(w, i, l, ids) ==
    LET heard[v \in 0..MaxVehicles] ==              \* the first v objects have got it
            IF v = 0 THEN w
            ELSE IF ids[v] = i /\ v \notin deleted THEN mavlinkMessageReceived(heard[v - 1], v, l)
            ELSE heard[v - 1]
    IN heard[MaxVehicles]

_vehicleHeartbeatInfo(i, l) ==
    /\ link[l].state # "gone"
    /\ i \notin {id[v] : v \in Listed} /\ NewVehicle <= bound.vehicles
    /\ id' = [id EXCEPT ![NewVehicle] = i]
    /\ LET added == [Manager EXCEPT !.vehicles = Append(@, NewVehicle)]
       IN Takes(Hears(_addLink(Now, NewVehicle, l), i, l, id'),
                IF Len(added.vehicles) > 1 THEN added ELSE setActiveVehicle(added, NewVehicle))
    /\ UNCHANGED <<deleted, ready, choices, bound>>

messageReceived(i, l) ==
    /\ link[l].state # "gone"
    /\ Takes(Hears(Now, i, l, id), Manager)
    /\ UNCHANGED <<id, deleted, ready, choices, bound>>

-----------------------------------------------------------------------------
(* The link managers' own events.                                          *)

CommLostCheck(v) ==
    /\ v \in Alive /\ m[v].rgLinkInfo # <<>>            \* the timer runs
    /\ \E silent \in SUBSET ListedLinks(m[v]) : Takes(_commLostCheck(Now, v, silent), Manager)
    /\ UNCHANGED <<id, deleted, ready, choices, bound>>

Disconnected(l) ==
    /\ link[l].state # "gone"
    /\ Takes(LinkDisconnects(Now, l), Manager)
    /\ UNCHANGED <<id, deleted, ready, choices, bound>>

(* The user closes or reboots a vehicle, or changes a setting of it.       *)
CloseVehicle(v) ==
    /\ v \in Listed
    /\ Takes(closeVehicle(Now, v), Manager)
    /\ UNCHANGED <<id, deleted, ready, choices, bound>>

Choose(w, x) ==
    /\ choices < bound.choices /\ choices' = choices + 1
    /\ Takes(w, x) /\ UNCHANGED <<id, deleted, ready, bound>>

UserChooses(v) ==
    /\ v \in Listed
    /\ \/ Choose(Now, setActiveVehicle(Manager, v))
       \/ \E l \in ListedLinks(m[v]) : Choose(setPrimaryLinkByName(Now, v, l), Manager)
       \/ Choose(setCommunicationLostEnabled(Now, v, ~m[v].enabled), Manager)
       \/ Choose(setAutoDisconnect(Now, v, ~m[v].autoDisconnect), Manager)

-----------------------------------------------------------------------------
(* The single shots and the parameters.                                    *)

Activated(x, v) ==
    [x EXCEPT !.active = v, !.available = @ \/ v # NoVehicle, !.paramReady = @ \/ v \in ready]

KeepsActive(x) == x.active
NextActive(x) == IF x.vehicles = <<>> THEN NoVehicle ELSE Head(x.vehicles)

_setActiveVehiclePhase2 ==
    /\ timers # <<>> /\ Head(timers).does = "activate"
    /\ ManagerBecomes(Activated([Manager EXCEPT !.timers = Tail(@)], Head(timers).vehicle))
    /\ UNCHANGED <<m, link, id, deleted, ready, choices, bound>>

_deleteVehiclePhase2 ==
    /\ timers # <<>> /\ Head(timers).does = "delete"
    /\ ManagerBecomes(Activated([Manager EXCEPT !.timers = Tail(@)], NextActive(Manager)))
    /\ deleted' = deleted \cup {Head(timers).vehicle} /\ ready' = ready \ {Head(timers).vehicle}
    /\ Handled(Destroyed(Now, Head(timers).vehicle))
    /\ UNCHANGED <<id, choices, bound>>

_vehicleParametersReadyChanged(v) ==
    /\ v \in Alive \ ready
    /\ ready' = ready \cup {v}
    /\ ManagerBecomes([Manager EXCEPT !.paramReady = @ \/ v = active])
    /\ UNCHANGED <<m, link, id, deleted, choices, bound>>

Next ==
    \/ \E i \in Ids, l \in Links : _vehicleHeartbeatInfo(i, l) \/ messageReceived(i, l)
    \/ \E v \in Vehicles : CommLostCheck(v) \/ CloseVehicle(v) \/ UserChooses(v) \/ _vehicleParametersReadyChanged(v)
    \/ \E l \in Links : Disconnected(l)
    \/ _setActiveVehiclePhase2 \/ _deleteVehiclePhase2

Spec == Init /\ [][Next]_vars

-----------------------------------------------------------------------------
LinkInfo == [link : Links, commLost : BOOLEAN]

TypeOK ==
    /\ \A v \in Vehicles :
         /\ m[v].rgLinkInfo \in Seq(LinkInfo) /\ Cardinality(ListedLinks(m[v])) = Len(m[v].rgLinkInfo)
         /\ m[v].primary \in ListedLinks(m[v]) \cup {NoLink}
         /\ {m[v].communicationLost, m[v].enabled, m[v].autoDisconnect, m[v].signalled, m[v].byUser} \subseteq BOOLEAN
    /\ \A l \in Links : /\ link[l].state \in {"up", "closing", "gone"} /\ link[l].refs \in 0..MaxVehicles
                        /\ link[l].listeners \in Seq(Vehicles)
    /\ id \in [Vehicles -> Ids \cup {0}]
    /\ vehicles \in Seq(Vehicles) /\ Cardinality(Listed) = Len(vehicles)
    /\ active \in Created \cup {NoVehicle} /\ available \in BOOLEAN /\ paramReady \in BOOLEAN
    /\ timers \in Seq([does : {"activate", "delete"}, vehicle : Vehicles])
    /\ deleted \subseteq Created /\ ready \subseteq Alive /\ choices \in 0..bound.choices

(* The primary link is live when any link is, and of normal latency when a *)
(* live one is, until the user's own choice is reviewed.                   *)
PrimaryIsUsable ==
    \A v \in Alive : ~m[v].byUser =>
      /\ LiveLinks(m[v]) # {} => m[v].primary \in LiveLinks(m[v])
      /\ LiveLinks(m[v]) \ HighLatency # {} => m[v].primary \notin HighLatency

(* A link is made to disconnect only when no vehicle uses it any more.     *)
LinkOpenWhileUsed ==
    [][\A l \in Links : link[l].state = "up" /\ link'[l].state = "closing" =>
         \A v \in Alive : l \notin ListedLinks(m'[v])]_vars

(* A vehicle on the list has a link, and none shares its id; no deleted    *)
(* vehicle is active, about to be, listed, or deleted again.               *)
ListIsSound ==
    /\ \A v \in Listed : /\ m[v].rgLinkInfo # <<>>
                         /\ \A u \in Listed \ {v} : id[u] # id[v]
    /\ active \notin deleted /\ Listed \cap deleted = {}
    /\ \A i \in DOMAIN timers : timers[i].vehicle \notin deleted

(* When no change is under way a vehicle is active if there is one, it is  *)
(* one of the list and announced as available, and the vehicles taken off  *)
(* the list have been deleted.                                             *)
SettledSelection ==
    timers = <<>> =>
      /\ active \in Listed \cup {NoVehicle}
      /\ active = NoVehicle <=> vehicles = <<>>
      /\ active # NoVehicle => available
      /\ Alive = Listed

(* VehicleLinkManager.cc: "Any single regained link ends total             *)
(* communication loss".  A link that is new does not.                      *)
CommunicationLostMeansSilent ==
    \A v \in Listed : m[v].communicationLost => LiveLinks(m[v]) = {}
=============================================================================
