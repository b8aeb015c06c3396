------------------------- MODULE VehicleLinkManager -------------------------
(* The links of a vehicle (src/Vehicle/VehicleLinkManager.cc): which ones  *)
(* it is heard on, which are silent, and the primary link everything is    *)
(* sent over.  The link objects are shared by the vehicles; each counts    *)
(* the vehicles that list it and disconnects when none does.               *)
(*                                                                         *)
(* A vehicle object's manager is m[v].  A handler is an operator that      *)
(* takes the managers and links as they are, w, and returns them as the    *)
(* handler leaves them; w.removed collects the allLinksRemoved signals.    *)
(* MultiVehicleManager receives these and composes the handlers.           *)
EXTENDS Integers, Sequences, FiniteSets, SequencesExt

CONSTANTS
    Links,           \* link objects
    NoLink,
    HighLatency,     \* links whose configuration says so
    UsbDirect,       \* serial links straight to a flight controller
    MaxVehicles      \* vehicle objects are numbered up to here

ASSUME LinkAssumption ==
    /\ HighLatency \subseteq Links /\ UsbDirect \subseteq Links \ HighLatency /\ NoLink \notin Links
ASSUME VehicleAssumption == MaxVehicles \in Nat

VARIABLES
    m,       \* the link manager of each vehicle object
    link     \* state of each link: up, closing, gone; references; listeners

Vehicles == 1..MaxVehicles

NoManager ==
    [rgLinkInfo |-> <<>>, primary |-> NoLink, communicationLost |-> FALSE, enabled |-> TRUE,
     autoDisconnect |-> FALSE, signalled |-> FALSE, byUser |-> FALSE]

LinksInit(connected) ==
    /\ m = [v \in Vehicles |-> NoManager]
    /\ link = [l \in Links |-> [state |-> IF l \in connected THEN "up" ELSE "gone", refs |-> 0, listeners |-> <<>>]]

Now == [m |-> m, link |-> link, removed |-> <<>>]
Handled(w) == m' = w.m /\ link' = w.link

-----------------------------------------------------------------------------
ListedLinks(x) == {x.rgLinkInfo[i].link : i \in DOMAIN x.rgLinkInfo}
LostLinks(x) == {x.rgLinkInfo[i].link : i \in {j \in DOMAIN x.rgLinkInfo : x.rgLinkInfo[j].commLost}}
LiveLinks(x) == ListedLinks(x) \ LostLinks(x)

Marked(x, S, lost) ==
    [x EXCEPT !.rgLinkInfo = [i \in DOMAIN @ |-> IF @[i].link \in S THEN [link |-> @[i].link, commLost |-> lost]
                                                 ELSE @[i]]]

(* The first live link of a kind, in the order the links were added.       *)
FirstLive(x, S) ==
    LET i == SelectInSeq(x.rgLinkInfo, LAMBDA info : info.link \in S /\ ~info.commLost)
    IN IF i = 0 THEN NoLink ELSE x.rgLinkInfo[i].link

_bestActivePrimaryLink(x) ==
    IF FirstLive(x, UsbDirect) # NoLink THEN FirstLive(x, UsbDirect)
    ELSE IF FirstLive(x, Links \ HighLatency) # NoLink THEN FirstLive(x, Links \ HighLatency)
    ELSE IF x.primary \in HighLatency THEN x.primary
    ELSE FirstLive(x, HighLatency)

(* A primary link of normal latency is kept while it is live; a silent one *)
(* as long as there is nothing better.                                     *)
_updatePrimaryLink(x) ==
    LET best == _bestActivePrimaryLink(x)
        keeps == \/ x.primary \in LiveLinks(x) \ HighLatency
                 \/ x.primary # NoLink /\ best = NoLink
    IN [x EXCEPT !.primary = IF keeps THEN @ ELSE best, !.byUser = FALSE]

(* A link k gets, or loses, a vehicle that listens to it.                  *)
addVehicleReference(k, v) == [k EXCEPT !.refs = @ + 1, !.listeners = Append(@, v)]
ReferenceNotCounted(k) == [k EXCEPT !.state = IF @ = "up" THEN "closing" ELSE @]
(* LinkInterface: a link without references disconnects.                   *)
removeVehicleReference(k) ==
    LET left == k.refs - 1
    IN [k EXCEPT !.refs = left, !.state = IF left = 0 /\ @ = "up" THEN "closing" ELSE @]
Unheard(k, v) == [k EXCEPT !.listeners = RemoveFirst(@, v)]

Listing(x, l) == [x EXCEPT !.rgLinkInfo = Append(@, [link |-> l, commLost |-> FALSE])]
Without(x, l) ==
    [x EXCEPT !.primary = IF @ = l THEN NoLink ELSE @,
              !.rgLinkInfo = RemoveFirstMatch(@, LAMBDA info : info.link = l)]

_addLink(w, v, l) ==
    IF w.link[l].state = "gone" THEN w
    ELSE [w EXCEPT !.m[v] = _updatePrimaryLink(Listing(@, l)), !.link[l] = addVehicleReference(@, v)]
_removeLink(w, v, l) ==
    IF l \notin ListedLinks(w.m[v]) THEN w
    ELSE [w EXCEPT !.m[v] = Without(@, l), !.link[l] = removeVehicleReference(Unheard(@, v))]

RegainedWithoutReview(x, l) == [Marked(x, {l}, FALSE) EXCEPT !.communicationLost = FALSE]
_commRegainedOnLink(x, l) ==
    LET y == _updatePrimaryLink(Marked(x, {l}, FALSE))
    IN [y EXCEPT !.communicationLost = @ /\ LiveLinks(y) = {}]

LostLinkAddedAgain(w, v, l) == IF l \notin LiveLinks(w.m[v]) THEN _addLink(w, v, l) ELSE w
(* Radio status apart, any message of the vehicle.                         *)
mavlinkMessageReceived(w, v, l) ==
    IF l \notin ListedLinks(w.m[v]) THEN _addLink(w, v, l)
    ELSE IF l \in LostLinks(w.m[v]) THEN [w EXCEPT !.m[v] = _commRegainedOnLink(@, l)]
    ELSE w

(* The slot of one vehicle for the disconnected signal of a link.          *)
_linkDisconnected(w, v, l) ==
    LET x == _removeLink(w, v, l)
        y == [x EXCEPT !.m[v] = _updatePrimaryLink(@)]
    IN IF y.m[v].rgLinkInfo = <<>> /\ ~y.m[v].signalled THEN [y EXCEPT !.removed = Append(@, v)] ELSE y

closeVehicle(w, v) ==
    LET links == w.m[v].rgLinkInfo
        without[i \in 0..Len(links)] ==             \* i of the links removed
            IF i = 0 THEN w ELSE _removeLink(without[i - 1], v, links[i].link)
    IN [without[Len(links)] EXCEPT !.m[v].signalled = TRUE, !.removed = Append(@, v)]

(* `silent' are the links not heard on for _heartbeatMaxElpasedMSecs.      *)
_commLostCheck(w, v, silent) ==
    LET x == _updatePrimaryLink(Marked(w.m[v], silent \ HighLatency, TRUE))
        marked == [w EXCEPT !.m[v] = x]
    IN IF ~w.m[v].enabled THEN w
       ELSE IF x.communicationLost \/ LiveLinks(x) # {} THEN marked
       ELSE IF x.autoDisconnect THEN closeVehicle(marked, v)
       ELSE [marked EXCEPT !.m[v].communicationLost = TRUE]

setPrimaryLinkByName(w, v, l) == [w EXCEPT !.m[v].primary = l, !.m[v].byUser = TRUE]
setCommunicationLostEnabled(w, v, on) == [w EXCEPT !.m[v].enabled = on]
setAutoDisconnect(w, v, on) == [w EXCEPT !.m[v].autoDisconnect = on]

(* The link goes: LinkManager forgets it, then every vehicle that listens  *)
(* is told, in the order they started to.                                  *)
LinkDisconnects(w, l) ==
    LET told == w.link[l].listeners
        after[i \in 0..Len(told)] ==                \* i of them have been told
            IF i = 0 THEN [w EXCEPT !.link[l].state = "gone"] ELSE _linkDisconnected(after[i - 1], told[i], l)
    IN after[Len(told)]

(* With the object go its connections, and what it lists; the references   *)
(* it holds to links stay counted.                                         *)
Destroyed(w, v) ==
    [w EXCEPT !.m[v] = NoManager,
              !.link = [l \in Links |-> Unheard(@[l], v)]]
=============================================================================
