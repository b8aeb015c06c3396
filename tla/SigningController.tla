------------------------- MODULE SigningController -------------------------
(***************************************************************************)
(* MAVLink message signing: one SigningController per link, with the       *)
(* signing state of the link's channel and at most one operation waiting   *)
(* for the vehicle, and one VehicleSigningController per vehicle, which    *)
(* begins the operations, retransmits SETUP_SIGNING and follows the        *)
(* vehicle's primary link from controller to controller.  Two vehicles on  *)
(* one link share its controller.                                          *)
(*                                                                         *)
(* Everything runs on the main thread: MAVLinkProtocol::receiveBytes is a  *)
(* queued slot there, and the controllers' signals are direct calls.  The  *)
(* 5 s timer of a controller runs exactly while its operation is pending,  *)
(* so it has no variable of its own.  What libmavlink accepts from the     *)
(* wire, the vehicle and the radio are external.                           *)
(***************************************************************************)
EXTENDS Naturals, FiniteSets

CONSTANTS
    Vehicles,    \* system ids
    Links,
    Keys,        \* every key a vehicle may sign with
    StoredKeys,  \* the keys the ground station has in MAVLinkSigningKeys
    NoVehicle, NoLink,
    NoKey,       \* a channel that is off, a frame without signature
    MaxOps       \* bound: operations begun in one behaviour

ASSUME SigningAssumption ==
    /\ StoredKeys \subseteq Keys
    /\ NoVehicle \notin Vehicles /\ NoLink \notin Links /\ NoKey \notin Keys
    /\ MaxOps \in Nat

VARIABLES
    channel,     \* per link, SigningChannel: [key, signOutgoing, policy, cooldown]
    op,          \* per link, SigningController::_op
    active,      \* per vehicle: the link of VehicleSigningController::_active
    handlers,    \* per vehicle: its single-shot connections to _active
    retry,       \* per vehicle: _retryTimer is running
    pendingKey,  \* per vehicle: _pendingKey, NoKey for a disable
    setups,      \* the SETUP_SIGNING messages sent; copies arrive late, or never
    signed,      \* per vehicle: the signatures of the frames it has sent, likewise
    refused,     \* per vehicle: it has sent an error STATUSTEXT about signing
    ops          \* operations begun so far

vars == <<channel, op, active, handlers, retry, pendingKey, setups, signed,
          refused, ops>>
gcs == <<channel, op, handlers, retry, pendingKey>>
air == <<setups, signed, refused>>

-----------------------------------------------------------------------------
Signature == Keys \union {NoKey}

NoOp == [kind |-> "None", expectedSysId |-> NoVehicle, key |-> NoKey]

ChannelType == [key : Signature, signOutgoing : BOOLEAN,
                policy : {"None", "Pending", "Strict"}, cooldown : BOOLEAN]

OpType == {NoOp}
    \union [kind : {"Enable"}, expectedSysId : Vehicles, key : StoredKeys]
    \union [kind : {"Disable"}, expectedSysId : Vehicles, key : {NoKey}]

(***************************************************************************)
(* Type invariant: an idle controller remembers neither vehicle nor key,   *)
(* an enabling one a stored key, a disabling one none.                     *)
(***************************************************************************)
TypeOK ==
    /\ channel \in [Links -> ChannelType]
    /\ op \in [Links -> OpType]
    /\ active \in [Vehicles -> Links \union {NoLink}]
    /\ handlers \in [Vehicles -> [confirmed : 0..MaxOps, failed : 0..MaxOps]]
    /\ retry \in [Vehicles -> BOOLEAN]
    /\ pendingKey \in [Vehicles -> Signature]
    /\ setups \subseteq [to : Vehicles, key : Signature]
    /\ signed \in [Vehicles -> SUBSET Signature]
    /\ refused \in [Vehicles -> BOOLEAN]
    /\ ops \in 0..MaxOps

ChannelOff(ch) == [ch EXCEPT !.key = NoKey, !.signOutgoing = FALSE, !.policy = "None"]

\* LinkInterface creates the controller and clears the channel.  A vehicle
\* may come up signing already, with a key the ground station has or has not.
Init ==
    /\ channel = [l \in Links |-> [key |-> NoKey, signOutgoing |-> FALSE,
                                   policy |-> "None", cooldown |-> FALSE]]
    /\ op = [l \in Links |-> NoOp]
    /\ active \in [Vehicles -> Links]
    /\ handlers = [v \in Vehicles |-> [confirmed |-> 0, failed |-> 0]]
    /\ retry = [v \in Vehicles |-> FALSE]
    /\ pendingKey = [v \in Vehicles |-> NoKey]
    /\ setups = {}
    /\ signed \in [Vehicles -> {{key} : key \in Signature}]
    /\ refused = [v \in Vehicles |-> FALSE]
    /\ ops = 0

-----------------------------------------------------------------------------
(***************************************************************************)
(* The end of an operation: SigningController                              *)
(***************************************************************************)
\* VehicleSigningController::_onSigningConfirmed and _onSigningFailed, in
\* every vehicle that has a connection to link l's controller for the signal.
Emit(l, signal) ==
    LET heard == {v \in Vehicles : active[v] = l /\ handlers[v][signal] > 0}
    IN  /\ retry' = [v \in Vehicles |-> retry[v] /\ v \notin heard]
        /\ pendingKey' = [v \in Vehicles |-> IF v \in heard THEN NoKey ELSE pendingKey[v]]
        /\ handlers' = [v \in Vehicles |->
                           IF v \in heard THEN [handlers[v] EXCEPT ![signal] = 0]
                                          ELSE handlers[v]]

ClearedKindOnly(o) == [o EXCEPT !.kind = "None"]
ClearedOp(o) == NoOp

Clear(l) == op' = [op EXCEPT ![l] = ClearedOp(op[l])]

\* What a failed operation leaves of the channel.
FailedUnrestored(l) ==
    IF op[l].kind = "Enable" THEN ChannelOff(channel[l]) ELSE channel[l]
FailedChannel(l) ==
    IF op[l].kind = "Enable" THEN ChannelOff(channel[l])
                             ELSE [channel[l] EXCEPT !.policy = "Strict"]

\* What a confirmed one leaves: signing with the new key, or nothing.
ConfirmedChannel(l) ==
    IF op[l].kind = "Enable"
    THEN [channel[l] EXCEPT !.signOutgoing = TRUE, !.policy = "Strict"]
    ELSE ChannelOff(channel[l])

Pending(l) == op[l].kind # "None"

Fail(l) ==
    /\ channel' = [channel EXCEPT ![l] = FailedChannel(l)]
    /\ Clear(l)
    /\ Emit(l, "failed")

Confirm(l) ==
    /\ channel' = [channel EXCEPT ![l] = ConfirmedChannel(l)]
    /\ Clear(l)
    /\ Emit(l, "confirmed")

-----------------------------------------------------------------------------
(***************************************************************************)
(* Beginning an operation: VehicleSigningController::enable and disable    *)
(***************************************************************************)
\* The controller's operation is set, both outcomes are wired, SETUP_SIGNING
\* goes out (twice; copies are one element of setups) and the timer starts.
Begin(v, kind, key) ==
    /\ op' = [op EXCEPT ![active[v]] =
                 [kind |-> kind, expectedSysId |-> v, key |-> key]]
    /\ handlers' = [handlers EXCEPT ![v] =
                       [confirmed |-> @.confirmed + 1, failed |-> @.failed + 1]]
    /\ retry' = [retry EXCEPT ![v] = TRUE]
    /\ pendingKey' = [pendingKey EXCEPT ![v] = key]
    /\ setups' = setups \union {[to |-> v, key |-> key]}
    /\ ops' = ops + 1
    /\ UNCHANGED <<active, signed, refused>>

\* The key is installed to verify the vehicle's answer, not yet to sign with.
Enable(v, key) ==
    /\ ops < MaxOps
    /\ active[v] # NoLink
    /\ ~Pending(active[v])
    /\ channel' = [channel EXCEPT ![active[v]] =
                      [@ EXCEPT !.key = key, !.signOutgoing = FALSE, !.policy = "Pending"]]
    /\ Begin(v, "Enable", key)

\* Refused unless the channel is signing; HEARTBEATs are let through again.
Disable(v) ==
    /\ ops < MaxOps
    /\ active[v] # NoLink
    /\ ~Pending(active[v])
    /\ channel[active[v]].key # NoKey
    /\ channel' = [channel EXCEPT ![active[v]].policy = "Pending"]
    /\ Begin(v, "Disable", NoKey)

\* _onRetryTimer: another SETUP_SIGNING while the controller is still busy.
Retransmit(v) ==
    /\ retry[v]
    /\ IF active[v] # NoLink /\ Pending(active[v])
       THEN /\ setups' = setups \union {[to |-> v, key |-> pendingKey[v]]}
            /\ UNCHANGED <<retry, pendingKey>>
       ELSE /\ retry' = [retry EXCEPT ![v] = FALSE]
            /\ pendingKey' = [pendingKey EXCEPT ![v] = NoKey]
            /\ UNCHANGED setups
    /\ UNCHANGED <<channel, op, active, handlers, signed, refused, ops>>

-----------------------------------------------------------------------------
(***************************************************************************)
(* Frames received: SigningController::processFrame                        *)
(***************************************************************************)
\* libmavlink hands a frame over when the channel is off, when the signature
\* verifies, or when the policy accepts it all the same; the pending policy
\* does for HEARTBEAT and STATUSTEXT, unsigned or signed with another key.
Accepted(l, key) ==
    channel[l].key \in {NoKey, key} \/ channel[l].policy = "Pending"

\* A signed frame on a channel that is off is tried against the stored keys;
\* a miss stops the trying for a while.
AutoDetect(l, v) ==
    /\ \E key \in signed[v] \ {NoKey} :
          /\ channel[l].key = NoKey
          /\ op[l].kind # "Enable"
          /\ ~channel[l].cooldown
          /\ channel' = [channel EXCEPT ![l] =
                IF key \in StoredKeys
                THEN [key |-> key, signOutgoing |-> TRUE, policy |-> "Strict",
                      cooldown |-> FALSE]
                ELSE [@ EXCEPT !.cooldown = TRUE]]
    /\ UNCHANGED <<op, active, handlers, retry, pendingKey, air, ops>>

CooldownExpires(l) ==
    /\ channel[l].cooldown
    /\ channel' = [channel EXCEPT ![l].cooldown = FALSE]
    /\ UNCHANGED <<op, active, handlers, retry, pendingKey, air, ops>>

\* The frame that settles the pending operation: for an enable a HEARTBEAT
\* that verifies with the operation's key, for a disable an unsigned one.
SettlesUnverified(l, v, key) ==
    /\ Pending(l) /\ op[l].expectedSysId = v /\ Accepted(l, key)
    /\ IF op[l].kind = "Enable" THEN key # NoKey ELSE key = NoKey
Settles(l, v, key) ==
    /\ Pending(l) /\ op[l].expectedSysId = v /\ Accepted(l, key)
    /\ key = op[l].key

Heartbeat(l, v) ==
    /\ \E key \in signed[v] : Settles(l, v, key)
    /\ Confirm(l)
    /\ UNCHANGED <<active, air, ops>>

\* An error STATUSTEXT that mentions signing ends the operation at once,
\* whichever SETUP_SIGNING the vehicle meant.
Statustext(l, v) ==
    /\ refused[v]
    /\ Pending(l) /\ op[l].expectedSysId = v
    /\ \E key \in signed[v] : Accepted(l, key)
    /\ Fail(l)
    /\ UNCHANGED <<active, air, ops>>

OnTimeout(l) ==
    /\ Pending(l)
    /\ Fail(l)
    /\ UNCHANGED <<active, air, ops>>

-----------------------------------------------------------------------------
(***************************************************************************)
(* The primary link changes: _disconnect, then _connect                    *)
(***************************************************************************)
\* _disconnect cancels whatever operation the controller has pending, also
\* one of another vehicle, and drops the connections only then, so that the
\* signal of the cancellation is still heard.
DisconnectedFirst(v, l) ==
    IF Pending(l)
    THEN /\ channel' = [channel EXCEPT ![l] = FailedChannel(l)]
         /\ Clear(l)
         /\ handlers' = [handlers EXCEPT ![v] = [confirmed |-> 0, failed |-> 0]]
         /\ UNCHANGED <<retry, pendingKey>>
    ELSE /\ handlers' = [handlers EXCEPT ![v] = [confirmed |-> 0, failed |-> 0]]
         /\ UNCHANGED <<channel, op, retry, pendingKey>>
Disconnect(v, l) ==
    LET heard == {w \in Vehicles : active[w] = l /\ handlers[w].failed > 0 /\ Pending(l)}
    IN  /\ IF Pending(l) THEN /\ channel' = [channel EXCEPT ![l] = FailedChannel(l)]
                              /\ Clear(l)
                         ELSE UNCHANGED <<channel, op>>
        /\ retry' = [w \in Vehicles |-> retry[w] /\ w \notin heard]
        /\ pendingKey' = [w \in Vehicles |-> IF w \in heard THEN NoKey ELSE pendingKey[w]]
        /\ handlers' = [w \in Vehicles |->
              IF w = v THEN [confirmed |-> 0, failed |-> 0]
              ELSE IF w \in heard THEN [handlers[w] EXCEPT !.failed = 0]
              ELSE handlers[w]]

PrimaryLinkChanged(v) ==
    /\ \E l \in (Links \union {NoLink}) \ {active[v]} : active' = [active EXCEPT ![v] = l]
    /\ IF active[v] # NoLink THEN Disconnect(v, active[v]) ELSE UNCHANGED gcs
    /\ UNCHANGED <<air, ops>>

-----------------------------------------------------------------------------
(***************************************************************************)
(* External: the vehicle (as MockLink plays it, with ArduPilot's refusal)  *)
(* and the radio                                                           *)
(***************************************************************************)
\* The vehicle takes a SETUP_SIGNING: it signs with the key from here on.
VehicleAccepts ==
    /\ \E m \in setups : signed' = [signed EXCEPT ![m.to] = @ \union {m.key}]
    /\ UNCHANGED <<gcs, active, setups, refused, ops>>

\* It refuses one, because it is armed, and says so.
VehicleRefuses ==
    /\ \E m \in setups : refused' = [refused EXCEPT ![m.to] = TRUE]
    /\ UNCHANGED <<gcs, active, setups, signed, ops>>

-----------------------------------------------------------------------------
Next ==
    \/ \E v \in Vehicles :
          \/ \E key \in StoredKeys : Enable(v, key)
          \/ Disable(v)
          \/ Retransmit(v)
          \/ PrimaryLinkChanged(v)
    \/ \E l \in Links :
          \/ \E v \in Vehicles : AutoDetect(l, v) \/ Heartbeat(l, v) \/ Statustext(l, v)
          \/ CooldownExpires(l)
          \/ OnTimeout(l)
    \/ VehicleAccepts \/ VehicleRefuses

Spec == Init /\ [][Next]_vars

-----------------------------------------------------------------------------
(***************************************************************************)
(* What a channel does follows its operation: at rest it is off, or it     *)
(* signs and insists on signatures; while an enable waits it listens with  *)
(* the new key and signs nothing; while a disable waits it still signs.    *)
(* However the last operation ended (confirmed, refused, timed out,        *)
(* cancelled by a change of links) and whatever was detected on the way.   *)
(***************************************************************************)
ChannelFollowsOperation ==
    \A l \in Links :
       CASE op[l].kind = "Enable"  -> /\ channel[l].key = op[l].key
                                      /\ ~channel[l].signOutgoing
                                      /\ channel[l].policy = "Pending"
         [] op[l].kind = "Disable" -> /\ channel[l].key # NoKey
                                      /\ channel[l].signOutgoing
                                      /\ channel[l].policy = "Pending"
         [] op[l].kind = "None"    -> /\ channel[l].signOutgoing <=> channel[l].key # NoKey
                                      /\ channel[l].signOutgoing <=> channel[l].policy = "Strict"

(***************************************************************************)
(* The retransmission timer of a vehicle runs for its own operation only:  *)
(* it is the one pending in the controller of the primary link, and the    *)
(* key that goes out again is the key of that operation.  Otherwise one    *)
(* vehicle would send its key during the operation of another.             *)
(***************************************************************************)
RetryIsForPendingOperation ==
    \A v \in Vehicles : retry[v] =>
       /\ active[v] # NoLink
       /\ Pending(active[v])
       /\ op[active[v]].expectedSysId = v
       /\ op[active[v]].key = pendingKey[v]

(***************************************************************************)
(* The ground station starts to sign with a key only after a vehicle has   *)
(* signed with it, and an enable is confirmed only by the vehicle it was   *)
(* begun for, whichever frames arrive late, from whichever vehicle.        *)
(***************************************************************************)
SignsWithProvenKey ==
    [][\A l \in Links : channel'[l].signOutgoing /\ ~channel[l].signOutgoing =>
          \E v \in Vehicles :
             /\ channel'[l].key \in signed[v]
             /\ op[l].kind # "None" => v = op[l].expectedSysId]_vars
=============================================================================
