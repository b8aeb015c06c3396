----------------------------- MODULE PlanManager -----------------------------
(***************************************************************************)
(* src/MissionManager/PlanManager.cc (and the writes MissionManager.cc     *)
(* adds to it): transfers of one plan (mission, geofence or rally points)  *)
(* between the ground station and a vehicle with the MAVLink mission       *)
(* protocol, over links that lose messages and delay them past the ack     *)
(* timer.  The two directions are FIFO queues.                             *)
(*                                                                         *)
(* A plan is a sequence of values; an item on the wire or in a list is     *)
(* [seq, val].  PlanManager's index lists are sets here: they are filled   *)
(* in ascending order, only ever lose members, and the code reads their    *)
(* first element, which is the minimum.  It listens to the vehicle exactly *)
(* while a transaction is in progress, so the connection has no variable.  *)
(* A primary link that is gone loses what is sent, like a lossy one.       *)
(* Messages of the two other plan types are dropped on arrival and left    *)
(* out.                                                                    *)
(*                                                                         *)
(* The vehicle (V... actions) is not in src/: it is the mission protocol   *)
(* server this code expects, one upload at a time, stored when complete.   *)
(***************************************************************************)
EXTENDS Naturals, Sequences, FiniteSets, FiniteSetsExt

CONSTANTS
    Plans,          \* plans the user may write, sequences of values
    Apm,            \* apmFirmware()
    MaxRetryCount,  \* _maxRetryCount
    MaxTransactions,\* bound: transfers started in a behaviour
    ChannelSize     \* bound: messages under way per direction; more are lost

ASSUME PlanManagerParameters ==
    /\ \A p \in Plans : p \in Seq({p[i] : i \in DOMAIN p})
    /\ Apm \in BOOLEAN
    /\ MaxRetryCount \in Nat /\ MaxTransactions \in Nat /\ ChannelSize \in Nat \ {0}

VARIABLES
    transactionInProgress,  \* "none", "read", "write" or "removeAll"
    expectedAck,            \* AckType_t
    timerActive,            \* _ackTimeoutTimer, single shot
    retryCount,
    itemIndicesToWrite, itemIndicesToRead,
    missionItems,           \* _missionItems: "set of mission items on vehicle"
    writeMissionItems,      \* _writeMissionItems
    resumeMission,          \* _resumeMission
    started,                \* history: transfers started
    asked,                  \* history: what each of them was to do
    guided,                 \* history: the last one is an ArduPilot guided item
    clean,                  \* history: nothing was under way when the last one started
    signals,                \* history: completion signals emitted, oldest first
    vehiclePlan,            \* plan stored on the vehicle
    upload,                 \* the vehicle's upload in progress: [count, items], count 0 when none
    toVehicle, toGcs        \* messages under way

gcs == <<transactionInProgress, expectedAck, timerActive, retryCount, itemIndicesToWrite,
         itemIndicesToRead, missionItems, writeMissionItems, resumeMission, guided, asked, started, clean, signals>>
vehicle == <<vehiclePlan, upload>>
vars == <<gcs, vehicle, toVehicle, toGcs>>

Transfer == {"read", "write", "removeAll", "guided"}
Value == UNION {{p[i] : i \in DOMAIN p} : p \in Plans}
Item == [seq : Nat, val : Value]
ItemsOf(plan) == [i \in DOMAIN plan |-> [seq |-> i - 1, val |-> plan[i]]]
PlanOf(items) == [i \in DOMAIN items |-> items[i].val]
NoUpload == [count |-> 0, items |-> <<>>]
Idle == transactionInProgress = "none"     \* !inProgress()

TypeOK ==
    /\ transactionInProgress \in {"none", "read", "write", "removeAll"}
    /\ expectedAck \in {"none", "count", "item", "request", "clearAll", "guided"}
    /\ timerActive \in BOOLEAN /\ resumeMission \in BOOLEAN
    /\ guided \in BOOLEAN /\ clean \in BOOLEAN
    /\ retryCount \in 0..(MaxRetryCount + 1)
    /\ itemIndicesToWrite \subseteq Nat /\ itemIndicesToRead \subseteq Nat
    /\ missionItems \in Seq(Item) /\ writeMissionItems \in Seq(Item)
    /\ started \in 0..MaxTransactions
    /\ asked \in [1..MaxTransactions -> Transfer \cup {"none"}]
    /\ signals \in Seq([tx : 1..MaxTransactions, ok : BOOLEAN,
                        kind : {"newMissionItemsAvailable", "sendComplete", "removeAllComplete"}])
    /\ vehiclePlan \in Seq(Value)
    /\ upload \in [count : Nat, items : Seq(Value)]

Init ==
    /\ transactionInProgress = "none" /\ expectedAck = "none" /\ timerActive = FALSE
    /\ retryCount = 0 /\ itemIndicesToWrite = {} /\ itemIndicesToRead = {}
    /\ missionItems = <<>> /\ writeMissionItems = <<>>
    /\ resumeMission = FALSE /\ guided = FALSE /\ started = 0 /\ clean = TRUE /\ signals = <<>>
    /\ asked = [t \in 1..MaxTransactions |-> "none"]
    /\ vehiclePlan \in Plans /\ upload = NoUpload
    /\ toVehicle = <<>> /\ toGcs = <<>>

-----------------------------------------------------------------------------
(* Messages and timers.                                                    *)

Push(channel, m) == IF Len(channel) < ChannelSize THEN Append(channel, m) ELSE channel

Send(m) == toVehicle' = Push(toVehicle, m)

_startAckTimeout(ack) == expectedAck' = ack /\ timerActive' = TRUE

(* What _checkForExpectedAck leaves when the answer was the expected one   *)
(* and no further one is awaited.                                          *)
AckStopped == expectedAck' = "none" /\ timerActive' = FALSE

_requestList ==
    /\ itemIndicesToRead' = {} /\ missionItems' = <<>>
    /\ Send([type |-> "requestList"])
    /\ _startAckTimeout("count")

_requestNextMissionItem(indices) ==
    /\ Send([type |-> "request", seq |-> Min(indices)])
    /\ _startAckTimeout("item")

_writeMissionCount(items) ==
    /\ Send([type |-> "count", n |-> Len(items)])
    /\ _startAckTimeout("request")

_removeAllWorker ==
    /\ Send([type |-> "clearAll"])
    /\ _startAckTimeout("clearAll")

(* _missionItems after a transfer that ends with `kind`.                   *)
WrittenItemsForgotten(kind, ok, items) ==
    IF kind = "newMissionItemsAvailable" /\ ok THEN items ELSE missionItems

ItemsAfter(kind, ok, items) ==
    CASE kind = "newMissionItemsAvailable" -> IF ok THEN items ELSE <<>>
      [] kind = "sendComplete" /\ ok -> writeMissionItems
      [] OTHER -> missionItems

(* _finishTransaction: items is the list a read has gathered.  The guided  *)
(* write shares TransactionWrite; guidedWrite is the apmGuidedItemWrite    *)
(* argument, by which it is told from a plan write: acked, it is not       *)
(* signalled at all.                                                       *)
_finishTransaction(ok, guidedWrite, items) ==
    LET kind == CASE transactionInProgress = "read" -> "newMissionItemsAvailable"
                  [] transactionInProgress = "write" /\ ~guidedWrite -> "sendComplete"
                  [] transactionInProgress = "removeAll" -> "removeAllComplete"
                  [] OTHER -> "none"
    IN  /\ transactionInProgress' = "none"
        /\ itemIndicesToRead' = {} /\ itemIndicesToWrite' = {}
        /\ missionItems' = ItemsAfter(kind, ok, items)
        /\ writeMissionItems' = IF kind = "sendComplete" THEN <<>> ELSE writeMissionItems
        /\ signals' = IF kind = "none" THEN signals
                      ELSE Append(signals, [tx |-> started, ok |-> ok, kind |-> kind])
        /\ resumeMission' = FALSE
        /\ UNCHANGED <<guided, asked, started, clean>>

Fail == _finishTransaction(FALSE, FALSE, missionItems)

-----------------------------------------------------------------------------
(* Transfers the user starts.                                              *)

Begin(kind) ==
    /\ Idle /\ started < MaxTransactions
    /\ transactionInProgress' = kind
    /\ started' = started + 1 /\ asked' = [asked EXCEPT ![started'] = kind]
    /\ clean' = (toVehicle = <<>> /\ toGcs = <<>> /\ upload = NoUpload)
    /\ guided' = FALSE
    /\ UNCHANGED <<vehicle, signals>>

loadFromVehicle ==
    /\ Begin("read")
    /\ retryCount' = 0
    /\ _requestList
    /\ UNCHANGED <<itemIndicesToWrite, writeMissionItems, resumeMission, toGcs>>

_writeMissionItemsWorker(items) ==
    /\ Begin("write")
    /\ retryCount' = 0
    /\ writeMissionItems' = items
    /\ itemIndicesToWrite' = {i - 1 : i \in DOMAIN items}
    /\ _writeMissionCount(items)
    /\ UNCHANGED <<itemIndicesToRead, missionItems, toGcs>>

writeMissionItems_(plan) == _writeMissionItemsWorker(ItemsOf(plan)) /\ UNCHANGED resumeMission

(* The mission flown on after an interruption: commands taken from the     *)
(* loaded mission up to the resume index, then the rest of it, renumbered. *)
(* The selection is left out: any suffix of the loaded mission.  With no   *)
(* mission loaded the code indexes an empty list (_missionItems[0]), which *)
(* is undefined; it is not called then.                                    *)
generateResumeMission(resumeIndex) ==
    /\ resumeIndex \in DOMAIN missionItems
    /\ _writeMissionItemsWorker(
           ItemsOf(SubSeq(PlanOf(missionItems), resumeIndex, Len(missionItems))))
    /\ resumeMission' = TRUE

removeAll ==
    /\ Begin("removeAll")
    /\ retryCount' = 0
    /\ missionItems' = <<>>
    /\ _removeAllWorker
    /\ UNCHANGED <<itemIndicesToWrite, itemIndicesToRead, writeMissionItems, resumeMission, toGcs>>

writeArduPilotGuidedMissionItem ==
    /\ Apm /\ Idle /\ started < MaxTransactions
    /\ transactionInProgress' = "write" /\ guided' = TRUE
    /\ started' = started + 1 /\ asked' = [asked EXCEPT ![started'] = "guided"]
    /\ UNCHANGED clean
    /\ Send([type |-> "guidedItem"])
    /\ _startAckTimeout("guided")
    /\ UNCHANGED <<vehicle, signals, retryCount, itemIndicesToWrite, itemIndicesToRead,
                   missionItems, writeMissionItems, resumeMission, toGcs>>

-----------------------------------------------------------------------------
(* Messages from the vehicle.  Idle, PlanManager is not connected.         *)

IsNext(type) == toGcs # <<>> /\ Head(toGcs).type = type

(* A message of type `type` that is not awaited is dropped.                *)
Ignored ==
    /\ toGcs # <<>>
    /\ LET m == Head(toGcs)
       IN \/ Idle
          \/ m.type = "count" /\ expectedAck # "count"
          \/ m.type = "item" /\ expectedAck # "item"
          \/ m.type = "request" /\ expectedAck # "request"
          \/ m.type = "ack" /\ (expectedAck = "none" \/ (Apm /\ m.result = "invalidSequence"))
    /\ toGcs' = Tail(toGcs)
    /\ UNCHANGED <<gcs, vehicle, toVehicle>>

ReadComplete(items) ==
    /\ Send([type |-> "ack"])
    /\ AckStopped
    /\ _finishTransaction(TRUE, FALSE, items)

_handleMissionCount ==
    /\ ~Idle /\ expectedAck = "count" /\ IsNext("count")
    /\ toGcs' = Tail(toGcs)
    /\ retryCount' = 0
    /\ LET n == Head(toGcs).n
       IN IF n = 0
          THEN ReadComplete(missionItems)
          ELSE /\ itemIndicesToRead' = itemIndicesToRead \cup (0..(n - 1))
               /\ _requestNextMissionItem(itemIndicesToRead')
               /\ UNCHANGED <<transactionInProgress, itemIndicesToWrite, missionItems, writeMissionItems,
                              resumeMission, guided, asked, started, clean, signals>>
    /\ UNCHANGED vehicle

(* An item nobody asked for: _checkForExpectedAck has stopped the timer.   *)
UnrequestedItem == _startAckTimeout("item")

NotStruckOff(seq) == itemIndicesToRead
Remaining(seq) == itemIndicesToRead \ {seq}

_handleMissionItem ==
    /\ ~Idle /\ expectedAck = "item" /\ IsNext("item")
    /\ toGcs' = Tail(toGcs)
    /\ LET m == Head(toGcs)
           items == Append(missionItems, [seq |-> m.seq, val |-> m.val])
           left == Remaining(m.seq)
       IN \/ /\ m.seq \notin itemIndicesToRead
             /\ UnrequestedItem
             /\ UNCHANGED <<transactionInProgress, retryCount, itemIndicesToWrite, itemIndicesToRead,
                            missionItems, writeMissionItems, resumeMission, guided, asked, started, clean, signals, toVehicle>>
          \/ /\ m.seq \in itemIndicesToRead /\ left = {}
             /\ retryCount' = 0
             /\ ReadComplete(items)
          \/ /\ m.seq \in itemIndicesToRead /\ left # {}
             /\ retryCount' = 0
             /\ itemIndicesToRead' = left /\ missionItems' = items
             /\ _requestNextMissionItem(left)
             /\ UNCHANGED <<transactionInProgress, itemIndicesToWrite, writeMissionItems,
                            resumeMission, guided, asked, started, clean, signals>>
    /\ UNCHANGED vehicle

_handleMissionRequest ==
    /\ ~Idle /\ expectedAck = "request" /\ IsNext("request")
    /\ toGcs' = Tail(toGcs)
    /\ LET seq == Head(toGcs).seq
       IN IF seq >= Len(writeMissionItems)
          THEN /\ AckStopped /\ Fail
               /\ UNCHANGED toVehicle
          ELSE /\ itemIndicesToWrite' = itemIndicesToWrite \ {seq}
               /\ Send([type |-> "item", seq |-> seq, val |-> writeMissionItems[seq + 1].val])
               /\ _startAckTimeout("request")
               /\ UNCHANGED <<transactionInProgress, itemIndicesToRead, missionItems, writeMissionItems,
                              resumeMission, guided, asked, started, clean, signals>>
    /\ UNCHANGED <<vehicle, retryCount>>

(* A MISSION_ACK ends whatever transfer is in progress; only the awaited   *)
(* one, and only ACCEPTED, ends it well.                                   *)
_handleMissionAck ==
    /\ ~Idle /\ expectedAck # "none" /\ IsNext("ack")
    /\ ~(Apm /\ Head(toGcs).result = "invalidSequence")
    /\ toGcs' = Tail(toGcs)
    /\ AckStopped
    /\ LET accepted == Head(toGcs).result = "accepted"
           ok == accepted /\ CASE expectedAck = "request" -> itemIndicesToWrite = {}
                               [] expectedAck \in {"clearAll", "guided"} -> TRUE
                               [] OTHER -> FALSE
       IN _finishTransaction(ok, expectedAck = "guided", missionItems)
    /\ UNCHANGED <<vehicle, retryCount, toVehicle>>

-----------------------------------------------------------------------------
(* _ackTimeout, by the answer that did not come.                           *)

RetriesOnceMore ==
    /\ retryCount <= MaxRetryCount + 1
    /\ retryCount' = retryCount + 1
    /\ UNCHANGED <<transactionInProgress, itemIndicesToWrite, writeMissionItems, resumeMission,
                   guided, asked, started, clean, signals>>
RetriesUncounted ==
    UNCHANGED <<retryCount, transactionInProgress, itemIndicesToWrite, writeMissionItems, resumeMission,
                guided, asked, started, clean, signals>>

Retrying ==
    /\ retryCount <= MaxRetryCount
    /\ retryCount' = retryCount + 1
    /\ UNCHANGED <<transactionInProgress, itemIndicesToWrite, writeMissionItems, resumeMission,
                   guided, asked, started, clean, signals>>

GivesUpSilently ==
    /\ transactionInProgress' = "none" /\ timerActive' = FALSE
    /\ UNCHANGED <<retryCount, itemIndicesToRead, itemIndicesToWrite, missionItems, writeMissionItems,
                   resumeMission, guided, asked, started, clean, signals, toVehicle>>

(* The timer is single shot.  After the last retry _expectedAck keeps its  *)
(* value: the manager no longer listens, and a new transfer overwrites it. *)
GivingUp ==
    /\ Fail /\ timerActive' = FALSE
    /\ UNCHANGED <<retryCount, toVehicle>>

_ackTimeout ==
    /\ timerActive
    /\ \/ /\ expectedAck = "count"
          /\ \/ Retrying /\ _requestList
             \/ retryCount > MaxRetryCount /\ GivingUp /\ UNCHANGED expectedAck
       \/ /\ expectedAck = "item"
          /\ \/ /\ Retrying /\ _requestNextMissionItem(itemIndicesToRead)
                /\ UNCHANGED <<itemIndicesToRead, missionItems>>
             \/ retryCount > MaxRetryCount /\ GivingUp /\ UNCHANGED expectedAck
       \/ /\ expectedAck = "request"
          /\ \/ /\ 0 \in itemIndicesToWrite
                /\ Retrying /\ _writeMissionCount(writeMissionItems)
                /\ UNCHANGED <<itemIndicesToRead, missionItems>>
             \/ 0 \in itemIndicesToWrite /\ retryCount > MaxRetryCount /\ GivingUp /\ UNCHANGED expectedAck
             \/ itemIndicesToWrite = {} /\ GivingUp /\ UNCHANGED expectedAck
             \/ itemIndicesToWrite # {} /\ 0 \notin itemIndicesToWrite /\ GivingUp /\ expectedAck' = "none"
       \/ /\ expectedAck = "clearAll"
          /\ \/ /\ Retrying /\ _removeAllWorker
                /\ UNCHANGED <<itemIndicesToRead, missionItems>>
             \/ retryCount > MaxRetryCount /\ GivingUp /\ UNCHANGED expectedAck
       \/ expectedAck = "guided" /\ GivingUp /\ expectedAck' = "none"
    /\ UNCHANGED <<vehicle, toGcs>>

-----------------------------------------------------------------------------
(* The vehicle: external.  It serves reads from the stored plan, requests  *)
(* the items of an upload in order, repeats a request that got no answer   *)
(* as often as it likes, may refuse anything, and may give an upload up.   *)

Reply(m) == toGcs' = Push(toGcs, m)
Ack(result) == Reply([type |-> "ack", result |-> result])

VNext(type) == toVehicle # <<>> /\ Head(toVehicle).type = type /\ toVehicle' = Tail(toVehicle)

VServesRead ==
    /\ \/ VNext("requestList") /\ Reply([type |-> "count", n |-> Len(vehiclePlan)])
       \/ /\ VNext("request")
          /\ LET seq == Head(toVehicle).seq
             IN IF seq < Len(vehiclePlan)
                THEN Reply([type |-> "item", seq |-> seq, val |-> vehiclePlan[seq + 1]])
                ELSE Ack("error")
       \/ VNext("ack") /\ UNCHANGED toGcs
    /\ UNCHANGED <<gcs, vehicle>>

VStartsUpload ==
    /\ VNext("count")
    /\ LET n == Head(toVehicle).n
       IN IF n = 0
          THEN vehiclePlan' = <<>> /\ upload' = NoUpload /\ Ack("accepted")
          ELSE /\ upload' = [count |-> n, items |-> <<>>]
               /\ Reply([type |-> "request", seq |-> 0])
               /\ UNCHANGED vehiclePlan
    /\ UNCHANGED gcs

VTakesItem ==
    /\ VNext("item")
    /\ LET m == Head(toVehicle)
           items == Append(upload.items, m.val)
       IN IF upload.count > 0 /\ m.seq = Len(upload.items)
          THEN IF Len(items) = upload.count
               THEN vehiclePlan' = items /\ upload' = NoUpload /\ Ack("accepted")
               ELSE /\ upload' = [upload EXCEPT !.items = items]
                    /\ Reply([type |-> "request", seq |-> Len(items)])
                    /\ UNCHANGED vehiclePlan
          ELSE /\ UNCHANGED <<vehiclePlan, upload>>
               /\ toGcs' = toGcs \/ Ack("error") \/ Ack("invalidSequence")
    /\ UNCHANGED gcs

VClears ==
    /\ VNext("clearAll")
    /\ vehiclePlan' = <<>> /\ upload' = NoUpload
    /\ Ack("accepted")
    /\ UNCHANGED gcs

VTakesGuidedItem ==
    /\ VNext("guidedItem")
    /\ Ack("accepted")
    /\ UNCHANGED <<gcs, vehicle>>

VRefuses ==
    /\ \E type \in {"requestList", "request", "count", "clearAll", "guidedItem"} : VNext(type)
    /\ upload' = NoUpload
    /\ Ack("error")
    /\ UNCHANGED <<gcs, vehiclePlan>>

VRepeatsRequest ==
    /\ upload.count > 0
    /\ Reply([type |-> "request", seq |-> Len(upload.items)])
    /\ UNCHANGED <<gcs, vehiclePlan, upload, toVehicle>>

(* ArduPilot tells a changed home position with a MISSION_ITEM nobody      *)
(* requested (the comment in _checkForExpectedAck).                        *)
VSendsHome ==
    /\ Apm /\ vehiclePlan # <<>>
    /\ Reply([type |-> "item", seq |-> 0, val |-> vehiclePlan[1]])
    /\ UNCHANGED <<gcs, vehicle, toVehicle>>

VGivesUpUpload ==
    /\ upload.count > 0
    /\ upload' = NoUpload
    /\ Ack("error") \/ UNCHANGED toGcs
    /\ UNCHANGED <<gcs, vehiclePlan, toVehicle>>

Lose ==
    /\ \/ toVehicle # <<>> /\ toVehicle' = Tail(toVehicle) /\ UNCHANGED toGcs
       \/ toGcs # <<>> /\ toGcs' = Tail(toGcs) /\ UNCHANGED toVehicle
    /\ UNCHANGED <<gcs, vehicle>>

-----------------------------------------------------------------------------
User ==
    \/ loadFromVehicle \/ removeAll \/ writeArduPilotGuidedMissionItem
    \/ \E p \in Plans : writeMissionItems_(p)
    \/ \E i \in DOMAIN missionItems : generateResumeMission(i)

_mavlinkMessageReceived ==
    \/ Ignored \/ _handleMissionCount \/ _handleMissionItem
    \/ _handleMissionRequest \/ _handleMissionAck

Vehicle ==
    \/ VServesRead \/ VStartsUpload \/ VTakesItem \/ VClears \/ VTakesGuidedItem
    \/ VRefuses \/ VRepeatsRequest \/ VSendsHome \/ VGivesUpUpload

Next == User \/ _mavlinkMessageReceived \/ _ackTimeout \/ Vehicle \/ Lose

Spec == Init /\ [][Next]_vars

(* A message that is taken as an answer starts the ack timer afresh        *)
(* (_startAckTimeout in _requestNextMissionItem, _handleMissionItem and    *)
(* _handleMissionRequest).                                                 *)
Restarts == timerActive' /\ (_handleMissionCount \/ _handleMissionItem \/ _handleMissionRequest)

(* A QTimer that runs fires, unless it is stopped or started afresh.       *)
(* Nothing else is assumed, neither of the vehicle nor of the link.        *)
Fairness == []<><<_ackTimeout>>_vars \/ []<><<Restarts>>_vars \/ []<>(~timerActive)

FairSpec == Spec /\ Fairness

-----------------------------------------------------------------------------
(* Properties.                                                             *)

LastSignal(k) ==
    Len(signals') > Len(signals) /\ signals'[Len(signals')].kind = k /\ signals'[Len(signals')].ok

(* The manager cannot lock up.  A transfer can only end in _handle... or   *)
(* in _ackTimeout, so one that lost its timer would stay: inProgress()     *)
(* holds exactly while the ack timer runs, and what it waits for belongs   *)
(* to the transaction.  And _requestNextMissionItem, whose path for no     *)
(* index left reports an error and arms no timer, always has one left.     *)
NeverLocked ==
    /\ timerActive <=> ~Idle
    /\ ~Idle => CASE transactionInProgress = "read" -> expectedAck \in {"count", "item"}
                  [] transactionInProgress = "write" -> expectedAck = IF guided THEN "guided" ELSE "request"
                  [] transactionInProgress = "removeAll" -> expectedAck = "clearAll"
    /\ ~Idle /\ expectedAck = "item" =>
          /\ itemIndicesToRead # {}
          /\ {missionItems[i].seq : i \in DOMAIN missionItems} \cap itemIndicesToRead = {}

(* A transfer is reported as what it was: by the completion signal of its  *)
(* own kind, at most once, in the order the transfers were started and     *)
(* before the next one starts, though an answer or a timeout of any phase  *)
(* may end it and a guided item shares the write's transaction type.  Once *)
(* it is over every read, write and removal has been reported; a guided    *)
(* item is only reported (by the write's signal) when it fails.            *)
CompletionSignal(transfer) ==
    CASE transfer = "read" -> "newMissionItemsAvailable"
      [] transfer \in {"write", "guided"} -> "sendComplete"
      [] OTHER -> "removeAllComplete"

Ended == IF Idle THEN started ELSE started - 1

ReportedAsAsked ==
    /\ \A i \in DOMAIN signals :
          /\ signals[i].tx <= Ended
          /\ signals[i].kind = CompletionSignal(asked[signals[i].tx])
          /\ asked[signals[i].tx] = "guided" => ~signals[i].ok
    /\ \A i, j \in DOMAIN signals : i < j => signals[i].tx < signals[j].tx
    /\ \A t \in 1..Ended : asked[t] # "guided" => \E i \in DOMAIN signals : signals[i].tx = t

(* PlanManager.h: _missionItems is the set of mission items on the vehicle.*)
(* A read that succeeds over links with lost, repeated and late messages,  *)
(* even ones left over from earlier transfers, has every item of some      *)
(* count exactly once.  After any transfer that reports success it is the  *)
(* stored plan, in order, whatever was lost, repeated or late during it,   *)
(* if no message of an earlier transfer was under way when it began.       *)
SuccessMeansSamePlan ==
    [][ /\ LastSignal("newMissionItemsAvailable")
           => {missionItems'[i].seq : i \in DOMAIN missionItems'} = {i - 1 : i \in DOMAIN missionItems'}
        /\ clean /\ (\E k \in {"newMissionItemsAvailable", "sendComplete", "removeAllComplete"} : LastSignal(k))
           => /\ PlanOf(missionItems') = vehiclePlan
              /\ \A i \in DOMAIN missionItems' : missionItems'[i].seq = i - 1 ]_vars

(* The timer is started again although the transfer has not come nearer to *)
(* its end: the vehicle requests an item it was sent before, or sends one  *)
(* that was not requested.  Neither is counted as a retry.                 *)
Rearms ==
    /\ ~Idle /\ toGcs # <<>>
    /\ \/ _handleMissionRequest /\ Head(toGcs).seq \notin itemIndicesToWrite
       \/ _handleMissionItem /\ Head(toGcs).seq \notin itemIndicesToRead

(* The user is not left with a transfer in progress: timeouts are counted, *)
(* answers leave less to do, and what the vehicle and the link do cannot   *)
(* put the end off for ever except in one way, messages that Rearms the    *)
(* timer and never stop coming.  The code does not bound them, nor does    *)
(* the model.                                                              *)
TransfersEnd == (~Idle ~> Idle) \/ []<><<Rearms>>_vars
=============================================================================
