# Vehicle protocols of the ground station, in TLA+

This directory specifies the parts of the ground station in `src/src` that talk
to a vehicle through protocols of their own: the queue every command leaves
through, the requests for single messages built on it, the transfer of plans and
of files, the loading of parameters, the tracking of the mission item being
flown, the links and the coming and going of vehicles, and the signing of
messages. Each module is written from the source file it names; TLC checks it on
small instances, and TLAPS proves, for every instance, the safety properties of
the command queue, the request coordinator, the plan transfer, the mission
index, the vehicles and their links, the parameter load, and signing.

## 1. Inventory

The program is a Qt application. A *link* (serial, UDP, TCP, log replay) runs in
its own thread and hands whole MAVLink messages to the main thread.
`Vehicle::_mavlinkMessageReceived` passes each message to the vehicle's
components in a fixed order and finally emits it for whoever is connected.
Components send through the vehicle's *primary link*, which may be absent, and
report to their users through callbacks and signals, which run at once, inside
the component's own function, and may call the component again.

| Component | State | Operations | What makes it correct |
|---|---|---|---|
| Command queue, `Vehicle/MavCommandQueue` | list of waiting commands with tries and clock; stop flag; cache of supported commands | send (plain, with handler, with fallback), ack, periodic timeout walk, stop | each request reported once; an ack belongs to one request; no unsafe retransmission; every request ends |
| Request message coordinator, `Vehicle/RequestMessageCoordinator` | per component: the active request and a queue of others | request, ack result, message received, timeout tick, cancel, stop | ack and message in any order; no dangling request object; queues advance; one handler call |
| Plan transfer, `MissionManager/PlanManager` | transaction, awaited answer, timer, retries, index lists, item lists | read, write, remove all, guided write; COUNT, ITEM, REQUEST, ACK, timeout | never locked; each transfer reported once; success means both sides have the same plan |
| Mission index, `MissionManager/MissionManager` | current, last and cached index | MISSION_CURRENT, HEARTBEAT, HIGH_LATENCY | the index to resume from is one that was flown |
| Plan master controller | load/send sequence of mission, fence and rally | load, send, remove all | the three transfers happen in order, once each |
| Link manager of a vehicle, `Vehicle/VehicleLinkManager` | links with lost flags, primary link, total loss | add, remove, message heard, timer, close, the user's choices | the primary link is usable; a link stays open while used; a total loss ends when the vehicle is heard |
| Vehicles, `Vehicle/MultiVehicleManager` | list, active vehicle, availability, deletions and activations under way | heartbeat, last link removed, close, choose, 20 ms timers, parameters ready | nothing refers to a deleted vehicle; the selection settles |
| FTP manager, `Vehicle/FTPManager` | state machine, sequence number, holes | download, upload, list, delete, cancel, answers, timeout | no hole in a file; each operation ends and is reported once; none spoils the next |
| Parameter manager, `FactSystem/ParameterManager` | waiting and failed indices per component, four timers and flags of three ways to load | load, refresh, value, hash, file, timeouts; write and read of one | no parameter missing untold; the load ends |
| Signing, `MAVLink/Signing` | per link a pending operation and the channel's key and policy; per vehicle retransmission and connections | enable, disable, re-key, confirmation, refusal, timeout, change of primary link | the channel follows the operation; no key is used unproven; no vehicle acts on another's operation |
| Initial connect, `Vehicle/InitialConnectStateMachine` | current state | advance, skip, time out | the sequence ends |
| Vehicles, links, terrain, logs, plan editing, cameras, maps, video, settings, UI | | | mostly input and output, geometry or display |

The hard behaviours: callbacks that re-enter a component in the middle of its
loop or between its removal of an entry and its report; answers that carry no
request number (COMMAND_ACK, MISSION_ACK) and arrive late; loss, delay and
repetition of messages; retries; timeouts noticed only when something else
happens; closing a vehicle while requests are pending; two message streams
whose order matters. `PROJECT.json` lists them at their lines with the
properties that cover them.

## 2. Plan

1. `RequestLifecycle`, `MavCommandQueue` and its proofs: everything else sends
   through it. *Done.*
2. `RequestMessageCoordinator`, composed with the queue's contract. *Done.*
3. `PlanManager` and `MissionIndex`. *Done.*
4. `VehicleLinkManager` (what "the primary link" of the others is), composed
   with `MultiVehicleManager`; `SigningController` and its proofs. *Done.*
5. `FTPManager`: sequence numbers modulo 2^16, bursts with holes, sessions, all
   four operations against a file server. *Done.*
6. `ParameterManager`: the load. *Done.* Open: the write-and-wait of one
   parameter, and `InitialConnectStateMachine`, which calls the load.
7. Open: `PlanMasterController`, composing three abstract plan transfers which
   `PlanManager` is shown to implement.
8. Proofs: all safety properties of the components of 1 to 4 and of 6, and of
   `FTPManager` the types, EveryOperationReported and, in part under a
   hypothesis, HolesAreWhatIsMissing. *Done.*

A component's theorems are in a module of their own (`...Proofs`), so no module
that is proved about, and none it extends, uses recursive operators.

## 3. Modules

### RequestLifecycle (abstract)

A service that takes requests and answers them: each request is `new`, then
`waiting`, then `answered` or, when the service is closed, `discarded`. Several
waiting requests may be answered in one step. Both concrete services refine it.

### MavCommandQueue

`list` is `_list`, `stopped` is `_stopped`, `supported` the cache in
`FirmwarePluginInstanceData`. Requests are numbered as they are made. A clock is
one bit, `expired`: `elapsedTimer` is past `ackTimeoutMSecs` (the timer is
restarted by an IN_PROGRESS ack and not by a retransmission, as in the code).

The queue runs on one thread, so the only interleaving is reentrance. `depth`
counts callbacks on the stack; while it is positive, code outside the queue may
send, stop, or change the link. `walk` is the loop variable of a suspended
`_responseTimeoutCheck`. A callback happens after every state change of the
function that calls it, so the rest of that function is empty and "callback, then
return" needs no more than a counter; the exception is the walk, which has its
own variable. Acks and timer ticks come from the event loop, hence only with
no callback and no walk under way.

| Action | Code |
|---|---|
| `sendCommand`, `sendCommandWithLambdaFallback`, `sendWorker` | the send paths; refusals (broadcast component, pending duplicate, no link) report at once |
| `handleCommandAck` (`AckResult`, `AckInProgress`) | `handleCommandAck` |
| `_responseTimeoutCheck`, `WalkStep`, `_sendFromList` (`GiveUp`, `Resend`) | the periodic check and its loop |
| `stop`, `CallbackReturns`, `LinkChanges`, `TimerExpires` | shutdown, end of a callback, environment |

History variables (`outcomes`, `dropped`, `frames`, `heard`, `due`) record what
the properties speak of. Messages to the user, parameters and frames are left
out.

### RequestMessageCoordinator

`info` holds the allocated `RequestMessageInfo_t` objects, `active` is
`_infoMap`, `queue` is `_queueMap`. The command queue below is replaced by what
it promises: `command[c]` is the one REQUEST_MESSAGE pending for a component, it
ends with one result, and a refusal is reported before `sendWorker` returns.
`External` stands for a REQUEST_MESSAGE that the camera control sends past the
coordinator. `_removeInfo` starts the next request before the handler of the
finished one is called; when that is refused it removes itself too, and so on.
`Finish` computes this chain, and `stack` holds the handlers that remain to be
called, innermost first, each of which may call back. `cancelRequests` searches
the maps, as the code does: `cancelled` is what it finds, `tooLate` the owner's
requests whose handlers wait on the stack, out of its reach. `Asks` says which
requester asks for which message, since owners matter to `cancelRequests` only.

### PlanManager

One manager, two FIFO channels that lose messages, and a vehicle. The index
lists are sets (they are sorted in the code and read by their first element).
`_finishTransaction`, `_startAckTimeout` and the other helpers keep their names.
`signals` holds the completion signals that were emitted, and `asked` what each
transfer was started as: a guided write that succeeds emits none.
`_ackTimeout` may fire at any time while the timer is active, so a timeout races
every late answer. Message loss includes a primary link that is gone, and a full
channel. `clean` records whether the link was clear of earlier transfers' messages
when the present one began; only then does a read store its items in order,
since `_handleMissionItem` appends any item of the list it waits for.

The vehicle (`V...` actions, external) is a mission protocol server: it serves
reads, requests the items of an upload in order, repeats a request as often as
it likes, sends an item nobody asked for (`VSendsHome`), refuses, or gives an
upload up. Code that starts a transfer from inside the completion
signal is covered, because the signal comes after `_transactionInProgress` was
cleared and the rest of `_finishTransaction` touches only `resumeMission`;
the one overlap, a transfer begun inside `sendComplete` of a resumed mission, is
not modelled.

### MissionIndex

The vehicle's reports of its item and of its mode travel in order over a link
that may lose any of them; the ground station's three indices follow
`_updateMissionIndex` and `_handleHeartbeat`. `Vehicle` handles a message before
`MissionManager` does, so `flightMode` is updated first. `Others` adds
heartbeats of other components. `flown`, `returned` and `overheard` are history.

### VehicleLinkManager and MultiVehicleManager

`m[v]` is the link manager of vehicle object `v`, `link[l]` a link with its
reference count and its listeners. A handler is an operator that takes both, as
a record `w`, and returns them, so that a chain of direct calls and signals (a
link disconnects, each vehicle drops it, chooses another primary link, and
signals that it has none left) is one step, as it is in the event loop. The two
loops over links and over listeners (`closeVehicle`, `LinkDisconnects`) are
functions of the number of rounds done.
`MultiVehicleManager` composes the handlers with the list of vehicles, the
active one and the single shots of 20 ms (`timers`), which end in the order they
were begun. A deferred deletion leaves the object alive meanwhile: it still
hears messages, and a heartbeat may create a second object with its id. Which
links have been silent for the heartbeat interval is any subset of the listed
ones. Creating links, and what the user chooses, are external.

### FTPManager

`g` is the manager, `srv` the file server as `MockLinkFTP.cc` implements it (with
one session number, or a new one each time), `toVehicle` and `toGcs` the
messages under way. A state is a `begin`, an `ack or nak` and a `timeout`
operator. Every operation first clears stale sessions. A block of data is the
operation that named the file and the place in it, so data of another file, or
from another place, is told apart. Losing, repeating, overtaking, a session that
expires, a link that drops and a cancellation are *disturbances*, counted
against a bound; `started` records what surrounded the start of each operation.
A request that finds no link takes no sequence number and is not sent
(`FTPManager.cc:1310`), but its retry steps the number back by two all the same
(`FTPManager.cc:793` and its like), and so then carries that of an earlier,
different request. `drifted` is set by such a retry, and by one that finds no
link itself, and cleared when a later operation's ResetSessions is answered. Only
`SuccessMeansDone` excepts what is reported meanwhile; that operations end and
are each reported once holds with drifted numbers as well. `misclosed` marks an
upload whose closing was reported as a download (the first finding of section 6):
`EveryOperationReported` says nothing once there was one, and `SuccessMeansDone`
nothing of that false report.

### SigningController

One controller and channel per link, one retransmitting object per vehicle. All
of it runs on the main thread. `setups` and `signed` are all that was ever sent
by either side, so a frame may arrive late, repeatedly or never. `handlers`
counts the single-shot connections of a vehicle: those of an outcome that did
not happen are left over, and fire at the next such outcome of any operation of
that controller. The change of a vehicle's primary link moves it to another
controller and cancels a pending operation there.

### ParameterManager

`p` is the manager; a handler is an operator on it. The three ways to load (hash
of the cache, file, stream) hand over to each other through `hashDone`, `tryftp`
and four timers. `waiting`, `tries`, `failed` and `batch` are the maps and the
queue of re-requests; a PARAM_VALUE of any component, asked for or not, may
arrive at any time, so loss, repetition, delay and other ground stations'
requests need no separate action. The FTP manager is seen as busy or not, and as
ending in one of five ways. A component's list that has been asked for again has
no timer until a first value arrives; `asked` records this. `spoiled` records
that a file could be read only in part. Timers may fire at any moment while they
run. What other components failed to deliver is reported to the user once
(`_otherComponentsReported` is never reset): `told` is what that report named,
and `late` the components first heard, or asked for their list, after it. A PX4
vehicle has a parameter cache for any subset of its components (`cached`).
`highLatency` is fixed for a behaviour, though the code reads it from the present
primary link at each request (`ParameterManager.cc:648`).

## 4. Runs

| Run | Instance | Shows |
|---|---|---|
| `MavCommandQueue` | 1 component (and the broadcast id), a retried, a plain and a duplicable command, 3 requests, 2 tries, 2 nested callbacks, IN_PROGRESS acks without bound | all safety and action properties, and that the queue is a `RequestLifecycle` |
| `MavCommandQueueLive` | 1 component, 3 commands with PX4 autotune, 2 requests, 3 tries | `EveryRequestEnds`: a request is reported or the queue stopped, unless IN_PROGRESS acks renew its clock for ever |
| `RequestMessageCoordinator` | 2 components, 2 requesters with a message each, 3 requests | all safety properties, refinement, `EveryRequestEnds` |
| `PlanManager` | plans of 0, 1 and 2 items, 2 transfers, 1 retry, 2 messages per direction, repeated requests and unrequested items without bound, ArduPilot | no lock-up, a transfer reported once and as what it was, no item twice or missing in a read, same plan in the same order after a success begun over a clear link; transfers end unless the vehicle's repetitions never do |
| `MissionIndex` | 2 items, other components, 2 messages under way, 1 new plan | no landing jump adopted before the vehicle re-enters Mission mode, indices converge |
| `FTPManager` | files of 3 blocks, reads of 1 or 2, bursts of 2, 2 retries, numbers starting 8 before the wrap; one operation with two disturbances or two with one | holes are what is missing, success means done, each operation reported once, an undisturbed one succeeds, all end |
| `FTPManagerUpload` | the same | *violation*: an upload that never signals uploadComplete |
| `MultiVehicleManager` | one vehicle on three links with 2 settings changed; two on two links; two on one link with a choice; three objects on one link | primary usable, list sound, selection settles, links stay open while used |
| `MultiVehicleManagerRegained` | one vehicle, two links | *violation*: heard again and still reported lost |
| `SigningController` | 2 vehicles, 2 links, 2 stored keys and a foreign one, 2 operations | channel follows operation, own retransmission only, proven keys only |
| `ParameterManager` | an autopilot with 2 parameters and one other component with 1, on PX4 and ArduPilot; on other firmware two others; 1 retry each, 1 re-request in flight; on ArduPilot a load and a refresh, else one load (for PX4 beside the check for a cache that comes first in flight) | no parameter missing untold, the load is driven |
| `ParameterManagerTerminates` | the same | *violation*: a load with nothing left to end it |

Bounds. Three requests are enough for one to be in a callback, one to be
waiting ahead in the list, and one to be sent from inside the callback; a
fourth adds no new relation, and two tries already separate "first", "again" and
"given up" (three are used in the liveness run). Two nested callbacks show
reentrance in a reentrant call. In the coordinator, three requests on two
components give one active and two queued, hence a chain of refusals. Two
transfers are what it takes for a message of one to reach another; two items
distinguish first, last and out of order; a retry limit of 1 separates first
try, retry and giving up. ArduPilot is the richer variant: it has the guided
write and ignores one kind of ack. In `MissionIndex` two messages under way are
the two streams out of step. In `FTPManager` three blocks make a hole in the
middle, which a packet may split or shrink, and two operations are what it takes
for one to inherit from another; the start near 65535 makes every exchange wrap.
Vehicles, links and settings are not all large at once: each instance is the
smallest in which one kind of sharing happens. In `ParameterManager` two indices
of the autopilot give one that arrives and one that is given up, and one more
component is enough for the timers to be shared; two more (`Fitted`, by firmware)
are what it takes for one to end before the other and for a report to come too
early. `MaxRefreshes` counts the calls of `refreshAllParameters`, the first load
among them, by firmware; the second comes at any moment of the first load or
after it. The proofs of section 5 have no bounds.

Deadlock is checked for the command queue and the mission index. In the others a
behaviour ends once the bounded requests, transfers, operations, vehicles or
refreshes are used up: the ground station then is idle.

Fairness. The queue: its timer repeats and is only disconnected by stop(), a
loop runs to its end, callbacks return, time passes. IN_PROGRESS acks are neither
assumed to stop nor bounded, so `EveryRequestEnds` names the one way to wait for
ever: acks each of which restarts a clock that had run out. The coordinator:
handlers run and return, time passes, the queue ends every command (checked of
the queue model by `MavCommandQueueLive`, where no vehicle renews it for ever),
and telemetry keeps arriving, which it needs since timeouts are noticed on
inbound messages. The plan manager: a running timer fires unless it is stopped, or started afresh by a message (`Restarts`)
again and again. `TransfersEnd` excepts one thing, messages that start it afresh
and bring the transfer no nearer to its end, for ever (`Rearms`); the code does
not count them. The mission index: both streams are sent again and again and not
every message is lost (strong fairness). The FTP manager: what is under way
is delivered, its timer fires, and the server answers what reaches it. No
fairness is assumed of answers elsewhere. That a parameter load ends is stated as
a safety property, that something is always armed to take it on: every value
restarts the timer of re-requests, so a component that sends one every three
seconds for ever holds it up, and no fairness would be justified.

## 5. Proofs

`MavCommandQueueProofs`, for any components,
commands and bounds, from the assumptions `CommandSets` and `Bounds` alone:

* `TypeCorrect`: `Spec => []TypeOK`.
* `Inductive`: `Spec => []IInv`. ExactlyOneOutcome is not inductive: a step that
  removes entry `i` reports `list[i].id`, and it matters that no other entry has
  that id and that the request was not already reported. `IInv` therefore adds
  `DistinctIds`, `Places` (a request that was made is in the list, or dropped,
  or reported once, and these exclude each other; a future one is in none),
  `Sent` (an entry was transmitted at most tryCount times, and tryCount and
  maxTries respect the retry list), `AcksUnambiguous`, and `Quiet` (a stopped
  queue is empty). Two lemmas carry the argument: a list that loses one entry
  (`Shrinks`, used by acks and by giving up) and one that gains one (`Grows`).
* `AckHasOneAddressee`, `NoRequestLostOrReportedTwice`, `UnsafeCommandsSentOnce`:
  the run's invariants `AcksUnambiguous`, `ExactlyOneOutcome`,
  `TransmissionsBounded`.
* `QueueIsRequestLifecycle`: `Spec => IsRequestLifecycle`. Each step is mapped to
  `Make`, `Answer` of one request, `Close`, or a stutter.

* `NothingSentWhenToldNotTo`: `Spec => QuietWhenTold`. Beside `IInv` it needs
  `Told`: the entry of an acknowledged request has `maxTries = 1`, so that
  `Resend` is not enabled for it, and no future id has been acknowledged.
* `CheckVisitsAllOverdue`: `Spec => WalkMissesNothing`. The reason is `Ahead`:
  the entries a running check still owes a visit lie at or below its index. A
  removal at the index moves only entries above it, which have been visited,
  and what callbacks append is not owed.

`RequestMessageCoordinatorProofs`, for any components, requesters, messages and
number of requests:

* `Inductive`: `Spec => []IInv`. The maps hold what is allocated (`Maps`), one
  active request per component with its line behind it (`Lines`); an active
  request owns its component's command until that has ended, and then has a
  running wait (`Awaiting`); handlers on the stack are of requests that have
  left the maps (`Frames`, `Calls`); a stopped coordinator has discarded all it
  had (`Stopping`). The chain of refusals in `Finish` is a block cut from the
  front of one line, and is shown once to leave each of these intact.
* `TypeCorrect`, `OwnerAlive`, `NoneStranded`, `EachAnswerDelivered`: the run's
  four invariants. The last is that a handler is called once when its request is
  answered and never when it is discarded, or cancelled while it is in the maps;
  a cancel that comes later does not stop the call (section 6). Beside `IInv` it
  needs that what was answered stays so (`AnsweredStays`), which follows from the
  steps' being those of `RequestLifecycle`.
* `CoordinatorIsRequestLifecycle`: `Spec => IsRequestLifecycle`; a step that
  removes a chain of requests is one `Answer` of several.

`PlanManagerProofs`, for any plans, retries, channel lengths and either kind of
vehicle:

* `Inductive`: `Spec => []IInv`: the types of manager and messages, `NeverLocked`,
  `ReportedAsAsked`, `AskedForThis`, that the transaction under way is what was
  asked for last, without which a report could have another's kind, and
  `CountFindsNothing`, that a read which waits for its count has stored nothing,
  without which the items it asks for then might be ones it already has.
* `TypeCorrect`, `ManagerCannotLockUp`, `EachTransferReportedOnce`
  (`ReportedAsAsked`: by its own signal, at most once, and a read, write or
  removal that is over exactly once).
* `SameOnBothSides`: `Spec => SuccessMeansSamePlan`. It needs a second invariant,
  `Transfers`, that relates the manager, both channels and the vehicle in the
  middle of a transfer: what a read has gathered and still asks for is its count
  (`ReadGathers`), and over a clear link every message under way belongs to the
  present read (`CleanRead`), write (`CleanWrite`) or removal (`CleanRemoval`) and
  agrees with the vehicle's plan.

`MissionIndexProofs`, for any number of items, messages and plans:

* `Inductive`: `Spec => []IInv`. Until the vehicle has come back to Mission mode,
  the item it is at in Mission mode was flown, and a report of an item that was
  not flown is on the wire only where no heartbeat saying Mission mode follows
  it (`JumpsTrail`); this is where the order of the two streams enters.
* `TypeCorrect`, `ResumesFromWhereItFlew` (`LandingJumpNotAdopted`): until the
  vehicle has come back to Mission mode, or an index was adopted on another
  component's heartbeat, the index to resume from was flown. After that it need
  not have been (section 6).

`MultiVehicleManagerProofs`, for any links, ids and number of vehicle objects,
over `MultiVehicleManager` and `VehicleLinkManager`:

* `Inductive`: `Spec => []IInv`. `Sound` is the types of managers and links, and
  that a link is listened to, once, by exactly the vehicles that list it, and
  counts each of them; `Counted`, that what it counts beside them is no more
  than the objects deleted without giving up their links; `Quiet`, that a link
  that is gone has no listeners; `Objects`, that objects are numbered as they are
  created; `Usable`, that the primary link of every object is a good one; `Orderly`
  and `Selecting`, that the deletions and activations under way, each with its
  timer, account for every living object that is not on the list and for the
  active vehicle; `OnTheList`, that a listed vehicle has links and an id of its
  own.
* A handler is proved once, from any managers and links that are `Sound`, and
  the loops by induction on the rounds done: the vehicles told so far have
  dropped the link, the others still list it (`Progress`), and removals are
  signalled in that order (`Outcome`). So a disconnected link that takes several
  vehicles with it is one step of the proof, as it is of the program.
* `TypeCorrect`, `PrimaryUsable`, `ListSound`, `Settles`, `OpenWhileUsed`: the
  run's five properties.

`ParameterManagerProofs`, for any components, parameters, retries and number of
refreshes, from `ParameterAssumption` alone:

* `Inductive`: `Spec => []IInv`. `Sound` is the state's types, what is asked for
  (`Asking`), that no index is lost (`Kept`; nor, once the report was made, is
  one of another component waited for or given up that it did not name, but for
  late components), what is complete (`Complete`),
  that an autopilot of which anything is known was heard, or a file of it was
  read in part and no other will be (`Known`), what being ready means
  (`Readied`), and the timers (`Timed`, `Hashing`). Beside it stand `Told`,
  `Driven`, and `ByFile`: as long as a file may bring the autopilot's parameters
  none of them is waited for by index. Without `ByFile` a file that is parsed
  would leave indices being asked for that nobody waits for; without `Known` a
  stream that arrives once the autopilot is ready would break `ByFile`.
* A handler is proved once, from any manager that is `Sound`, and the calls it
  makes are lemmas about that manager: the check for the end
  (`LoadChecked`), the start of a load (`DownloadStarted`), a value
  (`ValueHandled`), three seconds without one (`SilenceHandled`). The cache is
  loaded by induction on the values read: after `n` of them no index below `n`
  is waited for (`CacheLoaded`). That no more than `BatchMax` indices are asked
  for at once (`FillAsks`) rests on `WalkBound`: in a finite set at most `k`
  elements have fewer than `k` before them.
* `TypeCorrect`, `NothingMissing` (`NothingMissingUntold`), `AlwaysDriven`
  (`LoadIsDriven`): the run's three invariants. The last
  two are conditional.
  Parameters that are ready and not said to be missing are complete if no file
  was read in part, and the report is complete but for late components. It is the
  first load that is always armed until it has an outcome, and once a value of
  the autopilot is known; in any load an index waited for has its timer, except
  that of a list just asked for anew. Section 6 has
  what happens otherwise.

`SigningControllerProofs`, for any vehicles, links, keys and number of
operations, from `SigningAssumption` alone:

* `Inductive`: `Spec => []IInv`. The end of an operation reaches a vehicle only
  over its connections, so that a retransmission is of a pending operation
  (`RetryIsForPendingOperation`) is inductive only together with `RetryIsWired`:
  whoever retransmits is connected to both outcomes. `ChannelFollowsOperation`
  is needed in turn, since what a failed or confirmed operation leaves in the
  channel depends on what it found there; `HandlersCounted` bounds the
  connections left over, which `TypeOK` needs.
* `TypeCorrect`, `ChannelMatchesOperation`, `RetransmissionIsOwn`,
  `SigningIsProven`: the run's four properties.

`FTPManagerProofs`, for any file and burst size, chunks, retries, reopens, starting
numbers, kinds of operation and bounds, from `FileAssumption`, `LimitAssumption` and
`SeqAssumption` alone:

* `Inductive`: `Spec => []IInv`. `Typed` is the types of manager, messages and
  server, that data answered lie in the file (`Answer`), and `Staged`: the state is
  one of the running operation's table, without which a shared handler would take
  an operation to a state that has no begin; the timer runs for an operation only;
  a filling download asks for its first hole and a write for a block there is,
  which keeps offsets in the file. `OneAtATime` is that the running operation is
  the one started last, that only its members say so, and that the former ones
  have been reported in turn. It is given up for good when the closing of an upload
  goes unanswered (`misclosed`, section 6): a download is then reported, and the
  upload's members stay behind.
* A handler is proved once, from any manager that is `Ongoing` in the state it is
  for, and the begin, ack and timeout operators it calls are lemmas about that
  manager. The two handlers that are shared by several operations (clearing and
  closing) are split by operation.
* `TypeCorrect`, `EachOperationReported`: the run's `TypeOK` and
  `EveryOperationReported`.
* `BurstHolesAreWhatIsMissing`: `Spec => [](g.at = "burst" => HolesAreWhatIsMissing)`,
  for whatever is lost, delayed, overtaken or repeated. `HolesAreWhatIsMissing` is
  not inductive: it says nothing of the order of the holes, nor of the frontier
  `f` past which nothing is written. `Kept(d, f)` adds both: all that is written is
  below `f`, the block before `f` is, the holes are in order, end by `f`, and hold
  exactly what is not written below it. `Pursues`, a part of `IInv`, is that a burst
  keeps this account up to `expectedOffset`, and so does a download that will
  resume its burst while its session is being cleared and reopened. Packets at or
  past the frontier extend it (`KeptAhead`), late ones are struck off the holes
  (`KeptClaimed`, over `_claimMissingRange`), and repeated ones change nothing.
* `HolesAreKept`: `Spec /\ []AnswersFit => []HolesAreWhatIsMissing`. Once the holes
  are filled by single reads the code compares an answer's sequence number, session
  and offset with the request, and not its size with the hole
  (`FTPManager.cc:1114`, `1128`, `1141`). `AnswersFit` says that no answer that would
  be accepted is longer than the hole. An answer to the request awaited always
  fits, as the request asks for no more than the hole; the one that might not is a
  stale answer of another hole that comes with the awaited number, on which
  numbers of 16 bits do not let one conclude for every value of `Bounds`. TLC
  finds `AnswersFit` to hold in all 250,884 states of the run's instance (given as
  an INVARIANT beside those of `FTPManager.cfg`), and violated at once when the
  request is not limited to the hole. The two theorems use one proof of a step
  (`Keeps`), which takes the hypothesis as a parameter.

The assumptions are those the modules declare about their constants, and nothing
else. What a recursive function over `0..n` computes is proved by way of the
least round at which a claim fails (`LoopRuns`, `LoopInduction`), from the
well-foundedness of the naturals.

Only model-checked: all liveness, which is beyond the prover (`EveryRequestEnds`
of the queue and of the coordinator, `TransfersEnd`, `IndexConverges`,
`OperationEnds`), and two properties of the FTP manager, beside the hypothesis
`AnswersFit` of `HolesAreKept`. `SuccessMeansDone` and
`UndisturbedOperationSucceeds` hold for behaviours with the few disturbances of the
run and not for every value of `Bounds`: numbers are 16 bits and wrap, so that with
enough of them an old answer has the awaited number again.

## 6. Findings

Three statements of the code's own documents are shown not to hold by a run each;
`PROJECT.json` has the lines.

* An upload whose closing ResetSessions is refused or unanswered signals
  downloadComplete instead of uploadComplete (`FTPManager.cc:1231`).
* A vehicle that lost all its links and is heard on a new one stays marked as
  having lost communication (`VehicleLinkManager.cc:43`).
* A parameter load may end without a signal: any component's value stops the
  timer that repeats the list request, and the wait for the autopilot then gives
  up silently (`ParameterManager.cc:166`, `InitialConnectStateMachine.cc:86`).

Seen while modelling, in the models or in the code, without a run of their own:

* The first transmission of a COMMAND_LONG carries confirmation 255, the next 0
  (`MavCommandQueue.cc:435`).
* A request message fails as "exact duplicate" because of another sender's
  command (`RequestMessageCoordinator.cc:110`, `VehicleTypes.h:28`).
* `cancelRequests`, called from the handler of a request that was refused inside
  `_removeInfo`, does not reach the handler of the owner's request that finished
  just before: the caller of `_removeInfo` has saved it, and calls it
  (`RequestMessageCoordinator.cc:203`, `RequestMessageCoordinator.h:42`).
* A late MISSION_ACK ends the next transfer, so removeAll may report success
  with the plan still on the vehicle (`PlanManager.cc:560`).
* A read over a link with messages left from earlier transfers can store its
  items out of order and still report success, because any index on the list of
  those to read is accepted and its item appended (`PlanManager.cc:445`); seen
  with three transfers and four messages per direction, more than the run has.
* The timeout of a guided write is reported as a failed plan upload
  (`PlanManager.cc:168`, comment at 829).
* A heartbeat of a gimbal or camera releases the cached mission index
  (`MissionManager.cc:276`, comment at 248).
* An item reported outside Mission mode stays cached and becomes
  `lastCurrentIndex` when the vehicle enters Mission mode at another item
  (`MissionManager.cc:276`, `PlanManager.h:27`); an item of the plan before may,
  too, since a write does not reset the cache (`PlanManager.cc:834`).
* An empty plan whose MISSION_COUNT is lost fails after one timeout without a
  retry (`PlanManager.cc:204`).
* `_retryCount > _maxRetryCount` allows one retry more than the maximum named.
* One component's UNSUPPORTED answer silences a command for all components
  (`MavCommandQueue.cc:114`).
* The listing and writing states of FTP compare sequence numbers without regard
  to wrap-around before they stop the timer (`FTPManager.cc:984`, `479`); a
  delete whose first ack was lost is reported as failed.
* A high-latency link's request to start transmission is refused as a duplicate
  while the one to stop is pending (`VehicleLinkManager.cc:324`).
* Signing connections made per operation outlive the operation
  (`VehicleSigningController.cc:56`); a disable whose confirmation is lost leaves
  the ground station refusing the vehicle's unsigned packets
  (`SigningController.cc:366`).
* A parameter file read in part lets the load complete with parameters missing
  and `missingParameters` false (`ParameterManager.cc:1923`, `.h:26`); failed
  indices are never forgotten, so it also stays true after they arrive.
* What other components failed to deliver is reported once: a component first
  heard, or asked for its list again, after that, and given up, is never told of
  (`ParameterManager.cc:1454`, `.h:214`).
* `PlanMasterController` ignores the error of a section's upload and clears
  `dirtyForUpload` (`PlanMasterController.cc:276`, `.h:50`).

## 7. Not modelled

`PlanMasterController`, `InitialConnectStateMachine` and the writing of single
parameters are the open items of section 2. Links and sockets, maps,
video, positioning, plan geometry, settings and the user interface are input,
output and display around vendor libraries and carry no protocol state that the
models need. Vendored code and the test simulator `MockLink` are left out. The
choice of items in `generateResumeMission` is abstracted to a suffix of the
mission, and the item numbering of jump commands is left out. In `FTPManager`
local disk errors, a malformed URI and an upload cancelled from inside its own
progress signal are left out; in `SigningController` the key store's deletions,
timestamps and the alert about bad signatures; in `ParameterManager` log replay,
progress, the writing of the cache file and links that are gone (the vehicle is
then being removed); in `MultiVehicleManager` messages with system id 0.
