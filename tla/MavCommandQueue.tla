--------------------------- MODULE MavCommandQueue ---------------------------
(***************************************************************************)
(* src/Vehicle/MavCommandQueue.cc: the queue through which every           *)
(* COMMAND_LONG / COMMAND_INT leaves for a vehicle.  A request is either   *)
(* refused on the spot, or appended to `list`, transmitted, retransmitted  *)
(* by a periodic check until the vehicle answers, and then reported to its *)
(* requester through one callback.                                         *)
(*                                                                         *)
(* Everything runs on one thread, but a callback is a call out of the      *)
(* queue in the middle of its own work: the requester may send again, or   *)
(* close the vehicle, before the callback returns.  `depth` counts the     *)
(* callbacks on the stack and `walk` is the loop variable of a             *)
(* _responseTimeoutCheck that is suspended below them, so every such       *)
(* reentrant call is a step of its own here.                               *)
(*                                                                         *)
(* Requests are numbered in the order they are made; parameters, frames    *)
(* and user messages are left out.  A clock is one bit per entry: whether  *)
(* its elapsedTimer has passed ackTimeoutMSecs.                            *)
(***************************************************************************)
EXTENDS Naturals, FiniteSets, Sequences, SequencesExt

CONSTANTS
    Comp,           \* component ids of the vehicle that commands address
    AllComp,        \* MAV_COMP_ID_ALL
    Cmd,            \* MAV_CMD values
    Retryable,      \* _shouldRetry
    Duplicable,     \* _canBeDuplicated
    ProgressOnly,   \* acked with IN_PROGRESS only (DO_AUTOTUNE_ENABLE on PX4)
    MaxTries,       \* kMaxRetryCount
    MaxRequests,    \* bound: requests made in a behaviour
    MaxDepth        \* bound: callbacks nested in callbacks

ASSUME CommandSets ==
    /\ AllComp \notin Comp
    /\ Retryable \subseteq Cmd /\ Duplicable \subseteq Cmd /\ ProgressOnly \subseteq Cmd
ASSUME Bounds ==
    MaxTries \in Nat \ {0} /\ MaxRequests \in Nat /\ MaxDepth \in Nat \ {0}

VARIABLES
    list,       \* _list, oldest entry first
    stopped,    \* _stopped
    linkUp,     \* vehicleLinkManager()->primaryLink().lock() is not null
    supported,  \* FirmwarePluginInstanceData::MAV_CMD_supported
    walk,       \* i + 1 in a suspended _responseTimeoutCheck loop, 0 when none runs
    depth,      \* callbacks on the stack
    issued,     \* history: requests made so far
    outcomes,   \* history: outcomes[q] = times request q was reported to its requester
    dropped,    \* history: requests the queue discarded because it was stopped
    frames,     \* history: frames[q] = confirmation field of each transmission of q
    heard,      \* history: requests the vehicle has acknowledged with IN_PROGRESS
    due         \* history: requests expired when the running check began, not yet handled

history == <<issued, outcomes, dropped, frames, heard, due>>
vars == <<list, stopped, linkUp, supported, walk, depth, history>>

Request == 1..MaxRequests
Octet == 0..255
Result == {"accepted", "unsupported", "failed"}

Entry == [id : Request, comp : Comp, cmd : Cmd, fallback : BOOLEAN,
          maxTries : 1..MaxTries, tryCount : 1..MaxTries, expired : BOOLEAN]

TypeOK ==
    /\ list \in Seq(Entry)
    /\ stopped \in BOOLEAN /\ linkUp \in BOOLEAN
    /\ supported \in [Cmd -> {"unknown", "supported", "unsupported"}]
    /\ walk \in Nat /\ depth \in 0..MaxDepth
    /\ issued \in 0..MaxRequests
    /\ outcomes \in [Request -> Nat]
    /\ dropped \subseteq Request
    /\ frames \in [Request -> Seq(Octet)]
    /\ heard \subseteq Request /\ due \subseteq Request

(* A firmware plugin may rule a command out for every version: such a      *)
(* command is UNSUPPORTED from the start and nothing ever changes that.    *)
Init ==
    /\ list = <<>> /\ stopped = FALSE /\ linkUp \in BOOLEAN
    /\ supported \in [Cmd -> {"unknown", "unsupported"}]
    /\ walk = 0 /\ depth = 0
    /\ issued = 0
    /\ outcomes = [q \in Request |-> 0]
    /\ dropped = {}
    /\ frames = [q \in Request |-> <<>>]
    /\ heard = {} /\ due = {}

-----------------------------------------------------------------------------
(* Helpers of the queue.                                                   *)

Ids(entries) == {entries[i].id : i \in DOMAIN entries}

(* findEntryIndex: entry i is the oldest one for this component and command *)
IsFirstMatch(i, c, m) ==
    /\ list[i].comp = c /\ list[i].cmd = m
    /\ \A j \in 1..(i - 1) : ~(list[j].comp = c /\ list[j].cmd = m)

isPending(c, m) == \E i \in DOMAIN list : list[i].comp = c /\ list[i].cmd = m

(* _sendFromList works on a copy of the entry made before tryCount is      *)
(* incremented, and narrows tryCount - 1 to a uint8_t.                     *)
NotNarrowed(tryCountBefore) == tryCountBefore + 255
Confirmation(tryCountBefore) == (tryCountBefore + 255) % 256

(* The last word on request q: its resultHandler, or the commandResult     *)
(* signal, or its lambda.  For a ProgressOnly command it is the progress   *)
(* handler, since the queue drops the entry with the IN_PROGRESS ack; the  *)
(* handler is optional, but the one sender of that command (Autotune.cc)   *)
(* passes it.                                                              *)
Report(q) ==
    /\ depth < MaxDepth
    /\ depth' = depth + 1
    /\ outcomes' = [outcomes EXCEPT ![q] = @ + 1]

Transmit(q, tryCountBefore) ==
    frames' = IF linkUp THEN [frames EXCEPT ![q] = Append(@, Confirmation(tryCountBefore))]
                        ELSE frames

(* Code outside the queue runs from the event loop or inside a callback.   *)
AppMayRun == depth > 0 \/ walk = 0
EventLoop == depth = 0 /\ walk = 0

-----------------------------------------------------------------------------
(* sendWorker and the wrappers that end in it.                             *)

NewEntry(c, m, fb) ==
    [id |-> issued + 1, comp |-> c, cmd |-> m, fallback |-> fb,
     maxTries |-> IF m \in Retryable THEN MaxTries ELSE 1,
     tryCount |-> 1, expired |-> FALSE]

DuplicatesAccepted(c, m) == c = AllComp
Refused(c, m) == c = AllComp \/ (isPending(c, m) /\ m \notin Duplicable)

sendWorker(c, m, fb) ==
    /\ AppMayRun /\ issued < MaxRequests
    /\ issued' = issued + 1
    /\ \/ /\ stopped
          /\ dropped' = dropped \cup {issued'}
          /\ UNCHANGED <<list, depth, outcomes, frames>>
       \/ /\ ~stopped /\ (Refused(c, m) \/ ~linkUp)
          /\ Report(issued')
          /\ UNCHANGED <<list, dropped, frames>>
       \/ /\ ~stopped /\ ~Refused(c, m) /\ linkUp
          /\ list' = Append(list, NewEntry(c, m, fb))
          /\ Transmit(issued', 0)
          /\ UNCHANGED <<depth, outcomes, dropped>>
    /\ UNCHANGED <<stopped, linkUp, supported, walk, heard, due>>

sendCommand(c, m) == sendWorker(c, m, FALSE)

sendCommandWithLambdaFallback(c, m) ==
    \/ /\ supported[m] = "unsupported"
       /\ AppMayRun /\ issued < MaxRequests
       /\ issued' = issued + 1
       /\ Report(issued')
       /\ UNCHANGED <<list, stopped, linkUp, supported, walk, dropped, frames, heard, due>>
    \/ supported[m] = "supported" /\ sendWorker(c, m, FALSE)
    \/ supported[m] = "unknown" /\ sendWorker(c, m, TRUE)

-----------------------------------------------------------------------------
(* Answers of the vehicle, matched by component and command only.          *)

(* lambdaFallbackResultHandler caches what the answer says of the command. *)
Learn(e, r) ==
    supported' = CASE e.fallback /\ r = "accepted" -> [supported EXCEPT ![e.cmd] = "supported"]
                   [] e.fallback /\ r = "unsupported" -> [supported EXCEPT ![e.cmd] = "unsupported"]
                   [] OTHER -> supported

AckLeavesEntry(c, m, r) ==
    /\ EventLoop
    /\ \E i \in DOMAIN list : IsFirstMatch(i, c, m) /\ Learn(list[i], r) /\ Report(list[i].id)
    /\ UNCHANGED <<list, stopped, linkUp, walk, issued, dropped, frames, heard, due>>

AckResult(c, m, r) ==
    /\ EventLoop
    /\ \E i \in DOMAIN list :
          /\ IsFirstMatch(i, c, m)
          /\ list' = RemoveAt(list, i)
          /\ Learn(list[i], r)
          /\ Report(list[i].id)
    /\ UNCHANGED <<stopped, linkUp, walk, issued, dropped, frames, heard, due>>

InProgressKeepsRetrying(c, m) ==
    /\ EventLoop
    /\ \E i \in DOMAIN list :
          /\ IsFirstMatch(i, c, m)
          /\ heard' = heard \cup {list[i].id}
          /\ list' = [list EXCEPT ![i].expired = FALSE]
    /\ UNCHANGED <<stopped, linkUp, supported, walk, depth, issued, outcomes, dropped, frames, due>>

AckInProgress(c, m) ==
    /\ EventLoop
    /\ \E i \in DOMAIN list :
          /\ IsFirstMatch(i, c, m)
          /\ heard' = heard \cup {list[i].id}
          /\ IF m \in ProgressOnly
             THEN /\ list' = RemoveAt(list, i)
                  /\ Report(list[i].id)
             ELSE /\ list' = [list EXCEPT ![i].maxTries = 1, ![i].expired = FALSE]
                  /\ depth' \in {depth, depth + 1}   \* a progressHandler is optional
                  /\ UNCHANGED outcomes
    /\ UNCHANGED <<stopped, linkUp, supported, walk, issued, dropped, frames, due>>

handleCommandAck(c, m) == AckInProgress(c, m) \/ \E r \in Result : AckResult(c, m, r)

-----------------------------------------------------------------------------
(* _responseTimeoutCheck: a walk from the newest entry to the oldest.      *)

CheckSkipsNewest ==
    /\ EventLoop /\ ~stopped /\ list # <<>>
    /\ walk' = Len(list) - 1
    /\ due' = {list[i].id : i \in {j \in DOMAIN list : list[j].expired}}
    /\ UNCHANGED <<list, stopped, linkUp, supported, depth, issued, outcomes, dropped, frames, heard>>

_responseTimeoutCheck ==
    /\ EventLoop /\ ~stopped /\ list # <<>>
    /\ walk' = Len(list)
    /\ due' = {list[i].id : i \in {j \in DOMAIN list : list[j].expired}}
    /\ UNCHANGED <<list, stopped, linkUp, supported, depth, issued, outcomes, dropped, frames, heard>>

GiveUpSilently(i) ==
    /\ list[i].tryCount >= list[i].maxTries
    /\ list' = RemoveAt(list, i)
    /\ UNCHANGED <<depth, outcomes, frames>>

GiveUp(i) ==
    /\ list[i].tryCount >= list[i].maxTries
    /\ list' = RemoveAt(list, i)
    /\ Report(list[i].id)
    /\ UNCHANGED frames

ResendOnceTooOften(i) ==
    /\ list[i].tryCount <= list[i].maxTries
    /\ list' = [list EXCEPT ![i].tryCount = @ + 1]
    /\ Transmit(list[i].id, list[i].tryCount)
    /\ UNCHANGED <<depth, outcomes>>

Resend(i) ==
    /\ list[i].tryCount < list[i].maxTries
    /\ list' = [list EXCEPT ![i].tryCount = @ + 1]
    /\ Transmit(list[i].id, list[i].tryCount)
    /\ UNCHANGED <<depth, outcomes>>

_sendFromList(i) == GiveUp(i) \/ Resend(i)

WalkStep ==
    /\ depth = 0 /\ walk > 0
    /\ \/ /\ stopped
          /\ walk' = 0
          /\ UNCHANGED <<list, depth, outcomes, frames, due>>
       \/ /\ ~stopped /\ walk > Len(list)   \* a callback removed entries: clamp
          /\ walk' = Len(list)
          /\ UNCHANGED <<list, depth, outcomes, frames, due>>
       \/ /\ ~stopped /\ walk <= Len(list)
          /\ walk' = walk - 1
          /\ IF list[walk].expired
             THEN _sendFromList(walk) /\ due' = due \ {list[walk].id}
             ELSE UNCHANGED <<list, depth, outcomes, frames, due>>
    /\ UNCHANGED <<stopped, linkUp, supported, issued, dropped, heard>>

-----------------------------------------------------------------------------
(* stop, the return of a callback, and the environment.                    *)

StopReports ==
    /\ AppMayRun /\ ~stopped
    /\ stopped' = TRUE
    /\ list' = <<>>
    /\ outcomes' = [q \in Request |-> outcomes[q] + IF q \in Ids(list) THEN 1 ELSE 0]
    /\ UNCHANGED <<linkUp, supported, walk, depth, issued, dropped, frames, heard, due>>

stop ==
    /\ AppMayRun /\ ~stopped
    /\ stopped' = TRUE
    /\ list' = <<>>
    /\ dropped' = dropped \cup Ids(list)
    /\ UNCHANGED <<linkUp, supported, walk, depth, issued, outcomes, frames, heard, due>>

CallbackReturns ==
    /\ depth > 0
    /\ depth' = depth - 1
    /\ UNCHANGED <<list, stopped, linkUp, supported, walk, history>>

LinkChanges ==
    /\ AppMayRun
    /\ linkUp' = ~linkUp
    /\ UNCHANGED <<list, stopped, supported, walk, depth, history>>

Expires(q) ==
    /\ \E i \in DOMAIN list :
          list[i].id = q /\ ~list[i].expired /\ list' = [list EXCEPT ![i].expired = TRUE]
    /\ UNCHANGED <<stopped, linkUp, supported, walk, depth, history>>

TimerExpires == \E q \in Request : Expires(q)

Next ==
    \/ \E c \in Comp \cup {AllComp}, m \in Cmd :
          sendCommand(c, m) \/ sendCommandWithLambdaFallback(c, m)
    \/ \E c \in Comp, m \in Cmd : handleCommandAck(c, m)
    \/ _responseTimeoutCheck \/ WalkStep
    \/ stop \/ CallbackReturns
    \/ LinkChanges \/ TimerExpires

Spec == Init /\ [][Next]_vars

(* Time passes for every entry, callbacks return and a running check runs  *)
(* on.  The repeating QTimer is served by the event loop however many acks *)
(* arrive: an ack being handled only delays it.  Nothing is assumed of the *)
(* vehicle or the link.                                                    *)
Fairness ==
    /\ SF_vars(_responseTimeoutCheck) /\ WF_vars(WalkStep) /\ WF_vars(CallbackReturns)
    /\ \A q \in Request : WF_vars(Expires(q))

FairSpec == Spec /\ Fairness

-----------------------------------------------------------------------------
(* Properties.                                                             *)

Copies(q) == Cardinality({i \in DOMAIN list : list[i].id = q})

(* Every request made is in exactly one place: waiting in the list, thrown *)
(* away by stop(), or reported, and reported once.  Callbacks that send    *)
(* again or stop the queue while it is in the middle of a removal, of a    *)
(* walk or of another callback must neither lose a request nor report one  *)
(* twice (sendWorker, _sendFromList, handleCommandAck, stop).              *)
ExactlyOneOutcome ==
    \A q \in Request :
        Copies(q) + outcomes[q] + (IF q \in dropped THEN 1 ELSE 0) = IF q <= issued THEN 1 ELSE 0

(* An ack names only a component and a command, so two requests waiting    *)
(* for the same pair could not be told apart (sendWorker's comment); only  *)
(* the commands of _canBeDuplicated may be.                                *)
AcksUnambiguous ==
    \A i, j \in DOMAIN list :
        (list[i].comp = list[j].comp /\ list[i].cmd = list[j].cmd /\ i # j)
            => list[i].cmd \in Duplicable

(* _shouldRetry's safety rule: a command that is not in its short list is  *)
(* transmitted once, whatever is acked, expires or is sent from callbacks, *)
(* and no request is transmitted more than kMaxRetryCount times.           *)
TransmissionsBounded ==
    \A q \in Request :
        /\ Len(frames[q]) <= MaxTries
        /\ \A i \in DOMAIN list :
              (list[i].id = q /\ list[i].cmd \notin Retryable) => Len(frames[q]) <= 1

(* Once the vehicle said it is working on a command, that request is never *)
(* transmitted again, and nothing at all is transmitted, nor any earlier   *)
(* request reported, after stop() (Vehicle::_stopCommandProcessing).       *)
QuietWhenTold ==
    [][\A q \in Request :
          /\ q \in heard => frames'[q] = frames[q]
          /\ (stopped /\ q <= issued) => frames'[q] = frames[q] /\ outcomes'[q] = outcomes[q]]_vars

(* A check that runs to its end has resent or given up every entry that    *)
(* was overdue when it began, although callbacks appended to the list, or  *)
(* emptied it, under its index.                                            *)
WalkMissesNothing ==
    [][(walk > 0 /\ walk' = 0 /\ ~stopped) => due' \cap Ids(list') = {}]_vars

(* An IN_PROGRESS ack restarts the clock of request q after it had run out *)
(* and before a check saw it (handleCommandAck's elapsedTimer.start()).    *)
Renews(q) ==
    \E i \in DOMAIN list :
        /\ list[i].id = q /\ list[i].expired /\ IsFirstMatch(i, list[i].comp, list[i].cmd)
        /\ AckInProgress(list[i].comp, list[i].cmd)

(* Whatever the link and the vehicle do, a request that was made is        *)
(* reported or the queue is stopped, and only one thing can put that off   *)
(* for ever: IN_PROGRESS acks that keep coming and restart its clock each  *)
(* time just after it ran out.  Their number is not bounded, in the code   *)
(* or here.                                                                *)
EveryRequestEnds ==
    \A q \in Request :
        \/ (q <= issued /\ outcomes[q] = 0) ~> (outcomes[q] > 0 \/ stopped)
        \/ []<><<Renews(q)>>_vars

(* The queue is a RequestLifecycle service: a step of the queue answers,   *)
(* discards or accepts at most one caller's request at a time, except      *)
(* stop(), which discards all of them (without firing callbacks).          *)
RequestStatus(q) ==
    CASE q > issued -> "new"
      [] q \in Ids(list) -> "waiting"
      [] q \in dropped -> "discarded"
      [] OTHER -> "answered"

Lifecycle == INSTANCE RequestLifecycle
    WITH status <- [q \in Request |-> RequestStatus(q)], closed <- stopped

IsRequestLifecycle == Lifecycle!Spec
=============================================================================
