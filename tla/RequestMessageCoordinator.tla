---------------------- MODULE RequestMessageCoordinator ----------------------
(***************************************************************************)
(* src/Vehicle/RequestMessageCoordinator.cc: requests for single messages  *)
(* (MAV_CMD_REQUEST_MESSAGE), one at a time per vehicle component, each    *)
(* complete when both the command's ack and the message have arrived, in   *)
(* whatever order.                                                         *)
(*                                                                         *)
(* Composed with what MavCommandQueue promises (RequestLifecycle), seen    *)
(* from here: at most one REQUEST_MESSAGE per component is pending, each   *)
(* ends with one result, and a refusal is a result that arrives before     *)
(* sendWorker returns.  Code outside the coordinator (camera control)      *)
(* sends REQUEST_MESSAGE through the same queue.  An ack names a component *)
(* and a command, not a message, and any ack may arrive at any time.       *)
(*                                                                         *)
(* A refusal runs the next request before the handler of the previous one  *)
(* is called, so a chain of refusals leaves a stack of handlers still to   *)
(* be called: `stack`, whose frames are handlers to call and, once called, *)
(* requesters' code that is running and may call the coordinator again.    *)
(***************************************************************************)
EXTENDS Naturals, Sequences, FiniteSets, FiniteSetsExt, Functions

CONSTANTS
    NumComp,        \* components of the vehicle are 1..NumComp
    Msg,            \* messages that are requested
    OtherMsg,       \* a message nobody requests (telemetry)
    Owner,          \* requesters, the resultHandlerData of a request
    Asks,           \* which requester asks for which message
    MaxRequests     \* bound: requests made in a behaviour

ASSUME CoordinatorParameters ==
    /\ NumComp \in Nat /\ MaxRequests \in Nat /\ OtherMsg \notin Msg
    /\ Asks \subseteq Owner \X Msg

Comp == 1..NumComp
Request == 1..MaxRequests
NoCommand == 0
External == MaxRequests + 1     \* a REQUEST_MESSAGE sent past the coordinator

VARIABLES
    info,       \* the RequestMessageInfo_t objects that are allocated, by request
    active,     \* requests in _infoMap
    queue,      \* _queueMap
    command,    \* pending REQUEST_MESSAGE of MavCommandQueue per component
    linkUp,     \* the primary link exists
    stopped,    \* Vehicle::_stopCommandProcessing has run
    stack,      \* frames, innermost last
    issued,     \* history: requests made
    discarded,  \* history: requests cleared by stop() or made after it
    cancelled,  \* history: requests cancelRequests found in the maps and neutralized
    tooLate,    \* history: requests cancelRequests did not find, their handler already saved
    called      \* history: called[q] = times request q's own handler was called

maps == <<info, active, queue, command>>
vars == <<maps, linkUp, stopped, stack, issued, discarded, cancelled, tooLate, called>>

Info == [comp : Comp, msg : Msg, owner : Owner, ownHandler : BOOLEAN,
         acked : BOOLEAN, received : BOOLEAN, wait : {"off", "running", "expired"}]
Code == {"ok", "commandError", "notAcked", "notReceived", "duplicate"}
Frame == [req : Request, comp : Comp, msg : Msg, owner : Owner, code : Code,
          ownHandler : BOOLEAN, running : BOOLEAN]

TypeOK ==
    /\ \E live \in SUBSET Request : info \in [live -> Info]
    /\ active \subseteq DOMAIN info
    /\ queue \in [Comp -> Seq(DOMAIN info)]
    /\ command \in [Comp -> Request \cup {NoCommand, External}]
    /\ linkUp \in BOOLEAN /\ stopped \in BOOLEAN
    /\ stack \in Seq(Frame)
    /\ issued \in 0..MaxRequests
    /\ discarded \subseteq Request /\ cancelled \subseteq Request /\ tooLate \subseteq Request
    /\ called \in [Request -> Nat]

Init ==
    /\ info = << >> /\ active = {} /\ queue = [c \in Comp |-> <<>>]
    /\ command = [c \in Comp |-> NoCommand]
    /\ linkUp \in BOOLEAN /\ stopped = FALSE
    /\ stack = <<>> /\ issued = 0 /\ discarded = {} /\ cancelled = {} /\ tooLate = {}
    /\ called = [q \in Request |-> 0]

-----------------------------------------------------------------------------
EventLoop == stack = <<>>
AppMayRun == stack # <<>> => stack[Len(stack)].running

InComp(c) == {q \in active : info[q].comp = c}
Queued == UNION {Range(queue[c]) : c \in Comp}

_duplicate(c, m) == \E q \in active \cup Queued : info[q].comp = c /\ info[q].msg = m

FrameOf(q, i, code) ==
    [req |-> q, comp |-> i.comp, msg |-> i.msg, owner |-> i.owner, code |-> code,
     ownHandler |-> i.ownHandler, running |-> FALSE]

Without(q) == Restrict(info, DOMAIN info \ q)

(* What sendWorker says at once to a REQUEST_MESSAGE for component c when  *)
(* pending is what the queue holds: the duplicate check comes first.       *)
Refusal(pending, c) ==
    CASE pending[c] # NoCommand -> "duplicate"
      [] pending[c] = NoCommand /\ ~linkUp -> "notAcked"
      [] OTHER -> "none"

(* _removeInfo followed by the result handler of request q, when the queue *)
(* then holds `pending`.  _removeInfo runs _sendNextFromQueue first: if    *)
(* the next request is refused, it is removed in turn, down the queue.     *)
NextNotStarted(q, code, pending) ==
    /\ info' = Without({q}) /\ active' = active \ {q}
    /\ command' = pending
    /\ stack' = Append(stack, FrameOf(q, info[q], code))
    /\ UNCHANGED queue

Finish(q, code, pending) ==
    LET c == info[q].comp
        next == queue[c]
        refusal == Refusal(pending, c)
        mine == <<FrameOf(q, info[q], code)>>
    IN  \/ /\ next = <<>>
           /\ info' = Without({q}) /\ active' = active \ {q}
           /\ command' = pending
           /\ stack' = stack \o mine
           /\ UNCHANGED queue
        \/ /\ next # <<>> /\ refusal = "none"
           /\ info' = Without({q})
           /\ active' = (active \ {q}) \cup {Head(next)}
           /\ queue' = [queue EXCEPT ![c] = Tail(next)]
           /\ command' = [pending EXCEPT ![c] = Head(next)]
           /\ stack' = stack \o mine
        \/ /\ next # <<>> /\ refusal # "none"
           /\ info' = Without({q} \cup Range(next)) /\ active' = active \ {q}
           /\ queue' = [queue EXCEPT ![c] = <<>>]
           /\ command' = pending
           /\ stack' = stack \o mine
                       \o [k \in DOMAIN next |-> FrameOf(next[k], info[next[k]], refusal)]

-----------------------------------------------------------------------------
(* The requesters.                                                         *)

requestMessage(o, c, m) ==
    LET q == issued + 1
        i == [comp |-> c, msg |-> m, owner |-> o, ownHandler |-> TRUE,
              acked |-> FALSE, received |-> FALSE, wait |-> "off"]
        refusal == IF stopped THEN "none" ELSE Refusal(command, c)
        allocated == [p \in DOMAIN info \cup {q} |-> IF p = q THEN i ELSE info[p]]
    IN  /\ AppMayRun /\ issued < MaxRequests
        /\ issued' = q
        /\ \/ /\ _duplicate(c, m)
              /\ stack' = Append(stack, FrameOf(q, i, "duplicate"))
              /\ UNCHANGED <<maps, discarded>>
           \/ /\ ~_duplicate(c, m) /\ InComp(c) # {}
              /\ info' = allocated
              /\ queue' = [queue EXCEPT ![c] = Append(@, q)]
              /\ discarded' = IF stopped THEN discarded \cup {q} ELSE discarded
              /\ UNCHANGED <<active, command, stack>>
           \/ /\ ~_duplicate(c, m) /\ InComp(c) = {} /\ refusal # "none"
              /\ stack' = Append(stack, FrameOf(q, i, refusal))
              /\ UNCHANGED <<maps, discarded>>
           \/ /\ ~_duplicate(c, m) /\ InComp(c) = {} /\ refusal = "none"
              /\ info' = allocated /\ active' = active \cup {q}
              /\ IF stopped    \* sendWorker returns without a word
                 THEN discarded' = discarded \cup {q} /\ UNCHANGED command
                 ELSE command' = [command EXCEPT ![c] = q] /\ UNCHANGED discarded
              /\ UNCHANGED <<queue, stack>>
        /\ UNCHANGED <<linkUp, stopped, cancelled, tooLate, called>>

Owned(o) == {q \in DOMAIN info : info[q].owner = o /\ info[q].ownHandler}

(* Requests of o that are out of the maps, their handler saved in a        *)
(* caller's frame and not called yet.                                      *)
Saved(o) ==
    {q \in Request : \E k \in DOMAIN stack :
        LET f == stack[k] IN f.req = q /\ f.owner = o /\ f.ownHandler /\ ~f.running}

CancelsActiveOnly(o) ==
    /\ AppMayRun /\ Owned(o) \cup Saved(o) # {}
    /\ info' = [q \in DOMAIN info |->
                   IF q \in active /\ info[q].owner = o THEN [info[q] EXCEPT !.ownHandler = FALSE] ELSE info[q]]
    /\ cancelled' = cancelled \cup {q \in DOMAIN info : info[q].owner = o}
    /\ tooLate' = tooLate \cup Saved(o)
    /\ UNCHANGED <<active, queue, command, linkUp, stopped, stack, issued, discarded, called>>

(* Only the maps are searched: the handlers of Saved(o) stay as they are.  *)
cancelRequests(o) ==
    /\ AppMayRun /\ Owned(o) \cup Saved(o) # {}
    /\ info' = [q \in DOMAIN info |->
                   IF info[q].owner = o THEN [info[q] EXCEPT !.ownHandler = FALSE] ELSE info[q]]
    /\ cancelled' = cancelled \cup {q \in DOMAIN info : info[q].owner = o}
    /\ tooLate' = tooLate \cup Saved(o)
    /\ UNCHANGED <<active, queue, command, linkUp, stopped, stack, issued, discarded, called>>

StopForgetsQueues ==
    /\ AppMayRun /\ ~stopped
    /\ stopped' = TRUE
    /\ discarded' = discarded \cup active \cup Queued
    /\ info' = << >> /\ active' = {}
    /\ command' = [c \in Comp |-> NoCommand]
    /\ UNCHANGED <<queue, linkUp, stack, issued, cancelled, tooLate, called>>
StopAnswersActive ==
    /\ AppMayRun /\ ~stopped
    /\ stopped' = TRUE
    /\ discarded' = discarded \cup Queued
    /\ info' = << >> /\ active' = {} /\ queue' = [c \in Comp |-> <<>>]
    /\ command' = [c \in Comp |-> NoCommand]
    /\ UNCHANGED <<linkUp, stack, issued, cancelled, tooLate, called>>

(* Vehicle::_stopCommandProcessing stops the queue, then the coordinator.  *)
stop ==
    /\ AppMayRun /\ ~stopped
    /\ stopped' = TRUE
    /\ discarded' = discarded \cup active \cup Queued
    /\ info' = << >> /\ active' = {} /\ queue' = [c \in Comp |-> <<>>]
    /\ command' = [c \in Comp |-> NoCommand]
    /\ UNCHANGED <<linkUp, stack, issued, cancelled, tooLate, called>>

CallHandler ==
    /\ stack # <<>>
    /\ LET f == stack[Len(stack)]
       IN /\ ~f.running
          /\ IF f.ownHandler
             THEN /\ stack' = [stack EXCEPT ![Len(stack)].running = TRUE]
                  /\ called' = [called EXCEPT ![f.req] = @ + 1]
             ELSE stack' = SubSeq(stack, 1, Len(stack) - 1) /\ UNCHANGED called
    /\ UNCHANGED <<maps, linkUp, stopped, issued, discarded, cancelled, tooLate>>

HandlerReturns ==
    /\ stack # <<>> /\ stack[Len(stack)].running
    /\ stack' = SubSeq(stack, 1, Len(stack) - 1)
    /\ UNCHANGED <<maps, linkUp, stopped, issued, discarded, cancelled, tooLate, called>>

-----------------------------------------------------------------------------
(* _cmdResultHandler: the end of a command, acked or given up.             *)

(* Acked before its message: the request waits on, against the clock.      *)
AckedFirst(q) == info' = [info EXCEPT ![q].acked = TRUE, ![q].wait = "running"]

_cmdResultHandler(c, code) ==
    LET q == command[c]
        pending == [command EXCEPT ![c] = NoCommand]
    IN  IF q = External
        THEN command' = pending /\ UNCHANGED <<info, active, queue, stack>>
        ELSE \/ code # "ok" /\ Finish(q, code, pending)
             \/ code = "ok" /\ info[q].received /\ Finish(q, "ok", pending)
             \/ /\ code = "ok" /\ ~info[q].received
                /\ AckedFirst(q)
                /\ command' = pending
                /\ UNCHANGED <<active, queue, stack>>

CommandEnds(c, code) ==
    /\ EventLoop /\ command[c] # NoCommand
    /\ _cmdResultHandler(c, code)
    /\ UNCHANGED <<linkUp, stopped, issued, discarded, cancelled, tooLate, called>>

(* The message came before the ack.                                        *)
AckNotAwaited(q) == Finish(q, "ok", command)
ReceivedFirst(q) ==
    /\ info' = [info EXCEPT ![q].received = TRUE]
    /\ UNCHANGED <<active, queue, command, stack>>

(* Every message is offered to the coordinator; one that answers no active *)
(* request serves as the clock that ends requests whose wait has expired,  *)
(* one per message, lowest component first.                                *)
OnlyUnackedTimeOut == {q \in active : ~info[q].acked /\ info[q].wait = "expired"}
TimedOut == {q \in active : info[q].wait = "expired"}

handleReceivedMessage(c, m) ==
    /\ EventLoop
    /\ LET matching == {q \in InComp(c) : info[q].msg = m}
       IN \/ \E q \in matching :
                /\ info[q].acked
                /\ Finish(q, "ok", command)
          \/ \E q \in matching :
                /\ ~info[q].acked
                /\ ReceivedFirst(q)
          \/ /\ matching = {}
             /\ \E q \in TimedOut :
                   /\ \A p \in TimedOut : info[q].comp <= info[p].comp
                   /\ Finish(q, "notReceived", command)
    /\ UNCHANGED <<linkUp, stopped, issued, discarded, cancelled, tooLate, called>>

-----------------------------------------------------------------------------
(* The environment.                                                        *)

WaitExpires ==
    /\ \E q \in active :
          info[q].wait = "running" /\ info' = [info EXCEPT ![q].wait = "expired"]
    /\ UNCHANGED <<active, queue, command, linkUp, stopped, stack, issued, discarded, cancelled, tooLate, called>>

ExternalRequestMessage(c) ==
    /\ AppMayRun /\ ~stopped /\ linkUp /\ command[c] = NoCommand
    /\ command' = [command EXCEPT ![c] = External]
    /\ UNCHANGED <<info, active, queue, linkUp, stopped, stack, issued, discarded, cancelled, tooLate, called>>

LinkChanges ==
    /\ AppMayRun
    /\ linkUp' = ~linkUp
    /\ UNCHANGED <<maps, stopped, stack, issued, discarded, cancelled, tooLate, called>>

Next ==
    \/ \E a \in Asks, c \in Comp : requestMessage(a[1], c, a[2])
    \/ \E o \in Owner : cancelRequests(o)
    \/ \E c \in Comp, code \in {"ok", "commandError", "notAcked"} : CommandEnds(c, code)
    \/ \E c \in Comp, m \in Msg \cup {OtherMsg} : handleReceivedMessage(c, m)
    \/ \E c \in Comp : ExternalRequestMessage(c)
    \/ CallHandler \/ HandlerReturns \/ stop \/ WaitExpires \/ LinkChanges

Spec == Init /\ [][Next]_vars

(* Handlers are called and return, time passes, the queue ends every       *)
(* command it accepted (EveryRequestEnds of MavCommandQueue: unless        *)
(* IN_PROGRESS acks never stop), and some telemetry keeps arriving.        *)
Fairness ==
    /\ WF_vars(CallHandler) /\ WF_vars(HandlerReturns) /\ WF_vars(WaitExpires)
    /\ \A c \in Comp : WF_vars(CommandEnds(c, "notAcked")) /\ WF_vars(handleReceivedMessage(c, OtherMsg))

FairSpec == Spec /\ Fairness

-----------------------------------------------------------------------------
(* Properties.                                                             *)

(* The command queue holds a raw pointer to the request whose command is   *)
(* pending.  That request is always still allocated and active, and not    *)
(* acked: requests are deleted by messages, timeouts and stop() as well,   *)
(* none of which knows of the pointer.                                     *)
PendingCommandOwnerAlive ==
    \A c \in Comp : command[c] \in Request =>
        /\ command[c] \in active
        /\ info[command[c]].comp = c /\ ~info[command[c]].acked

(* No request is stranded.  An active one always has something that will   *)
(* end it: its command is pending, or it was acked and its wait clock      *)
(* runs; another sender's ack or command cannot take that away.  And a     *)
(* queued one has exactly one active request of its component ahead of it, *)
(* whose end starts the next, though refusals and reentrant requests drain *)
(* and refill the queue in the middle of _removeInfo.                      *)
NoRequestStranded ==
    /\ ~stopped => \A q \in active :
          IF info[q].acked THEN ~info[q].received /\ info[q].wait # "off"
                           ELSE command[info[q].comp] = q
    /\ \A c \in Comp : /\ Cardinality(InComp(c)) <= 1
                       /\ queue[c] # <<>> => InComp(c) # {}

(* The coordinator is a RequestLifecycle service of its own: a request is  *)
(* answered once, at the moment it leaves the maps.                        *)
RequestStatus(q) ==
    CASE q > issued -> "new"
      [] q \in discarded -> "discarded"
      [] q \in (active \cup Queued) \ discarded -> "waiting"
      [] OTHER -> "answered"

Lifecycle == INSTANCE RequestLifecycle
    WITH status <- [q \in Request |-> RequestStatus(q)], closed <- stopped

IsRequestLifecycle == Lifecycle!Spec

(* ... and the answer reaches the requester: its handler is called once,   *)
(* however refusals and reentrant calls nest, and not at all if the        *)
(* request was discarded, or cancelled while it was in the maps.  A cancel *)
(* that comes from inside _removeInfo, when a caller has the handler saved *)
(* and not called it, is too late: the handler is called after it, once,   *)
(* though the comment of cancelRequests says it never is.                  *)
HandlerCalledOnce ==
    \A q \in 1..issued :
        /\ called[q] <= 1
        /\ (RequestStatus(q) = "answered" /\ EventLoop /\ q \notin cancelled) => called[q] = 1
        /\ (q \in cancelled \/ RequestStatus(q) \in {"waiting", "discarded"}) => called[q] = 0
        /\ q \in tooLate => RequestStatus(q) = "answered" /\ q \notin cancelled

(* Every request ends, as long as messages keep arriving.                  *)
EveryRequestEnds ==
    \A q \in Request : (q <= issued) ~> (called[q] > 0 \/ q \in cancelled \/ stopped)
=============================================================================
