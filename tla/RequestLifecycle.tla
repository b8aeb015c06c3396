--------------------------- MODULE RequestLifecycle ---------------------------
(***************************************************************************)
(* What a request-with-callback service of a vehicle promises its callers, *)
(* whatever queues, retries and links it is made of: a request made is     *)
(* either answered once or, if the vehicle is closed first, discarded      *)
(* without an answer.  Nothing that was answered or discarded comes back.  *)
(***************************************************************************)
CONSTANT Request
VARIABLES status, closed

vars == <<status, closed>>

Status == {"new", "waiting", "answered", "discarded"}

Init == status = [q \in Request |-> "new"] /\ closed = FALSE

(* A caller makes a request.  It may be answered before the call returns;  *)
(* a closed service may discard it.                                        *)
Make(q) ==
    /\ status[q] = "new"
    /\ \E s \in {"answered"} \cup (IF closed THEN {"discarded"} ELSE {"waiting"}) :
          status' = [status EXCEPT ![q] = s]
    /\ UNCHANGED closed

(* Waiting requests are answered, several at once when the answer to one   *)
(* brings others down with it.                                             *)
Answer(some) ==
    /\ ~closed /\ some # {}
    /\ \A q \in some : status[q] = "waiting"
    /\ status' = [q \in Request |-> IF q \in some THEN "answered" ELSE status[q]]
    /\ UNCHANGED closed

Close ==
    /\ ~closed
    /\ closed' = TRUE
    /\ status' = [q \in Request |-> IF status[q] = "waiting" THEN "discarded" ELSE status[q]]

Next ==
    \/ \E q \in Request : Make(q)
    \/ \E some \in SUBSET Request : Answer(some)
    \/ Close

Spec == Init /\ [][Next]_vars
=============================================================================
