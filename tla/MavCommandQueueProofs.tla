------------------------ MODULE MavCommandQueueProofs ------------------------
(***************************************************************************)
(* Theorems about MavCommandQueue, for every set of components, commands   *)
(* and requests and every bound.                                           *)
(***************************************************************************)
EXTENDS MavCommandQueue, SequenceTheorems, FiniteSetTheorems, TLAPS

(* Taking one element out of a sequence closes the gap: every element of   *)
(* the result was an element at its own place or at the next one.          *)
LEMMA RemoveAtProperties ==
    ASSUME NEW S, NEW s \in Seq(S), NEW i \in DOMAIN s
    PROVE  /\ RemoveAt(s, i) \in Seq(S)
           /\ Len(RemoveAt(s, i)) = Len(s) - 1
           /\ \A j \in 1..(Len(s) - 1) : RemoveAt(s, i)[j] = s[IF j < i THEN j ELSE j + 1]
<1> DEFINE left == SubSeq(s, 1, i - 1)
           right == SubSeq(s, i + 1, Len(s))
<1>1. /\ Len(s) \in Nat /\ i \in 1..Len(s) /\ DOMAIN s = 1..Len(s)
      /\ \A j \in 1..Len(s) : s[j] \in S
  BY LenProperties, ElementOfSeq
<1>2. /\ left \in Seq(S) /\ Len(left) = i - 1
      /\ \A j \in 1..(i - 1) : left[j] = s[j]
  <2>1. \A j \in 1..(i - 1) : s[j] \in S
    BY <1>1
  <2>2. /\ left \in Seq(S)
        /\ Len(left) = IF 1 <= i - 1 THEN (i - 1) - 1 + 1 ELSE 0
        /\ \A j \in 1..((i - 1) - 1 + 1) : left[j] = s[1 + j - 1]
    BY <1>1, <2>1, SubSeqProperties
  <2> QED BY <1>1, <2>2
<1>3. /\ right \in Seq(S) /\ Len(right) = Len(s) - i
      /\ \A j \in 1..(Len(s) - i) : right[j] = s[i + j]
  <2>1. \A j \in (i + 1)..Len(s) : s[j] \in S
    BY <1>1
  <2>2. /\ right \in Seq(S)
        /\ Len(right) = IF i + 1 <= Len(s) THEN Len(s) - (i + 1) + 1 ELSE 0
        /\ \A j \in 1..(Len(s) - (i + 1) + 1) : right[j] = s[(i + 1) + j - 1]
    BY <1>1, <2>1, SubSeqProperties
  <2> HIDE DEF right
  <2>3. Len(right) = Len(s) - i
    BY <1>1, <2>2
  <2>4. ASSUME NEW j \in 1..(Len(s) - i) PROVE right[j] = s[i + j]
    <3>1. j \in 1..(Len(s) - (i + 1) + 1) /\ (i + 1) + j - 1 = i + j
      BY <1>1
    <3> QED BY <2>2, <3>1
  <2> QED BY <2>2, <2>3, <2>4
<1>4. /\ left \o right \in Seq(S)
      /\ Len(left \o right) = Len(left) + Len(right)
      /\ \A j \in 1..(Len(left) + Len(right)) :
            (left \o right)[j] = IF j <= Len(left) THEN left[j] ELSE right[j - Len(left)]
  BY <1>2, <1>3, ConcatProperties
<1>5. RemoveAt(s, i) = left \o right
  BY DEF RemoveAt
<1> HIDE DEF left, right
<1>6. Len(left) + Len(right) = Len(s) - 1
  BY <1>1, <1>2, <1>3
<1>7. ASSUME NEW j \in 1..(Len(s) - 1)
      PROVE  (left \o right)[j] = s[IF j < i THEN j ELSE j + 1]
  <2>1. CASE j < i
    BY <2>1, <1>1, <1>2, <1>4, <1>6
  <2>2. CASE ~(j < i)
    <3>1. (left \o right)[j] = right[j - (i - 1)]
      BY <2>2, <1>1, <1>2, <1>4, <1>6
    <3>2. j - (i - 1) \in 1..(Len(s) - i) /\ i + (j - (i - 1)) = j + 1
      BY <2>2, <1>1
    <3> QED BY <2>2, <3>1, <3>2, <1>3
  <2> QED BY <2>1, <2>2
<1> QED BY <1>4, <1>5, <1>6, <1>7

-----------------------------------------------------------------------------
(* Type correctness.                                                       *)

LEMMA EntryAt ==
    ASSUME TypeOK, NEW i \in DOMAIN list
    PROVE  /\ Len(list) \in Nat /\ i \in 1..Len(list) /\ DOMAIN list = 1..Len(list)
           /\ list[i] \in Entry
BY LenProperties, ElementOfSeq DEF TypeOK

LEMMA NewEntryType ==
    ASSUME TypeOK, issued < MaxRequests, NEW c \in Comp, NEW m \in Cmd, NEW fb \in BOOLEAN
    PROVE  /\ NewEntry(c, m, fb) \in Entry
           /\ issued + 1 \in Request
BY CommandSets, Bounds DEF TypeOK, NewEntry, Entry, Request

(* The updates of an entry that the queue makes keep it an entry.          *)
LEMMA NoMoreTries ==
    ASSUME NEW e \in Entry
    PROVE  [e EXCEPT !.maxTries = 1, !.expired = FALSE] \in Entry
<1>1. 1 \in 1..MaxTries
  BY Bounds
<1>2. [e EXCEPT !.maxTries = 1] \in Entry
  BY <1>1 DEF Entry
<1> QED BY <1>2 DEF Entry

LEMMA OneMoreTry ==
    ASSUME NEW e \in Entry, NEW n \in 1..MaxTries
    PROVE  [e EXCEPT !.tryCount = n] \in Entry
BY DEF Entry

LEMMA Overdue ==
    ASSUME NEW e \in Entry
    PROVE  [e EXCEPT !.expired = TRUE] \in Entry
BY DEF Entry

(* A transmission appends one octet to the frames of a request.            *)
LEMMA TransmitType ==
    ASSUME TypeOK, NEW q \in Request, NEW n \in Nat, Transmit(q, n)
    PROVE  frames' \in [Request -> Seq(Octet)]
<1>1. Confirmation(n) \in Octet
  BY DEF Confirmation, Octet
<1>2. frames[q] \in Seq(Octet)
  BY DEF TypeOK
<1>3. Append(frames[q], Confirmation(n)) \in Seq(Octet)
  BY <1>1, <1>2, AppendProperties
<1> QED BY <1>3 DEF Transmit, TypeOK

LEMMA ReportType ==
    ASSUME TypeOK, NEW q \in Request, Report(q)
    PROVE  /\ depth' \in 0..MaxDepth /\ outcomes' \in [Request -> Nat]
BY Bounds DEF TypeOK, Report

LEMMA sendWorkerType ==
    ASSUME TypeOK, NEW c \in Comp \cup {AllComp}, NEW m \in Cmd, NEW fb \in BOOLEAN,
           sendWorker(c, m, fb)
    PROVE  TypeOK'
<1>1. /\ issued < MaxRequests /\ issued' = issued + 1
      /\ UNCHANGED <<stopped, linkUp, supported, walk, heard, due>>
  BY DEF sendWorker
<1>2. issued' \in Request /\ issued' \in 0..MaxRequests
  BY <1>1, Bounds DEF TypeOK, Request
<1>3. CASE stopped /\ dropped' = dropped \cup {issued'} /\ UNCHANGED <<list, depth, outcomes, frames>>
  BY <1>1, <1>2, <1>3 DEF TypeOK
<1>4. CASE Report(issued') /\ UNCHANGED <<list, dropped, frames>>
  BY <1>1, <1>2, <1>4, ReportType DEF TypeOK
<1>5. CASE /\ ~Refused(c, m) /\ list' = Append(list, NewEntry(c, m, fb))
           /\ Transmit(issued', 0) /\ UNCHANGED <<depth, outcomes, dropped>>
  <2>1. c \in Comp
    BY <1>5 DEF Refused
  <2>2. NewEntry(c, m, fb) \in Entry
    BY <1>1, <2>1, NewEntryType
  <2>3. list' \in Seq(Entry)
    BY <1>5, <2>2, AppendProperties DEF TypeOK
  <2>4. frames' \in [Request -> Seq(Octet)]
    BY <1>2, <1>5, TransmitType
  <2> QED BY <1>1, <1>2, <1>5, <2>3, <2>4 DEF TypeOK
<1> QED BY <1>3, <1>4, <1>5 DEF sendWorker

LEMMA sendCommandWithLambdaFallbackType ==
    ASSUME TypeOK, NEW c \in Comp \cup {AllComp}, NEW m \in Cmd,
           sendCommandWithLambdaFallback(c, m)
    PROVE  TypeOK'
<1>1. CASE /\ issued < MaxRequests /\ issued' = issued + 1 /\ Report(issued')
           /\ UNCHANGED <<list, stopped, linkUp, supported, walk, dropped, frames, heard, due>>
  <2>1. issued' \in Request /\ issued' \in 0..MaxRequests
    BY <1>1, Bounds DEF TypeOK, Request
  <2> QED BY <1>1, <2>1, ReportType DEF TypeOK
<1>2. CASE sendWorker(c, m, TRUE) \/ sendWorker(c, m, FALSE)
  BY <1>2, sendWorkerType
<1> QED BY <1>1, <1>2 DEF sendCommandWithLambdaFallback

LEMMA handleCommandAckType ==
    ASSUME TypeOK, NEW c \in Comp, NEW m \in Cmd, handleCommandAck(c, m)
    PROVE  TypeOK'
<1>1. ASSUME NEW r \in Result, AckResult(c, m, r) PROVE TypeOK'
  <2>1. PICK i \in DOMAIN list :
            /\ list' = RemoveAt(list, i) /\ Learn(list[i], r) /\ Report(list[i].id)
    BY <1>1 DEF AckResult
  <2>2. list[i].id \in Request /\ list[i].cmd \in Cmd
    BY EntryAt DEF Entry
  <2>3. list' \in Seq(Entry)
    BY <2>1, RemoveAtProperties DEF TypeOK
  <2>4. supported' \in [Cmd -> {"unknown", "supported", "unsupported"}]
    BY <2>1, <2>2 DEF Learn, TypeOK
  <2>5. UNCHANGED <<stopped, linkUp, walk, issued, dropped, frames, heard, due>>
    BY <1>1 DEF AckResult
  <2> QED BY <2>1, <2>2, <2>3, <2>4, <2>5, ReportType DEF TypeOK
<1>2. ASSUME AckInProgress(c, m) PROVE TypeOK'
  <2>1. PICK i \in DOMAIN list :
            /\ heard' = heard \cup {list[i].id}
            /\ IF m \in ProgressOnly
               THEN /\ list' = RemoveAt(list, i)
                    /\ Report(list[i].id)
               ELSE /\ list' = [list EXCEPT ![i].maxTries = 1, ![i].expired = FALSE]
                    /\ depth' \in {depth, depth + 1}
                    /\ UNCHANGED outcomes
    BY <1>2 DEF AckInProgress
  <2>2. list[i] \in Entry /\ list[i].id \in Request /\ i \in 1..Len(list)
    BY EntryAt DEF Entry
  <2>3. list' \in Seq(Entry)
    <3>1. CASE m \in ProgressOnly
      BY <2>1, <3>1, RemoveAtProperties DEF TypeOK
    <3>2. CASE m \notin ProgressOnly
      <4>1. [list[i] EXCEPT !.maxTries = 1, !.expired = FALSE] \in Entry
        BY <2>2, NoMoreTries
      <4>2. list' = [list EXCEPT ![i] = [list[i] EXCEPT !.maxTries = 1, !.expired = FALSE]]
        BY <2>1, <3>2
      <4> QED BY <2>2, <4>1, <4>2, ExceptSeq DEF TypeOK
    <3> QED BY <3>1, <3>2
  <2>4. /\ depth = 0
        /\ UNCHANGED <<stopped, linkUp, supported, walk, issued, dropped, frames, due>>
    BY <1>2, Bounds DEF AckInProgress, EventLoop, TypeOK
  <2>5. depth' \in 0..MaxDepth /\ outcomes' \in [Request -> Nat]
    BY <2>1, <2>2, <2>4, ReportType, Bounds DEF TypeOK
  <2> QED BY <2>1, <2>2, <2>3, <2>4, <2>5 DEF TypeOK
<1> QED BY <1>1, <1>2 DEF handleCommandAck

LEMMA WalkStepType ==
    ASSUME TypeOK, WalkStep
    PROVE  TypeOK'
<1>1. UNCHANGED <<stopped, linkUp, supported, issued, dropped, heard>>
  BY DEF WalkStep
<1>2. Len(list) \in Nat /\ DOMAIN list = 1..Len(list)
  BY LenProperties DEF TypeOK
<1>3. CASE walk' \in {0, Len(list), walk - 1} /\ walk' \in Nat
           /\ UNCHANGED <<list, depth, outcomes, frames, due>>
  BY <1>1, <1>3 DEF TypeOK
<1>4. CASE /\ walk > 0 /\ walk <= Len(list) /\ walk' = walk - 1
           /\ _sendFromList(walk) /\ due' = due \ {list[walk].id}
  <2>0. walk \in DOMAIN list /\ walk \in 1..Len(list)
    BY <1>2, <1>4 DEF TypeOK
  <2>1. /\ walk \in DOMAIN list /\ walk \in 1..Len(list)
        /\ list[walk] \in Entry /\ list[walk].id \in Request
        /\ list[walk].tryCount \in 1..MaxTries /\ list[walk].maxTries \in 1..MaxTries
    BY <2>0, EntryAt DEF Entry
  <2>2. walk' \in Nat /\ due' \subseteq Request
    BY <1>4 DEF TypeOK
  <2>3. CASE GiveUp(walk)
    <3>1. list' \in Seq(Entry) /\ Report(list[walk].id) /\ UNCHANGED frames
      BY <2>1, <2>3, RemoveAtProperties DEF GiveUp, TypeOK
    <3> QED BY <1>1, <2>1, <2>2, <3>1, ReportType DEF TypeOK
  <2>4. CASE Resend(walk)
    <3>1. list[walk].tryCount + 1 \in 1..MaxTries /\ list[walk].tryCount \in Nat
      BY <2>1, <2>4, Bounds DEF Resend
    <3>2. [list[walk] EXCEPT !.tryCount = list[walk].tryCount + 1] \in Entry
      BY <2>1, <3>1, OneMoreTry
    <3>3. list' = [list EXCEPT ![walk] = [list[walk] EXCEPT !.tryCount = list[walk].tryCount + 1]]
      BY <2>4 DEF Resend
    <3>4. list' \in Seq(Entry)
      BY <2>1, <3>2, <3>3, ExceptSeq DEF TypeOK
    <3>5. frames' \in [Request -> Seq(Octet)]
      BY <2>1, <2>4, <3>1, TransmitType DEF Resend
    <3> QED BY <1>1, <2>2, <2>4, <3>4, <3>5 DEF Resend, TypeOK
  <2> QED BY <1>4, <2>3, <2>4 DEF _sendFromList
<1> QED
  <2>1. walk > 0 /\ walk - 1 \in Nat
    BY DEF WalkStep, TypeOK
  <2> QED BY <1>2, <1>3, <1>4, <2>1 DEF WalkStep

LEMMA TypeStep ==
    ASSUME TypeOK, [Next]_vars
    PROVE  TypeOK'
<1>1. ASSUME NEW c \in Comp \cup {AllComp}, NEW m \in Cmd,
             sendCommand(c, m) \/ sendCommandWithLambdaFallback(c, m)
      PROVE  TypeOK'
  BY <1>1, sendWorkerType, sendCommandWithLambdaFallbackType DEF sendCommand
<1>2. ASSUME NEW c \in Comp, NEW m \in Cmd, handleCommandAck(c, m) PROVE TypeOK'
  BY <1>2, handleCommandAckType
<1>3. CASE _responseTimeoutCheck
  <2>1. Len(list) \in Nat
    BY LenProperties DEF TypeOK
  <2>2. due' \subseteq Request
    BY <1>3, EntryAt DEF _responseTimeoutCheck, Entry
  <2> QED BY <1>3, <2>1, <2>2 DEF _responseTimeoutCheck, TypeOK
<1>4. CASE WalkStep
  BY <1>4, WalkStepType
<1>5. CASE stop
  <2>1. Ids(list) \subseteq Request
    BY EntryAt DEF Ids, Entry
  <2>2. <<>> \in Seq(Entry)
    BY EmptySeq
  <2> QED BY <1>5, <2>1, <2>2 DEF stop, TypeOK
<1>6. CASE CallbackReturns
  BY <1>6, Bounds DEF CallbackReturns, history, TypeOK
<1>7. CASE LinkChanges
  BY <1>7 DEF LinkChanges, history, TypeOK
<1>8. CASE TimerExpires
  <2>1. PICK i \in DOMAIN list : list' = [list EXCEPT ![i].expired = TRUE]
    BY <1>8 DEF TimerExpires, Expires
  <2>2. i \in 1..Len(list) /\ list[i] \in Entry
    BY EntryAt
  <2> [list[i] EXCEPT !.expired = TRUE] \in Entry
    BY <2>2, Overdue
  <2>3. list' = [list EXCEPT ![i] = [list[i] EXCEPT !.expired = TRUE]]
    BY <2>1
  <2>4. list' \in Seq(Entry)
    BY <2>2, <2>3, ExceptSeq DEF TypeOK
  <2> QED BY <1>8, <2>4 DEF TimerExpires, Expires, history, TypeOK
<1>9. CASE UNCHANGED vars
  BY <1>9 DEF vars, history, TypeOK
<1> QED BY <1>1, <1>2, <1>3, <1>4, <1>5, <1>6, <1>7, <1>8, <1>9 DEF Next

LEMMA TypeInit ==
    ASSUME Init
    PROVE  TypeOK
<1>1. <<>> \in Seq(Entry) /\ <<>> \in Seq(Octet)
  BY EmptySeq
<1>2. 0 \in 0..MaxRequests /\ 0 \in 0..MaxDepth
  BY Bounds
<1> QED BY <1>1, <1>2 DEF Init, TypeOK

(* Every variable keeps the range its comment in MavCommandQueue gives it. *)
THEOREM TypeCorrect == Spec => []TypeOK
<1>1. Init => TypeOK
  BY TypeInit
<1>2. TypeOK /\ [Next]_vars => TypeOK'
  BY TypeStep
<1> QED BY <1>1, <1>2, PTL DEF Spec

-----------------------------------------------------------------------------
(* The inductive invariant.  The properties count and compare; what makes  *)
(* them stable is where a request may be, that no request has two entries, *)
(* and that an entry's tryCount counts its transmissions.                  *)

DistinctIds == \A i, j \in DOMAIN list : list[i].id = list[j].id => i = j

(* A request is not made yet, or in the list, or reported, or discarded.   *)
Places ==
    \A q \in Request :
        /\ q > issued => q \notin Ids(list) /\ outcomes[q] = 0 /\ q \notin dropped /\ frames[q] = <<>>
        /\ q \in Ids(list) => outcomes[q] = 0 /\ q \notin dropped
        /\ (q <= issued /\ q \notin Ids(list)) =>
              (outcomes[q] = 1 /\ q \notin dropped) \/ (outcomes[q] = 0 /\ q \in dropped)

Sent ==
    /\ \A q \in Request : Len(frames[q]) <= MaxTries
    /\ \A i \in DOMAIN list :
          /\ Len(frames[list[i].id]) <= list[i].tryCount
          /\ list[i].cmd \notin Retryable => list[i].maxTries = 1 /\ list[i].tryCount = 1

Quiet == stopped => list = <<>>

IInv == TypeOK /\ DistinctIds /\ AcksUnambiguous /\ Places /\ Sent /\ Quiet

(* What the three ways the list changes leave in place.                    *)
LEMMA Shrinks ==
    ASSUME IInv, NEW i \in DOMAIN list, list' = RemoveAt(list, i)
    PROVE  /\ DistinctIds' /\ AcksUnambiguous'
           /\ Ids(list') = Ids(list) \ {list[i].id}
           /\ \A k \in DOMAIN list' : \E j \in DOMAIN list : list'[k] = list[j]
<1> USE DEF IInv
<1>1. Len(list) \in Nat /\ i \in 1..Len(list) /\ DOMAIN list = 1..Len(list)
  BY EntryAt
<1>2. /\ list' \in Seq(Entry) /\ Len(list') = Len(list) - 1
      /\ \A k \in 1..(Len(list) - 1) : list'[k] = list[IF k < i THEN k ELSE k + 1]
  BY RemoveAtProperties DEF TypeOK
<1>3. DOMAIN list' = 1..(Len(list) - 1)
  BY <1>1, <1>2, LenProperties
<1> DEFINE old(k) == IF k < i THEN k ELSE k + 1
<1>4. ASSUME NEW k \in DOMAIN list'
      PROVE  old(k) \in DOMAIN list /\ old(k) # i /\ list'[k] = list[old(k)]
  BY <1>1, <1>2, <1>3
<1>5. \A k, l \in DOMAIN list' : old(k) = old(l) => k = l
  BY <1>1, <1>3
<1>6. \A j \in DOMAIN list : j # i => \E k \in DOMAIN list' : old(k) = j
  <2> SUFFICES ASSUME NEW j \in DOMAIN list, j # i PROVE \E k \in DOMAIN list' : old(k) = j
    OBVIOUS
  <2>1. CASE j < i
    <3> j \in DOMAIN list' /\ old(j) = j
      BY <1>1, <1>3, <2>1
    <3> QED OBVIOUS
  <2>2. CASE j > i
    <3> j - 1 \in DOMAIN list' /\ old(j - 1) = j
      BY <1>1, <1>3, <2>2
    <3> QED OBVIOUS
  <2> QED BY <1>1, <2>1, <2>2
<1> HIDE DEF old
<1>7. DistinctIds'
  <2> SUFFICES ASSUME NEW k \in DOMAIN list', NEW l \in DOMAIN list', list'[k].id = list'[l].id
               PROVE  k = l
    BY DEF DistinctIds
  <2> QED BY <1>4, <1>5 DEF DistinctIds
<1>8. AcksUnambiguous'
  <2> SUFFICES ASSUME NEW k \in DOMAIN list', NEW l \in DOMAIN list', k # l,
                      list'[k].comp = list'[l].comp, list'[k].cmd = list'[l].cmd
               PROVE  list'[k].cmd \in Duplicable
    BY DEF AcksUnambiguous
  <2> QED BY <1>4, <1>5 DEF AcksUnambiguous
<1>9. Ids(list') = Ids(list) \ {list[i].id}
  <2>1. ASSUME NEW q \in Ids(list') PROVE q \in Ids(list) /\ q # list[i].id
    BY <2>1, <1>4 DEF Ids, DistinctIds
  <2>2. ASSUME NEW q \in Ids(list), q # list[i].id PROVE q \in Ids(list')
    <3>1. PICK j \in DOMAIN list : list[j].id = q
      BY DEF Ids
    <3>2. PICK k \in DOMAIN list' : old(k) = j
      BY <1>6, <2>2, <3>1
    <3> QED BY <1>4, <3>1, <3>2 DEF Ids
  <2> QED BY <2>1, <2>2
<1> QED BY <1>4, <1>7, <1>8, <1>9

LEMMA Grows ==
    ASSUME IInv, NEW e \in Entry, list' = Append(list, e), e.id \notin Ids(list),
           ~isPending(e.comp, e.cmd) \/ e.cmd \in Duplicable
    PROVE  /\ DistinctIds' /\ AcksUnambiguous'
           /\ Ids(list') = Ids(list) \cup {e.id}
           /\ \A k \in DOMAIN list' : list'[k] = e \/ (k \in DOMAIN list /\ list'[k] = list[k])
<1> USE DEF IInv
<1>1. Len(list) \in Nat /\ DOMAIN list = 1..Len(list)
  BY LenProperties DEF TypeOK
<1>2. /\ DOMAIN list' = 1..(Len(list) + 1)
      /\ \A k \in 1..Len(list) : list'[k] = list[k]
      /\ list'[Len(list) + 1] = e
  BY <1>1, AppendProperties, LenProperties DEF TypeOK
<1>3. ASSUME NEW k \in DOMAIN list'
      PROVE  (k = Len(list) + 1 /\ list'[k] = e) \/ (k \in DOMAIN list /\ list'[k] = list[k])
  BY <1>1, <1>2
<1>4. \A k \in DOMAIN list : list[k].id # e.id
  BY DEF Ids
<1>5. \A k \in DOMAIN list :
         list[k].comp = e.comp /\ list[k].cmd = e.cmd => e.cmd \in Duplicable
  BY DEF isPending
<1>6. DistinctIds'
  BY <1>3, <1>4 DEF DistinctIds
<1>7. AcksUnambiguous'
  BY <1>3, <1>5 DEF AcksUnambiguous
<1>8. Ids(list') = Ids(list) \cup {e.id}
  BY <1>1, <1>2, <1>3 DEF Ids
<1> QED BY <1>3, <1>6, <1>7, <1>8

LEMMA Stays ==
    ASSUME IInv, NEW i \in DOMAIN list, NEW e \in Entry, list' = [list EXCEPT ![i] = e],
           e.id = list[i].id, e.comp = list[i].comp, e.cmd = list[i].cmd
    PROVE  /\ DistinctIds' /\ AcksUnambiguous'
           /\ Ids(list') = Ids(list)
           /\ \A k \in DOMAIN list' : k \in DOMAIN list /\ list'[k] = IF k = i THEN e ELSE list[k]
<1>1. DOMAIN list' = DOMAIN list
  OBVIOUS
<1>2. \A k \in DOMAIN list : list'[k] = IF k = i THEN e ELSE list[k]
  OBVIOUS
<1>3. \A k \in DOMAIN list :
         list'[k].id = list[k].id /\ list'[k].comp = list[k].comp /\ list'[k].cmd = list[k].cmd
  BY <1>2
<1>4. DistinctIds' /\ AcksUnambiguous'
  BY <1>1, <1>3 DEF IInv, DistinctIds, AcksUnambiguous
<1>5. Ids(list') = Ids(list)
  BY <1>1, <1>3 DEF Ids
<1> QED BY <1>1, <1>2, <1>4, <1>5

-----------------------------------------------------------------------------
(* Each action preserves it.  TypeOK' comes from the lemmas above, the two *)
(* invariants of the list from the lemma of the way the list changes.      *)

LEMMA ListFacts ==
    ASSUME IInv
    PROVE  /\ \A i \in DOMAIN list : list[i] \in Entry /\ list[i].id \in Ids(list) /\ list[i].id \in Request
           /\ Ids(list) \subseteq Request
BY EntryAt DEF IInv, Ids, Entry

(* Nothing about an accounted request changes but the report of one that   *)
(* leaves the list.                                                        *)
LEMMA RemovalPreserves ==
    ASSUME IInv, TypeOK', NEW i \in DOMAIN list, list' = RemoveAt(list, i), Report(list[i].id),
           UNCHANGED <<stopped, issued, dropped, frames>>
    PROVE  IInv'
<1> DEFINE q0 == list[i].id
<1>1. /\ DistinctIds' /\ AcksUnambiguous' /\ Ids(list') = Ids(list) \ {q0}
      /\ \A k \in DOMAIN list' : \E j \in DOMAIN list : list'[k] = list[j]
  BY Shrinks
<1>2. q0 \in Ids(list) /\ q0 \in Request
  BY ListFacts
<1>3. outcomes' = [outcomes EXCEPT ![q0] = outcomes[q0] + 1]
  BY DEF Report
<1> HIDE DEF q0
<1>4. outcomes[q0] = 0 /\ q0 \notin dropped /\ q0 <= issued /\ q0 \in Nat
  BY <1>2, Bounds DEF IInv, Places, TypeOK, Request
<1>5. outcomes'[q0] = 1 /\ \A q \in Request : q # q0 => outcomes'[q] = outcomes[q]
  BY <1>2, <1>3, <1>4 DEF IInv, TypeOK
<1>6. Places'
  <2> SUFFICES ASSUME NEW q \in Request
               PROVE  /\ q > issued => q \notin Ids(list') /\ outcomes'[q] = 0 /\ q \notin dropped /\ frames[q] = <<>>
                      /\ q \in Ids(list') => outcomes'[q] = 0 /\ q \notin dropped
                      /\ (q <= issued /\ q \notin Ids(list')) =>
                            (outcomes'[q] = 1 /\ q \notin dropped) \/ (outcomes'[q] = 0 /\ q \in dropped)
    BY DEF Places
  <2>1. CASE q = q0
    <3>1. ~(q > issued)
      BY <1>4, <2>1 DEF IInv, TypeOK, Request
    <3> QED BY <1>1, <1>4, <1>5, <2>1, <3>1
  <2>2. CASE q # q0
    BY <1>1, <1>5, <2>2 DEF IInv, Places
  <2> QED BY <2>1, <2>2
<1>7. Sent'
  BY <1>1 DEF IInv, Sent
<1>8. Quiet'
  <2>1. ~stopped
    BY LenProperties DEF IInv, Quiet, TypeOK
  <2> QED BY <2>1 DEF Quiet
<1> QED BY <1>1, <1>6, <1>7, <1>8 DEF IInv

LEMMA sendWorkerPreserves ==
    ASSUME IInv, NEW c \in Comp \cup {AllComp}, NEW m \in Cmd, NEW fb \in BOOLEAN,
           sendWorker(c, m, fb)
    PROVE  IInv'
<1>1. TypeOK'
  BY sendWorkerType DEF IInv
<1>2. /\ issued' = issued + 1 /\ issued \in Nat /\ issued' \in Request
      /\ UNCHANGED stopped
  BY Bounds DEF sendWorker, IInv, TypeOK, Request
<1>3. /\ issued' \notin Ids(list) /\ outcomes[issued'] = 0 /\ issued' \notin dropped
      /\ frames[issued'] = <<>>
  BY <1>2 DEF IInv, Places
<1>4. \A q \in Request : q \in Nat /\ (q > issued' <=> (q > issued /\ q # issued'))
                                   /\ (q <= issued' <=> (q <= issued \/ q = issued'))
  BY <1>2 DEF Request
<1>5. CASE stopped /\ dropped' = dropped \cup {issued'} /\ UNCHANGED <<list, depth, outcomes, frames>>
  <2>1. Places'
    BY <1>2, <1>3, <1>4, <1>5 DEF IInv, Places
  <2>2. DistinctIds' /\ AcksUnambiguous' /\ Sent' /\ Quiet'
    BY <1>5, <1>2 DEF IInv, DistinctIds, AcksUnambiguous, Sent, Quiet
  <2> QED BY <1>1, <2>1, <2>2 DEF IInv
<1>6. CASE Report(issued') /\ UNCHANGED <<list, dropped, frames>>
  <2>1. outcomes'[issued'] = 1 /\ \A q \in Request : q # issued' => outcomes'[q] = outcomes[q]
    BY <1>2, <1>3, <1>6 DEF Report, IInv, TypeOK
  <2>2. Places'
    BY <1>2, <1>3, <1>4, <1>6, <2>1 DEF IInv, Places
  <2>3. DistinctIds' /\ AcksUnambiguous' /\ Sent' /\ Quiet'
    BY <1>6, <1>2 DEF IInv, DistinctIds, AcksUnambiguous, Sent, Quiet
  <2> QED BY <1>1, <2>2, <2>3 DEF IInv
<1>7. CASE /\ ~stopped /\ ~Refused(c, m) /\ list' = Append(list, NewEntry(c, m, fb))
           /\ Transmit(issued', 0) /\ UNCHANGED <<depth, outcomes, dropped>>
  <2> DEFINE e == NewEntry(c, m, fb)
  <2>1. /\ c \in Comp /\ (~isPending(c, m) \/ m \in Duplicable)
        /\ e \in Entry /\ e.id = issued' /\ e.comp = c /\ e.cmd = m
        /\ e.tryCount = 1 /\ (m \notin Retryable => e.maxTries = 1)
    <3>1. c \in Comp /\ (~isPending(c, m) \/ m \in Duplicable)
      BY <1>7 DEF Refused
    <3>2. e \in Entry
      BY <3>1, NewEntryType DEF IInv, sendWorker
    <3> QED BY <1>2, <3>1, <3>2 DEF NewEntry
  <2> HIDE DEF e
  <2>2. /\ DistinctIds' /\ AcksUnambiguous' /\ Ids(list') = Ids(list) \cup {issued'}
        /\ \A k \in DOMAIN list' : list'[k] = e \/ (k \in DOMAIN list /\ list'[k] = list[k])
    BY <1>3, <1>7, <2>1, Grows DEF e
  <2>3. /\ Len(frames'[issued']) <= 1
        /\ \A q \in Request : q # issued' => frames'[q] = frames[q]
    BY <1>2, <1>3, <1>7 DEF Transmit, IInv, TypeOK
  <2>4. Places'
    BY <1>2, <1>3, <1>4, <1>7, <2>2, <2>3 DEF IInv, Places
  <2>5. Sent'
    <3>1. \A q \in Request : Len(frames'[q]) <= MaxTries
      BY <2>3, Bounds DEF IInv, Sent
    <3>2. ASSUME NEW k \in DOMAIN list'
          PROVE  /\ Len(frames'[list'[k].id]) <= list'[k].tryCount
                 /\ list'[k].cmd \notin Retryable => list'[k].maxTries = 1 /\ list'[k].tryCount = 1
      <4>1. CASE list'[k] = e
        BY <2>1, <2>3, <4>1
      <4>2. CASE k \in DOMAIN list /\ list'[k] = list[k]
        BY <1>3, <2>3, <4>2, ListFacts DEF IInv, Sent
      <4> QED BY <2>2, <4>1, <4>2
    <3> QED BY <3>1, <3>2 DEF Sent
  <2>6. Quiet'
    BY <1>2, <1>7 DEF Quiet
  <2> QED BY <1>1, <2>2, <2>4, <2>5, <2>6 DEF IInv
<1> QED BY <1>5, <1>6, <1>7 DEF sendWorker

LEMMA sendCommandWithLambdaFallbackPreserves ==
    ASSUME IInv, NEW c \in Comp \cup {AllComp}, NEW m \in Cmd,
           sendCommandWithLambdaFallback(c, m)
    PROVE  IInv'
<1>1. CASE /\ issued < MaxRequests /\ issued' = issued + 1 /\ Report(issued')
           /\ UNCHANGED <<list, stopped, linkUp, supported, walk, dropped, frames, heard, due>>
  <2>1. TypeOK'
    BY sendCommandWithLambdaFallbackType DEF IInv
  <2>2. /\ issued \in Nat /\ issued' \in Request
        /\ \A q \in Request : q \in Nat /\ (q > issued' <=> (q > issued /\ q # issued'))
                                        /\ (q <= issued' <=> (q <= issued \/ q = issued'))
    BY <1>1, Bounds DEF IInv, TypeOK, Request
  <2>3. issued' \notin Ids(list) /\ outcomes[issued'] = 0 /\ issued' \notin dropped
        /\ frames[issued'] = <<>>
    BY <1>1, <2>2 DEF IInv, Places
  <2>4. outcomes'[issued'] = 1 /\ \A q \in Request : q # issued' => outcomes'[q] = outcomes[q]
    BY <1>1, <2>2, <2>3 DEF Report, IInv, TypeOK
  <2>5. Places'
    BY <1>1, <2>2, <2>3, <2>4 DEF IInv, Places
  <2>6. DistinctIds' /\ AcksUnambiguous' /\ Sent' /\ Quiet'
    BY <1>1 DEF IInv, DistinctIds, AcksUnambiguous, Sent, Quiet
  <2> QED BY <2>1, <2>5, <2>6 DEF IInv
<1>2. CASE sendWorker(c, m, TRUE) \/ sendWorker(c, m, FALSE)
  BY <1>2, sendWorkerPreserves
<1> QED BY <1>1, <1>2 DEF sendCommandWithLambdaFallback

(* An entry that is updated in place keeps its identity; the bound on its  *)
(* transmissions is the caller's business.                                 *)
LEMMA UpdatePreserves ==
    ASSUME IInv, TypeOK', NEW i \in DOMAIN list, NEW e \in Entry, list' = [list EXCEPT ![i] = e],
           e.id = list[i].id, e.comp = list[i].comp, e.cmd = list[i].cmd,
           UNCHANGED <<stopped, issued, outcomes, dropped>>,
           \A q \in Request : q # e.id => frames'[q] = frames[q],
           Len(frames'[e.id]) <= e.tryCount,
           e.cmd \notin Retryable => e.maxTries = 1 /\ e.tryCount = 1
    PROVE  IInv'
<1>1. /\ DistinctIds' /\ AcksUnambiguous' /\ Ids(list') = Ids(list)
      /\ \A k \in DOMAIN list' : k \in DOMAIN list /\ list'[k] = IF k = i THEN e ELSE list[k]
  BY Stays
<1>2. e.id \in Ids(list) /\ e.id \in Request /\ e.tryCount \in 1..MaxTries
  BY ListFacts DEF Entry
<1>3. ~(e.id > issued)
  BY <1>2 DEF IInv, Places
<1>4. Places'
  BY <1>1, <1>3 DEF IInv, Places
<1>5. Sent'
  <2>1. \A q \in Request : Len(frames'[q]) <= MaxTries
    <3> SUFFICES ASSUME NEW q \in Request PROVE Len(frames'[q]) <= MaxTries
      OBVIOUS
    <3>1. CASE q = e.id
      <4>1. Len(frames'[q]) \in Nat
        BY LenProperties DEF TypeOK
      <4> QED BY <1>2, <3>1, <4>1, Bounds
    <3>2. CASE q # e.id
      BY <3>2 DEF IInv, Sent
    <3> QED BY <3>1, <3>2
  <2>2. ASSUME NEW k \in DOMAIN list'
        PROVE  /\ Len(frames'[list'[k].id]) <= list'[k].tryCount
               /\ list'[k].cmd \notin Retryable => list'[k].maxTries = 1 /\ list'[k].tryCount = 1
    <3>1. CASE k = i
      BY <1>1, <3>1
    <3>2. CASE k # i
      <4>1. list'[k] = list[k] /\ k \in DOMAIN list
        BY <1>1, <3>2
      <4>2. list[k].id # e.id /\ list[k].id \in Request
        BY <3>2, <4>1, ListFacts DEF IInv, DistinctIds
      <4> QED BY <4>1, <4>2 DEF IInv, Sent
    <3> QED BY <3>1, <3>2
  <2> QED BY <2>1, <2>2 DEF Sent
<1>6. Quiet'
  <2>1. ~stopped
    BY LenProperties DEF IInv, Quiet, TypeOK
  <2> QED BY <2>1 DEF Quiet
<1> QED BY <1>1, <1>4, <1>5, <1>6 DEF IInv

LEMMA handleCommandAckPreserves ==
    ASSUME IInv, NEW c \in Comp, NEW m \in Cmd, handleCommandAck(c, m)
    PROVE  IInv'
<1>1. TypeOK'
  BY handleCommandAckType DEF IInv
<1>2. ASSUME NEW r \in Result, AckResult(c, m, r) PROVE IInv'
  <2>1. PICK i \in DOMAIN list : list' = RemoveAt(list, i) /\ Report(list[i].id)
    BY <1>2 DEF AckResult
  <2>2. UNCHANGED <<stopped, issued, dropped, frames>>
    BY <1>2 DEF AckResult
  <2> QED BY <1>1, <2>1, <2>2, RemovalPreserves
<1>3. ASSUME AckInProgress(c, m) PROVE IInv'
  <2>1. PICK i \in DOMAIN list :
            IF m \in ProgressOnly
            THEN /\ list' = RemoveAt(list, i)
                 /\ Report(list[i].id)
            ELSE /\ list' = [list EXCEPT ![i].maxTries = 1, ![i].expired = FALSE]
                 /\ UNCHANGED outcomes
    BY <1>3 DEF AckInProgress
  <2>2. UNCHANGED <<stopped, issued, dropped, frames>>
    BY <1>3 DEF AckInProgress
  <2>3. CASE m \in ProgressOnly
    BY <1>1, <2>1, <2>2, <2>3, RemovalPreserves
  <2>4. CASE m \notin ProgressOnly
    <3> DEFINE e == [list[i] EXCEPT !.maxTries = 1, !.expired = FALSE]
    <3>1. list[i] \in Entry
      BY ListFacts
    <3>2. /\ e \in Entry /\ e.id = list[i].id /\ e.comp = list[i].comp /\ e.cmd = list[i].cmd
          /\ e.tryCount = list[i].tryCount /\ e.maxTries = 1
      BY <3>1, NoMoreTries DEF Entry
    <3>3. list' = [list EXCEPT ![i] = e]
      BY <2>1, <2>4
    <3>4. /\ Len(frames'[e.id]) <= e.tryCount
          /\ e.cmd \notin Retryable => e.maxTries = 1 /\ e.tryCount = 1
      BY <2>2, <3>2 DEF IInv, Sent
    <3> HIDE DEF e
    <3> QED BY <1>1, <2>1, <2>2, <2>4, <3>2, <3>3, <3>4, UpdatePreserves
  <2> QED BY <2>3, <2>4
<1> QED BY <1>2, <1>3 DEF handleCommandAck

LEMMA WalkStepPreserves ==
    ASSUME IInv, WalkStep
    PROVE  IInv'
<1>1. TypeOK'
  BY WalkStepType DEF IInv
<1>2. UNCHANGED <<stopped, issued, dropped>>
  BY DEF WalkStep
<1>3. CASE UNCHANGED <<list, depth, outcomes, frames, due>>
  BY <1>1, <1>2, <1>3 DEF IInv, DistinctIds, AcksUnambiguous, Places, Sent, Quiet
<1>4. CASE walk > 0 /\ walk <= Len(list) /\ _sendFromList(walk)
  <2>1. walk \in DOMAIN list
    BY <1>4, LenProperties DEF IInv, TypeOK
  <2>2. CASE GiveUp(walk)
    BY <1>1, <1>2, <2>1, <2>2, RemovalPreserves DEF GiveUp
  <2>3. CASE Resend(walk)
    <3> DEFINE old == list[walk]
               e == [old EXCEPT !.tryCount = old.tryCount + 1]
    <3>1. old \in Entry /\ old.id \in Request /\ old.tryCount \in 1..MaxTries
          /\ old.maxTries \in 1..MaxTries
      BY <2>1, ListFacts DEF Entry
    <3>2. old.tryCount + 1 \in 1..MaxTries /\ old.maxTries # 1
      BY <2>3, <3>1, Bounds DEF Resend
    <3>3. /\ e \in Entry /\ e.id = old.id /\ e.comp = old.comp /\ e.cmd = old.cmd
          /\ e.tryCount = old.tryCount + 1
      BY <3>1, <3>2, OneMoreTry DEF Entry
    <3>4. list' = [list EXCEPT ![walk] = e]
      BY <2>3 DEF Resend
    <3>5. Transmit(old.id, old.tryCount) /\ UNCHANGED outcomes
      BY <2>3 DEF Resend
    <3>6. /\ Len(frames[old.id]) <= old.tryCount
          /\ old.cmd \in Retryable
      BY <2>1, <3>2 DEF IInv, Sent
    <3> HIDE DEF e, old
    <3>7. /\ \A q \in Request : q # old.id => frames'[q] = frames[q]
          /\ Len(frames'[old.id]) <= old.tryCount + 1
      <4>1. frames[old.id] \in Seq(Octet) /\ Confirmation(old.tryCount) \in Octet
        <5>1. frames[old.id] \in Seq(Octet)
          BY <3>1 DEF IInv, TypeOK
        <5>2. Confirmation(old.tryCount) \in Octet
          BY <3>1 DEF Confirmation, Octet
        <5> QED BY <5>1, <5>2
      <4>2. Len(Append(frames[old.id], Confirmation(old.tryCount))) = Len(frames[old.id]) + 1
        BY <4>1, AppendProperties
      <4>3. Len(frames[old.id]) \in Nat
        BY <4>1, LenProperties
      <4> QED BY <3>1, <3>5, <3>6, <4>2, <4>3 DEF Transmit, IInv, TypeOK
    <3>8. old = list[walk]
      BY DEF old
    <3> QED BY <1>1, <1>2, <2>1, <3>3, <3>4, <3>5, <3>6, <3>7, <3>8, UpdatePreserves
  <2> QED BY <1>4, <2>2, <2>3 DEF _sendFromList
<1> QED BY <1>3, <1>4 DEF WalkStep

LEMMA StopPreserves ==
    ASSUME IInv, TypeOK', stop
    PROVE  IInv'
<1>1. /\ list' = <<>> /\ stopped' = TRUE /\ dropped' = dropped \cup Ids(list)
      /\ UNCHANGED <<issued, outcomes, frames>>
  BY DEF stop
<1>2. DOMAIN list' = {} /\ Ids(list') = {}
  BY <1>1, EmptySeq DEF Ids
<1>3. DistinctIds' /\ AcksUnambiguous' /\ Quiet'
  BY <1>1, <1>2 DEF DistinctIds, AcksUnambiguous, Quiet
<1>4. Places'
  BY <1>1, <1>2 DEF IInv, Places
<1>5. Sent'
  BY <1>1, <1>2 DEF IInv, Sent
<1> QED BY <1>3, <1>4, <1>5 DEF IInv

LEMMA TimerExpiresPreserves ==
    ASSUME IInv, TypeOK', TimerExpires
    PROVE  IInv'
<1>1. PICK i \in DOMAIN list : list' = [list EXCEPT ![i].expired = TRUE]
  BY DEF TimerExpires, Expires
<1> DEFINE e == [list[i] EXCEPT !.expired = TRUE]
<1>2. list[i] \in Entry
  BY ListFacts
<1>3. /\ e \in Entry /\ e.id = list[i].id /\ e.comp = list[i].comp /\ e.cmd = list[i].cmd
      /\ e.tryCount = list[i].tryCount /\ e.maxTries = list[i].maxTries
  BY <1>2, Overdue DEF Entry
<1>4. list' = [list EXCEPT ![i] = e]
  BY <1>1
<1>5. UNCHANGED <<stopped, issued, outcomes, dropped, frames>>
  BY DEF TimerExpires, Expires, history
<1>6. /\ Len(frames'[e.id]) <= e.tryCount
      /\ e.cmd \notin Retryable => e.maxTries = 1 /\ e.tryCount = 1
  BY <1>3, <1>5 DEF IInv, Sent
<1> HIDE DEF e
<1> QED BY <1>3, <1>4, <1>5, <1>6, UpdatePreserves

(* The bookkeeping of the queue, from which the properties follow.         *)
THEOREM Inductive == Spec => []IInv
<1>1. Init => IInv
  <2> SUFFICES ASSUME Init PROVE IInv
    OBVIOUS
  <2>1. TypeOK
    BY TypeInit
  <2>2. DOMAIN list = {} /\ Ids(list) = {} /\ Len(<<>>) = 0
    BY EmptySeq DEF Init, Ids
  <2>3. Places
    BY <2>2 DEF Init, Places, Request
  <2>4. Sent
    BY <2>2, Bounds DEF Init, Sent
  <2> QED BY <2>1, <2>2, <2>3, <2>4 DEF Init, IInv, DistinctIds, AcksUnambiguous, Quiet
<1>2. IInv /\ [Next]_vars => IInv'
  <2> SUFFICES ASSUME IInv, [Next]_vars PROVE IInv'
    OBVIOUS
  <2>1. TypeOK'
    BY TypeStep DEF IInv
  <2>2. ASSUME NEW c \in Comp \cup {AllComp}, NEW m \in Cmd,
               sendCommand(c, m) \/ sendCommandWithLambdaFallback(c, m)
        PROVE  IInv'
    BY <2>2, sendWorkerPreserves, sendCommandWithLambdaFallbackPreserves DEF sendCommand
  <2>3. ASSUME NEW c \in Comp, NEW m \in Cmd, handleCommandAck(c, m) PROVE IInv'
    BY <2>3, handleCommandAckPreserves
  <2>4. CASE WalkStep
    BY <2>4, WalkStepPreserves
  <2>5. CASE stop
    BY <2>1, <2>5, StopPreserves
  <2>6. CASE TimerExpires
    BY <2>1, <2>6, TimerExpiresPreserves
  <2>7. CASE _responseTimeoutCheck \/ CallbackReturns \/ LinkChanges \/ UNCHANGED vars
    <3>1. UNCHANGED <<list, stopped, issued, outcomes, dropped, frames>>
      BY <2>7 DEF _responseTimeoutCheck, CallbackReturns, LinkChanges, vars, history
    <3> QED BY <2>1, <3>1 DEF IInv, DistinctIds, AcksUnambiguous, Places, Sent, Quiet
  <2> QED BY <2>2, <2>3, <2>4, <2>5, <2>6, <2>7 DEF Next
<1> QED BY <1>1, <1>2, PTL DEF Spec

-----------------------------------------------------------------------------
(* The properties.                                                         *)

(* AcksUnambiguous: no two entries await the same component and command,   *)
(* unless _canBeDuplicated allows it, so an ack has one addressee.         *)
THEOREM AckHasOneAddressee == Spec => []AcksUnambiguous
<1>1. IInv => AcksUnambiguous
  BY DEF IInv
<1> QED BY <1>1, Inductive, PTL

(* ExactlyOneOutcome: no request is lost and none is reported twice, how-  *)
(* ever callbacks, acks, retries and stop() interleave.                    *)
THEOREM NoRequestLostOrReportedTwice == Spec => []ExactlyOneOutcome
<1>1. ASSUME IInv, NEW q \in Request
      PROVE  Copies(q) = IF q \in Ids(list) THEN 1 ELSE 0
  <2> DEFINE places == {i \in DOMAIN list : list[i].id = q}
  <2>1. CASE q \in Ids(list)
    <3>1. PICK i \in DOMAIN list : list[i].id = q
      BY <2>1 DEF Ids
    <3>2. places = {i}
      BY <1>1, <3>1 DEF IInv, DistinctIds
    <3> QED BY <2>1, <3>2, FS_Singleton DEF Copies
  <2>2. CASE q \notin Ids(list)
    <3>1. places = {}
      BY <2>2 DEF Ids
    <3> QED BY <2>2, <3>1, FS_EmptySet DEF Copies
  <2> QED BY <2>1, <2>2
<1>2. IInv => ExactlyOneOutcome
  <2> SUFFICES ASSUME IInv, NEW q \in Request
               PROVE  Copies(q) + outcomes[q] + (IF q \in dropped THEN 1 ELSE 0)
                         = IF q <= issued THEN 1 ELSE 0
    BY DEF ExactlyOneOutcome
  <2>1. Copies(q) = IF q \in Ids(list) THEN 1 ELSE 0
    BY <1>1
  <2>2. q > issued \/ q <= issued
    BY DEF IInv, TypeOK, Request
  <2>3. ~(q > issued /\ q <= issued)
    BY DEF IInv, TypeOK, Request
  <2> QED BY <2>1, <2>2, <2>3 DEF IInv, Places
<1> QED BY <1>2, Inductive, PTL

(* TransmissionsBounded: kMaxRetryCount bounds the transmissions of every  *)
(* request, and an unsafe one is transmitted once.                         *)
THEOREM UnsafeCommandsSentOnce == Spec => []TransmissionsBounded
<1>1. IInv => TransmissionsBounded
  BY DEF IInv, Sent, TransmissionsBounded
<1> QED BY <1>1, Inductive, PTL

-----------------------------------------------------------------------------
(* What the vehicle was told and what it told the queue.                   *)

(* A request the vehicle has acknowledged has no try left.                 *)
Told ==
    /\ \A q \in heard : q <= issued
    /\ \A i \in DOMAIN list : list[i].id \in heard => list[i].maxTries = 1

(* Any step after which the entries of the list are old ones, or ones with *)
(* a fresh id, or updates that keep id and tries.                          *)
LEMMA ToldStays ==
    ASSUME Told, UNCHANGED heard, issued \in Nat, issued' = issued \/ issued' = issued + 1,
           heard \subseteq Request,
           \A k \in DOMAIN list' :
              \/ list'[k].id = issued + 1
              \/ \E j \in DOMAIN list : list'[k].id = list[j].id /\ list'[k].maxTries = list[j].maxTries
    PROVE  Told'
<1>1. \A q \in heard : q \in Nat /\ q <= issued /\ q # issued + 1
  BY DEF Told, Request
<1>2. \A q \in heard' : q <= issued'
  BY <1>1
<1>3. ASSUME NEW k \in DOMAIN list', list'[k].id \in heard'
      PROVE  list'[k].maxTries = 1
  BY <1>1, <1>3 DEF Told
<1> QED BY <1>2, <1>3 DEF Told

LEMMA sendWorkerTold ==
    ASSUME IInv, Told, NEW c \in Comp \cup {AllComp}, NEW m \in Cmd, NEW fb \in BOOLEAN,
           sendWorker(c, m, fb)
    PROVE  Told'
<1>1. issued \in Nat /\ issued' = issued + 1 /\ UNCHANGED heard /\ heard \subseteq Request
  BY DEF sendWorker, IInv, TypeOK
<1>2. CASE UNCHANGED list
  BY <1>1, <1>2, ToldStays
<1>3. CASE ~Refused(c, m) /\ list' = Append(list, NewEntry(c, m, fb))
  <2> DEFINE e == NewEntry(c, m, fb)
  <2>1. e \in Entry /\ e.id = issued + 1
    <3>1. c \in Comp
      BY <1>3 DEF Refused
    <3> QED BY <3>1, NewEntryType DEF NewEntry, IInv, sendWorker
  <2> HIDE DEF e
  <2>2. list' = Append(list, e) /\ Len(list) \in Nat /\ DOMAIN list = 1..Len(list)
    BY <1>3, LenProperties DEF e, IInv, TypeOK
  <2>3. ASSUME NEW k \in DOMAIN list'
        PROVE  list'[k] = e \/ (k \in DOMAIN list /\ list'[k] = list[k])
    BY <2>1, <2>2, AppendProperties, LenProperties DEF IInv, TypeOK
  <2> QED BY <1>1, <2>1, <2>3, ToldStays
<1> QED BY <1>2, <1>3 DEF sendWorker

LEMMA handleCommandAckTold ==
    ASSUME IInv, Told, NEW c \in Comp, NEW m \in Cmd, handleCommandAck(c, m)
    PROVE  Told'
<1>1. issued \in Nat /\ UNCHANGED issued /\ heard \subseteq Request
  <2>1. issued \in Nat /\ heard \subseteq Request
    BY DEF IInv, TypeOK
  <2>2. CASE \E r \in Result : AckResult(c, m, r)
    BY <2>1, <2>2 DEF AckResult
  <2>3. CASE AckInProgress(c, m)
    BY <2>1, <2>3 DEF AckInProgress
  <2> QED BY <2>2, <2>3 DEF handleCommandAck
<1>2. ASSUME NEW r \in Result, AckResult(c, m, r) PROVE Told'
  <2>1. PICK i \in DOMAIN list : list' = RemoveAt(list, i)
    BY <1>2 DEF AckResult
  <2>2. UNCHANGED heard
    BY <1>2 DEF AckResult
  <2> QED BY <1>1, <2>1, <2>2, Shrinks, ToldStays
<1>3. ASSUME AckInProgress(c, m) PROVE Told'
  <2>1. PICK i \in DOMAIN list :
            /\ heard' = heard \cup {list[i].id}
            /\ IF m \in ProgressOnly
               THEN list' = RemoveAt(list, i)
               ELSE list' = [list EXCEPT ![i].maxTries = 1, ![i].expired = FALSE]
    BY <1>3 DEF AckInProgress
  <2>2. list[i].id \in Ids(list) /\ list[i].id \in Request /\ list[i] \in Entry
    BY ListFacts
  <2>3. list[i].id <= issued
    BY <1>1, <2>2 DEF IInv, Places, Request
  <2>4. \A q \in heard' : q <= issued'
    BY <1>1, <2>1, <2>3 DEF Told
  <2>5. CASE m \in ProgressOnly
    <3>1. ASSUME NEW k \in DOMAIN list', list'[k].id \in heard' PROVE list'[k].maxTries = 1
      <4>1. /\ Ids(list') = Ids(list) \ {list[i].id}
            /\ \E j \in DOMAIN list : list'[k] = list[j]
        BY <2>1, <2>5, Shrinks
      <4>2. list'[k].id # list[i].id
        BY <4>1 DEF Ids
      <4> QED BY <2>1, <3>1, <4>1, <4>2 DEF Told
    <3> QED BY <2>4, <3>1 DEF Told
  <2>6. CASE m \notin ProgressOnly
    <3> DEFINE e == [list[i] EXCEPT !.maxTries = 1, !.expired = FALSE]
    <3>1. e.id = list[i].id /\ e.maxTries = 1
      BY <2>2 DEF Entry
    <3>2. list' = [list EXCEPT ![i] = e]
      BY <2>1, <2>6
    <3> HIDE DEF e
    <3>3. ASSUME NEW k \in DOMAIN list', list'[k].id \in heard' PROVE list'[k].maxTries = 1
      <4>1. CASE k = i
        BY <3>1, <3>2, <4>1
      <4>2. CASE k # i
        <5>1. k \in DOMAIN list /\ list'[k] = list[k]
          BY <3>2, <4>2
        <5>2. list[k].id # list[i].id
          BY <4>2, <5>1 DEF IInv, DistinctIds
        <5> QED BY <2>1, <3>3, <5>1, <5>2 DEF Told
      <4> QED BY <4>1, <4>2
    <3> QED BY <2>4, <3>3 DEF Told
  <2> QED BY <2>5, <2>6
<1> QED BY <1>2, <1>3 DEF handleCommandAck

LEMMA WalkStepTold ==
    ASSUME IInv, Told, WalkStep
    PROVE  Told'
<1>1. issued \in Nat /\ UNCHANGED <<issued, heard>> /\ heard \subseteq Request
  BY DEF WalkStep, IInv, TypeOK
<1>2. CASE UNCHANGED list
  BY <1>1, <1>2, ToldStays
<1>3. CASE walk > 0 /\ walk <= Len(list) /\ _sendFromList(walk)
  <2>1. walk \in DOMAIN list
    BY <1>3, LenProperties DEF IInv, TypeOK
  <2>2. CASE GiveUp(walk)
    <3>1. list' = RemoveAt(list, walk)
      BY <2>2 DEF GiveUp
    <3> QED BY <1>1, <2>1, <3>1, Shrinks, ToldStays
  <2>3. CASE Resend(walk)
    <3>1. list[walk] \in Entry
      BY <2>1, ListFacts
    <3>2. list' = [list EXCEPT ![walk].tryCount = list[walk].tryCount + 1]
      BY <2>3 DEF Resend
    <3>3. ASSUME NEW k \in DOMAIN list'
          PROVE  k \in DOMAIN list /\ list'[k].id = list[k].id /\ list'[k].maxTries = list[k].maxTries
      BY <2>1, <3>1, <3>2 DEF Entry
    <3> QED BY <1>1, <3>3, ToldStays
  <2> QED BY <1>3, <2>2, <2>3 DEF _sendFromList
<1> QED BY <1>2, <1>3 DEF WalkStep

LEMMA HeardIsTold == Spec => []Told
<1>1. Init => Told
  BY EmptySeq DEF Init, Told
<1>2. IInv /\ Told /\ [Next]_vars => Told'
  <2> SUFFICES ASSUME IInv, Told, [Next]_vars PROVE Told'
    OBVIOUS
  <2>1. issued \in Nat /\ heard \subseteq Request
    BY DEF IInv, TypeOK
  <2>2. ASSUME NEW c \in Comp \cup {AllComp}, NEW m \in Cmd,
               sendCommand(c, m) \/ sendCommandWithLambdaFallback(c, m)
        PROVE  Told'
    <3>1. CASE issued' = issued + 1 /\ UNCHANGED <<list, heard>>
      BY <2>1, <3>1, ToldStays
    <3>2. CASE sendWorker(c, m, FALSE) \/ sendWorker(c, m, TRUE)
      BY <3>2, sendWorkerTold
    <3> QED BY <2>2, <3>1, <3>2 DEF sendCommand, sendCommandWithLambdaFallback
  <2>3. ASSUME NEW c \in Comp, NEW m \in Cmd, handleCommandAck(c, m) PROVE Told'
    BY <2>3, handleCommandAckTold
  <2>4. CASE WalkStep
    BY <2>4, WalkStepTold
  <2>5. CASE stop
    <3>1. list' = <<>> /\ UNCHANGED <<issued, heard>>
      BY <2>5 DEF stop
    <3> QED BY <3>1, EmptySeq DEF Told
  <2>6. CASE TimerExpires
    <3>1. PICK i \in DOMAIN list : list' = [list EXCEPT ![i].expired = TRUE]
      BY <2>6 DEF TimerExpires, Expires
    <3>2. UNCHANGED <<issued, heard>>
      BY <2>6 DEF TimerExpires, Expires, history
    <3>3. list[i] \in Entry
      BY ListFacts
    <3>4. ASSUME NEW k \in DOMAIN list'
          PROVE  k \in DOMAIN list /\ list'[k].id = list[k].id /\ list'[k].maxTries = list[k].maxTries
      BY <3>1, <3>3 DEF Entry
    <3> QED BY <2>1, <3>2, <3>4, ToldStays
  <2>7. CASE _responseTimeoutCheck \/ CallbackReturns \/ LinkChanges \/ UNCHANGED vars
    <3>1. UNCHANGED <<list, issued, heard>>
      BY <2>7 DEF _responseTimeoutCheck, CallbackReturns, LinkChanges, vars, history
    <3> QED BY <3>1 DEF Told
  <2> QED BY <2>2, <2>3, <2>4, <2>5, <2>6, <2>7 DEF Next
<1> QED BY <1>1, <1>2, Inductive, PTL DEF Spec

(* QuietWhenTold: a command the vehicle is working on is never transmitted *)
(* again, and stop() ends transmissions and reports for good.              *)
THEOREM NothingSentWhenToldNotTo == Spec => QuietWhenTold
<1> DEFINE Silent(q) == /\ q \in heard => frames'[q] = frames[q]
                        /\ (stopped /\ q <= issued) => frames'[q] = frames[q] /\ outcomes'[q] = outcomes[q]
<1>1. IInv /\ Told /\ [Next]_vars => [\A q \in Request : Silent(q)]_vars
  <2> SUFFICES ASSUME IInv, Told, Next, NEW q \in Request PROVE Silent(q)
    BY DEF vars
  <2>1. /\ issued \in Nat /\ q \in Nat /\ (q \in heard => q <= issued)
        /\ frames \in [Request -> Seq(Octet)] /\ outcomes \in [Request -> Nat]
    BY DEF IInv, TypeOK, Told, Request
  <2>2. stopped => DOMAIN list = {} /\ Len(list) = 0
    BY EmptySeq DEF IInv, Quiet
  <2>3. ASSUME NEW p \in Nat, p = issued + 1, q <= issued
        PROVE  q # p
    BY <2>1, <2>3
  <2>4. ASSUME NEW c \in Comp \cup {AllComp}, NEW m \in Cmd,
               sendCommand(c, m) \/ sendCommandWithLambdaFallback(c, m)
        PROVE  Silent(q)
    <3>1. \/ frames' = frames \/ frames' = [frames EXCEPT ![issued + 1] = Append(@, Confirmation(0))]
      BY <2>4 DEF sendCommand, sendCommandWithLambdaFallback, sendWorker, Transmit
    <3>2. \/ outcomes' = outcomes \/ outcomes' = [outcomes EXCEPT ![issued + 1] = @ + 1]
      BY <2>4 DEF sendCommand, sendCommandWithLambdaFallback, sendWorker, Report
    <3> QED BY <2>1, <2>3, <3>1, <3>2
  <2>5. ASSUME NEW c \in Comp, NEW m \in Cmd, handleCommandAck(c, m) PROVE Silent(q)
    <3>1. UNCHANGED frames /\ DOMAIN list # {}
      BY <2>5 DEF handleCommandAck, AckResult, AckInProgress
    <3> QED BY <2>2, <3>1
  <2>6. CASE WalkStep
    <3>1. CASE UNCHANGED <<list, depth, outcomes, frames, due>>
      BY <3>1
    <3>2. CASE ~stopped /\ walk > 0 /\ walk <= Len(list) /\ _sendFromList(walk)
      <4>1. walk \in DOMAIN list
        BY <3>2, LenProperties DEF IInv, TypeOK
      <4>2. CASE GiveUp(walk)
        BY <3>2, <4>2 DEF GiveUp
      <4>3. CASE Resend(walk)
        <5>1. list[walk].id \notin heard
          BY <4>1, <4>3, ListFacts DEF Resend, Told, Entry
        <5>2. frames' = frames \/ frames' = [frames EXCEPT ![list[walk].id] = Append(@, Confirmation(list[walk].tryCount))]
          BY <4>3 DEF Resend, Transmit
        <5> QED BY <2>1, <3>2, <5>1, <5>2
      <4> QED BY <3>2, <4>2, <4>3 DEF _sendFromList
    <3> QED BY <2>6, <3>1, <3>2 DEF WalkStep
  <2>7. CASE _responseTimeoutCheck \/ stop \/ CallbackReturns \/ LinkChanges \/ TimerExpires
    <3>1. UNCHANGED <<frames, outcomes>>
      BY <2>7 DEF _responseTimeoutCheck, stop, CallbackReturns, LinkChanges, TimerExpires, Expires, history
    <3> QED BY <3>1
  <2> QED BY <2>4, <2>5, <2>6, <2>7 DEF Next
<1> QED BY <1>1, Inductive, HeardIsTold, PTL DEF Spec, QuietWhenTold

-----------------------------------------------------------------------------
(* The periodic check and what was overdue when it began.                  *)

(* While a check runs, the entries it still owes a visit lie at or below   *)
(* its index and are still overdue; a request made meanwhile is not owed.  *)
Ahead ==
    /\ due \subseteq 1..issued
    /\ walk > 0 => \A k \in DOMAIN list : list[k].id \in due => k <= walk /\ list[k].expired

(* Every entry of the list belongs to a request made before.               *)
LEMMA IdsIssued ==
    ASSUME IInv, NEW i \in DOMAIN list
    PROVE  list[i].id \in 1..issued
<1>1. list[i].id \in Ids(list) /\ list[i].id \in Request /\ issued \in Nat
  BY ListFacts DEF IInv, TypeOK
<1> QED BY <1>1 DEF IInv, Places, Request

LEMMA sendWorkerAhead ==
    ASSUME IInv, Ahead, NEW c \in Comp \cup {AllComp}, NEW m \in Cmd, NEW fb \in BOOLEAN,
           sendWorker(c, m, fb)
    PROVE  Ahead'
<1>1. issued \in Nat /\ issued' = issued + 1 /\ UNCHANGED <<walk, due>>
  BY DEF sendWorker, IInv, TypeOK
<1>2. due' \subseteq 1..issued'
  BY <1>1 DEF Ahead
<1>3. CASE UNCHANGED list
  BY <1>1, <1>2, <1>3 DEF Ahead
<1>4. CASE list' = Append(list, NewEntry(c, m, fb))
  <2>1. NewEntry(c, m, fb).id \notin due
    BY <1>1 DEF Ahead, NewEntry
  <2>2. ASSUME NEW k \in DOMAIN list', k \notin DOMAIN list PROVE list'[k] = NewEntry(c, m, fb)
    BY <1>4, <2>2 DEF IInv, TypeOK
  <2>3. ASSUME NEW k \in DOMAIN list PROVE list'[k] = list[k]
    BY <1>4 DEF IInv, TypeOK
  <2> QED BY <1>1, <1>2, <2>1, <2>2, <2>3 DEF Ahead
<1> QED BY <1>3, <1>4 DEF sendWorker

(* A visit of the walk settles the entry at its index and moves on.        *)
LEMMA WalkStepAhead ==
    ASSUME IInv, Ahead, WalkStep
    PROVE  /\ Ahead'
           /\ walk' = 0 /\ ~stopped => due' \cap Ids(list') = {}
<1>1. /\ walk \in Nat /\ walk > 0 /\ UNCHANGED issued /\ list \in Seq(Entry)
      /\ Len(list) \in Nat /\ DOMAIN list = 1..Len(list)
  BY LenProperties DEF WalkStep, IInv, TypeOK
<1>2. CASE stopped /\ walk' = 0 /\ UNCHANGED <<list, depth, outcomes, frames, due>>
  BY <1>1, <1>2 DEF Ahead
<1>3. CASE walk > Len(list) /\ walk' = Len(list) /\ UNCHANGED <<list, depth, outcomes, frames, due>>
  <2>1. walk' = 0 => Ids(list') = {}
    BY <1>1, <1>3 DEF Ids
  <2>2. Ahead'
    BY <1>1, <1>3 DEF Ahead
  <2> QED BY <2>1, <2>2
<1>4. ASSUME walk <= Len(list), walk' = walk - 1, due' \subseteq due,
             \A k \in DOMAIN list' : list'[k].id \in due' => k < walk /\ list'[k].expired
      PROVE  Ahead' /\ (walk' = 0 => due' \cap Ids(list') = {})
  <2>1. list' \in Seq(Entry)
    BY WalkStepType DEF IInv, TypeOK
  <2>2. DOMAIN list' \subseteq Nat \ {0}
    BY <2>1, LenProperties
  <2>3. Ahead'
    <3>1. due' \subseteq 1..issued'
      BY <1>1, <1>4 DEF Ahead
    <3>2. ASSUME NEW k \in DOMAIN list', list'[k].id \in due' PROVE k <= walk' /\ list'[k].expired
      <4>1. k \in Nat /\ k < walk /\ list'[k].expired
        BY <1>4, <2>2, <3>2
      <4> QED BY <1>1, <1>4, <4>1
    <3> QED BY <3>1, <3>2 DEF Ahead
  <2>4. walk' = 0 => due' \cap Ids(list') = {}
    BY <1>1, <1>4, <2>2 DEF Ids
  <2> QED BY <2>3, <2>4
<1>5. CASE walk <= Len(list) /\ walk' = walk - 1 /\ ~list[walk].expired /\ UNCHANGED <<list, due>>
  <2>1. ASSUME NEW k \in DOMAIN list, list[k].id \in due PROVE k < walk /\ list[k].expired
    BY <1>1, <1>5, <2>1 DEF Ahead
  <2> QED BY <1>4, <1>5, <2>1
<1>6. CASE walk <= Len(list) /\ walk' = walk - 1 /\ _sendFromList(walk) /\ due' = due \ {list[walk].id}
  <2>1. walk \in DOMAIN list
    BY <1>1, <1>6
  <2>2. CASE GiveUp(walk)
    <3>1. list' = RemoveAt(list, walk)
      BY <2>2 DEF GiveUp
    <3>2. /\ DOMAIN list' = 1..(Len(list) - 1)
          /\ \A k \in 1..(Len(list) - 1) : list'[k] = list[IF k < walk THEN k ELSE k + 1]
      BY <1>1, <2>1, <3>1, RemoveAtProperties, LenProperties
    <3>3. ASSUME NEW k \in DOMAIN list', list'[k].id \in due' PROVE k < walk /\ list'[k].expired
      <4>1. CASE k < walk
        BY <1>1, <1>6, <3>2, <3>3, <4>1 DEF Ahead
      <4>2. CASE ~(k < walk)
        <5>1. k + 1 \in DOMAIN list /\ list'[k] = list[k + 1] /\ ~(k + 1 <= walk)
          BY <1>1, <3>2, <4>2
        <5> QED BY <1>1, <1>6, <3>3, <5>1 DEF Ahead
      <4> QED BY <4>1, <4>2
    <3> QED BY <1>4, <1>6, <3>3
  <2>3. CASE Resend(walk)
    <3>1. list[walk] \in Entry
      BY <2>1, ListFacts
    <3>2. list' = [list EXCEPT ![walk].tryCount = list[walk].tryCount + 1]
      BY <2>3 DEF Resend
    <3>3. ASSUME NEW k \in DOMAIN list'
          PROVE  k \in DOMAIN list /\ list'[k].id = list[k].id /\ list'[k].expired = list[k].expired
      BY <2>1, <3>1, <3>2 DEF Entry
    <3>4. ASSUME NEW k \in DOMAIN list', list'[k].id \in due' PROVE k < walk /\ list'[k].expired
      BY <1>1, <1>6, <3>3, <3>4 DEF Ahead
    <3> QED BY <1>4, <1>6, <3>4
  <2> QED BY <1>6, <2>2, <2>3 DEF _sendFromList
<1> QED BY <1>2, <1>3, <1>5, <1>6 DEF WalkStep

LEMMA AheadStep ==
    ASSUME IInv, Ahead, [Next]_vars
    PROVE  Ahead'
<1>1. issued \in Nat
  BY DEF IInv, TypeOK
<1>2. ASSUME NEW c \in Comp \cup {AllComp}, NEW m \in Cmd,
             sendCommand(c, m) \/ sendCommandWithLambdaFallback(c, m)
      PROVE  Ahead'
  <2>1. CASE issued' = issued + 1 /\ UNCHANGED <<list, walk, due>>
    BY <1>1, <2>1 DEF Ahead
  <2>2. CASE sendWorker(c, m, FALSE) \/ sendWorker(c, m, TRUE)
    BY <2>2, sendWorkerAhead
  <2> QED BY <1>2, <2>1, <2>2 DEF sendCommand, sendCommandWithLambdaFallback
<1>3. ASSUME NEW c \in Comp, NEW m \in Cmd, handleCommandAck(c, m) PROVE Ahead'
  <2>1. walk' = 0 /\ UNCHANGED <<issued, due>>
    BY <1>3 DEF handleCommandAck, AckResult, AckInProgress, EventLoop
  <2> QED BY <2>1 DEF Ahead
<1>4. CASE _responseTimeoutCheck
  <2>1. /\ UNCHANGED <<list, issued>> /\ walk' = Len(list)
        /\ due' = {list[i].id : i \in {j \in DOMAIN list : list[j].expired}}
    BY <1>4 DEF _responseTimeoutCheck
  <2>2. due' \subseteq 1..issued'
    BY <2>1, IdsIssued
  <2>3. ASSUME NEW k \in DOMAIN list, list[k].id \in due' PROVE k <= walk' /\ list[k].expired
    <3>1. PICK j \in DOMAIN list : list[j].id = list[k].id /\ list[j].expired
      BY <2>1, <2>3
    <3>2. j = k
      BY <3>1 DEF IInv, DistinctIds
    <3> QED BY <2>1, <3>1, <3>2, LenProperties DEF IInv, TypeOK
  <2> QED BY <2>1, <2>2, <2>3 DEF Ahead
<1>5. CASE WalkStep
  BY <1>5, WalkStepAhead
<1>6. CASE stop
  <2>1. list' = <<>> /\ UNCHANGED <<issued, due>>
    BY <1>6 DEF stop
  <2> QED BY <2>1, EmptySeq DEF Ahead
<1>7. CASE TimerExpires
  <2>1. PICK i \in DOMAIN list : list' = [list EXCEPT ![i].expired = TRUE]
    BY <1>7 DEF TimerExpires, Expires
  <2>2. UNCHANGED <<issued, walk, due>>
    BY <1>7 DEF TimerExpires, Expires, history
  <2>3. list[i] \in Entry
    BY ListFacts
  <2>4. ASSUME NEW k \in DOMAIN list'
        PROVE  k \in DOMAIN list /\ list'[k].id = list[k].id /\ (list[k].expired => list'[k].expired)
    BY <2>1, <2>3 DEF Entry
  <2> QED BY <2>2, <2>4 DEF Ahead
<1>8. CASE CallbackReturns \/ LinkChanges \/ UNCHANGED vars
  <2>1. UNCHANGED <<list, issued, walk, due>>
    BY <1>8 DEF CallbackReturns, LinkChanges, vars, history
  <2> QED BY <2>1 DEF Ahead
<1> QED BY <1>2, <1>3, <1>4, <1>5, <1>6, <1>7, <1>8 DEF Next

LEMMA CheckKeepsPlace == Spec => []Ahead
<1>1. Init => Ahead
  BY EmptySeq DEF Init, Ahead
<1>2. IInv /\ Ahead /\ [Next]_vars => Ahead'
  BY AheadStep
<1> QED BY <1>1, <1>2, Inductive, PTL DEF Spec

(* WalkMissesNothing: a periodic check that runs to its end has resent or  *)
(* given up every entry that was overdue when it began, whatever the       *)
(* callbacks it made appended, or stopped, under its index.                *)
THEOREM CheckVisitsAllOverdue == Spec => WalkMissesNothing
<1>1. ASSUME IInv, Ahead, Next, walk > 0, walk' = 0, ~stopped
      PROVE  due' \cap Ids(list') = {}
  <2>1. walk \in Nat
    BY <1>1 DEF IInv, TypeOK
  <2>2. WalkStep
    <3>1. UNCHANGED walk \/ walk = 0 \/ WalkStep
      BY <1>1 DEF Next, sendCommand, sendCommandWithLambdaFallback, sendWorker, handleCommandAck, AckResult,
            AckInProgress, EventLoop, _responseTimeoutCheck, stop, CallbackReturns, LinkChanges, TimerExpires, Expires
    <3> QED BY <1>1, <2>1, <3>1
  <2> QED BY <1>1, <2>2, WalkStepAhead
<1>2. IInv /\ Ahead /\ [Next]_vars => [(walk > 0 /\ walk' = 0 /\ ~stopped) => due' \cap Ids(list') = {}]_vars
  BY <1>1
<1> QED BY <1>2, Inductive, CheckKeepsPlace, PTL DEF Spec, WalkMissesNothing

(***************************************************************************)
(* MavCommandQueue implements RequestLifecycle: what a requester sees of   *)
(* the queue (RequestStatus) starts as, and takes only steps of, the       *)
(* abstract service.                                                       *)
(***************************************************************************)
Status == [q \in Request |-> RequestStatus(q)]

(* The three things that can happen to a request.                          *)

LEMMA Making ==
    ASSUME NEW q0 \in Request, NEW s,
           RequestStatus(q0) = "new", RequestStatus(q0)' = s,
           s \in {"answered"} \cup (IF stopped THEN {"discarded"} ELSE {"waiting"}),
           \A q \in Request : q # q0 => RequestStatus(q)' = RequestStatus(q),
           UNCHANGED stopped
    PROVE  Lifecycle!Next
<1>1. Status' = [Status EXCEPT ![q0] = s]
  BY DEF Status
<1>2. Status[q0] = "new"
  BY DEF Status
<1>3. Lifecycle!Make(q0)
  BY <1>1, <1>2 DEF Lifecycle!Make, Status
<1> QED BY <1>3 DEF Lifecycle!Next

LEMMA Answering ==
    ASSUME NEW q0 \in Request, ~stopped, UNCHANGED stopped,
           RequestStatus(q0) = "waiting", RequestStatus(q0)' = "answered",
           \A q \in Request : q # q0 => RequestStatus(q)' = RequestStatus(q)
    PROVE  Lifecycle!Next
<1>1. Status' = [q \in Request |-> IF q \in {q0} THEN "answered" ELSE Status[q]]
  BY DEF Status
<1>2. \A q \in {q0} : Status[q] = "waiting"
  BY DEF Status
<1>3. Lifecycle!Answer({q0})
  BY <1>1, <1>2 DEF Lifecycle!Answer, Status
<1> QED BY <1>3 DEF Lifecycle!Next

LEMMA Resting ==
    ASSUME \A q \in Request : RequestStatus(q)' = RequestStatus(q), UNCHANGED stopped
    PROVE  UNCHANGED Lifecycle!vars
BY DEF Lifecycle!vars

(* RequestStatus where IInv says a request is.                             *)
LEMMA StatusOf ==
    ASSUME IInv, NEW q \in Request
    PROVE  /\ q \in Nat /\ issued \in Nat
           /\ RequestStatus(q) = "new" <=> q > issued
           /\ RequestStatus(q) = "waiting" <=> q \in Ids(list)
           /\ RequestStatus(q) = "discarded" <=> q \in dropped
           /\ RequestStatus(q) = "answered" <=> (q <= issued /\ q \notin Ids(list) /\ q \notin dropped)
<1>1. q \in Nat /\ issued \in Nat
  BY DEF IInv, TypeOK, Request
<1>2. (q > issued \/ q <= issued) /\ ~(q > issued /\ q <= issued)
  BY <1>1
<1> QED BY <1>1, <1>2 DEF IInv, Places, RequestStatus

(* A request is the only one to be affected when the history of no other   *)
(* changes.                                                                *)
LEMMA Others ==
    ASSUME NEW q \in Request, (q > issued') <=> (q > issued),
           (q \in Ids(list)') <=> (q \in Ids(list)), (q \in dropped') <=> (q \in dropped)
    PROVE  RequestStatus(q)' = RequestStatus(q)
BY DEF RequestStatus

LEMMA IssuingStep ==
    ASSUME IInv, NEW q0 \in Request, q0 = issued + 1, issued' = q0, UNCHANGED stopped,
           \/ /\ stopped /\ dropped' = dropped \cup {q0}
              /\ UNCHANGED list
           \/ UNCHANGED <<list, dropped>>
           \/ ~stopped /\ Ids(list)' = Ids(list) \cup {q0} /\ UNCHANGED dropped
    PROVE  Lifecycle!Next
<1>1. /\ issued \in Nat /\ q0 \in Nat
      /\ \A q \in Request : q \in Nat /\ (q # q0 => (q > issued' <=> q > issued))
  BY DEF IInv, TypeOK, Request
<1>2. RequestStatus(q0) = "new"
  BY <1>1, StatusOf
<1>3. ASSUME NEW q \in Request, q # q0 PROVE RequestStatus(q)' = RequestStatus(q)
  BY <1>1, <1>3, Others DEF Ids
<1>4. q0 \notin Ids(list) /\ q0 \notin dropped /\ ~(q0 > issued')
  BY <1>1, <1>2, StatusOf DEF IInv, Places
<1>5. RequestStatus(q0)' \in {"answered"} \cup (IF stopped THEN {"discarded"} ELSE {"waiting"})
  <2>1. CASE stopped /\ dropped' = dropped \cup {q0} /\ UNCHANGED list
    BY <1>4, <2>1 DEF RequestStatus, Ids
  <2>2. CASE UNCHANGED <<list, dropped>>
    BY <1>4, <2>2 DEF RequestStatus, Ids
  <2>3. CASE ~stopped /\ Ids(list)' = Ids(list) \cup {q0} /\ UNCHANGED dropped
    BY <1>4, <2>3 DEF RequestStatus
  <2> QED BY <2>1, <2>2, <2>3
<1> QED BY <1>2, <1>3, <1>5, Making

LEMMA RemovalStep ==
    ASSUME IInv, NEW i \in DOMAIN list, NEW q0 \in Request, q0 = list[i].id,
           list' = RemoveAt(list, i), UNCHANGED <<stopped, issued, dropped>>
    PROVE  Lifecycle!Next
<1>1. Ids(list)' = Ids(list) \ {q0}
  BY Shrinks
<1>2. q0 \in Ids(list)
  BY ListFacts
<1>3. RequestStatus(q0) = "waiting"
  BY <1>2, StatusOf
<1>4. ~stopped
  BY LenProperties DEF IInv, Quiet, TypeOK
<1>5. ~(q0 > issued) /\ q0 \notin dropped
  BY <1>2 DEF IInv, Places
<1>6. RequestStatus(q0)' = "answered"
  BY <1>1, <1>5 DEF RequestStatus
<1>7. \A q \in Request : q # q0 => RequestStatus(q)' = RequestStatus(q)
  BY <1>1, Others
<1> QED BY <1>3, <1>4, <1>6, <1>7, Answering

(* A step that leaves the identities in the list alone is not visible.     *)
LEMMA InvisibleStep ==
    ASSUME Ids(list)' = Ids(list), UNCHANGED <<stopped, issued, dropped>>
    PROVE  UNCHANGED Lifecycle!vars
<1>1. \A q \in Request : RequestStatus(q)' = RequestStatus(q)
  BY Others
<1> QED BY <1>1, Resting

LEMMA StopStep ==
    ASSUME IInv, stop
    PROVE  Lifecycle!Next
<1>1. /\ ~stopped /\ stopped' = TRUE /\ dropped' = dropped \cup Ids(list) /\ issued' = issued
      /\ Ids(list)' = {}
  BY EmptySeq DEF stop, Ids
<1>2. \A q \in Request :
         RequestStatus(q)' = IF RequestStatus(q) = "waiting" THEN "discarded" ELSE RequestStatus(q)
  <2> SUFFICES ASSUME NEW q \in Request
               PROVE  RequestStatus(q)' =
                         IF RequestStatus(q) = "waiting" THEN "discarded" ELSE RequestStatus(q)
    OBVIOUS
  <2>1. CASE q \in Ids(list)
    <3>1. ~(q > issued) /\ RequestStatus(q) = "waiting"
      BY <2>1, StatusOf DEF IInv, Places
    <3> QED BY <1>1, <2>1, <3>1 DEF RequestStatus
  <2>2. CASE q \notin Ids(list)
    <3>1. RequestStatus(q) # "waiting"
      BY <2>2, StatusOf
    <3> QED BY <1>1, <2>2, <3>1 DEF RequestStatus
  <2> QED BY <2>1, <2>2
<1>3. Status' = [q \in Request |-> IF Status[q] = "waiting" THEN "discarded" ELSE Status[q]]
  BY <1>2 DEF Status
<1>4. Lifecycle!Close
  BY <1>1, <1>3 DEF Lifecycle!Close, Status
<1> QED BY <1>4 DEF Lifecycle!Next

-----------------------------------------------------------------------------
LEMMA sendWorkerStep ==
    ASSUME IInv, NEW c \in Comp \cup {AllComp}, NEW m \in Cmd, NEW fb \in BOOLEAN,
           sendWorker(c, m, fb)
    PROVE  Lifecycle!Next
<1>1. /\ issued' = issued + 1 /\ issued + 1 \in Request /\ UNCHANGED stopped
  BY Bounds DEF sendWorker, IInv, TypeOK, Request
<1>2. issued + 1 \notin Ids(list)
  BY <1>1 DEF IInv, Places, TypeOK
<1>3. PICK q0 \in Request : q0 = issued + 1
  BY <1>1
<1>4. CASE ~stopped /\ ~Refused(c, m) /\ list' = Append(list, NewEntry(c, m, fb)) /\ UNCHANGED dropped
  <2> DEFINE e == NewEntry(c, m, fb)
  <2>1. c \in Comp /\ (~isPending(c, m) \/ m \in Duplicable)
    BY <1>4 DEF Refused
  <2>2. e \in Entry
    BY <2>1, NewEntryType DEF IInv, sendWorker
  <2>3. e.id = q0 /\ e.comp = c /\ e.cmd = m
    BY <1>3, <2>2 DEF NewEntry
  <2> HIDE DEF e
  <2>4. Ids(list') = Ids(list) \cup {q0}
    BY <1>2, <1>3, <1>4, <2>1, <2>2, <2>3, Grows DEF e
  <2> QED BY <1>1, <1>3, <1>4, <2>4, IssuingStep DEF Ids
<1>5. CASE \/ stopped /\ dropped' = dropped \cup {issued'} /\ UNCHANGED list
           \/ UNCHANGED <<list, dropped>>
  BY <1>1, <1>3, <1>5, IssuingStep
<1> QED BY <1>4, <1>5 DEF sendWorker

LEMMA handleCommandAckStep ==
    ASSUME IInv, NEW c \in Comp, NEW m \in Cmd, handleCommandAck(c, m)
    PROVE  Lifecycle!Next \/ UNCHANGED Lifecycle!vars
<1>1. PICK i \in DOMAIN list :
          \/ list' = RemoveAt(list, i)
          \/ list' = [list EXCEPT ![i].maxTries = 1, ![i].expired = FALSE]
  BY DEF handleCommandAck, AckResult, AckInProgress
<1>2. UNCHANGED <<stopped, issued, dropped>>
  BY DEF handleCommandAck, AckResult, AckInProgress
<1>3. list[i] \in Entry /\ list[i].id \in Request
  BY ListFacts
<1>4. CASE list' = RemoveAt(list, i)
  BY <1>2, <1>3, <1>4, RemovalStep
<1>5. CASE list' = [list EXCEPT ![i].maxTries = 1, ![i].expired = FALSE]
  <2> DEFINE e == [list[i] EXCEPT !.maxTries = 1, !.expired = FALSE]
  <2>1. /\ e \in Entry /\ e.id = list[i].id /\ e.comp = list[i].comp /\ e.cmd = list[i].cmd
    BY <1>3, NoMoreTries DEF Entry
  <2>2. list' = [list EXCEPT ![i] = e]
    BY <1>5
  <2> HIDE DEF e
  <2> QED BY <1>2, <2>1, <2>2, Stays, InvisibleStep DEF Ids
<1> QED BY <1>1, <1>4, <1>5

LEMMA WalkStepStep ==
    ASSUME IInv, WalkStep
    PROVE  Lifecycle!Next \/ UNCHANGED Lifecycle!vars
<1>1. UNCHANGED <<stopped, issued, dropped>>
  BY DEF WalkStep
<1>2. CASE UNCHANGED list
  BY <1>1, <1>2, InvisibleStep DEF Ids
<1>3. CASE walk > 0 /\ walk <= Len(list) /\ _sendFromList(walk)
  <2>1. walk \in DOMAIN list
    BY <1>3, LenProperties DEF IInv, TypeOK
  <2>2. list[walk] \in Entry /\ list[walk].id \in Request
    BY <2>1, ListFacts
  <2>3. CASE GiveUp(walk)
    BY <1>1, <2>1, <2>2, <2>3, RemovalStep DEF GiveUp
  <2>4. CASE Resend(walk)
    <3> DEFINE e == [list[walk] EXCEPT !.tryCount = list[walk].tryCount + 1]
    <3>1. list[walk].tryCount + 1 \in 1..MaxTries
      BY <2>2, <2>4, Bounds DEF Resend, Entry
    <3>2. /\ e \in Entry /\ e.id = list[walk].id /\ e.comp = list[walk].comp /\ e.cmd = list[walk].cmd
      BY <2>2, <3>1, OneMoreTry DEF Entry
    <3>3. list' = [list EXCEPT ![walk] = e]
      BY <2>4 DEF Resend
    <3> HIDE DEF e
    <3> QED BY <1>1, <2>1, <3>2, <3>3, Stays, InvisibleStep DEF Ids
  <2> QED BY <1>3, <2>3, <2>4 DEF _sendFromList
<1> QED BY <1>2, <1>3 DEF WalkStep

(* IsRequestLifecycle: the queue is a request-with-callback service that   *)
(* answers each request once, or discards it when the vehicle is closed.   *)
THEOREM QueueIsRequestLifecycle == Spec => IsRequestLifecycle
<1>1. Init => Lifecycle!Init
  <2> SUFFICES ASSUME Init PROVE Lifecycle!Init
    OBVIOUS
  <2>1. \A q \in Request : RequestStatus(q) = "new"
    <3>1. \A q \in Request : q > issued
      BY Bounds DEF Init, Request
    <3>2. Ids(list) = {} /\ dropped = {}
      BY EmptySeq DEF Init, Ids
    <3> QED BY <3>1, <3>2 DEF RequestStatus
  <2> QED BY <2>1 DEF Init, Lifecycle!Init
<1>2. IInv /\ [Next]_vars => [Lifecycle!Next]_(Lifecycle!vars)
  <2> SUFFICES ASSUME IInv, [Next]_vars PROVE Lifecycle!Next \/ UNCHANGED Lifecycle!vars
    OBVIOUS
  <2>1. ASSUME NEW c \in Comp \cup {AllComp}, NEW m \in Cmd,
               sendCommand(c, m) \/ sendCommandWithLambdaFallback(c, m)
        PROVE  Lifecycle!Next
    <3>1. CASE \E fb \in BOOLEAN : sendWorker(c, m, fb)
      BY <3>1, sendWorkerStep
    <3>2. CASE /\ issued < MaxRequests /\ issued' = issued + 1
               /\ UNCHANGED <<list, stopped, dropped>>
      <4>1. issued + 1 \in Request
        BY <3>2, Bounds DEF IInv, TypeOK, Request
      <4>2. PICK q0 \in Request : q0 = issued + 1
        BY <4>1
      <4> QED BY <3>2, <4>2, IssuingStep
    <3> QED BY <2>1, <3>1, <3>2 DEF sendCommand, sendCommandWithLambdaFallback
  <2>2. ASSUME NEW c \in Comp, NEW m \in Cmd, handleCommandAck(c, m)
        PROVE  Lifecycle!Next \/ UNCHANGED Lifecycle!vars
    BY <2>2, handleCommandAckStep
  <2>3. CASE WalkStep
    BY <2>3, WalkStepStep
  <2>4. CASE stop
    BY <2>4, StopStep
  <2>5. CASE TimerExpires
    <3>1. PICK i \in DOMAIN list : list' = [list EXCEPT ![i].expired = TRUE]
      BY <2>5 DEF TimerExpires, Expires
    <3> DEFINE e == [list[i] EXCEPT !.expired = TRUE]
    <3>2. /\ e \in Entry /\ e.id = list[i].id /\ e.comp = list[i].comp /\ e.cmd = list[i].cmd
      BY ListFacts, Overdue DEF Entry
    <3>3. list' = [list EXCEPT ![i] = e] /\ UNCHANGED <<stopped, issued, dropped>>
      BY <2>5, <3>1 DEF TimerExpires, Expires, history
    <3> HIDE DEF e
    <3> QED BY <3>2, <3>3, Stays, InvisibleStep DEF Ids
  <2>6. CASE _responseTimeoutCheck \/ CallbackReturns \/ LinkChanges \/ UNCHANGED vars
    <3>1. UNCHANGED <<list, stopped, issued, dropped>>
      BY <2>6 DEF _responseTimeoutCheck, CallbackReturns, LinkChanges, vars, history
    <3> QED BY <3>1, InvisibleStep DEF Ids
  <2> QED BY <2>1, <2>2, <2>3, <2>4, <2>5, <2>6 DEF Next
<1> QED BY <1>1, <1>2, Inductive, PTL DEF Spec, IsRequestLifecycle, Lifecycle!Spec
=============================================================================
