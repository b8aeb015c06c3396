-------------------- MODULE RequestMessageCoordinatorProofs --------------------
(***************************************************************************)
(* The coordinator, for any number of components, messages, requesters and *)
(* requests: the pointer the command queue holds is good, no request is    *)
(* stranded, every answer is delivered once, and the coordinator           *)
(* implements RequestLifecycle.                                            *)
(***************************************************************************)
EXTENDS RequestMessageCoordinator, SequenceTheorems, FunctionTheorems, FiniteSetTheorems, TLAPS

(* The maps: what is allocated is active or queued, and not both.          *)
Maps ==
    /\ DOMAIN info = active \cup Queued /\ active \cap Queued = {}
    /\ DOMAIN info \subseteq 1..issued

(* One active request per component, and the requests of its line in order *)
(* behind it.                                                              *)
Lines ==
    /\ \A p, q \in active : info[p].comp = info[q].comp => p = q
    /\ \A c \in Comp : /\ IsInjective(queue[c])
                       /\ \A q \in Range(queue[c]) : info[q].comp = c
                       /\ queue[c] # <<>> => \E q \in active : info[q].comp = c

(* What a request waits for: in its line, for its turn; active, for its    *)
(* command to end or, that acked, for the message and against the clock.   *)
Awaiting ==
    /\ \A q \in DOMAIN info :
          /\ info[q].acked <=> info[q].wait # "off"
          /\ info[q].acked => q \in active
    /\ \A q \in active :
          IF info[q].acked THEN ~info[q].received /\ ~stopped
                           ELSE stopped \/ command[info[q].comp] = q

(* A stopped coordinator has no command pending, and discards all it has.  *)
Stopping ==
    /\ discarded \subseteq 1..issued
    /\ IF stopped THEN DOMAIN info \subseteq discarded /\ command = [c \in Comp |-> NoCommand]
                  ELSE discarded = {}

(* A request that has left the maps has one handler call on the stack, or  *)
(* behind it, unless it was discarded or cancelled.                        *)
Frames ==
    /\ \A i \in DOMAIN stack :
          /\ stack[i].req \in (1..issued) \ (DOMAIN info \cup discarded)
          /\ stack[i].ownHandler <=> stack[i].req \notin cancelled
          /\ called[stack[i].req] = IF stack[i].running THEN 1 ELSE 0
    /\ \A i, j \in DOMAIN stack : stack[i].req = stack[j].req => i = j

Calls ==
    /\ cancelled \subseteq 1..issued
    /\ \A q \in DOMAIN info : info[q].ownHandler <=> q \notin cancelled
    /\ \A q \in Request : called[q] \in {0, 1}
    /\ \A q \in Request : q > issued \/ q \in DOMAIN info \cup discarded \cup cancelled => called[q] = 0
    /\ \A q \in (1..issued) \ (DOMAIN info \cup discarded \cup cancelled) :
          called[q] = 1 \/ \E i \in DOMAIN stack : stack[i].req = q

(* TypeOK, with the lines still of requests that need not be allocated.    *)
Types ==
    /\ info \in [DOMAIN info -> Info] /\ active \subseteq DOMAIN info
    /\ queue \in [Comp -> Seq(Request)]
    /\ command \in [Comp -> Request \cup {NoCommand, External}]
    /\ linkUp \in BOOLEAN /\ stopped \in BOOLEAN
    /\ stack \in Seq(Frame)
    /\ issued \in 0..MaxRequests
    /\ discarded \subseteq Request /\ cancelled \subseteq Request /\ tooLate \subseteq Request
    /\ called \in [Request -> Nat]

IInv == Types /\ Maps /\ Lines /\ Awaiting /\ PendingCommandOwnerAlive /\ Stopping /\ Frames /\ Calls

-----------------------------------------------------------------------------
(* Sequences without repetition.                                           *)

LEMMA RangeIs ==
    ASSUME NEW S, NEW s \in Seq(S)
    PROVE  /\ Len(s) \in Nat /\ DOMAIN s = 1..Len(s)
           /\ \A x : x \in Range(s) <=> \E i \in 1..Len(s) : s[i] = x
BY LenProperties DEF Range

LEMMA HeadTailOfLine ==
    ASSUME NEW S, NEW s \in Seq(S), s # <<>>, IsInjective(s)
    PROVE  /\ Head(s) \in Range(s) /\ Head(s) = s[1] /\ Tail(s) \in Seq(S) /\ IsInjective(Tail(s))
           /\ Range(Tail(s)) = Range(s) \ {Head(s)}
<1> DEFINE t == Tail(s)
<1>1. /\ t \in Seq(S) /\ Len(t) = Len(s) - 1 /\ Len(s) \in Nat \ {0}
      /\ \A i \in 1..Len(t) : t[i] = s[i + 1]
  BY HeadTailProperties, EmptySeq
<1>2. Head(s) = s[1]
  OBVIOUS
<1> HIDE DEF t
<1>3. DOMAIN s = 1..Len(s) /\ DOMAIN t = 1..Len(t) /\ Len(t) \in Nat
  BY <1>1, LenProperties
<1>4. IsInjective(t)
  <2> SUFFICES ASSUME NEW i \in 1..Len(t), NEW j \in 1..Len(t), t[i] = t[j] PROVE i = j
    BY <1>3 DEF IsInjective
  <2>1. i + 1 \in 1..Len(s) /\ j + 1 \in 1..Len(s) /\ s[i + 1] = s[j + 1]
    BY <1>1, <1>3
  <2>2. i + 1 = j + 1
    BY <1>3, <2>1 DEF IsInjective
  <2> QED BY <2>2
<1>5. 1 \in 1..Len(s) /\ Head(s) \in Range(s)
  BY <1>1, <1>2, <1>3 DEF Range
<1>6. ASSUME NEW x \in Range(t) PROVE x \in Range(s) /\ x # Head(s)
  <2>1. PICK i \in 1..Len(t) : t[i] = x
    BY <1>1, RangeIs
  <2>2. i + 1 \in 1..Len(s) /\ s[i + 1] = x /\ i + 1 # 1
    BY <1>1, <1>3, <2>1
  <2>3. x # s[1]
    BY <1>3, <1>5, <2>2 DEF IsInjective
  <2> QED BY <1>2, <2>2, <2>3, RangeIs
<1>7. ASSUME NEW x \in Range(s), x # Head(s) PROVE x \in Range(t)
  <2>1. PICK i \in 1..Len(s) : s[i] = x
    BY RangeIs
  <2>2. i - 1 \in 1..Len(t) /\ i = (i - 1) + 1
    BY <1>1, <1>2, <1>7, <2>1
  <2>3. t[i - 1] = x
    BY <1>1, <2>1, <2>2
  <2> QED BY <1>1, <2>2, <2>3, RangeIs
<1>8. Range(t) = Range(s) \ {Head(s)}
  BY <1>6, <1>7
<1> QED BY <1>1, <1>2, <1>4, <1>5, <1>8 DEF t

LEMMA LongerLine ==
    ASSUME NEW S, NEW s \in Seq(S), NEW x \in S, x \notin Range(s), IsInjective(s)
    PROVE  /\ Append(s, x) \in Seq(S) /\ IsInjective(Append(s, x)) /\ Append(s, x) # <<>>
           /\ Range(Append(s, x)) = Range(s) \cup {x}
<1> DEFINE t == Append(s, x)
<1>1. /\ t \in Seq(S) /\ Len(t) = Len(s) + 1 /\ t[Len(s) + 1] = x
      /\ \A i \in 1..Len(s) : t[i] = s[i]
  BY AppendProperties
<1> HIDE DEF t
<1>2. /\ Len(s) \in Nat /\ DOMAIN s = 1..Len(s) /\ DOMAIN t = 1..(Len(s) + 1)
      /\ \A i \in 1..Len(s) : s[i] \in Range(s)
  BY <1>1, RangeIs
<1>3. IsInjective(t)
  <2> SUFFICES ASSUME NEW i \in 1..(Len(s) + 1), NEW j \in 1..(Len(s) + 1), t[i] = t[j] PROVE i = j
    BY <1>2 DEF IsInjective
  <2>1. CASE i \in 1..Len(s) /\ j \in 1..Len(s)
    <3>1. s[i] = s[j]
      BY <1>1, <2>1
    <3> QED BY <1>2, <2>1, <3>1 DEF IsInjective
  <2>2. CASE i = Len(s) + 1 \/ j = Len(s) + 1
    BY <1>1, <1>2, <2>2
  <2> QED BY <1>2, <2>1, <2>2
<1>4. \A y : y \in Range(t) <=> y \in Range(s) \cup {x}
  <2>1. \A y : y \in Range(s) <=> \E i \in 1..Len(s) : s[i] = y
    BY RangeIs
  <2>2. \A y : y \in Range(t) <=> \E i \in 1..(Len(s) + 1) : t[i] = y
    BY <1>1, <1>2, RangeIs
  <2>3. \A i \in 1..(Len(s) + 1) : i \in 1..Len(s) \/ i = Len(s) + 1
    BY <1>2
  <2>4. Len(s) + 1 \in 1..(Len(s) + 1) /\ \A i \in 1..Len(s) : i \in 1..(Len(s) + 1)
    BY <1>2
  <2> QED BY <1>1, <2>1, <2>2, <2>3, <2>4
<1>5. t # <<>>
  BY <1>1, <1>2, EmptySeq
<1> QED BY <1>1, <1>3, <1>4, <1>5 DEF t

LEMMA Concatenated ==
    ASSUME NEW S, NEW s \in Seq(S), NEW t \in Seq(S)
    PROVE  /\ s \o t \in Seq(S) /\ Len(s \o t) = Len(s) + Len(t) /\ Len(s) \in Nat /\ Len(t) \in Nat
           /\ \A i \in 1..Len(s) : (s \o t)[i] = s[i]
           /\ \A k \in 1..Len(t) : (s \o t)[Len(s) + k] = t[k]
<1>1. Len(s) \in Nat /\ Len(t) \in Nat
  BY LenProperties
<1> QED BY <1>1, ConcatProperties

LEMMA LastDropped ==
    ASSUME NEW S, NEW s \in Seq(S), s # <<>>
    PROVE  LET t == SubSeq(s, 1, Len(s) - 1)
           IN  /\ Len(s) \in Nat /\ Len(s) # 0 /\ t \in Seq(S) /\ DOMAIN t = 1..(Len(s) - 1)
               /\ \A i \in 1..(Len(s) - 1) : t[i] = s[i]
<1>1. Len(s) \in Nat /\ Len(s) # 0 /\ \A i \in 1..Len(s) : s[i] \in S
  BY EmptySeq, LenProperties, ElementOfSeq
<1>2. PICK n \in Nat : n = Len(s) - 1
  BY <1>1
<1>3. \A i \in 1..n : s[i] \in S
  BY <1>1, <1>2
<1>4. PICK t : t = SubSeq(s, 1, n)
  OBVIOUS
<1>5. t \in Seq(S) /\ Len(t) = n /\ \A i \in 1..n : t[i] = s[i]
  <2>1. 1 \in Int /\ n \in Int
    OBVIOUS
  <2>2. /\ t \in Seq(S) /\ Len(t) = IF 1 <= n THEN n - 1 + 1 ELSE 0
        /\ \A i \in 1..(n - 1 + 1) : t[i] = s[1 + i - 1]
    BY <1>3, <1>4, <2>1, SubSeqProperties
  <2>3. n - 1 + 1 = n /\ \A i \in 1..n : 1 + i - 1 = i
    OBVIOUS
  <2> QED BY <2>2, <2>3
<1>6. DOMAIN t = 1..n
  BY <1>5, LenProperties
<1> QED BY <1>1, <1>2, <1>4, <1>5, <1>6

LEMMA PushedAbove ==
    ASSUME NEW S, NEW s \in Seq(S), NEW x \in S, NEW t \in Seq(S), NEW u, u = s \o <<x>> \o t
    PROVE  /\ u \in Seq(S) /\ Len(u) = Len(s) + 1 + Len(t) /\ Len(s) \in Nat /\ Len(t) \in Nat
           /\ \A i \in 1..Len(s) : u[i] = s[i]
           /\ u[Len(s) + 1] = x
           /\ \A k \in 1..Len(t) : u[Len(s) + 1 + k] = t[k]
<1>1. PICK v : v = s \o <<x>>
  OBVIOUS
<1>2. /\ v \in Seq(S) /\ Len(v) = Len(s) + 1 /\ Len(s) \in Nat
      /\ \A i \in 1..Len(s) : v[i] = s[i]
      /\ v[Len(s) + 1] = x
  <2>1. <<x>> \in Seq(S) /\ Len(<<x>>) = 1 /\ <<x>>[1] = x
    OBVIOUS
  <2> QED BY <1>1, <2>1, Concatenated
<1>3. u = v \o t
  BY <1>1
<1>4. /\ u \in Seq(S) /\ Len(u) = Len(v) + Len(t) /\ Len(t) \in Nat
      /\ \A i \in 1..Len(v) : u[i] = v[i]
      /\ \A k \in 1..Len(t) : u[Len(v) + k] = t[k]
  BY <1>2, <1>3, Concatenated
<1>5. /\ \A i \in 1..Len(s) : i \in 1..Len(v)
      /\ Len(s) + 1 \in 1..Len(v)
  BY <1>2
<1> QED BY <1>2, <1>4, <1>5

-----------------------------------------------------------------------------
(* The lines.                                                              *)

LEMMA InLine ==
    \A q : q \in Queued <=> \E c \in Comp : q \in Range(queue[c])
BY DEF Queued

(* A line that changes changes what is queued only by its own requests.    *)
LEMMA LineChanges ==
    ASSUME IInv, NEW c \in Comp, NEW line \in Seq(Request), queue' = [queue EXCEPT ![c] = line]
    PROVE  /\ Queued' = (Queued \ Range(queue[c])) \cup Range(line)
           /\ queue' \in [Comp -> Seq(Request)] /\ queue'[c] = line
           /\ \A d \in Comp \ {c} : queue'[d] = queue[d]
<1>1. queue \in [Comp -> Seq(Request)]
  BY DEF IInv, Types
<1>2. /\ queue' \in [Comp -> Seq(Request)] /\ queue'[c] = line
      /\ \A d \in Comp \ {c} : queue'[d] = queue[d]
  BY <1>1
<1>3. ASSUME NEW d \in Comp \ {c}, NEW q \in Range(queue[d]) PROVE q \notin Range(queue[c])
  BY <1>3 DEF IInv, Lines
<1>4. \A q : q \in Queued' <=> \E d \in Comp : q \in Range(queue'[d])
  BY DEF Queued
<1> QED BY <1>2, <1>3, <1>4, InLine

LEMMA LinesAllocated ==
    ASSUME IInv
    PROVE  /\ \A c \in Comp : Range(queue[c]) \subseteq DOMAIN info /\ Range(queue[c]) \cap active = {}
           /\ DOMAIN info \subseteq Request
<1>1. \A c \in Comp : Range(queue[c]) \subseteq Queued
  BY InLine
<1>2. \A c \in Comp : Range(queue[c]) \subseteq DOMAIN info /\ Range(queue[c]) \cap active = {}
  BY <1>1 DEF IInv, Maps
<1>3. DOMAIN info \subseteq 1..issued /\ 1..issued \subseteq Request
  BY CoordinatorParameters DEF IInv, Maps, Types, Request
<1> QED BY <1>2, <1>3

(* TypeOK follows.                                                         *)
LEMMA TypesMeanTypeOK == IInv => TypeOK
<1> SUFFICES ASSUME IInv PROVE TypeOK
  OBVIOUS
<1>1. DOMAIN info \in SUBSET Request /\ info \in [DOMAIN info -> Info]
  BY LinesAllocated DEF IInv, Types
<1>2. queue \in [Comp -> Seq(DOMAIN info)]
  <2>1. ASSUME NEW c \in Comp PROVE queue[c] \in Seq(DOMAIN info)
    <3>1. queue[c] \in Seq(Range(queue[c]))
      BY SeqOfRange DEF IInv, Types
    <3> QED BY <3>1, LinesAllocated, SeqMonotonic
  <2> QED BY <2>1 DEF IInv, Types
<1> QED BY <1>1, <1>2 DEF IInv, Types, TypeOK

LEMMA WithoutIs ==
    ASSUME IInv, NEW gone
    PROVE  /\ DOMAIN Without(gone) = DOMAIN info \ gone
           /\ Without(gone) \in [DOMAIN info \ gone -> Info]
           /\ \A q \in DOMAIN info \ gone : Without(gone)[q] = info[q]
BY DEF Without, Restrict, IInv, Types

LEMMA FrameOfIs ==
    ASSUME NEW q \in Request, NEW i \in Info, NEW code \in Code
    PROVE  /\ FrameOf(q, i, code) \in Frame /\ FrameOf(q, i, code).req = q
           /\ (FrameOf(q, i, code).ownHandler <=> i.ownHandler) /\ ~FrameOf(q, i, code).running
BY DEF FrameOf, Frame, Info

-----------------------------------------------------------------------------
(* Handlers.  A request that leaves the maps, or never enters them, gets   *)
(* one frame, not called yet.                                              *)
OneFrameEach(gone) ==
    /\ stack' \in Seq(Frame) /\ Len(stack') >= Len(stack)
    /\ \A i \in 1..Len(stack) : stack'[i] = stack[i]
    /\ \A i \in (Len(stack) + 1)..Len(stack') :
          /\ stack'[i].req \in gone /\ ~stack'[i].running
          /\ stack'[i].ownHandler <=> stack'[i].req \notin cancelled
    /\ \A q \in gone : \E i \in (Len(stack) + 1)..Len(stack') : stack'[i].req = q
    /\ \A i, j \in (Len(stack) + 1)..Len(stack') : stack'[i].req = stack'[j].req => i = j

(* `gone` are the requests that end, `issued + 1` the one made, if any.    *)
Leave(gone) ==
    /\ DOMAIN info \cup {q \in {issued'} : q # issued} = DOMAIN info' \cup gone
    /\ DOMAIN info' \cap gone = {} /\ gone \cap discarded = {}
    /\ discarded \subseteq discarded' /\ discarded' \subseteq discarded \cup DOMAIN info'
    /\ \A q \in DOMAIN info' : info'[q].ownHandler <=> q \notin cancelled

LEMMA FramesPushed ==
    ASSUME IInv, NEW gone, Leave(gone), OneFrameEach(gone),
           issued' \in {issued, issued + 1}, issued' \in 0..MaxRequests, UNCHANGED <<cancelled, tooLate, called>>
    PROVE  Frames' /\ Calls'
<1> USE DEF Leave, OneFrameEach
<1>1. /\ Len(stack) \in Nat /\ Len(stack') \in Nat /\ DOMAIN stack = 1..Len(stack) /\ DOMAIN stack' = 1..Len(stack')
      /\ issued \in Nat /\ issued \notin (issued + 1)..(issued + 1)
  BY LenProperties DEF IInv, Types
<1>2. \A i \in 1..Len(stack') : i \in 1..Len(stack) \/ i \in (Len(stack) + 1)..Len(stack')
  BY <1>1
<1>3. \A i \in 1..Len(stack) : i \in 1..Len(stack')
  BY <1>1
<1>4. \A i \in (Len(stack) + 1)..Len(stack') : i \in 1..Len(stack')
  BY <1>1
<1>5. /\ 1..issued \subseteq 1..issued'
      /\ \A q \in 1..issued' : q \in 1..issued \/ (q = issued + 1 /\ issued' = issued + 1)
      /\ issued' = issued + 1 => issued' \notin 1..issued /\ issued' # issued /\ issued' \in 1..issued'
  <2>1. CASE issued' = issued
    BY <1>1, <2>1
  <2>2. CASE issued' = issued + 1
    BY <1>1, <2>2
  <2> QED BY <2>1, <2>2
<1>6. /\ DOMAIN info \subseteq 1..issued /\ discarded \subseteq 1..issued /\ cancelled \subseteq 1..issued
  BY DEF IInv, Maps, Stopping, Calls
<1>7. /\ \A q \in gone \cup DOMAIN info' : q \in DOMAIN info \/ (q = issued + 1 /\ issued' = issued + 1)
      /\ DOMAIN info \subseteq DOMAIN info' \cup gone
      /\ issued' = issued + 1 => issued + 1 \in DOMAIN info' \cup gone
  <2>1. \A q : q \in {r \in {issued'} : r # issued} <=> q = issued' /\ q # issued
    OBVIOUS
  <2> QED BY <1>5, <2>1
<1>8. gone \subseteq 1..issued' /\ DOMAIN info' \subseteq 1..issued' /\ discarded' \subseteq 1..issued'
  BY <1>5, <1>6, <1>7
<1>9. 1..issued' \subseteq Request
  BY CoordinatorParameters DEF Request
<1>10. ASSUME NEW i \in 1..Len(stack)
       PROVE  /\ stack[i].req \in (1..issued) \ (DOMAIN info \cup discarded)
              /\ stack[i].req \notin gone /\ stack[i].req \notin DOMAIN info' \cup discarded'
              /\ stack[i].ownHandler <=> stack[i].req \notin cancelled
              /\ called[stack[i].req] = IF stack[i].running THEN 1 ELSE 0
  <2>1. /\ stack[i].req \in (1..issued) \ (DOMAIN info \cup discarded)
        /\ stack[i].ownHandler <=> stack[i].req \notin cancelled
        /\ called[stack[i].req] = IF stack[i].running THEN 1 ELSE 0
    BY <1>1 DEF IInv, Frames
  <2> QED BY <1>5, <1>7, <2>1
<1>11. \A q \in gone \cup DOMAIN info' : called[q] = 0
  <2>1. \A q \in Request : q > issued \/ q \in DOMAIN info => called[q] = 0
    BY DEF IInv, Calls
  <2>2. \A q \in gone \cup DOMAIN info' : q \in DOMAIN info \/ q > issued
    BY <1>1, <1>7
  <2> QED BY <1>8, <1>9, <2>1, <2>2
<1>12. Frames'
  <2>1. ASSUME NEW i \in 1..Len(stack')
        PROVE  /\ stack'[i].req \in (1..issued') \ (DOMAIN info' \cup discarded')
               /\ stack'[i].ownHandler <=> stack'[i].req \notin cancelled
               /\ called[stack'[i].req] = IF stack'[i].running THEN 1 ELSE 0
    <3>1. CASE i \in 1..Len(stack)
      BY <1>5, <1>10, <3>1
    <3>2. CASE i \in (Len(stack) + 1)..Len(stack')
      BY <1>8, <1>11, <3>2
    <3> QED BY <1>2, <3>1, <3>2
  <2>2. ASSUME NEW i \in 1..Len(stack'), NEW j \in 1..Len(stack'), stack'[i].req = stack'[j].req
        PROVE  i = j
    <3>1. CASE i \in 1..Len(stack) /\ j \in 1..Len(stack)
      BY <1>1, <2>2, <3>1 DEF IInv, Frames
    <3>2. CASE i \in (Len(stack) + 1)..Len(stack') /\ j \in (Len(stack) + 1)..Len(stack')
      BY <2>2, <3>2
    <3>3. ~(i \in 1..Len(stack) /\ j \in (Len(stack) + 1)..Len(stack'))
      BY <1>10, <2>2
    <3>4. ~(j \in 1..Len(stack) /\ i \in (Len(stack) + 1)..Len(stack'))
      BY <1>10, <2>2
    <3> QED BY <1>2, <3>1, <3>2, <3>3, <3>4
  <2> QED BY <1>1, <2>1, <2>2 DEF Frames
<1>13. Calls'
  <2>1. cancelled \subseteq 1..issued'
    BY <1>5, <1>6
  <2>2. \A q \in Request : called[q] \in {0, 1}
    BY DEF IInv, Calls
  <2>3. ASSUME NEW q \in Request, q > issued' \/ q \in DOMAIN info' \cup discarded' \cup cancelled
        PROVE  called[q] = 0
    <3>1. \A p \in Request : p > issued \/ p \in DOMAIN info \cup discarded \cup cancelled => called[p] = 0
      BY DEF IInv, Calls
    <3>2. CASE q > issued'
      <4>1. q > issued
        BY <1>1, <3>2 DEF Request
      <4> QED BY <3>1, <4>1
    <3>3. CASE q \in DOMAIN info'
      BY <1>11, <3>3
    <3>4. CASE q \in discarded \cup cancelled
      BY <3>1, <3>4
    <3> QED BY <2>3, <3>2, <3>3, <3>4
  <2>4. ASSUME NEW q \in (1..issued') \ (DOMAIN info' \cup discarded' \cup cancelled)
        PROVE  called[q] = 1 \/ \E i \in 1..Len(stack') : stack'[i].req = q
    <3>1. CASE q \in gone
      BY <1>4, <3>1
    <3>2. CASE q \notin gone
      <4>1. q \in (1..issued) \ (DOMAIN info \cup discarded \cup cancelled)
        BY <1>5, <1>7, <3>2
      <4>2. called[q] = 1 \/ \E i \in 1..Len(stack) : stack[i].req = q
        BY <1>1, <4>1 DEF IInv, Calls
      <4> QED BY <1>3, <4>2
    <3> QED BY <3>1, <3>2
  <2> QED BY <1>1, <2>1, <2>2, <2>3, <2>4 DEF Calls
<1> QED BY <1>12, <1>13

(* Requests `gone` leave the maps, while the vehicle is open.              *)
LEMMA Leaving ==
    ASSUME IInv, ~stopped, NEW gone, gone \subseteq DOMAIN info, info' = Without(gone), OneFrameEach(gone),
           UNCHANGED <<linkUp, stopped, issued, discarded, cancelled, tooLate, called>>
    PROVE  Frames' /\ Calls' /\ Stopping' /\ DOMAIN info' = DOMAIN info \ gone /\ stack' \in Seq(Frame)
<1>1. /\ DOMAIN info' = DOMAIN info \ gone /\ discarded = {}
      /\ \A q \in DOMAIN info' : info'[q] = info[q]
  <2>1. /\ DOMAIN Without(gone) = DOMAIN info \ gone
        /\ \A q \in DOMAIN info \ gone : Without(gone)[q] = info[q]
    BY WithoutIs
  <2>2. discarded = {}
    BY DEF IInv, Stopping
  <2> QED BY <2>1, <2>2
<1>2. Leave(gone)
  <2>1. \A q \in DOMAIN info : info[q].ownHandler <=> q \notin cancelled
    BY DEF IInv, Calls
  <2> QED BY <1>1, <2>1 DEF Leave
<1>3. issued' \in {issued, issued + 1} /\ issued' \in 0..MaxRequests
  BY DEF IInv, Types
<1>4. Frames' /\ Calls'
  BY <1>2, <1>3, FramesPushed
<1>5. Stopping'
  BY <1>1 DEF IInv, Stopping
<1> QED BY <1>1, <1>4, <1>5 DEF OneFrameEach

(* The frame of a request in the maps.                                     *)
LEMMA ItsFrame ==
    ASSUME IInv, NEW q \in DOMAIN info, NEW code \in Code
    PROVE  LET f == FrameOf(q, info[q], code)
           IN  f \in Frame /\ f.req = q /\ ~f.running /\ (f.ownHandler <=> q \notin cancelled)
<1>1. q \in Request /\ info[q] \in Info /\ (info[q].ownHandler <=> q \notin cancelled)
  BY LinesAllocated DEF IInv, Types, Calls
<1> QED BY <1>1, FrameOfIs

LEMMA LeavingAlone ==
    ASSUME IInv, ~stopped, NEW q \in DOMAIN info, NEW code \in Code, info' = Without({q}),
           stack' = stack \o <<FrameOf(q, info[q], code)>>,
           UNCHANGED <<linkUp, stopped, issued, discarded, cancelled, tooLate, called>>
    PROVE  Frames' /\ Calls' /\ Stopping' /\ DOMAIN info' = DOMAIN info \ {q} /\ stack' \in Seq(Frame)
<1> DEFINE mine == FrameOf(q, info[q], code)
<1>1. mine \in Frame /\ mine.req = q /\ ~mine.running /\ (mine.ownHandler <=> q \notin cancelled)
  BY ItsFrame
<1>2. stack' = stack \o <<mine>>
  OBVIOUS
<1> HIDE DEF mine
<1>3. <<mine>> \in Seq(Frame) /\ Len(<<mine>>) = 1 /\ <<mine>>[1] = mine /\ stack \in Seq(Frame)
  BY <1>1 DEF IInv, Types
<1>4. /\ stack' \in Seq(Frame) /\ Len(stack') = Len(stack) + 1 /\ Len(stack) \in Nat
      /\ \A i \in 1..Len(stack) : stack'[i] = stack[i]
      /\ stack'[Len(stack) + 1] = mine
  BY <1>2, <1>3, Concatenated
<1>5. /\ \A i \in (Len(stack) + 1)..Len(stack') : i = Len(stack) + 1
      /\ Len(stack) + 1 \in (Len(stack) + 1)..Len(stack') /\ Len(stack') >= Len(stack)
  BY <1>4
<1>6. OneFrameEach({q})
  BY <1>1, <1>4, <1>5 DEF OneFrameEach
<1> QED BY <1>6, Leaving

LEMMA LeavingTogether ==
    ASSUME IInv, ~stopped, NEW q \in active, NEW code \in Code, NEW refusal \in Code, NEW line \in Seq(Request),
           IsInjective(line), Range(line) \subseteq Queued, info' = Without({q} \cup Range(line)),
           stack' = stack \o <<FrameOf(q, info[q], code)>>
                          \o [k \in DOMAIN line |-> FrameOf(line[k], info[line[k]], refusal)],
           UNCHANGED <<linkUp, stopped, issued, discarded, cancelled, tooLate, called>>
    PROVE  Frames' /\ Calls' /\ Stopping' /\ DOMAIN info' = DOMAIN info \ ({q} \cup Range(line)) /\ stack' \in Seq(Frame)
<1> DEFINE mine == FrameOf(q, info[q], code)
           rest == [k \in DOMAIN line |-> FrameOf(line[k], info[line[k]], refusal)]
<1>1. q \in DOMAIN info /\ Range(line) \subseteq DOMAIN info /\ q \notin Range(line)
  BY DEF IInv, Maps
<1>2. mine \in Frame /\ mine.req = q /\ ~mine.running /\ (mine.ownHandler <=> q \notin cancelled)
  BY <1>1, ItsFrame
<1>3. Len(line) \in Nat /\ DOMAIN line = 1..Len(line) /\ \A k \in 1..Len(line) : line[k] \in Range(line)
  BY RangeIs
<1>4. ASSUME NEW k \in 1..Len(line)
      PROVE  /\ rest[k] \in Frame /\ rest[k].req = line[k] /\ ~rest[k].running
             /\ rest[k].ownHandler <=> line[k] \notin cancelled
  <2>1. line[k] \in DOMAIN info
    BY <1>1, <1>3
  <2>2. rest[k] = FrameOf(line[k], info[line[k]], refusal)
    BY <1>3
  <2> HIDE DEF rest
  <2> QED BY <2>1, <2>2, ItsFrame
<1>5. rest \in Seq(Frame) /\ Len(rest) = Len(line)
  <2>1. rest \in [1..Len(line) -> Frame]
    BY <1>3, <1>4
  <2>2. rest \in Seq(Frame)
    BY <1>3, <2>1, SeqDef
  <2> HIDE DEF rest
  <2>3. DOMAIN rest = 1..Len(line) /\ DOMAIN rest = 1..Len(rest) /\ Len(rest) \in Nat
    BY <2>1, <2>2, LenProperties
  <2> QED BY <1>3, <2>2, <2>3
<1>6. stack' = stack \o <<mine>> \o rest /\ stack \in Seq(Frame)
  BY DEF IInv, Types
<1> HIDE DEF mine, rest
<1>7. /\ stack' \in Seq(Frame) /\ Len(stack') = Len(stack) + 1 + Len(line) /\ Len(stack') >= Len(stack)
      /\ Len(stack) \in Nat
      /\ \A i \in 1..Len(stack) : stack'[i] = stack[i]
      /\ stack'[Len(stack) + 1] = mine
      /\ \A k \in 1..Len(line) : stack'[Len(stack) + 1 + k] = rest[k]
  <2>1. /\ stack' \in Seq(Frame) /\ Len(stack') = Len(stack) + 1 + Len(rest) /\ Len(stack) \in Nat
        /\ \A i \in 1..Len(stack) : stack'[i] = stack[i]
        /\ stack'[Len(stack) + 1] = mine
        /\ \A k \in 1..Len(rest) : stack'[Len(stack) + 1 + k] = rest[k]
    <3>1. mine \in Frame /\ rest \in Seq(Frame) /\ stack \in Seq(Frame)
      BY <1>2, <1>5, <1>6
    <3>2. \A r \in Seq(Frame), x \in Frame : LET u == stack \o <<x>> \o r
            IN  /\ u \in Seq(Frame) /\ Len(u) = Len(stack) + 1 + Len(r) /\ Len(stack) \in Nat
                /\ \A i \in 1..Len(stack) : u[i] = stack[i]
                /\ u[Len(stack) + 1] = x
                /\ \A k \in 1..Len(r) : u[Len(stack) + 1 + k] = r[k]
      BY <3>1, PushedAbove
    <3>3. PICK r \in Seq(Frame), x \in Frame : r = rest /\ x = mine
      BY <3>1
    <3>4. PICK u : u = stack'
      OBVIOUS
    <3>5. r = rest /\ x = mine /\ u = stack'
      BY <3>3, <3>4
    <3>6. u = stack \o <<x>> \o r
      BY <1>6, <3>5
    <3>7. /\ u \in Seq(Frame) /\ Len(u) = Len(stack) + 1 + Len(r) /\ Len(stack) \in Nat
          /\ \A i \in 1..Len(stack) : u[i] = stack[i]
          /\ u[Len(stack) + 1] = x
          /\ \A k \in 1..Len(r) : u[Len(stack) + 1 + k] = r[k]
      BY <3>2, <3>6
    <3> QED BY <3>5, <3>7
  <2> QED BY <1>3, <1>5, <2>1
<1>8. ASSUME NEW i \in (Len(stack) + 1)..Len(stack'), i # Len(stack) + 1
       PROVE  i - Len(stack) - 1 \in 1..Len(line) /\ i = Len(stack) + 1 + (i - Len(stack) - 1)
  BY <1>3, <1>7, <1>8
<1>9. ASSUME NEW i \in (Len(stack) + 1)..Len(stack')
       PROVE  /\ i = Len(stack) + 1 => stack'[i].req = q
              /\ i # Len(stack) + 1 => stack'[i].req = line[i - Len(stack) - 1]
              /\ stack'[i].req \in {q} \cup Range(line) /\ ~stack'[i].running
              /\ stack'[i].ownHandler <=> stack'[i].req \notin cancelled
  <2>1. CASE i = Len(stack) + 1
    BY <1>2, <1>7, <2>1
  <2>2. CASE i # Len(stack) + 1
    <3> DEFINE k == i - Len(stack) - 1
    <3>1. k \in 1..Len(line) /\ i = Len(stack) + 1 + k
      BY <1>8, <2>2
    <3> HIDE DEF k
    <3>2. stack'[i] = rest[k]
      BY <1>7, <3>1
    <3> QED BY <1>3, <1>4, <2>2, <3>1, <3>2 DEF k
  <2> QED BY <2>1, <2>2
<1>10. ASSUME NEW p \in {q} \cup Range(line)
       PROVE  \E i \in (Len(stack) + 1)..Len(stack') : stack'[i].req = p
  <2>1. CASE p = q
    <3>1. Len(stack) + 1 \in (Len(stack) + 1)..Len(stack')
      BY <1>3, <1>7
    <3> QED BY <1>9, <2>1, <3>1
  <2>2. CASE p \in Range(line)
    <3>1. PICK k \in 1..Len(line) : line[k] = p
      BY <2>2, RangeIs
    <3>2. Len(stack) + 1 + k \in (Len(stack) + 1)..Len(stack')
      BY <1>3, <1>7, <3>1
    <3>3. stack'[Len(stack) + 1 + k].req = p
      BY <1>4, <1>7, <3>1
    <3> QED BY <3>2, <3>3
  <2> QED BY <2>1, <2>2
<1>11. ASSUME NEW i \in (Len(stack) + 1)..Len(stack'), NEW j \in (Len(stack) + 1)..Len(stack'),
              stack'[i].req = stack'[j].req
       PROVE  i = j
  <2>1. ASSUME NEW l \in (Len(stack) + 1)..Len(stack'), l # Len(stack) + 1 PROVE stack'[l].req # q
    BY <1>1, <1>3, <1>8, <1>9, <2>1
  <2>2. CASE i = Len(stack) + 1 \/ j = Len(stack) + 1
    BY <1>9, <1>11, <2>1, <2>2
  <2>3. CASE i # Len(stack) + 1 /\ j # Len(stack) + 1
    <3>1. /\ i - Len(stack) - 1 \in 1..Len(line) /\ j - Len(stack) - 1 \in 1..Len(line)
          /\ line[i - Len(stack) - 1] = line[j - Len(stack) - 1]
      BY <1>8, <1>9, <1>11, <2>3
    <3>2. i - Len(stack) - 1 = j - Len(stack) - 1
      BY <1>3, <3>1 DEF IsInjective
    <3>3. i \in Int /\ j \in Int
      OBVIOUS
    <3> QED BY <1>7, <3>2, <3>3
  <2> QED BY <2>2, <2>3
<1>12. OneFrameEach({q} \cup Range(line))
  BY <1>7, <1>9, <1>10, <1>11 DEF OneFrameEach
<1> QED BY <1>1, <1>12, Leaving

-----------------------------------------------------------------------------
(* The end of active request q moves the line of its component up: `gone`  *)
(* leave the maps, of which q is one, `starts` becomes active if there is  *)
(* one, and `line` is left.                                                *)
MovesUp(q, gone, starts, line) ==
    LET c == info[q].comp
    IN  /\ q \in gone /\ gone \subseteq {q} \cup Range(queue[c]) /\ starts \subseteq Range(queue[c]) \ gone
        /\ \A h, k \in starts : h = k
        /\ IsInjective(line) /\ Range(line) = Range(queue[c]) \ (gone \cup starts)
        /\ line # <<>> => starts # {}
        /\ info' = Without(gone) /\ active' = (active \ {q}) \cup starts
        /\ queue' = [queue EXCEPT ![c] = line]
        /\ command' \in [Comp -> Request \cup {NoCommand, External}]
        /\ \A d \in Comp \ {c} : command'[d] = command[d]
        /\ command'[c] \in Request => command'[c] \in starts
        /\ starts # {} => command'[c] \in starts

LEMMA LineMovesUp ==
    ASSUME IInv, ~stopped, NEW q \in active, NEW gone, NEW starts, NEW line \in Seq(Request),
           MovesUp(q, gone, starts, line), UNCHANGED <<linkUp, stopped, issued, discarded, cancelled, tooLate, called>>,
           stack' \in Seq(Frame)
    PROVE  Types' /\ Maps' /\ Lines' /\ Awaiting' /\ PendingCommandOwnerAlive'
<1> DEFINE c == info[q].comp
<1>1. q \in DOMAIN info /\ info[q] \in Info /\ c \in Comp
  BY DEF IInv, Types, Info
<1> HIDE DEF c
<1>2. /\ q \in gone /\ gone \subseteq {q} \cup Range(queue[c]) /\ starts \subseteq Range(queue[c]) \ gone
      /\ IsInjective(line) /\ Range(line) = Range(queue[c]) \ (gone \cup starts)
      /\ line # <<>> => starts # {}
      /\ info' = Without(gone) /\ active' = (active \ {q}) \cup starts
      /\ queue' = [queue EXCEPT ![c] = line]
  BY DEF MovesUp, c
<1>3. \A h, k \in starts : h = k
  BY DEF MovesUp
<1>4. /\ command' \in [Comp -> Request \cup {NoCommand, External}]
      /\ \A d \in Comp \ {c} : command'[d] = command[d]
      /\ command'[c] \in Request => command'[c] \in starts
      /\ starts # {} => command'[c] \in starts
  BY DEF MovesUp, c
<1>5. /\ DOMAIN info' = DOMAIN info \ gone /\ info' \in [DOMAIN info' -> Info]
      /\ \A p \in DOMAIN info' : info'[p] = info[p]
  <2>1. /\ DOMAIN Without(gone) = DOMAIN info \ gone /\ Without(gone) \in [DOMAIN info \ gone -> Info]
        /\ \A p \in DOMAIN info \ gone : Without(gone)[p] = info[p]
    BY WithoutIs
  <2>2. info' = Without(gone)
    BY <1>2
  <2> QED BY <2>1, <2>2
<1>6. /\ Queued' = (Queued \ Range(queue[c])) \cup Range(line)
      /\ queue' \in [Comp -> Seq(Request)] /\ queue'[c] = line
      /\ \A d \in Comp \ {c} : queue'[d] = queue[d]
  BY <1>1, <1>2, LineChanges
<1>7. /\ Range(queue[c]) \subseteq Queued /\ Range(queue[c]) \subseteq DOMAIN info
      /\ DOMAIN info = active \cup Queued /\ active \cap Queued = {}
  BY <1>1, InLine DEF IInv, Maps
<1>8. \A p \in Range(queue[c]) : info[p].comp = c
  BY <1>1 DEF IInv, Lines
<1>9. \A p \in active \ {q} : info[p].comp # c
  BY <1>1 DEF IInv, Lines, c
<1>10. active' \subseteq DOMAIN info' /\ DOMAIN info' = active' \cup Queued' /\ active' \cap Queued' = {}
  BY <1>1, <1>2, <1>5, <1>6, <1>7
<1>11. Types'
  BY <1>4, <1>5, <1>6, <1>10 DEF IInv, Types
<1>12. Maps'
  BY <1>5, <1>10 DEF IInv, Maps
<1>13. Lines'
  <2>1. ASSUME NEW p \in active', NEW r \in active', info'[p].comp = info'[r].comp PROVE p = r
    <3>1. info[p].comp = info[r].comp
      BY <1>5, <1>10, <2>1
    <3>2. CASE p \in active /\ r \in active
      BY <3>1, <3>2 DEF IInv, Lines
    <3>3. CASE p \in starts /\ r \in starts
      BY <1>3, <3>3
    <3>4. \A x \in starts : info[x].comp = c
      BY <1>2, <1>8
    <3> QED BY <1>2, <1>9, <3>1, <3>2, <3>3, <3>4
  <2>2. ASSUME NEW d \in Comp
        PROVE  /\ IsInjective(queue'[d])
               /\ \A p \in Range(queue'[d]) : info'[p].comp = d
               /\ queue'[d] # <<>> => \E p \in active' : info'[p].comp = d
    <3>1. \A p \in Range(queue'[d]) : p \in DOMAIN info'
      <4>1. \A p : p \in Queued' <=> \E e \in Comp : p \in Range(queue'[e])
        BY DEF Queued
      <4> QED BY <1>10, <4>1
    <3>2. CASE d = c
      <4>1. queue'[d] = line
        BY <1>6, <3>2
      <4>2. \A p \in Range(line) : info'[p].comp = d
        BY <1>2, <1>5, <1>8, <3>1, <3>2, <4>1
      <4>3. line # <<>> => \E p \in active' : info'[p].comp = d
        <5> SUFFICES ASSUME line # <<>> PROVE \E p \in active' : info'[p].comp = d
          OBVIOUS
        <5>1. PICK p \in starts : TRUE
          BY <1>2
        <5>2. p \in active' /\ info[p].comp = c /\ info'[p] = info[p]
          BY <1>2, <1>5, <1>8, <1>10
        <5> QED BY <3>2, <5>2
      <4> QED BY <1>2, <4>1, <4>2, <4>3
    <3>3. CASE d # c
      <4>1. queue'[d] = queue[d]
        BY <1>6, <3>3
      <4>2. /\ IsInjective(queue[d])
            /\ \A p \in Range(queue[d]) : info[p].comp = d
            /\ queue[d] # <<>> => \E p \in active : info[p].comp = d
        BY DEF IInv, Lines
      <4>3. \A p \in Range(queue[d]) : info'[p].comp = d
        BY <1>5, <3>1, <4>1, <4>2
      <4>4. \A p \in active : info[p].comp = d => p \in active' /\ info'[p] = info[p]
        <5>1. \A p \in active : info[p].comp = d => p # q
          BY <3>3 DEF c
        <5> QED BY <1>2, <1>5, <1>10, <5>1
      <4>5. queue[d] # <<>> => \E p \in active' : info'[p].comp = d
        BY <4>2, <4>4
      <4> QED BY <4>1, <4>2, <4>3, <4>5
    <3> QED BY <3>2, <3>3
  <2> QED BY <2>1, <2>2 DEF Lines
<1>14. Awaiting'
  <2>1. \A p \in DOMAIN info : (info[p].acked <=> info[p].wait # "off") /\ (info[p].acked => p \in active)
    BY DEF IInv, Awaiting
  <2>2. ASSUME NEW p \in DOMAIN info'
        PROVE  (info'[p].acked <=> info'[p].wait # "off") /\ (info'[p].acked => p \in active')
    <3>1. p \in DOMAIN info /\ info'[p] = info[p] /\ p # q
      BY <1>2, <1>5
    <3>2. p \in active => p \in active'
      BY <1>2, <3>1
    <3> QED BY <2>1, <3>1, <3>2
  <2>3. ASSUME NEW p \in active'
        PROVE  IF info'[p].acked THEN ~info'[p].received /\ ~stopped'
                                 ELSE stopped' \/ command'[info'[p].comp] = p
    <3>1. p \in DOMAIN info' /\ info'[p] = info[p]
      BY <1>5, <1>10
    <3>2. CASE p \in active \ {q}
      <4>1. info[p].comp \in Comp /\ info[p].comp # c
        BY <1>9, <3>2 DEF IInv, Types, Info
      <4>2. IF info[p].acked THEN ~info[p].received /\ ~stopped ELSE stopped \/ command[info[p].comp] = p
        BY <3>2 DEF IInv, Awaiting
      <4>3. command'[info[p].comp] = command[info[p].comp]
        BY <1>4, <4>1
      <4> QED BY <3>1, <4>2, <4>3
    <3>3. CASE p \in starts
      <4>1. ~info[p].acked
        BY <1>2, <1>7, <2>1, <3>3
      <4>2. info[p].comp = c /\ command'[c] = p
        BY <1>2, <1>3, <1>4, <1>8, <3>3
      <4> QED BY <3>1, <4>1, <4>2
    <3> QED BY <1>2, <3>2, <3>3
  <2> QED BY <2>2, <2>3 DEF Awaiting
<1>15. PendingCommandOwnerAlive'
  <2> SUFFICES ASSUME NEW d \in Comp, command'[d] \in Request
               PROVE  /\ command'[d] \in active'
                      /\ info'[command'[d]].comp = d /\ ~info'[command'[d]].acked
    BY DEF PendingCommandOwnerAlive
  <2>1. CASE d = c
    <3>1. command'[d] \in starts
      BY <1>4, <2>1
    <3>2. PICK p \in starts : p = command'[d]
      BY <3>1
    <3>3. p \in active' /\ info'[p] = info[p] /\ info[p].comp = c
      BY <1>2, <1>5, <1>8, <1>10
    <3>4. ~info[p].acked
      BY <1>2, <1>7 DEF IInv, Awaiting
    <3> QED BY <2>1, <3>2, <3>3, <3>4
  <2>2. CASE d # c
    <3>1. command'[d] = command[d]
      BY <1>4, <2>2
    <3>2. PICK p : p = command[d]
      OBVIOUS
    <3>3. p \in active /\ info[p].comp = d /\ ~info[p].acked
      BY <3>1, <3>2 DEF IInv, PendingCommandOwnerAlive
    <3>4. p # q
      BY <2>2, <3>3 DEF c
    <3>5. p \in active' /\ info'[p] = info[p]
      BY <1>2, <1>5, <1>10, <3>3, <3>4
    <3> QED BY <3>1, <3>2, <3>3, <3>5
  <2> QED BY <2>1, <2>2
<1> QED BY <1>11, <1>12, <1>13, <1>14, <1>15

(* The end of an active request, the command that is left pending for its  *)
(* component not being one of the coordinator's.                           *)
EndOf(q, code, pending) ==
    /\ Finish(q, code, pending)
    /\ pending \in [Comp -> Request \cup {NoCommand, External}]
    /\ pending[info[q].comp] \notin Request
    /\ \A d \in Comp \ {info[q].comp} : pending[d] = command[d]

LEMMA FinishPreserves ==
    ASSUME IInv, ~stopped, NEW q \in active, NEW code \in Code, NEW pending, EndOf(q, code, pending),
           UNCHANGED <<linkUp, stopped, issued, discarded, cancelled, tooLate, called>>
    PROVE  IInv'
<1> DEFINE c == info[q].comp
           next == queue[c]
           refusal == Refusal(pending, c)
           mine == <<FrameOf(q, info[q], code)>>
<1>1. q \in DOMAIN info /\ c \in Comp /\ next \in Seq(Request) /\ IsInjective(next) /\ Range(next) \subseteq Queued
      /\ Range(next) \subseteq DOMAIN info /\ q \notin Range(next)
  <2>1. q \in DOMAIN info /\ c \in Comp
    BY DEF IInv, Types, Info
  <2>2. next \in Seq(Request) /\ IsInjective(next)
    BY <2>1 DEF IInv, Types, Lines
  <2> QED BY <2>1, <2>2, InLine, LinesAllocated
<1>2. /\ pending \in [Comp -> Request \cup {NoCommand, External}] /\ pending[c] \notin Request
      /\ \A d \in Comp \ {c} : pending[d] = command[d]
  BY DEF EndOf
<1>3. <<>> \in Seq(Request) /\ IsInjective(<<>>) /\ Range(<<>>) = {}
  BY EmptySeq DEF IsInjective, Range
<1>4. Finish(q, code, pending)
  BY DEF EndOf
<1>5. CASE /\ next = <<>>
           /\ info' = Without({q}) /\ active' = active \ {q} /\ command' = pending /\ UNCHANGED queue
           /\ stack' = stack \o mine
  <2>1. Frames' /\ Calls' /\ Stopping' /\ stack' \in Seq(Frame)
    BY <1>1, <1>5, LeavingAlone
  <2>2. MovesUp(q, {q}, {}, <<>>)
    <3>1. queue' = [queue EXCEPT ![c] = <<>>]
      BY <1>1, <1>5 DEF IInv, Types
    <3>2. Range(queue[c]) = {}
      BY <1>3, <1>5
    <3> QED BY <1>2, <1>3, <1>5, <3>1, <3>2 DEF MovesUp
  <2>3. Types' /\ Maps' /\ Lines' /\ Awaiting' /\ PendingCommandOwnerAlive'
    BY <1>3, <2>1, <2>2, LineMovesUp
  <2> QED BY <2>1, <2>3 DEF IInv
<1>6. CASE /\ next # <<>> /\ refusal = "none"
           /\ info' = Without({q}) /\ active' = (active \ {q}) \cup {Head(next)}
           /\ queue' = [queue EXCEPT ![c] = Tail(next)]
           /\ command' = [pending EXCEPT ![c] = Head(next)]
           /\ stack' = stack \o mine
  <2>1. Frames' /\ Calls' /\ Stopping' /\ stack' \in Seq(Frame)
    BY <1>1, <1>6, LeavingAlone
  <2>2. /\ Head(next) \in Range(next) /\ Tail(next) \in Seq(Request) /\ IsInjective(Tail(next))
        /\ Range(Tail(next)) = Range(next) \ {Head(next)}
    BY <1>1, <1>6, HeadTailOfLine
  <2>3. MovesUp(q, {q}, {Head(next)}, Tail(next))
    <3>1. /\ Range(Tail(next)) = Range(next) \ ({q} \cup {Head(next)})
          /\ {Head(next)} \subseteq Range(next) \ {q} /\ {q} \subseteq {q} \cup Range(next) /\ q \in {q}
          /\ {Head(next)} # {} /\ \A h, k \in {Head(next)} : h = k
      BY <1>1, <2>2
    <3>2. Head(next) \in Request
      BY <1>1, <2>2, LinesAllocated
    <3>3. /\ command' \in [Comp -> Request \cup {NoCommand, External}]
          /\ \A d \in Comp \ {c} : command'[d] = command[d]
          /\ command'[c] \in {Head(next)}
      BY <1>1, <1>2, <1>6, <3>2
    <3> QED BY <1>6, <2>2, <3>1, <3>3 DEF MovesUp
  <2>4. Types' /\ Maps' /\ Lines' /\ Awaiting' /\ PendingCommandOwnerAlive'
    BY <2>1, <2>2, <2>3, LineMovesUp
  <2> QED BY <2>1, <2>4 DEF IInv
<1>7. CASE /\ next # <<>> /\ refusal # "none"
           /\ info' = Without({q} \cup Range(next)) /\ active' = active \ {q}
           /\ queue' = [queue EXCEPT ![c] = <<>>]
           /\ command' = pending
           /\ stack' = stack \o mine \o [k \in DOMAIN next |-> FrameOf(next[k], info[next[k]], refusal)]
  <2>1. refusal \in Code
    BY <1>7 DEF Refusal, Code
  <2>2. Frames' /\ Calls' /\ Stopping' /\ stack' \in Seq(Frame)
    <3> HIDE DEF refusal, next
    <3> QED BY <1>1, <1>7, <2>1, LeavingTogether
  <2>3. MovesUp(q, {q} \cup Range(next), {}, <<>>)
    BY <1>2, <1>3, <1>7 DEF MovesUp
  <2>4. Types' /\ Maps' /\ Lines' /\ Awaiting' /\ PendingCommandOwnerAlive'
    BY <1>3, <2>2, <2>3, LineMovesUp
  <2> QED BY <2>2, <2>4 DEF IInv
<1> QED BY <1>4, <1>5, <1>6, <1>7 DEF Finish

-----------------------------------------------------------------------------
(* New requests.                                                           *)
Fresh(o, c, m) ==
    [comp |-> c, msg |-> m, owner |-> o, ownHandler |-> TRUE,
     acked |-> FALSE, received |-> FALSE, wait |-> "off"]

LEMMA FreshIs ==
    ASSUME IInv, issued < MaxRequests, NEW o \in Owner, NEW c \in Comp, NEW m \in Msg
    PROVE  /\ Fresh(o, c, m) \in Info /\ Fresh(o, c, m).comp = c /\ Fresh(o, c, m).ownHandler
           /\ ~Fresh(o, c, m).acked /\ Fresh(o, c, m).wait = "off"
           /\ issued \in Nat /\ issued + 1 \in Request /\ issued + 1 \in 0..MaxRequests
           /\ issued + 1 \notin DOMAIN info \cup discarded \cup cancelled
           /\ 1..issued \subseteq 1..(issued + 1) /\ issued + 1 \in 1..(issued + 1) /\ issued + 1 # issued
<1>1. /\ issued \in Nat /\ issued + 1 \in Request /\ issued + 1 \in 0..MaxRequests /\ issued + 1 \notin 1..issued
      /\ 1..issued \subseteq 1..(issued + 1) /\ issued + 1 \in 1..(issued + 1) /\ issued + 1 # issued
  BY CoordinatorParameters DEF IInv, Types, Request
<1>2. DOMAIN info \subseteq 1..issued /\ discarded \subseteq 1..issued /\ cancelled \subseteq 1..issued
  BY DEF IInv, Maps, Stopping, Calls
<1>3. Fresh(o, c, m) \in Info
  BY DEF Fresh, Info
<1> QED BY <1>1, <1>2, <1>3 DEF Fresh

(* A request answered before it is allocated.                              *)
LEMMA RefusedAtOnce ==
    ASSUME IInv, issued < MaxRequests, NEW o \in Owner, NEW c \in Comp, NEW m \in Msg, NEW code \in Code,
           issued' = issued + 1, stack' = Append(stack, FrameOf(issued + 1, Fresh(o, c, m), code)),
           UNCHANGED <<maps, discarded, linkUp, stopped, cancelled, tooLate, called>>
    PROVE  IInv'
<1> DEFINE q == issued + 1
           mine == FrameOf(q, Fresh(o, c, m), code)
<1>1. /\ issued \in Nat /\ q \in Request /\ q \in 0..MaxRequests /\ q \notin DOMAIN info \cup discarded \cup cancelled
      /\ 1..issued \subseteq 1..q /\ q # issued
  BY FreshIs
<1>2. mine \in Frame /\ mine.req = q /\ mine.ownHandler /\ ~mine.running
  BY <1>1, FreshIs, FrameOfIs
<1>3. issued' = q /\ stack' = Append(stack, mine) /\ stack \in Seq(Frame)
  BY DEF IInv, Types
<1> HIDE DEF q, mine
<1>4. /\ stack' \in Seq(Frame) /\ Len(stack') = Len(stack) + 1 /\ Len(stack) \in Nat
      /\ \A i \in 1..Len(stack) : stack'[i] = stack[i]
      /\ stack'[Len(stack) + 1] = mine
  BY <1>2, <1>3, AppendProperties, LenProperties
<1>5. /\ \A i \in (Len(stack) + 1)..Len(stack') : i = Len(stack) + 1
      /\ Len(stack) + 1 \in (Len(stack) + 1)..Len(stack') /\ Len(stack') >= Len(stack)
  BY <1>4
<1>6. OneFrameEach({q})
  BY <1>1, <1>2, <1>4, <1>5 DEF OneFrameEach
<1>7. Leave({q})
  BY <1>1, <1>3 DEF Leave, maps, IInv, Calls
<1>8. Frames' /\ Calls'
  BY <1>1, <1>3, <1>6, <1>7, FramesPushed DEF q
<1>9. Types'
  BY <1>1, <1>3, <1>4 DEF IInv, Types, maps
<1>10. Queued' = Queued
  BY DEF maps, Queued
<1>11. Maps' /\ Lines' /\ Awaiting' /\ PendingCommandOwnerAlive'
  BY <1>1, <1>3, <1>10 DEF IInv, Maps, Lines, Awaiting, PendingCommandOwnerAlive, maps
<1>12. Stopping'
  BY <1>1, <1>3 DEF IInv, Stopping, maps
<1> QED BY <1>8, <1>9, <1>11, <1>12 DEF IInv

(* A request that is allocated, in either map.                             *)
Allocates(o, c, m) ==
    /\ issued' = issued + 1
    /\ info' = [p \in DOMAIN info \cup {issued + 1} |-> IF p = issued + 1 THEN Fresh(o, c, m) ELSE info[p]]
    /\ discarded' = IF stopped THEN discarded \cup {issued + 1} ELSE discarded
    /\ UNCHANGED <<stack, linkUp, stopped, cancelled, tooLate, called>>

LEMMA AllocatedIs ==
    ASSUME IInv, issued < MaxRequests, NEW o \in Owner, NEW c \in Comp, NEW m \in Msg, Allocates(o, c, m)
    PROVE  /\ DOMAIN info' = DOMAIN info \cup {issued + 1} /\ info' \in [DOMAIN info' -> Info]
           /\ info'[issued + 1] = Fresh(o, c, m)
           /\ \A p \in DOMAIN info : info'[p] = info[p]
           /\ DOMAIN info' \subseteq 1..issued'
           /\ Frames' /\ Calls' /\ discarded' \subseteq Request
           /\ UNCHANGED command \/ ~stopped => Stopping'
<1> DEFINE q == issued + 1
<1>1. /\ issued \in Nat /\ q \in Request /\ q \in 0..MaxRequests /\ q \notin DOMAIN info \cup discarded \cup cancelled
      /\ 1..issued \subseteq 1..q /\ q \in 1..q /\ q # issued /\ Fresh(o, c, m) \in Info /\ Fresh(o, c, m).ownHandler
  BY FreshIs
<1>2. /\ issued' = q
      /\ info' = [p \in DOMAIN info \cup {q} |-> IF p = q THEN Fresh(o, c, m) ELSE info[p]]
      /\ discarded' = IF stopped THEN discarded \cup {q} ELSE discarded
      /\ UNCHANGED <<stack, linkUp, stopped, cancelled, tooLate, called>>
  BY DEF Allocates
<1>3. issued' \in {issued, issued + 1}
  BY <1>2
<1> HIDE DEF q
<1>4. /\ DOMAIN info' = DOMAIN info \cup {q} /\ info' \in [DOMAIN info' -> Info] /\ info'[q] = Fresh(o, c, m)
      /\ \A p \in DOMAIN info : info'[p] = info[p]
  BY <1>1, <1>2 DEF IInv, Types
<1>5. OneFrameEach({})
  <2>1. stack \in Seq(Frame) /\ Len(stack) \in Nat
    BY LenProperties DEF IInv, Types
  <2>2. stack' = stack /\ \A i : i \notin (Len(stack) + 1)..Len(stack)
    BY <1>2, <2>1
  <2> QED BY <2>1, <2>2 DEF OneFrameEach
<1>6. Leave({})
  <2>1. \A p \in DOMAIN info : info[p].ownHandler <=> p \notin cancelled
    BY DEF IInv, Calls
  <2>2. \A p \in DOMAIN info' : info'[p].ownHandler <=> p \notin cancelled
    BY <1>1, <1>4, <2>1
  <2> QED BY <1>1, <1>2, <1>4, <2>2 DEF Leave
<1>7. Frames' /\ Calls'
  BY <1>1, <1>2, <1>3, <1>5, <1>6, FramesPushed
<1>8. DOMAIN info' \subseteq 1..issued' /\ discarded' \subseteq Request
  BY <1>1, <1>2, <1>4 DEF IInv, Maps, Types
<1>9. ASSUME UNCHANGED command \/ ~stopped PROVE Stopping'
  BY <1>1, <1>2, <1>4, <1>9 DEF IInv, Stopping
<1> QED BY <1>4, <1>7, <1>8, <1>9 DEF q

LEMMA JoinsTheLine ==
    ASSUME IInv, issued < MaxRequests, NEW o \in Owner, NEW c \in Comp, NEW m \in Msg, Allocates(o, c, m),
           InComp(c) # {}, queue' = [queue EXCEPT ![c] = Append(@, issued + 1)], UNCHANGED <<active, command>>
    PROVE  IInv'
<1> DEFINE q == issued + 1
           line == Append(queue[c], q)
<1>1. /\ q \in Request /\ q \in 0..MaxRequests /\ q \notin DOMAIN info
      /\ Fresh(o, c, m).comp = c /\ ~Fresh(o, c, m).acked /\ Fresh(o, c, m).wait = "off"
  BY FreshIs
<1>2. /\ DOMAIN info' = DOMAIN info \cup {q} /\ info' \in [DOMAIN info' -> Info] /\ info'[q] = Fresh(o, c, m)
      /\ \A p \in DOMAIN info : info'[p] = info[p]
      /\ DOMAIN info' \subseteq 1..issued' /\ Frames' /\ Calls' /\ discarded' \subseteq Request /\ Stopping'
  BY AllocatedIs
<1>3. issued' = q /\ UNCHANGED <<stack, linkUp, stopped, cancelled, tooLate, called>>
  BY DEF Allocates
<1>4. /\ queue[c] \in Seq(Request) /\ Range(queue[c]) \subseteq DOMAIN info /\ IsInjective(queue[c])
      /\ Range(queue[c]) \subseteq Queued /\ queue' = [queue EXCEPT ![c] = line]
  BY LinesAllocated, InLine DEF IInv, Types, Lines
<1> HIDE DEF q
<1>5. line \in Seq(Request) /\ IsInjective(line) /\ line # <<>> /\ Range(line) = Range(queue[c]) \cup {q}
  BY <1>1, <1>4, LongerLine
<1> HIDE DEF line
<1>6. /\ Queued' = (Queued \ Range(queue[c])) \cup Range(line)
      /\ queue' \in [Comp -> Seq(Request)] /\ queue'[c] = line
      /\ \A d \in Comp \ {c} : queue'[d] = queue[d]
  BY <1>4, <1>5, LineChanges
<1>7. Queued' = Queued \cup {q}
  BY <1>4, <1>5, <1>6
<1>8. DOMAIN info = active \cup Queued /\ active \cap Queued = {}
  BY DEF IInv, Maps
<1>9. Types'
  BY <1>1, <1>2, <1>3, <1>6, <1>8 DEF IInv, Types
<1>10. Maps'
  BY <1>1, <1>2, <1>7, <1>8 DEF Maps
<1>11. Lines'
  <2>1. \A p, r \in active : info'[p].comp = info'[r].comp => p = r
    BY <1>2, <1>8 DEF IInv, Lines
  <2>2. ASSUME NEW d \in Comp
        PROVE  /\ IsInjective(queue'[d])
               /\ \A p \in Range(queue'[d]) : info'[p].comp = d
               /\ queue'[d] # <<>> => \E p \in active : info'[p].comp = d
    <3>1. CASE d = c
      <4>1. \E p \in active : info'[p].comp = d
        BY <1>2, <1>8, <3>1 DEF InComp
      <4>2. \A p \in Range(queue[c]) : info[p].comp = c
        BY DEF IInv, Lines
      <4>3. \A p \in Range(line) : info'[p].comp = c
        BY <1>1, <1>2, <1>4, <1>5, <4>2
      <4> QED BY <1>5, <1>6, <3>1, <4>1, <4>3
    <3>2. CASE d # c
      <4>1. queue'[d] = queue[d] /\ Range(queue[d]) \subseteq DOMAIN info
        BY <1>6, <3>2, LinesAllocated
      <4>2. /\ IsInjective(queue[d]) /\ \A p \in Range(queue[d]) : info[p].comp = d
            /\ queue[d] # <<>> => \E p \in active : info[p].comp = d
        BY DEF IInv, Lines
      <4> QED BY <1>2, <1>8, <4>1, <4>2
    <3> QED BY <3>1, <3>2
  <2> QED BY <2>1, <2>2 DEF Lines
<1>12. Awaiting'
  BY <1>1, <1>2, <1>3, <1>8 DEF IInv, Awaiting
<1>13. PendingCommandOwnerAlive'
  BY <1>2, <1>8 DEF IInv, PendingCommandOwnerAlive
<1> QED BY <1>2, <1>9, <1>10, <1>11, <1>12, <1>13 DEF IInv

LEMMA StartsAtOnce ==
    ASSUME IInv, issued < MaxRequests, NEW o \in Owner, NEW c \in Comp, NEW m \in Msg, Allocates(o, c, m),
           InComp(c) = {}, active' = active \cup {issued + 1}, UNCHANGED queue,
           command' = IF stopped THEN command ELSE [command EXCEPT ![c] = issued + 1]
    PROVE  IInv'
<1> DEFINE q == issued + 1
<1>1. /\ q \in Request /\ q \in 0..MaxRequests /\ q \notin DOMAIN info
      /\ Fresh(o, c, m).comp = c /\ ~Fresh(o, c, m).acked /\ Fresh(o, c, m).wait = "off"
  BY FreshIs
<1>2. /\ DOMAIN info' = DOMAIN info \cup {q} /\ info' \in [DOMAIN info' -> Info] /\ info'[q] = Fresh(o, c, m)
      /\ \A p \in DOMAIN info : info'[p] = info[p]
      /\ DOMAIN info' \subseteq 1..issued' /\ Frames' /\ Calls' /\ discarded' \subseteq Request /\ Stopping'
  BY AllocatedIs
<1>3. /\ issued' = q /\ active' = active \cup {q} /\ command' = IF stopped THEN command ELSE [command EXCEPT ![c] = q]
      /\ UNCHANGED <<stack, linkUp, stopped, cancelled, tooLate, called>>
  BY DEF Allocates
<1> HIDE DEF q
<1>4. /\ DOMAIN info = active \cup Queued /\ active \cap Queued = {} /\ Queued' = Queued
      /\ \A p \in active : info[p].comp # c
  BY DEF IInv, Maps, Queued, InComp
<1>5. Types'
  BY <1>1, <1>2, <1>3, <1>4 DEF IInv, Types
<1>6. Maps'
  BY <1>1, <1>2, <1>3, <1>4 DEF Maps
<1>7. Lines'
  <2>1. ASSUME NEW p \in active', NEW r \in active', info'[p].comp = info'[r].comp PROVE p = r
    <3>1. \A x \in active : info'[x] = info[x] /\ info'[x].comp # c
      BY <1>2, <1>4
    <3>2. CASE p = q \/ r = q
      BY <1>1, <1>2, <1>3, <2>1, <3>1, <3>2
    <3>3. CASE p \in active /\ r \in active
      BY <2>1, <3>1, <3>3 DEF IInv, Lines
    <3> QED BY <1>3, <3>2, <3>3
  <2>2. ASSUME NEW d \in Comp
        PROVE  /\ IsInjective(queue[d])
               /\ \A p \in Range(queue[d]) : info'[p].comp = d
               /\ queue[d] # <<>> => \E p \in active' : info'[p].comp = d
    <3>1. Range(queue[d]) \subseteq DOMAIN info
      BY LinesAllocated
    <3>2. /\ IsInjective(queue[d]) /\ \A p \in Range(queue[d]) : info[p].comp = d
          /\ queue[d] # <<>> => \E p \in active : info[p].comp = d
      BY DEF IInv, Lines
    <3> QED BY <1>2, <1>3, <1>4, <3>1, <3>2
  <2> QED BY <2>1, <2>2 DEF Lines
<1>8. Awaiting'
  <2>1. ASSUME NEW p \in DOMAIN info'
        PROVE  (info'[p].acked <=> info'[p].wait # "off") /\ (info'[p].acked => p \in active')
    BY <1>1, <1>2, <1>3 DEF IInv, Awaiting
  <2>2. ASSUME NEW p \in active'
        PROVE  IF info'[p].acked THEN ~info'[p].received /\ ~stopped'
                                 ELSE stopped' \/ command'[info'[p].comp] = p
    <3>1. CASE p = q
      BY <1>1, <1>2, <1>3, <3>1 DEF IInv, Types
    <3>2. CASE p \in active
      <4>1. info'[p] = info[p] /\ info[p].comp # c /\ info[p].comp \in Comp
        BY <1>2, <1>4, <3>2 DEF IInv, Types, Info
      <4>2. IF info[p].acked THEN ~info[p].received /\ ~stopped ELSE stopped \/ command[info[p].comp] = p
        BY <3>2 DEF IInv, Awaiting
      <4>3. command'[info[p].comp] = command[info[p].comp]
        BY <1>3, <4>1 DEF IInv, Types
      <4> QED BY <1>3, <4>1, <4>2, <4>3
    <3> QED BY <1>3, <3>1, <3>2
  <2> QED BY <2>1, <2>2 DEF Awaiting
<1>9. PendingCommandOwnerAlive'
  <2> SUFFICES ASSUME NEW d \in Comp, command'[d] \in Request
               PROVE  /\ command'[d] \in active'
                      /\ info'[command'[d]].comp = d /\ ~info'[command'[d]].acked
    BY DEF PendingCommandOwnerAlive
  <2>1. CASE d = c /\ ~stopped
    <3>1. command'[d] = q
      BY <1>3, <2>1 DEF IInv, Types
    <3> QED BY <1>1, <1>2, <1>3, <2>1, <3>1
  <2>2. CASE d # c \/ stopped
    <3>1. command'[d] = command[d]
      BY <1>3, <2>2 DEF IInv, Types
    <3>2. command[d] \in active /\ info[command[d]].comp = d /\ ~info[command[d]].acked
      BY <3>1 DEF IInv, PendingCommandOwnerAlive
    <3> QED BY <1>2, <1>3, <1>4, <3>1, <3>2
  <2> QED BY <2>1, <2>2
<1> QED BY <1>2, <1>5, <1>6, <1>7, <1>8, <1>9 DEF IInv

LEMMA RequestPreserves ==
    ASSUME IInv, NEW o \in Owner, NEW c \in Comp, NEW m \in Msg, requestMessage(o, c, m)
    PROVE  IInv'
<1> DEFINE refusal == IF stopped THEN "none" ELSE Refusal(command, c)
<1>1. refusal # "none" => refusal \in Code
  BY DEF Refusal, Code
<1>2. "duplicate" \in Code
  BY DEF Code
<1>3. issued < MaxRequests /\ issued' = issued + 1 /\ UNCHANGED <<linkUp, stopped, cancelled, tooLate, called>>
  BY DEF requestMessage
<1>4. CASE /\ stack' = Append(stack, FrameOf(issued + 1, Fresh(o, c, m), "duplicate"))
           /\ UNCHANGED <<maps, discarded>>
  BY <1>2, <1>3, <1>4, RefusedAtOnce
<1>5. CASE /\ refusal # "none" /\ stack' = Append(stack, FrameOf(issued + 1, Fresh(o, c, m), refusal))
           /\ UNCHANGED <<maps, discarded>>
  <2> HIDE DEF refusal
  <2> QED BY <1>1, <1>3, <1>5, RefusedAtOnce
<1>6. CASE /\ InComp(c) # {} /\ Allocates(o, c, m) /\ queue' = [queue EXCEPT ![c] = Append(@, issued + 1)]
           /\ UNCHANGED <<active, command>>
  BY <1>3, <1>6, JoinsTheLine
<1>7. CASE /\ InComp(c) = {} /\ Allocates(o, c, m) /\ active' = active \cup {issued + 1} /\ UNCHANGED queue
           /\ command' = IF stopped THEN command ELSE [command EXCEPT ![c] = issued + 1]
  BY <1>3, <1>7, StartsAtOnce
<1> QED BY <1>3, <1>4, <1>5, <1>6, <1>7 DEF requestMessage, Allocates, Fresh

-----------------------------------------------------------------------------
(* Steps that change what is known of requests, not which there are.       *)
SameRequests ==
    /\ info' \in [DOMAIN info -> Info]
    /\ \A p \in DOMAIN info : info'[p].comp = info[p].comp /\ (info'[p].ownHandler <=> info[p].ownHandler)
    /\ UNCHANGED <<active, queue, linkUp, stopped, stack, issued, discarded, cancelled, tooLate, called>>

LEMMA OnlyFlags ==
    ASSUME IInv, SameRequests, command' \in [Comp -> Request \cup {NoCommand, External}],
           stopped => command' = command
    PROVE  Types' /\ Maps' /\ Lines' /\ Stopping' /\ Frames' /\ Calls'
<1>1. DOMAIN info' = DOMAIN info /\ Queued' = Queued
  BY DEF SameRequests, Queued
<1>2. DOMAIN info = active \cup Queued
  BY DEF IInv, Maps
<1>3. Types' /\ Maps'
  BY <1>1 DEF IInv, Types, Maps, SameRequests
<1>4. Lines'
  <2>1. \A c \in Comp : Range(queue[c]) \subseteq DOMAIN info
    BY LinesAllocated
  <2> QED BY <1>1, <1>2, <2>1 DEF IInv, Lines, SameRequests
<1>5. Stopping'
  BY <1>1 DEF IInv, Stopping, SameRequests
<1>6. Frames'
  BY <1>1 DEF IInv, Frames, SameRequests
<1>7. Calls'
  BY <1>1 DEF IInv, Calls, SameRequests
<1> QED BY <1>3, <1>4, <1>5, <1>6, <1>7

LEMMA CancelPreserves ==
    ASSUME IInv, NEW o \in Owner, cancelRequests(o)
    PROVE  IInv'
<1>1. /\ info' = [q \in DOMAIN info |->
                     IF info[q].owner = o THEN [info[q] EXCEPT !.ownHandler = FALSE] ELSE info[q]]
      /\ cancelled' = cancelled \cup {q \in DOMAIN info : info[q].owner = o}
      /\ tooLate' = tooLate \cup Saved(o) /\ Saved(o) \subseteq Request
      /\ UNCHANGED <<active, queue, command, linkUp, stopped, stack, issued, discarded, called>>
  BY DEF cancelRequests, Saved
<1>2. DOMAIN info' = DOMAIN info /\ DOMAIN info \subseteq 1..issued /\ DOMAIN info \subseteq Request
  BY <1>1, LinesAllocated DEF IInv, Maps
<1>3. ASSUME NEW q \in DOMAIN info
      PROVE  /\ info'[q] \in Info /\ info'[q].comp = info[q].comp /\ (info'[q].acked <=> info[q].acked)
             /\ (info'[q].received <=> info[q].received) /\ info'[q].wait = info[q].wait
             /\ info'[q].ownHandler <=> info[q].ownHandler /\ info[q].owner # o
  <2>1. info[q] \in Info
    BY DEF IInv, Types
  <2>2. CASE info[q].owner = o
    BY <1>1, <2>1, <2>2 DEF Info
  <2>3. CASE info[q].owner # o
    BY <1>1, <2>1, <2>3
  <2> QED BY <2>2, <2>3
<1>4. Queued' = Queued /\ DOMAIN info = active \cup Queued
  BY <1>1 DEF Queued, IInv, Maps
<1>5. Types'
  BY <1>1, <1>2, <1>3 DEF IInv, Types
<1>6. Maps' /\ Stopping'
  BY <1>1, <1>2, <1>4 DEF IInv, Maps, Stopping
<1>7. Lines'
  <2>1. \A c \in Comp : Range(queue[c]) \subseteq DOMAIN info
    BY LinesAllocated
  <2> QED BY <1>1, <1>3, <1>4, <2>1 DEF IInv, Lines
<1>8. Awaiting' /\ PendingCommandOwnerAlive'
  BY <1>1, <1>2, <1>3, <1>4 DEF IInv, Awaiting, PendingCommandOwnerAlive
<1>9. Frames'
  <2>1. \A i \in DOMAIN stack : stack[i].req \notin DOMAIN info
    BY DEF IInv, Frames
  <2> QED BY <1>1, <1>2, <2>1 DEF IInv, Frames
<1>10. Calls'
  <2>1. cancelled' \subseteq 1..issued
    BY <1>1, <1>2 DEF IInv, Calls
  <2>2. \A q \in DOMAIN info : info'[q].ownHandler <=> q \notin cancelled'
    <3>1. \A q \in DOMAIN info : info[q].ownHandler <=> q \notin cancelled
      BY DEF IInv, Calls
    <3> QED BY <1>1, <1>3, <3>1
  <2>3. \A q \in Request : q > issued \/ q \in DOMAIN info \cup discarded \cup cancelled' => called[q] = 0
    <3>1. \A q \in Request : q > issued \/ q \in DOMAIN info \cup discarded \cup cancelled => called[q] = 0
      BY DEF IInv, Calls
    <3> QED BY <1>1, <3>1
  <2> QED BY <1>1, <1>2, <2>1, <2>2, <2>3 DEF IInv, Calls
<1> QED BY <1>5, <1>6, <1>7, <1>8, <1>9, <1>10 DEF IInv

LEMMA StopPreserves ==
    ASSUME IInv, stop
    PROVE  IInv'
<1>1. /\ ~stopped /\ stopped' = TRUE
      /\ discarded' = discarded \cup active \cup Queued
      /\ info' = << >> /\ active' = {} /\ queue' = [c \in Comp |-> <<>>]
      /\ command' = [c \in Comp |-> NoCommand]
      /\ UNCHANGED <<linkUp, stack, issued, cancelled, tooLate, called>>
  BY DEF stop
<1>2. DOMAIN info' = {} /\ info' \in [{} -> Info]
  BY <1>1
<1>3. /\ DOMAIN info = active \cup Queued /\ DOMAIN info \subseteq 1..issued /\ DOMAIN info \subseteq Request
      /\ discarded = {}
  BY <1>1, LinesAllocated DEF IInv, Maps, Stopping
<1>4. \A c \in Comp : queue'[c] = <<>> /\ Range(queue'[c]) = {} /\ IsInjective(queue'[c])
  BY <1>1 DEF Range, IsInjective
<1>5. Queued' = {}
  BY <1>4 DEF Queued
<1>6. Types'
  <2>1. command' \in [Comp -> Request \cup {NoCommand, External}]
    BY <1>1
  <2>2. queue' \in [Comp -> Seq(Request)]
    BY <1>1, EmptySeq
  <2>3. discarded' \subseteq Request /\ stopped' \in BOOLEAN /\ active' \subseteq DOMAIN info'
    BY <1>1, <1>3
  <2> QED BY <1>1, <1>2, <2>1, <2>2, <2>3 DEF IInv, Types
<1>7. Maps' /\ Lines' /\ Awaiting'
  BY <1>1, <1>2, <1>4, <1>5 DEF Maps, Lines, Awaiting
<1>8. PendingCommandOwnerAlive'
  BY <1>1 DEF PendingCommandOwnerAlive, NoCommand, Request
<1>9. Stopping'
  BY <1>1, <1>2, <1>3 DEF Stopping
<1>10. DOMAIN info' \cup discarded' = DOMAIN info \cup discarded
  BY <1>1, <1>2, <1>3
<1>11. Frames'
  BY <1>1, <1>10 DEF IInv, Frames
<1>12. Calls'
  BY <1>1, <1>2, <1>10 DEF IInv, Calls
<1> QED BY <1>6, <1>7, <1>8, <1>9, <1>11, <1>12 DEF IInv

(* The innermost frame ends, if its request's handler has been called or   *)
(* never will be.                                                          *)
LEMMA FramePopped ==
    ASSUME IInv, stack # <<>>, stack[Len(stack)].running \/ ~stack[Len(stack)].ownHandler,
           stack' = SubSeq(stack, 1, Len(stack) - 1),
           UNCHANGED <<maps, linkUp, stopped, issued, discarded, cancelled, tooLate, called>>
    PROVE  IInv'
<1> DEFINE n == Len(stack)
<1>1. /\ n \in Nat /\ n # 0 /\ DOMAIN stack = 1..n
      /\ stack' \in Seq(Frame) /\ DOMAIN stack' = 1..(n - 1)
      /\ \A i \in 1..(n - 1) : stack'[i] = stack[i]
  <2>1. stack \in Seq(Frame)
    BY DEF IInv, Types
  <2> QED BY <2>1, LastDropped, LenProperties
<1> HIDE DEF n
<1>2. \A i \in 1..(n - 1) : i \in 1..n /\ i # n
  BY <1>1
<1>3. \A i \in 1..n : i \in 1..(n - 1) \/ i = n
  BY <1>1
<1>4. UNCHANGED <<info, active, queue, command, linkUp, stopped, issued, discarded, cancelled, tooLate, called>> /\ Queued' = Queued
  BY DEF maps, Queued
<1>5. Types' /\ Maps' /\ Lines' /\ Awaiting' /\ PendingCommandOwnerAlive' /\ Stopping'
  BY <1>1, <1>4 DEF IInv, Types, Maps, Lines, Awaiting, PendingCommandOwnerAlive, Stopping
<1>6. Frames'
  BY <1>1, <1>2, <1>4 DEF IInv, Frames
<1>7. Calls'
  <2>1. stack[n].req \in cancelled \/ called[stack[n].req] = 1
    <3>1. n \in DOMAIN stack /\ (stack[n].running \/ ~stack[n].ownHandler)
      BY <1>1 DEF n
    <3> QED BY <3>1 DEF IInv, Frames
  <2>2. ASSUME NEW q \in (1..issued) \ (DOMAIN info \cup discarded \cup cancelled)
        PROVE  called[q] = 1 \/ \E i \in 1..(n - 1) : stack'[i].req = q
    <3>1. called[q] = 1 \/ \E i \in 1..n : stack[i].req = q
      BY <1>1 DEF IInv, Calls
    <3> QED BY <1>1, <1>3, <2>1, <3>1
  <2> QED BY <1>1, <1>4, <2>2 DEF IInv, Calls
<1> QED BY <1>5, <1>6, <1>7 DEF IInv

LEMMA HandlerCallPreserves ==
    ASSUME IInv, CallHandler
    PROVE  IInv'
<1> DEFINE n == Len(stack)
           q == stack[n].req
<1>1. stack # <<>> /\ ~stack[n].running /\ UNCHANGED <<maps, linkUp, stopped, issued, discarded, cancelled, tooLate>>
  BY DEF CallHandler
<1>2. CASE ~stack[n].ownHandler
  <2>1. stack' = SubSeq(stack, 1, n - 1) /\ UNCHANGED called
    BY <1>2 DEF CallHandler
  <2> QED BY <1>1, <1>2, <2>1, FramePopped
<1>3. CASE stack[n].ownHandler
  <2>1. stack' = [stack EXCEPT ![n].running = TRUE] /\ called' = [called EXCEPT ![q] = @ + 1]
    BY <1>3 DEF CallHandler
  <2>2. stack \in Seq(Frame) /\ n \in 1..n /\ DOMAIN stack = 1..n /\ n \in Nat
    BY <1>1, EmptySeq, LenProperties DEF IInv, Types
  <2>3. q \in (1..issued) \ (DOMAIN info \cup discarded) /\ q \notin cancelled /\ called[q] = 0
    BY <1>1, <1>3, <2>2 DEF IInv, Frames
  <2>4. q \in Request
    BY <2>3, CoordinatorParameters DEF IInv, Types, Request
  <2>5. /\ called' \in [Request -> Nat] /\ called'[q] = 1 /\ \A p \in Request \ {q} : called'[p] = called[p]
    BY <2>1, <2>3, <2>4 DEF IInv, Types
  <2>6. /\ DOMAIN stack' = 1..n
        /\ stack'[n] = [stack[n] EXCEPT !.running = TRUE]
        /\ \A i \in 1..n : i # n => stack'[i] = stack[i]
    BY <2>1, <2>2
  <2>7. stack[n] \in Frame
    BY <2>2
  <2>8. stack'[n] \in Frame /\ stack'[n].req = q /\ (stack'[n].ownHandler <=> stack[n].ownHandler) /\ stack'[n].running
    BY <2>6, <2>7 DEF Frame
  <2>9. stack' \in Seq(Frame)
    <3>1. \A i \in 1..n : stack'[i] \in Frame
      <4>1. \A i \in 1..n : stack[i] \in Frame
        BY <2>2
      <4> HIDE DEF n, q
      <4> QED BY <2>6, <2>8, <4>1
    <3>2. stack' \in [1..n -> Frame]
      BY <2>1, <2>2, <3>1
    <3> QED BY <2>2, <3>2, SeqDef
  <2> HIDE DEF n, q
  <2>10. \A i \in 1..n : stack'[i].req = stack[i].req /\ (stack'[i].ownHandler <=> stack[i].ownHandler)
    BY <2>6, <2>8 DEF q
  <2>11. UNCHANGED <<info, active, queue, command, linkUp, stopped, issued, discarded, cancelled, tooLate>> /\ Queued' = Queued
    BY <1>1 DEF maps, Queued
  <2>12. Types' /\ Maps' /\ Lines' /\ Awaiting' /\ PendingCommandOwnerAlive' /\ Stopping'
    BY <2>5, <2>9, <2>11 DEF IInv, Types, Maps, Lines, Awaiting, PendingCommandOwnerAlive, Stopping
  <2>13. Frames'
    <3>1. \A i, j \in 1..n : stack'[i].req = stack'[j].req => i = j
      BY <2>2, <2>10 DEF IInv, Frames
    <3>2. ASSUME NEW i \in 1..n
          PROVE  /\ stack'[i].req \in (1..issued) \ (DOMAIN info \cup discarded)
                 /\ stack'[i].ownHandler <=> stack'[i].req \notin cancelled
                 /\ called'[stack'[i].req] = IF stack'[i].running THEN 1 ELSE 0
      <4>1. /\ stack[i].req \in (1..issued) \ (DOMAIN info \cup discarded)
            /\ stack[i].ownHandler <=> stack[i].req \notin cancelled
            /\ called[stack[i].req] = IF stack[i].running THEN 1 ELSE 0
        BY <2>2 DEF IInv, Frames
      <4>2. CASE i = n
        BY <2>5, <2>8, <2>10, <4>1, <4>2
      <4>3. CASE i # n
        <5>1. stack'[i] = stack[i]
          BY <2>6, <4>3
        <5>2. stack[i].req # q
          BY <2>2, <2>8, <2>10, <3>1, <4>3
        <5>3. stack[i].req \in Request
          BY <4>1, CoordinatorParameters DEF IInv, Types, Request
        <5> QED BY <2>5, <4>1, <5>1, <5>2, <5>3
      <4> QED BY <4>2, <4>3
    <3> QED BY <2>6, <2>11, <3>1, <3>2 DEF Frames
  <2>14. Calls'
    <3>1. \A p \in Request : called'[p] \in {0, 1}
      BY <2>5 DEF IInv, Calls
    <3>2. \A p \in Request : p > issued \/ p \in DOMAIN info \cup discarded \cup cancelled => called'[p] = 0
      <4>1. ~(q > issued)
        BY <2>3 DEF IInv, Types
      <4> QED BY <2>3, <2>5, <4>1 DEF IInv, Calls
    <3>3. ASSUME NEW p \in (1..issued) \ (DOMAIN info \cup discarded \cup cancelled)
          PROVE  called'[p] = 1 \/ \E i \in 1..n : stack'[i].req = p
      <4>1. called[p] = 1 \/ \E i \in 1..n : stack[i].req = p
        BY <2>2 DEF IInv, Calls
      <4>2. p \in Request
        BY CoordinatorParameters DEF IInv, Types, Request
      <4> QED BY <2>5, <2>10, <4>1, <4>2
    <3> QED BY <2>6, <2>11, <3>1, <3>2, <3>3 DEF IInv, Calls
  <2> QED BY <2>12, <2>13, <2>14 DEF IInv
<1> QED BY <1>2, <1>3

-----------------------------------------------------------------------------
(* Acks and messages.                                                      *)

(* The command of an acked request has ended, and no other request of its  *)
(* component has one pending.                                              *)
LEMMA AckedOwnsNoCommand ==
    ASSUME IInv, NEW q \in active, info[q].acked
    PROVE  command[info[q].comp] \notin Request /\ ~stopped /\ ~info[q].received
<1> DEFINE c == info[q].comp
<1>1. c \in Comp
  BY DEF IInv, Types, Info
<1> SUFFICES ASSUME command[c] \in Request PROVE FALSE
  BY DEF IInv, Awaiting
<1>2. PICK p : p = command[c]
  OBVIOUS
<1>3. p \in active /\ info[p].comp = c /\ ~info[p].acked
  BY <1>1, <1>2 DEF IInv, PendingCommandOwnerAlive
<1>4. p = q
  BY <1>3 DEF IInv, Lines
<1> QED BY <1>3, <1>4

(* The flags of one active request change.                                 *)
LEMMA OneFlagChanges ==
    ASSUME IInv, NEW q \in active, NEW i \in Info, info' = [info EXCEPT ![q] = i],
           i.comp = info[q].comp, i.ownHandler <=> info[q].ownHandler, i.acked <=> i.wait # "off",
           IF i.acked THEN ~i.received /\ ~stopped ELSE ~info[q].acked /\ UNCHANGED command,
           command' \in [Comp -> Request \cup {NoCommand, External}],
           \A d \in Comp \ {info[q].comp} : command'[d] = command[d],
           stopped => UNCHANGED command,
           i.acked => command'[info[q].comp] \notin Request,
           UNCHANGED <<active, queue, linkUp, stopped, stack, issued, discarded, cancelled, tooLate, called>>
    PROVE  IInv'
<1> DEFINE c == info[q].comp
<1>1. /\ DOMAIN info' = DOMAIN info /\ info' \in [DOMAIN info -> Info] /\ q \in DOMAIN info /\ info'[q] = i
      /\ \A p \in DOMAIN info : p # q => info'[p] = info[p]
  BY DEF IInv, Types
<1>2. SameRequests
  BY <1>1 DEF SameRequests
<1>3. Types' /\ Maps' /\ Lines' /\ Stopping' /\ Frames' /\ Calls'
  BY <1>2, OnlyFlags
<1>4. c \in Comp /\ active \subseteq DOMAIN info
  BY <1>1 DEF IInv, Types, Info
<1>5. Awaiting'
  <2>1. ASSUME NEW p \in DOMAIN info
        PROVE  (info'[p].acked <=> info'[p].wait # "off") /\ (info'[p].acked => p \in active)
    BY <1>1 DEF IInv, Awaiting
  <2>2. ASSUME NEW p \in active
        PROVE  IF info'[p].acked THEN ~info'[p].received /\ ~stopped
                                 ELSE stopped \/ command'[info'[p].comp] = p
    <3>1. IF info[p].acked THEN ~info[p].received /\ ~stopped ELSE stopped \/ command[info[p].comp] = p
      BY DEF IInv, Awaiting
    <3>2. CASE p = q
      BY <1>1, <3>1, <3>2
    <3>3. CASE p # q
      <4>1. info'[p] = info[p] /\ info[p].comp \in Comp /\ info[p].comp # c
        BY <1>1, <1>4, <3>3 DEF IInv, Types, Lines, Info
      <4>2. command'[info[p].comp] = command[info[p].comp]
        BY <4>1
      <4> QED BY <3>1, <4>1, <4>2
    <3> QED BY <3>2, <3>3
  <2> QED BY <1>1, <2>1, <2>2 DEF Awaiting
<1>6. PendingCommandOwnerAlive'
  <2> SUFFICES ASSUME NEW d \in Comp, command'[d] \in Request
               PROVE  /\ command'[d] \in active
                      /\ info'[command'[d]].comp = d /\ ~info'[command'[d]].acked
    BY DEF PendingCommandOwnerAlive
  <2>1. command'[d] = command[d]
    <3>1. d = c => ~i.acked
      OBVIOUS
    <3> QED BY <3>1
  <2>2. PICK p : p = command[d]
    OBVIOUS
  <2>3. p \in active /\ info[p].comp = d /\ ~info[p].acked
    BY <2>1, <2>2 DEF IInv, PendingCommandOwnerAlive
  <2>4. CASE p = q
    BY <1>1, <2>1, <2>2, <2>3, <2>4
  <2>5. CASE p # q
    BY <1>1, <1>4, <2>1, <2>2, <2>3, <2>5
  <2> QED BY <2>4, <2>5
<1> QED BY <1>3, <1>5, <1>6 DEF IInv

LEMMA CommandEndPreserves ==
    ASSUME IInv, NEW c \in Comp, NEW code \in {"ok", "commandError", "notAcked"}, CommandEnds(c, code)
    PROVE  IInv' /\ (command[c] # External => ~stopped /\ command[c] \in active)
<1> DEFINE q == command[c]
           pending == [command EXCEPT ![c] = NoCommand]
<1>1. /\ q # NoCommand /\ _cmdResultHandler(c, code) /\ q \in Request \cup {External}
      /\ UNCHANGED <<linkUp, stopped, issued, discarded, cancelled, tooLate, called>>
  BY DEF CommandEnds, IInv, Types
<1>2. ~stopped
  BY <1>1 DEF IInv, Stopping
<1>3. /\ pending \in [Comp -> Request \cup {NoCommand, External}] /\ pending[c] = NoCommand
      /\ \A d \in Comp \ {c} : pending[d] = command[d]
  BY DEF IInv, Types
<1>4. NoCommand \notin Request /\ External \notin Request /\ code \in Code
  BY CoordinatorParameters DEF NoCommand, External, Request, Code
<1>5. CASE q = External
  <2>1. command' = pending /\ UNCHANGED <<info, active, queue, stack>>
    BY <1>1, <1>5 DEF _cmdResultHandler
  <2>2. SameRequests
    BY <1>1, <2>1 DEF SameRequests, IInv, Types
  <2>3. Types' /\ Maps' /\ Lines' /\ Stopping' /\ Frames' /\ Calls'
    BY <1>2, <1>3, <2>1, <2>2, OnlyFlags
  <2>4. Awaiting'
    <3>1. \A p \in active : ~info[p].acked => info[p].comp # c
      BY <1>2, <1>4, <1>5, LinesAllocated DEF IInv, Awaiting, Maps
    <3>2. \A p \in active : info[p].comp \in Comp
      BY DEF IInv, Types, Info
    <3> QED BY <1>1, <1>3, <2>1, <3>1, <3>2 DEF IInv, Awaiting
  <2>5. PendingCommandOwnerAlive'
    BY <1>3, <1>4, <2>1 DEF IInv, PendingCommandOwnerAlive
  <2> QED BY <1>5, <2>3, <2>4, <2>5 DEF IInv
<1>6. CASE q # External
  <2>1. q \in active /\ info[q].comp = c /\ ~info[q].acked
    BY <1>1, <1>6 DEF IInv, PendingCommandOwnerAlive
  <2>2. CASE \E end \in Code : Finish(q, end, pending)
    <3>1. PICK end \in Code : Finish(q, end, pending)
      BY <2>2
    <3>2. EndOf(q, end, pending)
      BY <1>3, <1>4, <2>1, <3>1 DEF EndOf
    <3> HIDE DEF pending, q
    <3>3. IInv'
      BY <1>1, <1>2, <2>1, <3>2, FinishPreserves
    <3> QED BY <1>2, <2>1, <3>3 DEF q
  <2>3. CASE code = "ok" /\ ~info[q].received /\ AckedFirst(q) /\ command' = pending /\ UNCHANGED <<active, queue, stack>>
    <3> DEFINE i == [info[q] EXCEPT !.acked = TRUE, !.wait = "running"]
    <3>1. info[q] \in Info /\ info' = [info EXCEPT ![q] = i]
      BY <2>1, <2>3 DEF AckedFirst, IInv, Types
    <3>2. /\ i \in Info /\ i.comp = c /\ (i.ownHandler <=> info[q].ownHandler) /\ i.acked /\ i.wait = "running"
          /\ (i.received <=> info[q].received)
      BY <2>1, <3>1 DEF Info
    <3> HIDE DEF i
    <3>3. /\ command' \in [Comp -> Request \cup {NoCommand, External}]
          /\ \A d \in Comp \ {info[q].comp} : command'[d] = command[d]
          /\ command'[info[q].comp] \notin Request
      BY <1>3, <1>4, <2>1, <2>3
    <3> HIDE DEF q
    <3>4. IInv'
      BY <1>1, <1>2, <2>1, <2>3, <3>1, <3>2, <3>3, OneFlagChanges
    <3> QED BY <1>2, <2>1, <3>4 DEF q
  <2>4. "ok" \in Code
    BY DEF Code
  <2> QED BY <1>1, <1>4, <1>6, <2>2, <2>3, <2>4 DEF _cmdResultHandler
<1> QED BY <1>5, <1>6

(* A message ends an acked request, or marks one that is not.              *)
LEMMA MessageEnds ==
    ASSUME IInv, NEW q \in active, info[q].acked, NEW code \in Code, Finish(q, code, command),
           UNCHANGED <<linkUp, stopped, issued, discarded, cancelled, tooLate, called>>
    PROVE  IInv' /\ ~stopped
<1>1. command[info[q].comp] \notin Request /\ ~stopped
  BY AckedOwnsNoCommand
<1>2. EndOf(q, code, command)
  BY <1>1 DEF EndOf, IInv, Types
<1> QED BY <1>1, <1>2, FinishPreserves

MessageAnswers ==
    \E q \in active, code \in {"ok", "notReceived"} : info[q].acked /\ Finish(q, code, command)

LEMMA MessageCases ==
    ASSUME IInv, NEW c \in Comp, NEW m, handleReceivedMessage(c, m)
    PROVE  /\ UNCHANGED <<linkUp, stopped, issued, discarded, cancelled, tooLate, called>>
           /\ \/ MessageAnswers
              \/ \E q \in active : ~info[q].acked /\ ReceivedFirst(q)
<1>1. \A q \in TimedOut : q \in active /\ info[q].acked
  BY DEF TimedOut, IInv, Awaiting, Types
<1> QED BY <1>1 DEF handleReceivedMessage, InComp, MessageAnswers

LEMMA MessagePreserves ==
    ASSUME IInv, NEW c \in Comp, NEW m, handleReceivedMessage(c, m)
    PROVE  IInv'
<1>1. UNCHANGED <<linkUp, stopped, issued, discarded, cancelled, tooLate, called>>
  BY MessageCases
<1>2. CASE MessageAnswers
  <2>1. PICK q \in active, code \in {"ok", "notReceived"} : info[q].acked /\ Finish(q, code, command)
    BY <1>2 DEF MessageAnswers
  <2>2. code \in Code
    BY DEF Code
  <2> QED BY <1>1, <2>1, <2>2, MessageEnds
<1>3. CASE \E q \in active : ~info[q].acked /\ ReceivedFirst(q)
  <2>1. PICK q \in active : ~info[q].acked /\ ReceivedFirst(q)
    BY <1>3
  <2> DEFINE i == [info[q] EXCEPT !.received = TRUE]
  <2>2. info[q] \in Info /\ info' = [info EXCEPT ![q] = i] /\ UNCHANGED <<active, queue, command, stack>>
    BY <2>1 DEF ReceivedFirst, IInv, Types
  <2>3. /\ i \in Info /\ i.comp = info[q].comp /\ (i.ownHandler <=> info[q].ownHandler)
        /\ (i.acked <=> info[q].acked) /\ i.wait = info[q].wait
    BY <2>2 DEF Info
  <2>4. (info[q].acked <=> info[q].wait # "off") /\ command \in [Comp -> Request \cup {NoCommand, External}]
    BY DEF IInv, Awaiting, Types
  <2> HIDE DEF i
  <2> QED BY <1>1, <2>1, <2>2, <2>3, <2>4, OneFlagChanges
<1> QED BY <1>2, <1>3, MessageCases

LEMMA ClockPreserves ==
    ASSUME IInv, WaitExpires
    PROVE  IInv'
<1>1. PICK q \in active : info[q].wait = "running" /\ info' = [info EXCEPT ![q].wait = "expired"]
  BY DEF WaitExpires
<1>2. UNCHANGED <<active, queue, command, linkUp, stopped, stack, issued, discarded, cancelled, tooLate, called>>
  BY DEF WaitExpires
<1> DEFINE i == [info[q] EXCEPT !.wait = "expired"]
<1>3. info[q] \in Info /\ info' = [info EXCEPT ![q] = i]
  BY <1>1 DEF IInv, Types
<1>4. info[q].acked /\ command \in [Comp -> Request \cup {NoCommand, External}]
  BY <1>1 DEF IInv, Awaiting, Types
<1>5. command[info[q].comp] \notin Request /\ ~stopped /\ ~info[q].received
  BY <1>4, AckedOwnsNoCommand
<1>6. /\ i \in Info /\ i.comp = info[q].comp /\ (i.ownHandler <=> info[q].ownHandler)
      /\ i.acked /\ (i.received <=> info[q].received) /\ i.wait = "expired"
  BY <1>3, <1>4 DEF Info
<1> HIDE DEF i
<1> QED BY <1>2, <1>3, <1>4, <1>5, <1>6, OneFlagChanges

LEMMA ExternalPreserves ==
    ASSUME IInv, NEW c \in Comp, ExternalRequestMessage(c)
    PROVE  IInv'
<1>1. /\ ~stopped /\ command[c] = NoCommand /\ command' = [command EXCEPT ![c] = External]
      /\ UNCHANGED <<info, active, queue, linkUp, stopped, stack, issued, discarded, cancelled, tooLate, called>>
  BY DEF ExternalRequestMessage
<1>2. /\ command' \in [Comp -> Request \cup {NoCommand, External}] /\ command'[c] = External
      /\ \A d \in Comp \ {c} : command'[d] = command[d]
  BY <1>1 DEF IInv, Types
<1>3. NoCommand \notin Request /\ External \notin Request
  BY CoordinatorParameters DEF NoCommand, External, Request
<1>4. SameRequests
  BY <1>1 DEF SameRequests, IInv, Types
<1>5. Types' /\ Maps' /\ Lines' /\ Stopping' /\ Frames' /\ Calls'
  BY <1>1, <1>2, <1>4, OnlyFlags
<1>6. Awaiting'
  <2>1. \A p \in active : ~info[p].acked => info[p].comp # c
    BY <1>1, <1>3, LinesAllocated DEF IInv, Awaiting, Maps
  <2>2. \A p \in active : info[p].comp \in Comp
    BY DEF IInv, Types, Info
  <2> QED BY <1>1, <1>2, <2>1, <2>2 DEF IInv, Awaiting
<1>7. PendingCommandOwnerAlive'
  BY <1>1, <1>2, <1>3 DEF IInv, PendingCommandOwnerAlive
<1> QED BY <1>5, <1>6, <1>7 DEF IInv

-----------------------------------------------------------------------------
LEMMA InitInv == Init => IInv
<1> SUFFICES ASSUME Init PROVE IInv
  OBVIOUS
<1>1. DOMAIN info = {} /\ info \in [{} -> Info] /\ active = {} /\ issued = 0 /\ issued \in 0..MaxRequests
  BY CoordinatorParameters DEF Init
<1>2. \A c \in Comp : queue[c] = <<>> /\ Range(queue[c]) = {} /\ IsInjective(queue[c])
  BY DEF Init, Range, IsInjective
<1>3. Queued = {}
  BY <1>2 DEF Queued
<1>4. Types
  <2>1. command \in [Comp -> Request \cup {NoCommand, External}]
    BY DEF Init
  <2>2. queue \in [Comp -> Seq(Request)] /\ stack \in Seq(Frame)
    BY EmptySeq DEF Init
  <2> QED BY <1>1, <2>1, <2>2 DEF Init, Types
<1>5. Maps /\ Lines /\ Awaiting
  BY <1>1, <1>2, <1>3 DEF Maps, Lines, Awaiting
<1>6. PendingCommandOwnerAlive
  BY DEF Init, PendingCommandOwnerAlive, NoCommand, Request
<1>7. Stopping /\ Frames
  BY <1>1 DEF Init, Stopping, Frames
<1>8. Calls
  BY <1>1 DEF Init, Calls
<1> QED BY <1>4, <1>5, <1>6, <1>7, <1>8 DEF IInv

LEMMA NextInv == IInv /\ [Next]_vars => IInv'
<1> SUFFICES ASSUME IInv, [Next]_vars PROVE IInv'
  OBVIOUS
<1>1. ASSUME NEW a \in Asks, NEW c \in Comp, requestMessage(a[1], c, a[2]) PROVE IInv'
  <2>1. a[1] \in Owner /\ a[2] \in Msg
    BY CoordinatorParameters
  <2> QED BY <1>1, <2>1, RequestPreserves
<1>2. ASSUME NEW o \in Owner, cancelRequests(o) PROVE IInv'
  BY <1>2, CancelPreserves
<1>3. ASSUME NEW c \in Comp, NEW code \in {"ok", "commandError", "notAcked"}, CommandEnds(c, code) PROVE IInv'
  BY <1>3, CommandEndPreserves
<1>4. ASSUME NEW c \in Comp, NEW m \in Msg \cup {OtherMsg}, handleReceivedMessage(c, m) PROVE IInv'
  BY <1>4, MessagePreserves
<1>5. ASSUME NEW c \in Comp, ExternalRequestMessage(c) PROVE IInv'
  BY <1>5, ExternalPreserves
<1>6. CASE CallHandler
  BY <1>6, HandlerCallPreserves
<1>7. CASE HandlerReturns
  BY <1>7, FramePopped DEF HandlerReturns
<1>8. CASE stop
  BY <1>8, StopPreserves
<1>9. CASE WaitExpires
  BY <1>9, ClockPreserves
<1>10. CASE LinkChanges \/ UNCHANGED vars
  <2>1. /\ UNCHANGED <<info, active, queue, command, stopped, stack, issued, discarded, cancelled, tooLate, called>>
        /\ linkUp' \in BOOLEAN /\ Queued' = Queued
    BY <1>10 DEF LinkChanges, vars, maps, Queued, IInv, Types
  <2> QED BY <2>1 DEF IInv, Types, Maps, Lines, Awaiting, PendingCommandOwnerAlive, Stopping, Frames, Calls
<1> QED BY <1>1, <1>2, <1>3, <1>4, <1>5, <1>6, <1>7, <1>8, <1>9, <1>10 DEF Next

(* Every state of the coordinator satisfies the invariant.                 *)
THEOREM Inductive == Spec => []IInv
BY InitInv, NextInv, PTL DEF Spec

(* TypeOK: in particular a line holds allocated requests only.             *)
THEOREM TypeCorrect == Spec => []TypeOK
BY Inductive, TypesMeanTypeOK, PTL

(* The pointer the command queue holds is to an allocated, active request. *)
THEOREM OwnerAlive == Spec => []PendingCommandOwnerAlive
<1>1. IInv => PendingCommandOwnerAlive
  BY DEF IInv
<1> QED BY <1>1, Inductive, PTL

(* NoRequestStranded: whatever is active will be ended by something, and   *)
(* whatever waits in a line stands behind the one active request.          *)
THEOREM NoneStranded == Spec => []NoRequestStranded
<1>1. IInv => NoRequestStranded
  <2> SUFFICES ASSUME IInv PROVE NoRequestStranded
    OBVIOUS
  <2>1. active \subseteq DOMAIN info
    BY DEF IInv, Types
  <2>2. ASSUME ~stopped, NEW q \in active
        PROVE  IF info[q].acked THEN ~info[q].received /\ info[q].wait # "off"
                                ELSE command[info[q].comp] = q
    BY <2>1, <2>2 DEF IInv, Awaiting
  <2>3. ASSUME NEW c \in Comp
        PROVE  Cardinality(InComp(c)) <= 1 /\ (queue[c] # <<>> => InComp(c) # {})
    <3>1. \A p, q \in InComp(c) : p = q
      BY DEF IInv, Lines, InComp
    <3>2. CASE InComp(c) = {}
      <4>1. Cardinality(InComp(c)) = 0
        BY <3>2, FS_EmptySet
      <4> QED BY <3>2, <4>1 DEF IInv, Lines, InComp
    <3>3. CASE InComp(c) # {}
      <4>1. PICK q : InComp(c) = {q}
        BY <3>1, <3>3
      <4>2. Cardinality(InComp(c)) = 1
        BY <4>1, FS_Singleton
      <4> QED BY <3>3, <4>2
    <3> QED BY <3>2, <3>3
  <2> QED BY <2>2, <2>3 DEF NoRequestStranded
<1> QED BY <1>1, Inductive, PTL

-----------------------------------------------------------------------------
(* The coordinator is a request service.                                   *)

LEMMA StatusIs ==
    ASSUME IInv, NEW q \in Request
    PROVE  RequestStatus(q) = IF q > issued THEN "new"
                              ELSE IF q \in discarded THEN "discarded"
                              ELSE IF q \in DOMAIN info THEN "waiting" ELSE "answered"
<1>1. q > issued => q \notin DOMAIN info /\ q \notin discarded
  BY DEF IInv, Maps, Stopping, Types
<1> QED BY <1>1 DEF IInv, Maps, RequestStatus

LEMMA StatusIsNext ==
    ASSUME IInv', NEW q \in Request
    PROVE  RequestStatus(q)' = IF q > issued' THEN "new"
                               ELSE IF q \in discarded' THEN "discarded"
                               ELSE IF q \in DOMAIN info' THEN "waiting" ELSE "answered"
<1>1. q > issued' => q \notin DOMAIN info' /\ q \notin discarded'
  BY DEF IInv, Maps, Stopping, Types
<1> QED BY <1>1 DEF IInv, Maps, RequestStatus

Status == [q \in Request |-> RequestStatus(q)]

LEMMA InvisibleStep ==
    ASSUME IInv, IInv', UNCHANGED <<issued, discarded, stopped>>, DOMAIN info' = DOMAIN info
    PROVE  UNCHANGED Lifecycle!vars
<1>1. \A q \in Request : RequestStatus(q)' = RequestStatus(q)
  BY StatusIs, StatusIsNext
<1> QED BY <1>1 DEF Lifecycle!vars

(* A request is made: it joins the maps, unless it is answered at once, or *)
(* the coordinator has stopped and discards it.                            *)
LEMMA MakingStep ==
    ASSUME IInv, IInv', NEW o \in Owner, NEW c \in Comp, NEW m \in Msg, requestMessage(o, c, m)
    PROVE  Lifecycle!Next
<1>1. PICK q0 : q0 = issued + 1
  OBVIOUS
<1>2. /\ q0 \in Request /\ issued \in Nat /\ issued' = q0 /\ UNCHANGED stopped
      /\ q0 \notin DOMAIN info /\ q0 \notin discarded /\ issued < MaxRequests
  BY <1>1, FreshIs DEF requestMessage
<1>3. /\ DOMAIN info' \in {DOMAIN info, DOMAIN info \cup {q0}}
      /\ discarded' \in {discarded, discarded \cup {q0}}
      /\ stopped /\ q0 \in DOMAIN info' => q0 \in discarded'
      /\ q0 \in discarded' => stopped
  BY <1>1, <1>2 DEF requestMessage, maps
<1>4. \A q \in Request : q \in Nat /\ (q # q0 => (q > issued' <=> q > issued)) /\ ~(q0 > issued') /\ q0 > issued
  BY <1>1, <1>2 DEF Request
<1>5. \A q \in Request : q # q0 => RequestStatus(q)' = RequestStatus(q)
  BY <1>3, <1>4, StatusIs, StatusIsNext
<1>6. RequestStatus(q0) = "new"
  BY <1>2, <1>4, StatusIs
<1>7. RequestStatus(q0)' \in {"answered"} \cup (IF stopped THEN {"discarded"} ELSE {"waiting"})
  BY <1>2, <1>3, <1>4, StatusIsNext
<1>8. PICK s \in {"answered"} \cup (IF stopped THEN {"discarded"} ELSE {"waiting"}) : s = RequestStatus(q0)'
  BY <1>7
<1>9. Status' = [Status EXCEPT ![q0] = s] /\ Status[q0] = "new"
  BY <1>2, <1>5, <1>6, <1>8 DEF Status
<1>10. Lifecycle!Make(q0)
  BY <1>2, <1>9 DEF Lifecycle!Make, Status
<1> QED BY <1>2, <1>10 DEF Lifecycle!Next

(* Requests leave the maps together: the end of one may drain its line.    *)
LEMMA AnsweringStep ==
    ASSUME IInv, IInv', ~stopped, NEW q0 \in active, NEW code, NEW pending, Finish(q0, code, pending),
           UNCHANGED <<stopped, issued, discarded>>
    PROVE  Lifecycle!Next
<1>1. PICK gone : gone \subseteq DOMAIN info /\ q0 \in gone /\ DOMAIN info' = DOMAIN info \ gone
  <2>1. q0 \in DOMAIN info /\ info[q0].comp \in Comp
    BY DEF IInv, Types, Info
  <2>2. Range(queue[info[q0].comp]) \subseteq DOMAIN info
    BY <2>1, LinesAllocated
  <2>3. info' = Without({q0}) \/ info' = Without({q0} \cup Range(queue[info[q0].comp]))
    BY DEF Finish
  <2>4. \A some : DOMAIN Without(some) = DOMAIN info \ some
    BY WithoutIs
  <2> QED BY <2>1, <2>2, <2>3, <2>4
<1>2. gone \subseteq Request /\ discarded = {}
  BY <1>1, LinesAllocated DEF IInv, Stopping
<1>3. \A q \in DOMAIN info : ~(q > issued)
  BY DEF IInv, Maps, Types
<1>4. \A q \in gone : RequestStatus(q) = "waiting" /\ RequestStatus(q)' = "answered"
  BY <1>1, <1>2, <1>3, StatusIs, StatusIsNext
<1>5. \A q \in Request \ gone : RequestStatus(q)' = RequestStatus(q)
  BY <1>1, StatusIs, StatusIsNext
<1>6. Status' = [q \in Request |-> IF q \in gone THEN "answered" ELSE Status[q]]
  BY <1>2, <1>4, <1>5 DEF Status
<1>7. \A q \in gone : Status[q] = "waiting"
  BY <1>2, <1>4 DEF Status
<1>8. Lifecycle!Answer(gone)
  BY <1>1, <1>6, <1>7 DEF Lifecycle!Answer, Status
<1> QED BY <1>2, <1>8 DEF Lifecycle!Next

LEMMA ClosingStep ==
    ASSUME IInv, IInv', stop
    PROVE  Lifecycle!Next
<1>1. /\ ~stopped /\ stopped' = TRUE /\ UNCHANGED issued /\ discarded = {} /\ discarded' = DOMAIN info
      /\ DOMAIN info' = {}
  BY DEF stop, IInv, Stopping, Maps
<1>2. \A q \in DOMAIN info : ~(q > issued)
  BY DEF IInv, Maps, Types
<1>3. \A q \in Request :
         RequestStatus(q)' = IF RequestStatus(q) = "waiting" THEN "discarded" ELSE RequestStatus(q)
  BY <1>1, <1>2, StatusIs, StatusIsNext
<1>4. Status' = [q \in Request |-> IF Status[q] = "waiting" THEN "discarded" ELSE Status[q]]
  BY <1>3 DEF Status
<1>5. Lifecycle!Close
  BY <1>1, <1>4 DEF Lifecycle!Close, Status
<1> QED BY <1>5 DEF Lifecycle!Next

LEMMA LifecycleStep ==
    ASSUME IInv, IInv', [Next]_vars
    PROVE  Lifecycle!Next \/ UNCHANGED Lifecycle!vars
<1>1. ASSUME NEW a \in Asks, NEW c \in Comp, requestMessage(a[1], c, a[2]) PROVE Lifecycle!Next
  <2>1. a[1] \in Owner /\ a[2] \in Msg
    BY CoordinatorParameters
  <2> QED BY <1>1, <2>1, MakingStep
<1>2. ASSUME NEW c \in Comp, NEW code \in {"ok", "commandError", "notAcked"}, CommandEnds(c, code)
      PROVE  Lifecycle!Next \/ UNCHANGED Lifecycle!vars
  <2> DEFINE q == command[c]
             pending == [command EXCEPT ![c] = NoCommand]
  <2>1. UNCHANGED <<stopped, issued, discarded>> /\ _cmdResultHandler(c, code)
    BY <1>2 DEF CommandEnds
  <2>2. q # External => ~stopped /\ q \in active
    BY <1>2, CommandEndPreserves
  <2>3. CASE UNCHANGED info \/ AckedFirst(q)
    <3>1. DOMAIN info' = DOMAIN info
      BY <2>3 DEF AckedFirst
    <3> QED BY <2>1, <3>1, InvisibleStep
  <2>4. CASE q # External /\ \E end : Finish(q, end, pending)
    <3> HIDE DEF q, pending
    <3> QED BY <2>1, <2>2, <2>4, AnsweringStep
  <2> QED BY <2>1, <2>3, <2>4 DEF _cmdResultHandler
<1>3. ASSUME NEW c \in Comp, NEW m \in Msg \cup {OtherMsg}, handleReceivedMessage(c, m)
      PROVE  Lifecycle!Next \/ UNCHANGED Lifecycle!vars
  <2>1. UNCHANGED <<stopped, issued, discarded>>
    BY <1>3, MessageCases
  <2>2. CASE MessageAnswers
    <3>1. PICK q \in active, code \in {"ok", "notReceived"} : info[q].acked /\ Finish(q, code, command)
      BY <2>2 DEF MessageAnswers
    <3>2. ~stopped
      BY <3>1, AckedOwnsNoCommand
    <3> QED BY <2>1, <3>1, <3>2, AnsweringStep
  <2>3. CASE \E q \in active : ~info[q].acked /\ ReceivedFirst(q)
    <3>1. DOMAIN info' = DOMAIN info
      BY <2>3 DEF ReceivedFirst
    <3> QED BY <2>1, <3>1, InvisibleStep
  <2> QED BY <1>3, <2>2, <2>3, MessageCases
<1>4. CASE stop
  BY <1>4, ClosingStep
<1>5. CASE \/ \E o \in Owner : cancelRequests(o)
           \/ \E c \in Comp : ExternalRequestMessage(c)
           \/ CallHandler \/ HandlerReturns \/ WaitExpires \/ LinkChanges \/ UNCHANGED vars
  <2>1. UNCHANGED <<stopped, issued, discarded>>
    BY <1>5 DEF cancelRequests, ExternalRequestMessage, CallHandler, HandlerReturns, WaitExpires,
                LinkChanges, vars
  <2>2. DOMAIN info' = DOMAIN info
    BY <1>5 DEF cancelRequests, ExternalRequestMessage, CallHandler, HandlerReturns, WaitExpires,
                LinkChanges, vars, maps
  <2> QED BY <2>1, <2>2, InvisibleStep
<1> QED BY <1>1, <1>2, <1>3, <1>4, <1>5 DEF Next

(* IsRequestLifecycle: a request made is answered once, when it leaves the *)
(* maps, or discarded when the vehicle is closed, and never comes back.    *)
THEOREM CoordinatorIsRequestLifecycle == Spec => IsRequestLifecycle
<1>1. Init => Lifecycle!Init
  <2> SUFFICES ASSUME Init PROVE Lifecycle!Init
    OBVIOUS
  <2>1. IInv /\ issued = 0
    BY InitInv DEF Init
  <2>2. \A q \in Request : q > issued
    BY <2>1 DEF Request
  <2>3. \A q \in Request : RequestStatus(q) = "new"
    BY <2>1, <2>2, StatusIs
  <2> QED BY <2>3 DEF Init, Lifecycle!Init
<1>2. IInv /\ IInv' /\ [Next]_vars => [Lifecycle!Next]_(Lifecycle!vars)
  BY LifecycleStep
<1>3. Spec => []IInv
  BY Inductive
<1> QED BY <1>1, <1>2, <1>3, PTL DEF Spec, IsRequestLifecycle, Lifecycle!Spec

(* A request whose cancel came too late is out of the maps, and stays so.  *)
Late == \A q \in tooLate : RequestStatus(q) = "answered" /\ q \notin cancelled

LEMMA AnsweredStays ==
    ASSUME IInv, IInv', [Next]_vars, NEW q \in Request, RequestStatus(q) = "answered"
    PROVE  RequestStatus(q)' = "answered"
<1>1. Status[q] = "answered" /\ Status'[q] = RequestStatus(q)'
  BY DEF Status
<1>2. CASE UNCHANGED Lifecycle!vars
  <2>1. Status' = Status
    BY <1>2 DEF Lifecycle!vars, Status
  <2> QED BY <1>1, <2>1
<1>3. ASSUME NEW p \in Request, Lifecycle!Make(p) PROVE RequestStatus(q)' = "answered"
  <2>1. PICK s : Status[p] = "new" /\ Status' = [Status EXCEPT ![p] = s]
    BY <1>3 DEF Lifecycle!Make, Status
  <2> QED BY <1>1, <2>1 DEF Status
<1>4. ASSUME NEW some \in SUBSET Request, Lifecycle!Answer(some) PROVE RequestStatus(q)' = "answered"
  <2>1. Status' = [r \in Request |-> IF r \in some THEN "answered" ELSE Status[r]]
    BY <1>4 DEF Lifecycle!Answer, Status
  <2> QED BY <1>1, <2>1
<1>5. CASE Lifecycle!Close
  <2>1. Status' = [r \in Request |-> IF Status[r] = "waiting" THEN "discarded" ELSE Status[r]]
    BY <1>5 DEF Lifecycle!Close, Status
  <2> QED BY <1>1, <2>1
<1> QED BY <1>2, <1>3, <1>4, <1>5, LifecycleStep DEF Lifecycle!Next

LEMMA LateKept ==
    ASSUME IInv, IInv', tooLate \subseteq Request, Late, [Next]_vars
    PROVE  Late'
<1>1. ASSUME NEW q \in tooLate PROVE RequestStatus(q)' = "answered"
  BY <1>1, AnsweredStays DEF Late
<1>2. CASE UNCHANGED <<cancelled, tooLate>>
  BY <1>1, <1>2 DEF Late
<1>3. ASSUME NEW o \in Owner, cancelRequests(o) PROVE Late'
  <2>1. /\ cancelled' \subseteq cancelled \cup DOMAIN info /\ tooLate' = tooLate \cup Saved(o)
    BY <1>3 DEF cancelRequests
  <2>2. ASSUME NEW q \in Saved(o)
        PROVE  q \in Request /\ RequestStatus(q) = "answered" /\ q \notin cancelled \cup DOMAIN info
    <3>1. PICK k \in DOMAIN stack : stack[k].req = q /\ stack[k].ownHandler
      BY DEF Saved
    <3>2. q \in Request /\ q \in 1..issued /\ q \notin DOMAIN info \cup discarded /\ q \notin cancelled
      BY <3>1 DEF Saved, IInv, Frames
    <3>3. ~(q > issued)
      BY <3>2, CoordinatorParameters DEF IInv, Types, Request
    <3> QED BY <3>2, <3>3, StatusIs
  <2>3. ASSUME NEW q \in tooLate PROVE q \notin cancelled \cup DOMAIN info
    BY StatusIs, IInv DEF Late, IInv, Maps
  <2> QED BY <1>1, <2>1, <2>2, <2>3, AnsweredStays DEF Late
<1>4. \/ UNCHANGED <<cancelled, tooLate>>
      \/ \E o \in Owner : cancelRequests(o)
  BY DEF Next, requestMessage, CommandEnds, handleReceivedMessage, ExternalRequestMessage, CallHandler,
         HandlerReturns, stop, WaitExpires, LinkChanges, vars
<1> QED BY <1>2, <1>3, <1>4

(* HandlerCalledOnce: the handler of a request is called once when it is   *)
(* answered, and never when it is discarded, or cancelled while it is in   *)
(* the maps; a cancel that finds its handler saved does not stop the call. *)
THEOREM EachAnswerDelivered == Spec => []HandlerCalledOnce
<1>1. IInv /\ Late => HandlerCalledOnce
  <2> SUFFICES ASSUME IInv, Late, NEW q \in 1..issued
               PROVE  /\ called[q] <= 1
                      /\ (RequestStatus(q) = "answered" /\ EventLoop /\ q \notin cancelled) => called[q] = 1
                      /\ (q \in cancelled \/ RequestStatus(q) \in {"waiting", "discarded"}) => called[q] = 0
                      /\ q \in tooLate => RequestStatus(q) = "answered" /\ q \notin cancelled
    BY DEF HandlerCalledOnce
  <2>1. q \in Request /\ ~(q > issued)
    BY CoordinatorParameters DEF IInv, Types, Request
  <2>2. /\ called[q] \in {0, 1}
        /\ q \in DOMAIN info \cup discarded \cup cancelled => called[q] = 0
        /\ q \notin DOMAIN info \cup discarded \cup cancelled =>
              called[q] = 1 \/ \E i \in DOMAIN stack : stack[i].req = q
    BY <2>1 DEF IInv, Calls
  <2>3. EventLoop => DOMAIN stack = {}
    BY DEF EventLoop
  <2>4. RequestStatus(q) = IF q \in discarded THEN "discarded"
                           ELSE IF q \in DOMAIN info THEN "waiting" ELSE "answered"
    BY <2>1, StatusIs
  <2> QED BY <2>2, <2>3, <2>4 DEF Late
<1>2. Init => Late
  BY DEF Init, Late
<1>3. IInv => tooLate \subseteq Request
  BY DEF IInv, Types
<1>4. IInv /\ IInv' /\ Late /\ [Next]_vars => Late'
  BY <1>3, LateKept
<1>5. Spec => []IInv
  BY Inductive
<1> QED BY <1>1, <1>2, <1>4, <1>5, PTL DEF Spec
=============================================================================
