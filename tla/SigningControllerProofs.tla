----------------------- MODULE SigningControllerProofs -----------------------
(***************************************************************************)
(* Signing, for any vehicles, links, keys and number of operations: the    *)
(* channel follows its operation, a retransmission is of the vehicle's own *)
(* pending operation, and only a proven key is signed with.                *)
(***************************************************************************)
EXTENDS SigningController, TLAPS

(***************************************************************************)
(* A vehicle that retransmits is connected to both outcomes of its         *)
(* operation: this is why the end of the operation, which reaches a        *)
(* vehicle only over a connection, always stops its retransmissions.       *)
(***************************************************************************)
RetryIsWired ==
    \A v \in Vehicles : retry[v] => handlers[v].confirmed > 0 /\ handlers[v].failed > 0

\* A vehicle has at most one connection per operation begun.
HandlersCounted ==
    \A v \in Vehicles : handlers[v].confirmed <= ops /\ handlers[v].failed <= ops

IInv ==
    /\ TypeOK
    /\ ChannelFollowsOperation
    /\ RetryIsForPendingOperation
    /\ RetryIsWired
    /\ HandlersCounted

-----------------------------------------------------------------------------
\* Every operation, however it ends, leaves a channel that is well typed and
\* at rest: off, or signing and strict.
LEMMA EndedChannelAtRest ==
    ASSUME IInv, NEW l \in Links, Pending(l),
           NEW ch, ch = FailedChannel(l) \/ ch = ConfirmedChannel(l)
    PROVE  /\ ch \in ChannelType
           /\ ch.signOutgoing <=> ch.key # NoKey
           /\ ch.signOutgoing <=> ch.policy = "Strict"
<1>1. channel[l] \in ChannelType /\ op[l] \in OpType
  BY DEF IInv, TypeOK
<1>2. CASE op[l].kind = "Enable"
  <2>a. op[l].key \in StoredKeys
    BY <1>1, <1>2 DEF OpType, NoOp
  <2>b. channel[l].key = op[l].key
    BY <1>2 DEF IInv, ChannelFollowsOperation
  <2>1. op[l].key \in StoredKeys /\ channel[l].key = op[l].key
    BY <2>a, <2>b
  <2>2. QED
    BY <1>1, <1>2, <2>1, SigningAssumption
    DEF FailedChannel, ConfirmedChannel, ChannelOff, ChannelType, Signature
<1>3. CASE op[l].kind = "Disable"
  <2>1. channel[l].key # NoKey /\ channel[l].signOutgoing
    BY <1>3 DEF IInv, ChannelFollowsOperation
  <2>2. QED
    BY <1>1, <1>3, <2>1
    DEF FailedChannel, ConfirmedChannel, ChannelOff, ChannelType, Signature
<1>4. QED
  BY <1>1, <1>2, <1>3 DEF Pending, OpType, NoOp

-----------------------------------------------------------------------------
LEMMA InitInv == Init => IInv
<1> SUFFICES ASSUME Init PROVE IInv
  OBVIOUS
<1>1. TypeOK
  <2>1. NoKey \in Signature /\ 0 \in 0..MaxOps
    BY SigningAssumption DEF Signature
  <2>2. channel \in [Links -> ChannelType] /\ op \in [Links -> OpType]
    BY <2>1 DEF Init, ChannelType, OpType
  <2>3. handlers \in [Vehicles -> [confirmed : 0..MaxOps, failed : 0..MaxOps]]
    BY <2>1 DEF Init
  <2>4. signed \in [Vehicles -> SUBSET Signature]
    BY DEF Init
  <2>5. QED
    BY <2>1, <2>2, <2>3, <2>4 DEF Init, TypeOK
<1>2. ChannelFollowsOperation
  BY DEF Init, ChannelFollowsOperation, NoOp
<1>3. RetryIsForPendingOperation /\ RetryIsWired /\ HandlersCounted
  BY DEF Init, RetryIsForPendingOperation, RetryIsWired, HandlersCounted
<1>4. QED
  BY <1>1, <1>2, <1>3 DEF IInv

(***************************************************************************)
(* An operation ends on link l, and every vehicle wired to the signal      *)
(* hears of it: confirmed, refused, timed out.                             *)
(***************************************************************************)
LEMMA EndingPreserves ==
    ASSUME IInv, NEW l \in Links, Pending(l), Fail(l) \/ Confirm(l),
           UNCHANGED <<active, setups, signed, refused, ops>>
    PROVE  IInv'
<1> DEFINE ch == channel'[l]
<1>1. /\ \A k \in Links : channel'[k] = IF k = l THEN ch ELSE channel[k]
      /\ channel' = [channel EXCEPT ![l] = ch]
      /\ ch = FailedChannel(l) \/ ch = ConfirmedChannel(l)
  BY DEF Fail, Confirm, IInv, TypeOK
<1>2. /\ ch \in ChannelType
      /\ ch.signOutgoing <=> ch.key # NoKey
      /\ ch.signOutgoing <=> ch.policy = "Strict"
  BY <1>1, EndedChannelAtRest
<1> HIDE DEF ch
<1>3. /\ op' = [op EXCEPT ![l] = NoOp]
      /\ \A k \in Links : op'[k] = IF k = l THEN NoOp ELSE op[k]
  BY DEF Fail, Confirm, Clear, ClearedOp, IInv, TypeOK
<1>4. PICK signal \in {"confirmed", "failed"} : Emit(l, signal)
  BY DEF Fail, Confirm
<1>5. \A v \in Vehicles :
         /\ retry'[v] => retry[v] /\ ~(active[v] = l /\ handlers[v][signal] > 0)
         /\ retry'[v] => pendingKey'[v] = pendingKey[v] /\ handlers'[v] = handlers[v]
  BY <1>4 DEF Emit
<1>6. \A v \in Vehicles : retry'[v] => active[v] # l /\ retry[v]
  BY <1>4, <1>5 DEF IInv, RetryIsWired
<1>7. \A v \in Vehicles : /\ handlers'[v] \in [confirmed : 0..MaxOps, failed : 0..MaxOps]
                          /\ handlers'[v].confirmed <= ops /\ handlers'[v].failed <= ops
  <2> TAKE v \in Vehicles
  <2>1. /\ handlers[v] \in [confirmed : 0..MaxOps, failed : 0..MaxOps]
        /\ handlers[v].confirmed <= ops /\ handlers[v].failed <= ops /\ ops \in 0..MaxOps
    BY DEF IInv, TypeOK, HandlersCounted
  <2>2. \/ handlers'[v] = handlers[v]
        \/ handlers'[v] = [handlers[v] EXCEPT !.confirmed = 0]
        \/ handlers'[v] = [handlers[v] EXCEPT !.failed = 0]
    BY <1>4 DEF Emit
  <2>3. QED
    BY <2>1, <2>2, SigningAssumption
<1>8. TypeOK'
  <2>1. channel' \in [Links -> ChannelType]
    BY <1>1, <1>2 DEF IInv, TypeOK
  <2>2. op' \in [Links -> OpType]
    BY <1>3 DEF IInv, TypeOK, OpType
  <2>3. handlers' \in [Vehicles -> [confirmed : 0..MaxOps, failed : 0..MaxOps]]
    BY <1>4, <1>7 DEF Emit
  <2>4. retry' \in [Vehicles -> BOOLEAN]
    BY <1>4 DEF Emit
  <2>5. pendingKey' \in [Vehicles -> Signature]
    BY <1>4 DEF Emit, IInv, TypeOK, Signature
  <2>6. QED
    BY <2>1, <2>2, <2>3, <2>4, <2>5 DEF IInv, TypeOK
<1>9. ChannelFollowsOperation'
  <2>1. SUFFICES ASSUME NEW k \in Links PROVE
          CASE op'[k].kind = "Enable"  -> /\ channel'[k].key = op'[k].key
                                          /\ ~channel'[k].signOutgoing
                                          /\ channel'[k].policy = "Pending"
            [] op'[k].kind = "Disable" -> /\ channel'[k].key # NoKey
                                          /\ channel'[k].signOutgoing
                                          /\ channel'[k].policy = "Pending"
            [] op'[k].kind = "None"    -> /\ channel'[k].signOutgoing <=> channel'[k].key # NoKey
                                          /\ channel'[k].signOutgoing <=> channel'[k].policy = "Strict"
    BY DEF ChannelFollowsOperation
  <2>2. CASE k = l
    <3>1. op'[k].kind = "None" /\ channel'[k] = ch
      BY <1>1, <1>3, <2>2 DEF NoOp
    <3>2. op'[k].kind # "Enable" /\ op'[k].kind # "Disable"
      BY <3>1
    <3>3. QED
      BY <1>2, <3>1, <3>2
  <2>3. CASE k # l
    BY <1>1, <1>3, <2>3 DEF IInv, ChannelFollowsOperation
  <2>4. QED
    BY <2>2, <2>3
<1>10. RetryIsForPendingOperation'
  <2>1. SUFFICES ASSUME NEW v \in Vehicles, retry'[v]
                 PROVE  /\ active[v] # NoLink
                        /\ op'[active[v]].kind # "None"
                        /\ op'[active[v]].expectedSysId = v
                        /\ op'[active[v]].key = pendingKey'[v]
    BY DEF RetryIsForPendingOperation, Pending
  <2>2. active[v] # l /\ retry[v] /\ pendingKey'[v] = pendingKey[v]
    BY <1>5, <1>6, <2>1
  <2>3. active[v] \in Links /\ active[v] # NoLink
    BY <2>2 DEF IInv, TypeOK, RetryIsForPendingOperation
  <2>4. op'[active[v]] = op[active[v]]
    BY <1>3, <2>2, <2>3
  <2>5. QED
    BY <2>2, <2>3, <2>4 DEF IInv, RetryIsForPendingOperation, Pending
<1>11. RetryIsWired' /\ HandlersCounted'
  BY <1>5, <1>7 DEF IInv, RetryIsWired, HandlersCounted
<1>12. QED
  BY <1>8, <1>9, <1>10, <1>11 DEF IInv

(***************************************************************************)
(* An operation begins on a controller that has none: whatever the channel *)
(* of its link becomes, no other vehicle retransmits over that link.       *)
(***************************************************************************)
LEMMA BeginPreserves ==
    ASSUME IInv, NEW v \in Vehicles, NEW kind, NEW key, NEW ch \in ChannelType,
           ops < MaxOps, active[v] # NoLink, ~Pending(active[v]),
           channel' = [channel EXCEPT ![active[v]] = ch],
           \/ /\ kind = "Enable" /\ key \in StoredKeys
              /\ ch.key = key /\ ~ch.signOutgoing /\ ch.policy = "Pending"
           \/ /\ kind = "Disable" /\ key = NoKey
              /\ ch.key # NoKey /\ ch.signOutgoing /\ ch.policy = "Pending",
           Begin(v, kind, key)
    PROVE  IInv'
<1> DEFINE l == active[v]
           new == [kind |-> kind, expectedSysId |-> v, key |-> key]
<1>1. /\ l \in Links /\ op[l].kind = "None"
      /\ new \in OpType /\ key \in Signature
  BY SigningAssumption DEF IInv, TypeOK, Pending, OpType, Signature
<1>2. /\ \A k \in Links : op'[k] = IF k = l THEN new ELSE op[k]
      /\ \A k \in Links : channel'[k] = IF k = l THEN ch ELSE channel[k]
      /\ active' = active
  BY <1>1 DEF Begin, IInv, TypeOK
<1>3. /\ ops \in 0..MaxOps /\ MaxOps \in Nat
      /\ ops' = ops + 1 /\ ops' \in 0..MaxOps
  BY SigningAssumption DEF Begin, IInv, TypeOK
<1>4. \A w \in Vehicles :
         /\ handlers'[w] \in [confirmed : 0..MaxOps, failed : 0..MaxOps]
         /\ handlers'[w].confirmed <= ops' /\ handlers'[w].failed <= ops'
         /\ w = v => handlers'[w].confirmed > 0 /\ handlers'[w].failed > 0
         /\ w # v => handlers'[w] = handlers[w]
  <2> TAKE w \in Vehicles
  <2>1. /\ handlers[w] \in [confirmed : 0..MaxOps, failed : 0..MaxOps]
        /\ handlers[w].confirmed <= ops /\ handlers[w].failed <= ops
    BY DEF IInv, TypeOK, HandlersCounted
  <2>2. CASE w # v
    BY <1>3, <2>1, <2>2 DEF Begin, IInv, TypeOK
  <2>3. CASE w = v
    <3>1. handlers'[w] = [confirmed |-> handlers[w].confirmed + 1, failed |-> handlers[w].failed + 1]
      BY <2>3 DEF Begin, IInv, TypeOK
    <3>2. PICK c \in 0..MaxOps, f \in 0..MaxOps : handlers[w] = [confirmed |-> c, failed |-> f]
      BY <2>1
    <3>3. c <= ops /\ f <= ops
      BY <2>1, <3>2
    <3>4. handlers'[w] = [confirmed |-> c + 1, failed |-> f + 1]
      BY <3>1, <3>2
    <3>5. c + 1 \in 0..MaxOps /\ f + 1 \in 0..MaxOps /\ c + 1 > 0 /\ f + 1 > 0
          /\ c + 1 <= ops' /\ f + 1 <= ops'
      BY <1>3, <3>3
    <3>6. QED
      BY <2>3, <3>4, <3>5
  <2>4. QED
    BY <2>2, <2>3
<1>5. /\ retry' = [retry EXCEPT ![v] = TRUE]
      /\ pendingKey' = [pendingKey EXCEPT ![v] = key]
  BY DEF Begin
<1>6. \A w \in Vehicles : w # v /\ retry'[w] =>
         /\ retry[w] /\ pendingKey'[w] = pendingKey[w]
         /\ active[w] \in Links /\ active[w] # l
  <2> TAKE w \in Vehicles
  <2> HAVE w # v /\ retry'[w]
  <2>1. retry[w] /\ pendingKey'[w] = pendingKey[w]
    BY <1>5 DEF IInv, TypeOK
  <2>2. active[w] \in Links /\ Pending(active[w])
    BY <2>1 DEF IInv, TypeOK, RetryIsForPendingOperation
  <2>3. QED
    BY <2>1, <2>2
<1> HIDE DEF l
<1>7. TypeOK'
  <2>1. channel' \in [Links -> ChannelType] /\ op' \in [Links -> OpType]
    BY <1>1 DEF IInv, TypeOK, Begin, l
  <2>2. handlers' \in [Vehicles -> [confirmed : 0..MaxOps, failed : 0..MaxOps]]
    <3>1. DOMAIN handlers' = Vehicles /\ handlers' = [w \in Vehicles |-> handlers'[w]]
      BY DEF Begin, IInv, TypeOK
    <3>2. QED
      BY <1>4, <3>1
  <2>3. retry' \in [Vehicles -> BOOLEAN] /\ pendingKey' \in [Vehicles -> Signature]
    BY <1>1, <1>5 DEF IInv, TypeOK
  <2>4. setups' \subseteq [to : Vehicles, key : Signature]
    BY <1>1 DEF IInv, TypeOK, Begin
  <2>5. QED
    BY <1>3, <2>1, <2>2, <2>3, <2>4 DEF IInv, TypeOK, Begin
<1>8. ChannelFollowsOperation'
  <2>1. SUFFICES ASSUME NEW k \in Links PROVE
          CASE op'[k].kind = "Enable"  -> /\ channel'[k].key = op'[k].key
                                          /\ ~channel'[k].signOutgoing
                                          /\ channel'[k].policy = "Pending"
            [] op'[k].kind = "Disable" -> /\ channel'[k].key # NoKey
                                          /\ channel'[k].signOutgoing
                                          /\ channel'[k].policy = "Pending"
            [] op'[k].kind = "None"    -> /\ channel'[k].signOutgoing <=> channel'[k].key # NoKey
                                          /\ channel'[k].signOutgoing <=> channel'[k].policy = "Strict"
    BY DEF ChannelFollowsOperation
  <2>2. CASE k # l
    BY <1>2, <2>2 DEF IInv, ChannelFollowsOperation
  <2>3. CASE k = l
    <3>1. channel'[k] = ch /\ op'[k].kind = kind /\ op'[k].key = key
      BY <1>2, <2>3
    <3>2. CASE kind = "Enable"
      BY <3>1, <3>2
    <3>3. CASE kind = "Disable"
      <4>1. kind # "Enable"
        BY <3>3
      <4>2. QED
        BY <3>1, <3>3, <4>1
    <3>4. QED
      BY <3>2, <3>3
  <2>4. QED
    BY <2>2, <2>3
<1>9. RetryIsForPendingOperation'
  <2>1. SUFFICES ASSUME NEW w \in Vehicles, retry'[w]
                 PROVE  /\ active[w] # NoLink
                        /\ op'[active[w]].kind # "None"
                        /\ op'[active[w]].expectedSysId = w
                        /\ op'[active[w]].key = pendingKey'[w]
    BY <1>2 DEF RetryIsForPendingOperation, Pending
  <2>2. CASE w = v
    <3>1. op'[active[w]] = new /\ pendingKey'[w] = key
      BY <1>1, <1>2, <1>5, <2>2 DEF l, IInv, TypeOK
    <3>2. kind # "None"
      OBVIOUS
    <3>3. QED
      BY <2>2, <3>1, <3>2
  <2>3. CASE w # v
    <3>1. op'[active[w]] = op[active[w]] /\ retry[w] /\ pendingKey'[w] = pendingKey[w]
      BY <1>2, <1>6, <2>1, <2>3
    <3>2. QED
      BY <3>1 DEF IInv, RetryIsForPendingOperation, Pending
  <2>4. QED
    BY <2>2, <2>3
<1>10. RetryIsWired' /\ HandlersCounted'
  BY <1>4, <1>6 DEF IInv, RetryIsWired, HandlersCounted
<1>11. QED
  BY <1>7, <1>8, <1>9, <1>10 DEF IInv

(***************************************************************************)
(* A vehicle leaves a link: a pending operation, also that of another      *)
(* vehicle, ends as a failed one, and no vehicle of that link retransmits. *)
(***************************************************************************)
LEMMA LeavingPreserves ==
    ASSUME IInv, NEW v \in Vehicles, PrimaryLinkChanged(v)
    PROVE  IInv'
<1>1. /\ UNCHANGED <<setups, signed, refused, ops>>
      /\ active' \in [Vehicles -> Links \union {NoLink}]
      /\ \A w \in Vehicles : w # v => active'[w] = active[w]
  BY DEF PrimaryLinkChanged, air, IInv, TypeOK
<1>2. CASE active[v] = NoLink
  <2>1. UNCHANGED gcs
    BY <1>2 DEF PrimaryLinkChanged
  <2>2. \A w \in Vehicles : retry[w] => active[w] # NoLink /\ active'[w] = active[w]
    BY <1>1, <1>2 DEF IInv, RetryIsForPendingOperation
  <2>3. RetryIsForPendingOperation'
    BY <2>1, <2>2 DEF gcs, IInv, RetryIsForPendingOperation, Pending
  <2>4. QED
    BY <1>1, <2>1, <2>3
    DEF gcs, IInv, TypeOK, ChannelFollowsOperation, RetryIsWired, HandlersCounted
<1>3. CASE active[v] # NoLink
  <2> DEFINE l == active[v]
             ch == IF Pending(l) THEN FailedChannel(l) ELSE channel[l]
             heard == {w \in Vehicles : active[w] = l /\ handlers[w].failed > 0 /\ Pending(l)}
  <2>1. l \in Links
    BY <1>3 DEF IInv, TypeOK
  <2>2. Disconnect(v, l)
    BY <1>3 DEF PrimaryLinkChanged
  <2>3. /\ channel' \in [Links -> ChannelType]
        /\ \A k \in Links : channel'[k] = IF k = l THEN ch ELSE channel[k]
    <3>1. CASE Pending(l)
      <4>1. FailedChannel(l) \in ChannelType
        BY <2>1, <3>1, EndedChannelAtRest
      <4>2. channel' = [channel EXCEPT ![l] = FailedChannel(l)]
        BY <2>2, <3>1 DEF Disconnect
      <4>3. channel \in [Links -> ChannelType]
        BY DEF IInv, TypeOK
      <4>4. ch = FailedChannel(l)
        BY <3>1
      <4> HIDE DEF l, ch
      <4>5. QED
        BY <2>1, <4>1, <4>2, <4>3, <4>4
    <3>2. CASE ~Pending(l)
      BY <2>2, <3>2 DEF Disconnect, IInv, TypeOK
    <3>3. QED
      BY <3>1, <3>2
  <2>4. /\ op' \in [Links -> OpType]
        /\ op'[l] = NoOp \/ (op'[l] = op[l] /\ ~Pending(l))
        /\ \A k \in Links : k # l => op'[k] = op[k]
    <3>1. op \in [Links -> OpType] /\ NoOp \in OpType
      BY DEF IInv, TypeOK, OpType
    <3>2. op' = IF Pending(l) THEN [op EXCEPT ![l] = NoOp] ELSE op
      BY <2>2 DEF Disconnect, Clear, ClearedOp
    <3> HIDE DEF l
    <3>3. CASE Pending(l)
      <4>1. op' = [op EXCEPT ![l] = NoOp]
        BY <3>2, <3>3
      <4>2. op' \in [Links -> OpType]
        BY <2>1, <3>1, <4>1
      <4>3. op'[l] = NoOp
        BY <2>1, <3>1, <4>1
      <4>4. \A k \in Links : k # l => op'[k] = op[k]
        BY <2>1, <3>1, <4>1
      <4>5. QED
        BY <4>2, <4>3, <4>4
    <3>4. CASE ~Pending(l)
      BY <3>1, <3>2, <3>4
    <3>5. QED
      BY <3>3, <3>4
  <2>5. /\ retry' = [w \in Vehicles |-> retry[w] /\ w \notin heard]
        /\ pendingKey' = [w \in Vehicles |-> IF w \in heard THEN NoKey ELSE pendingKey[w]]
        /\ handlers' = [w \in Vehicles |->
              IF w = v THEN [confirmed |-> 0, failed |-> 0]
              ELSE IF w \in heard THEN [handlers[w] EXCEPT !.failed = 0]
              ELSE handlers[w]]
    BY <2>2 DEF Disconnect
  <2>6. \A w \in Vehicles : retry'[w] =>
           /\ retry[w] /\ active[w] # l /\ w # v
           /\ pendingKey'[w] = pendingKey[w] /\ handlers'[w] = handlers[w]
    <3> TAKE w \in Vehicles
    <3> HAVE retry'[w]
    <3>1. retry[w] /\ w \notin heard
      BY <2>5
    <3>2. active[w] # l
      BY <3>1 DEF IInv, RetryIsForPendingOperation, RetryIsWired
    <3>3. QED
      BY <2>5, <3>1, <3>2
  <2>7. \A w \in Vehicles : /\ handlers'[w] \in [confirmed : 0..MaxOps, failed : 0..MaxOps]
                            /\ handlers'[w].confirmed <= ops /\ handlers'[w].failed <= ops
    <3> TAKE w \in Vehicles
    <3>1. /\ handlers[w] \in [confirmed : 0..MaxOps, failed : 0..MaxOps]
          /\ handlers[w].confirmed <= ops /\ handlers[w].failed <= ops /\ ops \in 0..MaxOps
      BY DEF IInv, TypeOK, HandlersCounted
    <3>2. \/ handlers'[w] = handlers[w]
          \/ handlers'[w] = [confirmed |-> 0, failed |-> 0]
          \/ handlers'[w] = [handlers[w] EXCEPT !.failed = 0]
      BY <2>5
    <3>3. QED
      BY <3>1, <3>2, SigningAssumption
  <2>8. TypeOK'
    <3>1. handlers' \in [Vehicles -> [confirmed : 0..MaxOps, failed : 0..MaxOps]]
      BY <2>5, <2>7
    <3>2. retry' \in [Vehicles -> BOOLEAN] /\ pendingKey' \in [Vehicles -> Signature]
      BY <2>5 DEF IInv, TypeOK, Signature
    <3>3. QED
      BY <1>1, <2>3, <2>4, <3>1, <3>2 DEF IInv, TypeOK
  <2>9. ChannelFollowsOperation'
    <3>1. SUFFICES ASSUME NEW k \in Links PROVE
          CASE op'[k].kind = "Enable"  -> /\ channel'[k].key = op'[k].key
                                          /\ ~channel'[k].signOutgoing
                                          /\ channel'[k].policy = "Pending"
            [] op'[k].kind = "Disable" -> /\ channel'[k].key # NoKey
                                          /\ channel'[k].signOutgoing
                                          /\ channel'[k].policy = "Pending"
            [] op'[k].kind = "None"    -> /\ channel'[k].signOutgoing <=> channel'[k].key # NoKey
                                          /\ channel'[k].signOutgoing <=> channel'[k].policy = "Strict"
      BY DEF ChannelFollowsOperation
    <3>2. CASE k # l \/ ~Pending(l)
      <4>1. channel'[k] = channel[k] /\ op'[k] = op[k]
        BY <2>3, <2>4, <3>2 DEF NoOp, Pending, IInv, TypeOK, OpType
      <4>2. QED
        BY <4>1 DEF IInv, ChannelFollowsOperation
    <3>3. CASE k = l /\ Pending(l)
      <4>1. channel'[k] = FailedChannel(l)
        BY <2>3, <3>3
      <4>2. op'[k].kind = "None"
        BY <2>4, <3>3 DEF NoOp
      <4>3. op'[k].kind # "Enable" /\ op'[k].kind # "Disable"
        BY <4>2
      <4>4. /\ channel'[k].signOutgoing <=> channel'[k].key # NoKey
            /\ channel'[k].signOutgoing <=> channel'[k].policy = "Strict"
        BY <2>1, <3>3, <4>1, EndedChannelAtRest
      <4>5. QED
        BY <4>2, <4>3, <4>4
    <3>4. QED
      BY <3>2, <3>3
  <2>10. RetryIsForPendingOperation'
    <3>1. SUFFICES ASSUME NEW w \in Vehicles, retry'[w]
                   PROVE  /\ active'[w] # NoLink
                          /\ op'[active'[w]].kind # "None"
                          /\ op'[active'[w]].expectedSysId = w
                          /\ op'[active'[w]].key = pendingKey'[w]
      BY DEF RetryIsForPendingOperation, Pending
    <3>2. /\ retry[w] /\ active'[w] = active[w] /\ active[w] # l
          /\ pendingKey'[w] = pendingKey[w]
      BY <1>1, <2>6, <3>1
    <3>3. active[w] \in Links
      BY <3>2 DEF IInv, TypeOK, RetryIsForPendingOperation
    <3>4. QED
      BY <2>4, <3>2, <3>3 DEF IInv, RetryIsForPendingOperation, Pending
  <2>11. RetryIsWired' /\ HandlersCounted'
    BY <1>1, <2>6, <2>7 DEF IInv, RetryIsWired, HandlersCounted
  <2>12. QED
    BY <2>8, <2>9, <2>10, <2>11 DEF IInv
<1>4. QED
  BY <1>2, <1>3

-----------------------------------------------------------------------------
\* A vehicle's own retransmission goes on while its operation is pending.
LEMMA RetransmitPreserves ==
    ASSUME IInv, NEW v \in Vehicles, Retransmit(v)
    PROVE  IInv'
<1>1. /\ active[v] # NoLink /\ Pending(active[v])
      /\ pendingKey[v] \in Signature
  BY DEF Retransmit, IInv, TypeOK, RetryIsForPendingOperation
<1>2. UNCHANGED <<retry, pendingKey, channel, op, active, handlers, signed, refused, ops>>
  BY <1>1 DEF Retransmit
<1>3. setups' \subseteq [to : Vehicles, key : Signature]
  BY <1>1 DEF Retransmit, IInv, TypeOK
<1>4. QED
  BY <1>2, <1>3
  DEF IInv, TypeOK, ChannelFollowsOperation, RetryIsForPendingOperation, Pending,
      RetryIsWired, HandlersCounted

\* Detection touches only a channel that is off, hence one with no operation.
LEMMA DetectionPreserves ==
    ASSUME IInv, NEW l \in Links,
           CooldownExpires(l) \/ \E v \in Vehicles : AutoDetect(l, v)
    PROVE  IInv'
<1>1. UNCHANGED <<op, active, handlers, retry, pendingKey, setups, signed, refused, ops>>
  BY DEF CooldownExpires, AutoDetect, air
<1>2. PICK ch \in ChannelType :
         /\ channel' = [channel EXCEPT ![l] = ch]
         /\ \/ /\ ch.key = channel[l].key
               /\ ch.signOutgoing = channel[l].signOutgoing
               /\ ch.policy = channel[l].policy
            \/ /\ channel[l].key = NoKey /\ op[l].kind # "Enable"
               /\ ch.key # NoKey /\ ch.signOutgoing /\ ch.policy = "Strict"
  <2>1. channel[l] \in ChannelType
    BY DEF IInv, TypeOK
  <2>2. CASE CooldownExpires(l)
    <3> DEFINE ended == [channel[l] EXCEPT !.cooldown = FALSE]
    <3>1. /\ ended \in ChannelType /\ ended.key = channel[l].key
          /\ ended.signOutgoing = channel[l].signOutgoing
          /\ ended.policy = channel[l].policy
      BY <2>1 DEF ChannelType
    <3>2. channel' = [channel EXCEPT ![l] = ended]
      BY <2>2 DEF CooldownExpires
    <3> HIDE DEF ended
    <3>3. QED
      BY <3>1, <3>2
  <2>3. ASSUME NEW v \in Vehicles, AutoDetect(l, v), NEW key \in signed[v] \ {NoKey},
               channel[l].key = NoKey, op[l].kind # "Enable",
               channel' = [channel EXCEPT ![l] =
                IF key \in StoredKeys
                THEN [key |-> key, signOutgoing |-> TRUE, policy |-> "Strict",
                      cooldown |-> FALSE]
                ELSE [@ EXCEPT !.cooldown = TRUE]]
        PROVE  \E ch \in ChannelType :
                  /\ channel' = [channel EXCEPT ![l] = ch]
                  /\ \/ /\ ch.key = channel[l].key
                        /\ ch.signOutgoing = channel[l].signOutgoing
                        /\ ch.policy = channel[l].policy
                     \/ /\ channel[l].key = NoKey /\ op[l].kind # "Enable"
                        /\ ch.key # NoKey /\ ch.signOutgoing /\ ch.policy = "Strict"
    <3> DEFINE found == [key |-> key, signOutgoing |-> TRUE, policy |-> "Strict",
                         cooldown |-> FALSE]
    <3>1. CASE key \in StoredKeys
      <4>1. found \in ChannelType
        BY <3>1, SigningAssumption DEF ChannelType, Signature
      <4>2. channel' = [channel EXCEPT ![l] = found]
        BY <2>3, <3>1
      <4>3. found.key # NoKey /\ found.signOutgoing /\ found.policy = "Strict"
        BY <2>3
      <4> HIDE DEF found
      <4>4. QED
        BY <2>3, <4>1, <4>2, <4>3
    <3>2. CASE key \notin StoredKeys
      <4> DEFINE missed == [channel[l] EXCEPT !.cooldown = TRUE]
      <4>1. /\ missed \in ChannelType /\ missed.key = channel[l].key
            /\ missed.signOutgoing = channel[l].signOutgoing
            /\ missed.policy = channel[l].policy
        BY <2>1 DEF ChannelType
      <4>2. channel' = [channel EXCEPT ![l] = missed]
        BY <2>3, <3>2
      <4> HIDE DEF missed
      <4>3. QED
        BY <4>1, <4>2
    <3>3. QED
      BY <3>1, <3>2
  <2>4. QED
    BY <2>2, <2>3 DEF AutoDetect
<1>3. op[l].kind # "Disable" \/ channel[l].key # NoKey
  BY DEF IInv, ChannelFollowsOperation
<1>4. \A k \in Links : channel'[k] = IF k = l THEN ch ELSE channel[k]
  BY <1>2 DEF IInv, TypeOK
<1>5. ChannelFollowsOperation'
  <2>1. SUFFICES ASSUME NEW k \in Links PROVE
          CASE op[k].kind = "Enable"  -> /\ channel'[k].key = op[k].key
                                         /\ ~channel'[k].signOutgoing
                                         /\ channel'[k].policy = "Pending"
            [] op[k].kind = "Disable" -> /\ channel'[k].key # NoKey
                                         /\ channel'[k].signOutgoing
                                         /\ channel'[k].policy = "Pending"
            [] op[k].kind = "None"    -> /\ channel'[k].signOutgoing <=> channel'[k].key # NoKey
                                         /\ channel'[k].signOutgoing <=> channel'[k].policy = "Strict"
    BY <1>1 DEF ChannelFollowsOperation
  <2>2. CASE k # l
    BY <1>4, <2>2 DEF IInv, ChannelFollowsOperation
  <2>3. CASE k = l /\ channel[l].key = NoKey /\ op[l].kind # "Enable"
             /\ ch.key # NoKey /\ ch.signOutgoing /\ ch.policy = "Strict"
    <3>1. op[k].kind = "None"
      BY <1>3, <2>3 DEF IInv, TypeOK, OpType, NoOp
    <3>2. op[k].kind # "Enable" /\ op[k].kind # "Disable"
      BY <3>1
    <3>3. QED
      BY <1>4, <2>3, <3>1, <3>2
  <2>4. CASE k = l /\ ch.key = channel[l].key
             /\ ch.signOutgoing = channel[l].signOutgoing /\ ch.policy = channel[l].policy
    BY <1>4, <2>4 DEF IInv, ChannelFollowsOperation
  <2>5. QED
    BY <1>2, <2>2, <2>3, <2>4
<1>6. TypeOK'
  BY <1>1, <1>2 DEF IInv, TypeOK
<1>7. QED
  BY <1>1, <1>5, <1>6
  DEF IInv, RetryIsForPendingOperation, Pending, RetryIsWired, HandlersCounted

\* The vehicle and the radio change nothing on the ground.
LEMMA VehiclePreserves ==
    ASSUME IInv, VehicleAccepts \/ VehicleRefuses
    PROVE  IInv'
<1>1. UNCHANGED <<channel, op, active, handlers, retry, pendingKey, setups, ops>>
  BY DEF VehicleAccepts, VehicleRefuses, gcs
<1>2. /\ signed' \in [Vehicles -> SUBSET Signature]
      /\ refused' \in [Vehicles -> BOOLEAN]
  <2>1. CASE VehicleAccepts
    <3>1. PICK m \in setups : signed' = [signed EXCEPT ![m.to] = @ \union {m.key}]
      BY <2>1 DEF VehicleAccepts
    <3>2. m.to \in Vehicles /\ m.key \in Signature
      BY DEF IInv, TypeOK
    <3>3. signed' \in [Vehicles -> SUBSET Signature]
      BY <3>1, <3>2 DEF IInv, TypeOK
    <3>4. QED
      BY <2>1, <3>3 DEF VehicleAccepts, IInv, TypeOK
  <2>2. CASE VehicleRefuses
    BY <2>2 DEF VehicleRefuses, IInv, TypeOK
  <2>3. QED
    BY <2>1, <2>2
<1>3. QED
  BY <1>1, <1>2
  DEF IInv, TypeOK, ChannelFollowsOperation, RetryIsForPendingOperation, Pending,
      RetryIsWired, HandlersCounted

LEMMA EnablePreserves ==
    ASSUME IInv, NEW v \in Vehicles, NEW key \in StoredKeys, Enable(v, key)
    PROVE  IInv'
<1> DEFINE ch == [channel[active[v]] EXCEPT !.key = key, !.signOutgoing = FALSE,
                                            !.policy = "Pending"]
<1>1. /\ active[v] # NoLink /\ ~Pending(active[v]) /\ ops < MaxOps
      /\ channel' = [channel EXCEPT ![active[v]] = ch]
      /\ Begin(v, "Enable", key)
  BY DEF Enable
<1>2. channel[active[v]] \in ChannelType
  BY <1>1 DEF IInv, TypeOK
<1>3. ch \in ChannelType /\ ch.key = key /\ ~ch.signOutgoing /\ ch.policy = "Pending"
  BY <1>2, SigningAssumption DEF ChannelType, Signature
<1> HIDE DEF ch
<1>4. QED
  BY <1>1, <1>3, BeginPreserves

LEMMA DisablePreserves ==
    ASSUME IInv, NEW v \in Vehicles, Disable(v)
    PROVE  IInv'
<1> DEFINE l == active[v]
           ch == [channel[l] EXCEPT !.policy = "Pending"]
<1>1. /\ active[v] # NoLink /\ ~Pending(active[v]) /\ ops < MaxOps
      /\ channel[l].key # NoKey
      /\ channel' = [channel EXCEPT ![active[v]] = ch]
      /\ Begin(v, "Disable", NoKey)
  BY DEF Disable
<1>2. l \in Links /\ channel[l] \in ChannelType
  BY <1>1 DEF IInv, TypeOK
<1>3. op[l].kind = "None"
  BY <1>1 DEF Pending
<1>4. channel[l].signOutgoing
  <2>1. op[l].kind # "Enable" /\ op[l].kind # "Disable"
    BY <1>3
  <2>2. QED
    BY <1>1, <1>2, <1>3, <2>1 DEF IInv, ChannelFollowsOperation
<1>5. ch \in ChannelType /\ ch.key # NoKey /\ ch.signOutgoing /\ ch.policy = "Pending"
  BY <1>1, <1>2, <1>4 DEF ChannelType
<1> HIDE DEF ch
<1>6. QED
  BY <1>1, <1>5, BeginPreserves

(***************************************************************************)
(* A frame that settles an operation ends it and changes nothing else; so  *)
(* do a refusal and a timeout.                                             *)
(***************************************************************************)
LEMMA FramePreserves ==
    ASSUME IInv, NEW l \in Links,
           OnTimeout(l) \/ \E v \in Vehicles : Heartbeat(l, v) \/ Statustext(l, v)
    PROVE  IInv'
<1>1. /\ Pending(l) /\ (Fail(l) \/ Confirm(l))
      /\ UNCHANGED <<active, setups, signed, refused, ops>>
  BY DEF OnTimeout, Heartbeat, Statustext, Settles, air
<1>2. QED
  BY <1>1, EndingPreserves

LEMMA NextInv == IInv /\ [Next]_vars => IInv'
<1> SUFFICES ASSUME IInv, [Next]_vars PROVE IInv'
  OBVIOUS
<1>1. ASSUME NEW v \in Vehicles, NEW key \in StoredKeys, Enable(v, key) PROVE IInv'
  BY <1>1, EnablePreserves
<1>2. ASSUME NEW v \in Vehicles, Disable(v) PROVE IInv'
  BY <1>2, DisablePreserves
<1>3. ASSUME NEW v \in Vehicles, Retransmit(v) PROVE IInv'
  BY <1>3, RetransmitPreserves
<1>4. ASSUME NEW v \in Vehicles, PrimaryLinkChanged(v) PROVE IInv'
  BY <1>4, LeavingPreserves
<1>5. ASSUME NEW l \in Links, NEW v \in Vehicles, AutoDetect(l, v) PROVE IInv'
  BY <1>5, DetectionPreserves
<1>6. ASSUME NEW l \in Links, NEW v \in Vehicles, Heartbeat(l, v) \/ Statustext(l, v)
      PROVE  IInv'
  BY <1>6, FramePreserves
<1>7. ASSUME NEW l \in Links, CooldownExpires(l) PROVE IInv'
  BY <1>7, DetectionPreserves
<1>8. ASSUME NEW l \in Links, OnTimeout(l) PROVE IInv'
  BY <1>8, FramePreserves
<1>9. CASE VehicleAccepts \/ VehicleRefuses
  BY <1>9, VehiclePreserves
<1>10. CASE UNCHANGED vars
  BY <1>10
  DEF vars, IInv, TypeOK, ChannelFollowsOperation, RetryIsForPendingOperation,
      Pending, RetryIsWired, HandlersCounted
<1>11. QED
  BY <1>1, <1>2, <1>3, <1>4, <1>5, <1>6, <1>7, <1>8, <1>9, <1>10 DEF Next

(***************************************************************************)
(* The inductive invariant holds in every reachable state.                 *)
(***************************************************************************)
THEOREM Inductive == Spec => []IInv
<1>1. QED
  BY InitInv, NextInv, PTL DEF Spec

(***************************************************************************)
(* Type correctness of signing: an idle controller remembers neither       *)
(* vehicle nor key (TypeOK).                                               *)
(***************************************************************************)
THEOREM TypeCorrect == Spec => []TypeOK
<1>1. IInv => TypeOK
  BY DEF IInv
<1>2. QED
  BY Inductive, <1>1, PTL

(***************************************************************************)
(* At rest a channel is off or signs and insists on signatures, and while  *)
(* an operation waits it is as that operation needs it, for any number of  *)
(* vehicles, links and operations.                                         *)
(***************************************************************************)
THEOREM ChannelMatchesOperation == Spec => []ChannelFollowsOperation
<1>1. IInv => ChannelFollowsOperation
  BY DEF IInv
<1>2. QED
  BY Inductive, <1>1, PTL

(***************************************************************************)
(* A vehicle's retransmissions are of its own pending operation, also when *)
(* vehicles share links and move between them.                             *)
(***************************************************************************)
THEOREM RetransmissionIsOwn == Spec => []RetryIsForPendingOperation
<1>1. IInv => RetryIsForPendingOperation
  BY DEF IInv
<1>2. QED
  BY Inductive, <1>1, PTL

-----------------------------------------------------------------------------
\* The channel of link l starts to sign, with a key some vehicle has signed
\* with: with an operation waiting, the vehicle it waits for.
StartsProven(l) ==
    channel'[l].signOutgoing /\ ~channel[l].signOutgoing =>
       \E v \in Vehicles :
          /\ channel'[l].key \in signed[v]
          /\ op[l].kind # "None" => v = op[l].expectedSysId

LEMMA ConfirmedIsProven ==
    ASSUME IInv, NEW l \in Links, NEW v \in Vehicles, Heartbeat(l, v)
    PROVE  \A k \in Links : StartsProven(k)
<1>1. PICK key \in signed[v] : Settles(l, v, key)
  BY DEF Heartbeat
<1>2. /\ Pending(l) /\ op[l].expectedSysId = v /\ op[l].key \in signed[v]
      /\ channel' = [channel EXCEPT ![l] = ConfirmedChannel(l)]
  BY <1>1 DEF Heartbeat, Confirm, Settles
<1>3. op[l] \in OpType /\ channel[l] \in ChannelType /\ channel'[l] = ConfirmedChannel(l)
  BY <1>2 DEF IInv, TypeOK
<1>4. \A k \in Links : k # l => channel'[k] = channel[k]
  BY <1>2 DEF IInv, TypeOK
<1>5. ConfirmedChannel(l).signOutgoing => ConfirmedChannel(l).key = op[l].key
  <2>1. CASE op[l].kind = "Enable"
    <3>1. channel[l].key = op[l].key
      BY <2>1 DEF IInv, ChannelFollowsOperation
    <3>2. QED
      BY <1>3, <2>1, <3>1 DEF ConfirmedChannel, ChannelType
  <2>2. CASE op[l].kind # "Enable"
    BY <1>3, <2>2 DEF ConfirmedChannel, ChannelOff, ChannelType
  <2>3. QED
    BY <2>1, <2>2
<1>6. StartsProven(l)
  BY <1>2, <1>3, <1>5 DEF StartsProven
<1>7. QED
  BY <1>4, <1>6 DEF StartsProven

LEMMA DetectedIsProven ==
    ASSUME IInv, NEW l \in Links, NEW v \in Vehicles, AutoDetect(l, v)
    PROVE  \A k \in Links : StartsProven(k)
<1>1. PICK key \in signed[v] \ {NoKey} :
         /\ channel[l].key = NoKey /\ op[l].kind # "Enable"
         /\ channel' = [channel EXCEPT ![l] =
                IF key \in StoredKeys
                THEN [key |-> key, signOutgoing |-> TRUE, policy |-> "Strict",
                      cooldown |-> FALSE]
                ELSE [@ EXCEPT !.cooldown = TRUE]]
  BY DEF AutoDetect
<1>2. \A k \in Links : k # l => channel'[k] = channel[k]
  BY <1>1 DEF IInv, TypeOK
<1>3. op[l].kind = "None"
  <2>1. op[l].kind # "Disable"
    BY <1>1 DEF IInv, ChannelFollowsOperation
  <2>2. op[l] \in OpType
    BY DEF IInv, TypeOK
  <2>3. QED
    BY <1>1, <2>1, <2>2 DEF OpType, NoOp
<1>4. channel'[l].key = key \/ channel'[l].signOutgoing = channel[l].signOutgoing
  <2>1. channel[l] \in ChannelType
    BY DEF IInv, TypeOK
  <2>2. CASE key \in StoredKeys
    BY <1>1, <2>2 DEF IInv, TypeOK
  <2>3. CASE key \notin StoredKeys
    <3>1. channel'[l] = [channel[l] EXCEPT !.cooldown = TRUE]
      BY <1>1, <2>3 DEF IInv, TypeOK
    <3>2. QED
      BY <2>1, <3>1 DEF ChannelType
  <2>4. QED
    BY <2>2, <2>3
<1>5. QED
  BY <1>1, <1>2, <1>3, <1>4 DEF StartsProven

\* No other step makes a channel sign.
LEMMA OthersStartNothing ==
    ASSUME IInv, NEW l \in Links,
           \/ \E v \in Vehicles : \/ \E key \in StoredKeys : Enable(v, key)
                                  \/ Disable(v)
                                  \/ PrimaryLinkChanged(v)
           \/ \E k \in Links : Pending(k) /\ Fail(k)
           \/ \E k \in Links : CooldownExpires(k)
    PROVE  channel'[l].signOutgoing => channel[l].signOutgoing
<1>1. channel \in [Links -> ChannelType] /\ channel[l] \in ChannelType
  BY DEF IInv, TypeOK
<1>2. FailedChannel(l).signOutgoing => channel[l].signOutgoing
  BY <1>1 DEF FailedChannel, ChannelOff, ChannelType
<1>3. ASSUME NEW v \in Vehicles, NEW key \in StoredKeys, Enable(v, key)
      PROVE  channel'[l].signOutgoing => channel[l].signOutgoing
  BY <1>1, <1>3 DEF Enable, ChannelType
<1>4. ASSUME NEW v \in Vehicles, Disable(v)
      PROVE  channel'[l].signOutgoing => channel[l].signOutgoing
  BY <1>1, <1>4 DEF Disable, ChannelType
<1>5. ASSUME NEW k \in Links, Fail(k)
      PROVE  channel'[l].signOutgoing => channel[l].signOutgoing
  BY <1>1, <1>2, <1>5 DEF Fail
<1>6. ASSUME NEW v \in Vehicles, PrimaryLinkChanged(v)
      PROVE  channel'[l].signOutgoing => channel[l].signOutgoing
  <2>1. \/ channel' = channel
        \/ \E k : channel' = [channel EXCEPT ![k] = FailedChannel(k)]
    BY <1>6 DEF PrimaryLinkChanged, Disconnect, gcs
  <2>2. QED
    BY <1>1, <1>2, <2>1
<1>7. ASSUME NEW k \in Links, CooldownExpires(k)
      PROVE  channel'[l].signOutgoing => channel[l].signOutgoing
  BY <1>1, <1>7 DEF CooldownExpires, ChannelType
<1>8. QED
  BY <1>3, <1>4, <1>5, <1>6, <1>7

LEMMA StepStartsProven ==
    ASSUME IInv, [Next]_vars
    PROVE  \A l \in Links : StartsProven(l)
<1>1. ASSUME NEW l \in Links, NEW v \in Vehicles, Heartbeat(l, v)
      PROVE  \A k \in Links : StartsProven(k)
  BY <1>1, ConfirmedIsProven
<1>2. ASSUME NEW l \in Links, NEW v \in Vehicles, AutoDetect(l, v)
      PROVE  \A k \in Links : StartsProven(k)
  BY <1>2, DetectedIsProven
<1>3. CASE \/ \E v \in Vehicles : \/ \E key \in StoredKeys : Enable(v, key)
                                  \/ Disable(v)
                                  \/ PrimaryLinkChanged(v)
           \/ \E l \in Links : \/ CooldownExpires(l)
                               \/ OnTimeout(l)
                               \/ \E v \in Vehicles : Statustext(l, v)
  <2>1. \/ \E v \in Vehicles : \/ \E key \in StoredKeys : Enable(v, key)
                               \/ Disable(v)
                               \/ PrimaryLinkChanged(v)
        \/ \E k \in Links : Pending(k) /\ Fail(k)
        \/ \E k \in Links : CooldownExpires(k)
    BY <1>3 DEF OnTimeout, Statustext
  <2>2. QED
    BY <2>1, OthersStartNothing DEF StartsProven
<1>4. CASE VehicleAccepts \/ VehicleRefuses \/ UNCHANGED vars \/ \E v \in Vehicles : Retransmit(v)
  <2>1. channel' = channel
    BY <1>4 DEF VehicleAccepts, VehicleRefuses, gcs, vars, Retransmit
  <2>2. QED
    BY <2>1 DEF StartsProven
<1>5. QED
  BY <1>1, <1>2, <1>3, <1>4 DEF Next

(***************************************************************************)
(* The ground station starts to sign with a key only after a vehicle has   *)
(* signed with it, and an enable is confirmed only by the vehicle it was   *)
(* begun for (SignsWithProvenKey).                                         *)
(***************************************************************************)
THEOREM SigningIsProven == Spec => SignsWithProvenKey
<1>1. IInv /\ [Next]_vars =>
        [\A l \in Links : channel'[l].signOutgoing /\ ~channel[l].signOutgoing =>
            \E v \in Vehicles :
               /\ channel'[l].key \in signed[v]
               /\ op[l].kind # "None" => v = op[l].expectedSysId]_vars
  BY StepStartsProven DEF StartsProven
<1>2. QED
  BY Inductive, <1>1, PTL DEF Spec, SignsWithProvenKey
=============================================================================
