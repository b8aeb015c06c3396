-------------------------- MODULE PlanManagerProofs --------------------------
(***************************************************************************)
(* The transfer of a plan, for any plans, retry limit, number of transfers *)
(* and capacity of the link: the manager cannot lock up, every transfer is *)
(* reported by its own signal, and a transfer that reports success over a  *)
(* link that was clear when it began leaves both sides with the same plan. *)
(***************************************************************************)
EXTENDS PlanManager, SequenceTheorems, FiniteSetTheorems, WellFoundedInduction, TLAPS

(* What may be under way.                                                  *)
ToVehicleMsg ==
    [type : {"requestList", "clearAll", "guidedItem", "ack"}] \cup [type : {"count"}, n : Nat]
    \cup [type : {"request"}, seq : Nat] \cup [type : {"item"}, seq : Nat, val : Value]
ToGcsMsg ==
    [type : {"count"}, n : Nat] \cup [type : {"item"}, seq : Nat, val : Value]
    \cup [type : {"request"}, seq : Nat] \cup [type : {"ack"}, result : {"accepted", "error", "invalidSequence"}]

ChannelsTyped == toVehicle \in Seq(ToVehicleMsg) /\ toGcs \in Seq(ToGcsMsg)

(* A read that awaits the count has gathered nothing yet: this is why the  *)
(* indices it then asks for are of no item it has.                         *)
CountFindsNothing ==
    ~Idle /\ expectedAck = "count" => itemIndicesToRead = {} /\ missionItems = <<>>

(* The transfer in progress is the one that was asked for last.            *)
AskedForThis ==
    /\ ~Idle => started \in 1..MaxTransactions
                /\ asked[started] = IF guided THEN "guided" ELSE transactionInProgress
    /\ ~Idle /\ guided => transactionInProgress = "write"

IInv == TypeOK /\ ChannelsTyped /\ NeverLocked /\ ReportedAsAsked /\ CountFindsNothing /\ AskedForThis

-----------------------------------------------------------------------------
(* Data.                                                                   *)

LEMMA MinOfNaturals ==
    ASSUME NEW S, S \subseteq Nat, S # {}
    PROVE  Min(S) \in S /\ \A k \in S : Min(S) <= k
<1> DEFINE Less == {pair \in Nat \X Nat : pair[1] < pair[2]}
<1>1. IsWellFoundedOn(Less, Nat)
  BY NatLessThanWellFounded DEF OpToRel
<1>2. PICK k \in S : \A j \in S : <<j, k>> \notin Less
  <2> HIDE DEF Less
  <2> QED BY <1>1, WFMin
<1>3. ASSUME NEW j \in S PROVE k <= j
  <2>1. j \in Nat /\ k \in Nat /\ <<j, k>> \notin Less
    BY <1>2
  <2>2. ~(j < k)
    BY <2>1
  <2> QED BY <2>1, <2>2
<1> QED BY <1>3 DEF Min

(* A channel that is full drops what is sent.                              *)
LEMMA PushType ==
    ASSUME NEW S, NEW ch \in Seq(S), NEW msg \in S
    PROVE  Push(ch, msg) \in Seq(S)
BY AppendProperties DEF Push

LEMMA TailType ==
    ASSUME NEW S, NEW ch \in Seq(S), ch # <<>>
    PROVE  Head(ch) \in S /\ Tail(ch) \in Seq(S)
BY HeadTailProperties

LEMMA PlansTyped == ASSUME NEW plan \in Plans PROVE plan \in Seq(Value)
<1> DEFINE range == {plan[i] : i \in DOMAIN plan}
<1>1. plan \in Seq(range)
  BY PlanManagerParameters
<1>2. range \subseteq Value
  BY DEF Value
<1> HIDE DEF range
<1> QED BY <1>1, <1>2, SeqMonotonic

LEMMA ItemsOfPlan ==
    ASSUME NEW plan \in Seq(Value)
    PROVE  /\ ItemsOf(plan) \in Seq(Item) /\ Len(ItemsOf(plan)) = Len(plan)
           /\ \A i \in 1..Len(plan) : ItemsOf(plan)[i] = [seq |-> i - 1, val |-> plan[i]]
           /\ PlanOf(ItemsOf(plan)) = plan
<1>1. /\ Len(plan) \in Nat /\ DOMAIN plan = 1..Len(plan) /\ plan \in [1..Len(plan) -> Value]
  BY LenProperties
<1>2. ItemsOf(plan) \in [1..Len(plan) -> Item]
  BY <1>1 DEF ItemsOf, Item
<1>3. ItemsOf(plan) \in Seq(Item)
  BY <1>1, <1>2, SeqDef
<1>4. DOMAIN ItemsOf(plan) = 1..Len(plan)
  BY <1>1 DEF ItemsOf
<1>5. Len(ItemsOf(plan)) = Len(plan)
  BY <1>1, <1>3, <1>4, LenProperties
<1>6. \A i \in 1..Len(plan) : ItemsOf(plan)[i] = [seq |-> i - 1, val |-> plan[i]]
  BY <1>1 DEF ItemsOf
<1>7. PlanOf(ItemsOf(plan)) = plan
  BY <1>1, <1>4, <1>6 DEF PlanOf
<1> QED BY <1>3, <1>5, <1>6, <1>7

LEMMA PlanOfItems ==
    ASSUME NEW items \in Seq(Item)
    PROVE  /\ PlanOf(items) \in Seq(Value) /\ Len(PlanOf(items)) = Len(items)
           /\ \A i \in 1..Len(items) : PlanOf(items)[i] = items[i].val
<1>1. /\ Len(items) \in Nat /\ DOMAIN items = 1..Len(items) /\ items \in [1..Len(items) -> Item]
  BY LenProperties
<1>2. PlanOf(items) \in [1..Len(items) -> Value]
  BY <1>1 DEF PlanOf, Item
<1>3. PlanOf(items) \in Seq(Value)
  BY <1>1, <1>2, SeqDef
<1> QED BY <1>1, <1>2, <1>3, LenProperties DEF PlanOf

LEMMA RestOfPlan ==
    ASSUME NEW plan \in Seq(Value), NEW i \in 1..Len(plan)
    PROVE  SubSeq(plan, i, Len(plan)) \in Seq(Value)
<1>1. Len(plan) \in Nat /\ \A j \in i..Len(plan) : plan[j] \in Value
  BY LenProperties, ElementOfSeq
<1> QED BY <1>1, SubSeqProperties

-----------------------------------------------------------------------------
(* Steps of the ground station.                                            *)

Kind == {"newMissionItemsAvailable", "sendComplete", "removeAllComplete"}
Signal == [tx : 1..MaxTransactions, ok : BOOLEAN, kind : Kind]

LEMMA SignalsTyped ==
    ASSUME IInv
    PROVE  /\ signals \in Seq(Signal) /\ Len(signals) \in Nat /\ DOMAIN signals = 1..Len(signals)
           /\ started \in Nat /\ Ended \in Int /\ (Idle => Ended = started) /\ (~Idle => Ended = started - 1)
           /\ \A i \in DOMAIN signals : signals[i].tx \in 1..MaxTransactions /\ signals[i].ok \in BOOLEAN
<1>1. signals \in Seq(Signal) /\ started \in Nat
  BY PlanManagerParameters DEF IInv, TypeOK, Signal, Kind
<1>2. Len(signals) \in Nat /\ DOMAIN signals = 1..Len(signals)
  BY <1>1, LenProperties
<1>3. \A i \in DOMAIN signals : signals[i] \in Signal
  BY <1>1, <1>2, ElementOfSeq
<1> QED BY <1>1, <1>2, <1>3 DEF Ended, Signal

(* The signals emitted so far, extended by that of the transfer that ends. *)
LEMMA ReportedLast ==
    ASSUME IInv, ~Idle, Idle', UNCHANGED <<asked, started>>, NEW ok \in BOOLEAN, NEW kind \in Kind,
           signals' = Append(signals, [tx |-> started, ok |-> ok, kind |-> kind]),
           kind = CompletionSignal(asked[started]), guided => ~ok
    PROVE  signals' \in Seq(Signal) /\ ReportedAsAsked'
<1> DEFINE new == [tx |-> started, ok |-> ok, kind |-> kind]
           n == Len(signals)
<1>1. /\ signals \in Seq(Signal) /\ n \in Nat /\ DOMAIN signals = 1..n
      /\ Ended = started - 1 /\ started \in Nat
      /\ \A i \in DOMAIN signals : signals[i].tx \in Nat /\ signals[i].ok \in BOOLEAN
  BY SignalsTyped
<1>2. started \in 1..MaxTransactions
  BY DEF IInv, AskedForThis
<1>3. new \in Signal /\ new.tx = started /\ new.ok = ok /\ new.kind = kind
  BY <1>2 DEF Signal
<1>4. Ended' = started
  BY DEF Ended
<1> HIDE DEF new
<1>5. /\ signals' \in Seq(Signal) /\ DOMAIN signals' = 1..(n + 1)
      /\ \A i \in 1..n : signals'[i] = signals[i]
      /\ signals'[n + 1] = new
  <2>1. signals' = Append(signals, new)
    BY DEF new
  <2>2. signals' \in Seq(Signal) /\ Len(signals') = n + 1
    BY <1>1, <1>3, <2>1, AppendProperties
  <2> QED BY <1>1, <1>3, <2>1, <2>2, AppendProperties, LenProperties
<1> HIDE DEF n
<1>6. /\ \A i \in DOMAIN signals :
            /\ signals[i].tx <= Ended
            /\ signals[i].kind = CompletionSignal(asked[signals[i].tx])
            /\ asked[signals[i].tx] = "guided" => ~signals[i].ok
      /\ \A i, j \in DOMAIN signals : i < j => signals[i].tx < signals[j].tx
      /\ \A t \in 1..Ended : asked[t] # "guided" => \E i \in DOMAIN signals : signals[i].tx = t
  BY DEF IInv, ReportedAsAsked
<1>7. asked[started] = "guided" => ~ok
  BY DEF IInv, AskedForThis, Idle, TypeOK
<1>8. ASSUME NEW i \in DOMAIN signals'
      PROVE  /\ signals'[i].tx <= started
             /\ signals'[i].kind = CompletionSignal(asked[signals'[i].tx])
             /\ asked[signals'[i].tx] = "guided" => ~signals'[i].ok
  <2>1. CASE i \in 1..n
    <3>1. signals'[i] = signals[i] /\ i \in DOMAIN signals
      BY <1>1, <1>5, <2>1
    <3>2. signals[i].tx <= started
      BY <1>1, <1>6, <3>1
    <3> QED BY <1>6, <3>1, <3>2
  <2>2. CASE i = n + 1
    BY <1>1, <1>3, <1>5, <1>7, <2>2
  <2> QED BY <1>1, <1>5, <2>1, <2>2
<1>9. ASSUME NEW i \in DOMAIN signals', NEW j \in DOMAIN signals', i < j
      PROVE  signals'[i].tx < signals'[j].tx
  <2>1. i \in 1..n /\ i \in DOMAIN signals /\ signals'[i] = signals[i]
    BY <1>1, <1>5, <1>9
  <2>2. CASE j \in 1..n
    BY <1>1, <1>5, <1>6, <1>9, <2>1, <2>2
  <2>3. CASE j = n + 1
    <3>1. signals[i].tx <= started - 1 /\ signals[i].tx \in Nat
      BY <1>1, <1>6, <2>1
    <3> QED BY <1>1, <1>3, <1>5, <2>1, <2>3, <3>1
  <2> QED BY <1>1, <1>5, <2>2, <2>3
<1>10. ASSUME NEW t \in 1..started, asked[t] # "guided"
       PROVE  \E i \in DOMAIN signals' : signals'[i].tx = t
  <2>1. CASE t = started
    BY <1>1, <1>3, <1>5, <2>1
  <2>2. CASE t # started
    <3>1. t \in 1..Ended
      BY <1>1, <2>2
    <3>2. PICK i \in DOMAIN signals : signals[i].tx = t
      BY <1>6, <1>10, <3>1
    <3> QED BY <1>1, <1>5, <3>2
  <2> QED BY <2>1, <2>2
<1> QED BY <1>4, <1>5, <1>8, <1>9, <1>10 DEF ReportedAsAsked

(* A transfer that ends, well or badly, is reported and leaves nothing     *)
(* running.                                                                *)
LEMMA Finishing ==
    ASSUME IInv, ~Idle, NEW ok \in BOOLEAN, NEW guidedWrite \in BOOLEAN, NEW items \in Seq(Item),
           _finishTransaction(ok, guidedWrite, items), timerActive' = FALSE,
           guidedWrite => guided, guided => guidedWrite \/ ~ok,
           expectedAck' \in {"none", expectedAck}, retryCount' \in {0, retryCount},
           UNCHANGED vehicle
    PROVE  TypeOK' /\ NeverLocked' /\ ReportedAsAsked' /\ CountFindsNothing' /\ AskedForThis'
<1> DEFINE kind == CASE transactionInProgress = "read" -> "newMissionItemsAvailable"
                     [] transactionInProgress = "write" /\ ~guidedWrite -> "sendComplete"
                     [] transactionInProgress = "removeAll" -> "removeAllComplete"
                     [] OTHER -> "none"
<1>1. /\ missionItems' = ItemsAfter(kind, ok, items)
      /\ writeMissionItems' = IF kind = "sendComplete" THEN <<>> ELSE writeMissionItems
      /\ signals' = IF kind = "none" THEN signals
                    ELSE Append(signals, [tx |-> started, ok |-> ok, kind |-> kind])
  BY DEF _finishTransaction
<1>2. /\ started \in 1..MaxTransactions
      /\ asked[started] = IF guided THEN "guided" ELSE transactionInProgress
      /\ guided => transactionInProgress = "write"
  BY DEF IInv, AskedForThis
<1>3. transactionInProgress \in {"read", "write", "removeAll"}
  BY DEF IInv, TypeOK, Idle
<1>4. /\ kind = "none" => guided
      /\ kind # "none" => kind \in Kind /\ kind = CompletionSignal(asked[started]) /\ (guided => ~ok)
  BY <1>2, <1>3 DEF Kind, CompletionSignal
<1> HIDE DEF kind
<1>5. missionItems' \in Seq(Item) /\ writeMissionItems' \in Seq(Item)
  BY <1>1, EmptySeq DEF ItemsAfter, IInv, TypeOK
<1>6. /\ transactionInProgress' = "none" /\ itemIndicesToRead' = {} /\ itemIndicesToWrite' = {}
      /\ resumeMission' = FALSE /\ UNCHANGED <<guided, asked, started, clean>> /\ Idle'
  BY DEF _finishTransaction, Idle
<1>7. signals' \in Seq(Signal) /\ ReportedAsAsked'
  <2>1. CASE kind = "none"
    <3>1. UNCHANGED signals /\ Ended = started - 1 /\ Ended' = started /\ started \in Nat
      BY <1>1, <1>6, <2>1, SignalsTyped DEF Ended
    <3>2. asked[started] = "guided"
      BY <1>2, <1>4, <2>1
    <3>3. /\ \A i \in DOMAIN signals :
                /\ signals[i].tx <= Ended
                /\ signals[i].kind = CompletionSignal(asked[signals[i].tx])
                /\ asked[signals[i].tx] = "guided" => ~signals[i].ok
          /\ \A i, j \in DOMAIN signals : i < j => signals[i].tx < signals[j].tx
          /\ \A t \in 1..Ended : asked[t] # "guided" => \E i \in DOMAIN signals : signals[i].tx = t
      BY DEF IInv, ReportedAsAsked
    <3>4. \A i \in DOMAIN signals : signals[i].tx \in Nat /\ signals[i].tx <= started
      BY <3>1, <3>3, SignalsTyped
    <3>5. \A t \in 1..started : t = started \/ t \in 1..Ended
      BY <3>1
    <3> QED BY <1>6, <3>1, <3>2, <3>3, <3>4, <3>5, SignalsTyped DEF ReportedAsAsked
  <2>2. CASE kind # "none"
    BY <1>1, <1>4, <1>6, <2>2, ReportedLast
  <2> QED BY <2>1, <2>2
<1>8. TypeOK'
  <2>1. signals' \in Seq([tx : 1..MaxTransactions, ok : BOOLEAN,
                          kind : {"newMissionItemsAvailable", "sendComplete", "removeAllComplete"}])
    BY <1>7 DEF Signal, Kind
  <2>2. /\ retryCount' \in 0..(MaxRetryCount + 1)
        /\ expectedAck' \in {"none", "count", "item", "request", "clearAll", "guided"}
    BY PlanManagerParameters DEF IInv, TypeOK
  <2> QED BY <1>5, <1>6, <2>1, <2>2 DEF IInv, TypeOK, vehicle
<1>9. NeverLocked'
  BY <1>6 DEF NeverLocked, Idle
<1>10. CountFindsNothing' /\ AskedForThis'
  BY <1>6 DEF CountFindsNothing, AskedForThis
<1> QED BY <1>7, <1>8, <1>9, <1>10

LEMMA SendType ==
    ASSUME IInv, NEW msg \in ToVehicleMsg, Send(msg)
    PROVE  toVehicle' \in Seq(ToVehicleMsg)
BY PushType DEF Send, IInv, ChannelsTyped

(* A transfer begins: the timer runs for the first answer.                 *)
LEMMA Beginning ==
    ASSUME IInv, Idle, started < MaxTransactions, started' = started + 1,
           retryCount' \in {0, retryCount}, timerActive' = TRUE,
           clean' \in BOOLEAN, guided' \in BOOLEAN, resumeMission' \in BOOLEAN,
           itemIndicesToWrite' \subseteq Nat, itemIndicesToRead' \subseteq Nat,
           missionItems' \in Seq(Item), writeMissionItems' \in Seq(Item),
           \/ /\ transactionInProgress' = "read" /\ expectedAck' = "count"
              /\ itemIndicesToRead' = {} /\ missionItems' = <<>>
           \/ transactionInProgress' = "write" /\ expectedAck' = IF guided' THEN "guided" ELSE "request"
           \/ transactionInProgress' = "removeAll" /\ expectedAck' = "clearAll",
           guided' => transactionInProgress' = "write",
           asked' = [asked EXCEPT ![started'] = IF guided' THEN "guided" ELSE transactionInProgress'],
           UNCHANGED <<vehicle, signals, toGcs>>,
           NEW msg \in ToVehicleMsg, Send(msg)
    PROVE  IInv'
<1>1. ChannelsTyped'
  BY SendType DEF IInv, ChannelsTyped
<1>2. started' \in 1..MaxTransactions /\ started \in Nat /\ started < started'
  BY PlanManagerParameters DEF IInv, TypeOK
<1>3. /\ asked' \in [1..MaxTransactions -> Transfer \cup {"none"}]
      /\ asked'[started'] = IF guided' THEN "guided" ELSE transactionInProgress'
      /\ \A t \in 1..MaxTransactions : t # started' => asked'[t] = asked[t]
  BY <1>2 DEF IInv, TypeOK, Transfer
<1>4. TypeOK'
  BY <1>2, <1>3, PlanManagerParameters DEF IInv, TypeOK, vehicle
<1>5. NeverLocked'
  BY DEF NeverLocked, Idle
<1>6. ReportedAsAsked'
  <2>1. /\ Ended = started /\ Ended' = started /\ DOMAIN signals' = DOMAIN signals
        /\ \A i \in DOMAIN signals : signals[i].tx \in 1..MaxTransactions
    <3>1. ~Idle'
      BY DEF Idle
    <3> QED BY <1>2, <3>1, SignalsTyped DEF Ended
  <2>2. /\ \A i \in DOMAIN signals :
              /\ signals[i].tx <= started
              /\ signals[i].kind = CompletionSignal(asked[signals[i].tx])
              /\ asked[signals[i].tx] = "guided" => ~signals[i].ok
        /\ \A i, j \in DOMAIN signals : i < j => signals[i].tx < signals[j].tx
        /\ \A t \in 1..started : asked[t] # "guided" => \E i \in DOMAIN signals : signals[i].tx = t
    BY <2>1 DEF IInv, ReportedAsAsked
  <2>3. \A i \in DOMAIN signals : asked'[signals[i].tx] = asked[signals[i].tx]
    BY <1>2, <1>3, <2>1, <2>2
  <2>4. \A t \in 1..started : asked'[t] = asked[t]
    BY <1>2, <1>3, PlanManagerParameters
  <2> QED BY <2>1, <2>2, <2>3, <2>4 DEF ReportedAsAsked
<1>7. CountFindsNothing'
  BY DEF CountFindsNothing
<1>8. AskedForThis'
  BY <1>2, <1>3 DEF AskedForThis
<1> QED BY <1>1, <1>4, <1>5, <1>6, <1>7, <1>8 DEF IInv

LEMMA UserPreserves == ASSUME IInv, User PROVE IInv'
<1> USE DEF Begin, _startAckTimeout
<1>1. CASE loadFromVehicle
  <2>1. [type |-> "requestList"] \in ToVehicleMsg
    BY DEF ToVehicleMsg
  <2> QED BY <1>1, <2>1, Beginning, EmptySeq DEF loadFromVehicle, _requestList, IInv, TypeOK
<1>2. CASE removeAll
  <2>1. [type |-> "clearAll"] \in ToVehicleMsg
    BY DEF ToVehicleMsg
  <2> QED BY <1>2, <2>1, Beginning, EmptySeq DEF removeAll, _removeAllWorker, IInv, TypeOK
<1>3. CASE writeArduPilotGuidedMissionItem
  <2>1. [type |-> "guidedItem"] \in ToVehicleMsg
    BY DEF ToVehicleMsg
  <2> QED BY <1>3, <2>1, Beginning DEF writeArduPilotGuidedMissionItem, IInv, TypeOK
<1>4. ASSUME NEW plan \in Seq(Value), _writeMissionItemsWorker(ItemsOf(plan)), resumeMission' \in BOOLEAN
      PROVE  IInv'
  <2> DEFINE items == ItemsOf(plan)
  <2>1. items \in Seq(Item) /\ Len(items) \in Nat /\ DOMAIN items = 1..Len(items)
    BY ItemsOfPlan, LenProperties
  <2> HIDE DEF items
  <2>2. [type |-> "count", n |-> Len(items)] \in ToVehicleMsg
    BY <2>1 DEF ToVehicleMsg
  <2>3. {i - 1 : i \in DOMAIN items} \subseteq Nat
    BY <2>1
  <2>4. _writeMissionItemsWorker(items)
    BY <1>4 DEF items
  <2> QED BY <1>4, <2>1, <2>2, <2>3, <2>4, Beginning
          DEF _writeMissionItemsWorker, _writeMissionCount, IInv, TypeOK
<1>5. CASE \E plan \in Plans : writeMissionItems_(plan)
  BY <1>4, <1>5, PlansTyped DEF writeMissionItems_, IInv, TypeOK
<1>6. CASE \E i \in DOMAIN missionItems : generateResumeMission(i)
  <2>1. PICK i \in DOMAIN missionItems : generateResumeMission(i)
    BY <1>6
  <2>2. SubSeq(PlanOf(missionItems), i, Len(missionItems)) \in Seq(Value)
    <3>1. /\ PlanOf(missionItems) \in Seq(Value) /\ Len(PlanOf(missionItems)) = Len(missionItems)
          /\ i \in 1..Len(missionItems)
      BY PlanOfItems, LenProperties DEF IInv, TypeOK
    <3> QED BY <3>1, RestOfPlan
  <2> QED BY <1>4, <2>1, <2>2 DEF generateResumeMission
<1> QED BY <1>1, <1>2, <1>3, <1>5, <1>6 DEF User

(* What stays as it was when a transfer goes on.                           *)
Ongoing ==
    UNCHANGED <<transactionInProgress, writeMissionItems, resumeMission, guided, asked, started, clean, signals, vehicle>>

LEMMA GoingOn ==
    ASSUME IInv, ~Idle, Ongoing, timerActive' = TRUE,
           itemIndicesToRead' \subseteq Nat, itemIndicesToWrite' \subseteq Nat, missionItems' \in Seq(Item),
           retryCount' \in 0..(MaxRetryCount + 1), ChannelsTyped',
           \/ expectedAck' = expectedAck /\ UNCHANGED <<missionItems, itemIndicesToRead>>
           \/ /\ transactionInProgress = "read" /\ expectedAck' = "count"
              /\ itemIndicesToRead' = {} /\ missionItems' = <<>>
           \/ /\ transactionInProgress = "read" /\ expectedAck' = "item" /\ itemIndicesToRead' # {}
              /\ {missionItems'[i].seq : i \in DOMAIN missionItems'} \cap itemIndicesToRead' = {}
    PROVE  IInv'
<1>1. Idle' = Idle
  BY DEF Ongoing, Idle
<1>2. TypeOK'
  BY DEF Ongoing, IInv, TypeOK, vehicle
<1>3. NeverLocked'
  <2>1. timerActive' <=> ~Idle'
    BY <1>1
  <2>2. (CASE transactionInProgress = "read" -> expectedAck' \in {"count", "item"}
          [] transactionInProgress = "write" -> expectedAck' = IF guided THEN "guided" ELSE "request"
          [] transactionInProgress = "removeAll" -> expectedAck' = "clearAll")
    BY DEF IInv, NeverLocked, Idle, TypeOK
  <2>3. ~Idle' /\ expectedAck' = "item" =>
          /\ itemIndicesToRead' # {}
          /\ {missionItems'[i].seq : i \in DOMAIN missionItems'} \cap itemIndicesToRead' = {}
    BY DEF IInv, NeverLocked
  <2> QED BY <2>1, <2>2, <2>3 DEF NeverLocked, Ongoing
<1>4. ReportedAsAsked' /\ AskedForThis'
  BY <1>1 DEF Ongoing, IInv, ReportedAsAsked, AskedForThis, Ended
<1>5. CountFindsNothing'
  BY DEF IInv, CountFindsNothing
<1> QED BY <1>2, <1>3, <1>4, <1>5 DEF IInv

(* A message of the vehicle is taken off its channel.                      *)
LEMMA Receiving ==
    ASSUME IInv, toGcs # <<>>
    PROVE  Head(toGcs) \in ToGcsMsg /\ Tail(toGcs) \in Seq(ToGcsMsg)
BY TailType DEF IInv, ChannelsTyped

LEMMA CountReceived ==
    ASSUME IInv, IsNext("count")
    PROVE  Head(toGcs).n \in Nat
BY Receiving DEF IsNext, ToGcsMsg

LEMMA ItemReceived ==
    ASSUME IInv, IsNext("item")
    PROVE  Head(toGcs).seq \in Nat /\ Head(toGcs).val \in Value
BY Receiving DEF IsNext, ToGcsMsg

LEMMA RequestReceived ==
    ASSUME IInv, IsNext("request")
    PROVE  Head(toGcs).seq \in Nat
BY Receiving DEF IsNext, ToGcsMsg

(* The invariant's parts about the manager, when the manager rests.        *)
LEMMA ManagerRests ==
    ASSUME IInv, UNCHANGED gcs
    PROVE  NeverLocked' /\ ReportedAsAsked' /\ CountFindsNothing' /\ AskedForThis'
<1>1. ReportedAsAsked'
  <2>1. UNCHANGED <<signals, asked, Ended>>
    BY DEF gcs, Ended, Idle
  <2> QED BY <2>1 DEF IInv, ReportedAsAsked, CompletionSignal
<1>2. NeverLocked' /\ CountFindsNothing' /\ AskedForThis'
  BY DEF IInv, NeverLocked, CountFindsNothing, AskedForThis, Idle, gcs
<1> QED BY <1>1, <1>2

LEMMA IgnoredPreserves == ASSUME IInv, Ignored PROVE IInv'
<1>1. ChannelsTyped'
  BY Receiving DEF Ignored, IInv, ChannelsTyped
<1>2. UNCHANGED gcs /\ UNCHANGED vehicle
  BY DEF Ignored
<1>3. TypeOK'
  BY <1>2 DEF IInv, TypeOK, gcs, vehicle
<1> QED BY <1>1, <1>2, <1>3, ManagerRests DEF IInv

LEMMA ReadCompletes ==
    ASSUME IInv, transactionInProgress = "read", NEW items \in Seq(Item), ReadComplete(items),
           retryCount' = 0, toGcs' \in Seq(ToGcsMsg), UNCHANGED vehicle
    PROVE  IInv'
<1>1. ChannelsTyped'
  <2>1. [type |-> "ack"] \in ToVehicleMsg
    BY DEF ToVehicleMsg
  <2> QED BY <2>1, SendType DEF ReadComplete, ChannelsTyped
<1>2. ~Idle /\ ~guided
  BY DEF IInv, AskedForThis, Idle, TypeOK
<1>3. TypeOK' /\ NeverLocked' /\ ReportedAsAsked' /\ CountFindsNothing' /\ AskedForThis'
  BY <1>2, Finishing DEF ReadComplete, AckStopped
<1> QED BY <1>1, <1>3 DEF IInv

LEMMA RequestingNext ==
    ASSUME IInv, NEW indices \in SUBSET Nat, indices # {}, _requestNextMissionItem(indices)
    PROVE  toVehicle' \in Seq(ToVehicleMsg)
<1>1. [type |-> "request", seq |-> Min(indices)] \in ToVehicleMsg
  BY MinOfNaturals DEF ToVehicleMsg
<1> QED BY <1>1, SendType DEF _requestNextMissionItem

LEMMA CountPreserves == ASSUME IInv, _handleMissionCount PROVE IInv'
<1> USE DEF _handleMissionCount
<1>1. /\ ~Idle /\ expectedAck = "count" /\ retryCount' = 0 /\ UNCHANGED vehicle
      /\ toGcs' \in Seq(ToGcsMsg) /\ Head(toGcs).n \in Nat
  BY Receiving, CountReceived DEF IsNext
<1>2. CASE Head(toGcs).n = 0
  <2>1. transactionInProgress = "read" /\ missionItems \in Seq(Item)
    BY <1>1 DEF IInv, NeverLocked, Idle, TypeOK
  <2> QED BY <1>1, <1>2, <2>1, ReadCompletes
<1>3. CASE Head(toGcs).n # 0
  <2> DEFINE n == Head(toGcs).n
             left == itemIndicesToRead \cup (0..(n - 1))
  <2>1. left \subseteq Nat /\ 0 \in left
    <3>1. itemIndicesToRead \subseteq Nat /\ n \in Nat /\ n # 0
      BY <1>1, <1>3 DEF IInv, TypeOK
    <3> HIDE DEF n
    <3>2. 0..(n - 1) \subseteq Nat /\ 0 \in 0..(n - 1)
      BY <3>1
    <3> QED BY <3>1, <3>2
  <2>2. itemIndicesToRead' = left /\ _requestNextMissionItem(left)
    BY <1>3
  <2> HIDE DEF left
  <2>3. ChannelsTyped'
    BY <1>1, <2>1, <2>2, RequestingNext DEF ChannelsTyped
  <2>4. {missionItems[i].seq : i \in DOMAIN missionItems} = {}
    BY <1>1, EmptySeq DEF IInv, CountFindsNothing
  <2>5. transactionInProgress = "read"
    BY <1>1 DEF IInv, NeverLocked, Idle, TypeOK
  <2>6. /\ itemIndicesToWrite \subseteq Nat /\ missionItems \in Seq(Item)
        /\ retryCount' \in 0..(MaxRetryCount + 1)
    BY <1>1, PlanManagerParameters DEF IInv, TypeOK
  <2>7. /\ UNCHANGED <<itemIndicesToWrite, missionItems>> /\ Ongoing
        /\ expectedAck' = "item" /\ timerActive' = TRUE
    BY <1>3, <2>2 DEF _requestNextMissionItem, _startAckTimeout, Ongoing
  <2>8. {missionItems'[i].seq : i \in DOMAIN missionItems'} \cap itemIndicesToRead' = {}
    BY <2>4, <2>7
  <2> QED BY <1>1, <2>1, <2>2, <2>3, <2>5, <2>6, <2>7, <2>8, GoingOn
<1> QED BY <1>2, <1>3

(* The indices of a list that is given one more item.                      *)
LEMMA IndicesOfLonger ==
    ASSUME NEW items \in Seq(Item), NEW item \in Item
    PROVE  /\ Append(items, item) \in Seq(Item)
           /\ {Append(items, item)[i].seq : i \in DOMAIN Append(items, item)}
                = {items[i].seq : i \in DOMAIN items} \cup {item.seq}
<1> DEFINE longer == Append(items, item)
<1>1. /\ longer \in Seq(Item) /\ Len(longer) = Len(items) + 1
      /\ \A i \in 1..Len(items) : longer[i] = items[i]
      /\ longer[Len(items) + 1] = item
  BY AppendProperties
<1> HIDE DEF longer
<1>2. Len(items) \in Nat /\ DOMAIN items = 1..Len(items) /\ DOMAIN longer = 1..(Len(items) + 1)
  BY <1>1, LenProperties
<1>3. {longer[i].seq : i \in DOMAIN longer} = {items[i].seq : i \in DOMAIN items} \cup {item.seq}
  BY <1>1, <1>2
<1> QED BY <1>1, <1>3 DEF longer

LEMMA ItemPreserves == ASSUME IInv, _handleMissionItem PROVE IInv'
<1> DEFINE seq == Head(toGcs).seq
           item == [seq |-> seq, val |-> Head(toGcs).val]
           items == Append(missionItems, item)
           left == itemIndicesToRead \ {seq}
<1>1. /\ ~Idle /\ expectedAck = "item" /\ UNCHANGED vehicle /\ toGcs' \in Seq(ToGcsMsg)
      /\ seq \in Nat /\ item \in Item
  BY Receiving, ItemReceived DEF _handleMissionItem, IsNext, Item
<1>2. /\ items \in Seq(Item) /\ left \subseteq Nat
      /\ {items[i].seq : i \in DOMAIN items} = {missionItems[i].seq : i \in DOMAIN missionItems} \cup {seq}
  BY <1>1, IndicesOfLonger DEF IInv, TypeOK
<1>3. \/ /\ UnrequestedItem
         /\ UNCHANGED <<transactionInProgress, retryCount, itemIndicesToWrite, itemIndicesToRead,
                        missionItems, writeMissionItems, resumeMission, guided, asked, started, clean, signals, toVehicle>>
      \/ retryCount' = 0 /\ ReadComplete(items)
      \/ /\ left # {} /\ retryCount' = 0 /\ itemIndicesToRead' = left /\ missionItems' = items
         /\ _requestNextMissionItem(left)
         /\ UNCHANGED <<transactionInProgress, itemIndicesToWrite, writeMissionItems,
                        resumeMission, guided, asked, started, clean, signals>>
  BY DEF _handleMissionItem, Remaining
<1>4. transactionInProgress = "read"
  BY <1>1 DEF IInv, NeverLocked, Idle, TypeOK
<1>5. {missionItems[i].seq : i \in DOMAIN missionItems} \cap itemIndicesToRead = {}
  BY <1>1 DEF IInv, NeverLocked
<1>6. {items[i].seq : i \in DOMAIN items} \cap left = {}
  BY <1>2, <1>5
<1> HIDE DEF items, left
<1>7. CASE UnrequestedItem /\ UNCHANGED <<transactionInProgress, retryCount, itemIndicesToWrite, itemIndicesToRead,
                missionItems, writeMissionItems, resumeMission, guided, asked, started, clean, signals, toVehicle>>
  BY <1>1, <1>7, GoingOn DEF UnrequestedItem, _startAckTimeout, Ongoing, IInv, TypeOK, ChannelsTyped
<1>8. CASE retryCount' = 0 /\ ReadComplete(items)
  BY <1>1, <1>2, <1>4, <1>8, ReadCompletes
<1>9. CASE /\ left # {} /\ retryCount' = 0 /\ itemIndicesToRead' = left /\ missionItems' = items
           /\ _requestNextMissionItem(left)
           /\ UNCHANGED <<transactionInProgress, itemIndicesToWrite, writeMissionItems,
                          resumeMission, guided, asked, started, clean, signals>>
  <2>1. ChannelsTyped'
    BY <1>1, <1>2, <1>9, RequestingNext DEF ChannelsTyped
  <2> QED BY <1>1, <1>2, <1>4, <1>6, <1>9, <2>1, GoingOn, PlanManagerParameters
          DEF Ongoing, _requestNextMissionItem, _startAckTimeout, IInv, TypeOK
<1> QED BY <1>3, <1>7, <1>8, <1>9

LEMMA RequestPreserves == ASSUME IInv, _handleMissionRequest PROVE IInv'
<1> DEFINE seq == Head(toGcs).seq
<1>1. /\ ~Idle /\ expectedAck = "request" /\ UNCHANGED <<vehicle, retryCount>>
      /\ toGcs' \in Seq(ToGcsMsg) /\ seq \in Nat
  BY Receiving, RequestReceived DEF _handleMissionRequest, IsNext
<1>2. CASE seq >= Len(writeMissionItems)
  <2>1. AckStopped /\ Fail /\ UNCHANGED toVehicle
    BY <1>2 DEF _handleMissionRequest
  <2>2. ChannelsTyped'
    BY <1>1, <2>1 DEF IInv, ChannelsTyped
  <2>3. missionItems \in Seq(Item)
    BY DEF IInv, TypeOK
  <2>4. TypeOK' /\ NeverLocked' /\ ReportedAsAsked' /\ CountFindsNothing' /\ AskedForThis'
    BY <1>1, <2>1, <2>3, Finishing DEF Fail, AckStopped
  <2> QED BY <2>2, <2>4 DEF IInv
<1>3. CASE ~(seq >= Len(writeMissionItems))
  <2> DEFINE msg == [type |-> "item", seq |-> seq, val |-> writeMissionItems[seq + 1].val]
  <2>1. /\ itemIndicesToWrite' = itemIndicesToWrite \ {seq}
        /\ Send(msg) /\ _startAckTimeout("request")
        /\ UNCHANGED <<transactionInProgress, itemIndicesToRead, missionItems, writeMissionItems,
                       resumeMission, guided, asked, started, clean, signals>>
    BY <1>3 DEF _handleMissionRequest
  <2>2. writeMissionItems \in Seq(Item) /\ Len(writeMissionItems) \in Nat
    BY LenProperties DEF IInv, TypeOK
  <2>3. seq + 1 \in 1..Len(writeMissionItems)
    BY <1>1, <1>3, <2>2
  <2>4. writeMissionItems[seq + 1].val \in Value
    <3>1. writeMissionItems[seq + 1] \in Item
      BY <2>2, <2>3, ElementOfSeq
    <3> QED BY <3>1 DEF Item
  <2>5. msg \in ToVehicleMsg
    BY <1>1, <2>4 DEF ToVehicleMsg
  <2> HIDE DEF msg
  <2>6. ChannelsTyped'
    BY <1>1, <2>1, <2>5, SendType DEF ChannelsTyped
  <2>7. /\ itemIndicesToRead' \subseteq Nat /\ itemIndicesToWrite' \subseteq Nat
        /\ missionItems' \in Seq(Item) /\ retryCount' \in 0..(MaxRetryCount + 1)
    BY <1>1, <2>1 DEF IInv, TypeOK
  <2>8. Ongoing /\ timerActive' = TRUE /\ expectedAck' = expectedAck
    BY <1>1, <2>1 DEF Ongoing, _startAckTimeout
  <2> QED BY <1>1, <2>1, <2>6, <2>7, <2>8, GoingOn
<1> QED BY <1>2, <1>3

LEMMA AckPreserves == ASSUME IInv, _handleMissionAck PROVE IInv'
<1>1. /\ ~Idle /\ UNCHANGED <<vehicle, retryCount, toVehicle>> /\ AckStopped
      /\ toGcs' \in Seq(ToGcsMsg)
  BY Receiving DEF _handleMissionAck, IsNext
<1>2. PICK ok \in BOOLEAN : _finishTransaction(ok, expectedAck = "guided", missionItems)
  BY DEF _handleMissionAck
<1>3. TypeOK' /\ NeverLocked' /\ ReportedAsAsked' /\ CountFindsNothing' /\ AskedForThis'
  <2>1. missionItems \in Seq(Item) /\ (expectedAck = "guided") \in BOOLEAN
    BY DEF IInv, TypeOK
  <2>2. expectedAck = "guided" <=> guided
    BY <1>1 DEF IInv, TypeOK, NeverLocked, AskedForThis, Idle
  <2> QED BY <1>1, <1>2, <2>1, <2>2, Finishing DEF AckStopped
<1>4. ChannelsTyped'
  BY <1>1 DEF IInv, ChannelsTyped
<1> QED BY <1>3, <1>4 DEF IInv

(* The timer fires: the transfer goes on by a repetition, or it fails.     *)
LEMMA RetryPreserves ==
    ASSUME IInv, timerActive, Retrying, UNCHANGED <<vehicle, toGcs>>,
           \/ expectedAck = "count" /\ _requestList
           \/ /\ expectedAck = "item" /\ _requestNextMissionItem(itemIndicesToRead)
              /\ UNCHANGED <<itemIndicesToRead, missionItems>>
           \/ /\ expectedAck = "request" /\ _writeMissionCount(writeMissionItems)
              /\ UNCHANGED <<itemIndicesToRead, missionItems>>
           \/ /\ expectedAck = "clearAll" /\ _removeAllWorker
              /\ UNCHANGED <<itemIndicesToRead, missionItems>>
    PROVE  IInv'
<1>1. /\ ~Idle /\ Ongoing /\ itemIndicesToWrite' \subseteq Nat /\ timerActive' = TRUE
      /\ retryCount' \in 0..(MaxRetryCount + 1)
  BY PlanManagerParameters DEF IInv, NeverLocked, Retrying, Ongoing, TypeOK, _startAckTimeout,
     _requestList, _requestNextMissionItem, _writeMissionCount, _removeAllWorker
<1>2. CASE expectedAck = "count" /\ _requestList
  <2>1. [type |-> "requestList"] \in ToVehicleMsg
    BY DEF ToVehicleMsg
  <2>2. ChannelsTyped'
    BY <1>2, <2>1, SendType DEF _requestList, ChannelsTyped, IInv
  <2>3. transactionInProgress = "read"
    BY <1>1, <1>2 DEF IInv, NeverLocked, Idle, TypeOK
  <2> QED BY <1>1, <1>2, <2>2, <2>3, GoingOn, EmptySeq DEF _requestList, _startAckTimeout
<1>3. CASE /\ expectedAck = "item" /\ _requestNextMissionItem(itemIndicesToRead)
           /\ UNCHANGED <<itemIndicesToRead, missionItems>>
  <2>1. itemIndicesToRead # {} /\ itemIndicesToRead \in SUBSET Nat
    BY <1>1, <1>3 DEF IInv, NeverLocked, TypeOK
  <2>2. ChannelsTyped'
    BY <1>3, <2>1, RequestingNext DEF ChannelsTyped, IInv
  <2>3. missionItems' \in Seq(Item) /\ itemIndicesToRead' \subseteq Nat
    BY <1>3 DEF IInv, TypeOK
  <2> QED BY <1>1, <1>3, <2>2, <2>3, GoingOn DEF _requestNextMissionItem, _startAckTimeout
<1>4. CASE /\ expectedAck = "request" /\ _writeMissionCount(writeMissionItems)
           /\ UNCHANGED <<itemIndicesToRead, missionItems>>
  <2>1. [type |-> "count", n |-> Len(writeMissionItems)] \in ToVehicleMsg
    BY LenProperties DEF ToVehicleMsg, IInv, TypeOK
  <2>2. ChannelsTyped'
    BY <1>4, <2>1, SendType DEF _writeMissionCount, ChannelsTyped, IInv
  <2>3. missionItems' \in Seq(Item) /\ itemIndicesToRead' \subseteq Nat
    BY <1>4 DEF IInv, TypeOK
  <2> QED BY <1>1, <1>4, <2>2, <2>3, GoingOn DEF _writeMissionCount, _startAckTimeout
<1>5. CASE /\ expectedAck = "clearAll" /\ _removeAllWorker
           /\ UNCHANGED <<itemIndicesToRead, missionItems>>
  <2>1. [type |-> "clearAll"] \in ToVehicleMsg
    BY DEF ToVehicleMsg
  <2>2. ChannelsTyped'
    BY <1>5, <2>1, SendType DEF _removeAllWorker, ChannelsTyped, IInv
  <2>3. missionItems' \in Seq(Item) /\ itemIndicesToRead' \subseteq Nat
    BY <1>5 DEF IInv, TypeOK
  <2> QED BY <1>1, <1>5, <2>2, <2>3, GoingOn DEF _removeAllWorker, _startAckTimeout
<1> QED BY <1>2, <1>3, <1>4, <1>5

LEMMA TimeoutPreserves == ASSUME IInv, _ackTimeout PROVE IInv'
<1>1. timerActive /\ UNCHANGED <<vehicle, toGcs>>
  BY DEF _ackTimeout
<1>2. \/ GivingUp /\ expectedAck' \in {"none", expectedAck}
      \/ /\ Retrying
         /\ \/ expectedAck = "count" /\ _requestList
            \/ /\ expectedAck = "item" /\ _requestNextMissionItem(itemIndicesToRead)
               /\ UNCHANGED <<itemIndicesToRead, missionItems>>
            \/ /\ expectedAck = "request" /\ _writeMissionCount(writeMissionItems)
               /\ UNCHANGED <<itemIndicesToRead, missionItems>>
            \/ /\ expectedAck = "clearAll" /\ _removeAllWorker
               /\ UNCHANGED <<itemIndicesToRead, missionItems>>
  BY DEF _ackTimeout
<1>3. CASE GivingUp /\ expectedAck' \in {"none", expectedAck}
  <2>1. ~Idle /\ missionItems \in Seq(Item)
    BY <1>1 DEF IInv, NeverLocked, TypeOK
  <2>2. TypeOK' /\ NeverLocked' /\ ReportedAsAsked' /\ CountFindsNothing' /\ AskedForThis'
    BY <1>1, <1>3, <2>1, Finishing DEF GivingUp, Fail
  <2>3. ChannelsTyped'
    BY <1>1, <1>3 DEF GivingUp, IInv, ChannelsTyped
  <2> QED BY <2>2, <2>3 DEF IInv
<1> QED BY <1>1, <1>2, <1>3, RetryPreserves

-----------------------------------------------------------------------------
(* Steps of the vehicle and the link.                                      *)

LEMMA ReplyType ==
    ASSUME IInv, NEW msg \in ToGcsMsg, Reply(msg)
    PROVE  toGcs' \in Seq(ToGcsMsg)
BY PushType DEF Reply, IInv, ChannelsTyped

LEMMA AckType ==
    ASSUME IInv, NEW result \in {"accepted", "error", "invalidSequence"}, Ack(result)
    PROVE  toGcs' \in Seq(ToGcsMsg)
<1>1. [type |-> "ack", result |-> result] \in ToGcsMsg
  BY DEF ToGcsMsg
<1> QED BY <1>1, ReplyType DEF Ack

LEMMA VTaking ==
    ASSUME IInv, NEW type, VNext(type)
    PROVE  /\ Head(toVehicle) \in ToVehicleMsg /\ Head(toVehicle).type = type
           /\ toVehicle' \in Seq(ToVehicleMsg)
BY TailType DEF VNext, IInv, ChannelsTyped

(* What a step that is not the ground station's has to preserve.           *)
LEMMA OutsidePreserves ==
    ASSUME IInv, UNCHANGED gcs, ChannelsTyped', vehiclePlan' \in Seq(Value),
           upload' \in [count : Nat, items : Seq(Value)]
    PROVE  IInv'
<1>1. TypeOK'
  BY DEF IInv, TypeOK, gcs
<1>2. NeverLocked' /\ ReportedAsAsked' /\ CountFindsNothing' /\ AskedForThis'
  BY ManagerRests
<1> QED BY <1>1, <1>2 DEF IInv

LEMMA VehicleTypes ==
    ASSUME IInv
    PROVE  /\ vehiclePlan \in Seq(Value) /\ upload \in [count : Nat, items : Seq(Value)]
           /\ upload.count \in Nat /\ upload.items \in Seq(Value) /\ Len(upload.items) \in Nat
           /\ <<>> \in Seq(Value) /\ NoUpload \in [count : Nat, items : Seq(Value)]
<1>1. upload \in [count : Nat, items : Seq(Value)]
  BY DEF IInv, TypeOK
<1> QED BY <1>1, LenProperties, EmptySeq DEF IInv, TypeOK, NoUpload

(* The item of the home position is the first one of the stored plan.      *)
LEMMA HomeItem ==
    ASSUME IInv, vehiclePlan # <<>>
    PROVE  [type |-> "item", seq |-> 0, val |-> vehiclePlan[1]] \in ToGcsMsg /\ 0 < Len(vehiclePlan)
<1>1. Len(vehiclePlan) \in Nat /\ vehiclePlan \in Seq(Value) /\ Len(vehiclePlan) # 0
  BY VehicleTypes, LenProperties, EmptySeq
<1>2. 1 \in 1..Len(vehiclePlan)
  BY <1>1
<1>3. vehiclePlan[1] \in Value
  BY <1>1, <1>2, ElementOfSeq
<1> QED BY <1>1, <1>3 DEF ToGcsMsg

LEMMA VehiclePreserves == ASSUME IInv, Vehicle PROVE IInv'
<1> USE VehicleTypes
<1>1. CASE VServesRead
  <2>1. UNCHANGED gcs /\ UNCHANGED vehicle
    BY <1>1 DEF VServesRead
  <2>2. toVehicle' \in Seq(ToVehicleMsg)
    BY <1>1, VTaking DEF VServesRead
  <2>3. toGcs' \in Seq(ToGcsMsg)
    <3>1. CASE Reply([type |-> "count", n |-> Len(vehiclePlan)])
      <4>1. [type |-> "count", n |-> Len(vehiclePlan)] \in ToGcsMsg
        BY LenProperties DEF ToGcsMsg
      <4> QED BY <3>1, <4>1, ReplyType
    <3>2. CASE VNext("request") /\ ~UNCHANGED toGcs
      <4> DEFINE seq == Head(toVehicle).seq
      <4>1. seq \in Nat
        <5>1. Head(toVehicle) \in ToVehicleMsg /\ Head(toVehicle).type = "request"
          BY <3>2, VTaking
        <5> QED BY <5>1 DEF ToVehicleMsg
      <4>2. CASE Ack("error")
        BY <4>2, AckType
      <4>3. CASE seq < Len(vehiclePlan) /\ Reply([type |-> "item", seq |-> seq, val |-> vehiclePlan[seq + 1]])
        <5>1. seq + 1 \in 1..Len(vehiclePlan)
          BY <4>1, <4>3, LenProperties
        <5>2. vehiclePlan[seq + 1] \in Value
          BY <5>1, ElementOfSeq
        <5>3. [type |-> "item", seq |-> seq, val |-> vehiclePlan[seq + 1]] \in ToGcsMsg
          BY <4>1, <5>2 DEF ToGcsMsg
        <5> QED BY <4>3, <5>3, ReplyType
      <4> QED BY <1>1, <3>2, <4>2, <4>3 DEF VServesRead, VNext
    <3> QED BY <1>1, <3>1, <3>2 DEF VServesRead, IInv, ChannelsTyped
  <2> QED BY <2>1, <2>2, <2>3, OutsidePreserves DEF vehicle, ChannelsTyped
<1>2. CASE VStartsUpload
  <2> DEFINE n == Head(toVehicle).n
  <2>1. n \in Nat /\ toVehicle' \in Seq(ToVehicleMsg)
    BY <1>2, VTaking DEF VStartsUpload, ToVehicleMsg
  <2>2. [type |-> "request", seq |-> 0] \in ToGcsMsg
    BY DEF ToGcsMsg
  <2>3. toGcs' \in Seq(ToGcsMsg)
    BY <1>2, <2>2, AckType, ReplyType DEF VStartsUpload
  <2>4. vehiclePlan' \in Seq(Value) /\ upload' \in [count : Nat, items : Seq(Value)]
    <3>1. upload' \in {NoUpload, [count |-> n, items |-> <<>>]} /\ vehiclePlan' \in {<<>>, vehiclePlan}
      BY <1>2 DEF VStartsUpload
    <3>2. [count |-> n, items |-> <<>>] \in [count : Nat, items : Seq(Value)]
      BY <2>1
    <3> QED BY <3>1, <3>2
  <2> QED BY <1>2, <2>1, <2>3, <2>4, OutsidePreserves DEF VStartsUpload, ChannelsTyped
<1>3. CASE VTakesItem
  <2> DEFINE msg == Head(toVehicle)
             items == Append(upload.items, msg.val)
  <2>1. msg.seq \in Nat /\ msg.val \in Value /\ toVehicle' \in Seq(ToVehicleMsg)
    <3>1. msg \in ToVehicleMsg /\ msg.type = "item" /\ toVehicle' \in Seq(ToVehicleMsg)
      BY <1>3, VTaking DEF VTakesItem
    <3> HIDE DEF msg
    <3> QED BY <3>1 DEF ToVehicleMsg
  <2>2. items \in Seq(Value) /\ Len(items) \in Nat
    BY <2>1, AppendProperties, LenProperties
  <2>3. [type |-> "request", seq |-> Len(items)] \in ToGcsMsg
    BY <2>2 DEF ToGcsMsg
  <2>4. \/ vehiclePlan' = items /\ upload' = NoUpload /\ Ack("accepted")
        \/ /\ upload' = [upload EXCEPT !.items = items]
           /\ Reply([type |-> "request", seq |-> Len(items)]) /\ UNCHANGED vehiclePlan
        \/ /\ UNCHANGED <<vehiclePlan, upload>>
           /\ toGcs' = toGcs \/ Ack("error") \/ Ack("invalidSequence")
    BY <1>3 DEF VTakesItem
  <2> HIDE DEF items
  <2>5. toGcs' \in Seq(ToGcsMsg)
    BY <2>3, <2>4, AckType, ReplyType DEF IInv, ChannelsTyped
  <2>6. vehiclePlan' \in Seq(Value) /\ upload' \in [count : Nat, items : Seq(Value)]
    BY <2>2, <2>4
  <2> QED BY <1>3, <2>1, <2>5, <2>6, OutsidePreserves DEF VTakesItem, ChannelsTyped
<1>4. CASE VClears
  BY <1>4, VTaking, AckType, OutsidePreserves DEF VClears, ChannelsTyped
<1>5. CASE VTakesGuidedItem
  BY <1>5, VTaking, AckType, OutsidePreserves DEF VTakesGuidedItem, ChannelsTyped, vehicle
<1>6. CASE VRefuses
  BY <1>6, VTaking, AckType, OutsidePreserves DEF VRefuses, ChannelsTyped
<1>7. CASE VRepeatsRequest
  <2>1. [type |-> "request", seq |-> Len(upload.items)] \in ToGcsMsg
    BY DEF ToGcsMsg
  <2>2. ChannelsTyped'
    BY <1>7, <2>1, ReplyType DEF VRepeatsRequest, ChannelsTyped, IInv
  <2> QED BY <1>7, <2>2, OutsidePreserves DEF VRepeatsRequest
<1>8. CASE VGivesUpUpload
  BY <1>8, AckType, OutsidePreserves DEF VGivesUpUpload, ChannelsTyped, IInv
<1>9. CASE VSendsHome
  <2>1. [type |-> "item", seq |-> 0, val |-> vehiclePlan[1]] \in ToGcsMsg
    BY <1>9, HomeItem DEF VSendsHome
  <2>2. ChannelsTyped'
    BY <1>9, <2>1, ReplyType DEF VSendsHome, ChannelsTyped, IInv
  <2> QED BY <1>9, <2>2, OutsidePreserves DEF VSendsHome, vehicle
<1> QED BY <1>1, <1>2, <1>3, <1>4, <1>5, <1>6, <1>7, <1>8, <1>9 DEF Vehicle

LEMMA LosePreserves == ASSUME IInv, Lose PROVE IInv'
<1>1. ChannelsTyped'
  BY TailType DEF Lose, IInv, ChannelsTyped
<1> QED BY <1>1, VehicleTypes, OutsidePreserves DEF Lose, vehicle

-----------------------------------------------------------------------------
LEMMA InitInv == Init => IInv
<1> SUFFICES ASSUME Init PROVE IInv
  OBVIOUS
<1>1. vehiclePlan \in Seq(Value) /\ NoUpload \in [count : Nat, items : Seq(Value)]
  BY PlansTyped, EmptySeq DEF Init, NoUpload
<1>2. TypeOK
  <2>1. \A S : <<>> \in Seq(S)
    BY EmptySeq
  <2>2. 0 \in 0..MaxTransactions /\ 0 \in 0..(MaxRetryCount + 1)
    BY PlanManagerParameters
  <2> QED BY <1>1, <2>1, <2>2 DEF Init, TypeOK
<1>3. ChannelsTyped
  BY EmptySeq DEF Init, ChannelsTyped
<1>4. NeverLocked /\ ReportedAsAsked /\ CountFindsNothing /\ AskedForThis
  BY EmptySeq DEF Init, NeverLocked, ReportedAsAsked, Ended, CountFindsNothing, AskedForThis, Idle
<1> QED BY <1>2, <1>3, <1>4 DEF IInv

LEMMA NextInv == IInv /\ [Next]_vars => IInv'
<1> SUFFICES ASSUME IInv, [Next]_vars PROVE IInv'
  OBVIOUS
<1>1. CASE UNCHANGED vars
  <2>1. UNCHANGED gcs /\ UNCHANGED vehicle /\ ChannelsTyped'
    BY <1>1 DEF vars, IInv, ChannelsTyped
  <2> QED BY <2>1, VehicleTypes, OutsidePreserves DEF vehicle
<1>2. CASE _mavlinkMessageReceived
  BY <1>2, IgnoredPreserves, CountPreserves, ItemPreserves, RequestPreserves, AckPreserves
  DEF _mavlinkMessageReceived
<1> QED BY <1>1, <1>2, UserPreserves, TimeoutPreserves, VehiclePreserves, LosePreserves DEF Next

(* Every reachable state satisfies IInv.                                   *)
THEOREM Inductive == Spec => []IInv
BY InitInv, NextInv, PTL DEF Spec

(* TypeOK: the manager's members, its lists and its counters keep their    *)
(* types, whatever the vehicle answers.                                    *)
THEOREM TypeCorrect == Spec => []TypeOK
<1>1. IInv => TypeOK
  BY DEF IInv
<1> QED BY <1>1, Inductive, PTL

(* NeverLocked: a transfer in progress always has its ack timer running,   *)
(* waits for an answer of its own kind and, while it reads items, has one  *)
(* left to ask for.                                                        *)
THEOREM ManagerCannotLockUp == Spec => []NeverLocked
<1>1. IInv => NeverLocked
  BY DEF IInv
<1> QED BY <1>1, Inductive, PTL

(* ReportedAsAsked: each transfer that is over was reported at most once,  *)
(* before the next one started and by the completion signal of its own     *)
(* kind; every read, write and removal was reported; a guided item was     *)
(* reported, by the write's signal, only if it failed.                     *)
THEOREM EachTransferReportedOnce == Spec => []ReportedAsAsked
<1>1. IInv => ReportedAsAsked
  BY DEF IInv
<1> QED BY <1>1, Inductive, PTL

-----------------------------------------------------------------------------
(* Success: what holds while a transfer goes on, by its kind.              *)

(* A read has, or is still to ask for, every item of some count, and has   *)
(* none twice.                                                             *)
Indices(items) == {items[i].seq : i \in DOMAIN items}

ReadGathers ==
    ~Idle /\ expectedAck = "item" =>
        /\ IsFiniteSet(itemIndicesToRead)
        /\ Indices(missionItems) \cup itemIndicesToRead
             = 0..(Len(missionItems) + Cardinality(itemIndicesToRead) - 1)

(* While a read that began over a clear link goes on, what is under way is *)
(* about the plan the vehicle has and about items asked for: the first     *)
(* Asked of them, and the home position.  So the next item that comes and  *)
(* is wanted is the next in order.                                         *)
Asked == IF expectedAck = "count" THEN 0 ELSE Len(missionItems) + 1
ReadRequests(k) ==
    {m \in ToVehicleMsg : m.type = "requestList" \/ (m.type = "request" /\ m.seq < k)}
ReadAnswers(k, plan) ==
    {m \in ToGcsMsg : \/ m.type = "count" /\ m.n = Len(plan)
                      \/ /\ m.type = "item" /\ (m.seq < k \/ m.seq = 0)
                         /\ m.seq < Len(plan) /\ m.val = plan[m.seq + 1]
                      \/ m.type = "ack"}

ReadInOrder ==
    /\ upload = NoUpload
    /\ toVehicle \in Seq(ReadRequests(Asked)) /\ toGcs \in Seq(ReadAnswers(Asked, vehiclePlan))
    /\ expectedAck = "item" =>
          /\ Len(missionItems) <= Len(vehiclePlan)
          /\ itemIndicesToRead = Len(missionItems)..(Len(vehiclePlan) - 1)
          /\ \A i \in 1..Len(missionItems) : missionItems[i] = [seq |-> i - 1, val |-> vehiclePlan[i]]

CleanRead == clean /\ transactionInProgress = "read" => ReadInOrder

(* While a write that began over a clear link goes on, the vehicle's       *)
(* upload is the plan written from its beginning, and the vehicle has      *)
(* accepted nothing unless that plan is stored.                            *)
WriteRequests(items) ==
    {m \in ToVehicleMsg : \/ m.type = "count" /\ m.n = Len(items)
                          \/ m.type = "item" /\ m.seq < Len(items) /\ m.val = items[m.seq + 1].val}
Answers(stored) ==
    {m \in ToGcsMsg : m.type \in {"request", "item"} \/ (m.type = "ack" /\ (m.result = "accepted" => stored))}

WriteInOrder ==
    /\ \A i \in 1..Len(writeMissionItems) : writeMissionItems[i].seq = i - 1
    /\ upload.count > 0 =>
          /\ upload.count = Len(writeMissionItems) /\ Len(upload.items) < upload.count
          /\ \A i \in 1..Len(upload.items) : upload.items[i] = writeMissionItems[i].val
    /\ toVehicle \in Seq(WriteRequests(writeMissionItems))
    /\ toGcs \in Seq(Answers(vehiclePlan = PlanOf(writeMissionItems)))

CleanWrite == clean /\ transactionInProgress = "write" /\ ~guided => WriteInOrder

(* The same of a removal.                                                  *)
Removals == {m \in ToVehicleMsg : m.type = "clearAll"}

RemovalInOrder ==
    /\ upload = NoUpload /\ missionItems = <<>>
    /\ toVehicle \in Seq(Removals) /\ toGcs \in Seq(Answers(vehiclePlan = <<>>))

CleanRemoval == clean /\ transactionInProgress = "removeAll" => RemovalInOrder

-----------------------------------------------------------------------------
(* What is awaited tells the transaction.                                  *)
LEMMA WaitsFor ==
    ASSUME IInv, ~Idle
    PROVE  /\ expectedAck \in {"count", "item"} <=> transactionInProgress = "read"
           /\ expectedAck = "request" <=> (transactionInProgress = "write" /\ ~guided)
           /\ expectedAck = "clearAll" <=> transactionInProgress = "removeAll"
           /\ expectedAck \in {"count", "item", "request", "clearAll", "guided"} /\ timerActive
BY DEF IInv, TypeOK, NeverLocked, Idle

(* A transfer that a step neither starts nor ends is the same transfer     *)
(* after it.                                                               *)
LEMMA SameTransfer ==
    ASSUME Next, ~User, ~Idle'
    PROVE  UNCHANGED <<transactionInProgress, guided, clean, writeMissionItems>>
<1>1. CASE _mavlinkMessageReceived
  <2>1. CASE Ignored
    BY <2>1 DEF Ignored, gcs
  <2>2. CASE _handleMissionCount
    BY <2>2 DEF _handleMissionCount, ReadComplete, _finishTransaction, Idle
  <2>3. CASE _handleMissionItem
    BY <2>3 DEF _handleMissionItem, ReadComplete, _finishTransaction, Idle
  <2>4. CASE _handleMissionRequest
    BY <2>4 DEF _handleMissionRequest, Fail, _finishTransaction, Idle
  <2>5. CASE _handleMissionAck
    BY <2>5 DEF _handleMissionAck, _finishTransaction, Idle
  <2> QED BY <1>1, <2>1, <2>2, <2>3, <2>4, <2>5 DEF _mavlinkMessageReceived
<1>2. CASE _ackTimeout
  BY <1>2 DEF _ackTimeout, Retrying, GivingUp, Fail, _finishTransaction, Idle
<1>3. CASE Vehicle \/ Lose
  <2>1. UNCHANGED gcs
    BY <1>3 DEF Vehicle, Lose, VServesRead, VStartsUpload, VTakesItem, VClears, VTakesGuidedItem,
       VRefuses, VRepeatsRequest, VSendsHome, VGivesUpUpload
  <2> QED BY <2>1 DEF gcs
<1> QED BY <1>1, <1>2, <1>3 DEF Next

(* A transfer that begins over a clear link.                               *)
LEMMA ClearBeginning ==
    ASSUME IInv, User, clean', ~guided'
    PROVE  toVehicle = <<>> /\ toGcs = <<>> /\ toGcs' = <<>> /\ upload = NoUpload /\ upload' = NoUpload
BY DEF User, loadFromVehicle, removeAll, writeArduPilotGuidedMissionItem, writeMissionItems_, 
   generateResumeMission, _writeMissionItemsWorker, Begin, vehicle

LEMMA FirstMessage ==
    ASSUME NEW S, NEW msg \in S, toVehicle = <<>>, Send(msg)
    PROVE  toVehicle' \in Seq(S)
BY PushType, EmptySeq DEF Send

LEMMA Widened == ASSUME NEW S, NEW T, S \subseteq T, NEW ch \in Seq(S) PROVE ch \in Seq(T)
BY SeqMonotonic

LEMMA MinOfRange ==
    ASSUME NEW a \in Nat, NEW b \in Nat, a <= b
    PROVE  Min(a..b) = a
<1> DEFINE S == a..b
<1>1. S \subseteq Nat /\ a \in S /\ \A k \in S : a <= k
  OBVIOUS
<1>2. Min(S) \in S /\ \A k \in S : Min(S) <= k
  <2> HIDE DEF S
  <2> QED BY <1>1, MinOfNaturals
<1> QED BY <1>1, <1>2

LEMMA ReadGathersKept ==
    ASSUME IInv, ReadGathers, Next
    PROVE  ReadGathers'
<1> SUFFICES ASSUME ~Idle', expectedAck' = "item"
             PROVE  /\ IsFiniteSet(itemIndicesToRead')
                    /\ Indices(missionItems') \cup itemIndicesToRead'
                         = 0..(Len(missionItems') + Cardinality(itemIndicesToRead') - 1)
  BY DEF ReadGathers
<1>1. ~User
  BY DEF User, loadFromVehicle, removeAll, writeArduPilotGuidedMissionItem, writeMissionItems_,
     generateResumeMission, _writeMissionItemsWorker, _requestList, _removeAllWorker, _writeMissionCount,
     _startAckTimeout
<1>2. ~Idle
  BY <1>1, SameTransfer DEF Idle
<1>3. CASE UNCHANGED <<expectedAck, itemIndicesToRead, missionItems>>
  BY <1>2, <1>3 DEF ReadGathers, Idle
<1>4. CASE _handleMissionCount
  <2> DEFINE n == Head(toGcs).n
  <2>1. n \in Nat /\ n # 0 /\ missionItems' = missionItems
        /\ itemIndicesToRead' = itemIndicesToRead \cup (0..(n - 1))
    BY <1>4, CountReceived DEF _handleMissionCount, ReadComplete, _finishTransaction, Idle
  <2>2. itemIndicesToRead = {} /\ missionItems = <<>>
    BY <1>2, <1>4 DEF IInv, CountFindsNothing, _handleMissionCount
  <2> HIDE DEF n
  <2>3. IsFiniteSet(0..(n - 1)) /\ Cardinality(0..(n - 1)) = n
    BY <2>1, FS_Interval
  <2>4. Indices(missionItems') = {} /\ Len(missionItems') = 0
    BY <2>1, <2>2, EmptySeq DEF Indices
  <2>5. itemIndicesToRead' = 0..(n - 1)
    BY <2>1, <2>2
  <2>6. IsFiniteSet(itemIndicesToRead') /\ Cardinality(itemIndicesToRead') = n
    BY <2>3, <2>5
  <2>7. Len(missionItems') + Cardinality(itemIndicesToRead') - 1 = n - 1
    BY <2>1, <2>4, <2>6
  <2>8. Indices(missionItems') \cup itemIndicesToRead' = 0..(n - 1)
    BY <2>4, <2>5
  <2> QED BY <2>6, <2>7, <2>8
<1>5. CASE _handleMissionItem /\ ~UNCHANGED itemIndicesToRead
  <2> DEFINE seq == Head(toGcs).seq
             item == [seq |-> seq, val |-> Head(toGcs).val]
  <2>1. /\ seq \in itemIndicesToRead /\ itemIndicesToRead' = itemIndicesToRead \ {seq}
        /\ missionItems' = Append(missionItems, item)
    BY <1>5 DEF _handleMissionItem, ReadComplete, _finishTransaction, Idle, Remaining
  <2>2. item \in Item /\ missionItems \in Seq(Item) /\ expectedAck = "item"
    BY <1>5, ItemReceived DEF _handleMissionItem, Item, IInv, TypeOK
  <2>3. Indices(missionItems') = Indices(missionItems) \cup {item.seq}
    BY <2>1, <2>2, IndicesOfLonger DEF Indices
  <2>4. Len(missionItems') = Len(missionItems) + 1 /\ Len(missionItems) \in Nat
    BY <2>1, <2>2, AppendProperties, LenProperties
  <2>5. IsFiniteSet(itemIndicesToRead) /\ Cardinality(itemIndicesToRead) \in Nat
    BY <1>2, <2>2, FS_CardinalityType DEF ReadGathers
  <2>6. IsFiniteSet(itemIndicesToRead') /\ Cardinality(itemIndicesToRead') = Cardinality(itemIndicesToRead) - 1
    BY <2>1, <2>5, FS_RemoveElement
  <2>7. Indices(missionItems') \cup itemIndicesToRead' = Indices(missionItems) \cup itemIndicesToRead
    BY <2>1, <2>3
  <2>8. Indices(missionItems) \cup itemIndicesToRead
          = 0..(Len(missionItems) + Cardinality(itemIndicesToRead) - 1)
    BY <1>2, <2>2 DEF ReadGathers
  <2> QED BY <2>4, <2>5, <2>6, <2>7, <2>8
<1>6. CASE _handleMissionItem /\ UNCHANGED itemIndicesToRead
  <2>1. UNCHANGED missionItems /\ expectedAck = "item"
    BY <1>6 DEF _handleMissionItem, ReadComplete, _finishTransaction, Idle, Remaining
  <2> QED BY <1>3, <1>6, <2>1
<1>7. CASE _handleMissionRequest \/ _handleMissionAck
  BY <1>7 DEF _handleMissionRequest, _handleMissionAck, AckStopped, _startAckTimeout
<1>8. CASE _ackTimeout
  BY <1>3, <1>8 DEF _ackTimeout, Retrying, GivingUp, Fail, _finishTransaction, Idle, _requestList,
     _requestNextMissionItem, _writeMissionCount, _removeAllWorker, _startAckTimeout
<1>9. CASE Ignored \/ Vehicle \/ Lose
  <2>1. UNCHANGED gcs
    BY <1>9 DEF Ignored, Vehicle, Lose, VServesRead, VStartsUpload, VTakesItem, VClears, VTakesGuidedItem,
       VRefuses, VRepeatsRequest, VSendsHome, VGivesUpUpload
  <2> QED BY <1>3, <2>1 DEF gcs
<1> QED BY <1>1, <1>4, <1>5, <1>6, <1>7, <1>8, <1>9 DEF Next, _mavlinkMessageReceived

(* A channel whose messages are of a kind keeps to it.                     *)
LEMMA ReadAnswered ==
    ASSUME IInv, NEW k \in Nat, toVehicle \in Seq(ReadRequests(k)), toGcs \in Seq(ReadAnswers(k, vehiclePlan)),
           upload = NoUpload, Vehicle \/ Lose
    PROVE  /\ UNCHANGED vehicle
           /\ toVehicle' \in Seq(ReadRequests(k)) /\ toGcs' \in Seq(ReadAnswers(k, vehiclePlan))
<1> DEFINE R == ReadRequests(k)
           A == ReadAnswers(k, vehiclePlan)
<1>1. /\ toVehicle # <<>> => /\ Head(toVehicle) \in R /\ Tail(toVehicle) \in Seq(R)
                             /\ Head(toVehicle).type \in {"requestList", "request"}
      /\ toGcs # <<>> => Tail(toGcs) \in Seq(A)
  <2>1. \A m \in R : m.type \in {"requestList", "request"}
    BY DEF ReadRequests
  <2> HIDE DEF R, A
  <2> QED BY <2>1, TailType DEF R, A
<1>2. upload.count = 0
  BY DEF NoUpload
<1>3. /\ ~VStartsUpload /\ ~VTakesItem /\ ~VClears /\ ~VTakesGuidedItem
      /\ ~VRepeatsRequest /\ ~VGivesUpUpload
  BY <1>1, <1>2 DEF VStartsUpload, VTakesItem, VClears, VTakesGuidedItem, VRepeatsRequest, VGivesUpUpload, VNext
<1>4. ASSUME NEW msg \in A, Reply(msg) PROVE toGcs' \in Seq(A)
  <2> HIDE DEF A
  <2> QED BY <1>4, PushType DEF Reply, A
<1>5. ASSUME Ack("error") PROVE toGcs' \in Seq(A)
  <2>1. [type |-> "ack", result |-> "error"] \in A
    BY DEF ReadAnswers, ToGcsMsg
  <2> QED BY <1>4, <1>5, <2>1 DEF Ack
<1>6. CASE VServesRead
  <2>1. UNCHANGED vehicle /\ toVehicle' \in Seq(R)
    BY <1>1, <1>6 DEF VServesRead, VNext
  <2>2. CASE Reply([type |-> "count", n |-> Len(vehiclePlan)])
    <3>1. [type |-> "count", n |-> Len(vehiclePlan)] \in A
      BY VehicleTypes, LenProperties DEF ReadAnswers, ToGcsMsg
    <3> QED BY <1>4, <2>1, <2>2, <3>1
  <2>3. CASE VNext("request") /\ ~Ack("error") /\ ~UNCHANGED toGcs
    <3> DEFINE seq == Head(toVehicle).seq
    <3>1. /\ seq < Len(vehiclePlan)
          /\ Reply([type |-> "item", seq |-> seq, val |-> vehiclePlan[seq + 1]])
      BY <1>6, <2>3 DEF VServesRead, VNext
    <3>2. seq \in Nat /\ seq < k
      <4>1. Head(toVehicle) \in R /\ Head(toVehicle).type = "request"
        BY <1>1, <2>3 DEF VNext
      <4>2. Head(toVehicle) \in ToVehicleMsg /\ seq < k
        BY <4>1 DEF ReadRequests
      <4> QED BY <4>1, <4>2 DEF ToVehicleMsg
    <3>3. vehiclePlan[seq + 1] \in Value
      <4>1. seq + 1 \in 1..Len(vehiclePlan)
        BY <3>1, <3>2, VehicleTypes, LenProperties
      <4> QED BY <4>1, VehicleTypes, ElementOfSeq
    <3>4. [type |-> "item", seq |-> seq, val |-> vehiclePlan[seq + 1]] \in A
      BY <3>1, <3>2, <3>3 DEF ReadAnswers, ToGcsMsg
    <3> QED BY <1>4, <2>1, <3>1, <3>4
  <2> QED BY <1>5, <1>6, <2>1, <2>2, <2>3 DEF VServesRead, VNext
<1>7. CASE VRefuses
  BY <1>1, <1>5, <1>7 DEF VRefuses, VNext, vehicle
<1>8. CASE Lose
  BY <1>1, <1>8 DEF Lose, vehicle
<1>9. CASE VSendsHome
  <2> DEFINE home == [type |-> "item", seq |-> 0, val |-> vehiclePlan[1]]
  <2>1. home \in A
    BY <1>9, HomeItem DEF VSendsHome, ReadAnswers
  <2>2. Reply(home) /\ UNCHANGED vehicle /\ UNCHANGED toVehicle
    BY <1>9 DEF VSendsHome
  <2> QED BY <1>4, <2>1, <2>2
<1> QED BY <1>3, <1>6, <1>7, <1>8, <1>9 DEF Vehicle

LEMMA WiderRead ==
    ASSUME NEW k \in Nat, NEW l \in Nat, k <= l, NEW plan
    PROVE  /\ \A ch \in Seq(ReadRequests(k)) : ch \in Seq(ReadRequests(l))
           /\ \A ch \in Seq(ReadAnswers(k, plan)) : ch \in Seq(ReadAnswers(l, plan))
<1>1. ReadRequests(k) \subseteq ReadRequests(l)
  <2>1. \A m \in ToVehicleMsg : m.type = "request" => m.seq \in Nat
    BY DEF ToVehicleMsg
  <2> QED BY <2>1 DEF ReadRequests
<1>2. ReadAnswers(k, plan) \subseteq ReadAnswers(l, plan)
  <2>1. \A m \in ToGcsMsg : m.type = "item" => m.seq \in Nat
    BY DEF ToGcsMsg
  <2> QED BY <2>1 DEF ReadAnswers
<1> QED BY <1>1, <1>2, Widened

(* The next item of a plan that is read in order.                          *)
LEMMA NextInOrder ==
    ASSUME IInv, ReadInOrder, _handleMissionItem, Head(toGcs).seq \in itemIndicesToRead
    PROVE  LET item == [seq |-> Head(toGcs).seq, val |-> Head(toGcs).val]
               items == Append(missionItems, item)
           IN  /\ items \in Seq(Item) /\ Len(items) = Len(missionItems) + 1 /\ Len(items) <= Len(vehiclePlan)
               /\ Remaining(Head(toGcs).seq) = Len(items)..(Len(vehiclePlan) - 1)
               /\ \A i \in 1..Len(items) : items[i] = [seq |-> i - 1, val |-> vehiclePlan[i]]
<1> DEFINE seq == Head(toGcs).seq
           item == [seq |-> Head(toGcs).seq, val |-> Head(toGcs).val]
           items == Append(missionItems, item)
<1> SUFFICES /\ items \in Seq(Item) /\ Len(items) = Len(missionItems) + 1 /\ Len(items) <= Len(vehiclePlan)
             /\ Remaining(seq) = Len(items)..(Len(vehiclePlan) - 1)
             /\ \A i \in 1..Len(items) : items[i] = [seq |-> i - 1, val |-> vehiclePlan[i]]
  OBVIOUS
<1>1. /\ expectedAck = "item" /\ IsNext("item") /\ seq \in Nat
      /\ item \in Item /\ missionItems \in Seq(Item) /\ Len(missionItems) \in Nat /\ Len(vehiclePlan) \in Nat
  BY ItemReceived, LenProperties DEF _handleMissionItem, Item, IInv, TypeOK
<1>2. /\ Len(missionItems) <= Len(vehiclePlan)
      /\ itemIndicesToRead = Len(missionItems)..(Len(vehiclePlan) - 1)
      /\ \A i \in 1..Len(missionItems) : missionItems[i] = [seq |-> i - 1, val |-> vehiclePlan[i]]
  BY <1>1 DEF ReadInOrder
<1>3. seq < Len(missionItems) + 1 /\ Head(toGcs).val = vehiclePlan[seq + 1]
  <2> DEFINE A == ReadAnswers(Asked, vehiclePlan)
  <2>1. toGcs \in Seq(A) /\ toGcs # <<>>
    BY <1>1 DEF ReadInOrder, IsNext
  <2> HIDE DEF A
  <2>2. Head(toGcs) \in A
    BY <2>1, TailType
  <2> QED BY <1>1, <2>2 DEF A, ReadAnswers, Asked, IsNext
<1>4. seq = Len(missionItems) /\ item = [seq |-> Len(missionItems), val |-> vehiclePlan[Len(missionItems) + 1]]
  BY <1>1, <1>2, <1>3
<1>5. /\ items \in Seq(Item) /\ Len(items) = Len(missionItems) + 1
      /\ \A i \in 1..Len(missionItems) : items[i] = missionItems[i]
      /\ items[Len(missionItems) + 1] = item
  BY <1>1, AppendProperties
<1> HIDE DEF items, item
<1>6. Len(items) <= Len(vehiclePlan)
  BY <1>1, <1>2, <1>4, <1>5
<1>7. Remaining(seq) = Len(items)..(Len(vehiclePlan) - 1)
  BY <1>1, <1>2, <1>4, <1>5 DEF Remaining
<1>8. ASSUME NEW i \in 1..Len(items) PROVE items[i] = [seq |-> i - 1, val |-> vehiclePlan[i]]
  <2>1. i \in 1..Len(missionItems) \/ i = Len(missionItems) + 1
    BY <1>1, <1>5
  <2>2. CASE i \in 1..Len(missionItems)
    BY <1>2, <1>5, <2>2
  <2>3. CASE i = Len(missionItems) + 1
    BY <1>1, <1>4, <1>5, <2>3
  <2> QED BY <2>1, <2>2, <2>3
<1> QED BY <1>5, <1>6, <1>7, <1>8

LEMMA CleanReadKept ==
    ASSUME IInv, CleanRead, Next
    PROVE  CleanRead'
<1> SUFFICES ASSUME clean', transactionInProgress' = "read"
             PROVE  ReadInOrder'
  BY DEF CleanRead
<1>1. CASE User
  <2>1. loadFromVehicle
    BY <1>1 DEF User, removeAll, writeArduPilotGuidedMissionItem, writeMissionItems_,
       generateResumeMission, _writeMissionItemsWorker, Begin
  <2>2. /\ ~guided' /\ expectedAck' = "count" /\ Send([type |-> "requestList"])
        /\ UNCHANGED vehicle
    BY <2>1 DEF loadFromVehicle, Begin, _requestList, _startAckTimeout
  <2>3. toVehicle = <<>> /\ toGcs' = <<>> /\ upload' = NoUpload
    BY <1>1, <2>2, ClearBeginning
  <2>4. [type |-> "requestList"] \in ReadRequests(0)
    BY DEF ReadRequests, ToVehicleMsg
  <2>5. toVehicle' \in Seq(ReadRequests(0)) /\ toGcs' \in Seq(ReadAnswers(0, vehiclePlan'))
    BY <2>2, <2>3, <2>4, FirstMessage, EmptySeq
  <2>6. Asked' = 0
    BY <2>2 DEF Asked
  <2> QED BY <2>2, <2>3, <2>5, <2>6 DEF ReadInOrder
<1>2. CASE ~User
  <2>1. /\ transactionInProgress = "read" /\ clean /\ ~Idle /\ ReadInOrder
        /\ expectedAck \in {"count", "item"}
    <3>1. UNCHANGED <<transactionInProgress, clean>>
      BY <1>2, SameTransfer DEF Idle
    <3> QED BY <3>1, WaitsFor DEF CleanRead, Idle
  <2> DEFINE R == ReadRequests(Asked)
             A == ReadAnswers(Asked, vehiclePlan)
  <2>2. /\ Asked \in Nat /\ upload = NoUpload
        /\ toVehicle \in Seq(R) /\ toGcs \in Seq(A)
        /\ toGcs # <<>> => Head(toGcs) \in A /\ Tail(toGcs) \in Seq(A)
    <3>1. Asked \in Nat
      BY LenProperties DEF Asked, IInv, TypeOK
    <3>2. upload = NoUpload /\ toVehicle \in Seq(R) /\ toGcs \in Seq(A)
      BY <2>1 DEF ReadInOrder
    <3> HIDE DEF R, A
    <3> QED BY <3>1, <3>2, TailType
  <2>3. CASE Ignored
    <3>1. UNCHANGED gcs /\ UNCHANGED vehicle /\ UNCHANGED toVehicle /\ toGcs' \in Seq(A)
      BY <2>2, <2>3 DEF Ignored
    <3>2. UNCHANGED Asked
      BY <3>1 DEF Asked, gcs
    <3> QED BY <2>1, <2>2, <3>1, <3>2 DEF ReadInOrder, gcs, vehicle
  <2>4. CASE Vehicle \/ Lose
    <3>1. UNCHANGED gcs /\ UNCHANGED vehicle /\ toVehicle' \in Seq(R) /\ toGcs' \in Seq(A)
      <4>1. UNCHANGED gcs
        BY <2>4 DEF Vehicle, Lose, VServesRead, VStartsUpload, VTakesItem, VClears, VTakesGuidedItem,
           VRefuses, VRepeatsRequest, VSendsHome, VGivesUpUpload
      <4> QED BY <2>2, <2>4, <4>1, ReadAnswered
    <3>2. UNCHANGED Asked
      BY <3>1 DEF Asked, gcs
    <3> QED BY <2>1, <2>2, <3>1, <3>2 DEF ReadInOrder, gcs, vehicle
  <2>5. CASE _handleMissionCount
    <3> DEFINE n == Head(toGcs).n
    <3>1. /\ expectedAck = "count" /\ n \in Nat /\ n # 0 /\ UNCHANGED vehicle
          /\ missionItems' = missionItems /\ toGcs' = Tail(toGcs) /\ toGcs # <<>>
          /\ itemIndicesToRead' = itemIndicesToRead \cup (0..(n - 1))
          /\ _requestNextMissionItem(itemIndicesToRead')
      BY <2>5, CountReceived DEF _handleMissionCount, ReadComplete, _finishTransaction, IsNext
    <3>2. missionItems = <<>> /\ itemIndicesToRead = {} /\ Asked = 0
      BY <2>1, <3>1 DEF IInv, CountFindsNothing, Asked
    <3>3. n = Len(vehiclePlan)
      BY <2>2, <2>5, <3>1 DEF ReadAnswers, _handleMissionCount, IsNext
    <3> HIDE DEF n
    <3>4. itemIndicesToRead' = 0..(Len(vehiclePlan) - 1) /\ Min(itemIndicesToRead') = 0
      <4>1. itemIndicesToRead' = 0..(n - 1) /\ 0 <= n - 1 /\ n - 1 \in Nat
        BY <3>1, <3>2
      <4> QED BY <3>3, <4>1, MinOfRange
    <3>5. expectedAck' = "item" /\ Len(missionItems') = 0 /\ Asked' = 1
      BY <3>1, <3>2 DEF _requestNextMissionItem, _startAckTimeout, Asked
    <3>6. toVehicle \in Seq(ReadRequests(1)) /\ toGcs' \in Seq(ReadAnswers(1, vehiclePlan))
      BY <2>2, <3>1, <3>2, WiderRead
    <3>7. toVehicle' \in Seq(ReadRequests(1))
      <4>1. [type |-> "request", seq |-> 0] \in ReadRequests(1)
        BY DEF ReadRequests, ToVehicleMsg
      <4>2. Send([type |-> "request", seq |-> 0])
        BY <3>1, <3>4 DEF _requestNextMissionItem
      <4> QED BY <3>6, <4>1, <4>2, PushType DEF Send
    <3>8. 0 <= Len(vehiclePlan)
      BY <3>1, <3>3
    <3> QED BY <2>2, <3>1, <3>4, <3>5, <3>6, <3>7, <3>8 DEF ReadInOrder, vehicle
  <2>6. CASE _handleMissionItem
    <3>1. /\ expectedAck = "item" /\ UNCHANGED vehicle /\ toGcs # <<>> /\ toGcs' = Tail(toGcs)
      BY <2>6 DEF _handleMissionItem, IsNext
    <3>2. CASE Head(toGcs).seq \notin itemIndicesToRead
      <4>1. /\ UNCHANGED <<missionItems, itemIndicesToRead, toVehicle>> /\ expectedAck' = "item"
            /\ toGcs' \in Seq(A)
        BY <2>2, <2>6, <3>1, <3>2 DEF _handleMissionItem, UnrequestedItem, _startAckTimeout
      <4>2. UNCHANGED Asked
        BY <3>1, <4>1 DEF Asked
      <4> QED BY <2>1, <2>2, <3>1, <4>1, <4>2 DEF ReadInOrder, vehicle
    <3>3. CASE Head(toGcs).seq \in itemIndicesToRead
      <4> DEFINE item == [seq |-> Head(toGcs).seq, val |-> Head(toGcs).val]
                 items == Append(missionItems, item)
                 left == Remaining(Head(toGcs).seq)
      <4>1. /\ items \in Seq(Item) /\ Len(items) = Len(missionItems) + 1 /\ Len(items) <= Len(vehiclePlan)
            /\ left = Len(items)..(Len(vehiclePlan) - 1)
            /\ \A i \in 1..Len(items) : items[i] = [seq |-> i - 1, val |-> vehiclePlan[i]]
        BY <2>1, <2>6, <3>3, NextInOrder
      <4>2. /\ left # {} /\ itemIndicesToRead' = left /\ missionItems' = items
            /\ _requestNextMissionItem(left)
        BY <2>6, <3>3 DEF _handleMissionItem, ReadComplete, _finishTransaction
      <4> HIDE DEF items, left
      <4>3. Len(items) \in Nat /\ Len(vehiclePlan) \in Nat /\ Len(missionItems) \in Nat
        BY <4>1, VehicleTypes, LenProperties DEF IInv, TypeOK
      <4>4. Min(left) = Len(items)
        <5>1. Len(items) <= Len(vehiclePlan) - 1 /\ Len(vehiclePlan) - 1 \in Nat
          BY <4>1, <4>2, <4>3
        <5> QED BY <4>1, <4>3, <5>1, MinOfRange
      <4>5. expectedAck' = "item" /\ Asked' = Len(items) + 1 /\ Asked = Len(items)
        BY <3>1, <4>1, <4>2 DEF _requestNextMissionItem, _startAckTimeout, Asked
      <4>6. toVehicle \in Seq(ReadRequests(Len(items) + 1)) /\ toGcs' \in Seq(ReadAnswers(Len(items) + 1, vehiclePlan))
        <5>1. Len(items) + 1 \in Nat /\ Len(items) <= Len(items) + 1
          BY <4>3
        <5> QED BY <2>2, <3>1, <4>3, <4>5, <5>1, WiderRead
      <4>7. toVehicle' \in Seq(ReadRequests(Len(items) + 1))
        <5>1. [type |-> "request", seq |-> Len(items)] \in ReadRequests(Len(items) + 1)
          BY <4>3 DEF ReadRequests, ToVehicleMsg
        <5>2. Send([type |-> "request", seq |-> Len(items)])
          BY <4>2, <4>4 DEF _requestNextMissionItem
        <5> QED BY <4>6, <5>1, <5>2, PushType DEF Send
      <4> QED BY <2>2, <3>1, <4>1, <4>2, <4>5, <4>6, <4>7 DEF ReadInOrder, vehicle
    <3> QED BY <3>2, <3>3
  <2>7. CASE _handleMissionRequest \/ _handleMissionAck
    BY <2>1, <2>7 DEF _handleMissionRequest, _handleMissionAck, _finishTransaction
  <2>8. CASE _ackTimeout
    <3>1. UNCHANGED vehicle /\ UNCHANGED toGcs
      BY <2>8 DEF _ackTimeout
    <3>2. CASE expectedAck = "count"
      <4>1. _requestList
        BY <2>8, <3>2 DEF _ackTimeout, GivingUp, Fail, _finishTransaction
      <4>2. expectedAck' = "count" /\ Asked' = 0 /\ Asked = 0 /\ Send([type |-> "requestList"])
        BY <3>2, <4>1 DEF _requestList, _startAckTimeout, Asked
      <4>3. toVehicle' \in Seq(ReadRequests(0))
        <5>1. [type |-> "requestList"] \in ReadRequests(0)
          BY DEF ReadRequests, ToVehicleMsg
        <5> QED BY <2>2, <4>2, <5>1, PushType DEF Send
      <4> QED BY <2>2, <3>1, <4>2, <4>3 DEF ReadInOrder, vehicle
    <3>3. CASE expectedAck = "item"
      <4>1. _requestNextMissionItem(itemIndicesToRead) /\ UNCHANGED <<itemIndicesToRead, missionItems>>
        BY <2>8, <3>3 DEF _ackTimeout, GivingUp, Fail, _finishTransaction
      <4>2. expectedAck' = "item" /\ UNCHANGED Asked /\ Asked = Len(missionItems) + 1
        BY <3>3, <4>1 DEF _requestNextMissionItem, _startAckTimeout, Asked
      <4>3. itemIndicesToRead = Len(missionItems)..(Len(vehiclePlan) - 1) /\ itemIndicesToRead # {}
        BY <2>1, <3>3 DEF ReadInOrder, IInv, NeverLocked
      <4>4. Len(missionItems) \in Nat /\ Len(vehiclePlan) \in Nat
        BY VehicleTypes, LenProperties DEF IInv, TypeOK
      <4>5. Min(itemIndicesToRead) = Len(missionItems)
        <5>1. Len(missionItems) <= Len(vehiclePlan) - 1 /\ Len(vehiclePlan) - 1 \in Nat
          BY <4>3, <4>4
        <5> QED BY <4>3, <4>4, <5>1, MinOfRange
      <4>6. toVehicle' \in Seq(R)
        <5> DEFINE msg == [type |-> "request", seq |-> Len(missionItems)]
        <5>1. msg \in R
          BY <4>2, <4>4 DEF ReadRequests, ToVehicleMsg
        <5>2. Send(msg)
          BY <4>1, <4>5 DEF _requestNextMissionItem
        <5> HIDE DEF R, msg
        <5> QED BY <2>2, <5>1, <5>2, PushType DEF Send
      <4>7. /\ Len(missionItems) <= Len(vehiclePlan)
            /\ itemIndicesToRead = Len(missionItems)..(Len(vehiclePlan) - 1)
            /\ \A i \in 1..Len(missionItems) : missionItems[i] = [seq |-> i - 1, val |-> vehiclePlan[i]]
        BY <2>1, <3>3 DEF ReadInOrder
      <4>8. toVehicle' \in Seq(ReadRequests(Asked')) /\ toGcs' \in Seq(ReadAnswers(Asked', vehiclePlan'))
        BY <2>2, <3>1, <4>2, <4>6 DEF vehicle
      <4> HIDE DEF R, A
      <4> QED BY <2>2, <3>1, <4>1, <4>7, <4>8 DEF ReadInOrder, vehicle
    <3> QED BY <2>1, <3>2, <3>3
  <2> QED BY <1>2, <2>3, <2>4, <2>5, <2>6, <2>7, <2>8 DEF Next, _mavlinkMessageReceived
<1> QED BY <1>1, <1>2

(* What the vehicle does with a plan that is written over a clear link.    *)
LEMMA WriteAnswered ==
    ASSUME IInv, WriteInOrder, Vehicle \/ Lose, UNCHANGED gcs
    PROVE  WriteInOrder'
<1> DEFINE items == writeMissionItems
           stored == vehiclePlan = PlanOf(items)
           R == WriteRequests(items)
           A == Answers(stored)
<1>1. /\ items \in Seq(Item) /\ Len(items) \in Nat /\ UNCHANGED writeMissionItems
      /\ upload.count \in Nat /\ upload.items \in Seq(Value) /\ Len(upload.items) \in Nat
  BY VehicleTypes, LenProperties DEF IInv, TypeOK, gcs
<1>2. /\ \A i \in 1..Len(items) : items[i].seq = i - 1
      /\ upload.count > 0 =>
            /\ upload.count = Len(items) /\ Len(upload.items) < upload.count
            /\ \A i \in 1..Len(upload.items) : upload.items[i] = items[i].val
      /\ toVehicle \in Seq(R) /\ toGcs \in Seq(A)
  BY DEF WriteInOrder
<1>3. /\ toVehicle # <<>> => /\ Head(toVehicle) \in R /\ Tail(toVehicle) \in Seq(R)
                             /\ Head(toVehicle).type \in {"count", "item"}
      /\ toGcs # <<>> => Tail(toGcs) \in Seq(A)
  <2>1. \A m \in R : m.type \in {"count", "item"}
    BY DEF WriteRequests
  <2> HIDE DEF R, A
  <2> QED BY <1>2, <2>1, TailType
<1>4. ~VServesRead /\ ~VClears /\ ~VTakesGuidedItem
  BY <1>3 DEF VServesRead, VClears, VTakesGuidedItem, VNext
(* It is enough that an accepted plan is the plan written.                 *)
<1>5. ASSUME upload' \in {upload, NoUpload}, toVehicle' \in Seq(R), toGcs' \in Seq(Answers(stored')), stored => stored'
      PROVE  WriteInOrder'
  <2>1. NoUpload.count = 0
    BY DEF NoUpload
  <2>2. upload'.count > 0 => upload' = upload
    BY <1>5, <2>1
  <2>3. /\ \A i \in 1..Len(items') : items'[i].seq = i - 1
        /\ upload'.count > 0 =>
              /\ upload'.count = Len(items') /\ Len(upload'.items) < upload'.count
              /\ \A i \in 1..Len(upload'.items) : upload'.items[i] = items'[i].val
    BY <1>1, <1>2, <2>2
  <2> QED BY <1>1, <1>5, <2>3 DEF WriteInOrder
<1>6. ASSUME NEW other, stored => other, NEW msg \in Answers(other), Reply(msg)
      PROVE  toGcs' \in Seq(Answers(other))
  <2>1. Answers(stored) \subseteq Answers(other)
    BY <1>6 DEF Answers
  <2>2. toGcs \in Seq(Answers(other))
    <3> HIDE DEF stored
    <3> QED BY <1>2, <2>1, Widened
  <2> QED BY <1>6, <2>2, PushType DEF Reply
<1>7. ASSUME NEW result \in {"error", "invalidSequence"}, Ack(result) PROVE toGcs' \in Seq(A)
  <2>1. [type |-> "ack", result |-> result] \in A
    BY DEF Answers, ToGcsMsg
  <2> QED BY <1>6, <1>7, <2>1 DEF Ack
<1>8. ASSUME Ack("accepted"), stored' PROVE toGcs' \in Seq(Answers(stored'))
  <2>1. [type |-> "ack", result |-> "accepted"] \in Answers(stored')
    BY <1>8 DEF Answers, ToGcsMsg
  <2> QED BY <1>6, <1>8, <2>1 DEF Ack
<1>9. ASSUME NEW k \in Nat, Reply([type |-> "request", seq |-> k]) PROVE toGcs' \in Seq(A)
  <2>1. [type |-> "request", seq |-> k] \in A
    BY DEF Answers, ToGcsMsg
  <2> QED BY <1>6, <1>9, <2>1
<1>10. CASE VStartsUpload
  <2>1. Head(toVehicle).n = Len(items) /\ toVehicle' \in Seq(R)
    BY <1>3, <1>10 DEF VStartsUpload, VNext, WriteRequests
  <2>2. CASE Len(items) = 0
    <3>1. vehiclePlan' = <<>> /\ upload' = NoUpload /\ Ack("accepted")
      BY <1>10, <2>1, <2>2 DEF VStartsUpload
    <3>2. PlanOf(items) = <<>>
      BY <1>1, <2>2, PlanOfItems, EmptySeq
    <3>3. stored'
      BY <1>1, <3>1, <3>2 DEF PlanOf
    <3> QED BY <1>5, <1>8, <2>1, <3>1, <3>3
  <2>3. CASE Len(items) # 0
    <3>1. /\ upload' = [count |-> Len(items), items |-> <<>>] /\ UNCHANGED vehiclePlan
          /\ Reply([type |-> "request", seq |-> 0])
      BY <1>10, <2>1, <2>3 DEF VStartsUpload
    <3>2. toGcs' \in Seq(A) /\ UNCHANGED stored
      BY <1>1, <1>9, <3>1
    <3>3. upload'.count = Len(items) /\ upload'.items = <<>> /\ Len(upload'.items) = 0
      BY <3>1
    <3>4. Len(upload'.items) < upload'.count /\ \A i \in 1..Len(upload'.items) : upload'.items[i] = items'[i].val
      BY <1>1, <2>3, <3>3
    <3> HIDE DEF R, stored
    <3> QED BY <1>1, <1>2, <2>1, <3>2, <3>3, <3>4 DEF WriteInOrder, R, stored
  <2> QED BY <2>2, <2>3
<1>11. CASE VTakesItem
  <2> DEFINE msg == Head(toVehicle)
             longer == Append(upload.items, msg.val)
  <2>1. /\ msg \in ToVehicleMsg /\ msg.type = "item" /\ toVehicle' \in Seq(R)
        /\ msg.seq < Len(items) /\ msg.val = items[msg.seq + 1].val
    BY <1>3, <1>11 DEF VTakesItem, VNext, WriteRequests
  <2>2. msg.seq \in Nat /\ msg.val \in Value
    BY <2>1 DEF ToVehicleMsg
  <2>3. CASE ~(upload.count > 0 /\ msg.seq = Len(upload.items))
    <3>1. UNCHANGED <<vehiclePlan, upload>> /\ (toGcs' = toGcs \/ Ack("error") \/ Ack("invalidSequence"))
      BY <1>11, <2>3 DEF VTakesItem
    <3> QED BY <1>1, <1>2, <1>5, <1>7, <2>1, <3>1
  <2>4. CASE upload.count > 0 /\ msg.seq = Len(upload.items)
    <3>1. /\ longer \in Seq(Value) /\ Len(longer) = Len(upload.items) + 1
          /\ \A i \in 1..Len(upload.items) : longer[i] = upload.items[i]
          /\ longer[Len(upload.items) + 1] = msg.val
      BY <1>1, <2>2, AppendProperties
    <3>2. \/ /\ Len(longer) = upload.count
             /\ vehiclePlan' = longer /\ upload' = NoUpload /\ Ack("accepted")
          \/ /\ Len(longer) # upload.count
             /\ upload' = [upload EXCEPT !.items = longer]
             /\ Reply([type |-> "request", seq |-> Len(longer)])
             /\ UNCHANGED vehiclePlan
      BY <1>11, <2>4 DEF VTakesItem
    <3> HIDE DEF longer
    <3>3. Len(longer) <= Len(items) /\ upload.count = Len(items)
      BY <1>1, <1>2, <2>4, <3>1
    <3>4. ASSUME NEW i \in 1..Len(longer) PROVE longer[i] = items[i].val
      <4>1. CASE i \in 1..Len(upload.items)
        BY <1>2, <2>4, <3>1, <4>1
      <4>2. CASE i = Len(upload.items) + 1
        BY <2>1, <2>4, <3>1, <4>2
      <4> QED BY <1>1, <3>1, <4>1, <4>2
    <3>5. CASE Len(longer) = upload.count
      <4>1. longer = PlanOf(items)
        <5>1. PlanOf(items) \in Seq(Value) /\ Len(PlanOf(items)) = Len(longer)
              /\ \A i \in 1..Len(longer) : PlanOf(items)[i] = longer[i]
          BY <1>1, <3>3, <3>4, <3>5, PlanOfItems
        <5> QED BY <3>1, <5>1, SeqEqual
      <4>2. stored'
        BY <1>1, <3>2, <3>5, <4>1 DEF PlanOf
      <4> QED BY <1>5, <1>8, <2>1, <3>2, <3>5, <4>2
    <3>6. CASE Len(longer) # upload.count
      <4>1. upload'.count = upload.count /\ upload'.items = longer /\ UNCHANGED vehiclePlan
        BY <3>2, <3>6, VehicleTypes
      <4>2. toGcs' \in Seq(A) /\ UNCHANGED stored
        BY <1>1, <1>9, <3>1, <3>2, <3>6, <4>1, LenProperties
      <4>3. Len(longer) \in Nat /\ Len(longer) < upload.count
        BY <1>1, <3>1, <3>3, <3>6
      <4> HIDE DEF R, stored
      <4> QED BY <1>1, <1>2, <2>1, <3>3, <3>4, <4>1, <4>2, <4>3 DEF WriteInOrder, R, stored
    <3> QED BY <3>5, <3>6
  <2> QED BY <2>3, <2>4
<1>12. CASE VRefuses
  BY <1>1, <1>3, <1>5, <1>7, <1>12 DEF VRefuses, VNext
<1>13. CASE VRepeatsRequest
  BY <1>1, <1>2, <1>5, <1>9, <1>13 DEF VRepeatsRequest
<1>14. CASE VGivesUpUpload
  BY <1>1, <1>2, <1>5, <1>7, <1>14 DEF VGivesUpUpload
<1>15. CASE Lose
  BY <1>1, <1>2, <1>3, <1>5, <1>15 DEF Lose, vehicle
<1>16. CASE VSendsHome
  <2> DEFINE home == [type |-> "item", seq |-> 0, val |-> vehiclePlan[1]]
  <2>1. home \in A
    BY <1>16, HomeItem DEF VSendsHome, Answers
  <2>2. Reply(home) /\ UNCHANGED vehicle /\ UNCHANGED toVehicle
    BY <1>16 DEF VSendsHome
  <2>3. toGcs' \in Seq(A)
    BY <1>6, <2>1, <2>2
  <2> QED BY <1>1, <1>2, <1>5, <2>2, <2>3 DEF vehicle
<1> QED BY <1>4, <1>10, <1>11, <1>12, <1>13, <1>14, <1>15, <1>16 DEF Vehicle

LEMMA CleanWriteKept ==
    ASSUME IInv, CleanWrite, Next
    PROVE  CleanWrite'
<1> SUFFICES ASSUME clean', transactionInProgress' = "write", ~guided'
             PROVE  WriteInOrder'
  BY DEF CleanWrite
<1>1. CASE User
  <2>1. PICK plan \in Seq(Value) : _writeMissionItemsWorker(ItemsOf(plan))
    <3>1. CASE \E plan \in Plans : writeMissionItems_(plan)
      BY <3>1, PlansTyped DEF writeMissionItems_
    <3>2. CASE \E i \in DOMAIN missionItems : generateResumeMission(i)
      <4>1. PICK i \in DOMAIN missionItems : generateResumeMission(i)
        BY <3>2
      <4>2. /\ PlanOf(missionItems) \in Seq(Value) /\ Len(PlanOf(missionItems)) = Len(missionItems)
            /\ i \in 1..Len(missionItems)
        BY PlanOfItems, LenProperties DEF IInv, TypeOK
      <4> QED BY <4>1, <4>2, RestOfPlan DEF generateResumeMission
    <3> QED BY <1>1, <3>1, <3>2 DEF User, loadFromVehicle, removeAll, writeArduPilotGuidedMissionItem, Begin
  <2> DEFINE items == ItemsOf(plan)
             msg == [type |-> "count", n |-> Len(items)]
  <2>2. writeMissionItems' = items /\ Send(msg) /\ UNCHANGED vehicle
    BY <2>1 DEF _writeMissionItemsWorker, _writeMissionCount, Begin
  <2>3. toVehicle = <<>> /\ toGcs' = <<>> /\ upload' = NoUpload
    BY <1>1, ClearBeginning
  <2>4. /\ items \in Seq(Item) /\ Len(items) = Len(plan) /\ Len(plan) \in Nat
        /\ \A i \in 1..Len(plan) : items[i] = [seq |-> i - 1, val |-> plan[i]]
    BY ItemsOfPlan, LenProperties
  <2> HIDE DEF items
  <2>5. ASSUME NEW i \in 1..Len(items) PROVE items[i].seq = i - 1
    <3>1. items[i] = [seq |-> i - 1, val |-> plan[i]]
      BY <2>4
    <3> QED BY <3>1
  <2>6. msg \in WriteRequests(items)
    BY <2>4 DEF WriteRequests, ToVehicleMsg
  <2>7. toVehicle' \in Seq(WriteRequests(items))
    <3> HIDE DEF msg
    <3> QED BY <2>2, <2>3, <2>6, FirstMessage
  <2>8. toGcs' \in Seq(Answers(vehiclePlan' = PlanOf(writeMissionItems')))
    BY <2>3, EmptySeq
  <2>9. ~(upload'.count > 0)
    BY <2>3 DEF NoUpload
  <2>10. (PlanOf(writeMissionItems))' = PlanOf(writeMissionItems')
    BY DEF PlanOf
  <2> QED BY <2>2, <2>5, <2>7, <2>8, <2>9, <2>10 DEF WriteInOrder
<1>2. CASE ~User
  <2>1. /\ transactionInProgress = "write" /\ ~guided /\ ~Idle /\ WriteInOrder
        /\ expectedAck = "request" /\ UNCHANGED writeMissionItems
    <3>1. UNCHANGED <<transactionInProgress, clean, guided, writeMissionItems>>
      BY <1>2, SameTransfer DEF Idle
    <3> QED BY <3>1, WaitsFor DEF CleanWrite, Idle
  <2> DEFINE R == WriteRequests(writeMissionItems)
             A == Answers(vehiclePlan = PlanOf(writeMissionItems))
  <2>2. ASSUME UNCHANGED vehicle, toVehicle' \in Seq(R), toGcs' \in Seq(A)
        PROVE  WriteInOrder'
    <3>1. (PlanOf(writeMissionItems))' = PlanOf(writeMissionItems)
      BY <2>1 DEF PlanOf
    <3>2. toVehicle' \in Seq(WriteRequests(writeMissionItems')) 
          /\ toGcs' \in Seq(Answers(vehiclePlan' = (PlanOf(writeMissionItems))'))
      BY <2>1, <2>2, <3>1 DEF vehicle
    <3>3. /\ \A i \in 1..Len(writeMissionItems) : writeMissionItems[i].seq = i - 1
          /\ upload.count > 0 =>
                /\ upload.count = Len(writeMissionItems) /\ Len(upload.items) < upload.count
                /\ \A i \in 1..Len(upload.items) : upload.items[i] = writeMissionItems[i].val
      BY <2>1 DEF WriteInOrder
    <3> HIDE DEF R, A
    <3> QED BY <2>1, <2>2, <3>2, <3>3 DEF WriteInOrder, vehicle
  <2>3. /\ toVehicle \in Seq(R) /\ toGcs \in Seq(A)
        /\ toGcs # <<>> => Tail(toGcs) \in Seq(A)
    <3>1. toVehicle \in Seq(R) /\ toGcs \in Seq(A)
      BY <2>1 DEF WriteInOrder
    <3> HIDE DEF R, A
    <3> QED BY <3>1, TailType
  <2>4. CASE Ignored
    BY <2>2, <2>3, <2>4 DEF Ignored
  <2>5. CASE Vehicle \/ Lose
    <3>1. UNCHANGED gcs
      BY <2>5 DEF Vehicle, Lose, VServesRead, VStartsUpload, VTakesItem, VClears, VTakesGuidedItem,
         VRefuses, VRepeatsRequest, VSendsHome, VGivesUpUpload
    <3> QED BY <2>1, <2>5, <3>1, WriteAnswered
  <2>6. CASE _handleMissionRequest
    <3> DEFINE seq == Head(toGcs).seq
               msg == [type |-> "item", seq |-> seq, val |-> writeMissionItems[seq + 1].val]
    <3>1. /\ toGcs # <<>> /\ toGcs' = Tail(toGcs) /\ UNCHANGED vehicle
          /\ ~(seq >= Len(writeMissionItems)) /\ Send(msg)
      BY <2>6 DEF _handleMissionRequest, IsNext, Fail, _finishTransaction
    <3>2. seq \in Nat /\ Len(writeMissionItems) \in Nat /\ writeMissionItems \in Seq(Item)
      BY <2>6, RequestReceived, LenProperties DEF _handleMissionRequest, IInv, TypeOK
    <3>3. seq < Len(writeMissionItems) /\ seq + 1 \in 1..Len(writeMissionItems)
      BY <3>1, <3>2
    <3>4. writeMissionItems[seq + 1].val \in Value
      <4>1. writeMissionItems[seq + 1] \in Item
        BY <3>2, <3>3, ElementOfSeq
      <4> QED BY <4>1 DEF Item
    <3>5. msg \in R
      BY <3>2, <3>3, <3>4 DEF WriteRequests, ToVehicleMsg
    <3>6. toVehicle' \in Seq(R)
      <4> HIDE DEF msg, R
      <4> QED BY <2>3, <3>1, <3>5, PushType DEF Send
    <3> QED BY <2>2, <2>3, <3>1, <3>6
  <2>7. CASE _handleMissionCount \/ _handleMissionItem \/ _handleMissionAck
    BY <2>1, <2>7 DEF _handleMissionCount, _handleMissionItem, _handleMissionAck, _finishTransaction
  <2>8. CASE _ackTimeout
    <3> DEFINE msg == [type |-> "count", n |-> Len(writeMissionItems)]
    <3>1. Send(msg) /\ UNCHANGED <<vehicle, toGcs>>
      BY <2>1, <2>8 DEF _ackTimeout, GivingUp, Fail, _finishTransaction, _writeMissionCount
    <3>2. msg \in R
      BY LenProperties DEF WriteRequests, ToVehicleMsg, IInv, TypeOK
    <3>3. toVehicle' \in Seq(R)
      <4> HIDE DEF msg, R
      <4> QED BY <2>3, <3>1, <3>2, PushType DEF Send
    <3> QED BY <2>2, <2>3, <3>1, <3>3
  <2> QED BY <1>2, <2>4, <2>5, <2>6, <2>7, <2>8 DEF Next, _mavlinkMessageReceived
<1> QED BY <1>1, <1>2

LEMMA CleanRemovalKept ==
    ASSUME IInv, CleanRemoval, Next
    PROVE  CleanRemoval'
<1> DEFINE clear == [type |-> "clearAll"]
<1> SUFFICES ASSUME clean', transactionInProgress' = "removeAll"
             PROVE  RemovalInOrder'
  BY DEF CleanRemoval
<1>1. clear \in Removals
  BY DEF Removals, ToVehicleMsg
<1> HIDE DEF clear
<1>2. CASE User
  <2>1. /\ ~guided' /\ missionItems' = <<>> /\ Send(clear)
    BY <1>2 DEF User, loadFromVehicle, removeAll, writeArduPilotGuidedMissionItem, writeMissionItems_,
       generateResumeMission, _writeMissionItemsWorker, Begin, _removeAllWorker, clear
  <2>2. toVehicle = <<>> /\ toGcs' = <<>> /\ upload' = NoUpload
    BY <1>2, <2>1, ClearBeginning
  <2>3. toVehicle' \in Seq(Removals)
    BY <1>1, <2>1, <2>2, FirstMessage
  <2> QED BY <2>1, <2>2, <2>3, EmptySeq DEF RemovalInOrder
<1>3. CASE ~User
  <2> DEFINE A == Answers(vehiclePlan = <<>>)
  <2>1. transactionInProgress = "removeAll" /\ ~Idle /\ RemovalInOrder /\ expectedAck = "clearAll"
    <3>1. UNCHANGED <<transactionInProgress, clean>>
      BY <1>3, SameTransfer DEF Idle
    <3> QED BY <3>1, WaitsFor DEF CleanRemoval, Idle
  <2>2. /\ upload = NoUpload /\ missionItems = <<>> /\ toVehicle \in Seq(Removals) /\ toGcs \in Seq(A)
        /\ toVehicle # <<>> => Head(toVehicle).type = "clearAll" /\ Tail(toVehicle) \in Seq(Removals)
        /\ toGcs # <<>> => Tail(toGcs) \in Seq(A)
    <3>1. upload = NoUpload /\ missionItems = <<>> /\ toVehicle \in Seq(Removals) /\ toGcs \in Seq(A)
      BY <2>1 DEF RemovalInOrder
    <3>2. \A m \in Removals : m.type = "clearAll"
      BY DEF Removals
    <3> HIDE DEF A
    <3> QED BY <3>1, <3>2, TailType
  <2>3. CASE Ignored
    BY <2>2, <2>3 DEF Ignored, RemovalInOrder, gcs, vehicle
  <2>4. CASE _ackTimeout
    <3>1. Send(clear) /\ UNCHANGED <<vehicle, toGcs, missionItems>>
      BY <2>1, <2>4 DEF _ackTimeout, GivingUp, Fail, _finishTransaction, _removeAllWorker, clear
    <3>2. toVehicle' \in Seq(Removals)
      BY <1>1, <2>2, <3>1, PushType DEF Send
    <3> QED BY <2>2, <3>1, <3>2 DEF RemovalInOrder, vehicle
  <2>5. CASE _handleMissionCount \/ _handleMissionItem \/ _handleMissionRequest \/ _handleMissionAck
    BY <2>1, <2>5 DEF _handleMissionCount, _handleMissionItem, _handleMissionRequest,
       _handleMissionAck, _finishTransaction
  <2>6. CASE Vehicle
    <3>1. upload.count = 0
      BY <2>2 DEF NoUpload
    <3>2. /\ ~VServesRead /\ ~VStartsUpload /\ ~VTakesItem /\ ~VTakesGuidedItem
          /\ ~VRepeatsRequest /\ ~VGivesUpUpload
      BY <2>2, <3>1 DEF VServesRead, VStartsUpload, VTakesItem, VTakesGuidedItem,
         VRepeatsRequest, VGivesUpUpload, VNext
    <3>3. UNCHANGED gcs /\ upload' = NoUpload /\ toVehicle' \in Seq(Removals)
      BY <2>2, <2>6, <3>2 DEF Vehicle, VClears, VRefuses, VSendsHome, vehicle, VNext
    <3>4. CASE VClears
      <4> DEFINE msg == [type |-> "ack", result |-> "accepted"]
      <4>1. vehiclePlan' = <<>> /\ Reply(msg)
        BY <3>4 DEF VClears, Ack
      <4>2. msg \in Answers(TRUE) /\ A \subseteq Answers(TRUE)
        BY DEF Answers, ToGcsMsg
      <4>3. toGcs' \in Seq(Answers(TRUE))
        <5> HIDE DEF msg, A
        <5> QED BY <2>2, <4>1, <4>2, Widened, PushType DEF Reply
      <4>4. (vehiclePlan' = <<>>) = TRUE
        BY <4>1
      <4> QED BY <2>2, <3>3, <4>3, <4>4 DEF RemovalInOrder, gcs
    <3>5. CASE VRefuses
      <4> DEFINE msg == [type |-> "ack", result |-> "error"]
      <4>1. UNCHANGED vehiclePlan /\ Reply(msg)
        BY <3>5 DEF VRefuses, Ack
      <4>2. msg \in A
        BY DEF Answers, ToGcsMsg
      <4>3. toGcs' \in Seq(A)
        <5> HIDE DEF msg, A
        <5> QED BY <2>2, <4>1, <4>2, PushType DEF Reply
      <4> QED BY <2>2, <3>3, <4>1, <4>3 DEF RemovalInOrder, gcs
    <3>6. CASE VSendsHome
      <4> DEFINE home == [type |-> "item", seq |-> 0, val |-> vehiclePlan[1]]
      <4>1. UNCHANGED vehiclePlan /\ Reply(home)
        BY <3>6 DEF VSendsHome, vehicle
      <4>2. home \in A
        BY <3>6, HomeItem DEF VSendsHome, Answers
      <4>3. toGcs' \in Seq(A)
        <5> HIDE DEF home, A
        <5> QED BY <2>2, <4>1, <4>2, PushType DEF Reply
      <4> QED BY <2>2, <3>3, <4>1, <4>3 DEF RemovalInOrder, gcs
    <3> QED BY <2>6, <3>2, <3>4, <3>5, <3>6 DEF Vehicle
  <2>7. CASE Lose
    BY <2>2, <2>7 DEF Lose, RemovalInOrder, gcs, vehicle
  <2> QED BY <1>3, <2>3, <2>4, <2>5, <2>6, <2>7 DEF Next, _mavlinkMessageReceived
<1> QED BY <1>2, <1>3

-----------------------------------------------------------------------------
(* The step that reports a success.                                        *)

Transfers == ReadGathers /\ CleanRead /\ CleanWrite /\ CleanRemoval

SamePlan(items) == PlanOf(items) = vehiclePlan /\ \A i \in DOMAIN items : items[i].seq = i - 1

LEMMA EndSignal ==
    ASSUME IInv, ~Idle, NEW ok \in BOOLEAN, NEW guidedWrite \in BOOLEAN, NEW items \in Seq(Item), NEW k,
           _finishTransaction(ok, guidedWrite, items), LastSignal(k)
    PROVE  /\ ok
           /\ transactionInProgress = "read" => k = "newMissionItemsAvailable" /\ missionItems' = items
           /\ transactionInProgress = "write" /\ ~guidedWrite => k = "sendComplete" /\ missionItems' = writeMissionItems
           /\ transactionInProgress = "removeAll" => k = "removeAllComplete" /\ missionItems' = missionItems
           /\ ~(transactionInProgress = "write" /\ guidedWrite)
<1> DEFINE kind == CASE transactionInProgress = "read" -> "newMissionItemsAvailable"
                     [] transactionInProgress = "write" /\ ~guidedWrite -> "sendComplete"
                     [] transactionInProgress = "removeAll" -> "removeAllComplete"
                     [] OTHER -> "none"
           new == [tx |-> started, ok |-> ok, kind |-> kind]
<1>1. /\ signals' = IF kind = "none" THEN signals ELSE Append(signals, new)
      /\ missionItems' = ItemsAfter(kind, ok, items)
  BY DEF _finishTransaction
<1>2. signals \in Seq(Signal) /\ Len(signals) \in Nat /\ new.ok = ok /\ new.kind = kind
  BY SignalsTyped
<1>3. kind \in Kind /\ signals' = Append(signals, new)
  <2>1. kind \in Kind \cup {"none"}
    BY DEF Kind
  <2> HIDE DEF kind, new
  <2> QED BY <1>1, <1>2, <2>1 DEF LastSignal
<1>4. Len(signals') = Len(signals) + 1 /\ signals'[Len(signals) + 1] = new
  <2>1. started \in 1..MaxTransactions
    BY DEF IInv, AskedForThis
  <2>2. new \in Signal
    BY <1>3, <2>1 DEF Signal
  <2> HIDE DEF new
  <2> QED BY <1>2, <1>3, <2>2, AppendProperties
<1>5. k = kind /\ ok
  <2> HIDE DEF new, kind
  <2>1. Len(signals') = Len(signals) + 1 /\ signals'[Len(signals')].kind = k /\ signals'[Len(signals')].ok
    BY <1>4 DEF LastSignal
  <2> QED BY <1>2, <1>4, <2>1
<1>6. ~(transactionInProgress = "write" /\ guidedWrite)
  BY <1>3 DEF Kind
<1> QED BY <1>1, <1>5, <1>6 DEF ItemsAfter

LEMMA NoSignalUnlessEnded ==
    ASSUME IInv, [Next]_vars, NEW k, LastSignal(k)
    PROVE  ~Idle /\ (_handleMissionCount \/ _handleMissionItem \/ _handleMissionAck)
<1>1. ~UNCHANGED signals
  BY LenProperties DEF LastSignal, IInv, TypeOK
<1>2. ~UNCHANGED vars /\ ~User /\ ~Vehicle /\ ~Lose /\ ~Ignored
  BY <1>1 DEF vars, gcs, User, loadFromVehicle, removeAll, writeArduPilotGuidedMissionItem, writeMissionItems_,
     generateResumeMission, _writeMissionItemsWorker, Begin, Vehicle, Lose, VServesRead, VStartsUpload,
     VTakesItem, VClears, VTakesGuidedItem, VRefuses, VRepeatsRequest, VSendsHome, VGivesUpUpload, Ignored
<1>3. ASSUME ~Idle, Fail PROVE FALSE
  <2>1. missionItems \in Seq(Item)
    BY DEF IInv, TypeOK
  <2> QED BY <1>3, <2>1, EndSignal DEF Fail
<1>4. ~_ackTimeout
  <2>1. _ackTimeout => ~Idle /\ (Fail \/ UNCHANGED signals)
    BY DEF _ackTimeout, GivingUp, Retrying, IInv, NeverLocked
  <2> QED BY <1>1, <1>3, <2>1
<1>5. ~_handleMissionRequest
  <2>1. _handleMissionRequest => ~Idle /\ (Fail \/ UNCHANGED signals)
    BY DEF _handleMissionRequest
  <2> QED BY <1>1, <1>3, <2>1
<1>6. _handleMissionCount \/ _handleMissionItem \/ _handleMissionAck
  BY <1>2, <1>4, <1>5 DEF Next, _mavlinkMessageReceived
<1> QED BY <1>6 DEF _handleMissionCount, _handleMissionItem, _handleMissionAck

(* A read of a plan without items.                                         *)
LEMMA NothingRead ==
    ASSUME IInv, Transfers, _handleMissionCount, NEW k, LastSignal(k)
    PROVE  /\ k = "newMissionItemsAvailable" /\ missionItems' = <<>>
           /\ clean => vehiclePlan = <<>>
<1>1. ~Idle /\ expectedAck = "count" /\ IsNext("count")
  BY DEF _handleMissionCount
<1>2. Head(toGcs).n = 0 /\ ReadComplete(missionItems)
  <2>1. ~UNCHANGED signals
    BY LenProperties DEF LastSignal, IInv, TypeOK
  <2> QED BY <2>1 DEF _handleMissionCount
<1>3. missionItems = <<>> /\ missionItems \in Seq(Item) /\ transactionInProgress = "read"
  BY <1>1, WaitsFor DEF IInv, CountFindsNothing, TypeOK
<1>4. k = "newMissionItemsAvailable" /\ missionItems' = <<>>
  BY <1>1, <1>2, <1>3, EndSignal DEF ReadComplete
<1>5. ASSUME clean PROVE vehiclePlan = <<>>
  <2> DEFINE A == ReadAnswers(Asked, vehiclePlan)
  <2>1. toGcs \in Seq(A) /\ toGcs # <<>>
    BY <1>1, <1>3, <1>5 DEF Transfers, CleanRead, ReadInOrder, IsNext
  <2>2. Head(toGcs) \in A
    <3> HIDE DEF A
    <3> QED BY <2>1, TailType
  <2>3. Len(vehiclePlan) = 0
    BY <1>1, <1>2, <2>2 DEF ReadAnswers, IsNext
  <2> QED BY <2>3, VehicleTypes, EmptySeq
<1> QED BY <1>4, <1>5

(* A read of the last item.                                                *)
LEMMA LastItemRead ==
    ASSUME IInv, Transfers, _handleMissionItem, NEW k, LastSignal(k)
    PROVE  /\ k = "newMissionItemsAvailable" /\ missionItems' \in Seq(Item)
           /\ Indices(missionItems') = {i - 1 : i \in DOMAIN missionItems'}
           /\ clean => SamePlan(missionItems')
<1> DEFINE seq == Head(toGcs).seq
           item == [seq |-> Head(toGcs).seq, val |-> Head(toGcs).val]
           items == Append(missionItems, item)
<1>1. /\ ~Idle /\ expectedAck = "item" /\ transactionInProgress = "read"
      /\ item \in Item /\ missionItems \in Seq(Item)
  BY WaitsFor, ItemReceived DEF _handleMissionItem, Item, IInv, TypeOK
<1>2. seq \in itemIndicesToRead /\ Remaining(seq) = {} /\ ReadComplete(items)
  <2>1. ~UNCHANGED signals
    BY LenProperties DEF LastSignal, IInv, TypeOK
  <2> QED BY <2>1 DEF _handleMissionItem
<1>3. /\ items \in Seq(Item) /\ Indices(items) = Indices(missionItems) \cup {item.seq}
      /\ Len(items) = Len(missionItems) + 1 /\ Len(missionItems) \in Nat /\ DOMAIN items = 1..Len(items)
  <2>1. items \in Seq(Item) /\ Indices(items) = Indices(missionItems) \cup {item.seq}
    BY <1>1, IndicesOfLonger DEF Indices
  <2>2. Len(items) = Len(missionItems) + 1
    BY <1>1, AppendProperties
  <2> HIDE DEF items
  <2> QED BY <1>1, <2>1, <2>2, LenProperties
<1>4. k = "newMissionItemsAvailable" /\ missionItems' = items
  <2> HIDE DEF items
  <2> QED BY <1>1, <1>2, <1>3, EndSignal DEF ReadComplete
<1>5. itemIndicesToRead = {seq}
  BY <1>2 DEF Remaining
<1>6. Indices(items) = {i - 1 : i \in DOMAIN items}
  <2>1. Cardinality(itemIndicesToRead) = 1
    BY <1>5, FS_Singleton
  <2>2. Indices(items) = 0..(Len(missionItems) + 1 - 1)
    <3>1. Indices(missionItems) \cup itemIndicesToRead
            = 0..(Len(missionItems) + Cardinality(itemIndicesToRead) - 1)
      BY <1>1 DEF Transfers, ReadGathers
    <3> QED BY <1>3, <1>5, <2>1, <3>1
  <2>3. \A n \in Nat : {i - 1 : i \in 1..(n + 1)} = 0..n
    <3>1. ASSUME NEW n \in Nat, NEW j \in 0..n PROVE j \in {i - 1 : i \in 1..(n + 1)}
      <4>1. j + 1 \in 1..(n + 1) /\ j = (j + 1) - 1
        OBVIOUS
      <4> QED BY <4>1
    <3> QED BY <3>1
  <2> HIDE DEF items
  <2>4. Indices(items) = 0..Len(missionItems)
    BY <1>3, <2>2
  <2>5. DOMAIN items = 1..(Len(missionItems) + 1)
    BY <1>3
  <2>6. {i - 1 : i \in 1..(Len(missionItems) + 1)} = 0..Len(missionItems)
    BY <1>3, <2>3
  <2> QED BY <2>4, <2>5, <2>6
<1>7. ASSUME clean PROVE SamePlan(items)
  <2>1. ReadInOrder
    BY <1>1, <1>7 DEF Transfers, CleanRead
  <2>2. /\ Len(items) <= Len(vehiclePlan) /\ Remaining(seq) = Len(items)..(Len(vehiclePlan) - 1)
        /\ \A i \in 1..Len(items) : items[i] = [seq |-> i - 1, val |-> vehiclePlan[i]]
    BY <1>2, <2>1, NextInOrder
  <2> HIDE DEF items
  <2>3. Len(vehiclePlan) \in Nat /\ vehiclePlan \in Seq(Value)
    BY VehicleTypes, LenProperties
  <2>4. Len(items) = Len(vehiclePlan)
    <3>1. ~(Len(items) <= Len(vehiclePlan) - 1)
      <4>1. SUFFICES ASSUME Len(items) <= Len(vehiclePlan) - 1 PROVE Len(items) \in Remaining(seq)
        BY <1>2
      <4> QED BY <1>3, <2>2, <2>3, <4>1
    <3> QED BY <1>3, <2>2, <2>3, <3>1
  <2>5. \A i \in 1..Len(items) : items[i].seq = i - 1 /\ items[i].val = vehiclePlan[i]
    <3> TAKE i \in 1..Len(items)
    <3>1. items[i] = [seq |-> i - 1, val |-> vehiclePlan[i]]
      BY <2>2
    <3> QED BY <3>1
  <2>6. PlanOf(items) = vehiclePlan
    BY <1>3, <2>3, <2>4, <2>5, PlanOfItems, SeqEqual
  <2> QED BY <1>3, <2>5, <2>6 DEF SamePlan
<1> QED BY <1>3, <1>4, <1>6, <1>7

(* An accepted write or removal.                                           *)
LEMMA Accepted ==
    ASSUME IInv, Transfers, _handleMissionAck, NEW k, LastSignal(k)
    PROVE  /\ k # "newMissionItemsAvailable"
           /\ clean => SamePlan(missionItems')
<1>1. ~Idle /\ missionItems \in Seq(Item) /\ (expectedAck = "guided") \in BOOLEAN /\ IsNext("ack")
  BY DEF _handleMissionAck, IInv, TypeOK
<1>2. PICK ok \in BOOLEAN :
         /\ _finishTransaction(ok, expectedAck = "guided", missionItems)
         /\ ok => Head(toGcs).result = "accepted" /\ expectedAck \in {"request", "clearAll", "guided"}
  <2> DEFINE okay == Head(toGcs).result = "accepted"
                     /\ CASE expectedAck = "request" -> itemIndicesToWrite = {}
                          [] expectedAck \in {"clearAll", "guided"} -> TRUE
                          [] OTHER -> FALSE
  <2>1. _finishTransaction(okay, expectedAck = "guided", missionItems)
    BY DEF _handleMissionAck
  <2>2. okay => Head(toGcs).result = "accepted" /\ expectedAck \in {"request", "clearAll", "guided"}
    OBVIOUS
  <2>3. okay \in BOOLEAN
    OBVIOUS
  <2> HIDE DEF okay
  <2> QED BY <2>1, <2>2, <2>3
<1>3. /\ ok
      /\ transactionInProgress = "read" => k = "newMissionItemsAvailable"
      /\ transactionInProgress = "write" /\ expectedAck # "guided" => k = "sendComplete" /\ missionItems' = writeMissionItems
      /\ ~(transactionInProgress = "write" /\ expectedAck = "guided")
      /\ transactionInProgress = "removeAll" => k = "removeAllComplete" /\ missionItems' = missionItems
  BY <1>1, <1>2, EndSignal
<1>4. Head(toGcs).result = "accepted" /\ expectedAck \in {"request", "clearAll", "guided"}
  BY <1>2, <1>3
<1>5. CASE expectedAck = "request"
  <2>1. transactionInProgress = "write" /\ ~guided /\ k = "sendComplete" /\ missionItems' = writeMissionItems
    BY <1>1, <1>3, <1>5, WaitsFor
  <2>2. ASSUME clean PROVE SamePlan(missionItems')
    <3> DEFINE A == Answers(vehiclePlan = PlanOf(writeMissionItems))
    <3>1. toGcs \in Seq(A) /\ \A i \in 1..Len(writeMissionItems) : writeMissionItems[i].seq = i - 1
      BY <2>1, <2>2 DEF Transfers, CleanWrite, WriteInOrder
    <3>2. Head(toGcs) \in A
      <4> HIDE DEF A
      <4> QED BY <1>1, <3>1, TailType DEF IsNext
    <3>3. vehiclePlan = PlanOf(writeMissionItems)
      BY <1>1, <1>4, <3>2 DEF Answers, IsNext
    <3>4. DOMAIN writeMissionItems = 1..Len(writeMissionItems)
      BY LenProperties DEF IInv, TypeOK
    <3> QED BY <2>1, <3>1, <3>3, <3>4 DEF SamePlan
  <2> QED BY <2>1, <2>2
<1>6. CASE expectedAck = "clearAll"
  <2>1. transactionInProgress = "removeAll" /\ k = "removeAllComplete" /\ missionItems' = missionItems
    BY <1>1, <1>3, <1>6, WaitsFor
  <2>2. ASSUME clean PROVE SamePlan(missionItems')
    <3> DEFINE A == Answers(vehiclePlan = <<>>)
    <3>1. toGcs \in Seq(A) /\ missionItems = <<>>
      BY <2>1, <2>2 DEF Transfers, CleanRemoval, RemovalInOrder
    <3>2. Head(toGcs) \in A
      <4> HIDE DEF A
      <4> QED BY <1>1, <3>1, TailType DEF IsNext
    <3>3. vehiclePlan = <<>>
      BY <1>1, <1>4, <3>2 DEF Answers, IsNext
    <3>4. Len(missionItems) = 0 /\ DOMAIN missionItems = {}
      BY <3>1, EmptySeq
    <3>5. PlanOf(missionItems) \in Seq(Value) /\ Len(PlanOf(missionItems)) = 0
      BY <1>1, <3>4, PlanOfItems
    <3>6. PlanOf(missionItems) = <<>>
      BY <3>5, EmptySeq
    <3>7. PlanOf(missionItems') = PlanOf(missionItems)
      BY <2>1
    <3> QED BY <2>1, <3>3, <3>4, <3>6, <3>7 DEF SamePlan
  <2> QED BY <2>1, <2>2
<1>7. CASE expectedAck = "guided"
  <2>1. transactionInProgress = "write"
    BY <1>1, <1>7 DEF IInv, TypeOK, NeverLocked, Idle
  <2> QED BY <1>3, <1>7, <2>1
<1> QED BY <1>4, <1>5, <1>6, <1>7

(* SuccessMeansSamePlan, of one step.                                      *)
SuccessStep ==
    /\ LastSignal("newMissionItemsAvailable")
       => {missionItems'[i].seq : i \in DOMAIN missionItems'} = {i - 1 : i \in DOMAIN missionItems'}
    /\ clean /\ (\E k \in {"newMissionItemsAvailable", "sendComplete", "removeAllComplete"} : LastSignal(k))
       => /\ PlanOf(missionItems') = vehiclePlan
          /\ \A i \in DOMAIN missionItems' : missionItems'[i].seq = i - 1

LEMMA SuccessSteps ==
    ASSUME IInv, Transfers, [Next]_vars
    PROVE  SuccessStep
<1>1. ASSUME NEW k, LastSignal(k)
      PROVE  /\ k = "newMissionItemsAvailable"
                  => Indices(missionItems') = {i - 1 : i \in DOMAIN missionItems'}
             /\ clean => SamePlan(missionItems')
  <2>1. CASE _handleMissionCount
    <3>1. missionItems' = <<>> /\ DOMAIN missionItems' = {} /\ (clean => vehiclePlan = <<>>)
      BY <1>1, <2>1, NothingRead, EmptySeq
    <3>2. Indices(missionItems') = {} /\ {i - 1 : i \in DOMAIN missionItems'} = {}
      BY <3>1 DEF Indices
    <3>3. ASSUME clean PROVE PlanOf(missionItems') = vehiclePlan
      <4>1. <<>> \in Seq(Item) /\ Len(<<>>) = 0
        BY EmptySeq
      <4>2. PlanOf(<<>>) \in Seq(Value) /\ Len(PlanOf(<<>>)) = 0
        BY <4>1, PlanOfItems
      <4>3. PlanOf(<<>>) = <<>>
        BY <4>2, EmptySeq
      <4> QED BY <3>1, <3>3, <4>3
    <3> QED BY <3>1, <3>2, <3>3 DEF SamePlan
  <2>2. CASE _handleMissionItem
    BY <1>1, <2>2, LastItemRead
  <2>3. CASE _handleMissionAck
    BY <1>1, <2>3, Accepted
  <2> QED BY <1>1, <2>1, <2>2, <2>3, NoSignalUnlessEnded
<1>2. ASSUME LastSignal("newMissionItemsAvailable")
      PROVE  {missionItems'[i].seq : i \in DOMAIN missionItems'} = {i - 1 : i \in DOMAIN missionItems'}
  BY <1>1, <1>2 DEF Indices
<1>3. ASSUME clean, NEW k \in {"newMissionItemsAvailable", "sendComplete", "removeAllComplete"}, LastSignal(k)
      PROVE  /\ PlanOf(missionItems') = vehiclePlan
             /\ \A i \in DOMAIN missionItems' : missionItems'[i].seq = i - 1
  BY <1>1, <1>3 DEF SamePlan
<1> QED BY <1>2, <1>3 DEF SuccessStep

LEMMA InitTransfers == Init => Transfers
BY DEF Init, Transfers, ReadGathers, CleanRead, CleanWrite, CleanRemoval, Idle

LEMMA NextTransfers == IInv /\ Transfers /\ [Next]_vars => Transfers'
<1> SUFFICES ASSUME IInv, Transfers, [Next]_vars PROVE Transfers'
  OBVIOUS
<1>1. CASE UNCHANGED vars
  <2>1. UNCHANGED PlanOf(writeMissionItems) /\ UNCHANGED Asked
    BY <1>1 DEF vars, gcs, PlanOf, Asked
  <2>2. /\ UNCHANGED ReadInOrder /\ UNCHANGED WriteInOrder /\ UNCHANGED RemovalInOrder
    BY <1>1, <2>1 DEF vars, gcs, vehicle, ReadInOrder, WriteInOrder, RemovalInOrder
  <2> QED BY <1>1, <2>2 DEF vars, gcs, Transfers, ReadGathers, Indices, CleanRead, CleanWrite, CleanRemoval, Idle
<1> QED BY <1>1, ReadGathersKept, CleanReadKept, CleanWriteKept, CleanRemovalKept DEF Transfers

(* SuccessMeansSamePlan: a read that succeeds has every item of some count *)
(* exactly once, and any transfer that succeeds leaves both sides with the *)
(* same plan, in order, if its link was clear when it began.               *)
THEOREM SameOnBothSides == Spec => SuccessMeansSamePlan
<1>1. Init => IInv /\ Transfers
  BY InitInv, InitTransfers
<1>2. IInv /\ Transfers /\ [Next]_vars => (IInv /\ Transfers)'
  BY NextInv, NextTransfers
<1>3. IInv /\ Transfers /\ [Next]_vars => [SuccessStep]_vars
  BY SuccessSteps
<1>4. SuccessMeansSamePlan <=> [][SuccessStep]_vars
  BY DEF SuccessMeansSamePlan, SuccessStep
<1> QED BY <1>1, <1>2, <1>3, <1>4, PTL DEF Spec
=============================================================================
