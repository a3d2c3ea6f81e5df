--------------------------- MODULE MqBridgeProofs ---------------------------
(***************************************************************************)
(* What holds of the bridge of MqBridge for every number of partitions,    *)
(* capacity of the channels, number of messages and of errors: the types,  *)
(* that no more is lost than a crash or an error explains, and that it     *)
(* implements Delivery.                                                    *)
(***************************************************************************)
EXTENDS MqBridge, FiniteSetTheorems, TLAPS

KindsRead   == {"request", "garbage", "nil"}
ReaderType  == [pc : {"closed", "read", "store", "push"}, next : Nat, kind : KindsRead]
MessageType == [p : Partitions, o : Nat, kind : KindsRead]
ProducerPc  == {"none", "start", "idle", "send", "returned"}
Budget      == [used : Nat, most : Nat]
FaultBudget == [used : Nat, most : Nat, at : SUBSET FaultPlaces]

BeforeConsume == {"exists", "get", "existsAgain", "delete", "push"}

(* The inductive form of TypeOK: the offset -1 stands for "none", and a    *)
(* reader that holds a message has read one.                               *)
TypeInv ==
  /\ TypeOK
  /\ faults \in FaultBudget /\ garbage \in Budget /\ crashes \in Budget
  /\ \A i \in 1 .. Len(list) : list[i] >= -1
  /\ \A i \in 1 .. Len(offsets) : offsets[i] >= -1
  /\ setup \in BeforeConsume => pushed < NParts
  /\ \A p \in Partitions : reader[p].pc \in {"store", "push"} => reader[p].next > 0

-----------------------------------------------------------------------------
(* Sequences.                                                              *)

(* The elements of a sequence with one more.                               *)
LEMMA AppendAt ==
  ASSUME NEW S, NEW s \in Seq(S), NEW e \in S
  PROVE  /\ Append(s, e) \in Seq(S) /\ Len(Append(s, e)) = Len(s) + 1
         /\ \A i \in 1 .. Len(s) : Append(s, e)[i] = s[i]
         /\ Append(s, e)[Len(s) + 1] = e
         /\ \A i \in 1 .. Len(Append(s, e)) : i \in 1 .. Len(s) \/ i = Len(s) + 1
  OBVIOUS

(* The elements of a sequence without its first.                           *)
LEMMA TailAt ==
  ASSUME NEW S, NEW s \in Seq(S), s # <<>>
  PROVE  /\ Tail(s) \in Seq(S) /\ Len(Tail(s)) = Len(s) - 1 /\ Len(s) \in Nat \ {0}
         /\ \A i \in 1 .. Len(Tail(s)) : Tail(s)[i] = s[i + 1] /\ i + 1 \in 2 .. Len(s)
         /\ Head(s) = s[1] /\ Head(s) \in S
  OBVIOUS

(* A sequence with one element replaced, if it has that element.           *)
LEMMA ReplaceAt ==
  ASSUME NEW S, NEW s \in Seq(S), NEW e \in S, NEW k \in Nat
  PROVE  /\ [s EXCEPT ![k] = e] \in Seq(S) /\ Len([s EXCEPT ![k] = e]) = Len(s)
         /\ \A i \in 1 .. Len(s) : [s EXCEPT ![k] = e][i] = IF i = k THEN e ELSE s[i]
  <1> DEFINE r == [s EXCEPT ![k] = e]
  <1>1. s \in [1 .. Len(s) -> S] /\ Len(s) \in Nat
    OBVIOUS
  <1>2. r \in [1 .. Len(s) -> S] /\ \A i \in 1 .. Len(s) : r[i] = IF i = k THEN e ELSE s[i]
    BY <1>1
  <1> HIDE DEF r
  <1>3. r \in Seq(S)
    BY <1>1, <1>2
  <1>4. DOMAIN r = 1 .. Len(s) /\ DOMAIN r = 1 .. Len(r) /\ Len(r) \in Nat
    BY <1>2, <1>3
  <1>5. Len(r) = Len(s)
    BY <1>1, <1>4
  <1> QED
    BY <1>2, <1>3, <1>5 DEF r

-----------------------------------------------------------------------------
(* Types.                                                                  *)

(* A reader whose record is replaced.                                      *)
LEMMA ReaderSet ==
  ASSUME NEW f \in [Partitions -> ReaderType], NEW p \in Partitions, NEW x \in ReaderType
  PROVE  /\ [f EXCEPT ![p] = x] \in [Partitions -> ReaderType]
         /\ [f EXCEPT ![p] = x][p] = x
         /\ \A q \in Partitions : q # p => [f EXCEPT ![p] = x][q] = f[q]
  OBVIOUS

(* What is spent stays counted.                                            *)
LEMMA Spending ==
  ASSUME TypeInv
  PROVE  /\ \A w : Fault(w) => /\ faults' \in FaultBudget /\ faults'.used = faults.used + 1
                               /\ faults'.at = faults.at /\ w \in faults.at
         /\ Spend(garbage) => garbage' \in Budget
         /\ Spend(crashes) => crashes' \in Budget /\ crashes'.used = crashes.used + 1
  BY DEF TypeInv, Fault, Spend, FaultBudget, Budget

(* The types at the start.                                                 *)
LEMMA TypeInit == Init => TypeInv
  <1> SUFFICES ASSUME Init PROVE TypeInv
    OBVIOUS
  <1> USE ConstantsOK
  <1>1. /\ topic \in [Partitions -> Seq({"request", "garbage"})] /\ given \in [Partitions -> Seq(Nat)]
        /\ producer \in [Producers -> ProducerPc]
    BY DEF Init, Started, ProducerPc
  <1>2. reader \in [Partitions -> ReaderType]
    BY DEF Init, Closed, NoReader, ReaderType, KindsRead
  <1>3. recvChan \in Seq([p : Partitions, o : Nat, kind : KindsRead]) /\ Len(recvChan) <= ChanCap
    BY DEF Init
  <1>4. faults \in FaultBudget /\ garbage \in Budget /\ crashes \in Budget
    BY DEF Init, AtMost, FaultBudget, Budget
  <1>5. \A p \in Partitions : reader[p].pc \in {"store", "push"} => reader[p].next > 0
    BY DEF Init, Closed, NoReader
  <1> QED
    BY <1>1, <1>2, <1>3, <1>4, <1>5 DEF TypeInv, TypeOK, Init, ReaderType, KindsRead, BeforeConsume,
       ProducerPc

(* NewConsumer.                                                            *)
LEMMA SetupTypes ==
  ASSUME TypeInv, SetupStep
  PROVE  TypeInv'
  <1> USE ConstantsOK
  <1>1. CASE NewConsumerExists
    <2>1. [i \in 1 .. NParts |-> -1] \in Seq(Int) /\ Len([i \in 1 .. NParts |-> -1]) = NParts
      OBVIOUS
    <2>2. offsets' \in Seq(Int) /\ \A i \in 1 .. Len(offsets') : offsets'[i] >= -1
      BY <1>1, <2>1 DEF NewConsumerExists, TypeInv, TypeOK
    <2>3. faults' \in FaultBudget
      BY <1>1, Spending DEF NewConsumerExists, NoFault, TypeInv
    <2> QED
      BY <1>1, <2>2, <2>3 DEF NewConsumerExists, SetupRest, readVars, webVars, sendVars, TypeInv,
         TypeOK, BeforeConsume
  <1>2. CASE NewConsumerGet
    <2>1. faults' \in FaultBudget
      BY <1>2, Spending DEF NewConsumerGet, NoFault, TypeInv
    <2> QED
      BY <1>2, <2>1 DEF NewConsumerGet, SetupRest, readVars, webVars, sendVars, TypeInv, TypeOK,
         BeforeConsume
  <1>3. CASE CreateListExists
    <2>1. faults' \in FaultBudget
      BY <1>3, Spending DEF CreateListExists, NoFault, TypeInv
    <2> QED
      BY <1>3, <2>1 DEF CreateListExists, SetupRest, readVars, webVars, sendVars, TypeInv, TypeOK,
         BeforeConsume
  <1>4. CASE CreateListDelete
    <2>1. faults' \in FaultBudget
      BY <1>4, Spending DEF CreateListDelete, NoFault, TypeInv
    <2>2. list' \in Seq(Int) /\ \A i \in 1 .. Len(list') : list'[i] >= -1
      <3>1. list' = list \/ list' = <<>>
        BY <1>4 DEF CreateListDelete
      <3>2. list \in Seq(Int) /\ \A i \in 1 .. Len(list) : list[i] >= -1
        BY DEF TypeInv, TypeOK
      <3>3. CASE list' = <<>>
        BY <3>3
      <3> QED
        BY <3>1, <3>2, <3>3
    <2> QED
      BY <1>4, <2>1, <2>2 DEF CreateListDelete, SetupRest, readVars, webVars, sendVars, TypeInv,
         TypeOK, BeforeConsume
  <1>5. CASE CreateListPush
    <2>1. faults' \in FaultBudget
      BY <1>5, Spending DEF CreateListPush, NoFault, TypeInv
    <2>2. Append(list, -1) \in Seq(Int) /\ \A i \in 1 .. Len(Append(list, -1)) : Append(list, -1)[i] >= -1
      <3>1. list \in Seq(Int) /\ -1 \in Int /\ \A i \in 1 .. Len(list) : list[i] >= -1
        BY DEF TypeInv, TypeOK
      <3> QED
        BY <3>1, AppendAt
    <2>3. list' \in Seq(Int) /\ \A i \in 1 .. Len(list') : list'[i] >= -1
      BY <1>5, <2>2 DEF CreateListPush, TypeInv, TypeOK
    <2>4. /\ pushed' \in 0 .. NParts /\ setup' \in {"push", "consume", "returned"}
          /\ setup' \in BeforeConsume => pushed' < NParts
      BY <1>5 DEF CreateListPush, TypeInv, TypeOK, BeforeConsume
    <2> QED
      BY <1>5, <2>1, <2>3, <2>4 DEF CreateListPush, SetupRest, readVars, webVars, sendVars,
         TypeInv, TypeOK
  <1>6. CASE Consume
    <2>1. faults' \in FaultBudget
      BY <1>6, Spending DEF Consume, NoFault, TypeInv
    <2>2. reader' \in [Partitions -> ReaderType] /\ \A p \in Partitions : reader'[p].pc \notin {"store", "push"} \/ reader'[p].next > 0
      <3>1. CASE UNCHANGED reader
        BY <3>1 DEF TypeInv, TypeOK, ReaderType, KindsRead
      <3>2. CASE /\ Len(offsets) >= NParts
                 /\ reader' = [p \in Partitions |-> [pc |-> "read", next |-> StartOffset(p), kind |-> "nil"]]
        <4>1. \A p \in Partitions : StartOffset(p) \in Nat
          <5> SUFFICES ASSUME NEW p \in Partitions PROVE StartOffset(p) \in Nat
            OBVIOUS
          <5>1. offsets \in Seq(Int) /\ \A i \in 1 .. Len(offsets) : offsets[i] >= -1
            BY DEF TypeInv, TypeOK
          <5>2. p + 1 \in 1 .. Len(offsets)
            BY <3>2, <5>1 DEF Partitions
          <5>3. offsets[p + 1] \in Int /\ offsets[p + 1] >= -1
            BY <5>1, <5>2
          <5> QED
            BY <5>3 DEF StartOffset
        <4> QED
          BY <3>2, <4>1 DEF ReaderType, KindsRead
      <3> QED
        BY <1>6, <3>1, <3>2 DEF Consume
    <2> QED
      BY <1>6, <2>1, <2>2 DEF Consume, webVars, sendVars, TypeInv, TypeOK, BeforeConsume,
         ReaderType, KindsRead
  <1> QED
    BY <1>1, <1>2, <1>3, <1>4, <1>5, <1>6 DEF SetupStep

(* The goroutines of the partitions.                                       *)
LEMMA ReaderTypes ==
  ASSUME TypeInv, NEW p \in Partitions, Reads(p)
  PROVE  TypeInv'
  <1> USE ConstantsOK
  <1> DEFINE Q == reader[p]
  <1>0. /\ reader \in [Partitions -> ReaderType] /\ Q \in ReaderType /\ p \in Nat
        /\ \A q \in Partitions : reader[q].pc \in {"store", "push"} => reader[q].next > 0
    BY DEF TypeInv, TypeOK, ReaderType, KindsRead, Partitions
  <1>1. CASE ReadMessage(p)
    <2> DEFINE x == [pc |-> "store", next |-> Q.next + 1, kind |-> topic[p][Q.next + 1]]
    <2>1. reader' = [reader EXCEPT ![p] = x]
      BY <1>1 DEF ReadMessage
    <2>2. x \in ReaderType /\ x.next > 0
      <3>1. topic[p] \in Seq({"request", "garbage"}) /\ Q.next \in Nat /\ Q.next < Len(topic[p])
        BY <1>0, <1>1 DEF ReadMessage, TypeInv, TypeOK, ReaderType
      <3>2. topic[p][Q.next + 1] \in {"request", "garbage"}
        BY <3>1
      <3> QED
        BY <3>1, <3>2 DEF ReaderType, KindsRead
    <2> HIDE DEF x
    <2>3. reader' \in [Partitions -> ReaderType] /\ \A q \in Partitions : reader'[q].pc \in {"store", "push"} => reader'[q].next > 0
      BY <1>0, <2>1, <2>2, ReaderSet
    <2> QED
      BY <1>1, <2>3 DEF ReadMessage, ReaderRest, setupVars, webVars, sendVars, TypeInv, TypeOK,
         ReaderType, KindsRead
  <1>2. CASE StoreOffset(p)
    <2>1. Q.pc = "store" /\ Q.next \in Nat /\ Q.next > 0
      BY <1>0, <1>2 DEF StoreOffset, ReaderType
    <2>2. list' \in Seq(Int) /\ \A i \in 1 .. Len(list') : list'[i] >= -1
      <3>1. /\ list \in Seq(Int) /\ (\A i \in 1 .. Len(list) : list[i] >= -1)
            /\ p + 1 \in Nat /\ Q.next - 1 \in Int /\ Q.next - 1 >= -1
        BY <1>0, <2>1 DEF TypeInv, TypeOK
      <3>2. CASE Stores(p)
        BY <3>1, <3>2, ReplaceAt DEF Stores
      <3>3. CASE UNCHANGED list
        BY <3>1, <3>3
      <3> QED
        BY <1>2, <3>2, <3>3 DEF StoreOffset
    <2>3. \E x \in ReaderType : x.next = Q.next /\ reader' = [reader EXCEPT ![p] = x]
      <3>1. [Q EXCEPT !.pc = "push"] \in ReaderType /\ [Q EXCEPT !.pc = "push"].next = Q.next
        BY <1>0 DEF ReaderType
      <3>2. [Q EXCEPT !.pc = "push", !.kind = "nil"] \in ReaderType /\ [Q EXCEPT !.pc = "push", !.kind = "nil"].next = Q.next
        BY <1>0 DEF ReaderType, KindsRead
      <3>3. \/ reader' = [reader EXCEPT ![p] = [Q EXCEPT !.pc = "push"]]
            \/ reader' = [reader EXCEPT ![p] = [Q EXCEPT !.pc = "push", !.kind = "nil"]]
        BY <1>2 DEF StoreOffset
      <3> QED
        BY <3>1, <3>2, <3>3
    <2>4. reader' \in [Partitions -> ReaderType] /\ \A q \in Partitions : reader'[q].pc \in {"store", "push"} => reader'[q].next > 0
      BY <1>0, <2>1, <2>3, ReaderSet
    <2>5. faults' \in FaultBudget
      BY <1>2, Spending DEF StoreOffset, NoFault, TypeInv
    <2> QED
      BY <1>2, <2>2, <2>4, <2>5 DEF StoreOffset, ReaderRest, setupVars, webVars, sendVars, TypeInv,
         TypeOK, ReaderType, KindsRead
  <1>3. CASE PushMessage(p)
    <2> DEFINE x == [Q EXCEPT !.pc = "read"]
               m == Message(p, Q.next - 1, Q.kind)
    <2>1. reader' = [reader EXCEPT ![p] = x]
      BY <1>3 DEF PushMessage
    <2>2. x \in ReaderType /\ x.pc = "read"
      BY <1>0 DEF ReaderType
    <2> HIDE DEF x
    <2>3. reader' \in [Partitions -> ReaderType] /\ \A q \in Partitions : reader'[q].pc \in {"store", "push"} => reader'[q].next > 0
      BY <1>0, <2>1, <2>2, ReaderSet
    <2>4. m \in MessageType
      BY <1>0, <1>3 DEF PushMessage, Message, MessageType, ReaderType
    <2>5. recvChan' \in Seq(MessageType) /\ Len(recvChan') <= ChanCap
      <3> HIDE DEF m
      <3>1. recvChan \in Seq(MessageType) /\ Len(recvChan) < ChanCap
        BY <1>3 DEF PushMessage, TypeInv, TypeOK, MessageType, KindsRead
      <3>2. recvChan' = Append(recvChan, m)
        BY <1>3 DEF PushMessage, m
      <3> QED
        BY <3>1, <3>2, <2>4, AppendAt
    <2> QED
      BY <1>3, <2>3, <2>5 DEF PushMessage, ReaderRest, setupVars, webVars, sendVars, TypeInv,
         TypeOK, ReaderType, MessageType, KindsRead
  <1> QED
    BY <1>1, <1>2, <1>3 DEF Reads

(* The web goroutine and the producers.                                    *)
LEMMA WebTypes ==
  ASSUME TypeInv, Web
  PROVE  TypeInv'
  <1> USE ConstantsOK
  <1>1. CASE WebReceive
    <2>1. recvChan \in Seq(MessageType) /\ recvChan # <<>> /\ recvChan' = Tail(recvChan) /\ Len(recvChan) <= ChanCap
      BY <1>1 DEF WebReceive, TypeInv, TypeOK, MessageType, KindsRead
    <2>2. recvChan' \in Seq(MessageType) /\ Len(recvChan') <= ChanCap /\ Head(recvChan) \in MessageType
      BY <2>1, TailAt
    <2>3. given' \in [Partitions -> Seq(Nat)]
      <3>1. given \in [Partitions -> Seq(Nat)] /\ Head(recvChan).p \in Partitions /\ Head(recvChan).o \in Nat
        BY <2>2 DEF TypeInv, TypeOK, MessageType
      <3>2. Append(given[Head(recvChan).p], Head(recvChan).o) \in Seq(Nat)
        BY <3>1, AppendAt
      <3> QED
        BY <1>1, <3>1, <3>2 DEF WebReceive
    <2> QED
      BY <1>1, <2>2, <2>3 DEF WebReceive, WebRest, setupVars, sendVars, TypeInv, TypeOK,
         MessageType, KindsRead
  <1>2. CASE WebLookup
    BY <1>2 DEF WebLookup, WebRest, setupVars, sendVars, TypeInv, TypeOK
  <1>3. CASE WebReply
    BY <1>3 DEF WebReply, WebRest, setupVars, sendVars, TypeInv, TypeOK
  <1> QED
    BY <1>1, <1>2, <1>3 DEF Web

(* Any producerRoutine.                                                    *)
LEMMA ProducerTypes ==
  ASSUME TypeInv, NEW k \in Producers, Sends(k)
  PROVE  TypeInv'
  <1>1. producer' \in [Producers -> ProducerPc]
    BY DEF Sends, ProducerStart, ProducerTake, ProducerSend, TypeInv, TypeOK, ProducerPc
  <1>2. faults' \in FaultBudget
    BY Spending DEF Sends, ProducerStart, ProducerTake, ProducerSend, NoFault, TypeInv
  <1>3. replies' \in Nat /\ sendChan' \in 0 .. ChanCap
    BY ConstantsOK DEF Sends, ProducerStart, ProducerTake, ProducerSend, TypeInv, TypeOK
  <1> QED
    BY <1>1, <1>2, <1>3 DEF Sends, ProducerStart, ProducerTake, ProducerSend, ProducerPc,
       SendRest, setupVars, readVars,
       TypeInv, TypeOK

(* Kafka, and the end of a process.                                        *)
LEMMA ProduceTypes ==
  ASSUME TypeInv, NEW p \in Partitions, Produce(p)
  PROVE  TypeInv'
  <1>1. topic' \in [Partitions -> Seq({"request", "garbage"})]
    <2>1. topic[p] \in Seq({"request", "garbage"})
      BY DEF TypeInv, TypeOK
    <2>2. Append(topic[p], "request") \in Seq({"request", "garbage"}) /\ Append(topic[p], "garbage") \in Seq({"request", "garbage"})
      BY <2>1, AppendAt
    <2> QED
      BY <2>2 DEF Produce, TypeInv, TypeOK
  <1>2. garbage' \in Budget
    BY Spending DEF Produce, TypeInv
  <1> QED
    BY <1>1, <1>2 DEF Produce, setupVars, readVars, webVars, sendVars, TypeInv, TypeOK

(* A new process.                                                          *)
LEMMA RestartTypes ==
  ASSUME TypeInv, Restart
  PROVE  TypeInv'
  <1>1. /\ reader' \in [Partitions -> ReaderType]
        /\ \A p \in Partitions : reader'[p].pc \notin {"store", "push"}
    BY DEF Restart, Closed, NoReader, ReaderType, KindsRead
  <1>2. producer' \in [Producers -> ProducerPc] /\ recvChan' \in Seq(MessageType) /\ Len(recvChan') = 0
    BY DEF Restart, Started, ProducerPc
  <1>3. crashes' \in Budget
    BY Spending DEF Restart
  <1> QED
    BY <1>1, <1>2, <1>3, ConstantsOK DEF Restart, TypeInv, TypeOK, ReaderType, MessageType,
       KindsRead, BeforeConsume, ProducerPc

(* Every step keeps the types.                                             *)
LEMMA TypeStep == TypeInv /\ [Next]_vars => TypeInv'
  <1> SUFFICES ASSUME TypeInv, [Next]_vars PROVE TypeInv'
    OBVIOUS
  <1>1. CASE UNCHANGED vars
    BY <1>1 DEF vars, setupVars, readVars, webVars, sendVars, TypeInv, TypeOK
  <1> QED
    BY <1>1, SetupTypes, WebTypes, RestartTypes, ReaderTypes, ProduceTypes, ProducerTypes DEF Next

(* The types of the variables (TypeOK).                                    *)
THEOREM TypeCorrect == Spec => []TypeOK
  <1>1. TypeInv => TypeOK
    BY DEF TypeInv
  <1> QED
    BY <1>1, TypeInit, TypeStep, PTL DEF Spec

-----------------------------------------------------------------------------
(* Where the readers and the stored offsets are.                           *)

StoredIn(l, p) == IF Len(l) > p THEN l[p + 1] ELSE -1

(* The list as NewConsumer makes it.                                       *)
ListInv ==
  /\ setup \in BeforeConsume \ {"push"} => pushed = 0
  /\ setup \in {"existsAgain", "delete", "push"} => offsets = [i \in 1 .. NParts |-> -1]
  /\ setup = "push" => Len(list) >= pushed
  /\ setup = "consume" =>
       /\ Len(offsets) >= NParts => Len(list) >= NParts
       /\ \A p \in Partitions : p + 1 <= Len(offsets) => offsets[p + 1] <= StoredIn(list, p)
  /\ setup = "running" => Len(list) >= NParts

(* No offset is beyond the end of its partition.                           *)
InTopic(p) ==
  /\ Len(topic[p]) <= MaxMsg
  /\ StoredIn(list, p) < Len(topic[p])
  /\ reader[p].next <= Len(topic[p])

PlaceInv ==
  /\ setup # "running" => reader = Closed /\ recvChan = <<>>
  /\ \A p \in Partitions : InTopic(p)
  /\ \A i \in 1 .. Len(recvChan) : recvChan[i].o < Len(topic[recvChan[i].p])

(* An offset or -1.                                                        *)
LEMMA StoredType ==
  ASSUME TypeInv, NEW p \in Partitions
  PROVE  StoredIn(list, p) \in Int /\ StoredIn(list, p) >= -1 /\ Stored(p) = StoredIn(list, p)
  BY DEF TypeInv, TypeOK, StoredIn, Stored, Partitions

(* A pushed -1 is the same as no element.                                  *)
LEMMA StoredAppend ==
  ASSUME NEW l \in Seq(Int), NEW p \in Nat
  PROVE  StoredIn(Append(l, -1), p) = StoredIn(l, p)
  <1>1. /\ Len(Append(l, -1)) = Len(l) + 1 /\ Append(l, -1)[Len(l) + 1] = -1
        /\ \A i \in 1 .. Len(l) : Append(l, -1)[i] = l[i]
    BY AppendAt
  <1>2. CASE Len(l) > p
    BY <1>1, <1>2 DEF StoredIn
  <1>3. CASE Len(l) = p
    BY <1>1, <1>3 DEF StoredIn
  <1>4. CASE Len(l) < p
    BY <1>1, <1>4 DEF StoredIn
  <1> QED
    BY <1>2, <1>3, <1>4

(* LSET of an element that may not be there.                               *)
LEMMA StoredReplace ==
  ASSUME NEW l \in Seq(Int), NEW k \in Nat, NEW v \in Int, NEW p \in Nat
  PROVE  StoredIn([l EXCEPT ![k + 1] = v], p) =
           IF p = k /\ Len(l) > k THEN v ELSE StoredIn(l, p)
  <1>1. /\ Len([l EXCEPT ![k + 1] = v]) = Len(l)
        /\ \A i \in 1 .. Len(l) : [l EXCEPT ![k + 1] = v][i] = IF i = k + 1 THEN v ELSE l[i]
    BY ReplaceAt
  <1>2. CASE Len(l) > p
    BY <1>1, <1>2 DEF StoredIn
  <1>3. CASE Len(l) <= p
    BY <1>1, <1>3 DEF StoredIn
  <1> QED
    BY <1>2, <1>3

(* Before the consumers run an offset is stored only to be forgotten.      *)
LEMMA SetupStored ==
  ASSUME TypeInv, SetupStep, NEW p \in Partitions
  PROVE  StoredIn(list', p) <= StoredIn(list, p)
  <1>1. list \in Seq(Int) /\ p \in Nat
    BY DEF TypeInv, TypeOK, Partitions
  <1>2. list' = list \/ list' = <<>> \/ list' = Append(list, -1)
    BY DEF SetupStep, NewConsumerExists, NewConsumerGet, CreateListExists, CreateListDelete,
       CreateListPush, Consume
  <1>3. StoredIn(list, p) \in Int /\ StoredIn(list, p) >= -1
    BY StoredType
  <1>4. StoredIn(<<>>, p) = -1
    BY <1>1 DEF StoredIn
  <1>5. StoredIn(Append(list, -1), p) = StoredIn(list, p)
    BY <1>1, StoredAppend
  <1>6. CASE list' = <<>>
    BY <1>3, <1>4, <1>6
  <1>7. CASE list' = Append(list, -1)
    BY <1>3, <1>5, <1>7
  <1>8. CASE list' = list
    BY <1>3, <1>8
  <1> QED
    BY <1>2, <1>6, <1>7, <1>8

(* Read stores the offset of the message it holds, or nothing.             *)
LEMMA ReaderStored ==
  ASSUME TypeInv, NEW p \in Partitions, Reads(p), NEW q \in Partitions
  PROVE  \/ StoredIn(list', q) = StoredIn(list, q)
         \/ /\ q = p /\ reader[p].pc = "store" /\ StoredIn(list', p) = reader[p].next - 1
  <1>0. reader[p].next \in Nat
    BY DEF TypeInv, TypeOK
  <1>1. list \in Seq(Int) /\ p \in Nat /\ q \in Nat /\ reader[p].next - 1 \in Int
    BY <1>0 DEF TypeInv, TypeOK, Partitions
  <1>2. CASE list' = list
    BY <1>2
  <1>3. CASE reader[p].pc = "store" /\ list' = [list EXCEPT ![p + 1] = reader[p].next - 1]
    BY <1>1, <1>3, StoredReplace
  <1> QED
    BY <1>2, <1>3 DEF Reads, ReadMessage, StoreOffset, PushMessage, Stores

(* Every step keeps ListInv.                                               *)
LEMMA ListInit == Init => ListInv
  BY ConstantsOK DEF Init, ListInv, BeforeConsume

LEMMA ListStep == TypeInv /\ PlaceInv /\ ListInv /\ [Next]_vars => ListInv'
  <1> SUFFICES ASSUME TypeInv, PlaceInv, ListInv, [Next]_vars PROVE ListInv'
    OBVIOUS
  <1> USE ConstantsOK
  <1>0. list \in Seq(Int) /\ offsets \in Seq(Int) /\ pushed \in Nat
    BY DEF TypeInv, TypeOK
  <1>1. CASE NewConsumerExists
    BY <1>1 DEF NewConsumerExists, ListInv, BeforeConsume
  <1>2. CASE NewConsumerGet
    <2>1. CASE offsets' = list /\ setup' = "consume"
      <3>1. \A p \in Partitions : p + 1 <= Len(list) => list[p + 1] <= StoredIn(list, p)
        BY <1>0 DEF StoredIn, Partitions
      <3> QED
        BY <1>2, <2>1, <3>1 DEF NewConsumerGet, ListInv, BeforeConsume
    <2>2. CASE setup' = "returned"
      BY <1>2, <2>2 DEF NewConsumerGet, ListInv, BeforeConsume
    <2> QED
      BY <1>2, <2>1, <2>2 DEF NewConsumerGet
  <1>3. CASE CreateListExists
    BY <1>0, <1>3 DEF CreateListExists, ListInv, BeforeConsume
  <1>4. CASE CreateListDelete
    BY <1>0, <1>4 DEF CreateListDelete, ListInv, BeforeConsume
  <1>5. CASE CreateListPush
    <2>1. CASE /\ list' = Append(list, -1) /\ pushed' = pushed + 1
               /\ setup' = IF pushed' = NParts THEN "consume" ELSE "push"
      <3>1. Len(list') >= pushed' /\ offsets' = [i \in 1 .. NParts |-> -1] /\ Len(list') \in Nat
        BY <1>0, <1>5, <2>1, AppendAt DEF CreateListPush, ListInv
      <3>2. \A p \in Partitions : offsets'[p + 1] <= StoredIn(list', p)
        <4> TAKE p \in Partitions
        <4>1. StoredIn(list', p) = StoredIn(list, p) /\ StoredIn(list, p) >= -1
          BY <1>0, <2>1, StoredAppend, StoredType DEF Partitions
        <4>2. offsets'[p + 1] = -1
          BY <3>1 DEF Partitions
        <4> QED
          BY <4>1, <4>2
      <3> QED
        BY <1>5, <2>1, <3>1, <3>2 DEF ListInv, BeforeConsume
    <2>2. CASE setup' = "returned"
      BY <2>2 DEF ListInv, BeforeConsume
    <2> QED
      BY <1>5, <2>1, <2>2 DEF CreateListPush
  <1>6. CASE Consume
    BY <1>6 DEF Consume, ListInv, BeforeConsume
  <1>7. ASSUME NEW p \in Partitions, Reads(p) PROVE ListInv'
    <2>1. Len(list') = Len(list)
      <3>1. reader[p].next \in Nat
        BY DEF TypeInv, TypeOK
      <3>2. p + 1 \in Nat /\ reader[p].next - 1 \in Int
        BY <3>1 DEF Partitions
      <3>3. Len([list EXCEPT ![p + 1] = reader[p].next - 1]) = Len(list)
        BY <1>0, <3>2, ReplaceAt
      <3> QED
        BY <1>7, <3>3 DEF Reads, ReadMessage, StoreOffset, PushMessage, Stores
    <2>2. setup = "running"
      BY <1>7 DEF PlaceInv, Closed, NoReader, Reads, ReadMessage, StoreOffset, PushMessage
    <2>3. UNCHANGED <<setup, offsets, pushed>>
      BY <1>7 DEF Reads, ReadMessage, StoreOffset, PushMessage, ReaderRest, setupVars
    <2> QED
      BY <2>1, <2>2, <2>3 DEF ListInv, BeforeConsume
  <1>8. CASE Restart
    BY <1>8 DEF Restart, ListInv, BeforeConsume
  <1>9. CASE \/ Web \/ (\E k \in Producers : Sends(k)) \/ (\E p \in Partitions : Produce(p)) \/ UNCHANGED vars
    <2>1. UNCHANGED <<list, setup, offsets, pushed>>
      BY <1>9 DEF Web, WebReceive, WebLookup, WebReply, WebRest, Sends, ProducerStart, ProducerTake, ProducerSend, SendRest,
         Produce, setupVars, vars
    <2> QED
      BY <2>1 DEF ListInv
  <1> QED
    BY <1>1, <1>2, <1>3, <1>4, <1>5, <1>6, <1>7, <1>8, <1>9 DEF Next, SetupStep

(* What the goroutine of a partition does to its record: it takes a        *)
(* message, stores the offset, pushes the message.                         *)
Takes(p) ==
  /\ reader[p].pc = "read" /\ reader'[p].pc = "store" /\ reader'[p].next = reader[p].next + 1
  /\ reader[p].next < Len(topic[p]) /\ reader'[p].kind # "nil" /\ UNCHANGED <<list, recvChan, faults>>
StoresIt(p) ==
  /\ reader[p].pc = "store" /\ reader'[p].pc = "push" /\ reader'[p].next = reader[p].next
  /\ reader'[p].kind = reader[p].kind /\ Stores(p) /\ UNCHANGED <<recvChan, faults>>
Fails(p) ==
  /\ reader[p].pc = "store" /\ reader'[p].pc = "push" /\ reader'[p].next = reader[p].next
  /\ reader'[p].kind = "nil" /\ (Stores(p) \/ UNCHANGED list) /\ Fault("read") /\ UNCHANGED recvChan
Pushes(p) ==
  /\ reader[p].pc = "push" /\ reader'[p].pc = "read" /\ reader'[p].next = reader[p].next
  /\ recvChan' = Append(recvChan, Message(p, reader[p].next - 1, reader[p].kind))
  /\ UNCHANGED <<list, faults>>

(* These are all its steps.                                                *)
LEMMA ReaderMoves ==
  ASSUME TypeInv, NEW p \in Partitions, Reads(p)
  PROVE  /\ Takes(p) \/ StoresIt(p) \/ Fails(p) \/ Pushes(p)
         /\ \A q \in Partitions : q # p => reader'[q] = reader[q]
         /\ UNCHANGED <<topic, setup, offsets, pushed, web, sendChan, given, producer, replies, garbage, crashes>>
         /\ setup # "panicked"
  <1>0. reader \in [Partitions -> ReaderType] /\ reader[p] \in ReaderType
    BY DEF TypeInv, TypeOK, ReaderType, KindsRead
  <1>1. CASE ReadMessage(p)
    <2>1. topic[p] \in Seq({"request", "garbage"}) /\ reader[p].next \in Nat /\ reader[p].next < Len(topic[p])
      BY <1>0, <1>1 DEF ReadMessage, TypeInv, TypeOK, ReaderType
    <2>2. topic[p][reader[p].next + 1] \in {"request", "garbage"}
      BY <2>1
    <2> QED
      BY <1>0, <1>1, <2>1, <2>2 DEF ReadMessage, Takes, ReaderType, ReaderRest, setupVars, webVars,
         sendVars
  <1>2. CASE StoreOffset(p)
    <2>1. CASE NoFault /\ Stores(p) /\ reader' = [reader EXCEPT ![p].pc = "push"]
      BY <1>0, <1>2, <2>1 DEF NoFault, StoreOffset, StoresIt, ReaderType, ReaderRest, setupVars,
         webVars, sendVars
    <2>2. CASE /\ Fault("read") /\ (Stores(p) \/ UNCHANGED list)
               /\ reader' = [reader EXCEPT ![p].pc = "push", ![p].kind = "nil"]
      BY <1>0, <1>2, <2>2 DEF StoreOffset, Fails, ReaderType, ReaderRest, setupVars, webVars,
         sendVars
    <2> QED
      BY <1>2, <2>1, <2>2 DEF StoreOffset
  <1>3. CASE PushMessage(p)
    BY <1>0, <1>3 DEF PushMessage, Pushes, ReaderType, ReaderRest, setupVars, webVars, sendVars
  <1> QED
    BY <1>1, <1>2, <1>3 DEF Reads

(* Every step keeps PlaceInv.                                              *)
LEMMA PlaceInit == Init => PlaceInv
  <1> SUFFICES ASSUME Init PROVE PlaceInv
    OBVIOUS
  <1>1. \A p \in Partitions : Len(topic[p]) = 0 /\ StoredIn(list, p) = -1 /\ reader[p].next = 0
    BY ConstantsOK DEF Init, StoredIn, Partitions, Closed, NoReader
  <1> QED
    BY <1>1, ConstantsOK DEF Init, PlaceInv, InTopic

(* The offset the consumer of a partition starts from.                     *)
LEMMA Starting ==
  ASSUME TypeInv, PlaceInv, ListInv, Consume, NEW p \in Partitions
  PROVE  \/ UNCHANGED reader /\ setup' # "running"
         \/ /\ setup' = "running" /\ p + 1 \in 1 .. Len(offsets) /\ offsets[p + 1] \in Int
            /\ reader'[p].pc = "read" /\ reader'[p].next = offsets[p + 1] + 1
            /\ offsets[p + 1] <= StoredIn(list, p)
  <1>1. CASE UNCHANGED reader /\ setup' # "running"
    BY <1>1
  <1>2. CASE /\ Len(offsets) >= NParts /\ setup' = "running"
             /\ reader' = [q \in Partitions |-> [pc |-> "read", next |-> StartOffset(q), kind |-> "nil"]]
    <2>1. offsets \in Seq(Int) /\ p \in Nat /\ p + 1 \in 1 .. Len(offsets)
      BY <1>2, ConstantsOK DEF TypeInv, TypeOK, Partitions
    <2>2. offsets[p + 1] <= StoredIn(list, p)
      BY <2>1 DEF Consume, ListInv
    <2> QED
      BY <1>2, <2>1, <2>2 DEF StartOffset
  <1> QED
    BY <1>1, <1>2 DEF Consume

LEMMA PlaceStep == TypeInv /\ PlaceInv /\ ListInv /\ [Next]_vars => PlaceInv'
  <1> SUFFICES ASSUME TypeInv, PlaceInv, ListInv, [Next]_vars PROVE PlaceInv'
    OBVIOUS
  <1> USE ConstantsOK
  <1>0. /\ topic \in [Partitions -> Seq({"request", "garbage"})]
        /\ recvChan \in Seq(MessageType)
        /\ \A p \in Partitions : /\ Len(topic[p]) \in Nat /\ StoredIn(list, p) \in Int
                                 /\ reader[p].next \in Nat /\ InTopic(p)
    <2>1. topic \in [Partitions -> Seq({"request", "garbage"})] /\ recvChan \in Seq(MessageType)
      BY DEF TypeInv, TypeOK, MessageType, KindsRead
    <2>2. \A p \in Partitions : reader[p].next \in Nat
      BY DEF TypeInv, TypeOK
    <2>3. \A p \in Partitions : StoredIn(list, p) \in Int
      BY StoredType DEF TypeInv, TypeOK
    <2>4. \A p \in Partitions : InTopic(p)
      BY DEF PlaceInv
    <2> QED
      BY <2>1, <2>2, <2>3, <2>4
  <1>1. CASE SetupStep
    <2>1. UNCHANGED <<topic, recvChan>>
      BY <1>1 DEF SetupStep, NewConsumerExists, NewConsumerGet, CreateListExists, CreateListDelete,
                  CreateListPush, Consume, SetupRest, readVars
    <2>2. \A p \in Partitions : StoredIn(list', p) \in Int /\ StoredIn(list', p) <= StoredIn(list, p)
      <3>1. \A p \in Partitions : StoredIn(list', p) <= StoredIn(list, p)
        BY <1>1, SetupStored
      <3>2. list' \in Seq(Int)
        BY <1>1, SetupTypes DEF TypeInv, TypeOK
      <3>3. \A p \in Partitions : StoredIn(list', p) \in Int
        BY <3>2 DEF StoredIn, Partitions
      <3> QED
        BY <3>1, <3>3
    <2>3. CASE Consume
      <3>1. \A p \in Partitions : reader'[p].next <= Len(topic[p])
        <4> TAKE p \in Partitions
        <4>1. InTopic(p) /\ StoredIn(list, p) \in Int /\ Len(topic[p]) \in Nat
          BY <1>0
        <4>2. CASE UNCHANGED reader
          BY <4>1, <4>2 DEF InTopic
        <4>3. CASE /\ offsets[p + 1] \in Int /\ reader'[p].next = offsets[p + 1] + 1
                   /\ offsets[p + 1] <= StoredIn(list, p)
          BY <4>1, <4>3 DEF InTopic
        <4> QED
          BY <2>3, <4>2, <4>3, Starting
      <3>2. setup' # "running" => UNCHANGED reader
        BY <2>3 DEF Consume
      <3>3. setup # "running" /\ list' = list
        BY <2>3 DEF Consume
      <3> QED
        BY <1>0, <2>1, <3>1, <3>2, <3>3 DEF PlaceInv, InTopic
    <2>4. CASE ~Consume
      <3>1. UNCHANGED reader /\ setup # "running" /\ setup' # "running"
        BY <1>1, <2>4 DEF SetupStep, NewConsumerExists, NewConsumerGet, CreateListExists,
           CreateListDelete,
                  CreateListPush, SetupRest, readVars
      <3> QED
        BY <1>0, <2>1, <2>2, <3>1 DEF PlaceInv, InTopic
    <2> QED
      BY <2>3, <2>4
  <1>2. ASSUME NEW p \in Partitions, Reads(p) PROVE PlaceInv'
    <2>1. setup = "running"
      BY <1>2 DEF PlaceInv, Closed, NoReader, Reads, ReadMessage, StoreOffset, PushMessage
    <2>2. ASSUME NEW q \in Partitions PROVE InTopic(q)'
      <3>1. StoredIn(list', q) < Len(topic[q])
        <4>1. CASE StoredIn(list', q) = StoredIn(list, q)
          BY <1>0, <4>1 DEF InTopic
        <4>2. CASE q = p /\ StoredIn(list', p) = reader[p].next - 1
          BY <1>0, <4>2 DEF InTopic
        <4> QED
          BY <1>2, <4>1, <4>2, ReaderStored
      <3>2. reader'[q].next <= Len(topic[q])
        BY <1>0, <1>2, ReaderMoves DEF InTopic, Takes, StoresIt, Fails, Pushes
      <3> QED
        BY <1>0, <1>2, <3>1, <3>2, ReaderMoves DEF InTopic
    <2>3. \A i \in 1 .. Len(recvChan') : recvChan'[i].o < Len(topic[recvChan'[i].p])
      <3>1. CASE recvChan' = recvChan
        BY <3>1 DEF PlaceInv
      <3>2. CASE Pushes(p)
        <4> DEFINE m == Message(p, reader[p].next - 1, reader[p].kind)
        <4>1. m \in MessageType /\ m.p = p /\ m.o < Len(topic[p])
          <5>1. reader[p].next > 0 /\ reader[p].next \in Nat /\ reader[p].kind \in KindsRead
            BY <3>2 DEF Pushes, TypeInv, TypeOK, KindsRead
          <5> QED
            BY <1>0, <5>1 DEF Message, MessageType, InTopic
        <4> HIDE DEF m
        <4>2. recvChan' = Append(recvChan, m)
          BY <3>2 DEF Pushes, m
        <4>3. \A i \in 1 .. Len(recvChan) : recvChan[i].o < Len(topic[recvChan[i].p])
          BY DEF PlaceInv
        <4> QED
          BY <1>0, <4>1, <4>2, <4>3, AppendAt
      <3> QED
        BY <1>2, <3>1, <3>2, ReaderMoves DEF Takes, StoresIt, Fails
    <2> QED
      BY <1>2, <2>1, <2>2, <2>3, ReaderMoves DEF PlaceInv
  <1>3. CASE Web
    <2>0. /\ WebRest
          /\ recvChan' = recvChan \/ (recvChan # <<>> /\ recvChan' = Tail(recvChan))
      <3>1. CASE WebReceive
        BY <3>1 DEF WebReceive
      <3>2. CASE WebLookup
        BY <3>2 DEF WebLookup
      <3>3. CASE WebReply
        BY <3>3 DEF WebReply
      <3> QED
        BY <1>3, <3>1, <3>2, <3>3 DEF Web
    <2>1. UNCHANGED <<topic, list, setup, reader>>
      BY <2>0 DEF WebRest, setupVars
    <2>2. recvChan' = recvChan \/ (recvChan # <<>> /\ recvChan' = Tail(recvChan))
      BY <2>0
    <2>3. \A i \in 1 .. Len(recvChan') : \E j \in 1 .. Len(recvChan) : recvChan'[i] = recvChan[j]
      <3>1. recvChan \in Seq(MessageType)
        BY <1>0
      <3>2. CASE recvChan' = recvChan
        BY <3>2
      <3>3. CASE recvChan # <<>> /\ recvChan' = Tail(recvChan)
        <4>1. \A i \in 1 .. Len(Tail(recvChan)) : Tail(recvChan)[i] = recvChan[i + 1] /\ i + 1 \in 1 .. Len(recvChan)
          BY <3>1, <3>3, TailAt
        <4> QED
          BY <3>3, <4>1
      <3> QED
        BY <2>2, <3>2, <3>3
    <2>4. setup # "running" => recvChan' = <<>>
      BY <2>2 DEF PlaceInv
    <2> QED
      BY <2>1, <2>3, <2>4 DEF PlaceInv, InTopic
  <1>4. ASSUME NEW p \in Partitions, Produce(p) PROVE PlaceInv'
    <2>1. \E e \in {"request", "garbage"} : topic' = [topic EXCEPT ![p] = Append(topic[p], e)]
      BY <1>4 DEF Produce
    <2>2. /\ Len(topic'[p]) = Len(topic[p]) + 1
          /\ \A q \in Partitions : q # p => topic'[q] = topic[q]
      BY <1>0, <2>1, AppendAt
    <2>3. Len(topic[p]) < MaxMsg /\ UNCHANGED <<list, setup, reader, recvChan>>
      BY <1>4 DEF Produce, setupVars, readVars
    <2>4. \A i \in 1 .. Len(recvChan) : recvChan[i] \in MessageType /\ recvChan[i].o < Len(topic[recvChan[i].p])
      BY <1>0 DEF PlaceInv
    <2>5. \A i \in 1 .. Len(recvChan) : recvChan[i].o < Len(topic'[recvChan[i].p])
      <3> TAKE i \in 1 .. Len(recvChan)
      <3> DEFINE q == recvChan[i].p
      <3>1. q \in Partitions /\ recvChan[i].o \in Nat /\ recvChan[i].o < Len(topic[q])
        BY <2>4 DEF MessageType
      <3>2. Len(topic[q]) \in Nat /\ Len(topic'[q]) \in {Len(topic[q]), Len(topic[q]) + 1}
        BY <1>0, <2>2, <3>1
      <3> QED
        BY <3>1, <3>2
    <2> QED
      BY <1>0, <2>2, <2>3, <2>5 DEF PlaceInv, InTopic
  <1>5. CASE Restart
    <2>1. UNCHANGED <<topic, list>> /\ reader' = Closed /\ recvChan' = <<>> /\ setup' # "running"
      BY <1>5 DEF Restart
    <2>2. \A p \in Partitions : reader'[p].next = 0
      BY <2>1 DEF Closed, NoReader
    <2> QED
      BY <1>0, <2>1, <2>2 DEF PlaceInv, InTopic
  <1>6. CASE (\E k \in Producers : Sends(k)) \/ UNCHANGED vars
    <2>1. UNCHANGED <<topic, list, setup, reader, recvChan>>
      BY <1>6 DEF Sends, ProducerStart, ProducerTake, ProducerSend, SendRest, setupVars, readVars, vars
    <2> QED
      BY <2>1 DEF PlaceInv, InTopic
  <1> QED
    BY <1>1, <1>2, <1>3, <1>4, <1>5, <1>6 DEF Next

-----------------------------------------------------------------------------
(* The order of what the web goroutine is given. It holds as long as       *)
(* NewConsumer meets no error.                                             *)

Increasing(s) == \A i, j \in 1 .. Len(s) : i < j => s[i] < s[j]
UpTo(s, n)    == \A i \in 1 .. Len(s) : s[i] <= n

(* Of the messages of p in the channel q: they are in order, behind those  *)
(* of s; those that are not nil are stored, up to n; all are before n.     *)
Ordered(q, p)   == \A i, j \in 1 .. Len(q) : i < j /\ q[i].p = p /\ q[j].p = p => q[i].o < q[j].o
Behind(q, p, s) == \A i \in 1 .. Len(q) : q[i].p = p => \A j \in 1 .. Len(s) : s[j] < q[i].o
Kept(q, p, n)   == \A i \in 1 .. Len(q) : q[i].p = p /\ q[i].kind # "nil" => q[i].o <= n
Before(q, p, n) == \A i \in 1 .. Len(q) : q[i].p = p => q[i].o < n

(* The offset of the next message that the goroutine of p will push.       *)
Front(r) == IF r.pc \in {"store", "push"} THEN r.next - 1 ELSE r.next

InHand(r, n) ==
  /\ n < r.next
  /\ r.pc = "store" => n < r.next - 1
  /\ r.pc = "push" /\ r.kind # "nil" => r.next - 1 <= n

(* One partition: what was given is stored, the channel follows it, and    *)
(* the reader follows the channel.                                         *)
OrderedIn(p) ==
  /\ Increasing(given[p]) /\ UpTo(given[p], StoredIn(list, p))
  /\ Ordered(recvChan, p) /\ Behind(recvChan, p, given[p])
  /\ Kept(recvChan, p, StoredIn(list, p))
  /\ setup = "running" =>
       /\ Before(recvChan, p, Front(reader[p])) /\ UpTo(given[p], Front(reader[p]) - 1)
       /\ InHand(reader[p], StoredIn(list, p))
  /\ setup = "consume" /\ Len(offsets) >= NParts => offsets[p + 1] = StoredIn(list, p)

Unset == \A p \in Partitions : StoredIn(list, p) = -1

OrderInv ==
  "setup" \notin faults.at =>
    /\ setup # "delete"
    /\ setup = "existsAgain" => list = <<>>
    /\ setup = "push" => Unset
    /\ \A p \in Partitions : OrderedIn(p)

(* A message is given.                                                     *)
LEMMA GivenAppend ==
  ASSUME NEW s \in Seq(Nat), NEW e \in Nat, NEW n \in Int
  PROVE  /\ Increasing(s) /\ UpTo(s, e - 1) => Increasing(Append(s, e))
         /\ UpTo(s, n) /\ e <= n => UpTo(Append(s, e), n)
  <1>1. /\ Append(s, e) \in Seq(Nat)
        /\ \A i \in 1 .. Len(s) : Append(s, e)[i] = s[i] /\ s[i] \in Nat
        /\ Append(s, e)[Len(s) + 1] = e /\ Len(Append(s, e)) = Len(s) + 1 /\ Len(s) \in Nat
        /\ \A i \in 1 .. Len(Append(s, e)) : i \in 1 .. Len(s) \/ i = Len(s) + 1
    BY AppendAt
  <1> DEFINE r == Append(s, e)
  <1> HIDE DEF r
  <1>2. ASSUME Increasing(s), UpTo(s, e - 1) PROVE Increasing(r)
    BY <1>1, <1>2 DEF Increasing, UpTo, r
  <1>3. ASSUME UpTo(s, n), e <= n PROVE UpTo(r, n)
    BY <1>1, <1>3 DEF UpTo, r
  <1> QED
    BY <1>2, <1>3 DEF r

(* A message of k is pushed into the channel.                              *)
LEMMA ChannelAppend ==
  ASSUME NEW q \in Seq(MessageType), NEW m \in MessageType, NEW p \in Partitions
  PROVE  /\ Ordered(q, p) /\ (m.p = p => Before(q, p, m.o)) => Ordered(Append(q, m), p)
         /\ \A s \in Seq(Nat) :
              Behind(q, p, s) /\ (m.p = p => UpTo(s, m.o - 1)) => Behind(Append(q, m), p, s)
         /\ \A n \in Int : Kept(q, p, n) /\ (m.p = p /\ m.kind # "nil" => m.o <= n)
                             => Kept(Append(q, m), p, n)
         /\ \A n \in Int : Before(q, p, n) /\ (m.p = p => m.o < n) => Before(Append(q, m), p, n)
  <1> DEFINE r == Append(q, m)
  <1>1. /\ \A i \in 1 .. Len(q) : r[i] = q[i] /\ q[i] \in MessageType
        /\ r[Len(q) + 1] = m /\ Len(r) = Len(q) + 1 /\ Len(q) \in Nat
        /\ \A i \in 1 .. Len(r) : i \in 1 .. Len(q) \/ i = Len(q) + 1
    BY AppendAt
  <1> HIDE DEF r
  <1>2. \A i \in 1 .. Len(q) : q[i].o \in Nat
    BY <1>1 DEF MessageType
  <1>3. m.o \in Nat
    BY DEF MessageType
  <1>4. ASSUME Ordered(q, p), m.p = p => Before(q, p, m.o) PROVE Ordered(r, p)
    BY <1>1, <1>2, <1>3, <1>4 DEF Ordered, Before
  <1>5. ASSUME NEW s \in Seq(Nat), Behind(q, p, s), m.p = p => UpTo(s, m.o - 1) PROVE Behind(r, p, s)
    <2> SUFFICES ASSUME NEW i \in 1 .. Len(r), r[i].p = p, NEW j \in 1 .. Len(s) PROVE s[j] < r[i].o
      BY DEF Behind
    <2>1. s[j] \in Nat
      OBVIOUS
    <2>2. CASE i \in 1 .. Len(q)
      BY <1>1, <1>5, <2>2 DEF Behind
    <2>3. CASE i = Len(q) + 1
      BY <1>1, <1>3, <1>5, <2>1, <2>3 DEF UpTo
    <2> QED
      BY <1>1, <2>2, <2>3
  <1>6. ASSUME NEW n \in Int, Kept(q, p, n), m.p = p /\ m.kind # "nil" => m.o <= n PROVE Kept(r, p, n)
    BY <1>1, <1>6 DEF Kept
  <1>7. ASSUME NEW n \in Int, Before(q, p, n), m.p = p => m.o < n PROVE Before(r, p, n)
    BY <1>1, <1>7 DEF Before
  <1> QED
    BY <1>4, <1>5, <1>6, <1>7 DEF r

(* The first message of the channel is taken.                              *)
LEMMA ChannelTail ==
  ASSUME NEW q \in Seq(MessageType), q # <<>>, NEW p \in Partitions
  PROVE  /\ Ordered(q, p) => Ordered(Tail(q), p)
         /\ \A s \in Seq(Nat) : Behind(q, p, s) => Behind(Tail(q), p, s)
         /\ \A s \in Seq(Nat) : Behind(q, p, s) /\ Ordered(q, p) /\ Head(q).p = p
                                  => Behind(Tail(q), p, Append(s, Head(q).o)) /\ UpTo(s, Head(q).o - 1)
         /\ \A n \in Int : Kept(q, p, n) =>
              Kept(Tail(q), p, n) /\ (Head(q).p = p /\ Head(q).kind # "nil" => Head(q).o <= n)
         /\ \A n \in Int : Before(q, p, n) =>
              Before(Tail(q), p, n) /\ (Head(q).p = p => Head(q).o < n)
  <1> DEFINE r == Tail(q)
  <1>1. /\ Len(r) = Len(q) - 1 /\ Len(q) \in Nat \ {0} /\ Head(q) = q[1]
        /\ \A i \in 1 .. Len(r) : r[i] = q[i + 1] /\ i + 1 \in 1 .. Len(q)
        /\ 1 \in 1 .. Len(q)
    BY TailAt
  <1>2. \A i \in 1 .. Len(q) : q[i].o \in Nat
    <2>1. \A i \in 1 .. Len(q) : q[i] \in MessageType
      OBVIOUS
    <2> QED
      BY <2>1 DEF MessageType
  <1> HIDE DEF r
  <1>3. ASSUME Ordered(q, p) PROVE Ordered(r, p)
    BY <1>1, <1>3 DEF Ordered
  <1>4. ASSUME NEW s \in Seq(Nat), Behind(q, p, s) PROVE Behind(r, p, s)
    BY <1>1, <1>4 DEF Behind
  <1>5. ASSUME NEW s \in Seq(Nat), Behind(q, p, s), Ordered(q, p), Head(q).p = p
        PROVE  Behind(r, p, Append(s, Head(q).o)) /\ UpTo(s, Head(q).o - 1)
    <2> DEFINE t == Append(s, Head(q).o)
    <2>1. Head(q).o \in Nat
      BY <1>1, <1>2
    <2>2. /\ \A i \in 1 .. Len(s) : t[i] = s[i] /\ s[i] \in Nat
          /\ t[Len(s) + 1] = Head(q).o /\ Len(t) = Len(s) + 1 /\ Len(s) \in Nat
          /\ \A i \in 1 .. Len(t) : i \in 1 .. Len(s) \/ i = Len(s) + 1
      BY <2>1, AppendAt
    <2> HIDE DEF t
    <2>3. ASSUME NEW i \in 1 .. Len(r), r[i].p = p, NEW j \in 1 .. Len(t) PROVE t[j] < r[i].o
      <3>1. q[i + 1].p = p /\ r[i].o = q[i + 1].o /\ i + 1 \in 1 .. Len(q) /\ 1 < i + 1
        BY <1>1, <2>3
      <3>2. CASE j \in 1 .. Len(s)
        BY <1>5, <2>2, <3>1, <3>2 DEF Behind
      <3>3. CASE j = Len(s) + 1
        BY <1>1, <1>5, <2>2, <3>1, <3>3 DEF Ordered
      <3> QED
        BY <2>2, <3>2, <3>3
    <2>4. UpTo(s, Head(q).o - 1)
      BY <1>1, <1>2, <1>5, <2>1, <2>2 DEF Behind, UpTo
    <2> QED
      BY <2>3, <2>4 DEF Behind, t
  <1>6. ASSUME NEW n \in Int, Kept(q, p, n)
        PROVE  Kept(r, p, n) /\ (Head(q).p = p /\ Head(q).kind # "nil" => Head(q).o <= n)
    BY <1>1, <1>6 DEF Kept
  <1>7. ASSUME NEW n \in Int, Before(q, p, n) PROVE Before(r, p, n) /\ (Head(q).p = p => Head(q).o < n)
    BY <1>1, <1>7 DEF Before
  <1> QED
    BY <1>3, <1>4, <1>5, <1>6, <1>7 DEF r

(* A bound may be raised.                                                  *)
LEMMA Raised ==
  ASSUME NEW s \in Seq(Nat), NEW q \in Seq(MessageType), NEW p \in Partitions,
         NEW n \in Int, NEW m \in Int, n <= m
  PROVE  (UpTo(s, n) => UpTo(s, m)) /\ (Kept(q, p, n) => Kept(q, p, m))
  <1>1. \A i \in 1 .. Len(s) : s[i] \in Nat
    OBVIOUS
  <1>2. \A i \in 1 .. Len(q) : q[i] \in MessageType
    OBVIOUS
  <1>3. \A i \in 1 .. Len(q) : q[i].o \in Nat
    BY <1>2 DEF MessageType
  <1>4. UpTo(s, n) => UpTo(s, m)
    BY <1>1 DEF UpTo
  <1>5. Kept(q, p, n) => Kept(q, p, m)
    BY <1>3 DEF Kept
  <1> QED
    BY <1>4, <1>5

(* The front moves on.                                                     *)
LEMMA Further ==
  ASSUME NEW q \in Seq(MessageType), NEW p \in Partitions, NEW n \in Int
  PROVE  Before(q, p, n) => Before(q, p, n + 1)
  <1>1. \A i \in 1 .. Len(q) : q[i] \in MessageType
    OBVIOUS
  <1>2. \A i \in 1 .. Len(q) : q[i].o \in Nat
    BY <1>1 DEF MessageType
  <1> QED
    BY <1>2 DEF Before

(* What is pushed is a message.                                            *)
LEMMA PushedType ==
  ASSUME TypeInv, NEW p \in Partitions, Pushes(p)
  PROVE  Message(p, reader[p].next - 1, reader[p].kind) \in MessageType
  <1>1. reader[p].next > 0 /\ reader[p].next \in Nat /\ reader[p].kind \in KindsRead
    BY DEF Pushes, TypeInv, TypeOK, KindsRead
  <1> QED
    BY <1>1 DEF Message, MessageType

(* The types of what OrderedIn speaks of.                                  *)
LEMMA OrderTypes ==
  ASSUME TypeInv, NEW p \in Partitions
  PROVE  /\ given[p] \in Seq(Nat) /\ recvChan \in Seq(MessageType) /\ list \in Seq(Int)
         /\ StoredIn(list, p) \in Int /\ StoredIn(list, p) >= -1
         /\ reader[p] \in ReaderType /\ reader[p].next \in Nat /\ Front(reader[p]) \in Int
         /\ p \in Nat
  <1>1. reader[p] \in ReaderType
    BY DEF TypeInv, TypeOK, ReaderType, KindsRead
  <1>2. reader[p].next \in Nat
    BY <1>1 DEF ReaderType
  <1>3. Front(reader[p]) \in Int
    BY <1>2 DEF Front
  <1>4. given[p] \in Seq(Nat) /\ recvChan \in Seq(MessageType) /\ list \in Seq(Int) /\ p \in Nat
    BY DEF TypeInv, TypeOK, MessageType, KindsRead, Partitions
  <1> QED
    BY <1>1, <1>2, <1>3, <1>4, StoredType

(* Where faults may happen is chosen once.                                 *)
LEMMA PlacesKept == TypeInv /\ [Next]_vars => faults'.at = faults.at
  <1> SUFFICES ASSUME TypeInv, [Next]_vars PROVE faults'.at = faults.at
    OBVIOUS
  <1>1. CASE SetupStep
    BY <1>1, Spending DEF SetupStep, NewConsumerExists, NewConsumerGet, CreateListExists,
       CreateListDelete,
                          CreateListPush, Consume, NoFault
  <1>2. ASSUME NEW p \in Partitions, Reads(p) \/ Produce(p) PROVE faults'.at = faults.at
    BY <1>2, Spending DEF Reads, ReadMessage, StoreOffset, PushMessage, Produce, NoFault
  <1>3. ASSUME NEW k \in Producers, Sends(k) PROVE faults'.at = faults.at
    BY <1>3, Spending DEF Sends, ProducerStart, ProducerTake, ProducerSend, NoFault
  <1>4. CASE Web \/ Restart \/ UNCHANGED vars
    BY <1>4 DEF Web, WebReceive, WebLookup, WebReply, WebRest, Restart, vars
  <1> QED
    BY <1>1, <1>2, <1>3, <1>4 DEF Next

(* Nothing is given yet.                                                   *)
LEMMA OrderInit == Init => OrderInv
  <1> SUFFICES ASSUME Init PROVE OrderInv
    OBVIOUS
  <1>1. \A p \in Partitions : given[p] = <<>>
    BY DEF Init
  <1>2. setup = "exists" /\ recvChan = <<>>
    BY DEF Init
  <1> QED
    BY <1>1, <1>2 DEF OrderInv, OrderedIn, Increasing, UpTo, Ordered, Behind, Kept

(* NewConsumer without an error.                                           *)
LEMMA SetupOrder ==
  ASSUME TypeInv, PlaceInv, ListInv, OrderInv, "setup" \notin faults.at, SetupStep
  PROVE  OrderInv'
  <1> USE ConstantsOK
  <1>0. faults' = faults
    BY Spending DEF SetupStep, NewConsumerExists, NewConsumerGet, CreateListExists,
       CreateListDelete,
                    CreateListPush, Consume, NoFault
  <1>1. UNCHANGED <<recvChan, given>> /\ setup # "running"
    BY DEF SetupStep, NewConsumerExists, NewConsumerGet, CreateListExists, CreateListDelete,
           CreateListPush, Consume, SetupRest, readVars, webVars
  <1>2. ASSUME NEW p \in Partitions PROVE StoredIn(list', p) = StoredIn(list, p)
    <2>1. list' = list \/ list' = Append(list, -1)
      BY Spending DEF SetupStep, NewConsumerExists, NewConsumerGet, CreateListExists,
         CreateListDelete,
                      CreateListPush, Consume, OrderInv
    <2>2. CASE list' = list
      BY <2>2
    <2>3. CASE list' = Append(list, -1)
      BY <2>3, OrderTypes, StoredAppend
    <2> QED
      BY <2>1, <2>2, <2>3
  <1>3. setup' # "delete" /\ (setup' = "existsAgain" => list' = <<>>)
    BY Spending DEF SetupStep, NewConsumerExists, NewConsumerGet, CreateListExists,
       CreateListDelete,
                    CreateListPush, Consume, OrderInv
  <1>4. setup' = "push" => Unset'
    <2>1. CASE CreateListExists
      <3>1. list' = <<>> /\ \A p \in Partitions : StoredIn(<<>>, p) = -1
        BY <2>1 DEF CreateListExists, OrderInv, StoredIn, Partitions
      <3> QED
        BY <3>1 DEF Unset
    <2>2. CASE CreateListPush
      BY <1>2, <2>2 DEF CreateListPush, Unset, OrderInv
    <2>3. CASE ~CreateListExists /\ ~CreateListPush
      BY <2>3 DEF SetupStep, NewConsumerExists, NewConsumerGet, CreateListDelete, Consume, OrderInv
    <2> QED
      BY <2>1, <2>2, <2>3
  <1>5. ASSUME NEW p \in Partitions PROVE OrderedIn(p)'
    <2>1. /\ Increasing(given'[p]) /\ UpTo(given'[p], StoredIn(list', p))
          /\ Ordered(recvChan', p) /\ Behind(recvChan', p, given'[p])
          /\ Kept(recvChan', p, StoredIn(list', p))
      BY <1>1, <1>2 DEF OrderInv, OrderedIn
    <2>2. ASSUME setup' = "running"
          PROVE  /\ Before(recvChan', p, Front(reader'[p])) /\ UpTo(given'[p], Front(reader'[p]) - 1)
                 /\ InHand(reader'[p], StoredIn(list', p))
      <3>1. Consume
        BY <2>2 DEF SetupStep, NewConsumerExists, NewConsumerGet, CreateListExists,
           CreateListDelete, CreateListPush
      <3>2. /\ reader'[p].pc = "read" /\ reader'[p].next = offsets[p + 1] + 1
            /\ setup = "consume" /\ Len(offsets) >= NParts
        BY <2>2, <3>1, Starting DEF Consume
      <3>3. reader'[p].next = StoredIn(list, p) + 1 /\ Front(reader'[p]) = StoredIn(list, p) + 1
        BY <3>2 DEF OrderInv, OrderedIn, Front
      <3>4. recvChan' = <<>>
        BY <1>1 DEF PlaceInv
      <3>5. StoredIn(list, p) \in Int
        BY OrderTypes
      <3>6. Before(recvChan', p, Front(reader'[p]))
        BY <3>4 DEF Before
      <3>7. Front(reader'[p]) - 1 = StoredIn(list', p)
        BY <1>2, <3>3, <3>5
      <3>8. InHand(reader'[p], StoredIn(list', p))
        BY <1>2, <3>2, <3>3, <3>5 DEF InHand
      <3> QED
        BY <2>1, <3>6, <3>7, <3>8
    <2>3. ASSUME setup' = "consume", Len(offsets') >= NParts PROVE offsets'[p + 1] = StoredIn(list', p)
      <3>0. p \in Nat /\ p < NParts /\ Len(offsets) \in Nat /\ Len(list) \in Nat
        BY DEF Partitions, TypeInv, TypeOK
      <3>1. CASE NewConsumerGet
        <4>1. offsets' = list /\ list' = list
          BY <2>3, <3>1 DEF NewConsumerGet
        <4> QED
          BY <2>3, <3>0, <4>1 DEF StoredIn
      <3>2. CASE CreateListPush
        <4>1. offsets' = [i \in 1 .. NParts |-> -1] /\ StoredIn(list, p) = -1
          BY <3>2 DEF CreateListPush, ListInv, OrderInv, Unset
        <4>2. offsets'[p + 1] = -1
          BY <3>0, <4>1
        <4> QED
          BY <1>2, <4>1, <4>2
      <3> QED
        BY <2>3, <3>1, <3>2 DEF SetupStep, NewConsumerExists, CreateListExists, CreateListDelete,
           Consume
    <2> QED
      BY <2>1, <2>2, <2>3 DEF OrderedIn
  <1> QED
    BY <1>3, <1>4, <1>5 DEF OrderInv

(* The goroutine of a partition.                                           *)
LEMMA ReaderOrder ==
  ASSUME TypeInv, PlaceInv, ListInv, OrderInv, "setup" \notin faults.at,
         NEW p \in Partitions, Reads(p)
  PROVE  OrderInv'
  <1>0. setup = "running" /\ UNCHANGED <<setup, given>>
    BY ReaderMoves DEF PlaceInv, Closed, NoReader, Reads, ReadMessage, StoreOffset, PushMessage
  <1>1. ASSUME NEW q \in Partitions, q # p PROVE OrderedIn(q)'
    <2>1. reader'[q] = reader[q] /\ OrderedIn(q)
      BY <1>1, ReaderMoves DEF OrderInv
    <2>2. StoredIn(list', q) = StoredIn(list, q)
      BY <1>1, ReaderStored
    <2>3. /\ Ordered(recvChan', q) /\ Behind(recvChan', q, given[q]) /\ Kept(recvChan', q, StoredIn(list, q))
          /\ Before(recvChan', q, Front(reader[q]))
      <3>1. CASE recvChan' = recvChan
        BY <1>0, <2>1, <3>1 DEF OrderedIn
      <3>2. CASE Pushes(p)
        <4> DEFINE m == Message(p, reader[p].next - 1, reader[p].kind)
        <4>1. m \in MessageType /\ m.p # q /\ recvChan' = Append(recvChan, m)
          BY <1>1, <3>2, PushedType DEF Pushes, Message
        <4> HIDE DEF m
        <4>2. /\ recvChan \in Seq(MessageType) /\ given[q] \in Seq(Nat)
              /\ StoredIn(list, q) \in Int /\ Front(reader[q]) \in Int
          BY OrderTypes
        <4> QED
          BY <1>0, <2>1, <4>1, <4>2, ChannelAppend DEF OrderedIn
      <3> QED
        BY <3>1, <3>2, ReaderMoves DEF Takes, StoresIt, Fails
    <2> QED
      BY <1>0, <2>1, <2>2, <2>3 DEF OrderedIn
  <1>2. OrderedIn(p)'
    <2> DEFINE S == StoredIn(list, p)
    <2>1. /\ OrderedIn(p) /\ S \in Int /\ reader[p].next \in Nat /\ given[p] \in Seq(Nat)
          /\ recvChan \in Seq(MessageType) /\ list \in Seq(Int) /\ p \in Nat
      BY OrderTypes DEF OrderInv
    <2>2. /\ Increasing(given[p]) /\ UpTo(given[p], S) /\ Ordered(recvChan, p)
          /\ Behind(recvChan, p, given[p]) /\ Kept(recvChan, p, S)
          /\ Before(recvChan, p, Front(reader[p])) /\ UpTo(given[p], Front(reader[p]) - 1)
          /\ InHand(reader[p], S)
      BY <1>0, <2>1 DEF OrderedIn
    <2>3. CASE Takes(p)
      <3>1. Front(reader'[p]) = Front(reader[p]) /\ StoredIn(list', p) = S /\ recvChan' = recvChan
        BY <2>1, <2>3 DEF Takes, Front
      <3>2. InHand(reader'[p], S)
        BY <2>1, <2>2, <2>3 DEF Takes, InHand
      <3> QED
        BY <1>0, <2>2, <3>1, <3>2 DEF OrderedIn
    <2>4. CASE StoresIt(p)
      <3>1. Front(reader'[p]) = Front(reader[p]) /\ recvChan' = recvChan
        BY <2>4 DEF StoresIt, Front
      <3>2. StoredIn(list', p) = reader[p].next - 1
        <4>1. Len(list) > p
          BY <1>0, <2>1, ConstantsOK DEF ListInv, Partitions
        <4>2. reader[p].next - 1 \in Int
          BY <2>1
        <4> QED
          BY <2>1, <2>4, <4>1, <4>2, StoredReplace DEF StoresIt, Stores
      <3>3. S < reader[p].next - 1
        BY <2>2, <2>4 DEF StoresIt, InHand
      <3>4. UpTo(given[p], StoredIn(list', p)) /\ Kept(recvChan, p, StoredIn(list', p))
        BY <2>1, <2>2, <3>2, <3>3, Raised
      <3>5. InHand(reader'[p], StoredIn(list', p))
        BY <2>1, <2>4, <3>2 DEF StoresIt, InHand
      <3> QED
        BY <1>0, <2>2, <3>1, <3>4, <3>5 DEF OrderedIn
    <2>5. CASE Fails(p)
      <3>1. Front(reader'[p]) = Front(reader[p]) /\ recvChan' = recvChan
        BY <2>5 DEF Fails, Front
      <3>2. /\ StoredIn(list', p) \in Int /\ S <= StoredIn(list', p) /\ StoredIn(list', p) < reader[p].next
        <4>1. S < reader[p].next - 1
          BY <2>2, <2>5 DEF Fails, InHand
        <4> QED
          BY <2>1, <4>1, ReaderStored
      <3>3. UpTo(given[p], StoredIn(list', p)) /\ Kept(recvChan, p, StoredIn(list', p))
        BY <2>1, <2>2, <3>2, Raised
      <3>4. InHand(reader'[p], StoredIn(list', p))
        BY <2>5, <3>2 DEF Fails, InHand
      <3> QED
        BY <1>0, <2>2, <3>1, <3>3, <3>4 DEF OrderedIn
    <2>6. CASE Pushes(p)
      <3> DEFINE m == Message(p, reader[p].next - 1, reader[p].kind)
      <3>1. /\ m \in MessageType /\ m.p = p /\ m.o = reader[p].next - 1 /\ recvChan' = Append(recvChan, m)
            /\ m.kind = reader[p].kind
        BY <2>6, PushedType DEF Pushes, Message
      <3> HIDE DEF m
      <3>2. /\ Front(reader[p]) = m.o /\ Front(reader'[p]) = m.o + 1 /\ m.o \in Int
            /\ StoredIn(list', p) = S
        <4>1. StoredIn(list', p) = S
          BY <2>6 DEF Pushes
        <4>2. Front(reader[p]) = reader[p].next - 1 /\ Front(reader'[p]) = reader[p].next
          BY <2>6 DEF Pushes, Front
        <4>3. m.o = reader[p].next - 1 /\ m.o + 1 = reader[p].next /\ m.o \in Int
          <5>1. reader[p].next \in Nat
            BY <2>1
          <5>2. m.o = reader[p].next - 1
            BY <3>1
          <5> QED
            BY <5>1, <5>2
        <4> QED
          BY <4>1, <4>2, <4>3
      <3>3. /\ Ordered(recvChan', p) /\ Behind(recvChan', p, given[p])
        BY <2>1, <2>2, <3>1, <3>2, ChannelAppend
      <3>4. Kept(recvChan', p, S)
        <4>1. m.kind # "nil" => m.o <= S
          BY <2>2, <2>6, <3>1 DEF Pushes, InHand
        <4> QED
          BY <2>1, <2>2, <3>1, <4>1, ChannelAppend
      <3>5. Before(recvChan', p, m.o + 1)
        <4>1. Before(recvChan, p, m.o + 1) /\ m.o < m.o + 1 /\ m.o + 1 \in Int
          BY <2>1, <2>2, <3>2, Further
        <4> QED
          BY <2>1, <3>1, <4>1, ChannelAppend
      <3>6. UpTo(given[p], m.o + 1 - 1)
        BY <2>1, <2>2, <3>2, Raised
      <3>7. InHand(reader'[p], S)
        BY <2>2, <2>6 DEF Pushes, InHand
      <3> QED
        BY <1>0, <2>2, <3>2, <3>3, <3>4, <3>5, <3>6, <3>7 DEF OrderedIn
    <2> QED
      BY <2>3, <2>4, <2>5, <2>6, ReaderMoves
  <1> QED
    BY <1>0, <1>1, <1>2 DEF OrderInv

(* The web goroutine takes a message.                                      *)
LEMMA ReceiveOrder ==
  ASSUME TypeInv, PlaceInv, ListInv, OrderInv, "setup" \notin faults.at, WebReceive
  PROVE  OrderInv'
  <1> DEFINE msg == Head(recvChan)
  <1>1. /\ recvChan \in Seq(MessageType) /\ recvChan # <<>> /\ recvChan' = Tail(recvChan)
        /\ UNCHANGED <<list, setup, offsets, reader, faults>>
    BY DEF WebReceive, WebRest, setupVars, TypeInv, TypeOK, MessageType, KindsRead
  <1>2. msg \in MessageType /\ msg.p \in Partitions /\ msg.o \in Nat
    BY <1>1, TailAt DEF MessageType
  <1>3. setup = "running"
    BY <1>1 DEF PlaceInv
  <1>4. given' = IF msg.kind = "nil" THEN given ELSE [given EXCEPT ![msg.p] = Append(given[msg.p], msg.o)]
    BY DEF WebReceive
  <1> HIDE DEF msg
  <1>5. ASSUME NEW p \in Partitions PROVE OrderedIn(p)'
    <2> DEFINE S == StoredIn(list, p)
               F == Front(reader[p])
    <2>1. S \in Int /\ F \in Int /\ given[p] \in Seq(Nat) /\ OrderedIn(p) /\ F - 1 \in Int
      BY OrderTypes DEF OrderInv
    <2> HIDE DEF S, F
    <2>2. /\ Increasing(given[p]) /\ UpTo(given[p], S) /\ Ordered(recvChan, p)
          /\ Behind(recvChan, p, given[p]) /\ Kept(recvChan, p, S)
          /\ Before(recvChan, p, F) /\ UpTo(given[p], F - 1) /\ InHand(reader[p], S)
      BY <1>3, <2>1 DEF OrderedIn, S, F
    <2>3. Ordered(recvChan', p) /\ Kept(recvChan', p, S) /\ Before(recvChan', p, F)
      BY <1>1, <2>1, <2>2, ChannelTail
    <2>4. /\ Behind(recvChan', p, given'[p]) /\ Increasing(given'[p]) /\ UpTo(given'[p], S)
          /\ UpTo(given'[p], F - 1)
      <3>1. CASE given'[p] = given[p]
        BY <1>1, <2>1, <2>2, <3>1, ChannelTail
      <3>2. CASE msg.p = p /\ msg.kind # "nil" /\ given'[p] = Append(given[p], msg.o)
        <4>1. /\ Behind(recvChan', p, given'[p]) /\ UpTo(given[p], msg.o - 1)
          BY <1>1, <2>1, <2>2, <3>2, ChannelTail DEF msg
        <4>2. msg.o <= S /\ msg.o < F
          BY <1>1, <2>1, <2>2, <3>2, ChannelTail DEF msg
        <4>3. msg.o <= F - 1
          BY <1>2, <2>1, <4>2
        <4> QED
          BY <1>2, <2>1, <2>2, <3>2, <4>1, <4>2, <4>3, GivenAppend
      <3>3. given \in [Partitions -> Seq(Nat)]
        BY DEF TypeInv, TypeOK
      <3> QED
        BY <1>2, <1>4, <3>1, <3>2, <3>3
    <2> QED
      BY <1>1, <1>3, <2>2, <2>3, <2>4 DEF OrderedIn, S, F
  <1> QED
    BY <1>1, <1>3, <1>5 DEF OrderInv

(* Every step keeps the order.                                             *)
LEMMA OrderStep == TypeInv /\ PlaceInv /\ ListInv /\ OrderInv /\ [Next]_vars => OrderInv'
  <1> SUFFICES ASSUME TypeInv, PlaceInv, ListInv, OrderInv, "setup" \notin faults.at, [Next]_vars
               PROVE  OrderInv'
    BY PlacesKept DEF OrderInv
  <1>1. CASE Restart
    <2>1. UNCHANGED <<list, given, faults>> /\ recvChan' = <<>> /\ setup' = "exists"
      BY <1>1 DEF Restart
    <2>2. \A p \in Partitions : OrderedIn(p)
      BY DEF OrderInv
    <2>3. \A p \in Partitions : OrderedIn(p)'
      BY <2>1, <2>2 DEF OrderedIn, Ordered, Behind, Kept
    <2> QED
      BY <2>1, <2>3 DEF OrderInv
  <1>2. CASE \/ WebLookup \/ WebReply \/ (\E k \in Producers : Sends(k)) \/ (\E p \in Partitions : Produce(p)) \/ UNCHANGED vars
    <2>1. UNCHANGED <<list, setup, offsets, reader, recvChan, given>>
      BY <1>2 DEF WebLookup, WebReply, WebRest, Sends, ProducerStart, ProducerTake, ProducerSend, SendRest, Produce,
         setupVars, readVars,
                  webVars, vars
    <2> QED
      BY <2>1 DEF OrderInv, OrderedIn, Unset
  <1> QED
    BY <1>1, <1>2, SetupOrder, ReaderOrder, ReceiveOrder DEF Next, Web

(* All that is reachable.                                                  *)
Inv == TypeInv /\ PlaceInv /\ ListInv /\ OrderInv

(* The conjunction is inductive.                                           *)
LEMMA InvHolds == Spec => []Inv
  <1>1. Init => Inv
    BY TypeInit, PlaceInit, ListInit, OrderInit DEF Inv
  <1>2. Inv /\ [Next]_vars => Inv'
    BY TypeStep, PlaceStep, ListStep, OrderStep DEF Inv
  <1> QED
    BY <1>1, <1>2, PTL DEF Spec

(* What Delivery sees.                                                     *)
Lengths == [p \in Partitions |-> Len(topic[p])]
Givens  == [p \in Partitions |-> IF "setup" \in faults.at THEN <<>> ELSE given[p]]

(* A message that the web goroutine takes is given by Delivery.            *)
LEMMA Giving ==
  ASSUME Inv, WebReceive, "setup" \notin faults.at
  PROVE  (\E p \in Partitions : Abstract!Give(p)) \/ UNCHANGED <<Lengths, Givens>>
  <1> DEFINE msg == Head(recvChan)
  <1>0. UNCHANGED <<topic, faults>>
    BY DEF WebReceive, WebRest
  <1>1. recvChan \in Seq(MessageType) /\ recvChan # <<>> /\ given \in [Partitions -> Seq(Nat)]
    BY DEF WebReceive, Inv, TypeInv, TypeOK, MessageType, KindsRead
  <1>2. msg \in MessageType /\ msg.p \in Partitions /\ msg.o \in Nat /\ msg = recvChan[1] /\ 1 \in 1 .. Len(recvChan)
    <2>1. msg \in MessageType /\ msg = recvChan[1] /\ 1 \in 1 .. Len(recvChan)
      BY <1>1, TailAt
    <2> QED
      BY <2>1 DEF MessageType
  <1>3. given' = IF msg.kind = "nil" THEN given ELSE [given EXCEPT ![msg.p] = Append(given[msg.p], msg.o)]
    BY DEF WebReceive
  <1>4. msg.o \in 0 .. Len(topic[msg.p]) - 1
    <2>1. msg.o < Len(topic[msg.p])
      BY <1>2 DEF Inv, PlaceInv
    <2>2. topic[msg.p] \in Seq({"request", "garbage"})
      BY <1>2 DEF Inv, TypeInv, TypeOK
    <2> QED
      BY <1>2, <2>1, <2>2
  <1>5. \A i \in DOMAIN given[msg.p] : given[msg.p][i] < msg.o
    <2>1. Behind(recvChan, msg.p, given[msg.p])
      BY <1>2 DEF Inv, OrderInv, OrderedIn
    <2>2. DOMAIN given[msg.p] = 1 .. Len(given[msg.p])
      BY <1>1, <1>2
    <2> QED
      BY <1>2, <2>1, <2>2 DEF Behind
  <1> HIDE DEF msg
  <1>6. CASE msg.kind = "nil"
    BY <1>0, <1>3, <1>6 DEF Lengths, Givens
  <1>7. CASE msg.kind # "nil"
    <2>0. PICK k \in Partitions : k = msg.p
      BY <1>2
    <2>1. Givens = [q \in Partitions |-> given[q]] /\ Givens' = [q \in Partitions |-> given'[q]]
      BY <1>0 DEF Givens
    <2>2. Givens = given /\ Givens' = given'
      BY <1>1, <1>2, <1>3, <1>7, <2>1
    <2>3. Givens' = [Givens EXCEPT ![k] = Append(Givens[k], msg.o)]
      BY <1>3, <1>7, <2>0, <2>2
    <2>4. Lengths[k] = Len(topic[k]) /\ Lengths' = Lengths
      BY <1>0 DEF Lengths
    <2>5. Abstract!Give(k)
      BY <1>4, <1>5, <2>0, <2>2, <2>3, <2>4 DEF Abstract!Give, Lengths, Givens
    <2> QED
      BY <2>5
  <1> QED
    BY <1>6, <1>7

(* Every other step is one of Kafka or none at all.                        *)
LEMMA OthersGiveNothing ==
  ASSUME Inv, [Next]_vars, ~(WebReceive /\ "setup" \notin faults.at)
  PROVE  (\E p \in Partitions : Abstract!Produce(p)) \/ UNCHANGED <<Lengths, Givens>>
  <1>1. faults'.at = faults.at
    BY PlacesKept DEF Inv
  <1>2. CASE \E p \in Partitions : Produce(p)
    <2> PICK p \in Partitions : Produce(p)
      BY <1>2
    <2>1. UNCHANGED given
      BY DEF Produce, webVars
    <2>2. topic \in [Partitions -> Seq({"request", "garbage"})]
      BY DEF Inv, TypeInv, TypeOK
    <2>3. \E e \in {"request", "garbage"} : topic' = [topic EXCEPT ![p] = Append(topic[p], e)]
      BY DEF Produce
    <2>4. Len(topic'[p]) = Len(topic[p]) + 1 /\ \A q \in Partitions : q # p => topic'[q] = topic[q]
      BY <2>2, <2>3, AppendAt
    <2>5. Lengths' = [Lengths EXCEPT ![p] = Lengths[p] + 1]
      BY <2>4 DEF Lengths
    <2>6. Givens' = Givens
      BY <1>1, <2>1 DEF Givens
    <2>7. Abstract!Produce(p)
      BY <2>5, <2>6 DEF Abstract!Produce, Lengths, Givens
    <2> QED
      BY <2>7
  <1>3. CASE ~(\E p \in Partitions : Produce(p))
    <2>1. UNCHANGED topic
      BY <1>3, ReaderMoves DEF Inv, Next, vars, Restart, Web, WebReceive, WebLookup, WebReply, WebRest, Sends,
         ProducerStart, ProducerTake,
        ProducerSend, SendRest, SetupStep, NewConsumerExists, NewConsumerGet, CreateListExists,
        CreateListDelete,
        CreateListPush, Consume, SetupRest
    <2>2. UNCHANGED given \/ WebReceive
      BY <1>3, ReaderMoves DEF Inv, Next, vars, webVars, Restart, Web, WebLookup, WebReply, WebRest, Sends,
         ProducerStart, ProducerTake,
        ProducerSend, SendRest, SetupStep, NewConsumerExists, NewConsumerGet, CreateListExists,
        CreateListDelete,
        CreateListPush, Consume, SetupRest
    <2>3. Givens' = Givens
      BY <1>1, <2>2 DEF Givens
    <2> QED
      BY <2>1, <2>3 DEF Lengths
  <1> QED
    BY <1>2, <1>3

(* The bridge implements Delivery: over any crashes, garbage and errors of *)
(* Read the web goroutine is given messages of a partition that are there, *)
(* in their order, none twice.                                             *)
THEOREM DeliveryRefined == Spec => InOrderAtMostOnce
  <1>1. Init => Abstract!Init
    <2> SUFFICES ASSUME Init PROVE Abstract!Init
      OBVIOUS
    <2>1. Lengths = [p \in Partitions |-> 0] /\ Givens = [p \in Partitions |-> <<>>]
      BY DEF Init, Lengths, Givens
    <2> QED
      BY <2>1 DEF Abstract!Init, Lengths, Givens
  <1>2. Inv /\ [Next]_vars => [Abstract!Next]_<<Lengths, Givens>>
    <2> SUFFICES ASSUME Inv, [Next]_vars PROVE [Abstract!Next]_<<Lengths, Givens>>
      OBVIOUS
    <2>1. CASE WebReceive /\ "setup" \notin faults.at
      BY <2>1, Giving DEF Abstract!Next
    <2>2. CASE ~(WebReceive /\ "setup" \notin faults.at)
      BY <2>2, OthersGiveNothing DEF Abstract!Next
    <2> QED
      BY <2>1, <2>2
  <1> QED
    BY <1>1, <1>2, InvHolds, PTL DEF Spec, InOrderAtMostOnce, Abstract!Spec, Lengths, Givens

-----------------------------------------------------------------------------
(* How much is lost.                                                       *)

(* What a reader holds before it has stored the offset is a message.       *)
HeldInv == \A p \in Partitions : reader[p].pc = "store" => reader[p].kind # "nil"

(* The messages that the reader has behind it.                             *)
Reached(r) == IF r.pc = "store" THEN r.next - 1 ELSE r.next

IsTaken(m) == \E i \in 1 .. Len(given[m[1]]) : given[m[1]][i] = m[2]
InChannel(m) == \E i \in 1 .. Len(recvChan) : /\ recvChan[i].p = m[1] /\ recvChan[i].kind # "nil"
                                              /\ recvChan[i].o = m[2]
InHands(m) == /\ reader[m[1]].pc = "push" /\ reader[m[1]].kind # "nil"
              /\ m[2] = reader[m[1]].next - 1
Passed(m) == m[2] <= StoredIn(list, m[1]) \/ m[2] < Reached(reader[m[1]])

(* The messages that will not be given any more, or only to a process      *)
(* after this one: Lost, and those that Read did not manage to store.      *)
Places == Partitions \X (0 .. MaxMsg)
Gone   == {m \in Places : /\ m[2] < Len(topic[m[1]]) /\ Passed(m)
                          /\ ~IsTaken(m) /\ ~InChannel(m) /\ ~InHands(m)}

Explained == (ChanCap + NParts) * crashes.used + faults.used
GoneInv   == Cardinality(Gone) <= Explained

(* A message is its partition and its offset.                              *)
LEMMA PlaceTypes ==
  ASSUME NEW m \in Places
  PROVE  m[1] \in Partitions /\ m[2] \in Nat /\ m = <<m[1], m[2]>> /\ m[2] \in 0 .. MaxMsg
  BY ConstantsOK DEF Places

(* There are finitely many messages to be lost.                            *)
LEMMA PlacesFinite == IsFiniteSet(Places)
  <1>1. IsFiniteSet(Partitions) /\ IsFiniteSet(0 .. MaxMsg)
    BY ConstantsOK, FS_Interval DEF Partitions
  <1> QED
    BY <1>1, FS_Product DEF Places

(* So they can be counted.                                                 *)
LEMMA GoneFinite ==
  /\ IsFiniteSet(Gone) /\ Cardinality(Gone) \in Nat
  /\ IsFiniteSet(Gone') /\ Cardinality(Gone') \in Nat
  <1>1. Gone \in SUBSET Places /\ Gone' \in SUBSET Places
    BY DEF Gone
  <1>2. IsFiniteSet(Gone) /\ IsFiniteSet(Gone')
    BY <1>1, PlacesFinite, FS_Subset
  <1> QED
    BY <1>2, FS_CardinalityType

(* What is lost is gone.                                                   *)
LEMMA LostGone ==
  ASSUME TypeInv
  PROVE  Lost \subseteq Gone
  <1> SUFFICES ASSUME NEW m \in Lost PROVE m \in Gone
    OBVIOUS
  <1>1. m \in Places /\ m[2] < Len(topic[m[1]]) /\ m[2] <= Stored(m[1]) /\ m \notin Taken /\ m[2] \notin Coming(m[1])
    BY DEF Lost, Messages, Places
  <1>2. m[1] \in Partitions
    BY <1>1, PlaceTypes
  <1>3. Passed(m)
    BY <1>1, <1>2, StoredType DEF Passed
  <1>4. ~IsTaken(m)
    <2>1. DOMAIN given[m[1]] = 1 .. Len(given[m[1]])
      BY <1>2 DEF TypeInv, TypeOK
    <2> QED
      BY <1>1, <2>1 DEF Taken, IsTaken, Places
  <1>5. ~InChannel(m) /\ ~InHands(m)
    <2>1. DOMAIN recvChan = 1 .. Len(recvChan)
      BY DEF TypeInv, TypeOK
    <2> QED
      BY <1>1, <2>1 DEF Coming, InChannel, InHands
  <1> QED
    BY <1>1, <1>3, <1>4, <1>5 DEF Gone

(* A function has no more values than arguments.                           *)
LEMMA ImageBound ==
  ASSUME NEW S, IsFiniteSet(S), NEW T, NEW f \in [S -> T]
  PROVE  IsFiniteSet({f[x] : x \in S}) /\ Cardinality({f[x] : x \in S}) <= Cardinality(S)
  <1>1. f \in Surjection(S, {f[x] : x \in S})
    BY DEF Surjection
  <1> QED
    BY <1>1, FS_Surjection

OnTheWay == {m \in Places : InChannel(m) \/ InHands(m)}

(* The channel holds ChanCap messages and each reader one.                 *)
LEMMA WayBound ==
  ASSUME TypeInv
  PROVE  IsFiniteSet(OnTheWay) /\ Cardinality(OnTheWay) <= ChanCap + NParts /\ Cardinality(OnTheWay) \in Nat
  <1> DEFINE f == [i \in 1 .. Len(recvChan) |-> <<recvChan[i].p, recvChan[i].o>>]
             g == [p \in Partitions |-> <<p, reader[p].next - 1>>]
             A == {f[i] : i \in 1 .. Len(recvChan)}
             B == {g[p] : p \in Partitions}
  <1>0. Len(recvChan) \in Nat /\ Len(recvChan) <= ChanCap
    BY DEF TypeInv, TypeOK
  <1>1. IsFiniteSet(A) /\ Cardinality(A) <= Len(recvChan) /\ Cardinality(A) \in Nat
    <2>1. IsFiniteSet(1 .. Len(recvChan)) /\ Cardinality(1 .. Len(recvChan)) = Len(recvChan)
      <3>1. \A n \in Nat : IsFiniteSet(1 .. n) /\ Cardinality(1 .. n) = n
        BY FS_Interval
      <3> QED
        BY <1>0, <3>1
    <2>2. \E T : f \in [1 .. Len(recvChan) -> T]
      <3>1. f \in [1 .. Len(recvChan) -> {f[i] : i \in 1 .. Len(recvChan)}]
        OBVIOUS
      <3> QED
        BY <3>1
    <2>3. IsFiniteSet(A) /\ Cardinality(A) <= Len(recvChan)
      <3> HIDE DEF f
      <3> QED
        BY <2>1, <2>2, ImageBound
    <2> HIDE DEF A
    <2> QED
      BY <2>3, FS_CardinalityType
  <1>2. IsFiniteSet(B) /\ Cardinality(B) <= NParts /\ Cardinality(B) \in Nat
    <2>1. IsFiniteSet(Partitions) /\ Cardinality(Partitions) = NParts
      BY ConstantsOK, FS_Interval DEF Partitions
    <2>2. \E T : g \in [Partitions -> T]
      <3>1. g \in [Partitions -> {g[p] : p \in Partitions}]
        OBVIOUS
      <3> QED
        BY <3>1
    <2>3. IsFiniteSet(B) /\ Cardinality(B) <= NParts
      <3> HIDE DEF g
      <3> QED
        BY <2>1, <2>2, ImageBound
    <2> HIDE DEF B
    <2> QED
      BY <2>3, FS_CardinalityType
  <1>3. OnTheWay \in SUBSET (A \cup B)
    <2> SUFFICES ASSUME NEW m \in OnTheWay PROVE m \in A \cup B
      OBVIOUS
    <2>1. m = <<m[1], m[2]>> /\ m[1] \in Partitions
      BY PlaceTypes DEF OnTheWay
    <2>2. CASE InChannel(m)
      <3>1. PICK i \in 1 .. Len(recvChan) : recvChan[i].p = m[1] /\ recvChan[i].o = m[2]
        BY <2>2 DEF InChannel
      <3>2. f[i] = m
        BY <2>1, <3>1
      <3> QED
        BY <3>2
    <2>3. CASE InHands(m)
      <3>1. g[m[1]] = m
        BY <2>1, <2>3 DEF InHands
      <3> QED
        BY <2>1, <3>1
    <2> QED
      BY <2>2, <2>3 DEF OnTheWay
  <1> HIDE DEF A, B
  <1>4. IsFiniteSet(A \cup B) /\ Cardinality(A \cup B) <= Cardinality(A) + Cardinality(B)
    <2>1. IsFiniteSet(A \cap B) /\ Cardinality(A \cap B) \in Nat
      BY <1>1, FS_Intersection, FS_CardinalityType
    <2>2. IsFiniteSet(A \cup B) /\ Cardinality(A \cup B) = Cardinality(A) + Cardinality(B) - Cardinality(A \cap B)
      BY <1>1, <1>2, FS_Union
    <2> QED
      BY <1>1, <1>2, <2>1, <2>2
  <1>5. IsFiniteSet(OnTheWay) /\ Cardinality(OnTheWay) <= Cardinality(A \cup B)
    BY <1>3, <1>4, FS_Subset
  <1>6. Cardinality(OnTheWay) \in Nat /\ Cardinality(A \cup B) \in Nat
    BY <1>4, <1>5, FS_CardinalityType
  <1> QED
    BY <1>0, <1>1, <1>2, <1>4, <1>5, <1>6, ConstantsOK

(* What was taken stays so.                                                *)
LEMMA TakenStays ==
  ASSUME TypeInv, [Next]_vars, NEW m \in Places, IsTaken(m)
  PROVE  IsTaken(m)'
  <1>1. m[1] \in Partitions /\ given \in [Partitions -> Seq(Nat)] /\ given[m[1]] \in Seq(Nat)
    BY PlaceTypes DEF TypeInv, TypeOK
  <1>2. CASE UNCHANGED given
    BY <1>2 DEF IsTaken
  <1>3. CASE WebReceive
    <2> DEFINE s == given[m[1]]
    <2>1. given'[m[1]] = s \/ given'[m[1]] = Append(s, Head(recvChan).o)
      BY <1>1, <1>3 DEF WebReceive
    <2>2. Head(recvChan).o \in Nat
      <3>1. recvChan \in Seq(MessageType) /\ recvChan # <<>>
        BY <1>3 DEF WebReceive, TypeInv, TypeOK, MessageType, KindsRead
      <3>2. Head(recvChan) \in MessageType
        BY <3>1, TailAt
      <3> QED
        BY <3>2 DEF MessageType
    <2>3. PICK i \in 1 .. Len(s) : s[i] = m[2]
      BY DEF IsTaken
    <2>4. s \in Seq(Nat) /\ Len(s) \in Nat
      BY <1>1
    <2> DEFINE e == Head(recvChan).o
    <2> HIDE DEF s, e
    <2>5. Len(Append(s, e)) = Len(s) + 1 /\ \A j \in 1 .. Len(s) : Append(s, e)[j] = s[j]
      <3>1. e \in Nat
        BY <2>2 DEF e
      <3> QED
        BY <2>4, <3>1, AppendAt
    <2>6. CASE given'[m[1]] = s
      BY <2>3, <2>6 DEF IsTaken
    <2>7. CASE given'[m[1]] = Append(s, e)
      <3>1. i \in 1 .. Len(Append(s, e)) /\ Append(s, e)[i] = m[2]
        BY <2>3, <2>4, <2>5
      <3> QED
        BY <2>7, <3>1 DEF IsTaken
    <2> QED
      BY <2>1, <2>6, <2>7 DEF s, e
  <1> QED
    BY <1>2, <1>3, ReaderMoves DEF Next, vars, webVars, Restart, Web, WebLookup, WebReply, WebRest, Sends,
       ProducerStart, ProducerTake,
        ProducerSend, SendRest, Produce, SetupStep, NewConsumerExists, NewConsumerGet,
        CreateListExists,
        CreateListDelete, CreateListPush, Consume, SetupRest

(* What ReadMessage takes has a kind; only a failed store makes it nil.    *)
LEMMA HeldStep == TypeInv /\ HeldInv /\ [Next]_vars => HeldInv'
  <1> SUFFICES ASSUME TypeInv, HeldInv, [Next]_vars PROVE HeldInv'
    OBVIOUS
  <1>1. ASSUME NEW p \in Partitions, Reads(p) PROVE HeldInv'
    BY <1>1, ReaderMoves DEF HeldInv, Takes, StoresIt, Fails, Pushes
  <1>2. CASE Consume \/ Restart
    BY <1>2 DEF Consume, Restart, HeldInv, Closed, NoReader
  <1>3. CASE UNCHANGED reader
    BY <1>3 DEF HeldInv
  <1> QED
    BY <1>1, <1>2, <1>3 DEF Next, vars, readVars, Web, WebReceive, WebLookup, WebReply, WebRest, Sends,
       ProducerStart, ProducerTake,
        ProducerSend, SendRest, Produce, SetupStep, NewConsumerExists, NewConsumerGet,
        CreateListExists,
        CreateListDelete, CreateListPush, SetupRest

(* NewConsumer loses nothing.                                              *)
LEMMA SetupLoss ==
  ASSUME TypeInv, PlaceInv, ListInv, SetupStep, NEW m \in Gone'
  PROVE  m \in Gone
  <1>1. m \in Places /\ Passed(m)' /\ ~IsTaken(m)' /\ m[2] < Len(topic'[m[1]])
    BY DEF Gone
  <1>2. m[1] \in Partitions /\ m[2] \in Nat
    BY <1>1, PlaceTypes
  <1>3. UNCHANGED <<topic, recvChan, given>> /\ setup # "running"
    BY DEF SetupStep, NewConsumerExists, NewConsumerGet, CreateListExists, CreateListDelete,
           CreateListPush, Consume, SetupRest, readVars, webVars
  <1>4. reader[m[1]] = NoReader /\ recvChan = <<>>
    BY <1>2, <1>3 DEF PlaceInv, Closed
  <1>5. ~InChannel(m) /\ ~InHands(m)
    BY <1>4 DEF InChannel, InHands, NoReader
  <1>6. Passed(m)
    <2>1. StoredIn(list', m[1]) <= StoredIn(list, m[1]) /\ StoredIn(list, m[1]) \in Int
      BY <1>2, SetupStored, StoredType
    <2>2. StoredIn(list', m[1]) \in Int
      <3>1. list' \in Seq(Int)
        BY SetupTypes DEF TypeInv, TypeOK
      <3> QED
        BY <1>2, <3>1 DEF StoredIn, Partitions
    <2>3. CASE Consume
      <3>1. list' = list
        BY <2>3 DEF Consume
      <3>2. CASE UNCHANGED reader
        BY <1>1, <3>1, <3>2 DEF Passed
      <3>3. CASE /\ offsets[m[1] + 1] \in Int /\ reader'[m[1]].pc = "read"
                 /\ reader'[m[1]].next = offsets[m[1] + 1] + 1
                 /\ offsets[m[1] + 1] <= StoredIn(list, m[1])
        <4>1. Reached(reader'[m[1]]) = offsets[m[1] + 1] + 1
          BY <3>3 DEF Reached
        <4> QED
          BY <1>1, <1>2, <2>1, <3>1, <3>3, <4>1 DEF Passed
      <3> QED
        BY <1>2, <2>3, <3>2, <3>3, Starting
    <2>4. CASE ~Consume
      <3>1. UNCHANGED reader
        BY <2>4 DEF SetupStep, NewConsumerExists, NewConsumerGet, CreateListExists,
           CreateListDelete,
                    CreateListPush, SetupRest, readVars
      <3> QED
        BY <1>1, <1>2, <2>1, <2>2, <3>1 DEF Passed
    <2> QED
      BY <2>3, <2>4
  <1>7. ~IsTaken(m)
    BY <1>1, <1>3 DEF IsTaken
  <1> QED
    BY <1>1, <1>3, <1>5, <1>6, <1>7 DEF Gone

(* The goroutine of a partition loses the message whose offset it could    *)
(* not store, and no other.                                                *)
LEMMA ReaderLoss ==
  ASSUME TypeInv, PlaceInv, HeldInv, NEW p \in Partitions, Reads(p), NEW m \in Gone'
  PROVE  m \in Gone \/ (Fails(p) /\ m = <<p, reader[p].next - 1>>)
  <1>1. m \in Places /\ Passed(m)' /\ ~IsTaken(m)' /\ m[2] < Len(topic'[m[1]]) /\ ~InChannel(m)' /\ ~InHands(m)'
    BY DEF Gone
  <1>2. m[1] \in Partitions /\ m[2] \in Nat /\ m = <<m[1], m[2]>>
    BY <1>1, PlaceTypes
  <1>3. UNCHANGED <<topic, given>> /\ ~IsTaken(m) /\ m[2] < Len(topic[m[1]])
    <2>1. UNCHANGED <<topic, given>>
      BY ReaderMoves
    <2> QED
      BY <1>1, <2>1 DEF IsTaken
  <1>4. /\ recvChan \in Seq(MessageType) /\ reader[p].next \in Nat /\ reader[m[1]].next \in Nat
        /\ StoredIn(list, m[1]) \in Int
    BY <1>2, OrderTypes
  <1>5. ~InChannel(m)
    <2>1. CASE recvChan' = recvChan
      BY <1>1, <2>1 DEF InChannel
    <2>2. CASE Pushes(p)
      <3> DEFINE e == Message(p, reader[p].next - 1, reader[p].kind)
      <3>1. e \in MessageType /\ recvChan' = Append(recvChan, e)
        BY <2>2, PushedType DEF Pushes
      <3> HIDE DEF e
      <3>2. \A i \in 1 .. Len(recvChan) : i \in 1 .. Len(recvChan') /\ recvChan'[i] = recvChan[i]
        BY <1>4, <3>1, AppendAt
      <3> QED
        BY <1>1, <3>2 DEF InChannel
    <2> QED
      BY <2>1, <2>2, ReaderMoves DEF Takes, StoresIt, Fails
  <1>6. CASE m[1] # p
    <2>1. reader'[m[1]] = reader[m[1]] /\ StoredIn(list', m[1]) = StoredIn(list, m[1])
      BY <1>2, <1>6, ReaderMoves, ReaderStored
    <2>2. ~InHands(m) /\ Passed(m)
      BY <1>1, <2>1 DEF InHands, Passed
    <2> QED
      BY <1>1, <1>3, <1>5, <2>2 DEF Gone
  <1>7. CASE m[1] = p
    <2>1. CASE Takes(p)
      <3>1. ~InHands(m)
        BY <1>7, <2>1 DEF Takes, InHands
      <3>2. Reached(reader'[p]) = Reached(reader[p]) /\ StoredIn(list', p) = StoredIn(list, p)
        BY <1>4, <2>1 DEF Takes, Reached
      <3>3. Passed(m)
        BY <1>1, <1>7, <3>2 DEF Passed
      <3> QED
        BY <1>1, <1>3, <1>5, <3>1, <3>3 DEF Gone
    <2>2. CASE StoresIt(p) \/ Fails(p)
      <3>1. ~InHands(m) /\ reader[p].pc = "store"
        BY <1>7, <2>2 DEF StoresIt, Fails, InHands
      <3>2. /\ Reached(reader'[p]) = reader[p].next /\ Reached(reader[p]) = reader[p].next - 1
        BY <1>4, <2>2 DEF StoresIt, Fails, Reached
      <3>3. m[2] <= StoredIn(list, p) \/ m[2] <= reader[p].next - 1
        <4>1. StoredIn(list', p) = StoredIn(list, p) \/ StoredIn(list', p) = reader[p].next - 1
          BY ReaderStored
        <4>2. m[2] <= StoredIn(list', p) \/ m[2] < reader[p].next
          BY <1>1, <1>7, <3>2 DEF Passed
        <4> QED
          BY <1>2, <1>4, <4>1, <4>2
      <3>4. CASE m[2] = reader[p].next - 1
        <4>1. ~StoresIt(p)
          BY <1>1, <1>7, <3>1, <3>4 DEF StoresIt, HeldInv, InHands
        <4> QED
          BY <1>2, <1>7, <2>2, <3>4, <4>1
      <3>5. CASE m[2] # reader[p].next - 1
        <4>1. Passed(m)
          BY <1>2, <1>4, <1>7, <3>2, <3>3, <3>5 DEF Passed
        <4> QED
          BY <1>1, <1>3, <1>5, <3>1, <4>1 DEF Gone
      <3> QED
        BY <3>4, <3>5
    <2>3. CASE Pushes(p)
      <3>1. Reached(reader'[p]) = Reached(reader[p]) /\ StoredIn(list', p) = StoredIn(list, p)
        BY <1>4, <2>3 DEF Pushes, Reached
      <3>2. Passed(m)
        BY <1>1, <1>7, <3>1 DEF Passed
      <3>3. ~InHands(m)
        <4> SUFFICES ASSUME InHands(m) PROVE FALSE
          OBVIOUS
        <4> DEFINE e == Message(p, reader[p].next - 1, reader[p].kind)
        <4>1. e \in MessageType /\ recvChan' = Append(recvChan, e)
          BY <2>3, PushedType DEF Pushes
        <4>2. e.p = m[1] /\ e.kind # "nil" /\ e.o = m[2]
          BY <1>7 DEF InHands, Message
        <4> HIDE DEF e
        <4>3. Len(recvChan') = Len(recvChan) + 1 /\ recvChan'[Len(recvChan) + 1] = e /\ Len(recvChan) \in Nat
          BY <1>4, <4>1, AppendAt
        <4>4. Len(recvChan) + 1 \in 1 .. Len(recvChan')
          BY <4>3
        <4> QED
          BY <1>1, <4>2, <4>3, <4>4 DEF InChannel
      <3> QED
        BY <1>1, <1>3, <1>5, <3>2, <3>3 DEF Gone
    <2> QED
      BY <2>1, <2>2, <2>3, ReaderMoves
  <1> QED
    BY <1>6, <1>7

(* The web goroutine loses nothing that it takes.                          *)
LEMMA ReceiveLoss ==
  ASSUME TypeInv, WebReceive, NEW m \in Gone'
  PROVE  m \in Gone
  <1> DEFINE msg == Head(recvChan)
  <1>1. m \in Places /\ Passed(m)' /\ ~IsTaken(m)' /\ m[2] < Len(topic'[m[1]]) /\ ~InChannel(m)' /\ ~InHands(m)'
    BY DEF Gone
  <1>2. UNCHANGED <<topic, list, reader>>
    BY DEF WebReceive, WebRest
  <1>3. Passed(m) /\ ~InHands(m) /\ m[2] < Len(topic[m[1]])
    BY <1>1, <1>2 DEF Passed, InHands
  <1>4. ~IsTaken(m)
    BY <1>1, TakenStays DEF Next, Web
  <1>5. /\ recvChan \in Seq(MessageType) /\ recvChan # <<>> /\ recvChan' = Tail(recvChan)
        /\ given \in [Partitions -> Seq(Nat)]
    BY DEF WebReceive, TypeInv, TypeOK, MessageType, KindsRead
  <1>6. /\ Len(recvChan') = Len(recvChan) - 1 /\ Len(recvChan) \in Nat /\ msg = recvChan[1] /\ msg \in MessageType
        /\ \A i \in 1 .. Len(recvChan') : recvChan'[i] = recvChan[i + 1]
    BY <1>5, TailAt
  <1>7. ASSUME InChannel(m) PROVE FALSE
    <2>1. PICK i \in 1 .. Len(recvChan) : recvChan[i].p = m[1] /\ recvChan[i].kind # "nil" /\ recvChan[i].o = m[2]
      BY <1>7 DEF InChannel
    <2>2. CASE i = 1
      <3>1. msg.p = m[1] /\ msg.kind # "nil" /\ msg.o = m[2] /\ msg.p \in Partitions /\ msg.o \in Nat
        BY <1>6, <2>1, <2>2 DEF MessageType
      <3>2. given' = [given EXCEPT ![msg.p] = Append(given[msg.p], msg.o)]
        BY <3>1 DEF WebReceive
      <3> HIDE DEF msg
      <3>3. given'[m[1]] = Append(given[m[1]], m[2]) /\ given[m[1]] \in Seq(Nat) /\ m[2] \in Nat
        BY <1>5, <3>1, <3>2
      <3>4. Len(given[m[1]]) + 1 \in 1 .. Len(given'[m[1]]) /\ given'[m[1]][Len(given[m[1]]) + 1] = m[2]
        BY <3>3, AppendAt
      <3> QED
        BY <1>1, <3>4 DEF IsTaken
    <2>3. CASE i # 1
      <3>1. i - 1 \in 1 .. Len(recvChan') /\ recvChan'[i - 1] = recvChan[i]
        BY <1>6, <2>3
      <3> QED
        BY <1>1, <2>1, <3>1 DEF InChannel
    <2> QED
      BY <2>2, <2>3
  <1> QED
    BY <1>1, <1>3, <1>4, <1>7 DEF Gone

(* A message that arrives is beyond what has been read.                    *)
LEMMA ProduceLoss ==
  ASSUME TypeInv, PlaceInv, NEW p \in Partitions, Produce(p), NEW m \in Gone'
  PROVE  m \in Gone
  <1>1. m \in Places /\ Passed(m)' /\ ~IsTaken(m)' /\ ~InChannel(m)' /\ ~InHands(m)'
    BY DEF Gone
  <1>2. UNCHANGED <<list, reader, given, recvChan>>
    BY DEF Produce, readVars, webVars
  <1>3. Passed(m) /\ ~IsTaken(m) /\ ~InChannel(m) /\ ~InHands(m)
    BY <1>1, <1>2 DEF Passed, IsTaken, InChannel, InHands
  <1>4. m[2] < Len(topic[m[1]])
    <2>1. m[1] \in Partitions /\ m[2] \in Nat
      BY <1>1, PlaceTypes
    <2>2. /\ StoredIn(list, m[1]) < Len(topic[m[1]]) /\ reader[m[1]].next <= Len(topic[m[1]])
          /\ StoredIn(list, m[1]) \in Int /\ reader[m[1]].next \in Nat /\ Len(topic[m[1]]) \in Nat
      <3>1. topic[m[1]] \in Seq({"request", "garbage"})
        BY <2>1 DEF TypeInv, TypeOK
      <3>2. StoredIn(list, m[1]) \in Int /\ reader[m[1]].next \in Nat
        BY <2>1, OrderTypes
      <3> QED
        BY <2>1, <3>1, <3>2 DEF PlaceInv, InTopic
    <2>3. Reached(reader[m[1]]) <= reader[m[1]].next /\ Reached(reader[m[1]]) \in Int
      BY <2>2 DEF Reached
    <2> QED
      BY <1>3, <2>1, <2>2, <2>3 DEF Passed
  <1> QED
    BY <1>1, <1>3, <1>4 DEF Gone

(* A process that ends loses what is on its way.                           *)
LEMMA RestartLoss ==
  ASSUME TypeInv, Restart, NEW m \in Gone'
  PROVE  m \in Gone \cup OnTheWay
  <1>1. m \in Places /\ Passed(m)' /\ ~IsTaken(m)' /\ m[2] < Len(topic'[m[1]])
    BY DEF Gone
  <1>2. UNCHANGED <<topic, list, given>> /\ reader' = Closed
    BY DEF Restart
  <1>3. ~IsTaken(m) /\ m[2] < Len(topic[m[1]])
    BY <1>1, <1>2 DEF IsTaken
  <1>4. Passed(m)
    <2>1. m[1] \in Partitions /\ m[2] \in Nat
      BY <1>1, PlaceTypes
    <2>2. Reached(reader'[m[1]]) = 0
      BY <1>2, <2>1 DEF Closed, NoReader, Reached
    <2> QED
      BY <1>1, <1>2, <2>1, <2>2 DEF Passed
  <1> QED
    BY <1>1, <1>3, <1>4 DEF Gone, OnTheWay

(* The errors and crashes that have happened are never forgotten.          *)
LEMMA CountersGrow ==
  ASSUME TypeInv, [Next]_vars
  PROVE  /\ faults.used \in Nat /\ faults'.used \in Nat /\ crashes.used \in Nat /\ crashes'.used \in Nat
         /\ faults.used <= faults'.used /\ crashes.used <= crashes'.used
         /\ crashes'.used = crashes.used \/ crashes'.used = crashes.used + 1
         /\ Restart => crashes'.used = crashes.used + 1
         /\ \A p \in Partitions : Fails(p) => faults'.used = faults.used + 1
  <1>1. /\ faults \in FaultBudget /\ faults' \in FaultBudget /\ crashes \in Budget /\ crashes' \in Budget
    BY TypeStep DEF TypeInv
  <1>2. /\ faults.used \in Nat /\ faults'.used \in Nat /\ crashes.used \in Nat /\ crashes'.used \in Nat
    BY <1>1 DEF FaultBudget, Budget
  <1>3. faults' = faults \/ \E w \in FaultPlaces : Fault(w)
    BY DEF Next, vars, Restart, Reads, ReadMessage, StoreOffset, PushMessage, Web, WebReceive,
       WebLookup, WebReply, WebRest,
        Sends, ProducerStart, ProducerTake, ProducerSend, Produce, SetupStep, NewConsumerExists, NewConsumerGet,
        CreateListExists, CreateListDelete, CreateListPush, Consume, NoFault, FaultPlaces
  <1>4. faults'.used = faults.used \/ faults'.used = faults.used + 1
    BY <1>3, Spending
  <1>5. crashes' = crashes \/ Restart
    BY DEF Next, vars, Reads, ReadMessage, StoreOffset, PushMessage, ReaderRest, Web, WebReceive,
       WebLookup, WebReply,
        WebRest, Sends, ProducerStart, ProducerTake, ProducerSend, SendRest, Produce, SetupStep, NewConsumerExists,
        NewConsumerGet, CreateListExists, CreateListDelete, CreateListPush, Consume, SetupRest
  <1>6. Restart => crashes'.used = crashes.used + 1
    BY Spending DEF Restart
  <1>7. \A p \in Partitions : Fails(p) => faults'.used = faults.used + 1
    BY Spending DEF Fails
  <1> QED
    BY <1>2, <1>4, <1>5, <1>6, <1>7

(* One more crash explains c losses, one more error one.                   *)
LEMMA Explaining ==
  ASSUME NEW c \in Nat, NEW u \in Nat, NEW f \in Nat, NEW v \in Nat, NEW g \in Nat,
         v = u \/ v = u + 1, f <= g
  PROVE  /\ c * u + f \in Nat /\ c * v + g \in Nat /\ c * u + f <= c * v + g
         /\ v = u + 1 => c * u + f + c <= c * v + g
         /\ g = f + 1 => c * u + f + 1 <= c * v + g
  <1>1. c * (u + 1) = c * u + c /\ c * u \in Nat
    OBVIOUS
  <1>2. CASE v = u
    BY <1>1, <1>2
  <1>3. CASE v = u + 1
    BY <1>1, <1>3
  <1> QED
    BY <1>2, <1>3

(* Each step loses no more than it explains.                               *)
LEMMA GoneStep ==
  ASSUME TypeInv, PlaceInv, ListInv, HeldInv, GoneInv, [Next]_vars
  PROVE  GoneInv'
  <1> DEFINE c == ChanCap + NParts
             u == crashes.used
             v == crashes'.used
             f == faults.used
             g == faults'.used
  <1>1. c \in Nat /\ Explained = c * u + f /\ Explained' = c * v + g
    BY ConstantsOK DEF Explained
  <1>2. /\ u \in Nat /\ v \in Nat /\ f \in Nat /\ g \in Nat /\ f <= g /\ (v = u \/ v = u + 1)
    BY CountersGrow
  <1>3. /\ Explained \in Nat /\ Explained' \in Nat /\ Explained <= Explained'
        /\ v = u + 1 => Explained + c <= Explained'
        /\ g = f + 1 => Explained + 1 <= Explained'
    <2> HIDE DEF c, u, v, f, g
    <2> QED
      BY <1>1, <1>2, Explaining
  <1>4. Cardinality(Gone) <= Explained /\ IsFiniteSet(Gone) /\ Cardinality(Gone) \in Nat /\ Cardinality(Gone') \in Nat
    BY GoneFinite DEF GoneInv
  <1>5. CASE Gone' \subseteq Gone
    <2>1. Cardinality(Gone') <= Cardinality(Gone)
      BY <1>4, <1>5, FS_Subset
    <2> QED
      BY <1>3, <1>4, <2>1 DEF GoneInv
  <1>6. ASSUME NEW p \in Partitions, Fails(p), Gone' \subseteq Gone \cup {<<p, reader[p].next - 1>>}
        PROVE  GoneInv'
    <2> DEFINE one == <<p, reader[p].next - 1>>
    <2>1. IsFiniteSet(Gone \cup {one}) /\ Cardinality(Gone \cup {one}) <= Cardinality(Gone) + 1
      <3> HIDE DEF one
      <3>1. /\ IsFiniteSet(Gone \cup {one})
            /\ Cardinality(Gone \cup {one}) = IF one \in Gone THEN Cardinality(Gone) ELSE Cardinality(Gone) + 1
        BY <1>4, FS_AddElement
      <3> QED
        BY <1>4, <3>1
    <2>2. Cardinality(Gone') <= Cardinality(Gone \cup {one}) /\ Cardinality(Gone \cup {one}) \in Nat
      BY <1>6, <2>1, FS_Subset, FS_CardinalityType
    <2>3. g = f + 1
      BY <1>6, CountersGrow
    <2> QED
      BY <1>3, <1>4, <2>1, <2>2, <2>3 DEF GoneInv
  <1>7. CASE Restart
    <2>1. Gone' \subseteq Gone \cup OnTheWay
      BY <1>7, RestartLoss
    <2>2. IsFiniteSet(OnTheWay) /\ Cardinality(OnTheWay) <= c /\ Cardinality(OnTheWay) \in Nat
      BY WayBound
    <2>3. /\ IsFiniteSet(Gone \cup OnTheWay)
          /\ Cardinality(Gone \cup OnTheWay) <= Cardinality(Gone) + Cardinality(OnTheWay)
          /\ Cardinality(Gone \cup OnTheWay) \in Nat
      <3>1. IsFiniteSet(Gone \cap OnTheWay) /\ Cardinality(Gone \cap OnTheWay) \in Nat
        BY <1>4, FS_Intersection, FS_CardinalityType
      <3>2. /\ IsFiniteSet(Gone \cup OnTheWay)
            /\ Cardinality(Gone \cup OnTheWay) = Cardinality(Gone) + Cardinality(OnTheWay) - Cardinality(Gone \cap OnTheWay)
        BY <1>4, <2>2, FS_Union
      <3> QED
        BY <1>4, <2>2, <3>1, <3>2, FS_CardinalityType
    <2>4. Cardinality(Gone') <= Cardinality(Gone \cup OnTheWay)
      BY <2>1, <2>3, FS_Subset
    <2>5. v = u + 1
      BY <1>7, CountersGrow
    <2> QED
      BY <1>1, <1>3, <1>4, <2>2, <2>3, <2>4, <2>5 DEF GoneInv
  <1>8. CASE \/ WebLookup \/ WebReply \/ (\E k \in Producers : Sends(k)) \/ UNCHANGED vars
    <2>1. UNCHANGED <<topic, list, reader, recvChan, given>>
      BY <1>8 DEF WebLookup, WebReply, WebRest, Sends, ProducerStart, ProducerTake, ProducerSend, SendRest, readVars,
         webVars, vars
    <2>2. Gone' = Gone
      BY <2>1 DEF Gone, Passed, IsTaken, InChannel, InHands
    <2> QED
      BY <1>5, <2>2
  <1>9. ASSUME NEW p \in Partitions, Reads(p) PROVE GoneInv'
    <2>1. CASE Fails(p)
      BY <1>6, <1>9, <2>1, ReaderLoss
    <2>2. CASE ~Fails(p)
      BY <1>5, <1>9, <2>2, ReaderLoss
    <2> QED
      BY <2>1, <2>2
  <1>10. CASE SetupStep \/ WebReceive \/ \E p \in Partitions : Produce(p)
    BY <1>5, <1>10, SetupLoss, ReceiveLoss, ProduceLoss
  <1> QED
    BY <1>7, <1>8, <1>9, <1>10 DEF Next, Web

(* No message is lost without a crash or an error that explains it.        *)
THEOREM LossIsBounded == Spec => []LossBounded
  <1>1. Init => HeldInv /\ GoneInv
    <2> SUFFICES ASSUME Init PROVE HeldInv /\ GoneInv
      OBVIOUS
    <2>1. HeldInv
      BY DEF Init, Closed, NoReader, HeldInv
    <2>2. \A m \in Places : Len(topic[m[1]]) = 0
      BY PlaceTypes DEF Init
    <2>3. Gone = {}
      BY <2>2, PlaceTypes DEF Gone
    <2>4. crashes.used \in Nat /\ faults.used \in Nat
      BY TypeInit DEF TypeInv, Budget, FaultBudget
    <2>5. Explained \in Nat
      BY <2>4, ConstantsOK, Explaining DEF Explained
    <2>6. Cardinality(Gone) = 0
      BY <2>3, FS_EmptySet
    <2> QED
      BY <2>1, <2>5, <2>6 DEF GoneInv
  <1>2. Inv /\ HeldInv /\ GoneInv /\ [Next]_vars => (HeldInv /\ GoneInv)'
    BY HeldStep, GoneStep DEF Inv
  <1>3. Inv /\ GoneInv => LossBounded
    <2> SUFFICES ASSUME Inv, GoneInv PROVE LossBounded
      OBVIOUS
    <2>1. Cardinality(Lost) <= Cardinality(Gone) /\ IsFiniteSet(Lost)
      BY LostGone, GoneFinite, FS_Subset DEF Inv
    <2>2. Cardinality(Lost) \in Nat
      BY <2>1, FS_CardinalityType
    <2>3. crashes.used \in Nat /\ faults.used \in Nat
      BY DEF Inv, TypeInv, Budget, FaultBudget
    <2>4. Explained \in Nat
      BY <2>3, ConstantsOK, Explaining DEF Explained
    <2>5. Cardinality(Lost) <= Explained
      BY <2>1, <2>2, <2>4, GoneFinite DEF GoneInv
    <2> QED
      BY <2>5 DEF LossBounded, Explained
  <1> QED
    BY <1>1, <1>2, <1>3, InvHolds, PTL DEF Spec

=============================================================================
