------------------------------ MODULE MqBridge ------------------------------
(***************************************************************************)
(* The bridge between the message queue and the web goroutine: msgqueue,   *)
(* msgqueue/kafka, cache/redis and the loop of WebTask.                    *)
(*                                                                         *)
(*  topic --> readers (one per partition) --> RecvMqChan --> web goroutine *)
(*  topic <-- producerRoutines <-- SendMqChan <-----------------'          *)
(*                                                                         *)
(* The offset of the last message read of each partition is kept in a      *)
(* Redis list, one element per partition; it survives a crash of the       *)
(* gateway, as the topics do. An empty list is a key that does not exist.  *)
(***************************************************************************)
EXTENDS Integers, Sequences, FiniteSets

CONSTANTS
  NParts,        (* partitions of the topic WebToGateway                   *)
  ChanCap,       (* capacity of the two channels (128)                     *)
  Producers,     (* the producerRoutines there may be                      *)
  MaxMsg,        (* bound: messages of the web per partition               *)
  Instances      (* what a behaviour may meet: a set of records of         *)
                 (*   at       where Redis or Kafka may fail               *)
                 (*   fault    bound: their commands that fail             *)
                 (*   garbage  bound: messages that are no JSON            *)
                 (*   crash    bound: ends of the gateway's process        *)
                 (*   starts   those of each process (ProducerRoutineNum)  *)

FaultPlaces == {"setup", "read", "start", "send"}

ASSUME ConstantsOK ==
  /\ NParts \in Nat \ {0} /\ ChanCap \in Nat \ {0} /\ MaxMsg \in Nat
  /\ Instances \subseteq [at : SUBSET FaultPlaces, fault : Nat, garbage : Nat, crash : Nat,
                    starts : SUBSET Producers]

VARIABLES
  topic,         (* topic[p]: the kinds of the messages, offset 0 first    *)
  list,          (* the Redis list <topic>OffsetRedisKey                   *)
  replies,       (* replies in the topic GatewayToWeb                      *)
  setup,         (* where NewConsumer of the consumerRoutine is            *)
  offsets,       (* its variable of that name                              *)
  pushed,        (* elements CreateListByInt64Slice has pushed             *)
  reader,        (* reader[p]: the goroutine of the partition              *)
  recvChan,      (* RecvMqChan = WebToGatewayChan                          *)
  web,           (* "receive", "lookup", "reply", "returned"               *)
  sendChan,      (* SendMqChan = gatewayToWebChan: replies in it           *)
  producer,      (* producer[k]: "start", "idle", "send", "returned"; or   *)
                 (* "none": the process has no producerRoutine k           *)
  given,         (* history: given[p]: the offsets of the messages of p    *)
                 (* that the web goroutine took, in that order             *)
  garbage, faults, crashes   (* what has happened, and at most may         *)

Partitions == 0 .. NParts - 1

setupVars == <<setup, offsets, pushed>>
readVars  == <<reader, recvChan>>
webVars   == <<web, sendChan, given>>
sendVars  == <<producer, replies>>
vars    == <<topic, list, setupVars, readVars, webVars, sendVars, garbage, faults, crashes>>

(* kind "nil" stands for the nil that Read returns with an error.          *)
Message(p, o, kind) == [p |-> p, o |-> o, kind |-> kind]

(* pc: "closed"; "read": in Read, before a message; "store": it has        *)
(* message next - 1; "push": at RecvMqChan <- data.                        *)
NoReader == [pc |-> "closed", next |-> 0, kind |-> "nil"]

Closed     == [p \in Partitions |-> NoReader]
Started(S) == [k \in Producers |-> IF k \in S THEN "start" ELSE "none"]

AtMost(n) == [used |-> 0, most |-> n]
Spend(b)  == b.used < b.most /\ b' = [b EXCEPT !.used = @ + 1]

Init ==
  /\ topic = [p \in Partitions |-> <<>>] /\ list = <<>> /\ replies = 0
  /\ setup = "exists" /\ offsets = <<>> /\ pushed = 0
  /\ reader = Closed /\ recvChan = <<>> /\ web = "receive" /\ sendChan = 0
  /\ given = [p \in Partitions |-> <<>>]
  /\ \E i \in Instances : /\ faults = [used |-> 0, most |-> i.fault, at |-> i.at]
                          /\ garbage = AtMost(i.garbage) /\ crashes = AtMost(i.crash)
                          /\ producer = Started(i.starts)

Fault(where) == where \in faults.at /\ Spend(faults)
NoFault      == UNCHANGED faults
SetupRest    == UNCHANGED <<topic, readVars, webVars, sendVars, garbage, crashes>>

-----------------------------------------------------------------------------
(* NewConsumer. An error ends the consumerRoutine, and nothing starts it   *)
(* again before the process is. A command whose answer does not come may   *)
(* have been done or not.                                                  *)

(* IsKeyExist takes an error for FALSE.                                    *)
NewConsumerExists ==
  /\ setup = "exists"
  /\ \/ list # <<>> /\ NoFault /\ setup' = "get" /\ UNCHANGED offsets
     \/ /\ (list = <<>> /\ NoFault) \/ Fault("setup")
        /\ offsets' = [i \in 1 .. NParts |-> -1] /\ setup' = "existsAgain"
  /\ UNCHANGED <<list, pushed>> /\ SetupRest

(* GetInt64SliceList                                                       *)
NewConsumerGet ==
  /\ setup = "get"
  /\ \/ NoFault /\ offsets' = list /\ setup' = "consume"
     \/ Fault("setup") /\ setup' = "returned" /\ UNCHANGED offsets
  /\ UNCHANGED <<list, pushed>> /\ SetupRest

(* CreateListByInt64Slice asks again whether the key exists.               *)
CreateListExists ==
  /\ setup = "existsAgain"
  /\ \/ list # <<>> /\ NoFault /\ setup' = "delete"
     \/ ((list = <<>> /\ NoFault) \/ Fault("setup")) /\ setup' = "push"
  /\ UNCHANGED <<list, offsets, pushed>> /\ SetupRest

CreateListDelete ==
  /\ setup = "delete"
  /\ \/ NoFault /\ list' = <<>> /\ setup' = "push"
     \/ Fault("setup") /\ list' \in {list, <<>>} /\ setup' = "returned"
  /\ UNCHANGED <<offsets, pushed>> /\ SetupRest

(* One RPUSH per partition.                                                *)
CreateListPush ==
  /\ setup = "push"
  /\ \/ /\ NoFault /\ list' = Append(list, -1) /\ pushed' = pushed + 1
        /\ setup' = IF pushed' = NParts THEN "consume" ELSE "push"
     \/ /\ Fault("setup") /\ list' \in {list, Append(list, -1)} /\ setup' = "returned"
        /\ UNCHANGED pushed
  /\ UNCHANGED offsets /\ SetupRest

(* Mutants of StartOffset: the message before is read again, one is        *)
(* skipped, sarama.OffsetNewest as the end of line 426 has it.             *)
StartAgain(p)    == offsets[p + 1] + (IF offsets[p + 1] = -1 THEN 1 ELSE 0)
StartAfterNext(p) == offsets[p + 1] + 2
StartNewest(p)   == Len(topic[p])

(* The offset each partition is consumed from.                             *)
StartOffset(p) == offsets[p + 1] + 1

(* offsets[i] is out of range when the list is too short: a panic.         *)
Consume ==
  /\ setup = "consume"
  /\ \/ /\ NoFault /\ Len(offsets) >= NParts /\ setup' = "running"
        /\ reader' = [p \in Partitions |->
                       [pc |-> "read", next |-> StartOffset(p), kind |-> "nil"]]
     \/ NoFault /\ Len(offsets) < NParts /\ setup' = "panicked" /\ UNCHANGED reader
     \/ Fault("setup") /\ setup' = "returned" /\ UNCHANGED reader
  /\ UNCHANGED <<topic, list, offsets, pushed, recvChan, webVars, sendVars, garbage, crashes>>

-----------------------------------------------------------------------------
(* The goroutine of a partition: Consumer.Read, then the push.             *)

ReaderRest == UNCHANGED <<topic, setupVars, webVars, sendVars, garbage, crashes>>

ReadMessage(p) ==
  /\ setup # "panicked" /\ reader[p].pc = "read" /\ reader[p].next < Len(topic[p])
  /\ reader' = [reader EXCEPT ![p] = [pc |-> "store", next |-> @.next + 1,
                                      kind |-> topic[p][@.next + 1]]]
  /\ UNCHANGED <<list, recvChan, faults>> /\ ReaderRest

Stores(p) == list' = [list EXCEPT ![p + 1] = reader[p].next - 1]

(* Mutant of StoreOffset: the commented return of msgqueue.go:74.          *)
StoreOrReturn(p) ==
  /\ setup # "panicked" /\ reader[p].pc = "store"
  /\ \/ NoFault /\ Stores(p) /\ reader' = [reader EXCEPT ![p].pc = "push"]
     \/ /\ Fault("read") /\ (Stores(p) \/ UNCHANGED list)
        /\ reader' = [reader EXCEPT ![p].pc = "closed"]
  /\ UNCHANGED recvChan /\ ReaderRest

(* LSET. After an error Read returns nil.                                  *)
StoreOffset(p) ==
  /\ setup # "panicked" /\ reader[p].pc = "store"
  /\ \/ NoFault /\ Stores(p) /\ reader' = [reader EXCEPT ![p].pc = "push"]
     \/ /\ Fault("read") /\ (Stores(p) \/ UNCHANGED list)
        /\ reader' = [reader EXCEPT ![p].pc = "push", ![p].kind = "nil"]
  /\ UNCHANGED recvChan /\ ReaderRest

(* The error is logged and nil is pushed like a message.                   *)
PushMessage(p) ==
  /\ setup # "panicked" /\ reader[p].pc = "push" /\ Len(recvChan) < ChanCap
  /\ recvChan' = Append(recvChan, Message(p, reader[p].next - 1, reader[p].kind))
  /\ reader' = [reader EXCEPT ![p].pc = "read"]
  /\ UNCHANGED <<list, faults>> /\ ReaderRest

-----------------------------------------------------------------------------
(* The goroutine of WebTask and the producerRoutines.                      *)

WebRest == UNCHANGED <<topic, list, setupVars, reader, sendVars, garbage, faults, crashes>>

(* What is no JSON, nil included, ends the goroutine.                      *)
WebReceive ==
  /\ setup # "panicked" /\ web = "receive" /\ recvChan # <<>>
  /\ LET msg == Head(recvChan) IN
       /\ web' = IF msg.kind = "request" THEN "lookup" ELSE "returned"
       /\ given' = IF msg.kind = "nil" THEN given
                   ELSE [given EXCEPT ![msg.p] = Append(@, msg.o)]
  /\ recvChan' = Tail(recvChan)
  /\ UNCHANGED sendChan /\ WebRest

(* The Thing is looked up and its command pushed under gw.lock. That both  *)
(* come to an end below the capacity of the Things' channels is            *)
(* WebAnswered of Gateway; here they do, under the fairness of Web.        *)
WebLookup ==
  /\ setup # "panicked" /\ web = "lookup" /\ web' = "reply"
  /\ UNCHANGED <<recvChan, sendChan, given>> /\ WebRest

WebReply ==
  /\ setup # "panicked" /\ web = "reply" /\ sendChan < ChanCap
  /\ sendChan' = sendChan + 1 /\ web' = "receive"
  /\ UNCHANGED <<recvChan, given>> /\ WebRest

SendRest == UNCHANGED <<topic, list, setupVars, readVars, web, given, garbage, crashes>>

(* NewProducer. Its error ends the producerRoutine, and nothing starts it  *)
(* again before the process is.                                            *)
ProducerStart(k) ==
  /\ setup # "panicked" /\ producer[k] = "start"
  /\ \/ NoFault /\ producer' = [producer EXCEPT ![k] = "idle"]
     \/ Fault("start") /\ producer' = [producer EXCEPT ![k] = "returned"]
  /\ UNCHANGED <<sendChan, replies>> /\ SendRest

ProducerTake(k) ==
  /\ setup # "panicked" /\ producer[k] = "idle" /\ sendChan > 0
  /\ sendChan' = sendChan - 1 /\ producer' = [producer EXCEPT ![k] = "send"]
  /\ UNCHANGED <<replies, faults>> /\ SendRest

(* Mutant of ProducerSend: the producerRoutine sends one reply.            *)
ProducerSendOne(k) ==
  /\ setup # "panicked" /\ producer[k] = "send" /\ replies < Cardinality(Producers)
  /\ NoFault /\ replies' = replies + 1
  /\ producer' = [producer EXCEPT ![k] = "idle"]
  /\ UNCHANGED sendChan /\ SendRest

(* The AsyncProducer sends it later; an error is only logged.              *)
ProducerSend(k) ==
  /\ setup # "panicked" /\ producer[k] = "send"
  /\ \/ NoFault /\ replies' = replies + 1
     \/ Fault("send") /\ UNCHANGED replies
  /\ producer' = [producer EXCEPT ![k] = "idle"]
  /\ UNCHANGED sendChan /\ SendRest

-----------------------------------------------------------------------------
(* The web sends a message.                                                *)
Produce(p) ==
  /\ Len(topic[p]) < MaxMsg
  /\ \/ topic' = [topic EXCEPT ![p] = Append(@, "request")] /\ UNCHANGED garbage
     \/ /\ Spend(garbage)
        /\ topic' = [topic EXCEPT ![p] = Append(@, "garbage")]
  /\ UNCHANGED <<list, setupVars, readVars, webVars, sendVars, faults, crashes>>

(* The process ends, if it has not panicked already, and is started again. *)
Restart ==
  /\ Spend(crashes)
  /\ setup' = "exists" /\ offsets' = <<>> /\ pushed' = 0
  /\ reader' = Closed /\ recvChan' = <<>> /\ web' = "receive" /\ sendChan' = 0
  /\ producer' = Started({k \in Producers : producer[k] # "none"})
  /\ UNCHANGED <<topic, list, replies, given, garbage, faults>>

SetupStep == \/ NewConsumerExists \/ NewConsumerGet \/ CreateListExists
             \/ CreateListDelete \/ CreateListPush \/ Consume
Reads(p)  == ReadMessage(p) \/ StoreOffset(p) \/ PushMessage(p)
Web       == WebReceive \/ WebLookup \/ WebReply
Sends(k)  == ProducerStart(k) \/ ProducerTake(k) \/ ProducerSend(k)

Next ==
  \/ SetupStep \/ Web \/ Restart
  \/ \E p \in Partitions : Reads(p) \/ Produce(p)
  \/ \E k \in Producers : Sends(k)

(* The Go scheduler runs every goroutine that can go on; nothing is        *)
(* assumed of the web, nor of the process that ends.                       *)
Fairness ==
  /\ WF_vars(SetupStep) /\ WF_vars(Web)
  /\ \A p \in Partitions : WF_vars(Reads(p))
  /\ \A k \in Producers : WF_vars(Sends(k))

Spec == Init /\ [][Next]_vars
FairSpec == Spec /\ Fairness

-----------------------------------------------------------------------------
(* The types of the variables.                                             *)
TypeOK ==
  /\ topic \in [Partitions -> Seq({"request", "garbage"})]
  /\ list \in Seq(Int) /\ offsets \in Seq(Int)
  /\ setup \in {"exists", "get", "existsAgain", "delete", "push", "consume",
                "running", "returned", "panicked"}
  /\ pushed \in 0 .. NParts
  /\ reader \in [Partitions -> [pc : {"closed", "read", "store", "push"}, next : Nat,
                                kind : {"request", "garbage", "nil"}]]
  /\ recvChan \in Seq([p : Partitions, o : Nat, kind : {"request", "garbage", "nil"}])
  /\ Len(recvChan) <= ChanCap
  /\ web \in {"receive", "lookup", "reply", "returned"} /\ sendChan \in 0 .. ChanCap
  /\ producer \in [Producers -> {"none", "start", "idle", "send", "returned"}]
  /\ replies \in Nat
  /\ given \in [Partitions -> Seq(Nat)]

(* A message is its partition and its offset.                              *)
Taken       == {m \in Partitions \X (0 .. MaxMsg) :
                 \E i \in DOMAIN given[m[1]] : given[m[1]][i] = m[2]}
Messages    == {m \in Partitions \X (0 .. MaxMsg) : m[2] < Len(topic[m[1]])}
Stored(p)   == IF Len(list) > p THEN list[p + 1] ELSE -1
Coming(p)   == {recvChan[i].o : i \in {j \in DOMAIN recvChan :
                                         recvChan[j].p = p /\ recvChan[j].kind # "nil"}}
               \cup IF reader[p].pc = "push" /\ reader[p].kind # "nil"
                    THEN {reader[p].next - 1} ELSE {}

(* Stored as read, but neither given to the web goroutine nor on its way.  *)
Lost == {m \in Messages : m[2] <= Stored(m[1]) /\ m \notin Taken /\ m[2] \notin Coming(m[1])}

(* The messages that the order "offset first, delivery second" loses are   *)
(* those of the channel and of the readers' hands for each restart of the  *)
(* process, and one for each command of Read to Redis that failed: a start *)
(* goes on where the last process stopped (kafka.go:404-426).              *)
LossBounded == Cardinality(Lost) <= (ChanCap + NParts) * crashes.used + faults.used

(* Over any crashes, garbage and errors of Read, the web goroutine is      *)
(* given the messages of a partition in their order and none twice: what   *)
(* Delivery says (kafka.go:451-473, msgqueue.go:61-81). Not so when        *)
(* NewConsumer meets errors: IsKeyExist takes one for an absent list.      *)
Abstract == INSTANCE Delivery WITH
  length <- [p \in Partitions |-> Len(topic[p])],
  given  <- [p \in Partitions |-> IF "setup" \in faults.at THEN <<>> ELSE given[p]]
InOrderAtMostOnce == Abstract!Spec

(* A list that a process which has ended between two RPUSHes left too      *)
(* short: the living process is not the one that fills it.                 *)
ShortList == Len(list) \in 1 .. NParts - 1 /\ setup # "push"

(* Without errors, whatever ends the process and wherever it stands, each  *)
(* message is given to the web goroutine or lost with a process in the     *)
(* end; but once a process has ended between two RPUSHes of the list       *)
(* nothing more is read, in no later process (redis.go:96-103,             *)
(* kafka.go:424).                                                          *)
ServedOrLost ==
  \A p \in Partitions : \A o \in 0 .. MaxMsg - 1 :
    <<p, o>> \in Messages ~> \/ faults.used + garbage.used > 0 \/ ShortList
                             \/ <<p, o>> \in Taken \cup Lost

(* While nothing fails every request is replied to, with channels that are *)
(* full and whichever producerRoutine takes the reply.                     *)
Harmed == faults.used + garbage.used + crashes.used > 0
Answered ==
  \A p \in Partitions : \A o \in 0 .. MaxMsg - 1 :
    <<p, o>> \in Messages ~> \/ Harmed
                             \/ <<p, o>> \in Taken /\ replies = Cardinality(Taken)

(* The web goroutine has returned, or stands for good at a full           *)
(* gatewayToWebChan that no producerRoutine is left to empty.              *)
WebStopped ==
  \/ web = "returned"
  \/ /\ web = "reply" /\ sendChan = ChanCap
     /\ \A k \in Producers : producer[k] \in {"none", "returned"}

(* Two things stop the remote control for good, and nothing else does      *)
(* while the process lives and its consumers were set up: an error of Read *)
(* is enough, the nil it delivers ends the web goroutine                   *)
(* (msgqueue.go:72-78, gateway.go:73-77), and so is NewProducer's of all   *)
(* the producerRoutines (msgqueue.go:102-106, gateway.go:107). Every       *)
(* message that the goroutine takes before is served, also by the last     *)
(* producerRoutine that is left.                                           *)
ServedUntilStopped ==
  \A p \in Partitions : \A o \in 0 .. MaxMsg - 1 :
    <<p, o>> \in Messages ~> \/ crashes.used > 0 \/ "setup" \in faults.at
                             \/ WebStopped \/ <<p, o>> \in Taken
=============================================================================
