------------------------ MODULE RemoteControlProofs ------------------------
(***************************************************************************)
(* What holds of RemoteControl whatever the web asks for, how often, and   *)
(* however much fails: the types, that no handler calls a timer that was   *)
(* never made, and that both sides are at the same operation. The last     *)
(* rests on counting what is under way between them.                       *)
(***************************************************************************)
EXTENDS RemoteControl, RequestTimerProofs, FiniteSetTheorems

Req  == "EventRemoteOperationRequest"
Told == "EventDispatcherAckMessage"
End  == "EventRemoteOperationEnd"
Ack  == "EventRemoteOperationAck"

(* What the queues and the frames of each direction hold.                  *)
AnyEvent  == [ev : DevEvents, op : Operations \cup Commands \cup {NoOperation}]
Requests  == [ev : {Req}, op : Commands]
ToDevice  == [ev : {Req, Told}, op : Operations]
ToGateway == [ev : {Told, End, Ack}, op : Operations]
OfDevice  == [ev : GwEvents, op : Operations]
             \cup [ev : {"EventConnectServer", "EventLoginSuccess"}, op : {NoOperation}]

Budget == [used : Nat, most : Nat]

TypeInv ==
  /\ conn \in {"up", "broken", "login"} /\ reader \in BOOLEAN
  /\ gw \in Control /\ dev \in Control
  /\ g2d \in Seq(ToDevice) /\ d2g \in Seq(ToGateway)
  /\ gQueue \in Seq(Requests \cup ToGateway) /\ dQueue \in Seq(OfDevice)
  /\ TimerOK(gTimer) /\ TimerOK(dTimer)
  /\ commands \in [used : Nat, most : Nat, of : SUBSET Commands]
  /\ commands.used <= commands.most
  /\ expired \in Budget /\ faults \in Budget /\ breaks \in Budget
  /\ dev.status \in {"DispatcherAckMessageStatus", "RemoteOperationEndStatus",
                     "RemoteOperationAckStatus"} => dev.operation \in Operations

(* How many events of one kind a queue holds.                              *)
Places(q, e) == {i \in 1 .. Len(q) : q[i].ev = e}
Count(q, e)  == Cardinality(Places(q, e))
Is(m, e)     == IF m.ev = e THEN 1 ELSE 0

(* Every timer was started for a command of the web.                       *)
BoundInv ==
  /\ Count(gQueue, Req) + Goroutines(gTimer) <= commands.used
  /\ Count(gQueue, Req) + Count(g2d, Req) + Count(dQueue, Req) + Count(dQueue, End)
       + Goroutines(dTimer) <= commands.used

(* The reader's last push is its last: behind it come only the device's    *)
(* own events.                                                             *)
OwnBehind(q) ==
  \A i, j \in 1 .. Len(q) :
    i < j /\ q[i].ev = "EventConnectServer" => q[j].ev \notin {Req, "EventConnectServer"}
LastInv == OwnBehind(dQueue) /\ (reader => Count(dQueue, "EventConnectServer") = 0)

(* What is under way: requests and their answers, which concern the        *)
(* gateway's operation, and all the rest, which concerns the device's.     *)
Requested == Count(dQueue, Req) + Count(g2d, Req)
Answered  == Count(gQueue, Told) + Count(d2g, Told)
Ending    == Count(dQueue, End)
Ended     == Count(gQueue, End) + Count(d2g, End)
Acking    == Count(dQueue, Ack)
Acked     == Count(gQueue, Ack) + Count(d2g, Ack)
Tolds     == Count(dQueue, Told) + Count(g2d, Told)

(* An answer is under way only to a side that has made its timers.         *)
MadeInv ==
  /\ gw.status # "panic" /\ dev.status # "panic"
  /\ ~gw.made => Requested = 0 /\ Answered = 0
  /\ ~dev.made => Tolds = 0 /\ Ended = 0 /\ Acking = 0 /\ Acked = 0

(* Until a timer runs out, one event at most of each operation is under    *)
(* way, and which one tells where the other side is.                       *)
NoneFired == gTimer.fired = 0 /\ dTimer.fired = 0

Own(q, e, op) == \A i \in 1 .. Len(q) : q[i].ev = e => q[i].op = op
OwnDevice(dq, gd, gq, dg, op) ==
  /\ Own(dq, Told, op) /\ Own(dq, End, op) /\ Own(dq, Ack, op) /\ Own(gd, Told, op)
  /\ Own(gq, End, op) /\ Own(gq, Ack, op) /\ Own(dg, End, op) /\ Own(dg, Ack, op)
OwnGateway(dq, gd, gq, dg, op) ==
  Own(dq, Req, op) /\ Own(gd, Req, op) /\ Own(gq, Told, op) /\ Own(dg, Told, op)
OwnInv == OwnDevice(dQueue, g2d, gQueue, d2g, dev.operation)
          /\ OwnGateway(dQueue, g2d, gQueue, d2g, gw.operation)

TokenInv ==
  /\ Ending + Ended + Acking + Acked + Tolds <= 1
  /\ Requested + Answered <= 1
  /\ gw.status # "RemoteOperationReqStatus" => Requested = 0 /\ Answered = 0
  /\ Ending > 0 => dev.status = "DispatcherAckMessageStatus"
  /\ Ended > 0 \/ Acking > 0 => dev.status = "RemoteOperationEndStatus"
  /\ Acked > 0 => dev.status = "RemoteOperationAckStatus"
  /\ Tolds > 0 => dev.status \in {"RemoteOperationEndStatus", "RemoteOperationAckStatus"}

SidesInv ==
  /\ Answered > 0 \/ gw.status = "DispatcherAckMessageStatus" =>
       /\ dev.operation = gw.operation
       /\ dev.status \in {"DispatcherAckMessageStatus", "RemoteOperationEndStatus"}
       /\ Tolds = 0 /\ Acking = 0
  /\ gw.status = "RemoteOperationEndStatus" =>
       /\ dev.operation = gw.operation
       /\ dev.status \in {"RemoteOperationEndStatus", "RemoteOperationAckStatus"}
       /\ dev.status = "RemoteOperationAckStatus" => Tolds = 0

PhaseInv == expired.used = 0 => NoneFired /\ OwnInv /\ TokenInv /\ SidesInv

-----------------------------------------------------------------------------
(* Queues.                                                                 *)

(* The elements of a sequence with one more, and with one less.            *)
LEMMA AppendAt ==
  ASSUME NEW S, NEW s \in Seq(S), NEW e \in S
  PROVE  /\ Append(s, e) \in Seq(S) /\ Len(Append(s, e)) = Len(s) + 1
         /\ \A i \in 1 .. Len(s) : Append(s, e)[i] = s[i]
         /\ Append(s, e)[Len(s) + 1] = e
         /\ \A i \in 1 .. Len(Append(s, e)) : i \in 1 .. Len(s) \/ i = Len(s) + 1
  OBVIOUS

LEMMA TailAt ==
  ASSUME NEW S, NEW s \in Seq(S), s # <<>>
  PROVE  /\ Tail(s) \in Seq(S) /\ Len(Tail(s)) = Len(s) - 1 /\ Len(s) \in Nat \ {0}
         /\ \A i \in 1 .. Len(Tail(s)) : i + 1 \in 1 .. Len(s) /\ Tail(s)[i] = s[i + 1]
         /\ Head(s) = s[1] /\ Head(s) \in S
  OBVIOUS

(* A queue holds finitely many events, and none of a kind it counts none   *)
(* of.                                                                     *)
LEMMA Counting ==
  ASSUME NEW S, NEW q \in Seq(S), NEW e
  PROVE  /\ Count(q, e) \in Nat /\ IsFiniteSet(Places(q, e))
         /\ Count(q, e) = 0 <=> \A i \in 1 .. Len(q) : q[i].ev # e
<1>1. Len(q) \in Nat
  OBVIOUS
<1>2. IsFiniteSet(1 .. Len(q))
  <2>1. \A n \in Nat : IsFiniteSet(1 .. n)
    BY FS_Interval
  <2> QED
    BY <1>1, <2>1
<1>3. IsFiniteSet(Places(q, e)) /\ Places(q, e) \subseteq 1 .. Len(q)
  BY <1>2, FS_Subset DEF Places
<1>4. Count(q, e) \in Nat /\ (Count(q, e) = 0 <=> Places(q, e) = {})
  BY <1>3, FS_CardinalityType, FS_EmptySet DEF Count
<1> QED
  BY <1>3, <1>4 DEF Places

(* The empty queue holds none.                                             *)
LEMMA CountEmpty == \A e : Count(<<>>, e) = 0
<1> SUFFICES ASSUME NEW e PROVE Count(<<>>, e) = 0
  OBVIOUS
<1>1. <<>> \in Seq({})  /\ Len(<<>>) = 0
  OBVIOUS
<1>2. \A i \in 1 .. Len(<<>>) : <<>>[i].ev # e
  BY <1>1
<1> QED
  BY <1>1, <1>2, Counting

(* One more event.                                                         *)
LEMMA CountAppend ==
  ASSUME NEW S, NEW q \in Seq(S), NEW m \in S
  PROVE  \A e : Count(Append(q, m), e) = Count(q, e) + Is(m, e)
<1> SUFFICES ASSUME NEW e PROVE Count(Append(q, m), e) = Count(q, e) + Is(m, e)
  OBVIOUS
<1> DEFINE r == Append(q, m)
<1>1. /\ Len(r) = Len(q) + 1 /\ \A i \in 1 .. Len(q) : r[i] = q[i]
      /\ r[Len(q) + 1] = m /\ \A i \in 1 .. Len(r) : i \in 1 .. Len(q) \/ i = Len(q) + 1
  BY AppendAt
<1>2. Len(q) \in Nat
  OBVIOUS
<1> HIDE DEF r
<1>3. CASE m.ev = e
  <2>1. Places(r, e) = Places(q, e) \cup {Len(q) + 1} /\ Len(q) + 1 \notin Places(q, e)
    BY <1>1, <1>2, <1>3 DEF Places
  <2>2. Cardinality(Places(r, e)) = Cardinality(Places(q, e)) + 1
    BY <2>1, Counting, FS_AddElement
  <2> QED
    BY <1>3, <2>2 DEF Count, Is, r
<1>4. CASE m.ev # e
  <2>1. Places(r, e) = Places(q, e)
    BY <1>1, <1>2, <1>4 DEF Places
  <2>2. Count(q, e) \in Nat
    BY Counting
  <2> QED
    BY <1>4, <2>1, <2>2 DEF Count, Is, r
<1> QED
  BY <1>3, <1>4

(* One event less.                                                         *)
LEMMA CountTail ==
  ASSUME NEW S, NEW q \in Seq(S), q # <<>>
  PROVE  \A e : Count(Tail(q), e) = Count(q, e) - Is(Head(q), e)
<1> SUFFICES ASSUME NEW e PROVE Count(Tail(q), e) = Count(q, e) - Is(Head(q), e)
  OBVIOUS
<1> DEFINE r == Tail(q)
           Rest == Places(q, e) \ {1}
           f == [i \in Rest |-> i - 1]
<1>1. /\ r \in Seq(S) /\ Len(r) = Len(q) - 1 /\ Len(q) \in Nat \ {0}
      /\ \A i \in 1 .. Len(r) : i + 1 \in 1 .. Len(q) /\ r[i] = q[i + 1]
      /\ Head(q) = q[1]
  BY TailAt
<1> HIDE DEF r
<1>2. \A i \in Rest : i \in 2 .. Len(q) /\ i - 1 \in Places(r, e)
  <2> SUFFICES ASSUME NEW i \in Rest PROVE i \in 2 .. Len(q) /\ i - 1 \in Places(r, e)
    OBVIOUS
  <2>1. i \in 2 .. Len(q) /\ q[i].ev = e
    BY <1>1 DEF Places
  <2>2. i - 1 \in 1 .. Len(r) /\ (i - 1) + 1 = i
    BY <1>1, <2>1
  <2> QED
    BY <1>1, <2>1, <2>2 DEF Places
<1>3. \A j \in Places(r, e) : j + 1 \in Rest /\ (j + 1) - 1 = j
  BY <1>1 DEF Places
<1>4. IsFiniteSet(Places(q, e)) /\ IsFiniteSet(Rest)
  BY Counting, FS_Subset
<1>5. f \in Surjection(Rest, Places(r, e)) /\ f \in Injection(Rest, Places(r, e))
  <2>1. f \in [Rest -> Places(r, e)]
    BY <1>2
  <2>2. \A j \in Places(r, e) : \E i \in Rest : f[i] = j
    BY <1>3
  <2>3. \A i, k \in Rest : f[i] = f[k] => i = k
    BY <1>2
  <2> QED
    BY <2>1, <2>2, <2>3 DEF Surjection, Injection, IsInjective
<1> HIDE DEF f
<1>6. Cardinality(Places(r, e)) = Cardinality(Rest)
  BY <1>4, <1>5, FS_Surjection
<1>7. CASE Head(q).ev = e
  <2>1. 1 \in Places(q, e) /\ Places(q, e) = Rest \cup {1} /\ 1 \notin Rest
    BY <1>1, <1>7 DEF Places
  <2> HIDE DEF Rest
  <2>2. Cardinality(Places(q, e)) = Cardinality(Rest) + 1
    BY <1>4, <2>1, FS_AddElement
  <2>3. Cardinality(Rest) \in Nat
    BY <1>4, FS_CardinalityType
  <2> QED
    BY <1>6, <1>7, <2>2, <2>3 DEF Count, Is, r
<1>8. CASE Head(q).ev # e
  <2>1. Rest = Places(q, e)
    BY <1>1, <1>8 DEF Places
  <2> HIDE DEF Rest
  <2>2. Count(q, e) \in Nat /\ Count(r, e) = Count(q, e)
    BY <1>6, <2>1, Counting DEF Count
  <2> QED
    BY <1>8, <2>2 DEF Is, r
<1> QED
  BY <1>7, <1>8

(* An event at the head is counted.                                        *)
LEMMA CountHead ==
  ASSUME NEW S, NEW q \in Seq(S), q # <<>>
  PROVE  Count(q, Head(q).ev) > 0
<1>1. Tail(q) \in Seq(S)
  BY TailAt
<1>2. Count(Tail(q), Head(q).ev) \in Nat /\ Count(q, Head(q).ev) \in Nat
  BY <1>1, Counting
<1>3. Count(Tail(q), Head(q).ev) = Count(q, Head(q).ev) - 1
  BY CountTail DEF Is
<1> QED
  BY <1>2, <1>3

(* Whose operation the events of a queue are about.                        *)
LEMMA OwnQueue ==
  ASSUME NEW S, NEW q \in Seq(S)
  PROVE  \A e, op : /\ Count(q, e) = 0 => Own(q, e, op)
                    /\ Own(q, e, op) => /\ q # <<>> => Own(Tail(q), e, op)
                                        /\ q # <<>> /\ Head(q).ev = e => Head(q).op = op
                                        /\ \A m \in S : (m.ev = e => m.op = op)
                                                          => Own(Append(q, m), e, op)
<1> SUFFICES ASSUME NEW e, NEW op
             PROVE  /\ Count(q, e) = 0 => Own(q, e, op)
                    /\ Own(q, e, op) => /\ q # <<>> => Own(Tail(q), e, op)
                                        /\ q # <<>> /\ Head(q).ev = e => Head(q).op = op
                                        /\ \A m \in S : (m.ev = e => m.op = op)
                                                          => Own(Append(q, m), e, op)
  OBVIOUS
<1>1. Count(q, e) = 0 => Own(q, e, op)
  BY Counting DEF Own
<1>2. ASSUME Own(q, e, op), q # <<>>
      PROVE  Own(Tail(q), e, op) /\ (Head(q).ev = e => Head(q).op = op)
  <2>1. /\ Len(Tail(q)) = Len(q) - 1 /\ Len(q) \in Nat \ {0}
        /\ \A i \in 1 .. Len(Tail(q)) : i + 1 \in 1 .. Len(q) /\ Tail(q)[i] = q[i + 1]
        /\ Head(q) = q[1]
    BY <1>2, TailAt
  <2> QED
    BY <1>2, <2>1 DEF Own
<1>3. ASSUME Own(q, e, op), NEW m \in S, m.ev = e => m.op = op
      PROVE  Own(Append(q, m), e, op)
  <2>1. /\ Len(Append(q, m)) = Len(q) + 1 /\ \A i \in 1 .. Len(q) : Append(q, m)[i] = q[i]
        /\ Append(q, m)[Len(q) + 1] = m
        /\ \A i \in 1 .. Len(Append(q, m)) : i \in 1 .. Len(q) \/ i = Len(q) + 1
    BY AppendAt
  <2> QED
    BY <1>3, <2>1 DEF Own
<1> QED
  BY <1>1, <1>2, <1>3

(* What lies behind the reader's last push.                                *)
LEMMA BehindQueue ==
  ASSUME NEW S, NEW q \in Seq(S), OwnBehind(q)
  PROVE  /\ q # <<>> => OwnBehind(Tail(q))
         /\ \A m \in S : m.ev \notin {Req, "EventConnectServer"} \/ Count(q, "EventConnectServer") = 0
                           => OwnBehind(Append(q, m))
         /\ q # <<>> /\ Head(q).ev = "EventConnectServer"
              => Count(Tail(q), Req) = 0 /\ Count(Tail(q), "EventConnectServer") = 0
<1>1. ASSUME q # <<>>
      PROVE  /\ OwnBehind(Tail(q))
             /\ Head(q).ev = "EventConnectServer"
                  => Count(Tail(q), Req) = 0 /\ Count(Tail(q), "EventConnectServer") = 0
  <2>1. /\ Tail(q) \in Seq(S) /\ Len(Tail(q)) = Len(q) - 1 /\ Len(q) \in Nat \ {0}
        /\ \A i \in 1 .. Len(Tail(q)) : i + 1 \in 1 .. Len(q) /\ Tail(q)[i] = q[i + 1]
        /\ Head(q) = q[1]
    BY <1>1, TailAt
  <2>2. OwnBehind(Tail(q))
    <3> SUFFICES ASSUME NEW i \in 1 .. Len(Tail(q)), NEW j \in 1 .. Len(Tail(q)), i < j,
                        Tail(q)[i].ev = "EventConnectServer"
                 PROVE  Tail(q)[j].ev \notin {Req, "EventConnectServer"}
      BY DEF OwnBehind
    <3>1. i + 1 \in 1 .. Len(q) /\ j + 1 \in 1 .. Len(q) /\ i + 1 < j + 1
      BY <2>1
    <3> QED
      BY <2>1, <3>1 DEF OwnBehind
  <2>3. ASSUME Head(q).ev = "EventConnectServer"
        PROVE  Count(Tail(q), Req) = 0 /\ Count(Tail(q), "EventConnectServer") = 0
    <3>1. \A i \in 1 .. Len(Tail(q)) : Tail(q)[i].ev \notin {Req, "EventConnectServer"}
      <4> SUFFICES ASSUME NEW i \in 1 .. Len(Tail(q))
                   PROVE  Tail(q)[i].ev \notin {Req, "EventConnectServer"}
        OBVIOUS
      <4>1. 1 \in 1 .. Len(q) /\ i + 1 \in 1 .. Len(q) /\ 1 < i + 1
        BY <2>1
      <4> QED
        BY <2>1, <2>3, <4>1 DEF OwnBehind
    <3> QED
      BY <2>1, <3>1, Counting
  <2> QED
    BY <2>2, <2>3
<1>2. ASSUME NEW m \in S,
             m.ev \notin {Req, "EventConnectServer"} \/ Count(q, "EventConnectServer") = 0
      PROVE  OwnBehind(Append(q, m))
  <2>1. /\ Len(Append(q, m)) = Len(q) + 1 /\ \A i \in 1 .. Len(q) : Append(q, m)[i] = q[i]
        /\ Append(q, m)[Len(q) + 1] = m
        /\ \A i \in 1 .. Len(Append(q, m)) : i \in 1 .. Len(q) \/ i = Len(q) + 1
    BY AppendAt
  <2>2. Len(q) \in Nat
    OBVIOUS
  <2>3. \/ m.ev \notin {Req, "EventConnectServer"}
        \/ \A i \in 1 .. Len(q) : q[i].ev # "EventConnectServer"
    BY <1>2, Counting
  <2> QED
    BY <2>1, <2>2, <2>3 DEF OwnBehind
<1> QED
  BY <1>1, <1>2

(* A queue with an event of another kind, and one that takes the head of   *)
(* another queue.                                                          *)
LEMMA CountOther ==
  ASSUME NEW S, NEW q \in Seq(S), NEW m \in S
  PROVE  \A e : m.ev # e => Count(Append(q, m), e) = Count(q, e)
<1> SUFFICES ASSUME NEW e, m.ev # e PROVE Count(Append(q, m), e) = Count(q, e)
  OBVIOUS
<1>1. Count(Append(q, m), e) = Count(q, e) + 0
  BY CountAppend DEF Is
<1>2. Count(q, e) \in Nat
  BY Counting
<1> QED
  BY <1>1, <1>2

LEMMA CountMoved ==
  ASSUME NEW S, NEW q \in Seq(S), NEW T, NEW p \in Seq(T), p # <<>>, Head(p) \in S
  PROVE  /\ \A e : Count(Append(q, Head(p)), e) + Count(Tail(p), e) = Count(q, e) + Count(p, e)
         /\ \A e, op : Own(p, e, op) => /\ Own(Tail(p), e, op)
                                        /\ Own(q, e, op) => Own(Append(q, Head(p)), e, op)
<1>1. ASSUME NEW e
      PROVE  Count(Append(q, Head(p)), e) + Count(Tail(p), e) = Count(q, e) + Count(p, e)
  <2>1. Count(Append(q, Head(p)), e) = Count(q, e) + Is(Head(p), e)
    BY CountAppend
  <2>2. Count(Tail(p), e) = Count(p, e) - Is(Head(p), e)
    BY CountTail
  <2>3. Count(q, e) \in Nat /\ Count(p, e) \in Nat
    BY Counting
  <2>4. Is(Head(p), e) \in 0..1
    BY DEF Is
  <2> QED
    BY <2>1, <2>2, <2>3, <2>4
<1>2. ASSUME NEW e, NEW op, Own(p, e, op)
      PROVE  /\ Own(Tail(p), e, op)
             /\ Own(q, e, op) => Own(Append(q, Head(p)), e, op)
  BY <1>2, OwnQueue
<1> QED
  BY <1>1, <1>2

(* A queue that takes one more event, or none.                             *)
Longer(q, b, m) == IF b = "yes" THEN Append(q, m) ELSE q
Adds(b, m, e)   == IF b = "yes" /\ m.ev = e THEN 1 ELSE 0

LEMMA LongerOK ==
  ASSUME NEW S, NEW q \in Seq(S), NEW b \in {"yes", "no"}, NEW m, b = "yes" => m \in S
  PROVE  /\ Longer(q, b, m) \in Seq(S)
         /\ \A e : Count(Longer(q, b, m), e) = Count(q, e) + Adds(b, m, e)
         /\ \A e, op : Own(q, e, op) /\ (b = "yes" /\ m.ev = e => m.op = op) => Own(Longer(q, b, m), e, op)
<1>1. CASE b = "yes"
  BY <1>1, CountAppend, OwnQueue, AppendAt DEF Longer, Adds, Is
<1>2. CASE b # "yes"
  <2>1. \A e : Count(q, e) \in Nat
    BY Counting
  <2> QED
    BY <1>2, <2>1 DEF Longer, Adds
<1> QED
  BY <1>1, <1>2

(* What is under way is a number.                                          *)
LEMMA Numbers ==
  ASSUME TypeInv
  PROVE  /\ \A e : /\ Count(gQueue, e) \in Nat /\ Count(dQueue, e) \in Nat
                   /\ Count(g2d, e) \in Nat /\ Count(d2g, e) \in Nat
         /\ Requested \in Nat /\ Answered \in Nat /\ Ending \in Nat /\ Ended \in Nat
         /\ Acking \in Nat /\ Acked \in Nat /\ Tolds \in Nat
<1>1. \A e : /\ Count(gQueue, e) \in Nat /\ Count(dQueue, e) \in Nat
             /\ Count(g2d, e) \in Nat /\ Count(d2g, e) \in Nat
  BY Counting DEF TypeInv
<1> QED
  BY <1>1 DEF Requested, Answered, Ending, Ended, Acking, Acked, Tolds

(* Types of the records.                                                   *)
LEMMA Fields ==
  ASSUME TypeInv
  PROVE  /\ gw.status \in ControlStates /\ dev.status \in ControlStates
         /\ gw.operation \in Operations \cup {NoOperation}
         /\ dev.operation \in Operations \cup {NoOperation}
         /\ gw.made \in BOOLEAN /\ dev.made \in BOOLEAN
         /\ commands.used \in Nat /\ commands.most \in Nat /\ expired.used \in Nat
         /\ Goroutines(gTimer) \in Nat /\ Goroutines(dTimer) \in Nat
         /\ gTimer.fired \in Nat /\ dTimer.fired \in Nat
<1>1. TimerOK(gTimer) /\ TimerOK(dTimer)
  BY DEF TypeInv
<1>2. /\ gTimer \in Timers(Nat) /\ dTimer \in Timers(Nat)
      /\ Goroutines(gTimer) \in Nat /\ Goroutines(dTimer) \in Nat
  BY <1>1, TimerTyped
<1>3. gTimer.fired \in Nat /\ dTimer.fired \in Nat
  BY <1>2 DEF Timers
<1> QED
  BY <1>2, <1>3 DEF TypeInv, Control, Budget

(* The first event of the gateway's queue, and of the device's.            *)
LEMMA GHead ==
  ASSUME TypeInv, gQueue # <<>>
  PROVE  /\ Head(gQueue).ev \in {Req, Told, End, Ack}
         /\ Head(gQueue).ev # Req => Head(gQueue).op \in Operations
         /\ Head(gQueue).ev = Told => Answered > 0
         /\ Head(gQueue).ev = End => Ended > 0
         /\ Head(gQueue).ev = Ack => Acked > 0
         /\ \A op : /\ OwnDevice(dQueue, g2d, gQueue, d2g, op) =>
                         (Head(gQueue).ev \in {End, Ack} => Head(gQueue).op = op)
                    /\ OwnGateway(dQueue, g2d, gQueue, d2g, op) =>
                         (Head(gQueue).ev = Told => Head(gQueue).op = op)
<1>1. gQueue \in Seq(Requests \cup ToGateway) /\ Head(gQueue) \in Requests \cup ToGateway
  BY DEF TypeInv
<1>2. Count(gQueue, Head(gQueue).ev) > 0
  BY <1>1, CountHead
<1>3. Head(gQueue).ev \in {Req, Told, End, Ack} /\ (Head(gQueue).ev # Req => Head(gQueue).op \in Operations)
  BY <1>1 DEF Requests, ToGateway
<1>4. \A e, op : Own(gQueue, e, op) /\ Head(gQueue).ev = e => Head(gQueue).op = op
  BY <1>1, OwnQueue
<1>5. \A e : Count(gQueue, e) \in Nat /\ Count(d2g, e) \in Nat
  BY Numbers
<1>6. /\ Head(gQueue).ev = Told => Answered > 0
      /\ Head(gQueue).ev = End => Ended > 0
      /\ Head(gQueue).ev = Ack => Acked > 0
  BY <1>2, <1>5 DEF Answered, Ended, Acked, Req, Told, End, Ack
<1> QED
  BY <1>3, <1>4, <1>6 DEF OwnDevice, OwnGateway

LEMMA DHead ==
  ASSUME TypeInv, dQueue # <<>>
  PROVE  /\ Head(dQueue).ev \in {Req, Told, End, Ack} => Head(dQueue).op \in Operations
         /\ Head(dQueue).ev \in DevEvents
         /\ Head(dQueue) = [ev |-> Head(dQueue).ev, op |-> Head(dQueue).op]
         /\ Head(dQueue).ev = Req => Requested > 0
         /\ Head(dQueue).ev = Told => Tolds > 0
         /\ Head(dQueue).ev = End => Ending > 0
         /\ Head(dQueue).ev = Ack => Acking > 0
         /\ \A op : /\ OwnDevice(dQueue, g2d, gQueue, d2g, op) =>
                         (Head(dQueue).ev \in {Told, End, Ack} => Head(dQueue).op = op)
                    /\ OwnGateway(dQueue, g2d, gQueue, d2g, op) =>
                         (Head(dQueue).ev = Req => Head(dQueue).op = op)
<1>1. dQueue \in Seq(OfDevice) /\ Head(dQueue) \in OfDevice
  BY DEF TypeInv
<1>2. Count(dQueue, Head(dQueue).ev) > 0
  BY <1>1, CountHead
<1>3. /\ Head(dQueue).ev \in {Req, Told, End, Ack} => Head(dQueue).op \in Operations
      /\ Head(dQueue).ev \in DevEvents
      /\ Head(dQueue) = [ev |-> Head(dQueue).ev, op |-> Head(dQueue).op]
  BY <1>1 DEF OfDevice, DevEvents, GwEvents, Req, Told, End, Ack
<1>4. \A e, op : Own(dQueue, e, op) /\ Head(dQueue).ev = e => Head(dQueue).op = op
  BY <1>1, OwnQueue
<1>5. \A e : Count(dQueue, e) \in Nat /\ Count(g2d, e) \in Nat
  BY Numbers
<1>6. /\ Head(dQueue).ev = Req => Requested > 0
      /\ Head(dQueue).ev = Told => Tolds > 0
      /\ Head(dQueue).ev = End => Ending > 0
      /\ Head(dQueue).ev = Ack => Acking > 0
  BY <1>2, <1>5 DEF Requested, Tolds, Ending, Acking, Req, Told, End, Ack
<1> QED
  BY <1>3, <1>4, <1>6 DEF OwnDevice, OwnGateway

-----------------------------------------------------------------------------
(* How the queues move.                                                    *)

(* A handler of the gateway: one event less, one frame more or none.       *)
GMove(b, m) ==
  /\ gQueue # <<>> /\ gQueue' = Tail(gQueue) /\ g2d' = Longer(g2d, b, m)
  /\ UNCHANGED <<conn, reader, breaks, devVars, commands, expired, d2g>>

LEMMA GMoves ==
  ASSUME TypeInv, NEW b \in {"yes", "no"}, NEW m, b = "yes" => m \in ToDevice, GMove(b, m)
  PROVE  /\ gQueue' \in Seq(Requests \cup ToGateway) /\ g2d' \in Seq(ToDevice)
         /\ Count(gQueue', Req) = Count(gQueue, Req) - Is(Head(gQueue), Req)
         /\ Count(g2d', Req) = Count(g2d, Req) + Adds(b, m, Req)
         /\ Requested' = Requested + Adds(b, m, Req)
         /\ Answered' = Answered - Is(Head(gQueue), Told)
         /\ Ended' = Ended - Is(Head(gQueue), End)
         /\ Acked' = Acked - Is(Head(gQueue), Ack)
         /\ Tolds' = Tolds + Adds(b, m, Told)
         /\ Ending' = Ending /\ Acking' = Acking
         /\ \A op : /\ OwnDevice(dQueue, g2d, gQueue, d2g, op) /\ (b = "yes" /\ m.ev = Told => m.op = op)
                         => OwnDevice(dQueue', g2d', gQueue', d2g', op)
                    /\ OwnGateway(dQueue, g2d, gQueue, d2g, op) /\ (b = "yes" /\ m.ev = Req => m.op = op)
                         => OwnGateway(dQueue', g2d', gQueue', d2g', op)
<1> USE DEF GMove
<1>1. /\ gQueue \in Seq(Requests \cup ToGateway) /\ g2d \in Seq(ToDevice)
      /\ gQueue' = Tail(gQueue) /\ g2d' = Longer(g2d, b, m) /\ dQueue' = dQueue /\ d2g' = d2g
  BY DEF TypeInv, devVars
<1>2. /\ gQueue' \in Seq(Requests \cup ToGateway)
      /\ \A e : Count(gQueue', e) = Count(gQueue, e) - Is(Head(gQueue), e)
      /\ \A e, op : Own(gQueue, e, op) => Own(gQueue', e, op)
  BY <1>1, TailAt, CountTail, OwnQueue
<1>3. /\ g2d' \in Seq(ToDevice)
      /\ \A e : Count(g2d', e) = Count(g2d, e) + Adds(b, m, e)
      /\ \A e, op : Own(g2d, e, op) /\ (b = "yes" /\ m.ev = e => m.op = op) => Own(g2d', e, op)
  <2>1. g2d \in Seq(ToDevice) /\ (b = "yes" => m \in ToDevice)
    BY <1>1
  <2>2. Longer(g2d, b, m) \in Seq(ToDevice)
    BY <2>1, LongerOK
  <2>3. \A e : Count(Longer(g2d, b, m), e) = Count(g2d, e) + Adds(b, m, e)
    BY <2>1, LongerOK
  <2>4. \A e, op : Own(g2d, e, op) /\ (b = "yes" /\ m.ev = e => m.op = op)
                    => Own(Longer(g2d, b, m), e, op)
    BY <2>1, LongerOK
  <2> QED
    BY <1>1, <2>2, <2>3, <2>4
<1>4. \A e : /\ Count(gQueue, e) \in Nat /\ Count(dQueue, e) \in Nat
             /\ Count(g2d, e) \in Nat /\ Count(d2g, e) \in Nat
  BY Numbers
<1> HIDE DEF GMove
<1>5. (\A e : Adds(b, m, e) \in 0..1) /\ (\A x, e : Is(x, e) \in 0..1)
  BY DEF Adds, Is
<1>6. /\ Requested' = Requested + Adds(b, m, Req)
      /\ Tolds' = Tolds + Adds(b, m, Told)
      /\ Ending' = Ending /\ Acking' = Acking
  <2>1. Requested' = Requested + Adds(b, m, Req)
    BY <1>1, <1>3, <1>4, <1>5 DEF Requested, Req
  <2>2. Tolds' = Tolds + Adds(b, m, Told)
    BY <1>1, <1>3, <1>4, <1>5 DEF Tolds, Told
  <2>3. Ending' = Ending
    BY <1>1, <1>3, <1>4, <1>5 DEF Ending, End
  <2>4. Acking' = Acking
    BY <1>1, <1>3, <1>4, <1>5 DEF Acking, Ack
  <2> QED
    BY <2>1, <2>2, <2>3, <2>4
<1>7. /\ Answered' = Answered - Is(Head(gQueue), Told)
      /\ Ended' = Ended - Is(Head(gQueue), End)
      /\ Acked' = Acked - Is(Head(gQueue), Ack)
  <2>1. Answered' = Answered - Is(Head(gQueue), Told)
    BY <1>1, <1>2, <1>4, <1>5 DEF Answered, Told
  <2>2. Ended' = Ended - Is(Head(gQueue), End)
    BY <1>1, <1>2, <1>4, <1>5 DEF Ended, End
  <2>3. Acked' = Acked - Is(Head(gQueue), Ack)
    BY <1>1, <1>2, <1>4, <1>5 DEF Acked, Ack
  <2> QED
    BY <2>1, <2>2, <2>3
<1> QED
  BY <1>1, <1>2, <1>3, <1>6, <1>7 DEF OwnDevice, OwnGateway

(* A handler of the device: one event less, with what it pushes itself,    *)
(* and one frame more or none.                                             *)
DMove(a, n, b, m) ==
  /\ dQueue # <<>> /\ dQueue' = Longer(Tail(dQueue), a, n) /\ d2g' = Longer(d2g, b, m)
  /\ UNCHANGED <<g2d, gwVars, commands, expired, breaks>>

LEMMA DMoves ==
  ASSUME TypeInv, NEW a \in {"yes", "no"}, NEW n, a = "yes" => n \in OfDevice,
         NEW b \in {"yes", "no"}, NEW m, b = "yes" => m \in ToGateway, DMove(a, n, b, m)
  PROVE  /\ dQueue' \in Seq(OfDevice) /\ d2g' \in Seq(ToGateway)
         /\ \A e : Count(dQueue', e) = Count(dQueue, e) - Is(Head(dQueue), e) + Adds(a, n, e)
         /\ Requested' = Requested - Is(Head(dQueue), Req) + Adds(a, n, Req)
         /\ Tolds' = Tolds - Is(Head(dQueue), Told) + Adds(a, n, Told)
         /\ Ending' = Ending - Is(Head(dQueue), End) + Adds(a, n, End)
         /\ Acking' = Acking - Is(Head(dQueue), Ack) + Adds(a, n, Ack)
         /\ Answered' = Answered + Adds(b, m, Told)
         /\ Ended' = Ended + Adds(b, m, End)
         /\ Acked' = Acked + Adds(b, m, Ack)
         /\ \A op : /\ OwnDevice(dQueue, g2d, gQueue, d2g, op)
                         /\ (a = "yes" /\ n.ev \in {Told, End, Ack} => n.op = op)
                         /\ (b = "yes" /\ m.ev \in {End, Ack} => m.op = op)
                         => OwnDevice(dQueue', g2d', gQueue', d2g', op)
                    /\ OwnGateway(dQueue, g2d, gQueue, d2g, op)
                         /\ (a = "yes" /\ n.ev = Req => n.op = op)
                         /\ (b = "yes" /\ m.ev = Told => m.op = op)
                         => OwnGateway(dQueue', g2d', gQueue', d2g', op)
<1>1. /\ dQueue \in Seq(OfDevice) /\ d2g \in Seq(ToGateway) /\ dQueue # <<>>
      /\ dQueue' = Longer(Tail(dQueue), a, n) /\ d2g' = Longer(d2g, b, m)
      /\ gQueue' = gQueue /\ g2d' = g2d
  BY DEF TypeInv, gwVars, DMove
<1>2. /\ Tail(dQueue) \in Seq(OfDevice)
      /\ \A e : Count(Tail(dQueue), e) = Count(dQueue, e) - Is(Head(dQueue), e)
      /\ \A e, op : Own(dQueue, e, op) => Own(Tail(dQueue), e, op)
  BY <1>1, TailAt, CountTail, OwnQueue
<1>3. /\ dQueue' \in Seq(OfDevice)
      /\ \A e : Count(dQueue', e) = Count(dQueue, e) - Is(Head(dQueue), e) + Adds(a, n, e)
      /\ \A e, op : Own(dQueue, e, op) /\ (a = "yes" /\ n.ev = e => n.op = op) => Own(dQueue', e, op)
  <2> DEFINE q == Tail(dQueue)
  <2>1. q \in Seq(OfDevice) /\ (a = "yes" => n \in OfDevice)
    BY <1>2 DEF q
  <2> HIDE DEF q
  <2>2. Longer(q, a, n) \in Seq(OfDevice)
    BY <2>1, LongerOK
  <2>3. \A e : Count(Longer(q, a, n), e) = Count(q, e) + Adds(a, n, e)
    BY <2>1, LongerOK
  <2>4. \A e, op : Own(q, e, op) /\ (a = "yes" /\ n.ev = e => n.op = op)
                    => Own(Longer(q, a, n), e, op)
    BY <2>1, LongerOK
  <2> QED
    BY <1>1, <1>2, <2>2, <2>3, <2>4 DEF q
<1>4. /\ d2g' \in Seq(ToGateway)
      /\ \A e : Count(d2g', e) = Count(d2g, e) + Adds(b, m, e)
      /\ \A e, op : Own(d2g, e, op) /\ (b = "yes" /\ m.ev = e => m.op = op) => Own(d2g', e, op)
  <2>1. d2g \in Seq(ToGateway) /\ (b = "yes" => m \in ToGateway)
    BY <1>1
  <2>2. Longer(d2g, b, m) \in Seq(ToGateway)
    BY <2>1, LongerOK
  <2>3. \A e : Count(Longer(d2g, b, m), e) = Count(d2g, e) + Adds(b, m, e)
    BY <2>1, LongerOK
  <2>4. \A e, op : Own(d2g, e, op) /\ (b = "yes" /\ m.ev = e => m.op = op)
                    => Own(Longer(d2g, b, m), e, op)
    BY <2>1, LongerOK
  <2> QED
    BY <1>1, <2>2, <2>3, <2>4
<1>5. \A e : /\ Count(gQueue, e) \in Nat /\ Count(dQueue, e) \in Nat
             /\ Count(g2d, e) \in Nat /\ Count(d2g, e) \in Nat
  BY Numbers
<1>6. (\A x, y, e : Adds(x, y, e) \in 0..1) /\ (\A x, e : Is(x, e) \in 0..1)
  BY DEF Adds, Is
<1>7. /\ Requested' = Requested - Is(Head(dQueue), Req) + Adds(a, n, Req)
      /\ Tolds' = Tolds - Is(Head(dQueue), Told) + Adds(a, n, Told)
      /\ Ending' = Ending - Is(Head(dQueue), End) + Adds(a, n, End)
      /\ Acking' = Acking - Is(Head(dQueue), Ack) + Adds(a, n, Ack)
  <2>1. Requested' = Requested - Is(Head(dQueue), Req) + Adds(a, n, Req)
    BY <1>1, <1>3, <1>5, <1>6 DEF Requested, Req
  <2>2. Tolds' = Tolds - Is(Head(dQueue), Told) + Adds(a, n, Told)
    BY <1>1, <1>3, <1>5, <1>6 DEF Tolds, Told
  <2>3. Ending' = Ending - Is(Head(dQueue), End) + Adds(a, n, End)
    BY <1>1, <1>3, <1>5, <1>6 DEF Ending, End
  <2>4. Acking' = Acking - Is(Head(dQueue), Ack) + Adds(a, n, Ack)
    BY <1>1, <1>3, <1>5, <1>6 DEF Acking, Ack
  <2> QED
    BY <2>1, <2>2, <2>3, <2>4
<1>8. /\ Answered' = Answered + Adds(b, m, Told)
      /\ Ended' = Ended + Adds(b, m, End)
      /\ Acked' = Acked + Adds(b, m, Ack)
  <2>1. Answered' = Answered + Adds(b, m, Told)
    BY <1>1, <1>4, <1>5, <1>6 DEF Answered, Told
  <2>2. Ended' = Ended + Adds(b, m, End)
    BY <1>1, <1>4, <1>5, <1>6 DEF Ended, End
  <2>3. Acked' = Acked + Adds(b, m, Ack)
    BY <1>1, <1>4, <1>5, <1>6 DEF Acked, Ack
  <2> QED
    BY <2>1, <2>2, <2>3
<1> QED
  BY <1>1, <1>3, <1>4, <1>7, <1>8 DEF OwnDevice, OwnGateway

-----------------------------------------------------------------------------
(* The handlers of the gateway.                                            *)

(* What a Thing control record becomes.                                    *)
LEMMA ControlSet ==
  ASSUME NEW c \in Control, NEW s \in ControlStates
  PROVE  /\ [c EXCEPT !.status = s] \in Control /\ [c EXCEPT !.status = s].status = s
         /\ [c EXCEPT !.status = s].operation = c.operation
         /\ [c EXCEPT !.status = s].made = c.made
  BY DEF Control

(* A frame that is sent, and one that is not.                              *)
LEMMA Sending ==
  ASSUME TypeInv, NEW m
  PROVE  /\ Sent(g2d, m) => \E b \in {"yes", "no"} : g2d' = Longer(g2d, b, m)
         /\ Sent(d2g, m) => \E b \in {"yes", "no"} : d2g' = Longer(d2g, b, m)
         /\ Unsent(g2d) => g2d' = Longer(g2d, "no", m)
         /\ Unsent(d2g) => d2g' = Longer(d2g, "no", m)
         /\ Unsent(g2d) \/ Unsent(d2g) \/ Fault \/ NoFault => faults' \in Budget
<1>1. Unsent(g2d) \/ Unsent(d2g) \/ Fault \/ NoFault => faults' \in Budget
  <2>1. NoFault => faults' \in Budget
    BY DEF TypeInv, NoFault
  <2>2. Fault => faults' \in Budget
    BY DEF TypeInv, Fault, Spend, Budget
  <2>3. Unsent(g2d) \/ Unsent(d2g) => NoFault \/ Fault
    BY DEF Unsent
  <2> QED
    BY <2>1, <2>2, <2>3
<1>2. Longer(g2d, "no", m) = g2d /\ Longer(g2d, "yes", m) = Append(g2d, m)
  BY DEF Longer
<1>3. Longer(d2g, "no", m) = d2g /\ Longer(d2g, "yes", m) = Append(d2g, m)
  BY DEF Longer
<1> QED
  BY <1>1, <1>2, <1>3 DEF Sent, Unsent

(* What every handler of the gateway keeps.                                *)
LEMMA GKeeps ==
  ASSUME TypeInv, BoundInv, LastInv,
         NEW b \in {"yes", "no"}, NEW m, b = "yes" => m \in ToDevice, GMove(b, m),
         gw' \in Control, faults' \in Budget, TimerOK(gTimer'),
         Goroutines(gTimer') <= Goroutines(gTimer) + Is(Head(gQueue), Req),
         Adds(b, m, Req) <= Is(Head(gQueue), Req)
  PROVE  TypeInv' /\ BoundInv' /\ LastInv'
<1>1. /\ gQueue' \in Seq(Requests \cup ToGateway) /\ g2d' \in Seq(ToDevice)
      /\ Count(gQueue', Req) = Count(gQueue, Req) - Is(Head(gQueue), Req)
      /\ Count(g2d', Req) = Count(g2d, Req) + Adds(b, m, Req)
  BY GMoves
<1>2. TypeInv'
  BY <1>1 DEF TypeInv, GMove, devVars
<1>3. BoundInv'
  <2>1. /\ Count(gQueue, Req) \in Nat /\ Count(g2d, Req) \in Nat /\ Count(dQueue, Req) \in Nat
        /\ Count(dQueue, End) \in Nat /\ Goroutines(gTimer) \in Nat /\ Goroutines(dTimer) \in Nat
        /\ commands.used \in Nat /\ Goroutines(gTimer') \in Nat
    BY Numbers, Fields, TimerTyped
  <2>2. Is(Head(gQueue), Req) \in 0..1 /\ Adds(b, m, Req) \in 0..1
    BY DEF Is, Adds
  <2>3. dQueue' = dQueue /\ dTimer' = dTimer /\ commands' = commands
    BY DEF GMove, devVars
  <2>4. Count(gQueue', Req) + Goroutines(gTimer') <= commands.used
    BY <1>1, <2>1, <2>2 DEF BoundInv
  <2>5. Count(gQueue', Req) + Count(g2d', Req) + Count(dQueue, Req) + Count(dQueue, End)
          + Goroutines(dTimer) <= commands.used
    <3>1. Count(gQueue', Req) + Count(g2d', Req) <= Count(gQueue, Req) + Count(g2d, Req)
      BY <1>1, <2>1, <2>2
    <3>2. Count(gQueue', Req) \in Int /\ Count(g2d', Req) \in Int
      BY <1>1, <2>1, <2>2
    <3> QED
      BY <2>1, <3>1, <3>2 DEF BoundInv
  <2> QED
    BY <2>3, <2>4, <2>5 DEF BoundInv, Req, End
<1>4. LastInv'
  BY DEF LastInv, GMove, devVars
<1> QED
  BY <1>2, <1>3, <1>4

(* A gateway whose operation changes while no request is under way.        *)
LEMMA NoneOwned ==
  ASSUME TypeInv
  PROVE  \A op : /\ Requested = 0 /\ Answered = 0 => OwnGateway(dQueue, g2d, gQueue, d2g, op)
                 /\ Ending = 0 /\ Ended = 0 /\ Acking = 0 /\ Acked = 0 /\ Tolds = 0
                      => OwnDevice(dQueue, g2d, gQueue, d2g, op)
<1> SUFFICES ASSUME NEW op
             PROVE  /\ Requested = 0 /\ Answered = 0 => OwnGateway(dQueue, g2d, gQueue, d2g, op)
                    /\ Ending = 0 /\ Ended = 0 /\ Acking = 0 /\ Acked = 0 /\ Tolds = 0
                         => OwnDevice(dQueue, g2d, gQueue, d2g, op)
  OBVIOUS
<1>1. \A e : /\ Count(gQueue, e) = 0 => Own(gQueue, e, op)
             /\ Count(dQueue, e) = 0 => Own(dQueue, e, op)
             /\ Count(g2d, e) = 0 => Own(g2d, e, op)
             /\ Count(d2g, e) = 0 => Own(d2g, e, op)
  BY OwnQueue DEF TypeInv
<1>2. \A e : /\ Count(gQueue, e) \in Nat /\ Count(dQueue, e) \in Nat
             /\ Count(g2d, e) \in Nat /\ Count(d2g, e) \in Nat
  BY Numbers
<1>3. Requested = 0 /\ Answered = 0 => OwnGateway(dQueue, g2d, gQueue, d2g, op)
  <2>1. Requested = 0 => Count(dQueue, Req) = 0 /\ Count(g2d, Req) = 0
    BY <1>2 DEF Requested
  <2>2. Answered = 0 => Count(gQueue, Told) = 0 /\ Count(d2g, Told) = 0
    BY <1>2 DEF Answered
  <2> QED
    BY <1>1, <2>1, <2>2 DEF OwnGateway
<1>4. Ending = 0 /\ Ended = 0 /\ Acking = 0 /\ Acked = 0 /\ Tolds = 0
        => OwnDevice(dQueue, g2d, gQueue, d2g, op)
  <2>1. Tolds = 0 => Count(dQueue, Told) = 0 /\ Count(g2d, Told) = 0
    BY <1>2 DEF Tolds
  <2>2. Ended = 0 => Count(gQueue, End) = 0 /\ Count(d2g, End) = 0
    BY <1>2 DEF Ended
  <2>3. Acked = 0 => Count(gQueue, Ack) = 0 /\ Count(d2g, Ack) = 0
    BY <1>2 DEF Acked
  <2> QED
    BY <1>1, <2>1, <2>2, <2>3 DEF OwnDevice, Ending, Acking
<1> QED
  BY <1>3, <1>4

(* What the gateway's handlers make of its timer.                          *)
LEMMA GTimers ==
  ASSUME TypeInv
  PROVE  /\ \A x \in {gTimer, Stopped(gTimer), Closed(gTimer), Closed(Stopped(gTimer))} :
              TimerOK(x) /\ x.fired = gTimer.fired /\ Goroutines(x) = Goroutines(gTimer)
         /\ TimerOK(Started(gTimer)) /\ Started(gTimer).fired = gTimer.fired
         /\ Goroutines(Started(gTimer)) = Goroutines(gTimer) + 1
<1>1. TimerOK(gTimer)
  BY DEF TypeInv
<1> QED
  BY <1>1, KeptOK, StartedOK, FiredKept

(* An event out of turn.                                                   *)
LEMMA GRefusedOK ==
  ASSUME TypeInv, BoundInv, LastInv, MadeInv, PhaseInv, GRefused
  PROVE  TypeInv' /\ BoundInv' /\ LastInv' /\ MadeInv' /\ PhaseInv'
<1>1. /\ gQueue # <<>>
  BY DEF GRefused, GOn, GIs
<1>2. /\ gw' = gw /\ gw' \in Control
      /\ TimerOK(gTimer') /\ gTimer'.fired = gTimer.fired
      /\ Goroutines(gTimer') = Goroutines(gTimer)
  BY GTimers DEF GRefused, TypeInv
<1> DEFINE b == "no"
           m == NoOperation
<1>3. faults' \in Budget /\ (b = "yes" => m \in ToDevice) /\ b \in {"yes", "no"} /\ b # "yes"
  BY Sending DEF GRefused, NoFault
<1>4. GMove(b, m)
  BY <1>1 DEF GMove, Longer, GRefused, GDone, GRest
<1>5. /\ Adds(b, m, Req) = 0 /\ Adds(b, m, Told) = 0
      /\ \A e : Is(Head(gQueue), e) \in 0..1
  BY <1>1, GHead DEF Adds, Is, Req, Told, End, Ack
<1> HIDE DEF b, m
<1>6. TypeInv' /\ BoundInv' /\ LastInv'
  BY <1>2, <1>3, <1>4, <1>5, Fields, GKeeps
<1>7. /\ Is(Head(gQueue), Told) # 0 => Answered > 0
      /\ Is(Head(gQueue), End) # 0 => Ended > 0
      /\ Is(Head(gQueue), Ack) # 0 => Acked > 0
  BY <1>1, GHead DEF Is
<1>8. /\ Answered' = Answered - Is(Head(gQueue), Told)
      /\ Ended' = Ended - Is(Head(gQueue), End) /\ Acked' = Acked - Is(Head(gQueue), Ack)
      /\ Requested' = Requested /\ Tolds' = Tolds /\ Ending' = Ending /\ Acking' = Acking
  BY <1>3, <1>4, <1>5, GMoves, Numbers
<1>9. /\ Answered' \in Nat /\ Answered' <= Answered /\ Ended' \in Nat /\ Ended' <= Ended
      /\ Acked' \in Nat /\ Acked' <= Acked
      /\ Requested' = Requested /\ Tolds' = Tolds /\ Ending' = Ending /\ Acking' = Acking
  BY <1>5, <1>7, <1>8, Numbers
<1>10. dev' = dev /\ expired' = expired /\ dTimer' = dTimer
  BY <1>1, <1>4, GHead DEF GMove, devVars
<1>11. MadeInv'
  BY <1>1, <1>2, <1>9, <1>10, Numbers, Fields DEF MadeInv
<1>12. PhaseInv'
  <2> SUFFICES ASSUME expired'.used = 0 PROVE NoneFired' /\ OwnInv' /\ TokenInv' /\ SidesInv'
    BY DEF PhaseInv
  <2>1. NoneFired /\ OwnInv /\ TokenInv /\ SidesInv
    BY <1>10 DEF PhaseInv
  <2>2. OwnInv'
    BY <1>2, <1>3, <1>4, <1>10, <2>1, GMoves DEF OwnInv, Told, Req
  <2>3. TokenInv'
    <3>1. Ending' + Ended' + Acking' + Acked' + Tolds' <= 1 /\ Requested' + Answered' <= 1
      <4>1. Ending + Ended + Acking + Acked + Tolds <= 1 /\ Requested + Answered <= 1
        BY <2>1 DEF TokenInv
      <4> QED
        BY <1>9, <4>1, Numbers
    <3>2. (Ended' > 0 => Ended > 0) /\ (Acked' > 0 => Acked > 0) /\ (Answered = 0 => Answered' = 0)
      BY <1>9, Numbers
    <3> QED
      BY <1>2, <1>9, <1>10, <2>1, <3>1, <3>2 DEF TokenInv
  <2>4. SidesInv'
    BY <1>1, <1>2, <1>9, <1>10, <2>1, Numbers DEF SidesInv, TokenInv
  <2> QED
    BY <1>2, <1>10, <2>1, <2>2, <2>3, <2>4 DEF NoneFired
<1> QED
  BY <1>6, <1>11, <1>12

(* A command of the web is passed on.                                      *)
LEMMA GRequestOK ==
  ASSUME TypeInv, BoundInv, LastInv, MadeInv, PhaseInv, GRequest
  PROVE  TypeInv' /\ BoundInv' /\ LastInv' /\ MadeInv' /\ PhaseInv'
<1>1. /\ gQueue # <<>> /\ Head(gQueue).ev = Req /\ gw.status = "ThingControlStop"
      /\ Head(gQueue).op \in Operations
  BY DEF GRequest, GOn, GIs, GOp, Req
<1>2. /\ gw' \in Control /\ gw'.status = "RemoteOperationReqStatus"
      /\ gw'.operation = Head(gQueue).op /\ gw'.made
      /\ TimerOK(gTimer') /\ gTimer'.fired = gTimer.fired
      /\ Goroutines(gTimer') = Goroutines(gTimer) + 1
  BY <1>1, GTimers DEF GRequest, GOp, Control, ControlStates
<1> DEFINE m == Head(gQueue)
<1>3. m \in ToDevice /\ m.ev = Req /\ m.op = Head(gQueue).op
  <2>1. Head(gQueue) \in Requests \cup ToGateway
    BY <1>1 DEF TypeInv
  <2>2. Head(gQueue) = [ev |-> Head(gQueue).ev, op |-> Head(gQueue).op]
    BY <2>1 DEF Requests, ToGateway
  <2> QED
    BY <1>1, <2>2 DEF ToDevice
<1>4. (\E b \in {"yes", "no"} : g2d' = Longer(g2d, b, m)) /\ faults' \in Budget
  BY Sending DEF GRequest, NoFault
<1> HIDE DEF m
<1>5. PICK b \in {"yes", "no"} : g2d' = Longer(g2d, b, m)
  BY <1>4
<1>6. GMove(b, m)
  BY <1>1, <1>5 DEF GMove, GRequest, GDone, GRest
<1>7. /\ Adds(b, m, Req) \in 0..1 /\ Adds(b, m, Told) = 0
      /\ Is(Head(gQueue), Req) = 1 /\ Is(Head(gQueue), Told) = 0
      /\ Is(Head(gQueue), End) = 0 /\ Is(Head(gQueue), Ack) = 0
  BY <1>1, <1>3, GHead DEF Adds, Is, Req, Told, End, Ack
<1>8. TypeInv' /\ BoundInv' /\ LastInv'
  BY <1>2, <1>3, <1>4, <1>6, <1>7, Fields, GKeeps
<1>9. /\ Requested' \in {Requested, Requested + 1} /\ Answered' = Answered /\ Ended' = Ended /\ Acked' = Acked
      /\ Tolds' = Tolds /\ Ending' = Ending /\ Acking' = Acking
  BY <1>3, <1>4, <1>6, <1>7, GMoves, Numbers
<1>10. dev' = dev /\ expired' = expired /\ dTimer' = dTimer
  BY <1>1, <1>6, GHead DEF GMove, devVars
<1>11. MadeInv'
  BY <1>1, <1>2, <1>9, <1>10, Numbers, Fields DEF MadeInv
<1>12. PhaseInv'
  <2> SUFFICES ASSUME expired'.used = 0 PROVE NoneFired' /\ OwnInv' /\ TokenInv' /\ SidesInv'
    BY DEF PhaseInv
  <2>1. NoneFired /\ OwnInv /\ TokenInv /\ SidesInv
    BY <1>10 DEF PhaseInv
  <2>2. OwnGateway(dQueue, g2d, gQueue, d2g, gw'.operation)
    BY <1>1, <2>1, NoneOwned DEF TokenInv
  <2>3. OwnInv'
    BY <1>2, <2>2, <1>3, <1>4, <1>6, <1>10, <2>1, GMoves DEF OwnInv, Told, Req
  <2>4. TokenInv'
    BY <1>1, <1>2, <1>9, <1>10, <2>1, Numbers DEF TokenInv
  <2>5. SidesInv'
    BY <1>1, <1>2, <1>9, <1>10, <2>1, Numbers DEF SidesInv, TokenInv
  <2> QED
    BY <1>2, <1>10, <2>1, <2>3, <2>4, <2>5 DEF NoneFired
<1> QED
  BY <1>8, <1>11, <1>12

(* A command that is not passed on.                                        *)
LEMMA GRequestFailsOK ==
  ASSUME TypeInv, BoundInv, LastInv, MadeInv, PhaseInv, GRequestFails
  PROVE  TypeInv' /\ BoundInv' /\ LastInv' /\ MadeInv' /\ PhaseInv'
<1>1. /\ gQueue # <<>> /\ Head(gQueue).ev = Req /\ gw.status = "ThingControlStop"
  BY DEF GRequestFails, GOn, GIs, GOp, Req
<1>2. /\ gw' \in Control /\ gw'.status = "RemoteOperationReqStatus" /\ gw'.made = gw.made
      /\ TimerOK(gTimer') /\ gTimer'.fired = gTimer.fired
      /\ Goroutines(gTimer') = Goroutines(gTimer)
  <2>1. PICK op \in Operations \cup {NoOperation} :
          gw' = [gw EXCEPT !.status = "RemoteOperationReqStatus", !.operation = op]
    BY Fields DEF GRequestFails
  <2>2. gw' \in Control /\ gw'.status = "RemoteOperationReqStatus" /\ gw'.made = gw.made
    BY <2>1 DEF TypeInv, Control, ControlStates
  <2> QED
    BY <2>2, GTimers DEF GRequestFails
<1> DEFINE b == "no"
           m == NoOperation
<1>3. faults' \in Budget /\ (b = "yes" => m \in ToDevice) /\ b \in {"yes", "no"} /\ b # "yes"
  BY Sending DEF GRequestFails
<1>4. GMove(b, m)
  BY <1>1 DEF GMove, Longer, GRequestFails, GDone, GRest, NoFault, Unsent
<1>5. /\ Adds(b, m, Req) = 0 /\ Adds(b, m, Told) = 0
      /\ Is(Head(gQueue), Req) = 1 /\ Is(Head(gQueue), Told) = 0
      /\ Is(Head(gQueue), End) = 0 /\ Is(Head(gQueue), Ack) = 0
  BY <1>1, GHead DEF Adds, Is, Req, Told, End, Ack
<1> HIDE DEF b, m
<1>6. TypeInv' /\ BoundInv' /\ LastInv'
  BY <1>2, <1>3, <1>4, <1>5, Fields, GKeeps
<1>7. /\ Requested' = Requested /\ Answered' = Answered /\ Ended' = Ended /\ Acked' = Acked
      /\ Tolds' = Tolds /\ Ending' = Ending /\ Acking' = Acking
  BY <1>3, <1>4, <1>5, GMoves, Numbers
<1>8. dev' = dev /\ expired' = expired /\ dTimer' = dTimer
  BY <1>1, <1>4, GHead DEF GMove, devVars
<1>9. MadeInv'
  BY <1>1, <1>2, <1>7, <1>8, Numbers, Fields DEF MadeInv
<1>10. PhaseInv'
  <2> SUFFICES ASSUME expired'.used = 0 PROVE NoneFired' /\ OwnInv' /\ TokenInv' /\ SidesInv'
    BY DEF PhaseInv
  <2>1. NoneFired /\ OwnInv /\ TokenInv /\ SidesInv
    BY <1>8 DEF PhaseInv
  <2>2. OwnGateway(dQueue, g2d, gQueue, d2g, gw'.operation)
    BY <1>1, <2>1, NoneOwned DEF TokenInv
  <2>3. OwnInv'
    BY <1>2, <2>2, <1>3, <1>4, <1>8, <2>1, GMoves DEF OwnInv, Told, Req
  <2>4. TokenInv'
    BY <1>1, <1>2, <1>7, <1>8, <2>1, Numbers DEF TokenInv
  <2>5. SidesInv'
    BY <1>1, <1>2, <1>7, <1>8, <2>1, Numbers DEF SidesInv, TokenInv
  <2> QED
    BY <1>2, <1>8, <2>1, <2>3, <2>4, <2>5 DEF NoneFired
<1> QED
  BY <1>6, <1>9, <1>10

(* The answer to the request.                                              *)
LEMMA GDispatcherAckOK ==
  ASSUME TypeInv, BoundInv, LastInv, MadeInv, PhaseInv, GDispatcherAck
  PROVE  TypeInv' /\ BoundInv' /\ LastInv' /\ MadeInv' /\ PhaseInv'
<1>1. /\ gQueue # <<>> /\ Head(gQueue).ev = Told /\ gw.status = "RemoteOperationReqStatus"
  BY DEF GDispatcherAck, GOn, GIs, Told
<1>2. /\ gw' \in Control /\ gw'.status \in {"DispatcherAckMessageStatus", "ThingControlStop"}
      /\ gw'.operation = gw.operation /\ gw'.made = gw.made
      /\ TimerOK(gTimer') /\ gTimer'.fired = gTimer.fired
      /\ Goroutines(gTimer') = Goroutines(gTimer)
  <2>1. gw.made
    BY <1>1, GHead DEF MadeInv
  <2>2. /\ GGoes("DispatcherAckMessageStatus") \/ GGoes("ThingControlStop")
        /\ gTimer' \in {Stopped(gTimer), Closed(Stopped(gTimer))}
    BY <2>1 DEF GDispatcherAck
  <2>3. PICK s \in {"DispatcherAckMessageStatus", "ThingControlStop"} : gw' = [gw EXCEPT !.status = s]
    BY <2>2 DEF GGoes
  <2>4. s \in ControlStates
    BY DEF ControlStates
  <2>5. /\ gw' \in Control /\ gw'.status \in {"DispatcherAckMessageStatus", "ThingControlStop"}
        /\ gw'.operation = gw.operation /\ gw'.made = gw.made
    BY <2>3, <2>4, ControlSet DEF TypeInv
  <2> QED
    BY <2>2, <2>5, GTimers
<1> DEFINE b == "no"
           m == NoOperation
<1>3. faults' \in Budget /\ (b = "yes" => m \in ToDevice) /\ b \in {"yes", "no"} /\ b # "yes"
  BY Sending DEF GDispatcherAck
<1>4. GMove(b, m)
  BY <1>1 DEF GMove, Longer, GDispatcherAck, GDone, GRest
<1>5. /\ Adds(b, m, Req) = 0 /\ Adds(b, m, Told) = 0
      /\ Is(Head(gQueue), Req) = 0 /\ Is(Head(gQueue), Told) = 1
      /\ Is(Head(gQueue), End) = 0 /\ Is(Head(gQueue), Ack) = 0
  BY <1>1, GHead DEF Adds, Is, Req, Told, End, Ack
<1> HIDE DEF b, m
<1>6. TypeInv' /\ BoundInv' /\ LastInv'
  BY <1>2, <1>3, <1>4, <1>5, Fields, GKeeps
<1>7. /\ Requested' = Requested /\ Answered' = Answered - 1 /\ Ended' = Ended /\ Acked' = Acked
      /\ Tolds' = Tolds /\ Ending' = Ending /\ Acking' = Acking
  BY <1>3, <1>4, <1>5, GMoves, Numbers
<1>8. Answered > 0 /\ dev' = dev /\ expired' = expired /\ dTimer' = dTimer
  BY <1>1, <1>4, GHead DEF GMove, devVars
<1>9. MadeInv'
  BY <1>1, <1>2, <1>7, <1>8, Numbers, Fields DEF MadeInv
<1>10. PhaseInv'
  <2> SUFFICES ASSUME expired'.used = 0 PROVE NoneFired' /\ OwnInv' /\ TokenInv' /\ SidesInv'
    BY DEF PhaseInv
  <2>1. NoneFired /\ OwnInv /\ TokenInv /\ SidesInv
    BY <1>8 DEF PhaseInv
  <2>2. OwnInv'
    BY <1>2, <1>3, <1>4, <1>8, <2>1, GMoves DEF OwnInv, Told, Req
  <2>3. TokenInv'
    BY <1>1, <1>2, <1>7, <1>8, <2>1, Numbers DEF TokenInv
  <2>4. SidesInv'
    BY <1>1, <1>2, <1>7, <1>8, <2>1, Numbers DEF SidesInv, TokenInv
  <2> QED
    BY <1>2, <1>8, <2>1, <2>2, <2>3, <2>4 DEF NoneFired
<1> QED
  BY <1>6, <1>9, <1>10

(* The end of an operation is acknowledged.                                *)
LEMMA GEndOK ==
  ASSUME TypeInv, BoundInv, LastInv, MadeInv, PhaseInv, GEnd
  PROVE  TypeInv' /\ BoundInv' /\ LastInv' /\ MadeInv' /\ PhaseInv'
<1>1. /\ gQueue # <<>> /\ Head(gQueue).ev = End /\ gw.status = "DispatcherAckMessageStatus"
      /\ Head(gQueue).op = gw.operation
  BY DEF GEnd, GOn, GIs, Fits, GOp, End
<1>2. /\ gw' \in Control /\ gw'.status = "RemoteOperationEndStatus"
      /\ gw'.operation = gw.operation /\ gw'.made = gw.made
      /\ TimerOK(gTimer') /\ gTimer'.fired = gTimer.fired
      /\ Goroutines(gTimer') = Goroutines(gTimer)
  BY ControlSet, GTimers DEF GEnd, GGoes, TypeInv, ControlStates
<1> DEFINE m == Event("EventDispatcherAckMessage", gw.operation)
<1>3. m \in ToDevice /\ m.ev = Told /\ m.op = gw.operation
  BY <1>1, GHead DEF Event, ToDevice, Told, Req, End, Ack
<1>4. (\E b \in {"yes", "no"} : g2d' = Longer(g2d, b, m)) /\ faults' \in Budget
  BY Sending DEF GEnd
<1> HIDE DEF m
<1>5. PICK b \in {"yes", "no"} : g2d' = Longer(g2d, b, m)
  BY <1>4
<1>6. GMove(b, m)
  BY <1>1, <1>5 DEF GMove, GEnd, GDone, GRest
<1>7. /\ Adds(b, m, Req) = 0 /\ Adds(b, m, Told) \in 0..1
      /\ Is(Head(gQueue), Req) = 0 /\ Is(Head(gQueue), Told) = 0
      /\ Is(Head(gQueue), End) = 1 /\ Is(Head(gQueue), Ack) = 0
  BY <1>1, <1>3, GHead DEF Adds, Is, Req, Told, End, Ack
<1>8. TypeInv' /\ BoundInv' /\ LastInv'
  BY <1>2, <1>3, <1>4, <1>6, <1>7, Fields, GKeeps
<1>9. /\ Requested' = Requested /\ Answered' = Answered /\ Ended' = Ended - 1 /\ Acked' = Acked
      /\ Tolds' \in {Tolds, Tolds + 1} /\ Ending' = Ending /\ Acking' = Acking
  BY <1>3, <1>4, <1>6, <1>7, GMoves, Numbers
<1>10. Ended > 0 /\ dev' = dev /\ expired' = expired /\ dTimer' = dTimer
  BY <1>1, <1>6, GHead DEF GMove, devVars
<1>11. MadeInv'
  BY <1>1, <1>2, <1>9, <1>10, Numbers, Fields DEF MadeInv
<1>12. PhaseInv'
  <2> SUFFICES ASSUME expired'.used = 0 PROVE NoneFired' /\ OwnInv' /\ TokenInv' /\ SidesInv'
    BY DEF PhaseInv
  <2>1. NoneFired /\ OwnInv /\ TokenInv /\ SidesInv
    BY <1>10 DEF PhaseInv
  <2>2. dev.operation = gw.operation
    BY <1>1, <2>1 DEF SidesInv
  <2>3. OwnInv'
    BY <1>2, <2>2, <1>3, <1>4, <1>6, <1>10, <2>1, GMoves DEF OwnInv, Told, Req
  <2>4. TokenInv'
    BY <1>1, <1>2, <1>9, <1>10, <2>1, Numbers DEF TokenInv
  <2>5. SidesInv'
    BY <1>1, <1>2, <1>9, <1>10, <2>1, Numbers DEF SidesInv, TokenInv
  <2> QED
    BY <1>2, <1>10, <2>1, <2>3, <2>4, <2>5 DEF NoneFired
<1> QED
  BY <1>8, <1>11, <1>12

(* The end of another operation, or one that is not acknowledged.          *)
LEMMA GEndFailsOK ==
  ASSUME TypeInv, BoundInv, LastInv, MadeInv, PhaseInv, GEndFails
  PROVE  TypeInv' /\ BoundInv' /\ LastInv' /\ MadeInv' /\ PhaseInv'
<1>1. /\ gQueue # <<>> /\ Head(gQueue).ev = End /\ gw.status = "DispatcherAckMessageStatus"
  BY DEF GEndFails, GOn, GIs, End
<1>2. /\ gw' \in Control /\ gw'.status \in {"ThingControlStop", "RemoteOperationEndStatus"}
      /\ gw'.operation = gw.operation /\ gw'.made = gw.made
      /\ TimerOK(gTimer') /\ gTimer'.fired = gTimer.fired
      /\ Goroutines(gTimer') = Goroutines(gTimer)
  <2>1. /\ GGoes("ThingControlStop") \/ GGoes("RemoteOperationEndStatus")
        /\ gTimer' \in {gTimer, Closed(gTimer)}
    BY DEF GEndFails, GStops
  <2>2. PICK s \in {"ThingControlStop", "RemoteOperationEndStatus"} : gw' = [gw EXCEPT !.status = s]
    BY <2>1 DEF GGoes
  <2>3. s \in ControlStates
    BY DEF ControlStates
  <2>4. /\ gw' \in Control /\ gw'.status \in {"ThingControlStop", "RemoteOperationEndStatus"}
        /\ gw'.operation = gw.operation /\ gw'.made = gw.made
    BY <2>2, <2>3, ControlSet DEF TypeInv
  <2> QED
    BY <2>1, <2>4, GTimers
<1> DEFINE b == "no"
           m == NoOperation
<1>3. faults' \in Budget /\ (b = "yes" => m \in ToDevice) /\ b \in {"yes", "no"} /\ b # "yes"
  BY Sending DEF GEndFails
<1>4. GMove(b, m)
  BY <1>1 DEF GMove, Longer, GEndFails, GDone, GRest
<1>5. /\ Adds(b, m, Req) = 0 /\ Adds(b, m, Told) = 0
      /\ Is(Head(gQueue), Req) = 0 /\ Is(Head(gQueue), Told) = 0
      /\ Is(Head(gQueue), End) = 1 /\ Is(Head(gQueue), Ack) = 0
  BY <1>1, GHead DEF Adds, Is, Req, Told, End, Ack
<1> HIDE DEF b, m
<1>6. TypeInv' /\ BoundInv' /\ LastInv'
  BY <1>2, <1>3, <1>4, <1>5, Fields, GKeeps
<1>7. /\ Requested' = Requested /\ Answered' = Answered /\ Ended' = Ended - 1 /\ Acked' = Acked
      /\ Tolds' = Tolds /\ Ending' = Ending /\ Acking' = Acking
  BY <1>3, <1>4, <1>5, GMoves, Numbers
<1>8. Ended > 0 /\ dev' = dev /\ expired' = expired /\ dTimer' = dTimer
  BY <1>1, <1>4, GHead DEF GMove, devVars
<1>9. MadeInv'
  BY <1>1, <1>2, <1>7, <1>8, Numbers, Fields DEF MadeInv
<1>10. PhaseInv'
  <2> SUFFICES ASSUME expired'.used = 0 PROVE NoneFired' /\ OwnInv' /\ TokenInv' /\ SidesInv'
    BY DEF PhaseInv
  <2>1. NoneFired /\ OwnInv /\ TokenInv /\ SidesInv
    BY <1>8 DEF PhaseInv
  <2>2. OwnInv'
    BY <1>2, <1>3, <1>4, <1>8, <2>1, GMoves DEF OwnInv, Told, Req
  <2>3. TokenInv'
    BY <1>1, <1>2, <1>7, <1>8, <2>1, Numbers DEF TokenInv
  <2>4. SidesInv'
    BY <1>1, <1>2, <1>7, <1>8, <2>1, Numbers DEF SidesInv, TokenInv
  <2> QED
    BY <1>2, <1>8, <2>1, <2>2, <2>3, <2>4 DEF NoneFired
<1> QED
  BY <1>6, <1>9, <1>10

(* The operation is over: the last acknowledgement.                        *)
LEMMA GAckOK ==
  ASSUME TypeInv, BoundInv, LastInv, MadeInv, PhaseInv, GAck
  PROVE  TypeInv' /\ BoundInv' /\ LastInv' /\ MadeInv' /\ PhaseInv'
<1>1. /\ gQueue # <<>> /\ Head(gQueue).ev = Ack /\ gw.status = "RemoteOperationEndStatus"
      /\ Head(gQueue).op = gw.operation
  BY DEF GAck, GOn, GIs, Fits, GOp, Ack
<1>2. /\ gw' \in Control /\ gw'.status = "ThingControlStop"
      /\ gw'.operation = gw.operation /\ gw'.made = gw.made
      /\ TimerOK(gTimer') /\ gTimer'.fired = gTimer.fired
      /\ Goroutines(gTimer') = Goroutines(gTimer)
  BY ControlSet, GTimers DEF GAck, GStops, GGoes, TypeInv, ControlStates
<1> DEFINE m == Event("EventDispatcherAckMessage", gw.operation)
<1>3. m \in ToDevice /\ m.ev = Told /\ m.op = gw.operation
  BY <1>1, GHead DEF Event, ToDevice, Told, Req, End, Ack
<1>4. (\E b \in {"yes", "no"} : g2d' = Longer(g2d, b, m)) /\ faults' \in Budget
  BY Sending DEF GAck
<1> HIDE DEF m
<1>5. PICK b \in {"yes", "no"} : g2d' = Longer(g2d, b, m)
  BY <1>4
<1>6. GMove(b, m)
  BY <1>1, <1>5 DEF GMove, GAck, GDone, GRest
<1>7. /\ Adds(b, m, Req) = 0 /\ Adds(b, m, Told) \in 0..1
      /\ Is(Head(gQueue), Req) = 0 /\ Is(Head(gQueue), Told) = 0
      /\ Is(Head(gQueue), End) = 0 /\ Is(Head(gQueue), Ack) = 1
  BY <1>1, <1>3, GHead DEF Adds, Is, Req, Told, End, Ack
<1>8. TypeInv' /\ BoundInv' /\ LastInv'
  BY <1>2, <1>3, <1>4, <1>6, <1>7, Fields, GKeeps
<1>9. /\ Requested' = Requested /\ Answered' = Answered /\ Ended' = Ended /\ Acked' = Acked - 1
      /\ Tolds' \in {Tolds, Tolds + 1} /\ Ending' = Ending /\ Acking' = Acking
  BY <1>3, <1>4, <1>6, <1>7, GMoves, Numbers
<1>10. Acked > 0 /\ dev' = dev /\ expired' = expired /\ dTimer' = dTimer
  BY <1>1, <1>6, GHead DEF GMove, devVars
<1>11. MadeInv'
  BY <1>1, <1>2, <1>9, <1>10, Numbers, Fields DEF MadeInv
<1>12. PhaseInv'
  <2> SUFFICES ASSUME expired'.used = 0 PROVE NoneFired' /\ OwnInv' /\ TokenInv' /\ SidesInv'
    BY DEF PhaseInv
  <2>1. NoneFired /\ OwnInv /\ TokenInv /\ SidesInv
    BY <1>10 DEF PhaseInv
  <2>2. dev.operation = gw.operation
    BY <1>1, <2>1 DEF SidesInv
  <2>3. OwnInv'
    BY <1>2, <2>2, <1>3, <1>4, <1>6, <1>10, <2>1, GMoves DEF OwnInv, Told, Req
  <2>4. TokenInv'
    BY <1>1, <1>2, <1>9, <1>10, <2>1, Numbers DEF TokenInv
  <2>5. SidesInv'
    BY <1>1, <1>2, <1>9, <1>10, <2>1, Numbers DEF SidesInv, TokenInv
  <2> QED
    BY <1>2, <1>10, <2>1, <2>3, <2>4, <2>5 DEF NoneFired
<1> QED
  BY <1>8, <1>11, <1>12

(* The end of another operation, or one that is not acknowledged.          *)
LEMMA GAckFailsOK ==
  ASSUME TypeInv, BoundInv, LastInv, MadeInv, PhaseInv, GAckFails
  PROVE  TypeInv' /\ BoundInv' /\ LastInv' /\ MadeInv' /\ PhaseInv'
<1>1. /\ gQueue # <<>> /\ Head(gQueue).ev = Ack /\ gw.status = "RemoteOperationEndStatus"
  BY DEF GAckFails, GOn, GIs, Ack
<1>2. /\ gw' \in Control /\ gw'.status \in {"ThingControlStop", "RemoteOperationAckStatus"}
      /\ gw'.operation = gw.operation /\ gw'.made = gw.made
      /\ TimerOK(gTimer') /\ gTimer'.fired = gTimer.fired
      /\ Goroutines(gTimer') = Goroutines(gTimer)
  <2>1. /\ GGoes("ThingControlStop") \/ GGoes("RemoteOperationAckStatus")
        /\ gTimer' \in {gTimer, Closed(gTimer)}
    BY DEF GAckFails, GStops
  <2>2. PICK s \in {"ThingControlStop", "RemoteOperationAckStatus"} : gw' = [gw EXCEPT !.status = s]
    BY <2>1 DEF GGoes
  <2>3. s \in ControlStates
    BY DEF ControlStates
  <2>4. /\ gw' \in Control /\ gw'.status \in {"ThingControlStop", "RemoteOperationAckStatus"}
        /\ gw'.operation = gw.operation /\ gw'.made = gw.made
    BY <2>2, <2>3, ControlSet DEF TypeInv
  <2> QED
    BY <2>1, <2>4, GTimers
<1> DEFINE b == "no"
           m == NoOperation
<1>3. faults' \in Budget /\ (b = "yes" => m \in ToDevice) /\ b \in {"yes", "no"} /\ b # "yes"
  BY Sending DEF GAckFails
<1>4. GMove(b, m)
  BY <1>1 DEF GMove, Longer, GAckFails, GDone, GRest
<1>5. /\ Adds(b, m, Req) = 0 /\ Adds(b, m, Told) = 0
      /\ Is(Head(gQueue), Req) = 0 /\ Is(Head(gQueue), Told) = 0
      /\ Is(Head(gQueue), End) = 0 /\ Is(Head(gQueue), Ack) = 1
  BY <1>1, GHead DEF Adds, Is, Req, Told, End, Ack
<1> HIDE DEF b, m
<1>6. TypeInv' /\ BoundInv' /\ LastInv'
  BY <1>2, <1>3, <1>4, <1>5, Fields, GKeeps
<1>7. /\ Requested' = Requested /\ Answered' = Answered /\ Ended' = Ended /\ Acked' = Acked - 1
      /\ Tolds' = Tolds /\ Ending' = Ending /\ Acking' = Acking
  BY <1>3, <1>4, <1>5, GMoves, Numbers
<1>8. Acked > 0 /\ dev' = dev /\ expired' = expired /\ dTimer' = dTimer
  BY <1>1, <1>4, GHead DEF GMove, devVars
<1>9. MadeInv'
  BY <1>1, <1>2, <1>7, <1>8, Numbers, Fields DEF MadeInv
<1>10. PhaseInv'
  <2> SUFFICES ASSUME expired'.used = 0 PROVE NoneFired' /\ OwnInv' /\ TokenInv' /\ SidesInv'
    BY DEF PhaseInv
  <2>1. NoneFired /\ OwnInv /\ TokenInv /\ SidesInv
    BY <1>8 DEF PhaseInv
  <2>2. OwnInv'
    BY <1>2, <1>3, <1>4, <1>8, <2>1, GMoves DEF OwnInv, Told, Req
  <2>3. TokenInv'
    BY <1>1, <1>2, <1>7, <1>8, <2>1, Numbers DEF TokenInv
  <2>4. SidesInv'
    BY <1>1, <1>2, <1>7, <1>8, <2>1, Numbers DEF SidesInv, TokenInv
  <2> QED
    BY <1>2, <1>8, <2>1, <2>2, <2>3, <2>4 DEF NoneFired
<1> QED
  BY <1>6, <1>9, <1>10

-----------------------------------------------------------------------------
(* The handlers of the device.                                             *)

(* What every handler of the device keeps while it is connected.           *)
LEMMA DKeeps ==
  ASSUME TypeInv, BoundInv, LastInv,
         NEW a \in {"yes", "no"}, NEW n,
         a = "yes" => n \in OfDevice /\ n.ev \notin {Req, "EventConnectServer"},
         NEW b \in {"yes", "no"}, NEW m, b = "yes" => m \in ToGateway, DMove(a, n, b, m),
         conn' \in {"up", "broken", "login"}, reader' = reader,
         dev' \in Control, faults' \in Budget, TimerOK(dTimer'),
         dev'.status \in {"DispatcherAckMessageStatus", "RemoteOperationEndStatus",
                          "RemoteOperationAckStatus"} => dev'.operation \in Operations,
         Goroutines(dTimer') + Adds(a, n, End)
           <= Goroutines(dTimer) + Is(Head(dQueue), Req) + Is(Head(dQueue), End)
  PROVE  TypeInv' /\ BoundInv' /\ LastInv'
<1>1. /\ dQueue' \in Seq(OfDevice) /\ d2g' \in Seq(ToGateway)
      /\ \A e : Count(dQueue', e) = Count(dQueue, e) - Is(Head(dQueue), e) + Adds(a, n, e)
  BY DMoves
<1>2. TypeInv'
  BY <1>1 DEF TypeInv, DMove, gwVars
<1>3. BoundInv'
  <2>1. /\ Count(gQueue, Req) \in Nat /\ Count(g2d, Req) \in Nat /\ Count(dQueue, Req) \in Nat
        /\ Count(dQueue, End) \in Nat /\ Goroutines(gTimer) \in Nat /\ Goroutines(dTimer) \in Nat
        /\ commands.used \in Nat /\ Goroutines(dTimer') \in Nat
    BY Numbers, Fields, TimerTyped
  <2>2. /\ Is(Head(dQueue), Req) \in 0..1 /\ Is(Head(dQueue), End) \in 0..1
        /\ Adds(a, n, End) \in 0..1 /\ Adds(a, n, Req) = 0
    BY DEF Is, Adds
  <2>3. /\ gQueue' = gQueue /\ g2d' = g2d /\ gTimer' = gTimer /\ commands' = commands
    BY DEF DMove, gwVars
  <2>4. /\ Count(dQueue', Req) = Count(dQueue, Req) - Is(Head(dQueue), Req)
        /\ Count(dQueue', End) = Count(dQueue, End) - Is(Head(dQueue), End) + Adds(a, n, End)
    BY <1>1, <2>1, <2>2
  <2>5. /\ Count(dQueue', Req) + Count(dQueue', End) + Goroutines(dTimer')
             <= Count(dQueue, Req) + Count(dQueue, End) + Goroutines(dTimer)
        /\ Count(dQueue', Req) \in Int /\ Count(dQueue', End) \in Int
    BY <2>1, <2>2, <2>4
  <2>6. Count(gQueue, Req) + Count(g2d, Req) + Count(dQueue', Req) + Count(dQueue', End)
          + Goroutines(dTimer') <= commands.used
    BY <2>1, <2>5 DEF BoundInv
  <2> QED
    BY <2>3, <2>6 DEF BoundInv, Req, End
<1>4. LastInv'
  <2>1. dQueue \in Seq(OfDevice) /\ dQueue # <<>> /\ OwnBehind(dQueue)
        /\ dQueue' = Longer(Tail(dQueue), a, n)
    BY DEF TypeInv, DMove, LastInv
  <2>2. Tail(dQueue) \in Seq(OfDevice) /\ OwnBehind(Tail(dQueue))
    BY <2>1, BehindQueue, TailAt
  <2>3. OwnBehind(dQueue')
    <3>1. CASE a = "yes"
      BY <2>1, <2>2, <3>1, BehindQueue DEF Longer
    <3>2. CASE a # "yes"
      BY <2>1, <2>2, <3>2 DEF Longer
    <3> QED
      BY <3>1, <3>2
  <2>4. reader => Count(dQueue', "EventConnectServer") = 0
    <3>1. Adds(a, n, "EventConnectServer") = 0
      BY DEF Adds
    <3>2. Is(Head(dQueue), "EventConnectServer") \in 0..1
      BY DEF Is
    <3>3. Count(dQueue', "EventConnectServer") = Count(dQueue, "EventConnectServer")
                                                 - Is(Head(dQueue), "EventConnectServer")
      <4>1. Count(dQueue', "EventConnectServer")
              = Count(dQueue, "EventConnectServer") - Is(Head(dQueue), "EventConnectServer")
                + Adds(a, n, "EventConnectServer")
        BY <1>1
      <4>2. Count(dQueue, "EventConnectServer") \in Nat
        BY Numbers
      <4> QED
        BY <3>1, <3>2, <4>1, <4>2
    <3>4. Count(dQueue', "EventConnectServer") \in Nat
      BY <1>1, Counting
    <3> QED
      BY <3>2, <3>3, <3>4 DEF LastInv
  <2> QED
    BY <2>3, <2>4 DEF LastInv
<1> QED
  BY <1>2, <1>3, <1>4

(* What the device's handlers make of its timer.                           *)
LEMMA DTimers ==
  ASSUME TypeInv
  PROVE  /\ \A x \in {dTimer, Stopped(dTimer), Restarted(dTimer), Closed(Stopped(dTimer))} :
              TimerOK(x) /\ x.fired = dTimer.fired /\ Goroutines(x) = Goroutines(dTimer)
         /\ TimerOK(Started(dTimer)) /\ Started(dTimer).fired = dTimer.fired
         /\ Goroutines(Started(dTimer)) = Goroutines(dTimer) + 1
<1>1. TimerOK(dTimer)
  BY DEF TypeInv
<1> QED
  BY <1>1, KeptOK, StartedOK, FiredKept

(* The login of a new connection.                                          *)
LEMMA DLoginSuccessOK ==
  ASSUME TypeInv, BoundInv, LastInv, MadeInv, PhaseInv, DLoginSuccess
  PROVE  TypeInv' /\ BoundInv' /\ LastInv' /\ MadeInv' /\ PhaseInv'
<1>1. /\ dQueue # <<>>
  BY DEF DLoginSuccess, DOn, DIs
<1>2. /\ dev' = dev /\ dev' \in Control
      /\ dev'.status \in {"DispatcherAckMessageStatus", "RemoteOperationEndStatus",
                         "RemoteOperationAckStatus"} => dev'.operation \in Operations
      /\ TimerOK(dTimer') /\ dTimer'.fired = dTimer.fired
      /\ Goroutines(dTimer') = Goroutines(dTimer)
  BY DTimers DEF DLoginSuccess, TypeInv, devVars
<1> DEFINE n == NoOperation
<1> DEFINE m == NoOperation
<1>3. d2g' = Longer(d2g, "no", m) /\ faults' \in Budget
  BY Sending DEF DLoginSuccess, Longer, NoFault
<1> HIDE DEF n, m
<1>4. dQueue' = Longer(Tail(dQueue), "no", n)
  BY DEF DLoginSuccess, Longer, DThen, DDone, n
<1>5. DMove("no", n, "no", m) /\ reader' = reader /\ conn' \in {"up", "broken", "login"}
  BY <1>1, <1>4, <1>3 DEF DMove, DLoginSuccess, DRest, TypeInv
<1>6. /\ \A e : Is(Head(dQueue), e) \in 0..1
      /\ Adds("no", n, Req) = 0 /\ Adds("no", n, Told) = 0
      /\ Adds("no", n, End) = 0 /\ Adds("no", n, Ack) = 0
      /\ Adds("no", m, Told) = 0 /\ Adds("no", m, End) = 0 /\ Adds("no", m, Ack) = 0
  BY <1>1, DHead DEF Adds, Is, Req, Told, End, Ack
<1>7. TypeInv' /\ BoundInv' /\ LastInv'
  BY <1>2, <1>3, <1>5, <1>6, Fields, DKeeps
<1>8. /\ Is(Head(dQueue), Req) # 0 => Requested > 0
      /\ Is(Head(dQueue), Told) # 0 => Tolds > 0
      /\ Is(Head(dQueue), End) # 0 => Ending > 0
      /\ Is(Head(dQueue), Ack) # 0 => Acking > 0
  BY <1>1, DHead DEF Is
<1>9. /\ Requested' = Requested - Is(Head(dQueue), Req) /\ Tolds' = Tolds - Is(Head(dQueue), Told)
      /\ Ending' = Ending - Is(Head(dQueue), End) /\ Acking' = Acking - Is(Head(dQueue), Ack)
      /\ Answered' = Answered /\ Ended' = Ended /\ Acked' = Acked
  <2>1. /\ Requested' = Requested - Is(Head(dQueue), Req) + Adds("no", n, Req)
        /\ Tolds' = Tolds - Is(Head(dQueue), Told) + Adds("no", n, Told)
        /\ Ending' = Ending - Is(Head(dQueue), End) + Adds("no", n, End)
        /\ Acking' = Acking - Is(Head(dQueue), Ack) + Adds("no", n, Ack)
        /\ Answered' = Answered + Adds("no", m, Told)
        /\ Ended' = Ended + Adds("no", m, End)
        /\ Acked' = Acked + Adds("no", m, Ack)
    BY <1>5, DMoves
  <2> QED
    BY <1>6, <2>1, Numbers
<1>10. /\ Requested' \in Nat /\ Requested' <= Requested /\ Tolds' \in Nat /\ Tolds' <= Tolds
       /\ Ending' \in Nat /\ Ending' <= Ending /\ Acking' \in Nat /\ Acking' <= Acking
       /\ Answered' = Answered /\ Ended' = Ended /\ Acked' = Acked
  BY <1>6, <1>8, <1>9, Numbers
<1>11. gw' = gw /\ expired' = expired /\ gTimer' = gTimer
  BY <1>1, <1>5, DHead DEF DMove, gwVars
<1>12. MadeInv'
  BY <1>1, <1>2, <1>10, <1>11, Numbers, Fields DEF MadeInv
<1>13. PhaseInv'
  <2> SUFFICES ASSUME expired'.used = 0 PROVE NoneFired' /\ OwnInv' /\ TokenInv' /\ SidesInv'
    BY DEF PhaseInv
  <2>1. NoneFired /\ OwnInv /\ TokenInv /\ SidesInv
    BY <1>11 DEF PhaseInv
  <2>2. OwnInv'
    <3>1. OwnDevice(dQueue', g2d', gQueue', d2g', dev'.operation)
      BY <1>1, <1>2, <1>5, <2>1, DMoves DEF OwnInv, Told, End, Ack
    <3>2. OwnGateway(dQueue', g2d', gQueue', d2g', gw.operation)
      BY <1>5, <2>1, DMoves DEF OwnInv
    <3> QED
      BY <1>11, <3>1, <3>2 DEF OwnInv
  <2>3. TokenInv'
    <3>1. Ending' + Ended' + Acking' + Acked' + Tolds' <= 1 /\ Requested' + Answered' <= 1
      <4>1. Ending + Ended + Acking + Acked + Tolds <= 1 /\ Requested + Answered <= 1
        BY <2>1 DEF TokenInv
      <4> QED
        BY <1>10, <4>1, Numbers
    <3>2. /\ Ending' > 0 => Ending > 0
          /\ Acking' > 0 => Acking > 0
          /\ Tolds' > 0 => Tolds > 0
          /\ Requested = 0 => Requested' = 0
      BY <1>10, Numbers
    <3> QED
      BY <1>2, <1>10, <1>11, <2>1, <3>1, <3>2 DEF TokenInv
  <2>4. SidesInv'
    <3>1. (Tolds = 0 => Tolds' = 0) /\ (Acking = 0 => Acking' = 0)
      BY <1>10, Numbers
    <3> QED
      BY <1>2, <1>10, <1>11, <2>1, <3>1 DEF SidesInv
  <2> QED
    BY <1>2, <1>11, <2>1, <2>2, <2>3, <2>4 DEF NoneFired
<1> QED
  BY <1>7, <1>12, <1>13

(* An event out of turn.                                                   *)
LEMMA DRefusedOK ==
  ASSUME TypeInv, BoundInv, LastInv, MadeInv, PhaseInv, DRefused
  PROVE  TypeInv' /\ BoundInv' /\ LastInv' /\ MadeInv' /\ PhaseInv'
<1>1. /\ dQueue # <<>>
  BY DEF DRefused, DOn, DIs
<1>2. /\ dev' = dev /\ dev' \in Control
      /\ dev'.status \in {"DispatcherAckMessageStatus", "RemoteOperationEndStatus",
                         "RemoteOperationAckStatus"} => dev'.operation \in Operations
      /\ TimerOK(dTimer') /\ dTimer'.fired = dTimer.fired
      /\ Goroutines(dTimer') = Goroutines(dTimer)
  BY DTimers DEF DRefused, TypeInv, DRest
<1> DEFINE n == NoOperation
<1> DEFINE m == NoOperation
<1>3. d2g' = Longer(d2g, "no", m) /\ faults' \in Budget
  BY Sending DEF DRefused, Longer, NoFault
<1> HIDE DEF n, m
<1>4. dQueue' = Longer(Tail(dQueue), "no", n)
  BY DEF DRefused, Longer, DThen, DDone, n
<1>5. DMove("no", n, "no", m) /\ reader' = reader /\ conn' \in {"up", "broken", "login"}
  BY <1>1, <1>4, <1>3 DEF DMove, DRefused, DRest, TypeInv
<1>6. /\ \A e : Is(Head(dQueue), e) \in 0..1
      /\ Adds("no", n, Req) = 0 /\ Adds("no", n, Told) = 0
      /\ Adds("no", n, End) = 0 /\ Adds("no", n, Ack) = 0
      /\ Adds("no", m, Told) = 0 /\ Adds("no", m, End) = 0 /\ Adds("no", m, Ack) = 0
  BY <1>1, DHead DEF Adds, Is, Req, Told, End, Ack
<1>7. TypeInv' /\ BoundInv' /\ LastInv'
  BY <1>2, <1>3, <1>5, <1>6, Fields, DKeeps
<1>8. /\ Is(Head(dQueue), Req) # 0 => Requested > 0
      /\ Is(Head(dQueue), Told) # 0 => Tolds > 0
      /\ Is(Head(dQueue), End) # 0 => Ending > 0
      /\ Is(Head(dQueue), Ack) # 0 => Acking > 0
  BY <1>1, DHead DEF Is
<1>9. /\ Requested' = Requested - Is(Head(dQueue), Req) /\ Tolds' = Tolds - Is(Head(dQueue), Told)
      /\ Ending' = Ending - Is(Head(dQueue), End) /\ Acking' = Acking - Is(Head(dQueue), Ack)
      /\ Answered' = Answered /\ Ended' = Ended /\ Acked' = Acked
  <2>1. /\ Requested' = Requested - Is(Head(dQueue), Req) + Adds("no", n, Req)
        /\ Tolds' = Tolds - Is(Head(dQueue), Told) + Adds("no", n, Told)
        /\ Ending' = Ending - Is(Head(dQueue), End) + Adds("no", n, End)
        /\ Acking' = Acking - Is(Head(dQueue), Ack) + Adds("no", n, Ack)
        /\ Answered' = Answered + Adds("no", m, Told)
        /\ Ended' = Ended + Adds("no", m, End)
        /\ Acked' = Acked + Adds("no", m, Ack)
    BY <1>5, DMoves
  <2> QED
    BY <1>6, <2>1, Numbers
<1>10. /\ Requested' \in Nat /\ Requested' <= Requested /\ Tolds' \in Nat /\ Tolds' <= Tolds
       /\ Ending' \in Nat /\ Ending' <= Ending /\ Acking' \in Nat /\ Acking' <= Acking
       /\ Answered' = Answered /\ Ended' = Ended /\ Acked' = Acked
  BY <1>6, <1>8, <1>9, Numbers
<1>11. gw' = gw /\ expired' = expired /\ gTimer' = gTimer
  BY <1>1, <1>5, DHead DEF DMove, gwVars
<1>12. MadeInv'
  BY <1>1, <1>2, <1>10, <1>11, Numbers, Fields DEF MadeInv
<1>13. PhaseInv'
  <2> SUFFICES ASSUME expired'.used = 0 PROVE NoneFired' /\ OwnInv' /\ TokenInv' /\ SidesInv'
    BY DEF PhaseInv
  <2>1. NoneFired /\ OwnInv /\ TokenInv /\ SidesInv
    BY <1>11 DEF PhaseInv
  <2>2. OwnInv'
    <3>1. OwnDevice(dQueue', g2d', gQueue', d2g', dev'.operation)
      BY <1>1, <1>2, <1>5, <2>1, DMoves DEF OwnInv, Told, End, Ack
    <3>2. OwnGateway(dQueue', g2d', gQueue', d2g', gw.operation)
      BY <1>5, <2>1, DMoves DEF OwnInv
    <3> QED
      BY <1>11, <3>1, <3>2 DEF OwnInv
  <2>3. TokenInv'
    <3>1. Ending' + Ended' + Acking' + Acked' + Tolds' <= 1 /\ Requested' + Answered' <= 1
      <4>1. Ending + Ended + Acking + Acked + Tolds <= 1 /\ Requested + Answered <= 1
        BY <2>1 DEF TokenInv
      <4> QED
        BY <1>10, <4>1, Numbers
    <3>2. /\ Ending' > 0 => Ending > 0
          /\ Acking' > 0 => Acking > 0
          /\ Tolds' > 0 => Tolds > 0
          /\ Requested = 0 => Requested' = 0
      BY <1>10, Numbers
    <3> QED
      BY <1>2, <1>10, <1>11, <2>1, <3>1, <3>2 DEF TokenInv
  <2>4. SidesInv'
    <3>1. (Tolds = 0 => Tolds' = 0) /\ (Acking = 0 => Acking' = 0)
      BY <1>10, Numbers
    <3> QED
      BY <1>2, <1>10, <1>11, <2>1, <3>1 DEF SidesInv
  <2> QED
    BY <1>2, <1>11, <2>1, <2>2, <2>3, <2>4 DEF NoneFired
<1> QED
  BY <1>7, <1>12, <1>13

(* A request: its answer, and the end of the operation.                    *)
LEMMA DRequestOK ==
  ASSUME TypeInv, BoundInv, LastInv, MadeInv, PhaseInv, DRequest
  PROVE  TypeInv' /\ BoundInv' /\ LastInv' /\ MadeInv' /\ PhaseInv'
<1>1. /\ dQueue # <<>> /\ Head(dQueue).ev = Req /\ dev.status = "ThingControlStop"
  BY DEF DRequest, DOn, DIs, Req
<1>2. /\ dev' \in Control /\ dev'.status = "DispatcherAckMessageStatus"
      /\ dev'.operation = Head(dQueue).op /\ dev'.made = dev.made
      /\ dev'.status \in {"DispatcherAckMessageStatus", "RemoteOperationEndStatus",
                         "RemoteOperationAckStatus"} => dev'.operation \in Operations
      /\ TimerOK(dTimer') /\ dTimer'.fired = dTimer.fired
      /\ Goroutines(dTimer') = Goroutines(dTimer)
  <2>1. Head(dQueue).op \in Operations
    BY <1>1, DHead
  <2>2. /\ dev' \in Control /\ dev'.status = "DispatcherAckMessageStatus"
        /\ dev'.operation = Head(dQueue).op /\ dev'.made = dev.made
    BY <2>1 DEF DRequest, DOp, TypeInv, Control, ControlStates
  <2> QED
    BY <2>1, <2>2, DTimers DEF DRequest
<1> DEFINE n == [Head(dQueue) EXCEPT !.ev = "EventRemoteOperationEnd"]
<1>3. n \in OfDevice /\ n.ev = End /\ n.op = Head(dQueue).op /\ n.ev # Req
  BY <1>1, DHead DEF OfDevice, DevEvents, GwEvents, Req, Told, End, Ack
<1> DEFINE m == Event("EventDispatcherAckMessage", Head(dQueue).op)
<1>4. /\ m \in ToGateway /\ m.ev = Told /\ m.op = Head(dQueue).op
  BY <1>1, DHead DEF Event, ToGateway, Told, End, Ack
<1>5. (\E b \in {"yes", "no"} : d2g' = Longer(d2g, b, m)) /\ faults' \in Budget
  BY Sending DEF DRequest, NoFault, DOp
<1> HIDE DEF n, m
<1>6. dQueue' = Longer(Tail(dQueue), "yes", n)
  BY DEF DRequest, Longer, DThen, DDone, n
<1>7. PICK b \in {"yes", "no"} : d2g' = Longer(d2g, b, m)
  BY <1>5
<1>8. DMove("yes", n, b, m) /\ reader' = reader /\ conn' \in {"up", "broken", "login"}
  BY <1>1, <1>6, <1>7 DEF DMove, DRequest, DRest, TypeInv
<1>9. /\ Is(Head(dQueue), Req) = 1 /\ Is(Head(dQueue), Told) = 0
      /\ Is(Head(dQueue), End) = 0 /\ Is(Head(dQueue), Ack) = 0
      /\ Adds("yes", n, Req) = 0 /\ Adds("yes", n, Told) = 0
      /\ Adds("yes", n, End) = 1 /\ Adds("yes", n, Ack) = 0
      /\ Adds(b, m, Told) \in 0..1 /\ Adds(b, m, End) = 0 /\ Adds(b, m, Ack) = 0
  BY <1>1, <1>3, <1>4, DHead DEF Adds, Is, Req, Told, End, Ack
<1>10. TypeInv' /\ BoundInv' /\ LastInv'
  <2>1. /\ n \in OfDevice /\ n.ev \notin {Req, "EventConnectServer"}
        /\ b = "yes" => m \in ToGateway
    BY <1>3, <1>4, <1>1 DEF Req, Told, End, Ack
  <2> QED
    BY <1>2, <1>5, <1>8, <1>9, <2>1, Fields, DKeeps
<1>11. /\ Requested' = Requested - 1 /\ Tolds' = Tolds /\ Ending' = Ending + 1 /\ Acking' = Acking
       /\ (Answered' = Answered \/ Answered' = Answered + 1) /\ Ended' = Ended /\ Acked' = Acked
  BY <1>3, <1>4, <1>8, <1>9, DMoves, Numbers
<1>12. Requested > 0 /\ gw' = gw /\ expired' = expired /\ gTimer' = gTimer
  BY <1>1, <1>8, DHead DEF DMove, gwVars
<1>13. MadeInv'
  BY <1>1, <1>2, <1>11, <1>12, Numbers, Fields DEF MadeInv
<1>14. PhaseInv'
  <2> SUFFICES ASSUME expired'.used = 0 PROVE NoneFired' /\ OwnInv' /\ TokenInv' /\ SidesInv'
    BY DEF PhaseInv
  <2>1. NoneFired /\ OwnInv /\ TokenInv /\ SidesInv
    BY <1>12 DEF PhaseInv
  <2>2. OwnDevice(dQueue, g2d, gQueue, d2g, dev'.operation)
    BY <1>1, <2>1, NoneOwned, Numbers DEF TokenInv
  <2>3. /\ Requested = 1 /\ Answered = 0 /\ gw.status = "RemoteOperationReqStatus"
        /\ Ending = 0 /\ Ended = 0 /\ Acking = 0 /\ Acked = 0 /\ Tolds = 0
        /\ Head(dQueue).op = gw.operation
    BY <1>1, <1>12, <2>1, Numbers, DHead DEF TokenInv, OwnInv
  <2>4. OwnInv'
    <3>1. OwnDevice(dQueue', g2d', gQueue', d2g', dev'.operation)
      BY <1>1, <1>2, <2>2, <1>3, <1>4, <1>8, <2>1, <2>3, DMoves DEF OwnInv, Told, End, Ack
    <3>2. OwnGateway(dQueue', g2d', gQueue', d2g', gw.operation)
      BY <1>3, <1>4, <1>8, <2>1, <2>3, DMoves DEF OwnInv
    <3> QED
      BY <1>12, <3>1, <3>2 DEF OwnInv
  <2>5. TokenInv'
    <3>1. Ending' + Ended' + Acking' + Acked' + Tolds' <= 1 /\ Requested' + Answered' <= 1
      <4>1. Requested + Answered <= 1
        BY <2>1 DEF TokenInv
      <4> QED
        BY <1>11, <2>3, <4>1, Numbers
    <3> QED
      BY <1>1, <1>2, <1>11, <1>12, <2>1, <2>2, <2>3, <3>1, Numbers DEF TokenInv
  <2>6. SidesInv'
    BY <1>1, <1>2, <1>11, <1>12, <2>1, <2>2, <2>3, Numbers DEF SidesInv, TokenInv
  <2> QED
    BY <1>2, <1>12, <2>1, <2>4, <2>5, <2>6 DEF NoneFired
<1> QED
  BY <1>10, <1>13, <1>14

(* A request whose answer does not get out.                                *)
LEMMA DRequestFailsOK ==
  ASSUME TypeInv, BoundInv, LastInv, MadeInv, PhaseInv, DRequestFails
  PROVE  TypeInv' /\ BoundInv' /\ LastInv' /\ MadeInv' /\ PhaseInv'
<1>1. /\ dQueue # <<>> /\ Head(dQueue).ev = Req /\ dev.status = "ThingControlStop"
  BY DEF DRequestFails, DOn, DIs, Req
<1>2. /\ dev' \in Control /\ dev'.status \in {"RemoteOperationReqStatus", "DispatcherAckMessageStatus"}
      /\ dev'.made = dev.made
      /\ dev'.status \in {"DispatcherAckMessageStatus", "RemoteOperationEndStatus",
                         "RemoteOperationAckStatus"} => dev'.operation \in Operations
      /\ TimerOK(dTimer') /\ dTimer'.fired = dTimer.fired
      /\ Goroutines(dTimer') = Goroutines(dTimer)
  <2>1. Head(dQueue).op \in Operations /\ dev \in Control
    BY <1>1, DHead DEF TypeInv
  <2>2. CASE dev' = [dev EXCEPT !.status = "RemoteOperationReqStatus"]
    BY <2>1, <2>2, DTimers DEF DRequestFails, Control, ControlStates
  <2>3. CASE dev' = [dev EXCEPT !.status = "DispatcherAckMessageStatus", !.operation = DOp]
    BY <2>1, <2>3, DTimers DEF DRequestFails, DOp, Control, ControlStates
  <2> QED
    BY <2>2, <2>3 DEF DRequestFails, DGoes
<1> DEFINE n == NoOperation
<1> DEFINE m == NoOperation
<1>3. d2g' = Longer(d2g, "no", m) /\ faults' \in Budget
  BY Sending DEF DRequestFails, Longer
<1> HIDE DEF n, m
<1>4. dQueue' = Longer(Tail(dQueue), "no", n)
  BY DEF DRequestFails, Longer, DThen, DDone, n
<1>5. DMove("no", n, "no", m) /\ reader' = reader /\ conn' \in {"up", "broken", "login"}
  BY <1>1, <1>4, <1>3 DEF DMove, DRequestFails, DRest, TypeInv
<1>6. /\ Is(Head(dQueue), Req) = 1 /\ Is(Head(dQueue), Told) = 0
      /\ Is(Head(dQueue), End) = 0 /\ Is(Head(dQueue), Ack) = 0
      /\ Adds("no", n, Req) = 0 /\ Adds("no", n, Told) = 0
      /\ Adds("no", n, End) = 0 /\ Adds("no", n, Ack) = 0
      /\ Adds("no", m, Told) = 0 /\ Adds("no", m, End) = 0 /\ Adds("no", m, Ack) = 0
  BY <1>1, DHead DEF Adds, Is, Req, Told, End, Ack
<1>7. TypeInv' /\ BoundInv' /\ LastInv'
  BY <1>2, <1>3, <1>5, <1>6, Fields, DKeeps
<1>8. /\ Requested' = Requested - 1 /\ Tolds' = Tolds /\ Ending' = Ending /\ Acking' = Acking
      /\ Answered' = Answered /\ Ended' = Ended /\ Acked' = Acked
  BY <1>5, <1>6, DMoves, Numbers
<1>9. Requested > 0 /\ gw' = gw /\ expired' = expired /\ gTimer' = gTimer
  BY <1>1, <1>5, DHead DEF DMove, gwVars
<1>10. MadeInv'
  BY <1>1, <1>2, <1>8, <1>9, Numbers, Fields DEF MadeInv
<1>11. PhaseInv'
  <2> SUFFICES ASSUME expired'.used = 0 PROVE NoneFired' /\ OwnInv' /\ TokenInv' /\ SidesInv'
    BY DEF PhaseInv
  <2>1. NoneFired /\ OwnInv /\ TokenInv /\ SidesInv
    BY <1>9 DEF PhaseInv
  <2>2. OwnDevice(dQueue, g2d, gQueue, d2g, dev'.operation)
    BY <1>1, <2>1, NoneOwned, Numbers DEF TokenInv
  <2>3. /\ Requested = 1 /\ Answered = 0 /\ gw.status = "RemoteOperationReqStatus"
        /\ Ending = 0 /\ Ended = 0 /\ Acking = 0 /\ Acked = 0 /\ Tolds = 0
        /\ Head(dQueue).op = gw.operation
    BY <1>1, <1>9, <2>1, Numbers, DHead DEF TokenInv, OwnInv
  <2>4. OwnInv'
    <3>1. OwnDevice(dQueue', g2d', gQueue', d2g', dev'.operation)
      BY <1>1, <1>2, <2>2, <1>5, <2>1, DMoves DEF OwnInv, Told, End, Ack
    <3>2. OwnGateway(dQueue', g2d', gQueue', d2g', gw.operation)
      BY <1>5, <2>1, DMoves DEF OwnInv
    <3> QED
      BY <1>9, <3>1, <3>2 DEF OwnInv
  <2>5. TokenInv'
    <3>1. Ending' + Ended' + Acking' + Acked' + Tolds' <= 1 /\ Requested' + Answered' <= 1
      <4>1. Requested + Answered <= 1
        BY <2>1 DEF TokenInv
      <4> QED
        BY <1>8, <2>3, <4>1, Numbers
    <3> QED
      BY <1>1, <1>2, <1>8, <1>9, <2>1, <2>2, <2>3, <3>1, Numbers DEF TokenInv
  <2>6. SidesInv'
    BY <1>1, <1>2, <1>8, <1>9, <2>1, <2>2, <2>3, Numbers DEF SidesInv, TokenInv
  <2> QED
    BY <1>2, <1>9, <2>1, <2>4, <2>5, <2>6 DEF NoneFired
<1> QED
  BY <1>7, <1>10, <1>11

(* The end of the operation is told to the gateway.                        *)
LEMMA DEndOK ==
  ASSUME TypeInv, BoundInv, LastInv, MadeInv, PhaseInv, DEnd
  PROVE  TypeInv' /\ BoundInv' /\ LastInv' /\ MadeInv' /\ PhaseInv'
<1>1. /\ dQueue # <<>> /\ Head(dQueue).ev = End /\ dev.status = "DispatcherAckMessageStatus"
  BY DEF DEnd, DOn, DIs, End
<1>2. /\ dev' \in Control /\ dev'.status = "RemoteOperationEndStatus" /\ dev'.operation = dev.operation
      /\ dev'.made
      /\ dev'.status \in {"DispatcherAckMessageStatus", "RemoteOperationEndStatus",
                         "RemoteOperationAckStatus"} => dev'.operation \in Operations
      /\ TimerOK(dTimer') /\ dTimer'.fired = dTimer.fired
      /\ Goroutines(dTimer') = Goroutines(dTimer) + 1
  <2>1. dev \in Control /\ dev.operation \in Operations
    BY <1>1 DEF TypeInv
  <2>2. /\ dev' \in Control /\ dev'.status = "RemoteOperationEndStatus" /\ dev'.operation = dev.operation
        /\ dev'.made
    BY <2>1 DEF DEnd, DGoes, Control, ControlStates
  <2> QED
    BY <2>1, <2>2, DTimers DEF DEnd
<1> DEFINE n == NoOperation
<1> DEFINE m == Event("EventRemoteOperationEnd", dev.operation)
<1>3. /\ m \in ToGateway /\ m.ev = End /\ m.op = dev.operation
      /\ m.ev # Told
  BY <1>1, DHead DEF TypeInv, Event, ToGateway, Told, End, Ack
<1>4. (\E b \in {"yes", "no"} : d2g' = Longer(d2g, b, m)) /\ faults' \in Budget
  BY Sending DEF DEnd, NoFault
<1> HIDE DEF n, m
<1>5. dQueue' = Longer(Tail(dQueue), "no", n)
  BY DEF DEnd, Longer, DThen, DDone, n
<1>6. PICK b \in {"yes", "no"} : d2g' = Longer(d2g, b, m)
  BY <1>4
<1>7. DMove("no", n, b, m) /\ reader' = reader /\ conn' \in {"up", "broken", "login"}
  BY <1>1, <1>5, <1>6 DEF DMove, DEnd, DRest, TypeInv
<1>8. /\ Is(Head(dQueue), Req) = 0 /\ Is(Head(dQueue), Told) = 0
      /\ Is(Head(dQueue), End) = 1 /\ Is(Head(dQueue), Ack) = 0
      /\ Adds("no", n, Req) = 0 /\ Adds("no", n, Told) = 0
      /\ Adds("no", n, End) = 0 /\ Adds("no", n, Ack) = 0
      /\ Adds(b, m, Told) = 0 /\ Adds(b, m, End) \in 0..1 /\ Adds(b, m, Ack) = 0
  BY <1>1, <1>3, DHead DEF Adds, Is, Req, Told, End, Ack
<1>9. TypeInv' /\ BoundInv' /\ LastInv'
  <2>1. b = "yes" => m \in ToGateway
    BY <1>3, <1>1 DEF Req, Told, End, Ack
  <2> QED
    BY <1>2, <1>4, <1>7, <1>8, <2>1, Fields, DKeeps
<1>10. /\ Requested' = Requested /\ Tolds' = Tolds /\ Ending' = Ending - 1 /\ Acking' = Acking
       /\ Answered' = Answered /\ (Ended' = Ended \/ Ended' = Ended + 1) /\ Acked' = Acked
  BY <1>3, <1>7, <1>8, DMoves, Numbers
<1>11. Ending > 0 /\ gw' = gw /\ expired' = expired /\ gTimer' = gTimer
  BY <1>1, <1>7, DHead DEF DMove, gwVars
<1>12. MadeInv'
  BY <1>1, <1>2, <1>10, <1>11, Numbers, Fields DEF MadeInv
<1>13. PhaseInv'
  <2> SUFFICES ASSUME expired'.used = 0 PROVE NoneFired' /\ OwnInv' /\ TokenInv' /\ SidesInv'
    BY DEF PhaseInv
  <2>1. NoneFired /\ OwnInv /\ TokenInv /\ SidesInv
    BY <1>11 DEF PhaseInv
  <2>2. /\ Tolds = 0 /\ Ending = 1 /\ Ended = 0 /\ Acking = 0 /\ Acked = 0
        /\ Head(dQueue).op = dev.operation
    <3>1. Ending > 0 /\ Ending + Ended + Acking + Acked + Tolds <= 1
      BY <1>11, <2>1 DEF TokenInv
    <3>2. Head(dQueue).op = dev.operation
      BY <1>1, <2>1, DHead DEF OwnInv
    <3> QED
      BY <3>1, <3>2, Numbers
  <2>3. OwnInv'
    <3>1. OwnDevice(dQueue', g2d', gQueue', d2g', dev'.operation)
      BY <1>1, <1>2, <1>3, <1>7, <2>1, <2>2, DMoves DEF OwnInv, Told, End, Ack
    <3>2. OwnGateway(dQueue', g2d', gQueue', d2g', gw.operation)
      BY <1>3, <1>7, <2>1, DMoves DEF OwnInv
    <3> QED
      BY <1>11, <3>1, <3>2 DEF OwnInv
  <2>4. TokenInv'
    <3>1. Ending' + Ended' + Acking' + Acked' + Tolds' <= 1 /\ Requested' + Answered' <= 1
      <4>1. Requested + Answered <= 1
        BY <2>1 DEF TokenInv
      <4> QED
        BY <1>10, <2>2, <4>1, Numbers
    <3> QED
      BY <1>1, <1>2, <1>10, <1>11, <2>1, <2>2, <3>1, Numbers DEF TokenInv
  <2>5. SidesInv'
    BY <1>1, <1>2, <1>10, <1>11, <2>1, <2>2, Numbers DEF SidesInv, TokenInv
  <2> QED
    BY <1>2, <1>11, <2>1, <2>3, <2>4, <2>5 DEF NoneFired
<1> QED
  BY <1>9, <1>12, <1>13

(* The end of the operation does not get out.                              *)
LEMMA DEndFailsOK ==
  ASSUME TypeInv, BoundInv, LastInv, MadeInv, PhaseInv, DEndFails
  PROVE  TypeInv' /\ BoundInv' /\ LastInv' /\ MadeInv' /\ PhaseInv'
<1>1. /\ dQueue # <<>> /\ Head(dQueue).ev = End /\ dev.status = "DispatcherAckMessageStatus"
  BY DEF DEndFails, DOn, DIs, End
<1>2. /\ dev' \in Control /\ dev'.status = "RemoteOperationEndStatus" /\ dev'.operation = dev.operation
      /\ dev'.made = dev.made
      /\ dev'.status \in {"DispatcherAckMessageStatus", "RemoteOperationEndStatus",
                         "RemoteOperationAckStatus"} => dev'.operation \in Operations
      /\ TimerOK(dTimer') /\ dTimer'.fired = dTimer.fired
      /\ Goroutines(dTimer') = Goroutines(dTimer)
  <2>1. dev \in Control /\ dev.operation \in Operations
    BY <1>1 DEF TypeInv
  <2>2. /\ dev' \in Control /\ dev'.status = "RemoteOperationEndStatus" /\ dev'.operation = dev.operation
        /\ dev'.made = dev.made
    BY <2>1 DEF DEndFails, DGoes, Control, ControlStates
  <2> QED
    BY <2>1, <2>2, DTimers DEF DEndFails
<1> DEFINE n == NoOperation
<1> DEFINE m == NoOperation
<1>3. d2g' = Longer(d2g, "no", m) /\ faults' \in Budget
  BY Sending DEF DEndFails, Longer
<1> HIDE DEF n, m
<1>4. dQueue' = Longer(Tail(dQueue), "no", n)
  BY DEF DEndFails, Longer, DThen, DDone, n
<1>5. DMove("no", n, "no", m) /\ reader' = reader /\ conn' \in {"up", "broken", "login"}
  BY <1>1, <1>4, <1>3 DEF DMove, DEndFails, DRest, TypeInv
<1>6. /\ Is(Head(dQueue), Req) = 0 /\ Is(Head(dQueue), Told) = 0
      /\ Is(Head(dQueue), End) = 1 /\ Is(Head(dQueue), Ack) = 0
      /\ Adds("no", n, Req) = 0 /\ Adds("no", n, Told) = 0
      /\ Adds("no", n, End) = 0 /\ Adds("no", n, Ack) = 0
      /\ Adds("no", m, Told) = 0 /\ Adds("no", m, End) = 0 /\ Adds("no", m, Ack) = 0
  BY <1>1, DHead DEF Adds, Is, Req, Told, End, Ack
<1>7. TypeInv' /\ BoundInv' /\ LastInv'
  BY <1>2, <1>3, <1>5, <1>6, Fields, DKeeps
<1>8. /\ Requested' = Requested /\ Tolds' = Tolds /\ Ending' = Ending - 1 /\ Acking' = Acking
      /\ Answered' = Answered /\ Ended' = Ended /\ Acked' = Acked
  BY <1>5, <1>6, DMoves, Numbers
<1>9. Ending > 0 /\ gw' = gw /\ expired' = expired /\ gTimer' = gTimer
  BY <1>1, <1>5, DHead DEF DMove, gwVars
<1>10. MadeInv'
  BY <1>1, <1>2, <1>8, <1>9, Numbers, Fields DEF MadeInv
<1>11. PhaseInv'
  <2> SUFFICES ASSUME expired'.used = 0 PROVE NoneFired' /\ OwnInv' /\ TokenInv' /\ SidesInv'
    BY DEF PhaseInv
  <2>1. NoneFired /\ OwnInv /\ TokenInv /\ SidesInv
    BY <1>9 DEF PhaseInv
  <2>2. /\ Tolds = 0 /\ Ending = 1 /\ Ended = 0 /\ Acking = 0 /\ Acked = 0
        /\ Head(dQueue).op = dev.operation
    <3>1. Ending > 0 /\ Ending + Ended + Acking + Acked + Tolds <= 1
      BY <1>9, <2>1 DEF TokenInv
    <3>2. Head(dQueue).op = dev.operation
      BY <1>1, <2>1, DHead DEF OwnInv
    <3> QED
      BY <3>1, <3>2, Numbers
  <2>3. OwnInv'
    <3>1. OwnDevice(dQueue', g2d', gQueue', d2g', dev'.operation)
      BY <1>1, <1>2, <1>5, <2>1, DMoves DEF OwnInv, Told, End, Ack
    <3>2. OwnGateway(dQueue', g2d', gQueue', d2g', gw.operation)
      BY <1>5, <2>1, DMoves DEF OwnInv
    <3> QED
      BY <1>9, <3>1, <3>2 DEF OwnInv
  <2>4. TokenInv'
    <3>1. Ending' + Ended' + Acking' + Acked' + Tolds' <= 1 /\ Requested' + Answered' <= 1
      <4>1. Requested + Answered <= 1
        BY <2>1 DEF TokenInv
      <4> QED
        BY <1>8, <2>2, <4>1, Numbers
    <3> QED
      BY <1>1, <1>2, <1>8, <1>9, <2>1, <2>2, <3>1, Numbers DEF TokenInv
  <2>5. SidesInv'
    BY <1>1, <1>2, <1>8, <1>9, <2>1, <2>2, Numbers DEF SidesInv, TokenInv
  <2> QED
    BY <1>2, <1>9, <2>1, <2>3, <2>4, <2>5 DEF NoneFired
<1> QED
  BY <1>7, <1>10, <1>11

(* The gateway has seen the end of the operation.                          *)
LEMMA DEndAckedOK ==
  ASSUME TypeInv, BoundInv, LastInv, MadeInv, PhaseInv, DEndAcked
  PROVE  TypeInv' /\ BoundInv' /\ LastInv' /\ MadeInv' /\ PhaseInv'
<1>1. /\ dQueue # <<>> /\ Head(dQueue).ev = Told /\ dev.status = "RemoteOperationEndStatus"
  BY DEF DEndAcked, DOn, DIs, Told
<1>2. /\ dev' \in Control /\ dev'.status \in {"RemoteOperationEndStatus", "ThingControlStop"}
      /\ dev'.status = "ThingControlStop" => Head(dQueue).op # dev.operation
      /\ dev'.operation = dev.operation /\ dev'.made /\ dev.made
      /\ dev'.status \in {"DispatcherAckMessageStatus", "RemoteOperationEndStatus",
                         "RemoteOperationAckStatus"} => dev'.operation \in Operations
      /\ TimerOK(dTimer') /\ dTimer'.fired = dTimer.fired
      /\ Goroutines(dTimer') = Goroutines(dTimer)
  <2>1. dev.made /\ dev \in Control /\ dev.operation \in Operations
    BY <1>1, DHead DEF MadeInv, TypeInv
  <2>2. \E s \in ControlStates :
          /\ dev' = [dev EXCEPT !.status = s]
          /\ s \in {"RemoteOperationEndStatus", "ThingControlStop"}
          /\ s = "ThingControlStop" => Head(dQueue).op # dev.operation
    BY <1>1, <2>1 DEF DEndAcked, DGoes, DOp, DStopsTimer, DClosesTimer, ControlStates
  <2>3. dTimer' \in {Stopped(dTimer), Closed(Stopped(dTimer))}
    BY <2>1 DEF DEndAcked, DStopsTimer, DClosesTimer
  <2>4. TimerOK(dTimer') /\ dTimer'.fired = dTimer.fired /\ Goroutines(dTimer') = Goroutines(dTimer)
    BY <2>3, DTimers
  <2>5. PICK s \in ControlStates :
          /\ dev' = [dev EXCEPT !.status = s]
          /\ s \in {"RemoteOperationEndStatus", "ThingControlStop"}
          /\ s = "ThingControlStop" => Head(dQueue).op # dev.operation
    BY <2>2
  <2>6. dev' \in Control /\ dev'.status = s /\ dev'.operation = dev.operation /\ dev'.made = dev.made
    BY <2>1, <2>5, ControlSet
  <2> QED
    BY <2>1, <2>4, <2>5, <2>6
<1> DEFINE n == [Head(dQueue) EXCEPT !.ev = "EventRemoteOperationAck"]
<1>3. n \in OfDevice /\ n.ev = Ack /\ n.op = Head(dQueue).op /\ n.ev # Req
  BY <1>1, DHead DEF OfDevice, DevEvents, GwEvents, Req, Told, End, Ack
<1> DEFINE m == NoOperation
<1>4. d2g' = Longer(d2g, "no", m) /\ faults' \in Budget
  BY Sending DEF DEndAcked, Longer
<1>5. \E a \in {"yes", "no"} :
         /\ dQueue' = Longer(Tail(dQueue), a, n)
         /\ a = "yes" => dev'.status = "RemoteOperationEndStatus"
  <2>1. \/ dQueue' = Append(Tail(dQueue), n) /\ dev' = [dev EXCEPT !.status = dev.status]
        \/ dQueue' = Tail(dQueue)
    BY <1>2 DEF DEndAcked, DThen, DDone, DGoes, DStopsTimer
  <2>2. dev \in Control
    BY DEF TypeInv
  <2>3. CASE dQueue' = Append(Tail(dQueue), n) /\ dev' = [dev EXCEPT !.status = dev.status]
    <3>1. dQueue' = Longer(Tail(dQueue), "yes", n) /\ dev'.status = "RemoteOperationEndStatus"
      BY <1>1, <2>2, <2>3 DEF Longer, Control
    <3> QED
      BY <3>1
  <2>4. CASE dQueue' = Tail(dQueue)
    <3>1. dQueue' = Longer(Tail(dQueue), "no", n)
      BY <2>4 DEF Longer
    <3> QED
      BY <3>1
  <2> QED
    BY <2>1, <2>3, <2>4
<1> HIDE DEF n, m
<1>6. PICK a \in {"yes", "no"} :
         /\ dQueue' = Longer(Tail(dQueue), a, n)
         /\ a = "yes" => dev'.status = "RemoteOperationEndStatus"
  BY <1>5
<1>7. DMove(a, n, "no", m) /\ reader' = reader /\ conn' \in {"up", "broken", "login"}
  BY <1>1, <1>6, <1>4 DEF DMove, DEndAcked, DRest, TypeInv
<1>8. /\ Is(Head(dQueue), Req) = 0 /\ Is(Head(dQueue), Told) = 1
      /\ Is(Head(dQueue), End) = 0 /\ Is(Head(dQueue), Ack) = 0
      /\ Adds(a, n, Req) = 0 /\ Adds(a, n, Told) = 0
      /\ Adds(a, n, End) = 0 /\ Adds(a, n, Ack) \in 0..1
      /\ Adds("no", m, Told) = 0 /\ Adds("no", m, End) = 0 /\ Adds("no", m, Ack) = 0
  BY <1>1, <1>3, DHead DEF Adds, Is, Req, Told, End, Ack
<1>9. TypeInv' /\ BoundInv' /\ LastInv'
  <2>1. /\ a = "yes" => n \in OfDevice /\ n.ev \notin {Req, "EventConnectServer"}
    BY <1>3, <1>1 DEF Req, Told, End, Ack
  <2> QED
    BY <1>2, <1>4, <1>7, <1>8, <2>1, Fields, DKeeps
<1>10. /\ Requested' = Requested /\ Tolds' = Tolds - 1 /\ Ending' = Ending
       /\ (Acking' = Acking \/ Acking' = Acking + 1)
       /\ Answered' = Answered /\ Ended' = Ended /\ Acked' = Acked
  <2>1. /\ Requested' = Requested - Is(Head(dQueue), Req) + Adds(a, n, Req)
        /\ Tolds' = Tolds - Is(Head(dQueue), Told) + Adds(a, n, Told)
        /\ Ending' = Ending - Is(Head(dQueue), End) + Adds(a, n, End)
        /\ Acking' = Acking - Is(Head(dQueue), Ack) + Adds(a, n, Ack)
        /\ Answered' = Answered + Adds("no", m, Told)
        /\ Ended' = Ended + Adds("no", m, End)
        /\ Acked' = Acked + Adds("no", m, Ack)
    BY <1>3, <1>7, DMoves
  <2>2. Acking' = Acking \/ Acking' = Acking + 1
    BY <1>8, <2>1, Numbers
  <2> QED
    BY <1>8, <2>1, <2>2, Numbers
<1>11. Tolds > 0 /\ gw' = gw /\ expired' = expired /\ gTimer' = gTimer
  BY <1>1, <1>7, DHead DEF DMove, gwVars
<1>12. MadeInv'
  BY <1>1, <1>2, <1>6, <1>10, <1>11, Numbers, Fields DEF MadeInv
<1>13. PhaseInv'
  <2> SUFFICES ASSUME expired'.used = 0 PROVE NoneFired' /\ OwnInv' /\ TokenInv' /\ SidesInv'
    BY DEF PhaseInv
  <2>1. NoneFired /\ OwnInv /\ TokenInv /\ SidesInv
    BY <1>11 DEF PhaseInv
  <2>2. /\ Tolds = 1 /\ Ending = 0 /\ Ended = 0 /\ Acking = 0 /\ Acked = 0
        /\ Head(dQueue).op = dev.operation
    <3>1. Tolds > 0 /\ Ending + Ended + Acking + Acked + Tolds <= 1
      BY <1>11, <2>1 DEF TokenInv
    <3>2. Head(dQueue).op = dev.operation
      BY <1>1, <2>1, DHead DEF OwnInv
    <3> QED
      BY <3>1, <3>2, Numbers
  <2>3. OwnInv'
    <3>1. OwnDevice(dQueue', g2d', gQueue', d2g', dev'.operation)
      BY <1>1, <1>2, <1>3, <1>7, <2>1, <2>2, DMoves DEF OwnInv, Told, End, Ack
    <3>2. OwnGateway(dQueue', g2d', gQueue', d2g', gw.operation)
      BY <1>3, <1>7, <2>1, DMoves DEF OwnInv
    <3> QED
      BY <1>11, <3>1, <3>2 DEF OwnInv
  <2>4. TokenInv'
    <3>1. Ending' + Ended' + Acking' + Acked' + Tolds' <= 1 /\ Requested' + Answered' <= 1
      <4>1. Requested + Answered <= 1
        BY <2>1 DEF TokenInv
      <4> QED
        BY <1>10, <2>2, <4>1, Numbers
    <3> QED
      BY <1>1, <1>2, <1>6, <1>10, <1>11, <2>1, <2>2, <3>1, Numbers DEF TokenInv
  <2>5. SidesInv'
    BY <1>1, <1>2, <1>6, <1>10, <1>11, <2>1, <2>2, Numbers DEF SidesInv, TokenInv
  <2> QED
    BY <1>2, <1>11, <2>1, <2>3, <2>4, <2>5 DEF NoneFired
<1> QED
  BY <1>9, <1>12, <1>13

(* The gateway has seen that the operation is over.                        *)
LEMMA DAckAckedOK ==
  ASSUME TypeInv, BoundInv, LastInv, MadeInv, PhaseInv, DAckAcked
  PROVE  TypeInv' /\ BoundInv' /\ LastInv' /\ MadeInv' /\ PhaseInv'
<1>1. /\ dQueue # <<>> /\ Head(dQueue).ev = Told /\ dev.status = "RemoteOperationAckStatus"
  BY DEF DAckAcked, DOn, DIs, Told
<1>2. /\ dev' \in Control /\ dev'.status \in {"RemoteOperationAckStatus", "ThingControlStop"}
      /\ dev'.operation = dev.operation /\ dev'.made
      /\ dev'.status \in {"DispatcherAckMessageStatus", "RemoteOperationEndStatus",
                         "RemoteOperationAckStatus"} => dev'.operation \in Operations
      /\ TimerOK(dTimer') /\ dTimer'.fired = dTimer.fired
      /\ Goroutines(dTimer') = Goroutines(dTimer)
  <2>1. dev.made /\ dev \in Control /\ dev.operation \in Operations
    BY <1>1, DHead DEF MadeInv, TypeInv
  <2>2. \E s \in ControlStates :
          /\ dev' = [dev EXCEPT !.status = s]
          /\ s \in {"RemoteOperationAckStatus", "ThingControlStop"}
    BY <1>1, <2>1 DEF DAckAcked, DGoes, DStopsTimer, DClosesTimer, ControlStates
  <2>3. dTimer' \in {Stopped(dTimer), Closed(Stopped(dTimer))}
    BY <2>1 DEF DAckAcked, DStopsTimer, DClosesTimer
  <2>4. TimerOK(dTimer') /\ dTimer'.fired = dTimer.fired /\ Goroutines(dTimer') = Goroutines(dTimer)
    BY <2>3, DTimers
  <2>5. PICK s \in ControlStates :
          /\ dev' = [dev EXCEPT !.status = s]
          /\ s \in {"RemoteOperationAckStatus", "ThingControlStop"}
    BY <2>2
  <2>6. dev' \in Control /\ dev'.status = s /\ dev'.operation = dev.operation /\ dev'.made = dev.made
    BY <2>1, <2>5, ControlSet
  <2> QED
    BY <2>1, <2>4, <2>5, <2>6
<1> DEFINE n == NoOperation
<1> DEFINE m == NoOperation
<1>3. d2g' = Longer(d2g, "no", m) /\ faults' \in Budget
  BY Sending DEF DAckAcked, Longer
<1> HIDE DEF n, m
<1>4. dQueue' = Longer(Tail(dQueue), "no", n)
  BY DEF DAckAcked, Longer, DThen, DDone, n
<1>5. DMove("no", n, "no", m) /\ reader' = reader /\ conn' \in {"up", "broken", "login"}
  BY <1>1, <1>4, <1>3 DEF DMove, DAckAcked, DRest, TypeInv
<1>6. /\ Is(Head(dQueue), Req) = 0 /\ Is(Head(dQueue), Told) = 1
      /\ Is(Head(dQueue), End) = 0 /\ Is(Head(dQueue), Ack) = 0
      /\ Adds("no", n, Req) = 0 /\ Adds("no", n, Told) = 0
      /\ Adds("no", n, End) = 0 /\ Adds("no", n, Ack) = 0
      /\ Adds("no", m, Told) = 0 /\ Adds("no", m, End) = 0 /\ Adds("no", m, Ack) = 0
  BY <1>1, DHead DEF Adds, Is, Req, Told, End, Ack
<1>7. TypeInv' /\ BoundInv' /\ LastInv'
  BY <1>2, <1>3, <1>5, <1>6, Fields, DKeeps
<1>8. /\ Requested' = Requested /\ Tolds' = Tolds - 1 /\ Ending' = Ending /\ Acking' = Acking
      /\ Answered' = Answered /\ Ended' = Ended /\ Acked' = Acked
  BY <1>5, <1>6, DMoves, Numbers
<1>9. Tolds > 0 /\ gw' = gw /\ expired' = expired /\ gTimer' = gTimer
  BY <1>1, <1>5, DHead DEF DMove, gwVars
<1>10. MadeInv'
  BY <1>1, <1>2, <1>8, <1>9, Numbers, Fields DEF MadeInv
<1>11. PhaseInv'
  <2> SUFFICES ASSUME expired'.used = 0 PROVE NoneFired' /\ OwnInv' /\ TokenInv' /\ SidesInv'
    BY DEF PhaseInv
  <2>1. NoneFired /\ OwnInv /\ TokenInv /\ SidesInv
    BY <1>9 DEF PhaseInv
  <2>2. /\ Tolds = 1 /\ Ending = 0 /\ Ended = 0 /\ Acking = 0 /\ Acked = 0
        /\ Head(dQueue).op = dev.operation
    <3>1. Tolds > 0 /\ Ending + Ended + Acking + Acked + Tolds <= 1
      BY <1>9, <2>1 DEF TokenInv
    <3>2. Head(dQueue).op = dev.operation
      BY <1>1, <2>1, DHead DEF OwnInv
    <3> QED
      BY <3>1, <3>2, Numbers
  <2>3. OwnInv'
    <3>1. OwnDevice(dQueue', g2d', gQueue', d2g', dev'.operation)
      BY <1>1, <1>2, <1>5, <2>1, DMoves DEF OwnInv, Told, End, Ack
    <3>2. OwnGateway(dQueue', g2d', gQueue', d2g', gw.operation)
      BY <1>5, <2>1, DMoves DEF OwnInv
    <3> QED
      BY <1>9, <3>1, <3>2 DEF OwnInv
  <2>4. TokenInv'
    <3>1. Ending' + Ended' + Acking' + Acked' + Tolds' <= 1 /\ Requested' + Answered' <= 1
      <4>1. Requested + Answered <= 1
        BY <2>1 DEF TokenInv
      <4> QED
        BY <1>8, <2>2, <4>1, Numbers
    <3> QED
      BY <1>1, <1>2, <1>8, <1>9, <2>1, <2>2, <3>1, Numbers DEF TokenInv
  <2>5. SidesInv'
    BY <1>1, <1>2, <1>8, <1>9, <2>1, <2>2, Numbers DEF SidesInv, TokenInv
  <2> QED
    BY <1>2, <1>9, <2>1, <2>3, <2>4, <2>5 DEF NoneFired
<1> QED
  BY <1>7, <1>10, <1>11

(* The operation is over.                                                  *)
LEMMA DAckOK ==
  ASSUME TypeInv, BoundInv, LastInv, MadeInv, PhaseInv, DAck
  PROVE  TypeInv' /\ BoundInv' /\ LastInv' /\ MadeInv' /\ PhaseInv'
<1>1. /\ dQueue # <<>> /\ Head(dQueue).ev = Ack /\ dev.status = "RemoteOperationEndStatus"
  BY DEF DAck, DOn, DIs, Ack
<1>2. /\ dev' \in Control /\ dev'.status = "RemoteOperationAckStatus" /\ dev'.operation = dev.operation
      /\ dev'.made = dev.made
      /\ dev'.status \in {"DispatcherAckMessageStatus", "RemoteOperationEndStatus",
                         "RemoteOperationAckStatus"} => dev'.operation \in Operations
      /\ TimerOK(dTimer') /\ dTimer'.fired = dTimer.fired
      /\ Goroutines(dTimer') = Goroutines(dTimer)
  <2>1. dev \in Control /\ dev.operation \in Operations
    BY <1>1 DEF TypeInv
  <2>2. /\ dev' \in Control /\ dev'.status = "RemoteOperationAckStatus" /\ dev'.operation = dev.operation
        /\ dev'.made = dev.made
    BY <2>1 DEF DAck, DGoes, Control, ControlStates
  <2> QED
    BY <2>1, <2>2, DTimers DEF DAck
<1> DEFINE n == NoOperation
<1> DEFINE m == Event("EventRemoteOperationAck", dev.operation)
<1>3. /\ m \in ToGateway /\ m.ev = Ack /\ m.op = dev.operation
      /\ m.ev # Told
  BY <1>1, DHead DEF TypeInv, Event, ToGateway, Told, End, Ack
<1>4. (\E b \in {"yes", "no"} : d2g' = Longer(d2g, b, m)) /\ faults' \in Budget
  BY Sending DEF DAck, NoFault
<1> HIDE DEF n, m
<1>5. dQueue' = Longer(Tail(dQueue), "no", n)
  BY DEF DAck, Longer, DThen, DDone, n
<1>6. PICK b \in {"yes", "no"} : d2g' = Longer(d2g, b, m)
  BY <1>4
<1>7. DMove("no", n, b, m) /\ reader' = reader /\ conn' \in {"up", "broken", "login"}
  BY <1>1, <1>5, <1>6 DEF DMove, DAck, DRest, TypeInv
<1>8. /\ Is(Head(dQueue), Req) = 0 /\ Is(Head(dQueue), Told) = 0
      /\ Is(Head(dQueue), End) = 0 /\ Is(Head(dQueue), Ack) = 1
      /\ Adds("no", n, Req) = 0 /\ Adds("no", n, Told) = 0
      /\ Adds("no", n, End) = 0 /\ Adds("no", n, Ack) = 0
      /\ Adds(b, m, Told) = 0 /\ Adds(b, m, End) = 0 /\ Adds(b, m, Ack) \in 0..1
  BY <1>1, <1>3, DHead DEF Adds, Is, Req, Told, End, Ack
<1>9. TypeInv' /\ BoundInv' /\ LastInv'
  <2>1. b = "yes" => m \in ToGateway
    BY <1>3, <1>1 DEF Req, Told, End, Ack
  <2> QED
    BY <1>2, <1>4, <1>7, <1>8, <2>1, Fields, DKeeps
<1>10. /\ Requested' = Requested /\ Tolds' = Tolds /\ Ending' = Ending /\ Acking' = Acking - 1
       /\ Answered' = Answered /\ Ended' = Ended /\ (Acked' = Acked \/ Acked' = Acked + 1)
  BY <1>3, <1>7, <1>8, DMoves, Numbers
<1>11. Acking > 0 /\ gw' = gw /\ expired' = expired /\ gTimer' = gTimer
  BY <1>1, <1>7, DHead DEF DMove, gwVars
<1>12. MadeInv'
  BY <1>1, <1>2, <1>10, <1>11, Numbers, Fields DEF MadeInv
<1>13. PhaseInv'
  <2> SUFFICES ASSUME expired'.used = 0 PROVE NoneFired' /\ OwnInv' /\ TokenInv' /\ SidesInv'
    BY DEF PhaseInv
  <2>1. NoneFired /\ OwnInv /\ TokenInv /\ SidesInv
    BY <1>11 DEF PhaseInv
  <2>2. /\ Tolds = 0 /\ Ending = 0 /\ Ended = 0 /\ Acking = 1 /\ Acked = 0
        /\ Head(dQueue).op = dev.operation
    <3>1. Acking > 0 /\ Ending + Ended + Acking + Acked + Tolds <= 1
      BY <1>11, <2>1 DEF TokenInv
    <3>2. Head(dQueue).op = dev.operation
      BY <1>1, <2>1, DHead DEF OwnInv
    <3> QED
      BY <3>1, <3>2, Numbers
  <2>3. OwnInv'
    <3>1. OwnDevice(dQueue', g2d', gQueue', d2g', dev'.operation)
      BY <1>1, <1>2, <1>3, <1>7, <2>1, <2>2, DMoves DEF OwnInv, Told, End, Ack
    <3>2. OwnGateway(dQueue', g2d', gQueue', d2g', gw.operation)
      BY <1>3, <1>7, <2>1, DMoves DEF OwnInv
    <3> QED
      BY <1>11, <3>1, <3>2 DEF OwnInv
  <2>4. TokenInv'
    <3>1. Ending' + Ended' + Acking' + Acked' + Tolds' <= 1 /\ Requested' + Answered' <= 1
      <4>1. Requested + Answered <= 1
        BY <2>1 DEF TokenInv
      <4> QED
        BY <1>10, <2>2, <4>1, Numbers
    <3> QED
      BY <1>1, <1>2, <1>10, <1>11, <2>1, <2>2, <3>1, Numbers DEF TokenInv
  <2>5. SidesInv'
    BY <1>1, <1>2, <1>10, <1>11, <2>1, <2>2, Numbers DEF SidesInv, TokenInv
  <2> QED
    BY <1>2, <1>11, <2>1, <2>3, <2>4, <2>5 DEF NoneFired
<1> QED
  BY <1>9, <1>12, <1>13

(* That the operation is over does not get out.                            *)
LEMMA DAckFailsOK ==
  ASSUME TypeInv, BoundInv, LastInv, MadeInv, PhaseInv, DAckFails
  PROVE  TypeInv' /\ BoundInv' /\ LastInv' /\ MadeInv' /\ PhaseInv'
<1>1. /\ dQueue # <<>> /\ Head(dQueue).ev = Ack /\ dev.status = "RemoteOperationEndStatus"
  BY DEF DAckFails, DOn, DIs, Ack
<1>2. /\ dev' \in Control /\ dev'.status = "RemoteOperationAckStatus" /\ dev'.operation = dev.operation
      /\ dev'.made = dev.made
      /\ dev'.status \in {"DispatcherAckMessageStatus", "RemoteOperationEndStatus",
                         "RemoteOperationAckStatus"} => dev'.operation \in Operations
      /\ TimerOK(dTimer') /\ dTimer'.fired = dTimer.fired
      /\ Goroutines(dTimer') = Goroutines(dTimer)
  <2>1. dev \in Control /\ dev.operation \in Operations
    BY <1>1 DEF TypeInv
  <2>2. /\ dev' \in Control /\ dev'.status = "RemoteOperationAckStatus" /\ dev'.operation = dev.operation
        /\ dev'.made = dev.made
    BY <2>1 DEF DAckFails, DGoes, Control, ControlStates
  <2> QED
    BY <2>1, <2>2, DTimers DEF DAckFails
<1> DEFINE n == NoOperation
<1> DEFINE m == NoOperation
<1>3. d2g' = Longer(d2g, "no", m) /\ faults' \in Budget
  BY Sending DEF DAckFails, Longer
<1> HIDE DEF n, m
<1>4. dQueue' = Longer(Tail(dQueue), "no", n)
  BY DEF DAckFails, Longer, DThen, DDone, n
<1>5. DMove("no", n, "no", m) /\ reader' = reader /\ conn' \in {"up", "broken", "login"}
  BY <1>1, <1>4, <1>3 DEF DMove, DAckFails, DRest, TypeInv
<1>6. /\ Is(Head(dQueue), Req) = 0 /\ Is(Head(dQueue), Told) = 0
      /\ Is(Head(dQueue), End) = 0 /\ Is(Head(dQueue), Ack) = 1
      /\ Adds("no", n, Req) = 0 /\ Adds("no", n, Told) = 0
      /\ Adds("no", n, End) = 0 /\ Adds("no", n, Ack) = 0
      /\ Adds("no", m, Told) = 0 /\ Adds("no", m, End) = 0 /\ Adds("no", m, Ack) = 0
  BY <1>1, DHead DEF Adds, Is, Req, Told, End, Ack
<1>7. TypeInv' /\ BoundInv' /\ LastInv'
  BY <1>2, <1>3, <1>5, <1>6, Fields, DKeeps
<1>8. /\ Requested' = Requested /\ Tolds' = Tolds /\ Ending' = Ending /\ Acking' = Acking - 1
      /\ Answered' = Answered /\ Ended' = Ended /\ Acked' = Acked
  BY <1>5, <1>6, DMoves, Numbers
<1>9. Acking > 0 /\ gw' = gw /\ expired' = expired /\ gTimer' = gTimer
  BY <1>1, <1>5, DHead DEF DMove, gwVars
<1>10. MadeInv'
  BY <1>1, <1>2, <1>8, <1>9, Numbers, Fields DEF MadeInv
<1>11. PhaseInv'
  <2> SUFFICES ASSUME expired'.used = 0 PROVE NoneFired' /\ OwnInv' /\ TokenInv' /\ SidesInv'
    BY DEF PhaseInv
  <2>1. NoneFired /\ OwnInv /\ TokenInv /\ SidesInv
    BY <1>9 DEF PhaseInv
  <2>2. /\ Tolds = 0 /\ Ending = 0 /\ Ended = 0 /\ Acking = 1 /\ Acked = 0
        /\ Head(dQueue).op = dev.operation
    <3>1. Acking > 0 /\ Ending + Ended + Acking + Acked + Tolds <= 1
      BY <1>9, <2>1 DEF TokenInv
    <3>2. Head(dQueue).op = dev.operation
      BY <1>1, <2>1, DHead DEF OwnInv
    <3> QED
      BY <3>1, <3>2, Numbers
  <2>3. OwnInv'
    <3>1. OwnDevice(dQueue', g2d', gQueue', d2g', dev'.operation)
      BY <1>1, <1>2, <1>5, <2>1, DMoves DEF OwnInv, Told, End, Ack
    <3>2. OwnGateway(dQueue', g2d', gQueue', d2g', gw.operation)
      BY <1>5, <2>1, DMoves DEF OwnInv
    <3> QED
      BY <1>9, <3>1, <3>2 DEF OwnInv
  <2>4. TokenInv'
    <3>1. Ending' + Ended' + Acking' + Acked' + Tolds' <= 1 /\ Requested' + Answered' <= 1
      <4>1. Requested + Answered <= 1
        BY <2>1 DEF TokenInv
      <4> QED
        BY <1>8, <2>2, <4>1, Numbers
    <3> QED
      BY <1>1, <1>2, <1>8, <1>9, <2>1, <2>2, <3>1, Numbers DEF TokenInv
  <2>5. SidesInv'
    BY <1>1, <1>2, <1>8, <1>9, <2>1, <2>2, Numbers DEF SidesInv, TokenInv
  <2> QED
    BY <1>2, <1>9, <2>1, <2>3, <2>4, <2>5 DEF NoneFired
<1> QED
  BY <1>7, <1>10, <1>11

-----------------------------------------------------------------------------
(* The readers, the web, the timers and the network.                       *)

(* What is under way, unchanged.                                           *)
UnderWay == <<Requested, Answered, Ending, Ended, Acking, Acked, Tolds>>

LEMMA SameUnderWay ==
  ASSUME MadeInv, PhaseInv, UnderWay' = UnderWay, UNCHANGED <<gw, dev, gTimer, dTimer, expired>>,
         OwnInv => OwnInv'
  PROVE  MadeInv' /\ PhaseInv'
<1>1. /\ Requested' = Requested /\ Answered' = Answered /\ Ending' = Ending /\ Ended' = Ended
      /\ Acking' = Acking /\ Acked' = Acked /\ Tolds' = Tolds
  BY DEF UnderWay
<1>2. gw' = gw /\ dev' = dev /\ gTimer' = gTimer /\ dTimer' = dTimer /\ expired' = expired
  OBVIOUS
<1>3. MadeInv'
  BY <1>1, <1>2 DEF MadeInv
<1>4. TokenInv => TokenInv'
  BY <1>1, <1>2 DEF TokenInv
<1>5. SidesInv => SidesInv'
  BY <1>1, <1>2 DEF SidesInv
<1>6. NoneFired => NoneFired'
  BY <1>2 DEF NoneFired
<1> QED
  BY <1>2, <1>3, <1>4, <1>5, <1>6 DEF PhaseInv

(* A command of the web waits in the queue.                                *)
LEMMA WebCommandOK ==
  ASSUME TypeInv, BoundInv, LastInv, MadeInv, PhaseInv, NEW c \in Commands, WebCommand(c)
  PROVE  TypeInv' /\ BoundInv' /\ LastInv' /\ MadeInv' /\ PhaseInv'
<1> DEFINE m == Event("EventRemoteOperationRequest", c)
<1>1. m \in Requests \cup ToGateway /\ m.ev = Req
  BY DEF Event, Requests, Req
<1>2. /\ gQueue' = Append(gQueue, m) /\ gQueue \in Seq(Requests \cup ToGateway)
      /\ commands.used < commands.most /\ commands' = [commands EXCEPT !.used = @ + 1]
      /\ UNCHANGED <<connVars, gw, gTimer, devVars, expired, faults>>
  BY DEF WebCommand, Spend, TypeInv
<1> HIDE DEF m
<1>3. /\ gQueue' \in Seq(Requests \cup ToGateway)
      /\ \A e : Count(gQueue', e) = Count(gQueue, e) + Is(m, e)
      /\ \A e, op : Own(gQueue, e, op) /\ (m.ev = e => m.op = op) => Own(gQueue', e, op)
  BY <1>1, <1>2, AppendAt, CountAppend, OwnQueue
<1>4. /\ commands' \in [used : Nat, most : Nat, of : SUBSET Commands]
      /\ commands'.used = commands.used + 1 /\ commands'.used <= commands'.most
  <2>1. commands \in [used : Nat, most : Nat, of : SUBSET Commands]
    BY DEF TypeInv
  <2>2. commands'.used = commands.used + 1 /\ commands'.most = commands.most
    BY <1>2, <2>1
  <2>3. commands.used + 1 \in Nat /\ commands.used + 1 <= commands.most
    BY <1>2, <2>1
  <2> QED
    BY <1>2, <2>1, <2>2, <2>3
<1>5. Is(m, Req) = 1 /\ m.ev # Told /\ m.ev # End /\ m.ev # Ack
  BY <1>1 DEF Is, Req, Told, End, Ack
<1>6. TypeInv'
  BY <1>2, <1>3, <1>4 DEF TypeInv, connVars, devVars
<1>7. BoundInv'
  <2>1. /\ Count(gQueue, Req) \in Nat /\ Count(g2d, Req) \in Nat /\ Count(dQueue, Req) \in Nat
        /\ Count(dQueue, End) \in Nat /\ Goroutines(gTimer) \in Nat /\ Goroutines(dTimer) \in Nat
        /\ commands.used \in Nat
    BY Numbers, Fields
  <2>2. Count(gQueue', Req) = Count(gQueue, Req) + 1
    BY <1>3, <1>5
  <2>3. g2d' = g2d /\ dQueue' = dQueue /\ gTimer' = gTimer /\ dTimer' = dTimer
    BY <1>2 DEF connVars, devVars
  <2>4. /\ Count(gQueue', Req) + Goroutines(gTimer) <= commands'.used
        /\ Count(gQueue', Req) + Count(g2d, Req) + Count(dQueue, Req) + Count(dQueue, End)
             + Goroutines(dTimer) <= commands'.used
    BY <1>4, <2>1, <2>2 DEF BoundInv
  <2> QED
    BY <2>3, <2>4 DEF BoundInv, Req, End
<1>8. LastInv'
  BY <1>2 DEF LastInv, connVars, devVars
<1>9. UnderWay' = UnderWay
  <2>1. /\ Count(gQueue', Told) = Count(gQueue, Told) /\ Count(gQueue', End) = Count(gQueue, End)
        /\ Count(gQueue', Ack) = Count(gQueue, Ack)
    BY <1>1, <1>2, <1>5, CountOther
  <2>2. g2d' = g2d /\ d2g' = d2g /\ dQueue' = dQueue
    BY <1>2 DEF connVars, devVars
  <2>3. Requested' = Requested /\ Tolds' = Tolds /\ Ending' = Ending /\ Acking' = Acking
    BY <2>2 DEF Requested, Tolds, Ending, Acking
  <2>4. Answered' = Answered /\ Ended' = Ended /\ Acked' = Acked
    BY <2>1, <2>2 DEF Answered, Ended, Acked, Told, End, Ack
  <2> QED
    BY <2>3, <2>4 DEF UnderWay
<1>10. OwnInv => OwnInv'
  <2>1. g2d' = g2d /\ d2g' = d2g /\ dQueue' = dQueue /\ gw' = gw /\ dev' = dev
    BY <1>2 DEF connVars, devVars
  <2> QED
    BY <1>3, <1>5, <2>1 DEF OwnInv, OwnDevice, OwnGateway
<1>11. MadeInv' /\ PhaseInv'
  BY <1>2, <1>9, <1>10, SameUnderWay DEF devVars
<1> QED
  BY <1>6, <1>7, <1>8, <1>11

(* The gateway's reader moves a frame into the queue.                      *)
LEMMA GReadOK ==
  ASSUME TypeInv, BoundInv, LastInv, MadeInv, PhaseInv, GRead
  PROVE  TypeInv' /\ BoundInv' /\ LastInv' /\ MadeInv' /\ PhaseInv'
<1> DEFINE m == Head(d2g)
<1>1. /\ d2g \in Seq(ToGateway) /\ d2g # <<>> /\ gQueue \in Seq(Requests \cup ToGateway)
      /\ gQueue' = Append(gQueue, m) /\ d2g' = Tail(d2g)
      /\ UNCHANGED <<conn, g2d, reader, breaks, gw, gTimer, devVars, commands, expired, faults>>
  BY DEF GRead, TypeInv
<1>2. m \in ToGateway /\ m \in Requests \cup ToGateway /\ m.ev # Req
  <2>1. m \in ToGateway
    BY <1>1
  <2> QED
    BY <2>1 DEF ToGateway, Req, Told, End, Ack
<1>3. gQueue' \in Seq(Requests \cup ToGateway) /\ d2g' \in Seq(ToGateway)
  BY <1>1, <1>2
<1>4. /\ \A e : Count(gQueue', e) + Count(d2g', e) = Count(gQueue, e) + Count(d2g, e)
      /\ \A e, op : Own(d2g, e, op) => /\ Own(d2g', e, op)
                                       /\ Own(gQueue, e, op) => Own(gQueue', e, op)
  BY <1>1, <1>2, CountMoved
<1> HIDE DEF m
<1>5. TypeInv'
  BY <1>1, <1>3 DEF TypeInv, devVars
<1>6. Count(gQueue', Req) = Count(gQueue, Req)
  BY <1>1, <1>2, CountOther
<1>7. BoundInv'
  BY <1>1, <1>6 DEF BoundInv, devVars, Req, End
<1>8. LastInv'
  BY <1>1 DEF LastInv, devVars
<1>9. UnderWay' = UnderWay
  <2>1. g2d' = g2d /\ dQueue' = dQueue
    BY <1>1 DEF devVars
  <2>2. Requested' = Requested /\ Tolds' = Tolds /\ Ending' = Ending /\ Acking' = Acking
    BY <2>1 DEF Requested, Tolds, Ending, Acking
  <2>3. Answered' = Answered
    BY <1>4 DEF Answered, Told
  <2>4. Ended' = Ended
    BY <1>4 DEF Ended, End
  <2>5. Acked' = Acked
    BY <1>4 DEF Acked, Ack
  <2> QED
    BY <2>2, <2>3, <2>4, <2>5 DEF UnderWay
<1>10. OwnInv => OwnInv'
  <2>1. g2d' = g2d /\ dQueue' = dQueue /\ gw' = gw /\ dev' = dev
    BY <1>1 DEF devVars
  <2> QED
    BY <1>4, <2>1 DEF OwnInv, OwnDevice, OwnGateway
<1>11. MadeInv' /\ PhaseInv'
  BY <1>1, <1>9, <1>10, SameUnderWay DEF devVars
<1> QED
  BY <1>5, <1>7, <1>8, <1>11

(* The device's reader moves a frame into the queue.                       *)
LEMMA DReadOK ==
  ASSUME TypeInv, BoundInv, LastInv, MadeInv, PhaseInv, DRead
  PROVE  TypeInv' /\ BoundInv' /\ LastInv' /\ MadeInv' /\ PhaseInv'
<1> DEFINE m == Head(g2d)
<1>1. /\ g2d \in Seq(ToDevice) /\ g2d # <<>> /\ dQueue \in Seq(OfDevice) /\ reader
      /\ dQueue' = Append(dQueue, m) /\ g2d' = Tail(g2d)
      /\ UNCHANGED <<conn, d2g, reader, breaks, gwVars, dev, dTimer, commands, expired, faults>>
  BY DEF DRead, TypeInv
<1>2. m \in OfDevice /\ m.ev \notin {End, Ack, "EventConnectServer"}
  <2>1. m \in ToDevice
    BY <1>1
  <2> QED
    BY <2>1 DEF ToDevice, OfDevice, GwEvents, Req, Told, End, Ack
<1>3. dQueue' \in Seq(OfDevice) /\ g2d' \in Seq(ToDevice)
  BY <1>1, <1>2
<1>4. /\ \A e : Count(dQueue', e) + Count(g2d', e) = Count(dQueue, e) + Count(g2d, e)
      /\ \A e, op : Own(g2d, e, op) => /\ Own(g2d', e, op)
                                       /\ Own(dQueue, e, op) => Own(dQueue', e, op)
  BY <1>1, <1>2, CountMoved
<1>5. /\ \A e \in {End, Ack, "EventConnectServer"} : Count(dQueue', e) = Count(dQueue, e)
      /\ \A op : \A e \in {End, Ack} : Own(dQueue, e, op) => Own(dQueue', e, op)
  BY <1>1, <1>2, CountOther, OwnQueue
<1> HIDE DEF m
<1>6. TypeInv'
  BY <1>1, <1>3 DEF TypeInv, gwVars
<1>7. /\ Count(dQueue', Req) + Count(g2d', Req) = Count(dQueue, Req) + Count(g2d, Req)
      /\ Count(dQueue', End) = Count(dQueue, End)
      /\ Count(dQueue', Req) \in Int /\ Count(g2d', Req) \in Int
  BY <1>3, <1>4, <1>5, Counting
<1>8. BoundInv'
  <2>1. /\ Count(gQueue, Req) \in Nat /\ Count(g2d, Req) \in Nat /\ Count(dQueue, Req) \in Nat
        /\ Count(dQueue, End) \in Nat /\ Goroutines(dTimer) \in Nat /\ commands.used \in Nat
    BY Numbers, Fields
  <2>2. Count(gQueue, Req) + Count(g2d', Req) + Count(dQueue', Req) + Count(dQueue', End)
          + Goroutines(dTimer) <= commands.used
    BY <1>7, <2>1 DEF BoundInv
  <2>3. gQueue' = gQueue /\ gTimer' = gTimer /\ dTimer' = dTimer /\ commands' = commands
    BY <1>1 DEF gwVars
  <2> QED
    BY <2>2, <2>3 DEF BoundInv, Req, End
<1>9. LastInv'
  <2>1. Count(dQueue, "EventConnectServer") = 0 /\ OwnBehind(dQueue)
    BY <1>1 DEF LastInv
  <2>2. OwnBehind(dQueue')
    BY <1>1, <1>2, <2>1, BehindQueue
  <2>3. Count(dQueue', "EventConnectServer") = 0
    BY <1>5, <2>1
  <2> QED
    BY <2>2, <2>3 DEF LastInv
<1>10. UnderWay' = UnderWay
  <2>1. gQueue' = gQueue /\ d2g' = d2g
    BY <1>1 DEF gwVars
  <2>2. Answered' = Answered /\ Ended' = Ended /\ Acked' = Acked
    BY <2>1 DEF Answered, Ended, Acked
  <2>3. Requested' = Requested
    BY <1>7 DEF Requested, Req
  <2>4. Tolds' = Tolds
    BY <1>4 DEF Tolds, Told
  <2>5. Ending' = Ending
    BY <1>7 DEF Ending, End
  <2>6. Acking' = Acking
    BY <1>5 DEF Acking, Ack
  <2> QED
    BY <2>2, <2>3, <2>4, <2>5, <2>6 DEF UnderWay
<1>11. OwnInv => OwnInv'
  <2>1. gQueue' = gQueue /\ d2g' = d2g /\ gw' = gw /\ dev' = dev
    BY <1>1 DEF gwVars
  <2> QED
    BY <1>4, <1>5, <2>1 DEF OwnInv, OwnDevice, OwnGateway
<1>12. MadeInv' /\ PhaseInv'
  BY <1>1, <1>10, <1>11, SameUnderWay DEF gwVars
<1> QED
  BY <1>6, <1>8, <1>9, <1>12

(* The device's reader meets a broken connection.                          *)
LEMMA DReadBreakOK ==
  ASSUME TypeInv, BoundInv, LastInv, MadeInv, PhaseInv, DReadBreak
  PROVE  TypeInv' /\ BoundInv' /\ LastInv' /\ MadeInv' /\ PhaseInv'
<1> DEFINE m == Event("EventConnectServer", NoOperation)
<1>1. /\ dQueue \in Seq(OfDevice) /\ reader /\ dQueue' = Append(dQueue, m) /\ reader' = FALSE
      /\ UNCHANGED <<conn, g2d, d2g, breaks, gwVars, dev, dTimer, commands, expired, faults>>
  BY DEF DReadBreak, TypeInv
<1>2. m \in OfDevice /\ m.ev = "EventConnectServer"
  BY DEF Event, OfDevice
<1> HIDE DEF m
<1>3. m.ev # Req /\ m.ev # Told /\ m.ev # End /\ m.ev # Ack
  BY <1>2 DEF Req, Told, End, Ack
<1>4. /\ dQueue' \in Seq(OfDevice)
      /\ \A e : Count(dQueue', e) = Count(dQueue, e) + Is(m, e)
      /\ \A e, op : Own(dQueue, e, op) /\ (m.ev = e => m.op = op) => Own(dQueue', e, op)
  BY <1>1, <1>2, AppendAt, CountAppend, OwnQueue
<1>5. /\ Count(dQueue', Req) = Count(dQueue, Req) /\ Count(dQueue', Told) = Count(dQueue, Told)
      /\ Count(dQueue', End) = Count(dQueue, End) /\ Count(dQueue', Ack) = Count(dQueue, Ack)
  BY <1>1, <1>2, <1>3, CountOther
<1>6. TypeInv'
  BY <1>1, <1>4 DEF TypeInv, gwVars
<1>7. BoundInv'
  BY <1>1, <1>5 DEF BoundInv, gwVars, Req, End
<1>8. LastInv'
  BY <1>1, <1>2, BehindQueue DEF LastInv
<1>9. UnderWay' = UnderWay
  BY <1>1, <1>5 DEF UnderWay, Requested, Answered, Ending, Ended, Acking, Acked, Tolds, gwVars,
                    Req, Told, End, Ack
<1>10. OwnInv => OwnInv'
  <2>1. gQueue' = gQueue /\ d2g' = d2g /\ g2d' = g2d /\ gw' = gw /\ dev' = dev
    BY <1>1 DEF gwVars
  <2> QED
    BY <1>3, <1>4, <2>1 DEF OwnInv, OwnDevice, OwnGateway
<1>11. MadeInv' /\ PhaseInv'
  BY <1>1, <1>9, <1>10, SameUnderWay DEF gwVars
<1> QED
  BY <1>6, <1>7, <1>8, <1>11

(* A new connection: what was under way is lost, but for what the device   *)
(* has pushed itself.                                                      *)
LEMMA DConnectOK ==
  ASSUME TypeInv, BoundInv, LastInv, MadeInv, PhaseInv, DConnect
  PROVE  TypeInv' /\ BoundInv' /\ LastInv' /\ MadeInv' /\ PhaseInv'
<1> DEFINE q == Tail(dQueue)
           m == [Head(dQueue) EXCEPT !.ev = "EventLoginSuccess"]
<1>1. /\ dQueue # <<>> /\ Head(dQueue).ev = "EventConnectServer" /\ dQueue' = Append(q, m)
      /\ conn' = "login" /\ reader' = TRUE /\ g2d' = <<>> /\ d2g' = <<>>
      /\ gw' = NewControl /\ gQueue' = <<>> /\ gTimer' = NoTimer
      /\ UNCHANGED <<breaks, dev, dTimer, commands, expired, faults>>
  BY DEF DConnect, DOn, DThen
<1>2. dQueue \in Seq(OfDevice) /\ Head(dQueue) \in OfDevice /\ q \in Seq(OfDevice)
  BY <1>1, TailAt DEF TypeInv
<1>3. m \in OfDevice /\ m.ev = "EventLoginSuccess"
  <2>1. Head(dQueue) = [ev |-> "EventConnectServer", op |-> NoOperation]
    BY <1>1, <1>2 DEF OfDevice, GwEvents
  <2> QED
    BY <2>1 DEF OfDevice
<1>4. /\ m.ev # Req /\ m.ev # Told /\ m.ev # End /\ m.ev # Ack
      /\ m.ev # "EventConnectServer"
  BY <1>3 DEF Req, Told, End, Ack
<1>5. /\ Head(dQueue).ev # Req /\ Head(dQueue).ev # Told
      /\ Head(dQueue).ev # End /\ Head(dQueue).ev # Ack
  BY <1>1 DEF Req, Told, End, Ack
<1>6. \A e : Head(dQueue).ev # e => Count(q, e) = Count(dQueue, e)
  <2> SUFFICES ASSUME NEW e, Head(dQueue).ev # e PROVE Count(q, e) = Count(dQueue, e)
    OBVIOUS
  <2>1. Count(q, e) = Count(dQueue, e) - 0
    BY <1>1, <1>2, CountTail DEF Is
  <2> QED
    BY <2>1, Numbers
<1>7. \A e, op : Own(dQueue, e, op) => Own(q, e, op)
  BY <1>1, <1>2, OwnQueue
<1>8. Count(q, Req) = 0 /\ Count(q, "EventConnectServer") = 0 /\ OwnBehind(q)
  BY <1>1, <1>2, BehindQueue DEF LastInv
<1> HIDE DEF q, m
<1>9. /\ dQueue' \in Seq(OfDevice)
      /\ \A e : m.ev # e => Count(dQueue', e) = Count(q, e)
      /\ \A e, op : Own(q, e, op) /\ m.ev # e => Own(dQueue', e, op)
  BY <1>1, <1>2, <1>3, CountOther, OwnQueue
<1>10. /\ Count(dQueue', Req) = 0 /\ Count(dQueue', Told) = Count(dQueue, Told)
       /\ Count(dQueue', End) = Count(dQueue, End) /\ Count(dQueue', Ack) = Count(dQueue, Ack)
       /\ Count(dQueue', "EventConnectServer") = 0
  BY <1>4, <1>5, <1>6, <1>8, <1>9
<1>11. TypeInv'
  <2>1. gw' \in Control /\ gw'.status = "ThingControlStop" /\ TimerOK(gTimer')
    BY <1>1, NoTimerOK DEF NewControl, Control, ControlStates
  <2>2. g2d' \in Seq(ToDevice) /\ d2g' \in Seq(ToGateway) /\ gQueue' \in Seq(Requests \cup ToGateway)
    BY <1>1
  <2> QED
    BY <1>1, <1>9, <2>1, <2>2 DEF TypeInv
<1>12. BoundInv'
  <2>1. /\ Count(gQueue', Req) = 0 /\ Count(g2d', Req) = 0
        /\ Goroutines(gTimer') = 0
    BY <1>1, CountEmpty, NoTimerOK
  <2>2. /\ Count(gQueue, Req) \in Nat /\ Count(g2d, Req) \in Nat /\ Count(dQueue, Req) \in Nat
        /\ Count(dQueue, End) \in Nat /\ Goroutines(dTimer) \in Nat /\ commands.used \in Nat
    BY Numbers, Fields
  <2>3. 0 <= commands.used /\ Count(dQueue, End) + Goroutines(dTimer) <= commands.used
    BY <2>2 DEF BoundInv
  <2>4. 0 + 0 + 0 + Count(dQueue', End) + Goroutines(dTimer') <= commands'.used
    BY <1>1, <1>10, <2>2, <2>3
  <2> QED
    BY <1>1, <1>10, <2>1, <2>3, <2>4 DEF BoundInv, Req, End
<1>13. LastInv'
  <2>1. OwnBehind(dQueue')
    BY <1>1, <1>2, <1>3, <1>4, <1>8, BehindQueue
  <2> QED
    BY <1>10, <2>1 DEF LastInv
<1>14. /\ Requested' = 0 /\ Answered' = 0 /\ Ending' = Ending /\ Ended' = 0 /\ Acking' = Acking
       /\ Acked' = 0 /\ Tolds' \in Nat /\ Tolds' <= Tolds
  <2>1. /\ \A e : Count(gQueue', e) = 0 /\ Count(g2d', e) = 0 /\ Count(d2g', e) = 0
    BY <1>1, CountEmpty
  <2>2. Requested' = 0
    BY <1>10, <2>1 DEF Requested, Req
  <2>3. Answered' = 0 /\ Ended' = 0 /\ Acked' = 0
    BY <2>1 DEF Answered, Ended, Acked
  <2>4. Ending' = Ending /\ Acking' = Acking
    BY <1>10 DEF Ending, Acking, End, Ack
  <2>5. Tolds' = Count(dQueue, Told)
    <3>1. Tolds' = Count(dQueue, Told) + 0
      BY <1>10, <2>1 DEF Tolds, Told
    <3> QED
      BY <3>1, Numbers
  <2>6. Tolds = Count(dQueue, Told) + Count(g2d, Told)
    BY DEF Tolds
  <2>7. Count(dQueue, Told) \in Nat /\ Count(g2d, Told) \in Nat
    BY Numbers
  <2> QED
    BY <2>2, <2>3, <2>4, <2>5, <2>6, <2>7
<1>15. /\ gw'.status = "ThingControlStop" /\ gw'.made = FALSE
       /\ dev' = dev /\ dTimer' = dTimer /\ expired' = expired /\ gTimer'.fired = 0
  BY <1>1 DEF NewControl, NoTimer
<1>16. MadeInv'
  BY <1>14, <1>15, Numbers DEF MadeInv
<1>17. PhaseInv'
  <2> SUFFICES ASSUME expired'.used = 0 PROVE NoneFired' /\ OwnInv' /\ TokenInv' /\ SidesInv'
    BY DEF PhaseInv
  <2>1. NoneFired /\ OwnInv /\ TokenInv /\ SidesInv
    BY <1>15 DEF PhaseInv
  <2>2. OwnInv'
    <3>1. \A e, op : Own(<<>>, e, op)
      BY DEF Own
    <3>2. OwnDevice(dQueue', <<>>, <<>>, <<>>, dev.operation)
      BY <1>4, <1>7, <1>9, <2>1, <3>1 DEF OwnInv, OwnDevice
    <3>3. \A op : Own(dQueue', Req, op)
      BY <1>9, <1>10, OwnQueue
    <3> QED
      BY <1>1, <3>1, <3>2, <3>3 DEF OwnInv, OwnGateway
  <2>3. TokenInv'
    <3>1. /\ Ending' + Ended' + Acking' + Acked' + Tolds' <= 1 /\ Requested' + Answered' <= 1
          /\ Tolds' > 0 => Tolds > 0
      <4>1. Ending + Ended + Acking + Acked + Tolds <= 1
        BY <2>1 DEF TokenInv
      <4> QED
        BY <1>14, <4>1, Numbers
    <3> QED
      BY <1>14, <1>15, <2>1, <3>1 DEF TokenInv
  <2>4. SidesInv'
    BY <1>14, <1>15 DEF SidesInv
  <2> QED
    BY <1>15, <2>1, <2>2, <2>3, <2>4 DEF NoneFired
<1> QED
  BY <1>11, <1>12, <1>13, <1>16, <1>17

(* A step that leaves the queues alone.                                    *)
LEMMA QueuesKept ==
  ASSUME BoundInv, LastInv, UNCHANGED <<g2d, d2g, gQueue, dQueue, reader, commands>>,
         TimerOK(gTimer'), TimerOK(dTimer'), TypeInv,
         Goroutines(gTimer') <= Goroutines(gTimer), Goroutines(dTimer') <= Goroutines(dTimer)
  PROVE  BoundInv' /\ LastInv' /\ UnderWay' = UnderWay
<1>1. /\ g2d' = g2d /\ d2g' = d2g /\ gQueue' = gQueue /\ dQueue' = dQueue /\ reader' = reader
      /\ commands' = commands
  OBVIOUS
<1>2. /\ Goroutines(gTimer') \in Nat /\ Goroutines(dTimer') \in Nat /\ Goroutines(gTimer) \in Nat
      /\ Goroutines(dTimer) \in Nat /\ commands.used \in Nat
      /\ Count(gQueue, Req) \in Nat /\ Count(g2d, Req) \in Nat /\ Count(dQueue, Req) \in Nat
      /\ Count(dQueue, End) \in Nat
  BY TimerTyped, Fields, Numbers
<1>3. Count(gQueue, Req) + Goroutines(gTimer') <= commands.used
  BY <1>2 DEF BoundInv
<1>4. Count(gQueue, Req) + Count(g2d, Req) + Count(dQueue, Req) + Count(dQueue, End)
        + Goroutines(dTimer') <= commands.used
  BY <1>2 DEF BoundInv
<1>5. BoundInv'
  BY <1>1, <1>3, <1>4 DEF BoundInv, Req, End
<1>6. LastInv'
  BY <1>1 DEF LastInv
<1>7. UnderWay' = UnderWay
  BY <1>1 DEF UnderWay, Requested, Answered, Ending, Ended, Acking, Acked, Tolds
<1> QED
  BY <1>5, <1>6, <1>7

(* What a timer of the two does by itself: no goroutine more, and only one *)
(* that ran out lets the others of its kind reach the end.                 *)
LEMMA TimerSteps ==
  ASSUME TypeInv, NEW tm \in {gTimer, dTimer}
  PROVE  /\ \A x \in TokenTaken(tm) : TimerOK(x) /\ Goroutines(x) <= Goroutines(tm) /\ x.fired = tm.fired
         /\ \A x \in Expired(tm) : TimerOK(x) /\ Goroutines(x) <= Goroutines(tm)
         /\ tm.fired > 0 => /\ TimerOK(SecondDone(FirstDone(tm)))
                            /\ Goroutines(SecondDone(FirstDone(tm))) <= Goroutines(tm)
<1>1. TimerOK(tm) /\ Goroutines(tm) \in Nat
  BY Fields DEF TypeInv
<1>2. ASSUME NEW x \in TokenTaken(tm)
      PROVE  TimerOK(x) /\ Goroutines(x) <= Goroutines(tm) /\ x.fired = tm.fired
  BY <1>1, TokenTakenOK, FiredKept
<1>3. ASSUME NEW x \in Expired(tm) PROVE TimerOK(x) /\ Goroutines(x) <= Goroutines(tm)
  BY <1>1, ExpiredOK
<1>4. ASSUME tm.fired > 0
      PROVE  /\ TimerOK(SecondDone(FirstDone(tm)))
             /\ Goroutines(SecondDone(FirstDone(tm))) <= Goroutines(tm)
  BY <1>1, <1>4, BothDoneOK
<1> QED
  BY <1>2, <1>3, <1>4

(* A timer of the gateway.                                                 *)
LEMMA GTimerOK ==
  ASSUME TypeInv, BoundInv, LastInv, MadeInv, PhaseInv, GTimer
  PROVE  TypeInv' /\ BoundInv' /\ LastInv' /\ MadeInv' /\ PhaseInv'
<1>1. /\ UNCHANGED <<conn, g2d, d2g, reader, breaks, gQueue, dev, dQueue, dTimer, commands, faults>>
      /\ TimerOK(dTimer)
  BY DEF GTimer, connVars, devVars, TypeInv
<1>2. /\ TimerOK(gTimer') /\ Goroutines(gTimer') <= Goroutines(gTimer)
      /\ expired' \in Budget /\ (expired'.used = 0 => expired.used = 0)
      /\ gw' \in Control /\ gw'.made = gw.made /\ gw'.status \in {gw.status, "ThingControlStop"}
      /\ expired'.used = 0 => gw' = gw /\ gTimer'.fired = gTimer.fired
  <2>1. gw \in Control /\ expired \in Budget /\ expired.used \in Nat
    BY DEF TypeInv, Budget
  <2>2. CASE GTimerTaken
    <3>1. gTimer' \in TokenTaken(gTimer) /\ gw' = gw /\ expired' = expired
      BY <2>2 DEF GTimerTaken
    <3> QED
      BY <2>1, <3>1, TimerSteps
  <2>3. CASE GTimerExpires
    <3>1. gTimer' \in Expired(gTimer) /\ gw' = gw /\ expired' = [expired EXCEPT !.used = @ + 1]
      BY <2>3 DEF GTimerExpires, Expires, Spend
    <3>2. expired' \in Budget /\ expired'.used = expired.used + 1
      BY <2>1, <3>1 DEF Budget
    <3> QED
      BY <2>1, <3>1, <3>2, TimerSteps
  <2>4. CASE GTimerWrites
    <3>1. /\ gTimer.fired > 0 /\ gTimer' = SecondDone(FirstDone(gTimer)) /\ expired' = expired
          /\ gw' = gw \/ gw' = [gw EXCEPT !.status = "ThingControlStop"]
      BY <2>4 DEF GTimerWrites, GGoes
    <3>2. /\ gw' \in Control /\ gw'.made = gw.made
          /\ gw'.status \in {gw.status, "ThingControlStop"}
      BY <2>1, <3>1 DEF Control, ControlStates
    <3>3. expired.used # 0
      BY <3>1 DEF PhaseInv, NoneFired
    <3> QED
      BY <2>1, <3>1, <3>2, <3>3, TimerSteps
  <2> QED
    BY <2>2, <2>3, <2>4 DEF GTimer
<1>3. TypeInv'
  BY <1>1, <1>2 DEF TypeInv
<1>4. BoundInv' /\ LastInv' /\ UnderWay' = UnderWay
  <2>1. Goroutines(dTimer') <= Goroutines(dTimer)
    BY <1>1, Fields
  <2> QED
    BY <1>1, <1>2, <2>1, QueuesKept
<1>5. MadeInv'
  BY <1>1, <1>2, <1>4, Fields DEF MadeInv, UnderWay
<1>6. PhaseInv'
  <2>1. CASE expired'.used = 0
    <3>1. /\ NoneFired /\ OwnInv /\ TokenInv /\ SidesInv /\ gw' = gw /\ dev' = dev
          /\ dTimer' = dTimer /\ gTimer'.fired = gTimer.fired
      BY <1>1, <1>2, <2>1 DEF PhaseInv
    <3>2. NoneFired' /\ OwnInv'
      BY <1>1, <3>1 DEF NoneFired, OwnInv
    <3>3. TokenInv' /\ SidesInv'
      BY <1>4, <3>1 DEF TokenInv, SidesInv, UnderWay
    <3> QED
      BY <3>2, <3>3 DEF PhaseInv
  <2>2. CASE expired'.used # 0
    BY <2>2 DEF PhaseInv
  <2> QED
    BY <2>1, <2>2
<1> QED
  BY <1>3, <1>4, <1>5, <1>6

(* A timer of the device.                                                  *)
LEMMA DTimerOK ==
  ASSUME TypeInv, BoundInv, LastInv, MadeInv, PhaseInv, DTimer
  PROVE  TypeInv' /\ BoundInv' /\ LastInv' /\ MadeInv' /\ PhaseInv'
<1>1. /\ UNCHANGED <<conn, g2d, d2g, reader, breaks, gQueue, gw, gTimer, dQueue, commands, faults>>
      /\ TimerOK(gTimer)
  BY DEF DTimer, connVars, gwVars, TypeInv
<1>2. /\ TimerOK(dTimer') /\ Goroutines(dTimer') <= Goroutines(dTimer)
      /\ expired' \in Budget /\ (expired'.used = 0 => expired.used = 0)
      /\ dev' \in Control /\ dev'.made = dev.made /\ dev'.operation = dev.operation
      /\ dev'.status \in {dev.status, "ThingControlStop"}
      /\ expired'.used = 0 => dev' = dev /\ dTimer'.fired = dTimer.fired
  <2>1. dev \in Control /\ expired \in Budget /\ expired.used \in Nat
    BY DEF TypeInv, Budget
  <2>2. CASE DTimerTaken
    <3>1. dTimer' \in TokenTaken(dTimer) /\ dev' = dev /\ expired' = expired
      BY <2>2 DEF DTimerTaken
    <3> QED
      BY <2>1, <3>1, TimerSteps
  <2>3. CASE DTimerExpires
    <3>1. dTimer' \in Expired(dTimer) /\ dev' = dev /\ expired' = [expired EXCEPT !.used = @ + 1]
      BY <2>3 DEF DTimerExpires, Expires, Spend
    <3>2. expired' \in Budget /\ expired'.used = expired.used + 1
      BY <2>1, <3>1 DEF Budget
    <3> QED
      BY <2>1, <3>1, <3>2, TimerSteps
  <2>4. CASE DTimerWrites
    <3>1. /\ dTimer.fired > 0 /\ dTimer' = SecondDone(FirstDone(dTimer)) /\ expired' = expired
          /\ dev' = dev \/ dev' = [dev EXCEPT !.status = "ThingControlStop"]
      BY <2>4 DEF DTimerWrites, DGoes
    <3>2. /\ dev' \in Control /\ dev'.made = dev.made /\ dev'.operation = dev.operation
          /\ dev'.status \in {dev.status, "ThingControlStop"}
      BY <2>1, <3>1 DEF Control, ControlStates
    <3>3. expired.used # 0
      BY <3>1 DEF PhaseInv, NoneFired
    <3> QED
      BY <2>1, <3>1, <3>2, <3>3, TimerSteps
  <2> QED
    BY <2>2, <2>3, <2>4 DEF DTimer
<1>3. TypeInv'
  BY <1>1, <1>2 DEF TypeInv
<1>4. BoundInv' /\ LastInv' /\ UnderWay' = UnderWay
  <2>1. Goroutines(gTimer') <= Goroutines(gTimer)
    BY <1>1, Fields
  <2> QED
    BY <1>1, <1>2, <2>1, QueuesKept
<1>5. MadeInv'
  BY <1>1, <1>2, <1>4, Fields DEF MadeInv, UnderWay
<1>6. PhaseInv'
  <2>1. CASE expired'.used = 0
    <3>1. /\ NoneFired /\ OwnInv /\ TokenInv /\ SidesInv /\ gw' = gw /\ dev' = dev
          /\ gTimer' = gTimer /\ dTimer'.fired = dTimer.fired
      BY <1>1, <1>2, <2>1 DEF PhaseInv
    <3>2. NoneFired' /\ OwnInv'
      BY <1>1, <3>1 DEF NoneFired, OwnInv
    <3>3. TokenInv' /\ SidesInv'
      BY <1>4, <3>1 DEF TokenInv, SidesInv, UnderWay
    <3> QED
      BY <3>2, <3>3 DEF PhaseInv
  <2>2. CASE expired'.used # 0
    BY <2>2 DEF PhaseInv
  <2> QED
    BY <2>1, <2>2
<1> QED
  BY <1>3, <1>4, <1>5, <1>6

(* A connection breaks; and nothing happens.                               *)
LEMMA BreakOK ==
  ASSUME TypeInv, BoundInv, LastInv, MadeInv, PhaseInv, Break \/ UNCHANGED vars
  PROVE  TypeInv' /\ BoundInv' /\ LastInv' /\ MadeInv' /\ PhaseInv'
<1>1. UNCHANGED <<g2d, d2g, reader, gw, gQueue, gTimer, dev, dQueue, dTimer, commands, expired, faults>>
  BY DEF Break, vars, connVars, gwVars, devVars
<1>2. conn' \in {"up", "broken", "login"} /\ breaks' \in Budget
  BY DEF Break, vars, connVars, Spend, TypeInv, Budget
<1>3. TypeInv'
  BY <1>1, <1>2 DEF TypeInv
<1>4. BoundInv' /\ LastInv' /\ UnderWay' = UnderWay
  <2>1. /\ TimerOK(gTimer') /\ TimerOK(dTimer')
        /\ Goroutines(gTimer') <= Goroutines(gTimer) /\ Goroutines(dTimer') <= Goroutines(dTimer)
    BY <1>1, Fields DEF TypeInv
  <2> QED
    BY <1>1, <2>1, QueuesKept
<1>5. OwnInv => OwnInv'
  BY <1>1 DEF OwnInv
<1>6. MadeInv' /\ PhaseInv'
  BY <1>1, <1>4, <1>5, SameUnderWay
<1> QED
  BY <1>3, <1>4, <1>6

-----------------------------------------------------------------------------
(* The invariant, and what it implies.                                     *)

Inv == TypeInv /\ BoundInv /\ LastInv /\ MadeInv /\ PhaseInv

(* At the start nothing is under way.                                      *)
LEMMA InvInit == Init => Inv
<1> SUFFICES ASSUME Init PROVE Inv
  OBVIOUS
<1>1. /\ g2d = <<>> /\ d2g = <<>> /\ gQueue = <<>> /\ dQueue = <<>> /\ gTimer = NoTimer /\ dTimer = NoTimer
      /\ gw = NewControl /\ dev = NewControl /\ conn = "up" /\ reader = TRUE
  BY DEF Init
<1>2. PICK i \in Instances : /\ commands = [used |-> 0, most |-> i.times, of |-> i.ask]
                             /\ expired = AtMost(i.expire)
                             /\ faults = AtMost(i.fault) /\ breaks = AtMost(i.break)
  BY DEF Init
<1>3. /\ commands \in [used : Nat, most : Nat, of : SUBSET Commands] /\ commands.used = 0
      /\ commands.used <= commands.most
      /\ expired \in Budget /\ faults \in Budget /\ breaks \in Budget
  BY <1>2, ConstantsOK DEF AtMost, Budget
<1>4. TypeInv
  <2>1. /\ NewControl \in Control /\ NewControl.status = "ThingControlStop"
    BY DEF NewControl, Control, ControlStates
  <2>2. /\ g2d \in Seq(ToDevice) /\ d2g \in Seq(ToGateway)
        /\ gQueue \in Seq(Requests \cup ToGateway) /\ dQueue \in Seq(OfDevice)
    BY <1>1
  <2> QED
    BY <1>1, <1>3, <2>1, <2>2, NoTimerOK DEF TypeInv
<1>5. \A e : /\ Count(gQueue, e) = 0 /\ Count(dQueue, e) = 0
             /\ Count(g2d, e) = 0 /\ Count(d2g, e) = 0
  BY <1>1, CountEmpty
<1>6. BoundInv
  BY <1>1, <1>3, <1>5, NoTimerOK DEF BoundInv
<1>7. LastInv
  BY <1>1, <1>5 DEF LastInv, OwnBehind
<1>8. /\ Requested = 0 /\ Answered = 0 /\ Ending = 0 /\ Ended = 0 /\ Acking = 0 /\ Acked = 0
      /\ Tolds = 0
  BY <1>5 DEF Requested, Answered, Ending, Ended, Acking, Acked, Tolds
<1>9. MadeInv /\ TokenInv /\ SidesInv
  BY <1>1, <1>8 DEF MadeInv, TokenInv, SidesInv, NewControl
<1>10. NoneFired
  BY <1>1 DEF NoneFired, NoTimer
<1>11. OwnInv
  BY <1>4, <1>8, NoneOwned DEF OwnInv
<1> QED
  BY <1>4, <1>6, <1>7, <1>9, <1>10, <1>11 DEF Inv, PhaseInv

(* Every step keeps it.                                                    *)
LEMMA InvStep == Inv /\ [Next]_vars => Inv'
<1> SUFFICES ASSUME Inv, [Next]_vars PROVE Inv'
  OBVIOUS
<1>1. TypeInv /\ BoundInv /\ LastInv /\ MadeInv /\ PhaseInv
  BY DEF Inv
<1>2. ASSUME NEW c \in Commands, WebCommand(c) PROVE Inv'
  BY <1>1, <1>2, WebCommandOK DEF Inv
<1>3. CASE GatewayEvent
  BY <1>1, <1>3, GRefusedOK, GRequestOK, GRequestFailsOK, GDispatcherAckOK, GEndOK, GEndFailsOK,
     GAckOK, GAckFailsOK DEF Inv, GatewayEvent
<1>4. CASE DeviceEvent
  BY <1>1, <1>4, DConnectOK, DLoginSuccessOK, DRefusedOK, DRequestOK, DRequestFailsOK, DEndOK,
     DEndFailsOK, DEndAckedOK, DAckAckedOK, DAckOK, DAckFailsOK DEF Inv, DeviceEvent
<1>5. CASE Readers
  BY <1>1, <1>5, GReadOK, DReadOK, DReadBreakOK DEF Inv, Readers
<1>6. CASE GTimer \/ DTimer
  BY <1>1, <1>6, GTimerOK, DTimerOK DEF Inv
<1>7. CASE Break \/ UNCHANGED vars
  BY <1>1, <1>7, BreakOK DEF Inv
<1> QED
  BY <1>2, <1>3, <1>4, <1>5, <1>6, <1>7 DEF Next

(* The types, with a timer for every command at most.                      *)
LEMMA InvTypes == Inv => TypeOK
<1> SUFFICES ASSUME Inv PROVE TypeOK
  OBVIOUS
<1>1. TypeInv /\ BoundInv
  BY DEF Inv
<1>2. /\ Count(gQueue, Req) \in Nat /\ Count(g2d, Req) \in Nat /\ Count(dQueue, Req) \in Nat
      /\ Count(dQueue, End) \in Nat /\ commands.used \in Nat /\ commands.most \in Nat
      /\ Goroutines(gTimer) \in Nat /\ Goroutines(dTimer) \in Nat
  BY <1>1, Numbers, Fields
<1>3. Goroutines(gTimer) <= commands.most /\ Goroutines(dTimer) <= commands.most
  BY <1>1, <1>2 DEF TypeInv, BoundInv
<1>4. gTimer \in Timers(0..commands.most) /\ dTimer \in Timers(0..commands.most)
  BY <1>1, <1>2, <1>3, CountersOK DEF TypeInv
<1>5. ASSUME NEW q \in {g2d, d2g, gQueue}, NEW i \in 1 .. Len(q)
      PROVE  q[i] \in [ev : GwEvents, op : Operations \cup Commands]
  <2>1. q \in Seq(ToDevice \cup ToGateway \cup Requests)
    BY <1>1 DEF TypeInv
  <2>2. q[i] \in ToDevice \cup ToGateway \cup Requests
    BY <2>1
  <2> QED
    BY <2>2 DEF ToDevice, ToGateway, Requests, GwEvents, Req, Told, End, Ack
<1>6. ASSUME NEW i \in 1 .. Len(dQueue)
      PROVE  dQueue[i] \in [ev : DevEvents, op : Operations \cup {NoOperation}]
  <2>1. dQueue[i] \in OfDevice
    BY <1>1 DEF TypeInv
  <2> QED
    BY <2>1 DEF OfDevice, DevEvents, GwEvents
<1> QED
  BY <1>1, <1>4, <1>5, <1>6 DEF TypeOK, TypeInv

(* Every variable stays in its set, and no more goroutines wait for a      *)
(* timer of a remote operation than the web has given commands.            *)
THEOREM TypeCorrect == Spec => []TypeOK
  BY InvInit, InvStep, InvTypes, PTL DEF Spec

(* No handler of ThingControl calls a method of a timer that is still nil, *)
(* on either side, whatever is asked for and whatever breaks.              *)
THEOREM NoNilTimer == Spec => []NoPanic
<1>1. Inv => NoPanic
  BY DEF Inv, MadeInv, NoPanic
<1> QED
  BY <1>1, InvInit, InvStep, PTL DEF Spec

(* Until a timer runs out the two sides are at the same operation while    *)
(* the gateway waits for its end, across faults and new connections.       *)
THEOREM OneOperation == Spec => []SameOperation
<1>1. Inv => SameOperation
  BY DEF Inv, PhaseInv, SidesInv, SameOperation
<1> QED
  BY <1>1, InvInit, InvStep, PTL DEF Spec

=============================================================================
