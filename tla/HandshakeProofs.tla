-------------------------- MODULE HandshakeProofs --------------------------
(***************************************************************************)
(* Theorems about Handshake: its types, that it implements KeyIssue, and   *)
(* that both sides hold the same key at rest unless a request runs out.    *)
(*                                                                         *)
(* The records are typed field by field in the invariant, which is what a  *)
(* handler's EXCEPT keeps; Record says that they have no other fields. The *)
(* first part says which actions change a variable, and how, once for all  *)
(* the proofs that follow.                                                 *)
(***************************************************************************)
EXTENDS Handshake, RequestTimerProofs

-----------------------------------------------------------------------------
(* The steps of the device, and of the Thing of connection c.              *)

DeviceStep == DeviceEvent \/ DeviceReader \/ DeviceTimers \/ DKeyAges \/ DCheckAesKeyValidity

GatewayStep(c) == GatewayEvent(c) \/ GatewayReader(c) \/ GTimer(c) \/ Break(c)

USE DEF DeviceStep, DeviceEvent, DeviceReader, DeviceTimers,
  DConnect, DDialFails, DCheckThingStatus, DRead, DBroken, DConnectAgain, DLater,
  DRegisterReqRefused, DRegisterReqError, DRegisterReqSendFails, DRegisterReq,
  DRegisterAckRefused, DRegisterAck, DRegisterAckFails, DLoginRequestRefused,
  DLoginRequestFails, DLoginRequest, DLoginRefused, DLoginChallenge, DLoginChallengeFails,
  DLoginResponseRefused, DLoginResponse, DLoginResponseFails, DLoginFailure, DLoginSuccess,
  DLoginSuccessFails, DRegTimer, DLoginTimer, DKeyAges, DCheckAesKeyValidity

(* What belongs to the gateway stays, but for a new connection.            *)
LEMMA DeviceKeeps ==
  ASSUME DeviceStep
  PROVE  UNCHANGED <<gQueue, gTimer, db>> /\ (UNCHANGED <<conn, gw>> \/ DConnect)
<1> HIDE DEF DConnect
<1> QED
  BY DEF connVars, gwVars, DConnect

(* The reader takes from the pipe what the handlers do not touch.          *)
LEMMA DevicePipes ==
  ASSUME DeviceStep
  PROVE  /\ UNCHANGED g2c \/ DRead
         /\ \/ UNCHANGED c2g \/ DLoginResponse
            \/ \E e \in 0..MaxTime : DRegisterReq(e) \/ DLoginRequest(e)
<1> HIDE DEF DRead, DLoginResponse, DRegisterReq, DLoginRequest
<1>1. UNCHANGED g2c \/ DRead
  BY DEF connVars, DLoginResponse, DRegisterReq, DLoginRequest
<1>2. \/ UNCHANGED c2g \/ DLoginResponse
      \/ \E e \in 0..MaxTime : DRegisterReq(e) \/ DLoginRequest(e)
  BY DEF connVars, DRead
<1> QED
  BY <1>1, <1>2

(* Who writes the device's struct and its reader's state.                  *)
LEMMA DeviceWrites ==
  ASSUME DeviceStep
  PROVE  \/ UNCHANGED <<dev, dReader>>
         \/ DConnect \/ DBroken \/ DConnectAgain \/ DRegisterReqRefused \/ DRegisterReqError
         \/ \E e \in 0..MaxTime : DRegisterReqSendFails(e) \/ DRegisterReq(e) \/ DLoginRequest(e)
         \/ DRegisterAck \/ DRegisterAckFails \/ DRegTimer \/ DLoginTimer
         \/ DLoginChallenge \/ DLoginChallengeFails \/ DLoginResponse \/ DLoginResponseFails
         \/ DLoginFailure \/ DLoginSuccess \/ DLoginSuccessFails \/ DKeyAges
         \/ DCheckAesKeyValidity
<1> HIDE DEF DConnect, DBroken, DConnectAgain, DRegisterReqRefused, DRegisterReqError,
      DRegisterReqSendFails, DRegisterReq, DLoginRequest, DRegisterAck, DRegisterAckFails,
      DRegTimer, DLoginTimer, DLoginChallenge, DLoginChallengeFails, DLoginResponse,
      DLoginResponseFails, DLoginFailure, DLoginSuccess, DLoginSuccessFails, DKeyAges,
      DCheckAesKeyValidity
<1> QED
  OBVIOUS

(* A handler takes its event; some push another one, as do the goroutines. *)
LEMMA DevicePushes ==
  ASSUME DeviceStep
  PROVE  \/ DRead \/ UNCHANGED dQueue
         \/ dQueue # <<>> /\ dQueue' = Tail(dQueue)
         \/ /\ DLoginChallenge /\ dQueue # <<>>
            /\ dQueue' = Append(Tail(dQueue), [m EXCEPT !.ev = "EventLoginResponse"])
         \/ /\ DConnectAgain \/ DLater("EventConnectServer")
            /\ dQueue' = Append(dQueue, Event("EventConnectServer"))
         \/ \E ev \in {"EventCheckThingStatus", "RegisterReqEventMessage", "EventLoginRequest"} :
              \/ dQueue' = Append(dQueue, Event(ev))
              \/ dQueue # <<>> /\ dQueue' = Append(Tail(dQueue), Event(ev))
<1> USE DEF On, LoginFits, Done, Then, Push, Delayed, RegTimer, LoginTimer
<1>1. CASE DRead
  BY <1>1
<1> HIDE DEF DRead
<1>2. CASE DeviceReader
  BY <1>1, <1>2
<1>3. CASE DeviceTimers \/ DKeyAges \/ DCheckAesKeyValidity
  BY <1>3
<1>4. CASE DeviceEvent
  BY <1>4
<1> QED
  BY <1>2, <1>3, <1>4

(* Who opens a connection or has one opened, and who delays an event.      *)
LEMMA DeviceOpens ==
  ASSUME DeviceStep
  PROVE  /\ UNCHANGED dReader \/ DConnect \/ DBroken \/ DConnectAgain
         /\ \/ UNCHANGED later \/ DDialFails \/ \E e \in Delayed : DLater(e)
            \/ \E e \in {"RegisterReqEventMessage", "EventLoginRequest"} :
                 later' = [later EXCEPT ![e] = @ + 1]
<1> HIDE DEF DConnect, DBroken, DConnectAgain, DDialFails, DLater
<1>1. UNCHANGED dReader \/ DConnect \/ DBroken \/ DConnectAgain
  BY DEF DDialFails, DLater
<1>2. \/ UNCHANGED later \/ DDialFails \/ \E e \in Delayed : DLater(e)
      \/ \E e \in {"RegisterReqEventMessage", "EventLoginRequest"} :
           later' = [later EXCEPT ![e] = @ + 1]
  BY DEF LoginAgain, DConnect, DBroken, DConnectAgain
<1> QED
  BY <1>1, <1>2

(* NewTimer counts as a request sent.                                      *)
LEMMA DeviceTimes ==
  ASSUME DeviceStep
  PROVE  /\ \/ UNCHANGED regTimer /\ tries' \in {tries, tries + 1}
            \/ regTimer' = Started(regTimer) /\ tries' = tries + 1
            \/ regTimer' = Closed(Stopped(regTimer)) /\ UNCHANGED tries
            \/ RegTimer /\ UNCHANGED tries
         /\ \/ UNCHANGED loginTimer /\ tries' \in {tries, tries + 1}
            \/ loginTimer' = Started(loginTimer) /\ tries' = tries + 1
            \/ /\ loginTimer' \in {Stopped(loginTimer), Restarted(loginTimer), Closed(loginTimer),
                                   Closed(Stopped(loginTimer))}
               /\ UNCHANGED tries
            \/ LoginTimer /\ UNCHANGED tries
<1>1. \/ UNCHANGED regTimer /\ tries' \in {tries, tries + 1}
      \/ regTimer' = Started(regTimer) /\ tries' = tries + 1
      \/ regTimer' = Closed(Stopped(regTimer)) /\ UNCHANGED tries
      \/ RegTimer /\ UNCHANGED tries
  OBVIOUS
<1>2. \/ UNCHANGED loginTimer /\ tries' \in {tries, tries + 1}
      \/ loginTimer' = Started(loginTimer) /\ tries' = tries + 1
      \/ /\ loginTimer' \in {Stopped(loginTimer), Restarted(loginTimer), Closed(loginTimer),
                             Closed(Stopped(loginTimer))}
         /\ UNCHANGED tries
      \/ LoginTimer /\ UNCHANGED tries
  OBVIOUS
<1> QED
  BY <1>1, <1>2

(* Clock, requests, delayed events and errors.                             *)
LEMMA DeviceCounts ==
  ASSUME DeviceStep
  PROVE  /\ UNCHANGED now \/ Seconds \/ \E e \in 0..MaxTime : Stamp(e)
         /\ UNCHANGED tries \/ (tries < Bounds.tries /\ tries' = tries + 1)
         /\ UNCHANGED faults \/ Fault \/ faults' = [faults EXCEPT !.aged = @ + 1]
         /\ \/ UNCHANGED later
            \/ \E e \in Delayed : \/ later' = [later EXCEPT ![e] = @ + 1]
                                  \/ later[e] > 0 /\ later' = [later EXCEPT ![e] = @ - 1]
<1>1. UNCHANGED now \/ Seconds \/ \E e \in 0..MaxTime : Stamp(e)
  BY DEF RegTimer, LoginTimer, Timeout
<1>2. UNCHANGED tries \/ (tries < Bounds.tries /\ tries' = tries + 1)
  OBVIOUS
<1>3. UNCHANGED faults \/ Fault \/ faults' = [faults EXCEPT !.aged = @ + 1]
  BY DEF NoFault
<1>4. \/ UNCHANGED later
      \/ \E e \in Delayed : \/ later' = [later EXCEPT ![e] = @ + 1]
                            \/ later[e] > 0 /\ later' = [later EXCEPT ![e] = @ - 1]
  BY DEF LoginAgain, Delayed
<1> QED
  BY <1>1, <1>2, <1>3, <1>4

HIDE DEF DeviceEvent, DeviceReader, DeviceTimers,
  DConnect, DDialFails, DCheckThingStatus, DRead, DBroken, DConnectAgain, DLater,
  DRegisterReqRefused, DRegisterReqError, DRegisterReqSendFails, DRegisterReq,
  DRegisterAckRefused, DRegisterAck, DRegisterAckFails, DLoginRequestRefused,
  DLoginRequestFails, DLoginRequest, DLoginRefused, DLoginChallenge, DLoginChallengeFails,
  DLoginResponseRefused, DLoginResponse, DLoginResponseFails, DLoginFailure, DLoginSuccess,
  DLoginSuccessFails, DRegTimer, DLoginTimer, DKeyAges, DCheckAesKeyValidity
USE DEF GatewayStep, GatewayEvent, GatewayReader, GRead, GReadBreak, GClosed,
         GRegisterReq, GRegisterAck, GRegisterAckFails, GLoginRefused,
  GLoginRequest, GLoginRequestError, GLoginChallenge, GLoginChallengeFails, GLoginResponse,
  GLoginResponseFails, GLoginFailure, GLoginSuccess, GLoginSuccessSent, GLoginSuccessFails,
  GTimer, Break

(* What belongs to the device stays.                                       *)
LEMMA GatewayKeeps ==
  ASSUME NEW c \in Conns, GatewayStep(c)
  PROVE  /\ UNCHANGED <<dev, dQueue, dReader, regTimer, loginTimer, later, tries>>
         /\ UNCHANGED conn \/ Break(c)
         /\ UNCHANGED now \/ Seconds
         /\ UNCHANGED faults \/ Fault
<1>1. UNCHANGED <<dev, dQueue, dReader, regTimer, loginTimer, later, tries>>
  BY DEF devRest, devVars
<1>2. UNCHANGED conn \/ Break(c)
  BY DEF connVars
<1>3. UNCHANGED now \/ Seconds
  BY DEF Timeout
<1>4. UNCHANGED faults \/ Fault
  BY DEF NoFault
<1> QED
  BY <1>1, <1>2, <1>3, <1>4

(* The Thing's reader takes from one pipe, five handlers put in the other. *)
LEMMA GatewayPipes ==
  ASSUME NEW c \in Conns, GatewayStep(c)
  PROVE  /\ UNCHANGED c2g \/ GRead(c) \/ GReadBreak(c)
         /\ \/ UNCHANGED g2c \/ GRegisterAck(c) \/ GRegisterAckFails(c) \/ GLoginChallenge(c)
            \/ GLoginFailure(c) \/ GLoginSuccessSent(c)
<1>1. UNCHANGED c2g \/ GRead(c) \/ GReadBreak(c)
  BY DEF connVars
<1>2. \/ UNCHANGED g2c \/ GRegisterAck(c) \/ GRegisterAckFails(c) \/ GLoginChallenge(c)
      \/ GLoginFailure(c) \/ GLoginSuccessSent(c)
  <2> HIDE DEF GRegisterAck, GRegisterAckFails, GLoginChallenge, GLoginFailure, GLoginSuccessSent
  <2> QED
    BY DEF connVars
<1> QED
  BY <1>1, <1>2

(* Every handler but the first half of LoginSuccess takes its event.       *)
LEMMA GatewayPushes ==
  ASSUME NEW c \in Conns, GatewayStep(c)
  PROVE  \/ UNCHANGED gQueue \/ GRead(c) \/ GReadBreak(c)
         \/ /\ GDone(c)
            /\ \/ GFree(c) /\ gQueue[c] # <<>>
               \/ Saving(c) /\ \E done \in BOOLEAN : LoginOver(c, done)
         \/ /\ GFree(c) /\ gQueue[c] # <<>>
            /\ \E ev \in Wire : GThen(c, [Head(gQueue[c]) EXCEPT !.ev = ev])
<1> USE DEF GOn, ResponseFits
<1> HIDE DEF GRead, GReadBreak
<1>1. CASE GTimer(c) \/ Break(c) \/ GLoginSuccess(c)
  BY <1>1 DEF gwVars
<1>2. CASE GatewayReader(c)
  BY <1>2
<1>3. CASE GRegisterReq(c) \/ GLoginRequest(c) \/ GLoginResponse(c)
  BY <1>3 DEF Wire
<1>4. CASE \/ GClosed(c) \/ GRegisterAck(c) \/ GRegisterAckFails(c) \/ GLoginRefused(c)
           \/ GLoginRequestError(c) \/ GLoginChallenge(c) \/ GLoginChallengeFails(c)
           \/ GLoginResponseFails(c) \/ GLoginFailure(c)
  BY <1>4
<1>5. CASE GLoginSuccessSent(c) \/ GLoginSuccessFails(c)
  BY <1>5
<1> QED
  BY <1>1, <1>2, <1>3, <1>4, <1>5

(* Who writes the Thing, the row and the timer.                            *)
LEMMA GatewayWrites ==
  ASSUME NEW c \in Conns, GatewayStep(c)
  PROVE  /\ \/ UNCHANGED gw \/ GClosed(c) \/ GLoginRequest(c) \/ GLoginSuccess(c)
            \/ \E l \in LoginStates : LoginIs(c, l)
            \/ Saving(c) /\ \E done \in BOOLEAN : LoginOver(c, done)
         /\ \/ UNCHANGED db
            \/ db' = [db EXCEPT !.status = "ThingRegisteredUnLogin"]
            \/ /\ GRegisterAck(c) \/ GLoginSuccessSent(c) \/ GLoginSuccessFails(c)
               /\ db.key < Bounds.key
               /\ \E st \in Statuses : db' = [db EXCEPT !.key = NewKey, !.status = st]
         /\ \/ UNCHANGED gTimer \/ gTimer' = [gTimer EXCEPT ![c] = Started(@)]
            \/ StopToken(c) \/ GTimer(c)
<1>1. \/ UNCHANGED gw \/ GClosed(c) \/ GLoginRequest(c) \/ GLoginSuccess(c)
      \/ \E l \in LoginStates : LoginIs(c, l)
      \/ Saving(c) /\ \E done \in BOOLEAN : LoginOver(c, done)
  <2> HIDE DEF GClosed, GLoginRequest, GLoginSuccess
  <2> QED
    BY DEF gwVars, LoginStates
<1>2. \/ UNCHANGED db
      \/ db' = [db EXCEPT !.status = "ThingRegisteredUnLogin"]
      \/ /\ GRegisterAck(c) \/ GLoginSuccessSent(c) \/ GLoginSuccessFails(c)
         /\ db.key < Bounds.key
         /\ \E st \in Statuses : db' = [db EXCEPT !.key = NewKey, !.status = st]
  BY DEF gwVars, Statuses
<1>3. \/ UNCHANGED gTimer \/ gTimer' = [gTimer EXCEPT ![c] = Started(@)]
      \/ StopToken(c) \/ GTimer(c)
  <2> HIDE DEF GTimer
  <2> QED
    BY DEF gwVars
<1> QED
  BY <1>1, <1>2, <1>3

HIDE DEF GatewayEvent, GatewayReader,
  GRead, GReadBreak, GClosed, GRegisterReq, GRegisterAck, GRegisterAckFails, GLoginRefused,
  GLoginRequest, GLoginRequestError, GLoginChallenge, GLoginChallengeFails, GLoginResponse,
  GLoginResponseFails, GLoginFailure, GLoginSuccess, GLoginSuccessSent, GLoginSuccessFails,
  GTimer, Break

(* One of the two sides moves.                                             *)
LEMMA Sides == ASSUME Next PROVE DeviceStep \/ \E c \in Conns : GatewayStep(c)
  BY DEF Next
HIDE DEF DeviceStep, GatewayStep

-----------------------------------------------------------------------------
(* Types.                                                                  *)

DevFields == {"ThingStatus", "key", "c", "registerStart", "regReqTimes", "regEct", "login",
              "ect", "rnd", "old"}

DevTyped ==
  /\ dev.ThingStatus \in Statuses /\ dev.key \in Keys /\ dev.c \in 0..MaxConn
  /\ dev.registerStart \in BOOLEAN /\ dev.regReqTimes \in 0..Bounds.times
  /\ dev.regEct \in 0..MaxTime /\ dev.login \in LoginStates /\ dev.ect \in 0..MaxTime
  /\ dev.rnd \in 0..MaxTries /\ dev.old \in BOOLEAN
  /\ dReader \in {"off", "read", "push"} /\ (dReader = "read" => dev.c \in Conns)

PipesOK ==
  /\ conn \in [Conns -> {"none", "up", "broken"}]
  /\ c2g \in [Conns -> Seq(Frame)] /\ g2c \in [Conns -> Seq(Frame)]
  /\ gQueue \in [Conns -> Seq(Frame)] /\ dQueue \in Seq(Frame)

CountsOK ==
  /\ later \in [Delayed -> Nat] /\ now \in 0..MaxTime /\ tries \in 0..MaxTries
  /\ faults \in [used : Nat, aged : Nat, of : Instances]

(* No timer has more goroutines than requests were sent.                   *)
TimersOK ==
  /\ TimerOK(regTimer) /\ Goroutines(regTimer) <= tries
  /\ TimerOK(loginTimer) /\ Goroutines(loginTimer) <= tries
  /\ gTimer \in [Conns -> Timers(Nat)] /\ \A c \in Conns : TimerOK(gTimer[c])

GwFields == {"run", "login", "ect", "rnd", "enc", "thingid"}

GwTyped(x) ==
  /\ x.run \in {"off", "run", "exit"} /\ x.login \in LoginStates
  /\ x.ect \in 0..MaxTime /\ x.rnd \in 0..MaxTries
  /\ x.enc \in 0..MaxKey /\ x.thingid \in BOOLEAN

(* A Thing between the two halves of LoginSuccess still has its event.     *)
GwOK ==
  /\ DOMAIN gw = Conns /\ gw = [c \in Conns |-> gw[c]]
  /\ \A c \in Conns : Record(gw[c], GwFields) /\ GwTyped(gw[c])
  /\ \A c \in Conns : gw[c].enc # NoKey => gQueue[c] # <<>>

DbOK == Record(db, {"status", "key"}) /\ db.status \in Statuses /\ db.key \in 1..MaxKey

TypeInv ==
  /\ Record(dev, DevFields) /\ DevTyped
  /\ PipesOK /\ CountsOK /\ TimersOK /\ GwOK /\ DbOK

(* The bounds of the instance are within those of all.                     *)
LEMMA Within ==
  ASSUME CountsOK
  PROVE  /\ Bounds.conn \in 1..MaxConn /\ Bounds.time \in 0..MaxTime
         /\ Bounds.tries \in 0..MaxTries /\ Bounds.key \in 1..MaxKey /\ Bounds.times \in Nat \ {0}
  BY BoundsOK DEF CountsOK, Bounds

(* What a handler reads from its event.                                    *)
LEMMA HeadTyped ==
  ASSUME NEW s \in Seq(Frame), s # <<>>
  PROVE  /\ Head(s) \in Frame /\ Tail(s) \in Seq(Frame)
         /\ Head(s).ev \in Wire \cup Local /\ Head(s).ect \in 0..MaxTime
         /\ Head(s).rnd \in 0..MaxTries /\ Head(s).enc \in Keys /\ Head(s).key \in Keys
         /\ Head(s).ok \in BOOLEAN
<1>1. Head(s) \in Frame /\ Tail(s) \in Seq(Frame)
  OBVIOUS
<1> QED
  BY <1>1 DEF Frame

(* Keys that are none, and keys that were issued.                          *)
LEMMA KeyTypes == {NoKey, BadKey, PreKey} \subseteq Keys /\ 0..MaxKey \subseteq Keys
  BY BoundsOK DEF Keys, NoKey, BadKey, PreKey

(* What is pushed and sent is a frame.                                     *)
LEMMA EventFrame ==
  ASSUME NEW ev \in Wire \cup Local
  PROVE  Event(ev) \in Frame /\ Event(ev).ev = ev
  BY BoundsOK, KeyTypes DEF Event, Frame

LEMMA RenamedFrame ==
  ASSUME NEW f \in Frame, NEW ev \in Wire \cup Local
  PROVE  [f EXCEPT !.ev = ev] \in Frame /\ [f EXCEPT !.ev = ev].ev = ev
  BY DEF Frame

LEMMA MsgFrame ==
  ASSUME NEW ev \in Wire \cup Local, NEW f \in Frame, NEW enc \in Keys, NEW key \in Keys,
         NEW ok \in BOOLEAN
  PROVE  Msg(ev, f, enc, key, ok) \in Frame
  BY DEF Msg, Frame

LEMMA StampedFrame ==
  ASSUME NEW f \in Frame, NEW e \in 0..MaxTime, NEW r \in 0..MaxTries
  PROVE  [f EXCEPT !.rnd = r] \in Frame /\ [f EXCEPT !.ect = e, !.rnd = r] \in Frame
<1>1. \A g \in Frame : [g EXCEPT !.rnd = r] \in Frame
  BY DEF Frame
<1>2. [f EXCEPT !.ect = e] \in Frame
  BY DEF Frame
<1>3. [[f EXCEPT !.ect = e] EXCEPT !.rnd = r] \in Frame
  BY <1>1, <1>2
<1> QED
  BY <1>1, <1>3

(* A pipe or channel with another sequence of frames in it.                *)
LEMMA PipeSet ==
  ASSUME NEW p \in [Conns -> Seq(Frame)], NEW c, NEW s \in Seq(Frame)
  PROVE  [p EXCEPT ![c] = s] \in [Conns -> Seq(Frame)]
  OBVIOUS

LEMMA PipeAppend ==
  ASSUME NEW p \in [Conns -> Seq(Frame)], NEW c, NEW f \in Frame
  PROVE  [p EXCEPT ![c] = Append(@, f)] \in [Conns -> Seq(Frame)]
<1>1. CASE c \in Conns
  <2>1. Append(p[c], f) \in Seq(Frame)
    BY <1>1
  <2> QED
    BY <2>1, PipeSet
<1>2. CASE c \notin Conns
  BY <1>2
<1> QED
  BY <1>1, <1>2

LEMMA PipeTail ==
  ASSUME NEW p \in [Conns -> Seq(Frame)], NEW c \in Conns, p[c] # <<>>
  PROVE  [p EXCEPT ![c] = Tail(@)] \in [Conns -> Seq(Frame)]
<1>1. Tail(p[c]) \in Seq(Frame)
  OBVIOUS
<1> QED
  BY <1>1, PipeSet

LEMMA PipeReplace ==
  ASSUME NEW p \in [Conns -> Seq(Frame)], NEW c \in Conns, p[c] # <<>>, NEW f \in Frame
  PROVE  [p EXCEPT ![c] = Append(Tail(@), f)] \in [Conns -> Seq(Frame)]
<1>1. Append(Tail(p[c]), f) \in Seq(Frame)
  <2>1. Tail(p[c]) \in Seq(Frame)
    OBVIOUS
  <2> QED
    BY <2>1
<1> QED
  BY <1>1, PipeSet

(* The fields of the device's struct stay the same ones.                   *)
LEMMA DevShape ==
  ASSUME Record(dev, DevFields), DeviceStep
  PROVE  Record(dev, DevFields)'
  BY DeviceWrites DEF Record, DConnect, DBroken, DConnectAgain, DRegisterReqRefused,
     DRegisterReqError, DRegisterReqSendFails, DRegisterReq, DLoginRequest, DRegisterAck,
     DRegisterAckFails, DRegTimer, RegTimer, DLoginTimer, LoginTimer, DLoginChallenge,
     DLoginChallengeFails, DLoginResponse, DLoginResponseFails, DLoginFailure, DLoginSuccess,
     DLoginSuccessFails, DKeyAges, DCheckAesKeyValidity

(* Every handler writes values of the field's type.                        *)
LEMMA DevInd ==
  ASSUME DOMAIN dev = DevFields, DevTyped, CountsOK, PipesOK, UNCHANGED Bounds, DeviceStep
  PROVE  DevTyped'
<1> USE DEF DevTyped, DevFields
<1>m. dQueue # <<>> => m.key \in Keys
  BY HeadTyped DEF m, PipesOK
<1>1. CASE DConnect
  BY <1>1, Within, BoundsOK DEF DConnect, Conns
<1>2. CASE DBroken \/ DRegisterReqRefused \/ DRegisterReqError \/ DCheckAesKeyValidity
  <2>1. \E s \in Statuses : dev' \in {dev, [dev EXCEPT !.ThingStatus = s]}
    BY <1>2 DEF DBroken, DRegisterReqRefused, DRegisterReqError, DCheckAesKeyValidity, Statuses
  <2>2. dReader' \in {dReader, "push"}
    BY <1>2 DEF DBroken, DRegisterReqRefused, DRegisterReqError, DCheckAesKeyValidity
  <2> QED
    BY <2>1, <2>2
<1>3. CASE \/ DLoginTimer \/ DLoginChallenge \/ DLoginChallengeFails
           \/ DLoginResponse \/ DLoginResponseFails \/ DLoginFailure \/ DLoginSuccessFails
  <2>1. \E l \in LoginStates : dev' \in {dev, [dev EXCEPT !.login = l]}
    BY <1>3 DEF DLoginTimer, LoginTimer, DLoginChallenge, DLoginChallengeFails, DLoginResponse,
                DLoginResponseFails, DLoginFailure, DLoginSuccessFails, LoginStates
  <2>2. dReader' = dReader
    BY <1>3 DEF DLoginTimer, DLoginChallenge, DLoginChallengeFails, DLoginResponse,
                DLoginResponseFails, DLoginFailure, DLoginSuccessFails
  <2> QED
    BY <2>1, <2>2
<1>4. ASSUME NEW e \in 0..MaxTime,
             DRegisterReqSendFails(e) \/ DRegisterReq(e) \/ DLoginRequest(e)
      PROVE  DevTyped'
  <2>1. e <= MaxTime /\ tries + 1 \in 0..MaxTries
    BY <1>4, Within, BoundsOK DEF DRegisterReqSendFails, DRegisterReq, DLoginRequest, CountsOK
  <2>2. CASE DRegisterReqSendFails(e)
    BY <2>1, <2>2 DEF DRegisterReqSendFails, Statuses
  <2>3. CASE DRegisterReq(e)
    BY <2>1, <2>3, Within DEF DRegisterReq, Statuses
  <2>4. CASE DLoginRequest(e)
    BY <2>1, <2>4 DEF DLoginRequest, LoginStates
  <2> QED
    BY <1>4, <2>2, <2>3, <2>4
<1>8. CASE DConnectAgain \/ DRegTimer \/ DRegisterAckFails \/ DKeyAges
  <2>1. CASE DConnectAgain
    BY <2>1 DEF DConnectAgain
  <2>2. CASE DRegTimer
    BY <2>2 DEF DRegTimer, RegTimer
  <2>3. CASE DRegisterAckFails
    BY <2>3, Within DEF DRegisterAckFails
  <2>4. CASE DKeyAges
    BY <2>4 DEF DKeyAges
  <2> QED
    BY <1>8, <2>1, <2>2, <2>3, <2>4
<1>5. CASE DRegisterAck
  <2>1. m.key \in Keys
    BY <1>5, <1>m DEF DRegisterAck, On
  <2> QED
    BY <2>1, <1>5, Within DEF DRegisterAck, Statuses
<1>6. CASE DLoginSuccess
  BY <1>6, <1>m DEF DLoginSuccess, LoginFits, On, LoginStates, Statuses, Derived, Keys, BadKey
<1>7. CASE UNCHANGED <<dev, dReader>>
  BY <1>7
<1> QED
  BY <1>1, <1>2, <1>3, <1>4, <1>5, <1>6, <1>7, <1>8, DeviceWrites

(* The counters move within their bounds, and the instance stays.          *)
LEMMA CountsInd ==
  ASSUME TypeInv, Next
  PROVE  CountsOK' /\ UNCHANGED Bounds
<1> USE DEF TypeInv
<1>1. /\ UNCHANGED now \/ Seconds \/ \E e \in 0..MaxTime : Stamp(e)
      /\ UNCHANGED tries \/ (tries < Bounds.tries /\ tries' = tries + 1)
      /\ UNCHANGED faults \/ Fault \/ faults' = [faults EXCEPT !.aged = @ + 1]
      /\ \/ UNCHANGED later
         \/ \E e \in Delayed : \/ later' = [later EXCEPT ![e] = @ + 1]
                               \/ later[e] > 0 /\ later' = [later EXCEPT ![e] = @ - 1]
  <2>1. CASE DeviceStep
    BY <2>1, DeviceCounts
  <2>2. ASSUME NEW c \in Conns, GatewayStep(c)
        PROVE  /\ UNCHANGED <<tries, later>> /\ (UNCHANGED now \/ Seconds)
               /\ UNCHANGED faults \/ Fault
    BY <2>2, GatewayKeeps
  <2> QED
    BY <2>1, <2>2, Sides
<1>2. (faults \in [used : Nat, aged : Nat, of : Instances])' /\ UNCHANGED Bounds
  BY <1>1 DEF Fault, Bounds, CountsOK
<1>3. tries' \in 0..MaxTries
  BY <1>1, Within, BoundsOK DEF CountsOK
<1>4. now' \in 0..MaxTime
  BY <1>1, Within, BoundsOK DEF Seconds, Stamp, CountsOK
<1>5. later' \in [Delayed -> Nat]
  BY <1>1 DEF CountsOK
<1> QED
  BY <1>2, <1>3, <1>4, <1>5 DEF CountsOK

(* What the Thing and the device send are frames.                          *)
LEMMA SentToGateway ==
  ASSUME TypeInv, DeviceStep
  PROVE  UNCHANGED c2g \/ \E f \in Frame : Sent(c2g, dev.c, f)
<1> USE DEF TypeInv
<1>1. ASSUME NEW e \in 0..MaxTime, DRegisterReq(e) \/ DLoginRequest(e)
      PROVE  \E f \in Frame : Sent(c2g, dev.c, f)
  <2>1. tries + 1 \in 0..MaxTries /\ dev.key \in Keys
    BY <1>1, Within, BoundsOK DEF DRegisterReq, DLoginRequest, CountsOK, DevTyped
  <2>2. [Event("RegisterReqEventMessage") EXCEPT !.ect = e, !.rnd = tries + 1] \in Frame
    <3>1. Event("RegisterReqEventMessage") \in Frame
      BY EventFrame DEF Wire
    <3> QED
      BY <2>1, <3>1, StampedFrame
  <2>3. [ev |-> "EventLoginRequest", ect |-> e, rnd |-> tries + 1,
         enc |-> dev.key, key |-> NoKey, ok |-> TRUE] \in Frame
    BY <2>1, KeyTypes DEF Frame, Wire
  <2> QED
    BY <1>1, <2>2, <2>3 DEF DRegisterReq, DLoginRequest
<1>2. CASE DLoginResponse
  <2>1. m \in Frame /\ dev.key \in Keys
    BY <1>2, HeadTyped DEF DLoginResponse, On, m, PipesOK, DevTyped
  <2>2. Msg("EventLoginResponse", m, dev.key, dev.key, TRUE) \in Frame
    BY <2>1, MsgFrame DEF Wire
  <2> QED
    BY <1>2, <2>2 DEF DLoginResponse
<1> QED
  BY <1>1, <1>2, DevicePipes

LEMMA SentToDevice ==
  ASSUME TypeInv, NEW c \in Conns, GatewayStep(c)
  PROVE  \/ UNCHANGED g2c
         \/ \E f \in Frame :
              /\ Sent(g2c, c, f)
              /\ \/ GLoginChallenge(c) /\ f.ev = "EventLoginChallenge"
                 \/ GLoginFailure(c) /\ f.ev = "EventLoginFailure"
                 \/ GRegisterAckFails(c) /\ f.ev = "RegisterAckEventMessage" /\ ~f.ok
                 \/ /\ GRegisterAck(c)
                    /\ f = Msg("RegisterAckEventMessage", Head(gQueue[c]), NoKey, NewKey, TRUE)
                 \/ GLoginSuccessSent(c) /\ f = LoginSuccessFrame(c)
<1> USE DEF TypeInv
<1> DEFINE h == Head(gQueue[c])
<1>0. db.key < Bounds.key => NewKey \in Keys
  BY Within, KeyTypes, BoundsOK DEF DbOK, NewKey
<1>1. ASSUME gQueue[c] # <<>>
      PROVE  h \in Frame /\ db.key \in Keys /\ gw[c].rnd \in 0..MaxTries /\ gw[c].enc \in Keys
  BY <1>1, HeadTyped, KeyTypes, BoundsOK DEF PipesOK, GwOK, GwTyped, DbOK
<1>2. CASE GRegisterAck(c)
  <2>1. Msg("RegisterAckEventMessage", h, NoKey, NewKey, TRUE) \in Frame
    BY <1>0, <1>1, <1>2, MsgFrame, KeyTypes DEF GRegisterAck, GOn, Wire
  <2> QED
    BY <1>2, <2>1 DEF GRegisterAck
<1>3. CASE GRegisterAckFails(c)
  <2>1. Msg("RegisterAckEventMessage", h, NoKey, NoKey, FALSE) \in Frame
    BY <1>1, <1>3, MsgFrame, KeyTypes DEF GRegisterAckFails, GOn, Wire
  <2> QED
    BY <1>3, <2>1 DEF GRegisterAckFails, Msg
<1>4. CASE GLoginChallenge(c)
  <2>1. Msg("EventLoginChallenge", h, db.key, db.key, TRUE) \in Frame /\ gw[c].rnd \in 0..MaxTries
    BY <1>1, <1>4, MsgFrame DEF GLoginChallenge, GOn, Wire
  <2>2. [Msg("EventLoginChallenge", h, db.key, db.key, TRUE) EXCEPT !.rnd = gw[c].rnd] \in Frame
    BY <2>1, BoundsOK DEF Frame
  <2> QED
    BY <1>4, <2>2 DEF GLoginChallenge, Msg
<1>5. CASE GLoginFailure(c)
  <2>1. \A key \in {db.key, PreKey}, ok \in BOOLEAN :
          Msg("EventLoginFailure", h, key, NoKey, ok) \in Frame
    BY <1>1, <1>5, MsgFrame, KeyTypes DEF GLoginFailure, GOn, Wire
  <2> QED
    BY <1>5, <2>1 DEF GLoginFailure, Msg
<1>6. CASE GLoginSuccessSent(c)
  <2>1. LoginSuccessFrame(c) \in Frame
    BY <1>0, <1>1, <1>6, MsgFrame, KeyTypes
       DEF LoginSuccessFrame, GLoginSuccessSent, Saving, GwOK, Wire
  <2> QED
    BY <1>6, <2>1 DEF GLoginSuccessSent
<1> QED
  BY <1>2, <1>3, <1>4, <1>5, <1>6, GatewayPipes

LEMMA PipesInd ==
  ASSUME TypeInv, Next
  PROVE  PipesOK'
<1> USE DEF TypeInv
<1>1. CASE DeviceStep
  <2>1. conn' \in [Conns -> {"none", "up", "broken"}]
    <3>1. CASE DConnect
      BY <3>1 DEF DConnect, PipesOK
    <3> QED
      BY <1>1, <3>1, DeviceKeeps DEF PipesOK
  <2>2. c2g' \in [Conns -> Seq(Frame)]
    <3>1. ASSUME NEW f \in Frame, Sent(c2g, dev.c, f)
          PROVE  c2g' \in [Conns -> Seq(Frame)]
      BY <3>1, PipeAppend DEF Sent, PipesOK
    <3> QED
      BY <1>1, <3>1, SentToGateway DEF PipesOK
  <2>3. g2c' \in [Conns -> Seq(Frame)]
    <3>1. CASE DRead
      BY <3>1, PipeTail DEF DRead, DevTyped, PipesOK
    <3> QED
      BY <1>1, <3>1, DevicePipes DEF PipesOK
  <2>4. dQueue' \in Seq(Frame)
    <3>1. \A s \in Seq(Frame), e \in Frame : Append(s, e) \in Seq(Frame)
      OBVIOUS
    <3>2. dQueue \in Seq(Frame) /\ (dQueue # <<>> => Tail(dQueue) \in Seq(Frame) /\ m \in Frame)
      BY HeadTyped DEF PipesOK, m
    <3>3. CASE DRead
      <4>1. g2c[dev.c] \in Seq(Frame) /\ g2c[dev.c] # <<>>
        BY <3>3 DEF DRead, PipesOK, DevTyped
      <4>2. dQueue' \in {dQueue, Append(dQueue, Head(g2c[dev.c]))}
        BY <3>3 DEF DRead, Push
      <4> QED
        BY <3>1, <3>2, <4>1, <4>2, HeadTyped
    <3>4. /\ \A ev \in {"EventCheckThingStatus", "EventConnectServer",
                        "RegisterReqEventMessage", "EventLoginRequest"} : Event(ev) \in Frame
          /\ dQueue # <<>> => [m EXCEPT !.ev = "EventLoginResponse"] \in Frame
      BY <3>2, EventFrame, RenamedFrame DEF Wire, Local
    <3> QED
      BY <1>1, <3>1, <3>2, <3>3, <3>4, DevicePushes
  <2> QED
    BY <1>1, <2>1, <2>2, <2>3, <2>4, DeviceKeeps DEF PipesOK
<1>2. ASSUME NEW c \in Conns, GatewayStep(c)
      PROVE  PipesOK'
  <2>1. conn' \in [Conns -> {"none", "up", "broken"}] /\ dQueue' \in Seq(Frame)
    BY <1>2, GatewayKeeps DEF Break, PipesOK
  <2>2. c2g' \in [Conns -> Seq(Frame)]
    <3>1. CASE GRead(c)
      BY <3>1, PipeTail DEF GRead, PipesOK
    <3>2. CASE GReadBreak(c)
      BY <3>2, PipeSet DEF GReadBreak, PipesOK
    <3> QED
      BY <1>2, <3>1, <3>2, GatewayPipes DEF PipesOK
  <2>3. g2c' \in [Conns -> Seq(Frame)]
    <3>1. ASSUME NEW f \in Frame, Sent(g2c, c, f)
          PROVE  g2c' \in [Conns -> Seq(Frame)]
      BY <3>1, PipeAppend DEF Sent, PipesOK
    <3> QED
      BY <1>2, <3>1, SentToDevice DEF PipesOK
  <2>4. gQueue' \in [Conns -> Seq(Frame)]
    <3>0. gQueue \in [Conns -> Seq(Frame)]
      BY DEF PipesOK
    <3>1. CASE GRead(c)
      <4>1. Head(c2g[c]) \in Frame
        BY <3>1, HeadTyped DEF GRead, PipesOK
      <4>2. \/ UNCHANGED gQueue
            \/ gQueue' = [gQueue EXCEPT ![c] = Append(@, Head(c2g[c]))]
        BY <3>1 DEF GRead
      <4>3. CASE gQueue' = [gQueue EXCEPT ![c] = Append(@, Head(c2g[c]))]
        BY <3>0, <4>1, <4>3, PipeAppend
      <4> QED
        BY <3>0, <4>2, <4>3
    <3>2. CASE GReadBreak(c)
      <4>1. Event("EventConnectionClosed") \in Frame
        BY EventFrame DEF Local
      <4> QED
        BY <3>0, <3>2, <4>1, PipeAppend DEF GReadBreak
    <3>3. CASE gQueue[c] # <<>> /\ GDone(c)
      BY <3>0, <3>3, PipeTail DEF GDone
    <3>4. ASSUME NEW ev \in Wire, gQueue[c] # <<>>, GThen(c, [Head(gQueue[c]) EXCEPT !.ev = ev])
          PROVE  gQueue' \in [Conns -> Seq(Frame)]
      <4>1. [Head(gQueue[c]) EXCEPT !.ev = ev] \in Frame
        BY <3>0, <3>4, HeadTyped, RenamedFrame
      <4> QED
        BY <3>0, <3>4, <4>1, PipeReplace DEF GThen
    <3>5. Saving(c) => gQueue[c] # <<>>
      BY DEF Saving, GwOK
    <3> QED
      BY <1>2, <3>0, <3>1, <3>2, <3>3, <3>4, <3>5, GatewayPushes DEF GFree
  <2> QED
    BY <2>1, <2>2, <2>3, <2>4 DEF PipesOK
<1> QED
  BY <1>1, <1>2, Sides

(* A request sent is a timer made; nothing else makes a goroutine.         *)
LEMMA TimersInd ==
  ASSUME TypeInv, Next
  PROVE  TimersOK'
<1> USE DEF TypeInv
<1>0. /\ tries \in Nat /\ TimerOK(regTimer) /\ TimerOK(loginTimer)
      /\ Goroutines(regTimer) \in Nat /\ Goroutines(regTimer) <= tries
      /\ Goroutines(loginTimer) \in Nat /\ Goroutines(loginTimer) <= tries
  BY TimerTyped, BoundsOK DEF TimersOK, CountsOK
<1>1. CASE DeviceStep
  <2>1. (TimerOK(regTimer) /\ Goroutines(regTimer) <= tries)'
    <3>1. CASE RegTimer /\ UNCHANGED tries
      <4>1. CASE \E x \in TokenTaken(regTimer) : regTimer' = x
        BY <1>0, <3>1, <4>1, TokenTakenOK
      <4>2. CASE \E x \in Expired(regTimer) : regTimer' = x
        BY <1>0, <3>1, <4>2, ExpiredOK
      <4>3. CASE \/ regTimer.fired > 0 /\ regTimer' = FirstDone(regTimer)
                 \/ regTimer.late > 0 /\ regTimer' = SecondDone(regTimer)
        BY <1>0, <3>1, <4>3, DoneOK
      <4> QED
        BY <3>1, <4>1, <4>2, <4>3 DEF RegTimer
    <3> QED
      BY <1>0, <1>1, <3>1, DeviceTimes, StartedOK, KeptOK
  <2>2. (TimerOK(loginTimer) /\ Goroutines(loginTimer) <= tries)'
    <3>1. CASE LoginTimer /\ UNCHANGED tries
      <4>1. CASE \E x \in TokenTaken(loginTimer) : loginTimer' = x
        BY <1>0, <3>1, <4>1, TokenTakenOK
      <4>2. CASE \E x \in Expired(loginTimer) : loginTimer' = x
        BY <1>0, <3>1, <4>2, ExpiredOK
      <4>3. CASE \/ loginTimer.fired > 0 /\ loginTimer' = FirstDone(loginTimer)
                 \/ loginTimer.late > 0 /\ loginTimer' = SecondDone(loginTimer)
        BY <1>0, <3>1, <4>3, DoneOK
      <4> QED
        BY <3>1, <4>1, <4>2, <4>3 DEF LoginTimer
    <3> QED
      BY <1>0, <1>1, <3>1, DeviceTimes, StartedOK, KeptOK
  <2> QED
    BY <1>1, <2>1, <2>2, DeviceKeeps DEF TimersOK
<1>2. ASSUME NEW c \in Conns, GatewayStep(c)
      PROVE  TimersOK'
  <2>0. TimerOK(gTimer[c]) /\ DOMAIN gTimer = Conns
    BY DEF TimersOK
  <2>1. UNCHANGED gTimer \/ \E x : TimerOK(x) /\ gTimer' = [gTimer EXCEPT ![c] = x]
    <3>1. CASE gTimer' = [gTimer EXCEPT ![c] = Started(@)]
      BY <2>0, <3>1, StartedOK
    <3>2. CASE StopToken(c)
      BY <2>0, <3>2, KeptOK DEF StopToken
    <3>3. CASE GTimer(c)
      <4>1. CASE \E x \in TokenTaken(gTimer[c]) : gTimer' = [gTimer EXCEPT ![c] = x]
        BY <2>0, <4>1, TokenTakenOK
      <4>2. CASE \E x \in Expired(gTimer[c]) : gTimer' = [gTimer EXCEPT ![c] = x]
        BY <2>0, <4>2, ExpiredOK
      <4>3. CASE gTimer[c].fired > 0 /\ gTimer' = [gTimer EXCEPT ![c] = SecondDone(FirstDone(@))]
        BY <2>0, <4>3, BothDoneOK
      <4> QED
        BY <3>3, <4>1, <4>2, <4>3 DEF GTimer
    <3> QED
      BY <1>2, <3>1, <3>2, <3>3, GatewayWrites
  <2>2. (gTimer \in [Conns -> Timers(Nat)] /\ \A d \in Conns : TimerOK(gTimer[d]))'
    BY <2>1, TimerTyped DEF TimersOK
  <2> QED
    BY <1>2, <2>2, GatewayKeeps DEF TimersOK
<1> QED
  BY <1>1, <1>2, Sides

(* The row of the device: a key is issued below the bound.                 *)
LEMMA DbInd ==
  ASSUME TypeInv, Next
  PROVE  DbOK'
<1> USE DEF TypeInv
<1>1. \/ UNCHANGED db
      \/ db' = [db EXCEPT !.status = "ThingRegisteredUnLogin"]
      \/ /\ db.key < Bounds.key
         /\ \E st \in Statuses : db' = [db EXCEPT !.key = NewKey, !.status = st]
  BY Sides, DeviceKeeps, GatewayWrites
<1>2. DOMAIN db = {"status", "key"} /\ db.key \in 1..MaxKey /\ db.status \in Statuses
  BY DEF DbOK, Record
<1>3. Record(db, {"status", "key"})'
  <2>1. (DOMAIN db = {"status", "key"})'
    BY <1>1, <1>2
  <2>2. (db = [f \in DOMAIN db |-> db[f]])'
    BY <1>1 DEF DbOK, Record
  <2> QED
    BY <2>1, <2>2 DEF Record
<1>4. db'.key \in 1..MaxKey
  <2>1. db'.key = db.key \/ (db.key < Bounds.key /\ db'.key = db.key + 1)
    BY <1>1, <1>2 DEF NewKey
  <2> QED
    BY <1>2, <2>1, Within, BoundsOK
<1>5. db'.status \in Statuses
  BY <1>1, <1>2 DEF Statuses
<1> QED
  BY <1>3, <1>4, <1>5 DEF DbOK

(* The key of the answer is set by the first half of LoginSuccess and      *)
(* cleared by the second.                                                  *)
LEMMA EncMoves ==
  ASSUME NEW c \in Conns, GatewayStep(c), DOMAIN gw = Conns,
         \A x \in Conns : Record(gw[x], GwFields), ~GLoginSuccess(c)
  PROVE  /\ \A d \in Conns : gw'[d].enc = gw[d].enc \/ gw'[d].enc = NoKey
         /\ \A done \in BOOLEAN : LoginOver(c, done) => gw'[c].enc = NoKey
<1>1. ASSUME NEW l \in LoginStates, LoginIs(c, l)
      PROVE  \A d \in Conns : gw'[d].enc = gw[d].enc
  <2> DEFINE x == [gw[c] EXCEPT !.login = l]
  <2>1. gw' = [gw EXCEPT ![c] = x]
    BY <1>1 DEF LoginIs
  <2>2. x.enc = gw[c].enc
    BY DEF Record, GwFields
  <2> QED
    BY <2>1, <2>2
<1>2. ASSUME NEW e, NEW r,
             gw' = [gw EXCEPT ![c].login = "LoginRequestStatus", ![c].ect = e, ![c].rnd = r]
      PROVE  \A d \in Conns : gw'[d].enc = gw[d].enc
  <2> DEFINE x == [gw[c] EXCEPT !.login = "LoginRequestStatus", !.ect = e, !.rnd = r]
  <2>1. gw' = [gw EXCEPT ![c] = x]
    BY <1>2
  <2>2. x.enc = gw[c].enc
    BY DEF Record, GwFields
  <2> HIDE DEF x
  <2>3. gw'[c] = x /\ \A d \in Conns \ {c} : gw'[d] = gw[d]
    BY <2>1
  <2> QED
    BY <2>2, <2>3
<1>3. ASSUME GClosed(c)
      PROVE  \A d \in Conns : gw'[d].enc = gw[d].enc
  BY <1>3 DEF GClosed, Record, GwFields
<1>4. ASSUME NEW done \in BOOLEAN, LoginOver(c, done)
      PROVE  gw'[c].enc = NoKey /\ \A d \in Conns \ {c} : gw'[d] = gw[d]
  BY <1>4 DEF LoginOver, Record, GwFields
<1>5. \A done \in BOOLEAN : LoginOver(c, done) => gw'[c].enc = NoKey
  BY <1>4
<1>6. ASSUME GLoginRequest(c)
      PROVE  \A d \in Conns : gw'[d].enc = gw[d].enc
  BY <1>2, <1>6 DEF GLoginRequest
<1>7. ASSUME \E done \in BOOLEAN : LoginOver(c, done)
      PROVE  \A d \in Conns : gw'[d].enc = gw[d].enc \/ gw'[d].enc = NoKey
  BY <1>4, <1>7
<1> QED
  BY <1>1, <1>3, <1>5, <1>6, <1>7, GatewayWrites

(* A Thing is created running by DConnect and changed by its handlers.     *)
LEMMA GwInd ==
  ASSUME TypeInv, Next
  PROVE  GwOK'
<1> USE DEF TypeInv
<1> DEFINE Typed == /\ DOMAIN gw = Conns /\ gw = [d \in Conns |-> gw[d]]
                    /\ \A d \in Conns : Record(gw[d], GwFields) /\ GwTyped(gw[d])
<1>0. Typed /\ Conns = 1..MaxConn
  BY DEF GwOK, Conns
<1>1. ASSUME NEW c \in Conns, NEW x, gw' = [gw EXCEPT ![c] = x], Record(x, GwFields), GwTyped(x)
      PROVE  Typed'
  BY <1>0, <1>1
<1> HIDE DEF Typed
<1>2. \A c \in Conns : Record(gw[c], GwFields) /\ GwTyped(gw[c])
  BY DEF GwOK
<1>3. 0 \in 0..MaxKey /\ 0 \in 0..MaxTime /\ 0 \in 0..MaxTries /\ LoginStates # {}
  BY BoundsOK DEF LoginStates
<1>4. CASE DeviceStep
  <2>1. ASSUME UNCHANGED gw PROVE Typed'
    BY <1>0, <2>1 DEF Typed
  <2>2. ASSUME DConnect PROVE Typed'
    <3>1. dev.c + 1 \in Conns
      BY <2>2, Within, BoundsOK DEF DConnect, DevTyped, Conns
    <3> DEFINE x == [gw[dev.c + 1] EXCEPT !.run = "run"]
    <3>2. gw' = [gw EXCEPT ![dev.c + 1] = x]
      BY <2>2 DEF DConnect
    <3>3. Record(x, GwFields) /\ GwTyped(x)
      BY <1>2, <3>1 DEF Record, GwFields, GwTyped
    <3> QED
      BY <1>1, <3>1, <3>2, <3>3
  <2>3. Typed'
    BY <1>4, <2>1, <2>2, DeviceKeeps
  <2>4. \A c \in Conns : gw'[c].enc = gw[c].enc
    <3>1. CASE DConnect
      BY <1>2, <3>1 DEF DConnect, GwOK, Record, GwFields
    <3> QED
      BY <1>4, <3>1, DeviceKeeps
  <2> QED
    BY <1>4, <2>3, <2>4, DeviceKeeps DEF GwOK, Typed
<1>5. ASSUME NEW c \in Conns, GatewayStep(c)
      PROVE  GwOK'
  <2>1. Typed'
    <3>1. CASE GClosed(c)
      <4> DEFINE x == [gw[c] EXCEPT !.run = "exit"]
      <4>1. gw' = [gw EXCEPT ![c] = x]
        BY <3>1 DEF GClosed
      <4>2. Record(x, GwFields) /\ GwTyped(x)
        BY <1>2 DEF Record, GwFields, GwTyped
      <4> QED
        BY <1>1, <4>1, <4>2
    <3>2. CASE GLoginRequest(c)
      <4> DEFINE h == Head(gQueue[c])
                 x == [gw[c] EXCEPT !.login = "LoginRequestStatus", !.ect = h.ect, !.rnd = h.rnd]
      <4>1. gw' = [gw EXCEPT ![c] = x]
        BY <3>2 DEF GLoginRequest
      <4>2. h.ect \in 0..MaxTime /\ h.rnd \in 0..MaxTries
        BY <3>2, HeadTyped DEF GLoginRequest, GOn, PipesOK
      <4> HIDE DEF h
      <4>3. Record(x, GwFields) /\ GwTyped(x)
        <5>1. Record(x, GwFields)
          BY <1>2 DEF Record
        <5>2. GwTyped(x)
          BY <1>2, <4>2 DEF Record, GwFields, GwTyped, LoginStates
        <5> QED
          BY <5>1, <5>2
      <4> QED
        BY <1>1, <4>1, <4>3
    <3>3. CASE GLoginSuccess(c)
      <4> DEFINE x == [gw[c] EXCEPT !.enc = db.key]
      <4>1. gw' = [gw EXCEPT ![c] = x]
        BY <3>3 DEF GLoginSuccess
      <4>2. db.key \in 0..MaxKey
        BY BoundsOK DEF DbOK
      <4>3. Record(x, GwFields) /\ GwTyped(x)
        BY <1>2, <4>2 DEF Record, GwFields, GwTyped
      <4> QED
        BY <1>1, <4>1, <4>3
    <3>4. ASSUME NEW l \in LoginStates, LoginIs(c, l)
          PROVE  Typed'
      <4> DEFINE x == [gw[c] EXCEPT !.login = l]
      <4>1. gw' = [gw EXCEPT ![c] = x]
        BY <3>4 DEF LoginIs
      <4>2. Record(x, GwFields) /\ GwTyped(x)
        BY <1>2 DEF Record, GwFields, GwTyped
      <4> QED
        BY <1>1, <4>1, <4>2
    <3>5. ASSUME NEW done \in BOOLEAN, LoginOver(c, done)
          PROVE  Typed'
      <4> DEFINE x == [gw[c] EXCEPT !.login = "LoginStop", !.enc = NoKey, !.thingid = @ \/ done]
      <4>1. gw' = [gw EXCEPT ![c] = x]
        BY <3>5 DEF LoginOver
      <4>2. Record(x, GwFields)
        BY <1>2 DEF Record
      <4>3. GwTyped(x)
        BY <1>2, <1>3 DEF Record, GwFields, GwTyped, LoginStates, NoKey
      <4> QED
        BY <1>1, <4>1, <4>2, <4>3
    <3>6. CASE UNCHANGED gw
      BY <1>0, <3>6 DEF Typed
    <3> QED
      BY <1>5, <3>1, <3>2, <3>3, <3>4, <3>5, <3>6, GatewayWrites
  <2>2. ASSUME NEW d \in Conns, gw'[d].enc # NoKey
        PROVE  gQueue'[d] # <<>>
    <3>1. \A x \in Conns : gw[x].enc # NoKey => gQueue[x] # <<>>
      BY DEF GwOK
    <3>2. CASE GLoginSuccess(c)
      <4>1. gQueue' = gQueue /\ gQueue[c] # <<>> /\ (d # c => gw'[d] = gw[d])
        BY <3>2 DEF GLoginSuccess, GOn
      <4> QED
        BY <2>2, <3>1, <4>1
    <3>3. CASE ~GLoginSuccess(c)
      <4>1. /\ gw[d].enc # NoKey
            /\ \A done \in BOOLEAN : d = c => ~LoginOver(c, done)
        BY <1>0, <1>2, <1>5, <2>2, <3>3, EncMoves DEF Typed
      <4>2. gQueue[d] # <<>>
        BY <3>1, <4>1
      <4>3. d = c => ~GFree(c)
        BY <4>1 DEF GFree
      <4>4. CASE d # c \/ UNCHANGED gQueue
        <5>1. UNCHANGED gQueue \/ \E x : gQueue' = [gQueue EXCEPT ![c] = x]
          <6>1. CASE GRead(c)
            BY <6>1 DEF GRead
          <6>2. CASE GReadBreak(c)
            BY <6>2 DEF GReadBreak
          <6>3. CASE GDone(c)
            BY <6>3 DEF GDone
          <6>4. ASSUME NEW f, GThen(c, f)
                PROVE  \E x : gQueue' = [gQueue EXCEPT ![c] = x]
            BY <6>4 DEF GThen
          <6> QED
            BY <1>5, <6>1, <6>2, <6>3, <6>4, GatewayPushes
        <5> QED
          BY <4>2, <4>4, <5>1 DEF PipesOK
      <4>5. CASE d = c /\ (GRead(c) \/ GReadBreak(c))
        <5>1. gQueue[c] \in Seq(Frame) /\ c \in DOMAIN gQueue
          BY DEF PipesOK
        <5>2. \/ UNCHANGED gQueue
              \/ \E e : gQueue' = [gQueue EXCEPT ![c] = Append(gQueue[c], e)]
          BY <4>5 DEF GRead, GReadBreak
        <5>3. \A e : Append(gQueue[c], e) # <<>>
          BY <5>1
        <5> QED
          BY <4>2, <4>5, <5>1, <5>2, <5>3
      <4> QED
        BY <1>5, <4>1, <4>3, <4>4, <4>5, GatewayPushes
    <3> QED
      BY <3>2, <3>3
  <2> QED
    BY <2>1, <2>2 DEF GwOK, Typed
<1> QED
  BY <1>4, <1>5, Sides

LEMMA TypeInvInit == ASSUME Init PROVE TypeInv
<1> USE BoundsOK DEF Init
<1>1. Record(dev, DevFields)
  BY DEF Record, DevFields
<1>2. CountsOK
  BY DEF CountsOK, Delayed
<1>3. DevTyped
  BY <1>2, Within, KeyTypes DEF DevTyped, Statuses, LoginStates, NoKey
<1>4. PipesOK
  <2>1. Event("EventConnectServer") \in Frame
    BY EventFrame DEF Local
  <2>2. <<Event("EventConnectServer")>> \in Seq(Frame) /\ <<>> \in Seq(Frame)
    BY <2>1
  <2> QED
    BY <2>2 DEF PipesOK
<1>5. TimersOK
  <2>1. 0 <= tries
    OBVIOUS
  <2> QED
    BY <2>1, NoTimerOK, TimerTyped DEF TimersOK
<1>6. GwOK
  <2>1. Record(NewGwThing, GwFields) /\ GwTyped(NewGwThing) /\ NewGwThing.enc = NoKey
    BY DEF NewGwThing, Record, GwFields, GwTyped, LoginStates, NoKey
  <2> QED
    BY <2>1 DEF GwOK
<1>7. DbOK
  BY DEF DbOK, Record, Statuses
<1> QED
  BY <1>1, <1>2, <1>3, <1>4, <1>5, <1>6, <1>7 DEF TypeInv

LEMMA TypeInvNext == ASSUME TypeInv, [Next]_vars PROVE TypeInv'
<1>1. CASE Next
  <2>1. CountsOK' /\ UNCHANGED Bounds /\ PipesOK' /\ TimersOK' /\ GwOK' /\ DbOK'
    BY <1>1, CountsInd, PipesInd, TimersInd, GwInd, DbInd
  <2>2. CASE DeviceStep
    BY <2>1, <2>2, DevInd, DevShape DEF TypeInv, Record
  <2>3. ASSUME NEW c \in Conns, GatewayStep(c)
        PROVE  (Record(dev, DevFields) /\ DevTyped)'
    <3>1. UNCHANGED <<dev, dReader>> /\ UNCHANGED Bounds
      BY <2>1, <2>3, GatewayKeeps
    <3> QED
      BY <3>1 DEF TypeInv, Record, DevTyped
  <2> QED
    BY <1>1, <2>1, <2>2, <2>3, Sides DEF TypeInv
<1>2. CASE UNCHANGED vars
  BY <1>2 DEF vars, connVars, devVars, gwVars, TypeInv, Record, DevTyped, PipesOK, CountsOK,
     TimersOK,
              GwOK, DbOK, Bounds
<1> QED
  BY <1>1, <1>2

(* The invariant has what TypeOK says of the records.                      *)
LEMMA TypeInvTypes == ASSUME TypeInv PROVE TypeOK
<1> USE DEF TypeInv
<1>1. dev \in [ThingStatus : Statuses, key : Keys, c : 0..MaxConn, registerStart : BOOLEAN,
               regReqTimes : 0..Bounds.times, regEct : 0..MaxTime,
               login : LoginStates, ect : 0..MaxTime, rnd : 0..MaxTries, old : BOOLEAN]
  BY DEF Record, DevFields, DevTyped
<1>2. \A x : Record(x, GwFields) /\ GwTyped(x)
             => x \in [run : {"off", "run", "exit"}, login : LoginStates, ect : 0..MaxTime,
                       rnd : 0..MaxTries, enc : 0..MaxKey, thingid : BOOLEAN]
  BY DEF Record, GwFields, GwTyped
<1>3. gw \in [Conns -> [run : {"off", "run", "exit"}, login : LoginStates, ect : 0..MaxTime,
                        rnd : 0..MaxTries, enc : 0..MaxKey, thingid : BOOLEAN]]
  BY <1>2 DEF GwOK
<1>4. db \in [status : Statuses, key : 1..MaxKey]
  BY DEF DbOK, Record
<1>5. regTimer \in Timers(0..tries) /\ loginTimer \in Timers(0..tries)
  BY CountersOK, BoundsOK DEF TimersOK, CountsOK
<1>6. gTimer \in [Conns -> Timers(Nat)]
  BY DEF TimersOK
<1> QED
  BY <1>1, <1>3, <1>4, <1>5, <1>6 DEF TypeOK, PipesOK, CountsOK, DevTyped

(* Every variable stays in its set, whatever the bounds: in particular no  *)
(* more than RegisterReqMaxTimes requests in a row count as unanswered,    *)
(* and no timer has more goroutines than the device sent requests.         *)
THEOREM TypeCorrect == Spec => []TypeOK
<1>1. Spec => []TypeInv
  BY TypeInvInit, TypeInvNext, PTL DEF Spec
<1> QED
  BY <1>1, TypeInvTypes, PTL

-----------------------------------------------------------------------------
(* Handshake implements KeyIssue. The operators below speak of the frames  *)
(* in the channel q of the device and in the pipe t its reader takes from, *)
(* of the device's key k and of the newest key n.                          *)

(* A frame with a key the device may take over.                            *)
Carries(f) ==
  \/ f.ev = "RegisterAckEventMessage" /\ f.ok
  \/ f.ev = "EventLoginSuccess" /\ f.key # BadKey

(* The key was issued, for a login right after the one it answers under.   *)
IsIssued(f, n) ==
  /\ f.ev = "RegisterAckEventMessage" /\ f.ok => f.key \in 1..n
  /\ f.ev = "EventLoginSuccess" =>
       /\ f.enc \in 1..n
       /\ f.key # BadKey => f.key = f.enc + 1 /\ f.key <= n

AllIssued(s, n) == \A i \in 1..Len(s) : IsIssued(s[i], n)

(* The keys in a sequence of frames: in the order they were issued, all    *)
(* before those in another, all newer than k.                              *)
Increasing(s) ==
  \A i, j \in 1..Len(s) : i < j /\ Carries(s[i]) /\ Carries(s[j]) => s[i].key < s[j].key
Before(s, t) ==
  \A i \in 1..Len(s), j \in 1..Len(t) : Carries(s[i]) /\ Carries(t[j]) => s[i].key < t[j].key
Newer(s, k) == \A i \in 1..Len(s) : Carries(s[i]) => s[i].key > k

Ordered(q, t, k) ==
  /\ Increasing(q) /\ Increasing(t) /\ Before(q, t) /\ Newer(q, k) /\ Newer(t, k)

(* Every login in the pipe is answered with a key, and in the channel with *)
(* the one that follows the device's.                                      *)
Derivable(q, t, k) ==
  /\ \A i \in 1..Len(t) : t[i].ev = "EventLoginSuccess" => t[i].key # BadKey
  /\ \A i \in 1..Len(q) : q[i].ev = "EventLoginSuccess" => q[i].key # BadKey /\ q[i].enc = k

Live == IF dev.c = 0 THEN <<>> ELSE g2c[dev.c]

(* Nothing is opened ahead of the device, no Thing is ahead of the row.    *)
OpenInv ==
  /\ \A c \in Conns : c > dev.c => g2c[c] = <<>> /\ gw[c].run = "off" /\ gw[c].enc = NoKey
  /\ \A c \in Conns : gw[c].enc <= db.key
  /\ dev.key <= db.key

OrderInv == AllIssued(dQueue, db.key) /\ AllIssued(Live, db.key) /\ Ordered(dQueue, Live, dev.key)

(* While there is one connection no other Thing issues a key between the   *)
(* two halves of LoginSuccess, and what the device could decrypt is        *)
(* derived from the key it still has.                                      *)
SessionInv ==
  dev.c <= 1 => /\ \A c \in Conns : gw[c].enc \in {NoKey, db.key}
                /\ Derivable(dQueue, Live, dev.key)

KeyInv == OpenInv /\ OrderInv /\ SessionInv

-----------------------------------------------------------------------------
(* Sequences of frames.                                                    *)

LEMMA AppendAt ==
  ASSUME NEW s \in Seq(Frame), NEW f \in Frame
  PROVE  /\ Len(Append(s, f)) = Len(s) + 1 /\ Len(s) \in Nat
         /\ \A i \in 1..Len(s) : Append(s, f)[i] = s[i]
         /\ Append(s, f)[Len(s) + 1] = f
  OBVIOUS

LEMMA TailAt ==
  ASSUME NEW s \in Seq(Frame), s # <<>>
  PROVE  /\ Len(Tail(s)) = Len(s) - 1 /\ Len(s) \in Nat \ {0}
         /\ \A i \in 1..Len(Tail(s)) : Tail(s)[i] = s[i + 1]
         /\ Head(s) = s[1]
  OBVIOUS

(* The key of a frame is a number.                                         *)
LEMMA KeyNumber == ASSUME NEW f \in Frame PROVE f.key \in Int /\ f.enc \in Int
<1>1. f.key \in Keys /\ f.enc \in Keys
  BY DEF Frame
<1> QED
  BY <1>1, BoundsOK DEF Keys, BadKey, PreKey

LEMMA At == ASSUME NEW s \in Seq(Frame), NEW i \in 1..Len(s) PROVE s[i] \in Frame
  OBVIOUS

(* The device takes an event.                                              *)
LEMMA OrderTail ==
  ASSUME NEW q \in Seq(Frame), NEW t \in Seq(Frame), NEW k \in Int, NEW n \in Nat, q # <<>>,
         Ordered(q, t, k), AllIssued(q, n)
  PROVE  /\ Ordered(Tail(q), t, k) /\ AllIssued(Tail(q), n)
         /\ Carries(Head(q)) => Ordered(Tail(q), t, Head(q).key) /\ Head(q).key > k
<1>1. /\ Len(Tail(q)) = Len(q) - 1 /\ Len(q) \in Nat \ {0} /\ Head(q) = q[1]
      /\ \A i \in 1..Len(Tail(q)) : Tail(q)[i] = q[i + 1] /\ i + 1 \in 1..Len(q)
  BY TailAt
<1>2. Increasing(Tail(q)) /\ Before(Tail(q), t) /\ Newer(Tail(q), k) /\ AllIssued(Tail(q), n)
  BY <1>1 DEF Ordered, Increasing, Before, Newer, AllIssued
<1>3. Carries(Head(q)) =>
        Newer(Tail(q), Head(q).key) /\ Newer(t, Head(q).key) /\ Head(q).key > k
  <2>1. \A i \in 1..Len(q), j \in 1..Len(t) : q[i].key \in Int /\ t[j].key \in Int
    BY At, KeyNumber
  <2> QED
    BY <1>1, <2>1 DEF Ordered, Increasing, Before, Newer
<1> QED
  BY <1>2, <1>3 DEF Ordered

(* It pushes one that carries no key.                                      *)
LEMMA OrderPush ==
  ASSUME NEW q \in Seq(Frame), NEW t \in Seq(Frame), NEW k, NEW n, NEW e \in Frame,
         Ordered(q, t, k), AllIssued(q, n),
         e.ev \notin {"RegisterAckEventMessage", "EventLoginSuccess"}
  PROVE  Ordered(Append(q, e), t, k) /\ AllIssued(Append(q, e), n)
<1>1. /\ Len(Append(q, e)) = Len(q) + 1 /\ Len(q) \in Nat
      /\ \A i \in 1..Len(q) : Append(q, e)[i] = q[i]
      /\ Append(q, e)[Len(q) + 1] = e
  BY AppendAt
<1>2. \A i \in 1..Len(Append(q, e)) : i \in 1..Len(q) \/ i = Len(q) + 1
  BY <1>1
<1>3. ~Carries(e) /\ IsIssued(e, n)
  BY DEF Carries, IsIssued
<1> QED
  BY <1>1, <1>2, <1>3 DEF Ordered, Increasing, Before, Newer, AllIssued

(* Its reader takes a frame from the pipe and pushes it.                   *)
LEMMA OrderRead ==
  ASSUME NEW q \in Seq(Frame), NEW t \in Seq(Frame), NEW k, NEW n, t # <<>>,
         Ordered(q, t, k), AllIssued(q, n), AllIssued(t, n)
  PROVE  /\ Ordered(q, Tail(t), k) /\ AllIssued(Tail(t), n)
         /\ Ordered(Append(q, Head(t)), Tail(t), k) /\ AllIssued(Append(q, Head(t)), n)
<1> DEFINE u == Tail(t)
           p == Append(q, Head(t))
<1>1. /\ Len(u) = Len(t) - 1 /\ Len(t) \in Nat \ {0} /\ Head(t) = t[1] /\ 1 \in 1..Len(t)
      /\ \A i \in 1..Len(u) : u[i] = t[i + 1] /\ i + 1 \in 1..Len(t)
  BY TailAt
<1>2. /\ Len(p) = Len(q) + 1 /\ Len(q) \in Nat /\ p[Len(q) + 1] = Head(t)
      /\ \A i \in 1..Len(q) : p[i] = q[i]
  BY <1>1, AppendAt, At
<1>3. \A i \in 1..Len(p) : i \in 1..Len(q) \/ i = Len(q) + 1
  BY <1>2
<1> HIDE DEF u, p
<1>4. Increasing(u) /\ Before(q, u) /\ Newer(u, k) /\ AllIssued(u, n)
  <2>1. Increasing(u)
    <3>1. ASSUME NEW i \in 1..Len(u), NEW j \in 1..Len(u), i < j
          PROVE  /\ i + 1 \in 1..Len(t) /\ j + 1 \in 1..Len(t) /\ i + 1 < j + 1
                 /\ u[i] = t[i + 1] /\ u[j] = t[j + 1]
      BY <1>1, <3>1
    <3> QED
      BY <3>1 DEF Ordered, Increasing
  <2>2. Before(q, u)
    BY <1>1 DEF Ordered, Before
  <2>3. Newer(u, k) /\ AllIssued(u, n)
    BY <1>1 DEF Ordered, Newer, AllIssued
  <2> QED
    BY <2>1, <2>2, <2>3
<1>5. Increasing(p)
  BY <1>1, <1>2, <1>3 DEF Ordered, Increasing, Before
<1>6. Before(p, u)
  <2>1. ASSUME NEW j \in 1..Len(u), Carries(u[j])
        PROVE  /\ Carries(Head(t)) => Head(t).key < u[j].key
               /\ \A i \in 1..Len(q) : Carries(q[i]) => q[i].key < u[j].key
    <3>1. j + 1 \in 1..Len(t) /\ 1 < j + 1 /\ u[j] = t[j + 1]
      BY <1>1
    <3>2. Carries(t[1]) => t[1].key < t[j + 1].key
      BY <1>1, <2>1, <3>1 DEF Ordered, Increasing
    <3> QED
      BY <1>1, <2>1, <3>1, <3>2 DEF Ordered, Before
  <2> QED
    BY <1>2, <1>3, <2>1 DEF Before
<1>7. Newer(p, k) /\ AllIssued(p, n)
  BY <1>1, <1>2, <1>3 DEF Ordered, Newer, AllIssued
<1> QED
  BY <1>4, <1>5, <1>6, <1>7 DEF Ordered, u, p

(* The Thing of the connection sends a frame: it carries no key, or the    *)
(* newest.                                                                 *)
LEMMA OrderSent ==
  ASSUME NEW q \in Seq(Frame), NEW t \in Seq(Frame), NEW k, NEW n \in Nat, NEW f \in Frame,
         Ordered(q, t, k), AllIssued(q, n), AllIssued(t, n), k \in Int, k <= n,
         ~Carries(f) \/ f.key > n, NEW last \in {n, n + 1}, IsIssued(f, last)
  PROVE  Ordered(q, Append(t, f), k) /\ AllIssued(Append(t, f), last)
<1> DEFINE u == Append(t, f)
<1>1. /\ Len(u) = Len(t) + 1 /\ Len(t) \in Nat /\ u[Len(t) + 1] = f
      /\ \A i \in 1..Len(t) : u[i] = t[i]
  BY AppendAt
<1>2. \A i \in 1..Len(u) : i \in 1..Len(t) \/ i = Len(t) + 1
  BY <1>1
<1> HIDE DEF u
<1>3. /\ \A i \in 1..Len(q) : Carries(q[i]) => q[i].key <= n
      /\ \A i \in 1..Len(t) : Carries(t[i]) => t[i].key <= n
  BY DEF AllIssued, IsIssued, Carries
<1>4. Increasing(u)
  <2>1. \A i \in 1..Len(t) : Carries(t[i]) /\ Carries(f) => t[i].key < f.key
    BY <1>3, At, KeyNumber
  <2> QED
    BY <1>1, <1>2, <2>1 DEF Ordered, Increasing
<1>5. Before(q, u)
  <2>1. \A i \in 1..Len(q) : Carries(q[i]) /\ Carries(f) => q[i].key < f.key
    BY <1>3, At, KeyNumber
  <2> QED
    BY <1>1, <1>2, <2>1 DEF Ordered, Before
<1>6. Newer(u, k)
  BY <1>1, <1>2, KeyNumber DEF Ordered, Newer
<1>7. AllIssued(u, last)
  BY <1>1, <1>2, At, KeyNumber DEF AllIssued, IsIssued
<1> QED
  BY <1>4, <1>5, <1>6, <1>7 DEF Ordered, u

(* A newer key is issued, a new connection is opened, the device's key is  *)
(* one that nobody has.                                                    *)
LEMMA OrderElse ==
  ASSUME NEW q \in Seq(Frame), NEW t \in Seq(Frame), NEW k \in Int, NEW n \in Nat,
         Ordered(q, t, k), AllIssued(q, n), AllIssued(t, n)
  PROVE  /\ AllIssued(q, n + 1) /\ AllIssued(t, n + 1)
         /\ Ordered(q, <<>>, k) /\ AllIssued(<<>>, n)
         /\ Ordered(q, t, BadKey)
<1>1. AllIssued(q, n + 1) /\ AllIssued(t, n + 1)
  BY DEF AllIssued, IsIssued
<1>2. Ordered(q, <<>>, k) /\ AllIssued(<<>>, n)
  BY DEF Ordered, Increasing, Before, Newer, AllIssued
<1>3. Ordered(q, t, BadKey)
  BY DEF Ordered, Newer, AllIssued, IsIssued, Carries, BadKey
<1> QED
  BY <1>1, <1>2, <1>3

(* Nor do the logins in the channel miss their key.                        *)
LEMMA DerivableTail ==
  ASSUME NEW q \in Seq(Frame), NEW t \in Seq(Frame), NEW k \in Int, NEW n \in Nat, q # <<>>,
         Ordered(q, t, k), AllIssued(q, n), Derivable(q, t, k)
  PROVE  /\ Derivable(Tail(q), t, k)
         /\ Carries(Head(q)) => \A j : Derivable(Tail(q), t, j)
<1>1. /\ Len(Tail(q)) = Len(q) - 1 /\ Len(q) \in Nat \ {0} /\ Head(q) = q[1] /\ 1 \in 1..Len(q)
      /\ \A i \in 1..Len(Tail(q)) : Tail(q)[i] = q[i + 1] /\ i + 1 \in 1..Len(q)
  BY TailAt
<1>2. Derivable(Tail(q), t, k)
  BY <1>1 DEF Derivable
<1>3. ASSUME Carries(q[1]), NEW i \in 1..Len(q), i > 1, q[i].ev = "EventLoginSuccess"
      PROVE  FALSE
  <2>1. q[i].key = k + 1 /\ Carries(q[i])
    BY <1>3 DEF AllIssued, IsIssued, Derivable, Carries
  <2>2. q[1].key > k /\ q[1].key < q[i].key
    BY <1>1, <1>3, <2>1 DEF Ordered, Increasing, Newer
  <2>3. q[1].key \in Int
    BY <1>1, At, KeyNumber
  <2> QED
    BY <2>1, <2>2, <2>3
<1>4. ASSUME Carries(q[1]), NEW j
      PROVE  Derivable(Tail(q), t, j)
  <2>1. \A i \in 1..Len(Tail(q)) : Tail(q)[i].ev # "EventLoginSuccess"
    BY <1>1, <1>3, <1>4
  <2> QED
    BY <2>1 DEF Derivable
<1> QED
  BY <1>1, <1>2, <1>4

LEMMA DerivablePush ==
  ASSUME NEW q \in Seq(Frame), NEW t \in Seq(Frame), NEW k, NEW e \in Frame, Derivable(q, t, k),
         e.ev # "EventLoginSuccess"
  PROVE  Derivable(Append(q, e), t, k)
<1>1. /\ Len(Append(q, e)) = Len(q) + 1 /\ Len(q) \in Nat
      /\ \A i \in 1..Len(q) : Append(q, e)[i] = q[i]
      /\ Append(q, e)[Len(q) + 1] = e
  BY AppendAt
<1>2. \A i \in 1..Len(Append(q, e)) : i \in 1..Len(q) \/ i = Len(q) + 1
  BY <1>1
<1> QED
  BY <1>1, <1>2 DEF Derivable

LEMMA DerivableRead ==
  ASSUME NEW q \in Seq(Frame), NEW t \in Seq(Frame), NEW k, NEW n, t # <<>>, Derivable(q, t, k),
         AllIssued(t, n), n \in Nat
  PROVE  /\ Derivable(q, Tail(t), k)
         /\ Readable(Head(t), k) => Derivable(Append(q, Head(t)), Tail(t), k)
<1>1. /\ Len(Tail(t)) = Len(t) - 1 /\ Len(t) \in Nat \ {0} /\ Head(t) = t[1] /\ 1 \in 1..Len(t)
      /\ \A i \in 1..Len(Tail(t)) : Tail(t)[i] = t[i + 1] /\ i + 1 \in 1..Len(t)
  BY TailAt
<1> DEFINE p == Append(q, Head(t))
<1>2. /\ Len(p) = Len(q) + 1 /\ Len(q) \in Nat /\ p[Len(q) + 1] = Head(t)
      /\ \A i \in 1..Len(q) : p[i] = q[i]
  BY <1>1, AppendAt, At
<1>3. \A i \in 1..Len(p) : i \in 1..Len(q) \/ i = Len(q) + 1
  BY <1>2
<1> HIDE DEF p
<1>4. Derivable(q, Tail(t), k)
  BY <1>1 DEF Derivable
<1>5. Readable(Head(t), k) /\ Head(t).ev = "EventLoginSuccess"
        => Head(t).key # BadKey /\ Head(t).enc = k
  BY <1>1 DEF Readable, NoKey, AllIssued, IsIssued, Derivable
<1>6. Readable(Head(t), k) => Derivable(p, Tail(t), k)
  BY <1>2, <1>3, <1>4, <1>5 DEF Derivable
<1> QED
  BY <1>4, <1>6 DEF p

LEMMA DerivableSent ==
  ASSUME NEW q \in Seq(Frame), NEW t \in Seq(Frame), NEW k, NEW f \in Frame, Derivable(q, t, k),
         f.ev = "EventLoginSuccess" => f.key # BadKey
  PROVE  Derivable(q, Append(t, f), k)
<1>1. /\ Len(Append(t, f)) = Len(t) + 1 /\ Len(t) \in Nat
      /\ \A i \in 1..Len(t) : Append(t, f)[i] = t[i]
      /\ Append(t, f)[Len(t) + 1] = f
  BY AppendAt
<1>2. \A i \in 1..Len(Append(t, f)) : i \in 1..Len(t) \/ i = Len(t) + 1
  BY <1>1
<1> QED
  BY <1>1, <1>2 DEF Derivable

-----------------------------------------------------------------------------
(* The steps.                                                              *)

(* The device's key and its connection.                                    *)
LEMMA DeviceKey ==
  ASSUME Record(dev, DevFields), DeviceStep
  PROVE  /\ dev'.key = dev.key \/ DRegisterAck \/ DLoginSuccess
         /\ dev'.c = dev.c \/ DConnect
<1> USE DEF Record, DevFields
<1>1. CASE UNCHANGED <<dev, dReader>> \/ DConnect
  BY <1>1 DEF DConnect
<1>2. CASE DBroken \/ DConnectAgain \/ DRegisterReqRefused \/ DRegisterReqError \/ DKeyAges
           \/ DCheckAesKeyValidity
  BY <1>2 DEF DBroken, DConnectAgain, DRegisterReqRefused, DRegisterReqError, DKeyAges,
     DCheckAesKeyValidity
<1>3. ASSUME NEW e \in 0..MaxTime,
             DRegisterReqSendFails(e) \/ DRegisterReq(e) \/ DLoginRequest(e)
      PROVE  dev'.key = dev.key /\ dev'.c = dev.c
  <2>1. CASE DRegisterReqSendFails(e)
    BY <2>1 DEF DRegisterReqSendFails
  <2>2. CASE DRegisterReq(e)
    BY <2>2 DEF DRegisterReq
  <2>3. CASE DLoginRequest(e)
    BY <2>3 DEF DLoginRequest
  <2> QED
    BY <1>3, <2>1, <2>2, <2>3
<1>4. CASE DRegTimer \/ DLoginTimer \/ DRegisterAckFails
  BY <1>4 DEF DRegTimer, RegTimer, DLoginTimer, LoginTimer, DRegisterAckFails
<1>5. CASE DLoginChallenge \/ DLoginChallengeFails \/ DLoginResponse \/ DLoginResponseFails
           \/ DLoginFailure \/ DLoginSuccessFails
  BY <1>5 DEF DLoginChallenge, DLoginChallengeFails, DLoginResponse, DLoginResponseFails,
     DLoginFailure, DLoginSuccessFails
<1>6. CASE DRegisterAck
  BY <1>6 DEF DRegisterAck
<1>7. CASE DLoginSuccess
  BY <1>7 DEF DLoginSuccess
<1> QED
  BY <1>1, <1>2, <1>3, <1>4, <1>5, <1>6, <1>7, DeviceWrites

(* A Thing that does not run sends, issues and encrypts nothing.           *)
LEMMA NotRunning ==
  ASSUME NEW c \in Conns, GatewayStep(c), gw[c].run # "run"
  PROVE  UNCHANGED <<g2c, db, gw>> \/ (UNCHANGED <<g2c, db>> /\ \E l \in LoginStates : LoginIs(c, l))
  BY DEF GatewayStep, GatewayEvent, GatewayReader, GRead, GReadBreak, GClosed, GRegisterReq,
     GRegisterAck, GRegisterAckFails, GLoginRefused, GLoginRequest, GLoginRequestError,
     GLoginChallenge, GLoginChallengeFails, GLoginResponse, GLoginResponseFails, GLoginFailure,
     GLoginSuccess, GLoginSuccessSent, GLoginSuccessFails, GTimer, Break, GOn, GFree, Saving,
     ResponseFits, connVars, gwVars, LoginStates

(* A key is taken over from the answer, or derived that nobody has: not    *)
(* with one connection, where the pipe only has answers to be derived.     *)
LEMMA TakesOver ==
  ASSUME TypeInv, KeyInv, DRegisterAck \/ DLoginSuccess
  PROVE  /\ dQueue # <<>> /\ dev'.c = dev.c
         /\ \/ dev'.key = m.key /\ Carries(m) /\ m.key \in 1..db.key
            \/ dev'.key = BadKey /\ dev.c > 1
<1> USE DEF TypeInv
<1>0. dQueue # <<>>
  BY DEF DRegisterAck, DLoginSuccess, LoginFits, On
<1>1. m = dQueue[1] /\ 1 \in 1..Len(dQueue)
  BY <1>0, TailAt DEF m, PipesOK
<1>2. /\ IsIssued(m, db.key) /\ db.key \in Nat /\ dev.c \in Nat
      /\ dev.c <= 1 /\ m.ev = "EventLoginSuccess" => m.key # BadKey /\ m.enc = dev.key
  BY <1>1, BoundsOK DEF KeyInv, OrderInv, SessionInv, AllIssued, Derivable, DbOK, DevTyped
<1>3. CASE DRegisterAck
  <2>1. dev'.key = m.key /\ dev'.c = dev.c /\ Carries(m)
    BY <1>3 DEF DRegisterAck, On, Record, DevFields, Carries
  <2> QED
    BY <1>0, <1>2, <2>1 DEF IsIssued, Carries
<1>4. CASE DLoginSuccess
  <2>1. dev'.key = Derived(m) /\ dev'.c = dev.c /\ m.ev = "EventLoginSuccess"
    BY <1>4 DEF DLoginSuccess, LoginFits, On, Record, DevFields
  <2>2. CASE dev.key = m.enc /\ m.key # BadKey
    BY <1>0, <1>2, <2>1, <2>2 DEF Derived, Carries, IsIssued
  <2>3. CASE ~(dev.key = m.enc /\ m.key # BadKey)
    BY <1>0, <1>2, <2>1, <2>3 DEF Derived
  <2> QED
    BY <2>2, <2>3
<1> QED
  BY <1>3, <1>4

(* What the device does to its channel and its key.                        *)
LEMMA DeviceKeeping ==
  ASSUME TypeInv, KeyInv, DeviceStep, TypeInv'
  PROVE  KeyInv'
<1> DEFINE q == dQueue
           t == Live
           k == dev.key
           n == db.key
<1> USE DEF TypeInv
<1>0. /\ q \in Seq(Frame) /\ t \in Seq(Frame) /\ k \in Int /\ n \in Nat
      /\ dev.c \in 0..MaxConn /\ UNCHANGED db
      /\ DOMAIN g2c = Conns /\ Conns = 1..MaxConn
  <2>1. <<>> \in Seq(Frame)
    OBVIOUS
  <2>2. dev.c # 0 => dev.c \in Conns
    BY BoundsOK DEF DevTyped, Conns
  <2>3. k \in Int /\ n \in Nat
    BY BoundsOK DEF DevTyped, DbOK, Keys, PreKey, BadKey
  <2>4. UNCHANGED db
    BY DeviceKeeps
  <2> QED
    BY <2>1, <2>2, <2>3, <2>4 DEF PipesOK, DevTyped, Live, Conns
<1>1. /\ Ordered(q, t, k) /\ AllIssued(q, n) /\ AllIssued(t, n)
      /\ dev.c <= 1 => Derivable(q, t, k)
  BY DEF KeyInv, OrderInv, SessionInv
<1>2. q # <<>> => m = q[1] /\ m \in Frame /\ IsIssued(m, n) /\ m.key \in Int /\ m.enc \in Int
  <2>1. ASSUME q # <<>> PROVE m = q[1] /\ 1 \in 1..Len(q)
    BY <1>0, <2>1, TailAt DEF m
  <2> QED
    BY <1>0, <1>1, <2>1, At, KeyNumber DEF AllIssued
<1> DEFINE Kept == /\ Ordered(dQueue', Live', dev'.key) /\ AllIssued(dQueue', n)
                   /\ AllIssued(Live', n) /\ dev'.key <= n
                   /\ dev'.c <= 1 => Derivable(dQueue', Live', dev'.key)
<1>3. Kept
  <2>1. CASE DConnect
    <3> DEFINE e == Event("EventCheckThingStatus")
    <3>1. /\ q # <<>> /\ dQueue' = Append(Tail(q), e) /\ e \in Frame /\ e.ev = "EventCheckThingStatus"
          /\ Tail(q) \in Seq(Frame)
      BY <1>0, <2>1, EventFrame, HeadTyped DEF DConnect, On, Then, Local
    <3>2. /\ dev'.key = k /\ dev'.c = dev.c + 1 /\ g2c' = g2c /\ dev.c + 1 \in Conns
      BY <1>0, <2>1, Within, BoundsOK DEF DConnect, Record, DevFields, Conns
    <3>3. Live' = <<>>
      BY <1>0, <3>2 DEF Live, KeyInv, OpenInv
    <3> HIDE DEF e
    <3>4. Ordered(dQueue', t, k) /\ AllIssued(dQueue', n)
      BY <1>0, <1>1, <3>1, OrderTail, OrderPush
    <3>5. Ordered(dQueue', <<>>, k) /\ AllIssued(<<>>, n)
      <4>1. dQueue' \in Seq(Frame)
        BY DEF PipesOK
      <4> QED
        BY <1>0, <1>1, <3>4, <4>1, OrderElse
    <3>6. dev'.c <= 1 => t = <<>> /\ Derivable(dQueue', t, k)
      <4>1. ASSUME dev'.c <= 1 PROVE t = <<>> /\ Derivable(q, t, k)
        BY <1>0, <1>1, <3>2, <4>1 DEF Live
      <4>2. ASSUME Derivable(q, t, k) PROVE Derivable(dQueue', t, k)
        BY <1>0, <1>1, <3>1, <4>2, DerivableTail, DerivablePush
      <4> QED
        BY <4>1, <4>2
    <3>7. dev'.key <= n
      BY <3>2 DEF KeyInv, OpenInv
    <3> QED
      BY <3>2, <3>3, <3>4, <3>5, <3>6, <3>7
  <2>2. CASE DRead
    <3>1. dev.c \in Conns /\ t = g2c[dev.c] /\ t # <<>> /\ UNCHANGED dev
      BY <2>2, BoundsOK DEF DRead, DevTyped, Live, Conns
    <3>2. /\ Live' = Tail(t)
          /\ dQueue' = q \/ (Readable(Head(t), k) /\ dQueue' = Append(q, Head(t)))
      BY <1>0, <2>2, <3>1 DEF DRead, Push, Live
    <3>3. Ordered(dQueue', Live', k) /\ AllIssued(dQueue', n) /\ AllIssued(Live', n)
      BY <1>0, <1>1, <3>1, <3>2, OrderRead
    <3>4. dev.c <= 1 => Derivable(dQueue', Live', k)
      BY <1>0, <1>1, <3>1, <3>2, DerivableRead
    <3>5. dev'.key <= n
      BY <3>1 DEF KeyInv, OpenInv
    <3> QED
      BY <3>1, <3>3, <3>4, <3>5
  <2>3. CASE DRegisterAck \/ DLoginSuccess
    <3> DEFINE e == Event("EventLoginRequest")
    <3>1. /\ q # <<>> /\ m = Head(q) /\ e \in Frame /\ e.ev = "EventLoginRequest"
          /\ dQueue' \in {Tail(q), Append(Tail(q), e)} /\ Tail(q) \in Seq(Frame)
      BY <1>0, <2>3, TakesOver, EventFrame, HeadTyped
         DEF DRegisterAck, DLoginSuccess, Then, Done, Wire, m
    <3>2. g2c' = g2c /\ dev'.c = dev.c /\ Live' = t
      BY <2>3, TakesOver DEF DRegisterAck, DLoginSuccess, connVars, Live
    <3> HIDE DEF e
    <3>3. ASSUME NEW j, Ordered(Tail(q), t, j), AllIssued(Tail(q), n)
          PROVE  Ordered(dQueue', t, j) /\ AllIssued(dQueue', n)
      BY <1>0, <3>1, <3>3, OrderPush
    <3>4. CASE dev'.key = m.key /\ Carries(m) /\ m.key \in 1..n
      <4>1. Ordered(dQueue', t, m.key) /\ AllIssued(dQueue', n)
        BY <1>0, <1>1, <3>1, <3>3, <3>4, OrderTail
      <4>2. dev.c <= 1 => Derivable(Tail(q), t, m.key)
        BY <1>0, <1>1, <3>1, <3>4, DerivableTail
      <4>3. dev.c <= 1 => Derivable(dQueue', t, m.key)
        BY <1>0, <3>1, <4>2, DerivablePush
      <4> QED
        BY <1>1, <3>2, <3>4, <4>1, <4>3
    <3>5. CASE dev'.key = BadKey /\ dev.c > 1
      <4>1. Ordered(Tail(q), t, k) /\ AllIssued(Tail(q), n)
        BY <1>0, <1>1, <3>1, OrderTail
      <4>2. Ordered(dQueue', t, BadKey) /\ AllIssued(dQueue', n)
        BY <1>0, <1>1, <3>1, <3>3, <4>1, OrderElse
      <4> QED
        BY <1>0, <1>1, <3>2, <3>5, <4>2 DEF BadKey
    <3> QED
      BY <2>3, <3>4, <3>5, TakesOver
  <2>4. CASE ~DConnect /\ ~DRead /\ ~DRegisterAck /\ ~DLoginSuccess
    <3>1. dev'.key = k /\ dev'.c = dev.c /\ g2c' = g2c /\ Live' = t
      BY <2>4, DeviceKey, DevicePipes DEF Live
    <3>2. ASSUME NEW p \in {q, Tail(q)}, p = q \/ q # <<>>
          PROVE  /\ p \in Seq(Frame) /\ Ordered(p, t, k) /\ AllIssued(p, n)
                 /\ dev.c <= 1 => Derivable(p, t, k)
      BY <1>0, <1>1, <3>2, OrderTail, DerivableTail, HeadTyped
    <3>3. ASSUME NEW p \in {q, Tail(q)}, p = q \/ q # <<>>, NEW e \in Frame,
                 e.ev \notin {"RegisterAckEventMessage", "EventLoginSuccess"}
          PROVE  /\ Ordered(Append(p, e), t, k) /\ AllIssued(Append(p, e), n)
                 /\ dev.c <= 1 => Derivable(Append(p, e), t, k)
      BY <1>0, <3>2, <3>3, OrderPush, DerivablePush
    <3>4. \/ \E p \in {q, Tail(q)} : (p = q \/ q # <<>>) /\ dQueue' = p
          \/ \E p \in {q, Tail(q)}, e \in Frame :
               /\ p = q \/ q # <<>>
               /\ e.ev \notin {"RegisterAckEventMessage", "EventLoginSuccess"}
               /\ dQueue' = Append(p, e)
      <4>1. /\ \A ev \in {"EventCheckThingStatus", "EventConnectServer",
                           "RegisterReqEventMessage", "EventLoginRequest"} :
                  Event(ev) \in Frame /\ Event(ev).ev = ev
            /\ q # <<>> => /\ [m EXCEPT !.ev = "EventLoginResponse"] \in Frame
                            /\ [m EXCEPT !.ev = "EventLoginResponse"].ev = "EventLoginResponse"
        BY <1>2, EventFrame, RenamedFrame DEF Wire, Local
      <4> QED
        BY <2>4, <4>1, DevicePushes
    <3>5. dev'.key <= n
      BY <3>1 DEF KeyInv, OpenInv
    <3> QED
      BY <1>1, <3>1, <3>2, <3>3, <3>4, <3>5
  <2> QED
    BY <2>1, <2>2, <2>3, <2>4
<1>4. /\ \A c \in Conns : c > dev'.c => g2c'[c] = <<>> /\ gw'[c].run = "off" /\ gw'[c].enc = NoKey
      /\ \A c \in Conns : gw'[c].enc = gw[c].enc
      /\ dev'.c <= 1 => dev.c <= 1
  <2>1. CASE DConnect
    <3>1. dev'.c = dev.c + 1 /\ g2c' = g2c
      BY <2>1 DEF DConnect, Record, DevFields
    <3>2. \A c \in Conns : gw'[c].enc = gw[c].enc /\ (c # dev.c + 1 => gw'[c] = gw[c])
      BY <2>1 DEF DConnect, GwOK, Record, GwFields
    <3> QED
      BY <1>0, <3>1, <3>2 DEF KeyInv, OpenInv
  <2>2. CASE ~DConnect
    <3>1. UNCHANGED gw /\ dev'.c = dev.c
      BY <2>2, DeviceKeeps, DeviceKey
    <3>2. UNCHANGED g2c \/ (dev.c \in Conns /\ g2c' = [g2c EXCEPT ![dev.c] = Tail(@)])
      BY DevicePipes DEF DRead, DevTyped
    <3>3. ASSUME NEW c \in Conns, c > dev.c PROVE g2c'[c] = g2c[c]
      <4>1. c # dev.c
        BY <1>0, <3>3
      <4>2. CASE g2c' = [g2c EXCEPT ![dev.c] = Tail(@)]
        BY <1>0, <4>1, <4>2
      <4> QED
        BY <3>2, <4>2
    <3> QED
      BY <1>0, <3>1, <3>3 DEF KeyInv, OpenInv
  <2> QED
    BY <2>1, <2>2
<1> QED
  BY <1>0, <1>3, <1>4 DEF KeyInv, OpenInv, OrderInv, SessionInv

(* A Thing writes its own struct only.                                     *)
LEMMA OthersStay ==
  ASSUME NEW c \in Conns, GatewayStep(c), DOMAIN gw = Conns
  PROVE  \A d \in Conns \ {c} : gw'[d] = gw[d]
<1>1. ASSUME NEW l, LoginIs(c, l)
      PROVE  \A d \in Conns \ {c} : gw'[d] = gw[d]
  BY <1>1 DEF LoginIs
<1>2. ASSUME GLoginRequest(c)
      PROVE  \A d \in Conns \ {c} : gw'[d] = gw[d]
  BY <1>2 DEF GLoginRequest
<1>3. ASSUME GClosed(c) \/ GLoginSuccess(c)
      PROVE  \A d \in Conns \ {c} : gw'[d] = gw[d]
  BY <1>3 DEF GClosed, GLoginSuccess
<1>4. ASSUME NEW done, LoginOver(c, done)
      PROVE  \A d \in Conns \ {c} : gw'[d] = gw[d]
  BY <1>4 DEF LoginOver
<1> QED
  BY <1>1, <1>2, <1>3, <1>4, GatewayWrites

(* What the gateway's Thing does to the pipe and to the row.               *)
LEMMA GatewayKeeping ==
  ASSUME TypeInv, KeyInv, NEW c \in Conns, GatewayStep(c), TypeInv'
  PROVE  KeyInv' /\ UNCHANGED dev /\ db'.key \in {db.key, db.key + 1}
<1> DEFINE q == dQueue
           t == Live
           k == dev.key
           n == db.key
<1> USE DEF TypeInv
<1>0. /\ q \in Seq(Frame) /\ t \in Seq(Frame) /\ k \in Int /\ n \in Nat \ {0}
      /\ dev.c \in 0..MaxConn /\ UNCHANGED <<dev, dQueue>>
      /\ DOMAIN g2c = Conns /\ DOMAIN gw = Conns /\ Conns = 1..MaxConn
      /\ DOMAIN db = {"status", "key"}
  <2>1. <<>> \in Seq(Frame)
    OBVIOUS
  <2>2. dev.c # 0 => dev.c \in Conns
    BY BoundsOK DEF DevTyped, Conns
  <2>3. k \in Int /\ n \in Nat \ {0}
    BY BoundsOK DEF DevTyped, DbOK, Keys, PreKey, BadKey
  <2> QED
    BY <2>1, <2>2, <2>3, GatewayKeeps DEF PipesOK, DevTyped, GwOK, DbOK, Record, Live, Conns
<1>1. /\ Ordered(q, t, k) /\ AllIssued(q, n) /\ AllIssued(t, n) /\ k <= n
      /\ dev.c <= 1 => Derivable(q, t, k)
  BY DEF KeyInv, OpenInv, OrderInv, SessionInv
<1>2. /\ \A d \in Conns : Record(gw[d], GwFields) /\ GwTyped(gw[d]) /\ gw[d].enc <= n
      /\ \A d \in Conns : d > dev.c => g2c[d] = <<>> /\ gw[d].run = "off" /\ gw[d].enc = NoKey
      /\ dev.c <= 1 => \A d \in Conns : gw[d].enc \in {NoKey, n}
  BY DEF GwOK, KeyInv, OpenInv, SessionInv
<1>3. CASE gw[c].run # "run"
  <2>1. UNCHANGED <<g2c, db>> /\ Live' = t
    BY <1>0, <1>3, NotRunning DEF Live
  <2>2. \A d \in Conns : gw'[d].enc = gw[d].enc /\ gw'[d].run = gw[d].run
    <3>1. ASSUME NEW l \in LoginStates, LoginIs(c, l)
          PROVE  \A d \in Conns : gw'[d].enc = gw[d].enc /\ gw'[d].run = gw[d].run
      <4> DEFINE x == [gw[c] EXCEPT !.login = l]
      <4>1. gw' = [gw EXCEPT ![c] = x]
        BY <3>1 DEF LoginIs
      <4>2. x.enc = gw[c].enc /\ x.run = gw[c].run
        BY <1>2 DEF Record, GwFields
      <4> HIDE DEF x
      <4>3. gw'[c] = x /\ \A d \in Conns \ {c} : gw'[d] = gw[d]
        BY <1>0, <4>1
      <4> QED
        BY <4>2, <4>3
    <3> QED
      BY <1>3, <3>1, NotRunning
  <2> QED
    BY <1>0, <1>1, <1>2, <2>1, <2>2 DEF KeyInv, OpenInv, OrderInv, SessionInv
<1>4. CASE gw[c].run = "run"
  <2>1. c <= dev.c /\ dev.c \in Conns /\ t = g2c[dev.c]
    BY <1>0, <1>2, <1>4 DEF Live
  <2>2. \/ db'.key = n
        \/ db'.key = n + 1 /\ (GRegisterAck(c) \/ GLoginSuccessSent(c) \/ GLoginSuccessFails(c))
    <3>1. ASSUME NEW st, db' = [db EXCEPT !.key = NewKey, !.status = st]
          PROVE  db'.key = n + 1
      BY <1>0, <3>1 DEF NewKey
    <3>2. ASSUME db' = [db EXCEPT !.status = "ThingRegisteredUnLogin"]
          PROVE  db'.key = n
      BY <1>0, <3>2
    <3> QED
      BY <3>1, <3>2, GatewayWrites
  <2>3. \A d \in Conns : gw'[d].enc <= db'.key
    <3>1. CASE GLoginSuccess(c)
      BY <1>0, <1>2, <2>2, <3>1 DEF GLoginSuccess, GwTyped, Record, GwFields
    <3>2. CASE ~GLoginSuccess(c)
      <4>1. \A d \in Conns : gw'[d].enc = gw[d].enc \/ gw'[d].enc = NoKey
        BY <1>0, <1>2, <3>2, EncMoves
      <4>2. \A d \in Conns : gw[d].enc \in Int /\ gw[d].enc <= n
        BY <1>2, BoundsOK DEF GwTyped
      <4> QED
        BY <1>0, <2>2, <4>1, <4>2 DEF NoKey
    <3> QED
      BY <3>1, <3>2
  <2>4. \A d \in Conns : d > dev.c => g2c'[d] = <<>> /\ gw'[d].run = "off" /\ gw'[d].enc = NoKey
    <3>1. \A d \in Conns : d > dev.c => d # c
      BY <1>0, <2>1
    <3>2. UNCHANGED g2c \/ \E f : g2c' = [g2c EXCEPT ![c] = Append(g2c[c], f)]
      <4>1. ASSUME NEW f, Sent(g2c, c, f)
            PROVE  UNCHANGED g2c \/ g2c' = [g2c EXCEPT ![c] = Append(g2c[c], f)]
        BY <4>1 DEF Sent
      <4> QED
        BY <4>1, SentToDevice
    <3>3. \A d \in Conns : d # c => g2c'[d] = g2c[d] /\ gw'[d] = gw[d]
      BY <1>0, <3>2, OthersStay
    <3> QED
      BY <1>2, <3>1, <3>3
  <2>5. Ordered(q, Live', k) /\ AllIssued(q, db'.key) /\ AllIssued(Live', db'.key)
        /\ (dev.c <= 1 => Derivable(q, Live', k))
    <3>0. AllIssued(q, n + 1) /\ AllIssued(t, n + 1) /\ db'.key \in {n, n + 1}
      BY <1>0, <1>1, <2>2, OrderElse
    <3>1. CASE Live' = t
      BY <1>1, <2>2, <3>0, <3>1
    <3>2. ASSUME NEW f \in Frame, Live' = Append(t, f), ~Carries(f) \/ f.key > n,
                 IsIssued(f, db'.key), dev.c <= 1 => f.ev # "EventLoginSuccess" \/ f.key # BadKey
          PROVE  /\ Ordered(q, Live', k) /\ AllIssued(q, db'.key) /\ AllIssued(Live', db'.key)
                 /\ dev.c <= 1 => Derivable(q, Live', k)
      <4>1. Ordered(q, Live', k) /\ AllIssued(Live', db'.key)
        BY <1>0, <1>1, <3>0, <3>2, OrderSent
      <4>2. dev.c <= 1 => Derivable(q, Live', k)
        BY <1>0, <1>1, <3>2, DerivableSent
      <4> QED
        BY <1>1, <3>0, <4>1, <4>2
    <3>3. ASSUME NEW f \in Frame, Sent(g2c, c, f)
          PROVE  Live' \in {t, Append(t, f)}
      BY <1>0, <2>1, <3>3 DEF Sent, Live
    <3>4. CASE UNCHANGED g2c
      BY <1>0, <3>1, <3>4 DEF Live
    <3>5. ASSUME NEW f \in Frame, Sent(g2c, c, f),
                 \/ f.ev \in {"EventLoginChallenge", "EventLoginFailure"}
                 \/ f.ev = "RegisterAckEventMessage" /\ ~f.ok
          PROVE  ~Carries(f) /\ IsIssued(f, db'.key) /\ f.ev # "EventLoginSuccess"
      BY <3>5 DEF Carries, IsIssued
    <3>6. ASSUME GRegisterAck(c), NEW f \in Frame,
                 f = Msg("RegisterAckEventMessage", Head(gQueue[c]), NoKey, NewKey, TRUE)
          PROVE  f.key > n /\ IsIssued(f, db'.key) /\ f.ev # "EventLoginSuccess"
      <4>1. db'.key = n + 1
        BY <1>0, <3>6 DEF GRegisterAck, NewKey
      <4> QED
        BY <1>0, <3>6, <4>1 DEF Msg, IsIssued, NewKey
    <3>7. ASSUME GLoginSuccessSent(c), NEW f \in Frame, f = LoginSuccessFrame(c)
          PROVE  /\ ~Carries(f) \/ f.key > n
                 /\ IsIssued(f, db'.key) /\ (dev.c <= 1 => f.key # BadKey)
      <4>1. db'.key = n + 1
        BY <1>0, <3>7 DEF GLoginSuccessSent, NewKey
      <4>2. gw[c].enc \in 1..n /\ (dev.c <= 1 => gw[c].enc = n)
        BY <1>0, <1>2, <3>7, BoundsOK DEF GLoginSuccessSent, Saving, GwTyped, NoKey
      <4>3. /\ f.ev = "EventLoginSuccess" /\ f.enc = gw[c].enc
            /\ f.key = IF gw[c].enc = n THEN n + 1 ELSE BadKey
        BY <3>7 DEF LoginSuccessFrame, Msg, NewKey
      <4> QED
        BY <1>0, <4>1, <4>2, <4>3 DEF Carries, IsIssued, BadKey
    <3> QED
      BY <1>4, <3>1, <3>2, <3>3, <3>4, <3>5, <3>6, <3>7, SentToDevice
  <2>6. dev.c <= 1 => \A d \in Conns : gw'[d].enc \in {NoKey, db'.key}
    <3>1. CASE GLoginSuccess(c)
      <4>1. db' = db /\ gw' = [gw EXCEPT ![c].enc = n]
        BY <3>1 DEF GLoginSuccess, gwVars
      <4> QED
        BY <1>0, <1>2, <4>1 DEF Record, GwFields
    <3>2. CASE ~GLoginSuccess(c)
      <4>1. /\ \A d \in Conns : gw'[d].enc = gw[d].enc \/ gw'[d].enc = NoKey
            /\ \A done \in BOOLEAN : LoginOver(c, done) => gw'[c].enc = NoKey
        BY <1>0, <1>2, <3>2, EncMoves
      <4>2. CASE db'.key = n
        BY <1>2, <4>1, <4>2
      <4>3. CASE GRegisterAck(c) \/ GLoginSuccessSent(c) \/ GLoginSuccessFails(c)
        <5>1. gw[c].enc = NoKey \/ gw'[c].enc = NoKey
          BY <4>1, <4>3 DEF GRegisterAck, GOn, GFree, GLoginSuccessSent, GLoginSuccessFails
        <5>2. dev.c <= 1 => \A d \in Conns : d # c => gw[d].enc = NoKey
          BY <1>0, <1>2, <2>1
        <5> QED
          BY <4>1, <5>1, <5>2
      <4> QED
        BY <2>2, <4>2, <4>3
    <3> QED
      BY <3>1, <3>2
  <2> QED
    BY <1>0, <1>1, <2>2, <2>3, <2>4, <2>5, <2>6 DEF KeyInv, OpenInv, OrderInv, SessionInv
<1> QED
  BY <1>3, <1>4

LEMMA KeyInvInit == ASSUME Init PROVE KeyInv
<1> USE BoundsOK DEF Init
<1>1. OpenInv
  BY DEF OpenInv, NewGwThing, NoKey
<1>2. dQueue = <<Event("EventConnectServer")>> /\ Live = <<>> /\ Len(Live) = 0 /\ Len(dQueue) = 1
      /\ dQueue[1].ev = "EventConnectServer"
  BY DEF Live, Event
<1>3. OrderInv
  BY <1>2 DEF OrderInv, AllIssued, IsIssued, Ordered, Increasing, Before, Newer, Carries
<1>4. SessionInv
  BY <1>2 DEF SessionInv, Derivable, NewGwThing, NoKey
<1> QED
  BY <1>1, <1>3, <1>4 DEF KeyInv

(* A step of the handshake is a step of KeyIssue, or none.                 *)
LEMMA KeyStep == ASSUME TypeInv, KeyInv, [Next]_vars PROVE KeyInv' /\ [K!Next]_(K!vars)
<1>1. TypeInv'
  BY TypeInvNext
<1>2. CASE DeviceStep
  <2>1. KeyInv'
    BY <1>1, <1>2, DeviceKeeping
  <2>2. UNCHANGED db /\ Record(dev, DevFields) /\ DOMAIN dev = DevFields
    BY <1>2, DeviceKeeps DEF TypeInv, Record
  <2>3. CASE DConnect
    <3>1. dev'.c = dev.c + 1 /\ dev'.key = dev.key
      BY <2>2, <2>3 DEF DConnect, DevFields
    <3> QED
      BY <2>1, <2>2, <3>1 DEF K!Next, K!Connect
  <2>4. CASE DRegisterAck \/ DLoginSuccess
    <3>1. CASE dev'.key = m.key /\ Carries(m) /\ m.key \in 1..db.key /\ dev'.c = dev.c
      <4>1. m.key > dev.key
        <5>1. dQueue \in Seq(Frame) /\ dQueue # <<>> /\ m = dQueue[1] /\ 1 \in 1..Len(dQueue)
          BY <2>4, TakesOver, TailAt DEF m, TypeInv, PipesOK
        <5> QED
          BY <3>1, <5>1 DEF KeyInv, OrderInv, Ordered, Newer
      <4> QED
        BY <2>1, <2>2, <3>1, <4>1 DEF K!Next, K!Adopt
    <3>2. CASE dev'.key = BadKey /\ dev.c > 1 /\ dev'.c = dev.c
      BY <2>1, <2>2, <3>2 DEF K!Next, K!MixUp, K!MixedUp, BadKey
    <3> QED
      BY <2>4, <3>1, <3>2, TakesOver
  <2>5. CASE ~DConnect /\ ~DRegisterAck /\ ~DLoginSuccess
    BY <1>2, <2>1, <2>2, <2>5, DeviceKey DEF K!vars
  <2> QED
    BY <2>3, <2>4, <2>5
<1>3. ASSUME NEW c \in Conns, GatewayStep(c)
      PROVE  KeyInv' /\ [K!Next]_(K!vars)
  BY <1>1, <1>3, GatewayKeeping DEF K!Next, K!Issue, K!vars
<1>4. CASE UNCHANGED vars
  BY <1>4 DEF K!vars, vars, connVars, devVars, gwVars, KeyInv, OpenInv, OrderInv, SessionInv, Live
<1> QED
  BY <1>2, <1>3, <1>4, Sides

(* Whatever is lost, repeated, late or times out, the device only takes    *)
(* over keys that were issued and are newer than its own; it derives one   *)
(* that nobody has only when it has opened more than one connection.       *)
THEOREM KeyRefinement == Spec => KeysAreIssued
<1>1. Init => TypeInv /\ KeyInv /\ K!Init
  BY TypeInvInit, KeyInvInit DEF Init, K!Init, NoKey
<1>2. TypeInv /\ KeyInv /\ [Next]_vars => TypeInv' /\ KeyInv' /\ [K!Next]_(K!vars)
  BY TypeInvNext, KeyStep
<1> QED
  BY <1>1, <1>2, PTL DEF Spec, KeysAreIssued, K!Spec

-----------------------------------------------------------------------------
(* Without expiries both sides hold the same key at rest. A registration   *)
(* and a login are each one frame that goes around: from the device to the *)
(* Thing, through its channel, back, and through the device's channel.     *)

Places == ({"c2g", "gQueue", "g2c"} \X Conns) \cup {<<"dQueue", 0>>}
Inbox  == <<"dQueue", 0>>
ToGw(c)  == <<"c2g", c>>
AtGw(c)  == <<"gQueue", c>>
ToDev(c) == <<"g2c", c>>

BoxesOf(cg, gq, gc, dq) ==
  [p \in Places |-> IF p[1] = "c2g" THEN cg[p[2]] ELSE
                    IF p[1] = "gQueue" THEN gq[p[2]] ELSE
                    IF p[1] = "g2c" THEN gc[p[2]] ELSE dq]

Boxes == BoxesOf(c2g, gQueue, g2c, dQueue)

Kinds == {"registration", "login"}

Kind(ev) ==
  IF ev \in {"RegisterReqEventMessage", "RegisterAckEventMessage"} THEN "registration" ELSE
  IF ev \in {"EventLoginRequest", "EventLoginChallenge", "EventLoginResponse",
             "EventLoginSuccess", "EventLoginFailure"} THEN "login" ELSE "none"

(* On its way to the device a request is none: it is the event on which    *)
(* the device sends one.                                                   *)
Asks == {"RegisterReqEventMessage", "EventLoginRequest"}

Goes(k, p, f) == Kind(f.ev) = k /\ (p[1] \in {"g2c", "dQueue"} => f.ev \notin Asks)

None(k, B) == \A p \in Places : \A i \in 1..Len(B[p]) : ~Goes(k, p, B[p][i])

AtMostOne(k, B) ==
  \A p, q \in Places : \A i \in 1..Len(B[p]), j \in 1..Len(B[q]) :
    Goes(k, p, B[p][i]) /\ Goes(k, q, B[q][j]) => p = q /\ i = j

(* The device knows that one is under way. It counts the requests that are *)
(* not answered, and no timer of theirs has run out.                       *)
WayInv ==
  /\ \A k \in Kinds : AtMostOne(k, Boxes)
  /\ ~dev.registerStart => None("registration", Boxes) /\ dev.regReqTimes = 0
  /\ dev.login = "LoginStop" => None("login", Boxes)
  /\ Calm(regTimer) /\ Calm(loginTimer)

(* The answer was lost, and the device waits for it.                       *)
RegLost == dev.registerStart /\ None("registration", Boxes)

(* One connection at a time: what the last one brought comes before the    *)
(* event on which the next is opened.                                      *)
FromGateway == {"RegisterAckEventMessage", "EventLoginChallenge", "EventLoginSuccess",
                "EventLoginFailure"}

IsConnect(f) == f.ev = "EventConnectServer"
Waits(q)     == \E i \in 1..Len(q) : IsConnect(q[i])

OneConnect(q) ==
  /\ \A i, j \in 1..Len(q) : IsConnect(q[i]) /\ IsConnect(q[j]) => i = j
  /\ \A i, j \in 1..Len(q) : IsConnect(q[i]) /\ i < j => q[j].ev \notin FromGateway

ConnectInv ==
  /\ \A c \in Conns : \A i \in 1..Len(g2c[c]) : g2c[c][i].ev \in FromGateway
  /\ OneConnect(dQueue)
  /\ Waits(dQueue) => dReader = "off" /\ later["EventConnectServer"] = 0
  /\ later["EventConnectServer"] > 0 => dReader = "off" /\ later["EventConnectServer"] = 1
  /\ \A c \in Conns : c < dev.c \/ (c = dev.c /\ dReader # "read") => conn[c] = "broken"

(* The first half of LoginSuccess leaves its event where it is.            *)
HeadInv ==
  \A c \in Conns : gw[c].enc # NoKey => gQueue[c] # <<>> /\ gQueue[c][1].ev = "EventLoginSuccess"

(* The Thing encrypts under the key of now, unless that of an earlier      *)
(* connection has replaced it; its answer has gone nowhere.                *)
SavingInv ==
  dev.c # 0 /\ gw[dev.c].enc \notin {NoKey, db.key} => RegLost /\ dev.c > 1

(* An answer to a login has the newest key, or a registration follows.     *)
IsSuccess(f) == f.ev = "EventLoginSuccess"
IsAck(f)     == f.ev = "RegisterAckEventMessage"

Silent(s)   == \A i \in 1..Len(s) : ~IsSuccess(s[i])
NoAck(s)    == \A i \in 1..Len(s) : ~IsAck(s[i])
Under(s, k) == \A i \in 1..Len(s) : IsSuccess(s[i]) => s[i].enc = k
Mixed(s)    == \E i \in 1..Len(s) : IsSuccess(s[i]) /\ s[i].key = BadKey
AllIn(s, N) == \A i \in 1..Len(s) : IsSuccess(s[i]) => s[i].key \in N
Late(s, N)  == \A i \in 1..Len(s) :
                 IsSuccess(s[i]) => s[i].key \in N \/ \A j \in 1..(i - 1) : ~IsAck(s[j])

(* The newest key, if the Thing of the connection knows whose it is.       *)
Newest == IF dev.c # 0 /\ gw[dev.c].thingid THEN {db.key} ELSE {}

AnswerInv ==
  /\ Under(dQueue, dev.key)
  /\ Mixed(dQueue) \/ Mixed(Live) => RegLost /\ dev.c > 1
  /\ ~dev.registerStart => AllIn(dQueue, Newest) /\ AllIn(Live, Newest)
  /\ Late(dQueue, Newest) /\ Late(Live, Newest)
  /\ NoAck(dQueue) \/ AllIn(Live, Newest)

(* A device that is logged in has the newest key, or is about to ask.      *)
Asking ==
  \/ later["RegisterReqEventMessage"] > 0 \/ later["EventLoginRequest"] > 0
  \/ \E i \in 1..Len(dQueue) : dQueue[i].ev \in Asks \cup {"EventCheckThingStatus"}

RestInv ==
  /\ dev.key = BadKey => RegLost /\ dev.c > 1
  /\ dev.ThingStatus = "ThingRegisteredLogined" =>
       Asking \/ dev.registerStart \/ dev.login # "LoginStop" \/ dev.key \in Newest

AgreeInv == WayInv /\ ConnectInv /\ HeadInv /\ SavingInv /\ AnswerInv /\ RestInv

-----------------------------------------------------------------------------
(* Boxes of frames.                                                        *)

Held(B, p, s) == [B EXCEPT ![p] = s]
Drop(B, p)    == Held(B, p, Tail(B[p]))
Put(B, p, f)  == Held(B, p, Append(B[p], f))
Empty(B, p)   == Held(B, p, <<>>)

(* Nothing goes around that did not before: a frame is taken, another put  *)
(* in, and if that is one that goes around so was the first.               *)
Carried(B, D) ==
  \/ D = B
  \/ \E p \in Places : B[p] # <<>> /\ D = Drop(B, p)
  \/ \E q \in Places, f \in Frame : (\A k \in Kinds : ~Goes(k, q, f)) /\ D = Put(B, q, f)
  \/ \E p, q \in Places, f \in Frame :
       /\ B[p] # <<>> /\ \A k \in Kinds : Goes(k, q, f) => Goes(k, p, Head(B[p]))
       /\ D = Put(Drop(B, p), q, f)
  \/ \E p, q \in Places, f \in Frame :
       (\A k \in Kinds : ~Goes(k, q, f)) /\ D = Put(Empty(B, p), q, f)

LEMMA PlaceCases ==
  /\ Inbox \in Places /\ Inbox[1] = "dQueue"
  /\ \A c \in Conns : /\ ToGw(c) \in Places /\ ToGw(c)[1] = "c2g" /\ ToGw(c)[2] = c
                      /\ AtGw(c) \in Places /\ AtGw(c)[1] = "gQueue" /\ AtGw(c)[2] = c
                      /\ ToDev(c) \in Places /\ ToDev(c)[1] = "g2c" /\ ToDev(c)[2] = c
  /\ \A p \in Places : p = Inbox \/ \E c \in Conns : p = ToGw(c) \/ p = AtGw(c) \/ p = ToDev(c)
  BY DEF Places, Inbox, ToGw, AtGw, ToDev

LEMMA BoxAt ==
  ASSUME NEW cg, NEW gq, NEW gc, NEW dq
  PROVE  /\ DOMAIN BoxesOf(cg, gq, gc, dq) = Places
         /\ BoxesOf(cg, gq, gc, dq)[Inbox] = dq
         /\ \A c \in Conns : /\ BoxesOf(cg, gq, gc, dq)[ToGw(c)] = cg[c]
                             /\ BoxesOf(cg, gq, gc, dq)[AtGw(c)] = gq[c]
                             /\ BoxesOf(cg, gq, gc, dq)[ToDev(c)] = gc[c]
  BY PlaceCases DEF BoxesOf

LEMMA BoxesTyped ==
  ASSUME PipesOK
  PROVE  Boxes \in [Places -> Seq(Frame)]
<1>1. ASSUME NEW p \in Places
      PROVE  Boxes[p] \in Seq(Frame)
  <2>1. CASE p = Inbox
    BY <2>1, BoxAt DEF PipesOK, Boxes
  <2>2. ASSUME NEW c \in Conns, p = ToGw(c) \/ p = AtGw(c) \/ p = ToDev(c)
        PROVE  Boxes[p] \in Seq(Frame)
    BY <2>2, BoxAt DEF PipesOK, Boxes
  <2> QED
    BY <2>1, <2>2, PlaceCases
<1> QED
  BY <1>1 DEF Boxes, BoxesOf

(* A variable that changes at one place changes one box.                   *)
LEMMA ToGwSet ==
  ASSUME NEW cg, NEW gq, NEW gc, NEW dq, NEW c \in Conns, NEW s, NEW new,
         \A d \in Conns : new[d] = IF d = c THEN s ELSE cg[d]
  PROVE  BoxesOf(new, gq, gc, dq) = Held(BoxesOf(cg, gq, gc, dq), ToGw(c), s)
<1> DEFINE B == BoxesOf(cg, gq, gc, dq)
           D == BoxesOf(new, gq, gc, dq)
<1>1. ASSUME NEW p \in Places
      PROVE  D[p] = IF p = ToGw(c) THEN s ELSE B[p]
  <2>1. CASE p = Inbox
    BY <2>1, BoxAt, PlaceCases
  <2>2. ASSUME NEW d \in Conns, p = ToGw(d)
        PROVE  D[p] = IF p = ToGw(c) THEN s ELSE B[p]
    <3>1. D[p] = new[d] /\ B[p] = cg[d]
      BY <2>2, BoxAt
    <3>2. p = ToGw(c) <=> d = c
      BY <2>2, PlaceCases
    <3> QED
      BY <3>1, <3>2
  <2>3. ASSUME NEW d \in Conns, p = AtGw(d)
        PROVE  D[p] = IF p = ToGw(c) THEN s ELSE B[p]
    BY <2>3, BoxAt, PlaceCases
  <2>4. ASSUME NEW d \in Conns, p = ToDev(d)
        PROVE  D[p] = IF p = ToGw(c) THEN s ELSE B[p]
    BY <2>4, BoxAt, PlaceCases
  <2> QED
    BY <2>1, <2>2, <2>3, <2>4, PlaceCases
<1> QED
  BY <1>1 DEF BoxesOf, Held

LEMMA AtGwSet ==
  ASSUME NEW cg, NEW gq, NEW gc, NEW dq, NEW c \in Conns, NEW s, NEW new,
         \A d \in Conns : new[d] = IF d = c THEN s ELSE gq[d]
  PROVE  BoxesOf(cg, new, gc, dq) = Held(BoxesOf(cg, gq, gc, dq), AtGw(c), s)
<1> DEFINE B == BoxesOf(cg, gq, gc, dq)
           D == BoxesOf(cg, new, gc, dq)
<1>1. ASSUME NEW p \in Places
      PROVE  D[p] = IF p = AtGw(c) THEN s ELSE B[p]
  <2>1. CASE p = Inbox
    BY <2>1, BoxAt, PlaceCases
  <2>2. ASSUME NEW d \in Conns, p = ToGw(d)
        PROVE  D[p] = IF p = AtGw(c) THEN s ELSE B[p]
    BY <2>2, BoxAt, PlaceCases
  <2>3. ASSUME NEW d \in Conns, p = AtGw(d)
        PROVE  D[p] = IF p = AtGw(c) THEN s ELSE B[p]
    <3>1. D[p] = new[d] /\ B[p] = gq[d]
      BY <2>3, BoxAt
    <3>2. p = AtGw(c) <=> d = c
      BY <2>3, PlaceCases
    <3> QED
      BY <3>1, <3>2
  <2>4. ASSUME NEW d \in Conns, p = ToDev(d)
        PROVE  D[p] = IF p = AtGw(c) THEN s ELSE B[p]
    BY <2>4, BoxAt, PlaceCases
  <2> QED
    BY <2>1, <2>2, <2>3, <2>4, PlaceCases
<1> QED
  BY <1>1 DEF BoxesOf, Held

LEMMA ToDevSet ==
  ASSUME NEW cg, NEW gq, NEW gc, NEW dq, NEW c \in Conns, NEW s, NEW new,
         \A d \in Conns : new[d] = IF d = c THEN s ELSE gc[d]
  PROVE  BoxesOf(cg, gq, new, dq) = Held(BoxesOf(cg, gq, gc, dq), ToDev(c), s)
<1> DEFINE B == BoxesOf(cg, gq, gc, dq)
           D == BoxesOf(cg, gq, new, dq)
<1>1. ASSUME NEW p \in Places
      PROVE  D[p] = IF p = ToDev(c) THEN s ELSE B[p]
  <2>1. CASE p = Inbox
    BY <2>1, BoxAt, PlaceCases
  <2>2. ASSUME NEW d \in Conns, p = ToGw(d)
        PROVE  D[p] = IF p = ToDev(c) THEN s ELSE B[p]
    BY <2>2, BoxAt, PlaceCases
  <2>3. ASSUME NEW d \in Conns, p = AtGw(d)
        PROVE  D[p] = IF p = ToDev(c) THEN s ELSE B[p]
    BY <2>3, BoxAt, PlaceCases
  <2>4. ASSUME NEW d \in Conns, p = ToDev(d)
        PROVE  D[p] = IF p = ToDev(c) THEN s ELSE B[p]
    <3>1. D[p] = new[d] /\ B[p] = gc[d]
      BY <2>4, BoxAt
    <3>2. p = ToDev(c) <=> d = c
      BY <2>4, PlaceCases
    <3> QED
      BY <3>1, <3>2
  <2> QED
    BY <2>1, <2>2, <2>3, <2>4, PlaceCases
<1> QED
  BY <1>1 DEF BoxesOf, Held

LEMMA InboxSet ==
  ASSUME NEW cg, NEW gq, NEW gc, NEW dq, NEW s
  PROVE  BoxesOf(cg, gq, gc, s) = Held(BoxesOf(cg, gq, gc, dq), Inbox, s)
<1> DEFINE B == BoxesOf(cg, gq, gc, dq)
           D == BoxesOf(cg, gq, gc, s)
<1>1. ASSUME NEW p \in Places
      PROVE  D[p] = IF p = Inbox THEN s ELSE B[p]
  BY BoxAt, PlaceCases
<1> QED
  BY <1>1 DEF BoxesOf, Held

LEMMA DropOne ==
  ASSUME NEW k, NEW B \in [Places -> Seq(Frame)], NEW p \in Places, B[p] # <<>>
  PROVE  /\ Drop(B, p) \in [Places -> Seq(Frame)]
         /\ None(k, B) => None(k, Drop(B, p))
         /\ AtMostOne(k, B) => AtMostOne(k, Drop(B, p))
         /\ AtMostOne(k, B) /\ Goes(k, p, Head(B[p])) => None(k, Drop(B, p))
<1> DEFINE D == Drop(B, p)
<1>1. B[p] \in Seq(Frame) /\ Tail(B[p]) \in Seq(Frame)
  OBVIOUS
<1>2. /\ D \in [Places -> Seq(Frame)]
      /\ \A q \in Places \ {p} : D[q] = B[q]
      /\ D[p] = Tail(B[p])
  BY <1>1 DEF Drop, Held
<1>3. /\ \A i \in 1..Len(D[p]) : i + 1 \in 1..Len(B[p]) /\ D[p][i] = B[p][i + 1]
      /\ Head(B[p]) = B[p][1] /\ 1 \in 1..Len(B[p])
  BY <1>1, <1>2, TailAt
<1> DEFINE from(q, i) == IF q = p THEN i + 1 ELSE i
<1>4. ASSUME NEW q \in Places, NEW i \in 1..Len(D[q])
      PROVE  from(q, i) \in 1..Len(B[q]) /\ D[q][i] = B[q][from(q, i)] /\ i \in Int
  <2>1. CASE q = p
    BY <1>2, <1>3, <2>1
  <2>2. CASE q # p
    BY <1>2, <2>2
  <2> QED
    BY <2>1, <2>2
<1>f. \A q, r, i, j : q = r /\ from(q, i) = from(r, j) /\ i \in Int /\ j \in Int => i = j
  OBVIOUS
<1>g. from(p, 0) = 1 /\ \A i \in Int : from(p, i) = i + 1
  OBVIOUS
<1> HIDE DEF from, D
<1>5. None(k, B) => None(k, D)
  BY <1>4 DEF None
<1>6. ASSUME AtMostOne(k, B) PROVE AtMostOne(k, D)
  <2>1. ASSUME NEW q \in Places, NEW r \in Places, NEW i \in 1..Len(D[q]), NEW j \in 1..Len(D[r]),
               Goes(k, q, D[q][i]), Goes(k, r, D[r][j])
        PROVE  q = r /\ i = j
    <3>1. q = r /\ from(q, i) = from(r, j)
      <4>1. /\ from(q, i) \in 1..Len(B[q]) /\ Goes(k, q, B[q][from(q, i)])
            /\ from(r, j) \in 1..Len(B[r]) /\ Goes(k, r, B[r][from(r, j)])
        BY <1>4, <2>1
      <4> QED
        BY <1>6, <2>1, <4>1 DEF AtMostOne
    <3> QED
      BY <1>4, <1>f, <3>1
  <2> QED
    BY <2>1 DEF AtMostOne
<1>7. ASSUME AtMostOne(k, B), Goes(k, p, Head(B[p])) PROVE None(k, D)
  <2>1. ASSUME NEW q \in Places, NEW i \in 1..Len(D[q]), Goes(k, q, D[q][i])
        PROVE  FALSE
    <3>1. q = p /\ from(q, i) = 1
      <4>1. /\ from(q, i) \in 1..Len(B[q]) /\ Goes(k, q, B[q][from(q, i)])
            /\ 1 \in 1..Len(B[p]) /\ Goes(k, p, B[p][1])
        BY <1>3, <1>4, <1>7, <2>1
      <4> QED
        BY <1>7, <2>1, <4>1 DEF AtMostOne
    <3>2. i \in 1..Len(D[q]) /\ i \in Int
      BY <1>4, <2>1
    <3> QED
      BY <1>g, <3>1, <3>2
  <2> QED
    BY <2>1 DEF None
<1> QED
  BY <1>2, <1>5, <1>6, <1>7 DEF D

LEMMA PutOne ==
  ASSUME NEW k, NEW B \in [Places -> Seq(Frame)], NEW p \in Places, NEW f \in Frame
  PROVE  /\ Put(B, p, f) \in [Places -> Seq(Frame)]
         /\ None(k, B) /\ ~Goes(k, p, f) => None(k, Put(B, p, f))
         /\ AtMostOne(k, B) /\ ~Goes(k, p, f) => AtMostOne(k, Put(B, p, f))
         /\ None(k, B) => AtMostOne(k, Put(B, p, f))
<1> DEFINE D == Put(B, p, f)
<1>1. B[p] \in Seq(Frame) /\ Append(B[p], f) \in Seq(Frame)
  OBVIOUS
<1>2. /\ D \in [Places -> Seq(Frame)]
      /\ \A q \in Places \ {p} : D[q] = B[q]
      /\ D[p] = Append(B[p], f)
  BY <1>1 DEF Put, Held
<1>3. ASSUME NEW q \in Places, NEW i \in 1..Len(D[q])
      PROVE  \/ i \in 1..Len(B[q]) /\ D[q][i] = B[q][i]
             \/ q = p /\ i = Len(B[p]) + 1 /\ D[q][i] = f
  <2>1. CASE q = p
    BY <1>1, <1>2, <2>1, AppendAt
  <2>2. CASE q # p
    BY <1>2, <2>2
  <2> QED
    BY <2>1, <2>2
<1> HIDE DEF D
<1>4. ASSUME None(k, B), ~Goes(k, p, f) PROVE None(k, D)
  BY <1>3, <1>4 DEF None
<1>5. ASSUME AtMostOne(k, B), ~Goes(k, p, f) PROVE AtMostOne(k, D)
  <2>1. ASSUME NEW q \in Places, NEW r \in Places, NEW i \in 1..Len(D[q]), NEW j \in 1..Len(D[r]),
               Goes(k, q, D[q][i]), Goes(k, r, D[r][j])
        PROVE  q = r /\ i = j
    BY <1>3, <1>5, <2>1 DEF AtMostOne
  <2> QED
    BY <2>1 DEF AtMostOne
<1>6. ASSUME None(k, B) PROVE AtMostOne(k, D)
  <2>1. ASSUME NEW q \in Places, NEW r \in Places, NEW i \in 1..Len(D[q]), NEW j \in 1..Len(D[r]),
               Goes(k, q, D[q][i]), Goes(k, r, D[r][j])
        PROVE  q = r /\ i = j
    BY <1>3, <1>6, <2>1 DEF None
  <2> QED
    BY <2>1 DEF AtMostOne
<1> QED
  BY <1>2, <1>4, <1>5, <1>6 DEF D

LEMMA EmptyOne ==
  ASSUME NEW k, NEW B \in [Places -> Seq(Frame)], NEW p \in Places
  PROVE  /\ Empty(B, p) \in [Places -> Seq(Frame)]
         /\ None(k, B) => None(k, Empty(B, p))
         /\ AtMostOne(k, B) => AtMostOne(k, Empty(B, p))
<1> DEFINE D == Empty(B, p)
<1>1. D \in [Places -> Seq(Frame)] /\ \A q \in Places \ {p} : D[q] = B[q]
  BY DEF Empty, Held
<1>2. Len(D[p]) = 0
  BY DEF Empty, Held
<1>3. ASSUME NEW q \in Places, NEW i \in 1..Len(D[q])
      PROVE  i \in 1..Len(B[q]) /\ D[q][i] = B[q][i]
  <2>1. q # p
    BY <1>2, <1>3
  <2> QED
    BY <1>1, <1>3, <2>1
<1> HIDE DEF D
<1>4. None(k, B) => None(k, D)
  BY <1>3 DEF None
<1>5. AtMostOne(k, B) => AtMostOne(k, D)
  BY <1>3 DEF AtMostOne
<1> QED
  BY <1>1, <1>4, <1>5 DEF D

LEMMA CarriedOne ==
  ASSUME NEW k \in Kinds, NEW B \in [Places -> Seq(Frame)], NEW D, Carried(B, D)
  PROVE  /\ None(k, B) => None(k, D)
         /\ AtMostOne(k, B) => AtMostOne(k, D)
<1>1. ASSUME NEW p \in Places, B[p] # <<>>, D = Drop(B, p)
      PROVE  (None(k, B) => None(k, D)) /\ (AtMostOne(k, B) => AtMostOne(k, D))
  BY <1>1, DropOne
<1>2. ASSUME NEW q \in Places, NEW f \in Frame, ~Goes(k, q, f), D = Put(B, q, f)
      PROVE  (None(k, B) => None(k, D)) /\ (AtMostOne(k, B) => AtMostOne(k, D))
  BY <1>2, PutOne
<1>3. ASSUME NEW p \in Places, NEW q \in Places, NEW f \in Frame, B[p] # <<>>,
             Goes(k, q, f) => Goes(k, p, Head(B[p])), D = Put(Drop(B, p), q, f)
      PROVE  (None(k, B) => None(k, D)) /\ (AtMostOne(k, B) => AtMostOne(k, D))
  <2>1. Drop(B, p) \in [Places -> Seq(Frame)]
    BY <1>3, DropOne
  <2>2. None(k, B) => ~Goes(k, p, Head(B[p]))
    <3>1. Head(B[p]) = B[p][1] /\ 1 \in 1..Len(B[p])
      BY <1>3, TailAt
    <3> QED
      BY <3>1 DEF None
  <2> QED
    BY <1>3, <2>1, <2>2, DropOne, PutOne
<1>4. ASSUME NEW p \in Places, NEW q \in Places, NEW f \in Frame, ~Goes(k, q, f),
             D = Put(Empty(B, p), q, f)
      PROVE  (None(k, B) => None(k, D)) /\ (AtMostOne(k, B) => AtMostOne(k, D))
  BY <1>4, EmptyOne, PutOne
<1> QED
  BY <1>1, <1>2, <1>3, <1>4 DEF Carried

-----------------------------------------------------------------------------
(* What a step does to the boxes.                                          *)

(* The goroutines of timers that do not run out only take tokens.          *)
LEMMA CalmStep ==
  ASSUME TypeInv, Calm(regTimer), Calm(loginTimer), ~Bounds.expire, Next
  PROVE  /\ Calm(regTimer') /\ Calm(loginTimer')
         /\ DRegTimer \/ DLoginTimer => UNCHANGED <<dev, dQueue>>
<1> USE DEF TypeInv
<1>0. TimerOK(regTimer) /\ TimerOK(loginTimer)
  BY DEF TimersOK
<1>1. RegTimer => Calm(regTimer') /\ UNCHANGED <<dev, dQueue>>
  <2>1. ASSUME RegTimer
        PROVE  regTimer' \in TokenTaken(regTimer) /\ UNCHANGED <<dev, dQueue>>
    BY <1>0, <2>1 DEF RegTimer, Timeout, Calm
  <2> QED
    BY <1>0, <2>1, CalmKept
<1>2. LoginTimer => Calm(loginTimer') /\ UNCHANGED <<dev, dQueue>>
  <2>1. ASSUME LoginTimer
        PROVE  loginTimer' \in TokenTaken(loginTimer) /\ UNCHANGED <<dev, dQueue>>
    BY <1>0, <2>1 DEF LoginTimer, Timeout, Calm
  <2> QED
    BY <1>0, <2>1, CalmKept
<1>3. CASE DeviceStep
  <2>1. Calm(regTimer') /\ Calm(loginTimer')
    BY <1>0, <1>1, <1>2, <1>3, DeviceTimes, CalmKept
  <2> QED
    BY <1>1, <1>2, <2>1 DEF DRegTimer, DLoginTimer
<1>4. ASSUME NEW c \in Conns, GatewayStep(c) PROVE Calm(regTimer') /\ Calm(loginTimer')
  BY <1>4, GatewayKeeps
<1>5. DRegTimer \/ DLoginTimer => UNCHANGED <<dev, dQueue>>
  BY <1>1, <1>2 DEF DRegTimer, DLoginTimer
<1> QED
  BY <1>3, <1>4, <1>5, Sides

(* Who begins and who ends a registration and a login.                     *)
LEMMA DeviceWays ==
  ASSUME TypeInv, DeviceStep, DRegTimer \/ DLoginTimer => UNCHANGED <<dev, dQueue>>
  PROVE  /\ \/ dev'.registerStart = dev.registerStart /\ dev'.regReqTimes = dev.regReqTimes
            \/ DRegisterAck \/ DRegisterAckFails \/ \E e \in 0..MaxTime : DRegisterReq(e)
         /\ \/ dev'.login = dev.login
            \/ DLoginChallenge \/ DLoginChallengeFails \/ DLoginResponse \/ DLoginResponseFails
            \/ DLoginFailure \/ DLoginSuccess \/ DLoginSuccessFails
            \/ \E e \in 0..MaxTime : DLoginRequest(e)
         /\ \/ dev'.ThingStatus = dev.ThingStatus \/ dev'.ThingStatus # "ThingRegisteredLogined"
            \/ DLoginSuccess
<1> USE DEF TypeInv, Record, DevFields
<1>1. CASE UNCHANGED <<dev, dReader>> \/ DConnect \/ DBroken \/ DConnectAgain
  BY <1>1 DEF DConnect, DBroken, DConnectAgain
<1>2. CASE DRegisterReqRefused \/ DRegisterReqError \/ DKeyAges \/ DCheckAesKeyValidity
  BY <1>2 DEF DRegisterReqRefused, DRegisterReqError, DKeyAges, DCheckAesKeyValidity
<1>3. CASE \E e \in 0..MaxTime : DRegisterReqSendFails(e)
  BY <1>3 DEF DRegisterReqSendFails
<1>4. CASE \E e \in 0..MaxTime : DRegisterReq(e)
  BY <1>4 DEF DRegisterReq
<1>5. CASE \E e \in 0..MaxTime : DLoginRequest(e)
  <2>1. dev'.registerStart = dev.registerStart /\ dev'.regReqTimes = dev.regReqTimes
        /\ dev'.ThingStatus = dev.ThingStatus
    BY <1>5 DEF DLoginRequest
  <2> QED
    BY <1>5, <2>1
<1>6. CASE DRegisterAck \/ DRegisterAckFails
  <2>1. DRegisterAck => dev'.login = dev.login /\ dev'.ThingStatus # "ThingRegisteredLogined"
    BY DEF DRegisterAck
  <2>2. DRegisterAckFails => dev'.login = dev.login /\ dev'.ThingStatus = dev.ThingStatus
    BY DEF DRegisterAckFails
  <2> QED
    BY <1>6, <2>1, <2>2
<1>7. CASE DLoginChallenge \/ DLoginChallengeFails \/ DLoginResponse \/ DLoginResponseFails
           \/ DLoginFailure \/ DLoginSuccess \/ DLoginSuccessFails
  BY <1>7 DEF DLoginChallenge, DLoginChallengeFails, DLoginResponse, DLoginResponseFails,
     DLoginFailure, DLoginSuccess, DLoginSuccessFails
<1>8. CASE DRegTimer \/ DLoginTimer
  BY <1>8
<1> QED
  BY <1>1, <1>2, <1>3, <1>4, <1>5, <1>6, <1>7, <1>8, DeviceWrites

(* What a frame may be on its way for.                                     *)
LEMMA GoesAt ==
  ASSUME NEW k \in Kinds, NEW f
  PROVE  /\ \A c \in Conns : /\ Goes(k, ToGw(c), f) <=> Kind(f.ev) = k
                             /\ Goes(k, AtGw(c), f) <=> Kind(f.ev) = k
                             /\ Goes(k, ToDev(c), f) <=> Kind(f.ev) = k /\ f.ev \notin Asks
         /\ Goes(k, Inbox, f) <=> Kind(f.ev) = k /\ f.ev \notin Asks
  BY PlaceCases DEF Goes

LEMMA KindOf ==
  /\ \A ev \in {"RegisterReqEventMessage", "RegisterAckEventMessage"} : Kind(ev) = "registration"
  /\ \A ev \in {"EventLoginRequest", "EventLoginChallenge", "EventLoginResponse",
                "EventLoginSuccess", "EventLoginFailure"} : Kind(ev) = "login"
  /\ \A ev \in Local : Kind(ev) = "none"
  BY DEF Kind, Local

(* The device takes a frame from its inbox, and pushes or sends one.       *)
LEMMA HeldTwice ==
  ASSUME NEW B, NEW p, p \in DOMAIN B, NEW s, NEW r
  PROVE  Held(B, p, s)[p] = s /\ Held(Held(B, p, s), p, r) = Held(B, p, r)
  BY DEF Held

LEMMA DropPut ==
  ASSUME NEW B, NEW p, p \in DOMAIN B, NEW f
  PROVE  Put(Drop(B, p), p, f) = Held(B, p, Append(Tail(B[p]), f))
  BY HeldTwice DEF Put, Drop

(* The box of every place.                                                 *)
LEMMA AtPlaces ==
  ASSUME PipesOK
  PROVE  /\ DOMAIN c2g = Conns /\ DOMAIN gQueue = Conns /\ DOMAIN g2c = Conns
         /\ DOMAIN Boxes = Places /\ Inbox \in DOMAIN Boxes /\ Boxes[Inbox] = dQueue
         /\ \A c \in Conns : /\ Boxes[ToDev(c)] = g2c[c] /\ ToDev(c) \in DOMAIN Boxes
                             /\ Boxes[ToGw(c)] = c2g[c] /\ ToGw(c) \in DOMAIN Boxes
                             /\ Boxes[AtGw(c)] = gQueue[c] /\ AtGw(c) \in DOMAIN Boxes
  BY BoxAt, PlaceCases DEF Boxes, PipesOK

(* What another box at one place is.                                       *)
LEMMA OneBox ==
  ASSUME NEW p \in [Conns -> Seq(Frame)], NEW c, NEW s
  PROVE  /\ \A d \in Conns : [p EXCEPT ![c] = s][d] = IF d = c THEN s ELSE p[d]
         /\ c \notin Conns => [p EXCEPT ![c] = s] = p
  OBVIOUS

LEMMA InboxMoves ==
  ASSUME PipesOK, UNCHANGED <<gQueue, g2c>>, NEW f
  PROVE  /\ UNCHANGED c2g /\ dQueue' = Tail(dQueue) => Boxes' = Drop(Boxes, Inbox)
         /\ UNCHANGED c2g /\ dQueue' = Append(dQueue, f) => Boxes' = Put(Boxes, Inbox, f)
         /\ UNCHANGED c2g /\ dQueue' = Append(Tail(dQueue), f)
              => Boxes' = Put(Drop(Boxes, Inbox), Inbox, f)
         /\ dQueue' = Tail(dQueue) /\ Sent(c2g, dev.c, f)
              => \/ Boxes' = Drop(Boxes, Inbox)
                 \/ dev.c \in Conns /\ Boxes' = Put(Drop(Boxes, Inbox), ToGw(dev.c), f)
<1>1. ASSUME UNCHANGED c2g, NEW s, dQueue' = s
      PROVE  Boxes' = Held(Boxes, Inbox, s)
  <2>1. Boxes' = BoxesOf(c2g, gQueue, g2c, s)
    BY <1>1 DEF Boxes
  <2> QED
    BY <2>1, InboxSet DEF Boxes
<1>2. UNCHANGED c2g /\ dQueue' = Tail(dQueue) => Boxes' = Drop(Boxes, Inbox)
  BY <1>1, AtPlaces DEF Drop
<1>3. UNCHANGED c2g /\ dQueue' = Append(dQueue, f) => Boxes' = Put(Boxes, Inbox, f)
  BY <1>1, AtPlaces DEF Put
<1>4. ASSUME UNCHANGED c2g, dQueue' = Append(Tail(dQueue), f)
      PROVE  Boxes' = Put(Drop(Boxes, Inbox), Inbox, f)
  <2>1. Boxes' = Held(Boxes, Inbox, Append(Tail(dQueue), f))
    BY <1>1, <1>4
  <2> QED
    BY <2>1, AtPlaces, DropPut
<1>5. ASSUME dQueue' = Tail(dQueue), dev.c \in Conns, c2g' = [c2g EXCEPT ![dev.c] = Append(@, f)]
      PROVE  Boxes' = Put(Drop(Boxes, Inbox), ToGw(dev.c), f)
  <2> DEFINE s == Append(c2g[dev.c], f)
             D == BoxesOf(c2g, gQueue, g2c, Tail(dQueue))
  <2>1. Boxes' = BoxesOf(c2g', gQueue, g2c, Tail(dQueue)) /\ c2g' = [c2g EXCEPT ![dev.c] = s]
    BY <1>5 DEF Boxes
  <2>2. D = Drop(Boxes, Inbox)
    BY AtPlaces, InboxSet DEF Boxes, Drop
  <2>3. D[ToGw(dev.c)] = c2g[dev.c]
    BY <1>5, BoxAt
  <2>4. \A d \in Conns : c2g'[d] = IF d = dev.c THEN s ELSE c2g[d]
    BY <2>1, OneBox DEF PipesOK
  <2> HIDE DEF s
  <2>5. dev.c \in Conns
    BY <1>5
  <2>6. BoxesOf(c2g', gQueue, g2c, Tail(dQueue)) = Held(D, ToGw(dev.c), s)
    BY <2>4, <2>5, ToGwSet
  <2> HIDE DEF D
  <2> QED
    BY <2>1, <2>2, <2>3, <2>6 DEF Put, s
<1>6. ASSUME dQueue' = Tail(dQueue), Sent(c2g, dev.c, f)
      PROVE  \/ Boxes' = Drop(Boxes, Inbox)
             \/ dev.c \in Conns /\ Boxes' = Put(Drop(Boxes, Inbox), ToGw(dev.c), f)
  <2>1. UNCHANGED c2g \/ c2g' = [c2g EXCEPT ![dev.c] = Append(@, f)]
    BY <1>6 DEF Sent
  <2>2. dev.c \notin Conns /\ c2g' = [c2g EXCEPT ![dev.c] = Append(@, f)] => UNCHANGED c2g
    BY OneBox DEF PipesOK
  <2> QED
    BY <1>2, <1>5, <1>6, <2>1, <2>2
<1> QED
  BY <1>2, <1>3, <1>4, <1>6

(* Its reader, and the Thing's.                                            *)
LEMMA DReadMoves ==
  ASSUME PipesOK, NEW c \in Conns, NEW f, UNCHANGED <<c2g, gQueue>>,
         \A d \in Conns : g2c'[d] = IF d = c THEN Tail(g2c[c]) ELSE g2c[d]
  PROVE  /\ UNCHANGED dQueue => Boxes' = Drop(Boxes, ToDev(c))
         /\ dQueue' = Append(dQueue, f) => Boxes' = Put(Drop(Boxes, ToDev(c)), Inbox, f)
<1> DEFINE D == BoxesOf(c2g, gQueue, g2c', dQueue)
<1>1. D = Held(Boxes, ToDev(c), Tail(g2c[c]))
  BY ToDevSet DEF Boxes
<1>2. D = Drop(Boxes, ToDev(c)) /\ D[Inbox] = dQueue
  BY <1>1, AtPlaces, BoxAt DEF Drop
<1>3. UNCHANGED dQueue => Boxes' = D
  BY DEF Boxes
<1>4. ASSUME dQueue' = Append(dQueue, f) PROVE Boxes' = Held(D, Inbox, dQueue')
  <2>1. Boxes' = BoxesOf(c2g, gQueue, g2c', dQueue')
    BY DEF Boxes
  <2> QED
    BY <2>1, InboxSet
<1> HIDE DEF D
<1> QED
  BY <1>2, <1>3, <1>4 DEF Put

LEMMA GReadMoves ==
  ASSUME PipesOK, NEW c \in Conns, NEW f, NEW s, UNCHANGED <<g2c, dQueue>>,
         \A d \in Conns : c2g'[d] = IF d = c THEN s ELSE c2g[d]
  PROVE  /\ UNCHANGED gQueue => Boxes' = Held(Boxes, ToGw(c), s)
         /\ gQueue' = [gQueue EXCEPT ![c] = Append(@, f)]
              => Boxes' = Put(Held(Boxes, ToGw(c), s), AtGw(c), f)
<1> DEFINE D == BoxesOf(c2g', gQueue, g2c, dQueue)
<1>1. D = Held(Boxes, ToGw(c), s)
  BY ToGwSet DEF Boxes
<1>2. D[AtGw(c)] = gQueue[c]
  BY BoxAt
<1>3. UNCHANGED gQueue => Boxes' = D
  BY DEF Boxes
<1>4. ASSUME gQueue' = [gQueue EXCEPT ![c] = Append(@, f)]
      PROVE  Boxes' = Held(D, AtGw(c), Append(gQueue[c], f))
  <2> DEFINE r == Append(gQueue[c], f)
  <2>1. Boxes' = BoxesOf(c2g', gQueue', g2c, dQueue) /\ gQueue' = [gQueue EXCEPT ![c] = r]
    BY <1>4 DEF Boxes
  <2>2. \A d \in Conns : gQueue'[d] = IF d = c THEN r ELSE gQueue[d]
    BY <2>1, AtPlaces
  <2> HIDE DEF r
  <2>3. BoxesOf(c2g', gQueue', g2c, dQueue) = Held(D, AtGw(c), r)
    BY <2>2, AtGwSet
  <2> QED
    BY <2>1, <2>3 DEF r
<1> HIDE DEF D
<1> QED
  BY <1>1, <1>2, <1>3, <1>4 DEF Put

(* The Thing takes an event from its channel, and pushes or sends one.     *)
LEMMA ThingMoves ==
  ASSUME PipesOK, NEW c \in Conns, NEW f, UNCHANGED <<c2g, dQueue>>
  PROVE  /\ UNCHANGED g2c /\ GDone(c) => Boxes' = Drop(Boxes, AtGw(c))
         /\ UNCHANGED g2c /\ GThen(c, f) => Boxes' = Put(Drop(Boxes, AtGw(c)), AtGw(c), f)
         /\ Sent(g2c, c, f) /\ GDone(c)
              => \/ Boxes' = Drop(Boxes, AtGw(c))
                 \/ conn[c] = "up" /\ Boxes' = Put(Drop(Boxes, AtGw(c)), ToDev(c), f)
<1>1. ASSUME NEW s, gQueue' = [gQueue EXCEPT ![c] = s]
      PROVE  BoxesOf(c2g, gQueue', g2c, dQueue) = Held(Boxes, AtGw(c), s)
  <2>1. \A d \in Conns : gQueue'[d] = IF d = c THEN s ELSE gQueue[d]
    BY <1>1, AtPlaces
  <2> QED
    BY <2>1, AtGwSet DEF Boxes
<1>2. UNCHANGED g2c => Boxes' = BoxesOf(c2g, gQueue', g2c, dQueue)
  BY DEF Boxes
<1>3. GDone(c) => BoxesOf(c2g, gQueue', g2c, dQueue) = Drop(Boxes, AtGw(c))
  <2>1. GDone(c) => gQueue' = [gQueue EXCEPT ![c] = Tail(Boxes[AtGw(c)])]
    BY AtPlaces DEF GDone
  <2> QED
    BY <1>1, <2>1 DEF Drop
<1>4. GThen(c, f) => BoxesOf(c2g, gQueue', g2c, dQueue) = Put(Drop(Boxes, AtGw(c)), AtGw(c), f)
  <2> DEFINE s == Append(Tail(Boxes[AtGw(c)]), f)
  <2>1. GThen(c, f) => gQueue' = [gQueue EXCEPT ![c] = s]
    BY AtPlaces DEF GThen
  <2>2. Put(Drop(Boxes, AtGw(c)), AtGw(c), f) = Held(Boxes, AtGw(c), s)
    BY AtPlaces, DropPut
  <2> HIDE DEF s
  <2> QED
    BY <1>1, <2>1, <2>2
<1>5. ASSUME g2c' = [g2c EXCEPT ![c] = Append(@, f)], GDone(c)
      PROVE  Boxes' = Put(Drop(Boxes, AtGw(c)), ToDev(c), f)
  <2> DEFINE s == Append(g2c[c], f)
             D == BoxesOf(c2g, gQueue', g2c, dQueue)
  <2>1. D[ToDev(c)] = g2c[c]
    BY BoxAt
  <2>2. Boxes' = BoxesOf(c2g, gQueue', g2c', dQueue) /\ g2c' = [g2c EXCEPT ![c] = s]
    BY <1>5 DEF Boxes
  <2>3. \A d \in Conns : g2c'[d] = IF d = c THEN s ELSE g2c[d]
    BY <2>2, AtPlaces
  <2> HIDE DEF s
  <2>4. BoxesOf(c2g, gQueue', g2c', dQueue) = Held(D, ToDev(c), s)
    BY <2>3, ToDevSet
  <2>5. D = Drop(Boxes, AtGw(c))
    BY <1>3, <1>5
  <2> HIDE DEF D
  <2> QED
    BY <2>1, <2>2, <2>4, <2>5 DEF Put, s
<1>6. ASSUME Sent(g2c, c, f), GDone(c)
      PROVE  \/ Boxes' = Drop(Boxes, AtGw(c))
             \/ conn[c] = "up" /\ Boxes' = Put(Drop(Boxes, AtGw(c)), ToDev(c), f)
  BY <1>2, <1>3, <1>5, <1>6 DEF Sent
<1> QED
  BY <1>2, <1>3, <1>4, <1>6

(* A device that sends no request carries on what is under way.            *)
LEMMA DeviceMail ==
  ASSUME TypeInv, DeviceStep
  PROVE  Carried(Boxes, Boxes') \/ \E e \in 0..MaxTime : DRegisterReq(e) \/ DLoginRequest(e)
<1> USE DEF TypeInv
<1>0. UNCHANGED gQueue /\ dQueue \in Seq(Frame) /\ Boxes[Inbox] = dQueue /\ Inbox \in Places
  BY DeviceKeeps, AtPlaces, PlaceCases DEF PipesOK
<1>1. CASE DRead
  <2> DEFINE c == dev.c
             f == Head(g2c[c])
  <2>1. /\ c \in Conns /\ g2c[c] # <<>> /\ UNCHANGED c2g /\ g2c' = [g2c EXCEPT ![c] = Tail(@)]
        /\ dQueue' \in {dQueue, Append(dQueue, f)}
    BY <1>1 DEF DRead, DevTyped, Push
  <2>2. /\ \A d \in Conns : g2c'[d] = IF d = c THEN Tail(g2c[c]) ELSE g2c[d]
        /\ Boxes[ToDev(c)] = g2c[c] /\ ToDev(c) \in Places
    BY <2>1, AtPlaces, PlaceCases
  <2>3. f \in Frame
    BY <2>1, HeadTyped DEF PipesOK
  <2> HIDE DEF f, c
  <2>4. \/ Boxes' = Drop(Boxes, ToDev(c))
        \/ Boxes' = Put(Drop(Boxes, ToDev(c)), Inbox, f)
    BY <1>0, <2>1, <2>2, DReadMoves
  <2>5. \A k \in Kinds : Goes(k, Inbox, f) <=> Goes(k, ToDev(c), f)
    BY <2>1, GoesAt
  <2>6. f = Head(Boxes[ToDev(c)]) /\ Boxes[ToDev(c)] # <<>>
    BY <2>1, <2>2 DEF f
  <2> QED
    BY <1>0, <2>2, <2>3, <2>4, <2>5, <2>6 DEF Carried
<1>2. CASE DLoginChallenge \/ DLoginResponse
  <2> DEFINE f == [m EXCEPT !.ev = "EventLoginResponse"]
             g == Msg("EventLoginResponse", m, dev.key, dev.key, TRUE)
  <2>1. /\ dQueue # <<>> /\ m = Head(dQueue) /\ UNCHANGED g2c
        /\ m.ev \in {"EventLoginChallenge", "EventLoginResponse"}
        /\ \/ UNCHANGED c2g /\ dQueue' = Append(Tail(dQueue), f)
           \/ Sent(c2g, dev.c, g) /\ dQueue' = Tail(dQueue)
    BY <1>2 DEF DLoginChallenge, DLoginResponse, LoginFits, On, Then, Done, connVars, m
  <2>2. m \in Frame /\ dev.key \in Keys
    BY <1>0, <2>1, HeadTyped DEF DevTyped
  <2>3. f \in Frame /\ f.ev = "EventLoginResponse" /\ g \in Frame /\ g.ev = "EventLoginResponse"
    BY <2>2, RenamedFrame, MsgFrame DEF Wire, Msg
  <2>4. /\ \A k \in Kinds : Goes(k, Inbox, f) => Goes(k, Inbox, Head(Boxes[Inbox]))
        /\ dev.c \in Conns =>
            \A k \in Kinds : Goes(k, ToGw(dev.c), g) => Goes(k, Inbox, Head(Boxes[Inbox]))
    <3> HIDE DEF f, g
    <3>1. Kind(m.ev) = "login" /\ m.ev \notin Asks /\ Head(Boxes[Inbox]) = m
      BY <1>0, <2>1, KindOf DEF Asks
    <3>2. Kind(f.ev) = "login" /\ Kind(g.ev) = "login"
      BY <2>3, KindOf
    <3> QED
      BY <3>1, <3>2, GoesAt
  <2> HIDE DEF f, g
  <2>5. \/ Boxes' = Put(Drop(Boxes, Inbox), Inbox, f)
        \/ Boxes' = Drop(Boxes, Inbox)
        \/ dev.c \in Conns /\ Boxes' = Put(Drop(Boxes, Inbox), ToGw(dev.c), g)
    BY <1>0, <2>1, InboxMoves
  <2>6. dev.c \in Conns => ToGw(dev.c) \in Places
    BY PlaceCases
  <2> QED
    BY <1>0, <2>1, <2>3, <2>4, <2>5, <2>6 DEF Carried
<1>3. CASE ~DRead /\ ~DLoginChallenge /\ ~DLoginResponse
           /\ ~\E e \in 0..MaxTime : DRegisterReq(e) \/ DLoginRequest(e)
  <2>1. UNCHANGED <<c2g, g2c>>
    BY <1>3, DevicePipes
  <2>2. ASSUME NEW ev \in {"EventCheckThingStatus", "EventConnectServer", "RegisterReqEventMessage",
                           "EventLoginRequest"}
        PROVE  Event(ev) \in Frame /\ \A k \in Kinds : ~Goes(k, Inbox, Event(ev))
    <3>1. Event(ev) \in Frame /\ Event(ev).ev = ev
      BY <2>2, EventFrame DEF Wire, Local
    <3>2. ev \in Asks \/ Kind(ev) = "none"
      BY <2>2, KindOf DEF Asks, Local
    <3> QED
      BY <3>1, <3>2, GoesAt DEF Kinds
  <2>3. UNCHANGED dQueue => Boxes' = Boxes
    BY <1>0, <2>1 DEF Boxes
  <2>4. dQueue' = Tail(dQueue) => Boxes' = Drop(Boxes, Inbox)
    BY <1>0, <2>1, InboxMoves
  <2>5. ASSUME NEW ev \in {"EventCheckThingStatus", "EventConnectServer", "RegisterReqEventMessage",
                           "EventLoginRequest"},
               \/ dQueue' = Append(dQueue, Event(ev))
               \/ dQueue # <<>> /\ dQueue' = Append(Tail(dQueue), Event(ev))
        PROVE  Carried(Boxes, Boxes')
    <3> DEFINE f == Event(ev)
    <3>1. f \in Frame /\ \A k \in Kinds : ~Goes(k, Inbox, f)
      BY <2>2
    <3>2. \/ dQueue' = Append(dQueue, f)
          \/ dQueue # <<>> /\ dQueue' = Append(Tail(dQueue), f)
      BY <2>5
    <3> HIDE DEF f
    <3>3. \/ Boxes' = Put(Boxes, Inbox, f)
          \/ dQueue # <<>> /\ Boxes' = Put(Drop(Boxes, Inbox), Inbox, f)
      BY <1>0, <2>1, <3>2, InboxMoves
    <3> QED
      BY <1>0, <3>1, <3>3 DEF Carried
  <2>6. Boxes' = Boxes \/ (dQueue # <<>> /\ Boxes' = Drop(Boxes, Inbox)) => Carried(Boxes, Boxes')
    BY <1>0 DEF Carried
  <2> QED
    BY <1>3, <2>3, <2>4, <2>5, <2>6, DevicePushes
<1> QED
  BY <1>1, <1>2, <1>3

(* A request takes the place of the event that asked for it.               *)
LEMMA RequestMail ==
  ASSUME TypeInv, NEW e \in 0..MaxTime, DRegisterReq(e) \/ DLoginRequest(e)
  PROVE  \E f \in Frame :
           /\ DRegisterReq(e) => Kind(f.ev) = "registration"
           /\ DLoginRequest(e) => Kind(f.ev) = "login"
           /\ dQueue # <<>> /\ Head(dQueue).ev \in Asks
           /\ \/ Boxes' = Drop(Boxes, Inbox)
              \/ dev.c \in Conns /\ Boxes' = Put(Drop(Boxes, Inbox), ToGw(dev.c), f)
<1> DEFINE f == [Event("RegisterReqEventMessage") EXCEPT !.ect = e, !.rnd = tries + 1]
           g == [ev |-> "EventLoginRequest", ect |-> e, rnd |-> tries + 1,
                 enc |-> dev.key, key |-> NoKey, ok |-> TRUE]
<1>1. tries + 1 \in 0..MaxTries /\ dev.key \in Keys
  BY Within, BoundsOK DEF DRegisterReq, DLoginRequest, CountsOK, DevTyped, TypeInv
<1>2. f \in Frame /\ f.ev = "RegisterReqEventMessage"
  <2>1. Event("RegisterReqEventMessage") \in Frame
    BY EventFrame DEF Wire
  <2> QED
    BY <1>1, <2>1, StampedFrame DEF Event
<1>3. g \in Frame /\ g.ev = "EventLoginRequest"
  BY <1>1, KeyTypes DEF Frame, Wire
<1>4. CASE DRegisterReq(e)
  <2>1. /\ dQueue # <<>> /\ Head(dQueue).ev = "RegisterReqEventMessage" /\ UNCHANGED <<g2c, gQueue>>
        /\ dQueue' = Tail(dQueue) /\ Sent(c2g, dev.c, f)
    BY <1>4 DEF DRegisterReq, On, m, Done, gwVars
  <2>2. Kind(f.ev) = "registration" /\ Head(dQueue).ev \in Asks
    BY <1>2, <2>1, KindOf DEF Asks
  <2>3. ~DLoginRequest(e)
    BY <2>1 DEF DLoginRequest, On, m
  <2> HIDE DEF f
  <2>4. \/ Boxes' = Drop(Boxes, Inbox)
        \/ dev.c \in Conns /\ Boxes' = Put(Drop(Boxes, Inbox), ToGw(dev.c), f)
    BY <2>1, InboxMoves DEF TypeInv
  <2> QED
    BY <1>2, <2>1, <2>2, <2>3, <2>4
<1>5. CASE DLoginRequest(e)
  <2>1. /\ dQueue # <<>> /\ Head(dQueue).ev = "EventLoginRequest" /\ UNCHANGED <<g2c, gQueue>>
        /\ dQueue' = Tail(dQueue) /\ Sent(c2g, dev.c, g)
    BY <1>5 DEF DLoginRequest, On, m, Done, gwVars
  <2>2. Kind(g.ev) = "login" /\ Head(dQueue).ev \in Asks
    BY <1>3, <2>1, KindOf DEF Asks
  <2>3. ~DRegisterReq(e)
    BY <2>1 DEF DRegisterReq, On, m
  <2> HIDE DEF g
  <2>4. \/ Boxes' = Drop(Boxes, Inbox)
        \/ dev.c \in Conns /\ Boxes' = Put(Drop(Boxes, Inbox), ToGw(dev.c), g)
    BY <2>1, InboxMoves DEF TypeInv
  <2> QED
    BY <1>3, <2>1, <2>2, <2>3, <2>4
<1> QED
  BY <1>4, <1>5

(* What the Thing does to its channel and its pipes.                       *)
LEMMA GatewayMoves ==
  ASSUME TypeInv, HeadInv, NEW c \in Conns, GatewayStep(c)
  PROVE  \/ UNCHANGED <<c2g, g2c, gQueue>>
         \/ GRead(c) \/ GReadBreak(c)
         \/ /\ gQueue[c] # <<>> /\ UNCHANGED <<c2g, g2c>>
            /\ \/ GDone(c)
               \/ \E ev \in Wire : /\ GThen(c, [Head(gQueue[c]) EXCEPT !.ev = ev])
                                   /\ Kind(ev) = Kind(Head(gQueue[c]).ev)
         \/ /\ gQueue[c] # <<>> /\ UNCHANGED c2g /\ GDone(c)
            /\ \E f \in Frame : /\ Sent(g2c, c, f) /\ f.ev \in FromGateway
                                /\ Kind(f.ev) = Kind(Head(gQueue[c]).ev)
<1> DEFINE h == Head(gQueue[c])
<1>1. ASSUME GRegisterReq(c) \/ GLoginRequest(c) \/ GLoginResponse(c)
      PROVE  /\ gQueue[c] # <<>> /\ UNCHANGED <<c2g, g2c>>
             /\ \E ev \in Wire : /\ GThen(c, [h EXCEPT !.ev = ev])
                                 /\ Kind(ev) = Kind(h.ev)
  <2>1. CASE GRegisterReq(c)
    <3>1. Kind("RegisterAckEventMessage") = Kind(h.ev)
      BY <2>1, KindOf DEF GRegisterReq, GOn
    <3> QED
      BY <2>1, <3>1 DEF GRegisterReq, GOn, connVars, Wire
  <2>2. CASE GLoginRequest(c)
    <3>1. Kind("EventLoginChallenge") = Kind(h.ev)
      BY <2>2, KindOf DEF GLoginRequest, GOn
    <3> QED
      BY <2>2, <3>1 DEF GLoginRequest, GOn, connVars, Wire
  <2>3. CASE GLoginResponse(c)
    <3>1. Kind("EventLoginSuccess") = Kind(h.ev) /\ Kind("EventLoginFailure") = Kind(h.ev)
      BY <2>3, KindOf DEF GLoginResponse, ResponseFits, GOn
    <3>2. \E ev \in {"EventLoginSuccess", "EventLoginFailure"} : GThen(c, [h EXCEPT !.ev = ev])
      BY <2>3 DEF GLoginResponse
    <3>3. gQueue[c] # <<>> /\ UNCHANGED <<c2g, g2c>>
      BY <2>3 DEF GLoginResponse, ResponseFits, GOn, connVars
    <3> QED
      BY <3>1, <3>2, <3>3 DEF Wire
  <2> QED
    BY <1>1, <2>1, <2>2, <2>3
<1>2. ASSUME ~GRead(c), ~GReadBreak(c), ~GRegisterReq(c), ~GLoginRequest(c), ~GLoginResponse(c)
      PROVE  \/ UNCHANGED <<c2g, g2c, gQueue>>
             \/ gQueue[c] # <<>> /\ UNCHANGED c2g /\ GDone(c)
  <2>1. UNCHANGED c2g
    BY <1>2, GatewayPipes
  <2>2. CASE GClosed(c) \/ GRegisterAck(c) \/ GRegisterAckFails(c) \/ GLoginRefused(c)
             \/ GLoginRequestError(c) \/ GLoginChallenge(c) \/ GLoginChallengeFails(c)
             \/ GLoginResponseFails(c) \/ GLoginFailure(c)
    BY <2>1, <2>2 DEF GClosed, GRegisterAck, GRegisterAckFails, GLoginRefused, GLoginRequestError,
       GLoginChallenge, GLoginChallengeFails, GLoginResponseFails, GLoginFailure, GOn, ResponseFits
  <2>3. CASE GLoginSuccessSent(c) \/ GLoginSuccessFails(c)
    BY <2>1, <2>3 DEF GLoginSuccessSent, GLoginSuccessFails, Saving, HeadInv
  <2>4. CASE GLoginSuccess(c) \/ GTimer(c) \/ Break(c)
    BY <2>4 DEF GLoginSuccess, GTimer, Break, connVars, gwVars
  <2> QED
    BY <1>2, <2>2, <2>3, <2>4 DEF GatewayStep, GatewayEvent, GatewayReader
<1>3. ASSUME ~UNCHANGED g2c
      PROVE  \E f \in Frame : Sent(g2c, c, f) /\ f.ev \in FromGateway /\ Kind(f.ev) = Kind(h.ev)
  <2>1. /\ GRegisterAck(c) \/ GRegisterAckFails(c) => h.ev = "RegisterAckEventMessage"
        /\ GLoginChallenge(c) => h.ev = "EventLoginChallenge"
        /\ GLoginFailure(c) => h.ev = "EventLoginFailure"
    BY DEF GRegisterAck, GRegisterAckFails, GLoginChallenge, GLoginFailure, GOn
  <2>2. GLoginSuccessSent(c) => h.ev = "EventLoginSuccess"
    <3>1. gQueue[c] \in Seq(Frame)
      BY DEF TypeInv, PipesOK
    <3> QED
      BY <3>1, TailAt DEF GLoginSuccessSent, Saving, HeadInv
  <2>3. /\ Msg("RegisterAckEventMessage", h, NoKey, NewKey, TRUE).ev = "RegisterAckEventMessage"
        /\ LoginSuccessFrame(c).ev = "EventLoginSuccess"
    BY DEF Msg, LoginSuccessFrame
  <2>4. PICK f \in Frame :
           /\ Sent(g2c, c, f)
           /\ \/ GLoginChallenge(c) /\ f.ev = "EventLoginChallenge"
              \/ GLoginFailure(c) /\ f.ev = "EventLoginFailure"
              \/ GRegisterAckFails(c) /\ f.ev = "RegisterAckEventMessage" /\ ~f.ok
              \/ /\ GRegisterAck(c)
                 /\ f = Msg("RegisterAckEventMessage", h, NoKey, NewKey, TRUE)
              \/ GLoginSuccessSent(c) /\ f = LoginSuccessFrame(c)
    BY <1>3, SentToDevice
  <2>5. f.ev = h.ev /\ f.ev \in FromGateway
    BY <2>1, <2>2, <2>3, <2>4 DEF FromGateway
  <2> QED
    BY <2>4, <2>5
<1>4. CASE GRead(c) \/ GReadBreak(c)
  BY <1>4
<1> HIDE DEF h
<1> QED
  BY <1>1, <1>2, <1>3, <1>4 DEF h

(* The Thing carries on what is under way, too.                            *)
LEMMA GatewayMail ==
  ASSUME TypeInv, HeadInv, NEW c \in Conns, GatewayStep(c)
  PROVE  Carried(Boxes, Boxes')
<1> USE DEF TypeInv
<1> DEFINE h == Head(gQueue[c])
<1>0. /\ UNCHANGED dQueue /\ gQueue[c] \in Seq(Frame) /\ c2g[c] \in Seq(Frame)
      /\ Boxes[AtGw(c)] = gQueue[c] /\ Boxes[ToGw(c)] = c2g[c]
      /\ AtGw(c) \in Places /\ ToGw(c) \in Places /\ ToDev(c) \in Places
  BY GatewayKeeps, AtPlaces, PlaceCases DEF PipesOK
<1>1. CASE GRead(c)
  <2> DEFINE f == Head(c2g[c])
  <2>1. /\ c2g[c] # <<>> /\ UNCHANGED g2c /\ c2g' = [c2g EXCEPT ![c] = Tail(@)]
        /\ \/ UNCHANGED gQueue
           \/ gQueue' = [gQueue EXCEPT ![c] = Append(@, f)]
    BY <1>1 DEF GRead
  <2>2. /\ \A d \in Conns : c2g'[d] = IF d = c THEN Tail(c2g[c]) ELSE c2g[d]
    BY <2>1, AtPlaces
  <2>3. f \in Frame /\ f = Head(Boxes[ToGw(c)])
    BY <1>0, <2>1, HeadTyped
  <2> HIDE DEF f
  <2>4. \/ Boxes' = Drop(Boxes, ToGw(c))
        \/ Boxes' = Put(Drop(Boxes, ToGw(c)), AtGw(c), f)
    BY <1>0, <2>1, <2>2, GReadMoves DEF Drop
  <2>5. \A k \in Kinds : Goes(k, AtGw(c), f) <=> Goes(k, ToGw(c), f)
    BY GoesAt
  <2> QED
    BY <1>0, <2>1, <2>3, <2>4, <2>5 DEF Carried
<1>2. CASE GReadBreak(c)
  <2> DEFINE f == Event("EventConnectionClosed")
  <2>1. /\ UNCHANGED g2c /\ c2g' = [c2g EXCEPT ![c] = <<>>]
        /\ gQueue' = [gQueue EXCEPT ![c] = Append(@, f)]
    BY <1>2 DEF GReadBreak
  <2>2. /\ \A d \in Conns : c2g'[d] = IF d = c THEN <<>> ELSE c2g[d]
    BY <2>1, AtPlaces
  <2>3. f \in Frame /\ Kind(f.ev) = "none"
    BY EventFrame, KindOf DEF Local
  <2> HIDE DEF f
  <2>4. Boxes' = Put(Empty(Boxes, ToGw(c)), AtGw(c), f)
    BY <1>0, <2>1, <2>2, GReadMoves DEF Empty
  <2>5. \A k \in Kinds : ~Goes(k, AtGw(c), f)
    BY <2>3, GoesAt DEF Kinds
  <2> QED
    BY <1>0, <2>3, <2>4, <2>5 DEF Carried
<1>3. ASSUME gQueue[c] # <<>>, UNCHANGED <<c2g, g2c>>, GDone(c)
      PROVE  Carried(Boxes, Boxes')
  BY <1>0, <1>3, ThingMoves DEF Carried
<1>4. ASSUME gQueue[c] # <<>>, UNCHANGED <<c2g, g2c>>, NEW ev \in Wire,
             GThen(c, [h EXCEPT !.ev = ev]), Kind(ev) = Kind(h.ev)
      PROVE  Carried(Boxes, Boxes')
  <2> DEFINE f == [h EXCEPT !.ev = ev]
  <2>1. f \in Frame /\ f.ev = ev
    BY <1>0, <1>4, HeadTyped, RenamedFrame
  <2>2. GThen(c, f) /\ h = Head(Boxes[AtGw(c)])
    BY <1>0, <1>4
  <2> HIDE DEF f, h
  <2>3. \A k \in Kinds : Goes(k, AtGw(c), f) => Goes(k, AtGw(c), h)
    BY <1>4, <2>1, GoesAt
  <2>4. Boxes' = Put(Drop(Boxes, AtGw(c)), AtGw(c), f)
    BY <1>0, <1>4, <2>2, ThingMoves
  <2> QED
    BY <1>0, <1>4, <2>1, <2>2, <2>3, <2>4 DEF Carried
<1>5. ASSUME gQueue[c] # <<>>, UNCHANGED c2g, GDone(c), NEW f \in Frame, Sent(g2c, c, f),
             Kind(f.ev) = Kind(h.ev)
      PROVE  Carried(Boxes, Boxes')
  <2>1. h = Head(Boxes[AtGw(c)])
    BY <1>0
  <2> HIDE DEF h
  <2>2. \A k \in Kinds : Goes(k, ToDev(c), f) => Goes(k, AtGw(c), h)
    BY <1>5, GoesAt
  <2>3. \/ Boxes' = Drop(Boxes, AtGw(c))
        \/ Boxes' = Put(Drop(Boxes, AtGw(c)), ToDev(c), f)
    BY <1>0, <1>5, ThingMoves
  <2> QED
    BY <1>0, <1>5, <2>1, <2>2, <2>3 DEF Carried
<1>6. UNCHANGED <<c2g, g2c, gQueue>> => Boxes' = Boxes
  BY <1>0 DEF Boxes
<1> QED
  BY <1>1, <1>2, <1>3, <1>4, <1>5, <1>6, GatewayMoves DEF Carried

-----------------------------------------------------------------------------
(* One registration and one login at a time.                               *)

(* What was taken was the one frame, and nothing of its kind takes its     *)
(* place.                                                                  *)
LEMMA TakenOut ==
  ASSUME NEW k \in Kinds, NEW B \in [Places -> Seq(Frame)], NEW p \in Places, B[p] # <<>>,
         AtMostOne(k, B), Goes(k, p, Head(B[p])), NEW q \in Places, NEW f \in Frame,
         ~Goes(k, q, f), NEW D, D = Drop(B, p) \/ D = Put(Drop(B, p), q, f)
  PROVE  None(k, D)
<1>1. Drop(B, p) \in [Places -> Seq(Frame)] /\ None(k, Drop(B, p))
  BY DropOne
<1> QED
  BY <1>1, PutOne

(* A handler that ends a registration or a login takes its last frame.     *)
LEMMA EndMail ==
  ASSUME TypeInv, DeviceStep, AtMostOne("registration", Boxes), AtMostOne("login", Boxes)
  PROVE  /\ DRegisterAck \/ DRegisterAckFails => None("registration", Boxes')
         /\ DLoginChallengeFails \/ DLoginResponseFails \/ DLoginFailure \/ DLoginSuccess
              \/ DLoginSuccessFails => None("login", Boxes')
<1> USE DEF TypeInv
<1>0. /\ UNCHANGED gQueue /\ dQueue \in Seq(Frame) /\ Boxes[Inbox] = dQueue /\ Inbox \in Places
      /\ Boxes \in [Places -> Seq(Frame)] /\ "registration" \in Kinds /\ "login" \in Kinds
  BY DeviceKeeps, AtPlaces, PlaceCases, BoxesTyped DEF PipesOK, Kinds
<1>1. ASSUME NEW ev \in {"RegisterReqEventMessage", "EventLoginRequest"}
      PROVE  Event(ev) \in Frame /\ \A k \in Kinds : ~Goes(k, Inbox, Event(ev))
  <2>1. Event(ev) \in Frame /\ Event(ev).ev = ev /\ ev \in Asks
    BY <1>1, EventFrame DEF Wire, Asks
  <2> QED
    BY <2>1, GoesAt
<1>2. ASSUME UNCHANGED <<c2g, g2c>>, dQueue # <<>>, NEW k \in Kinds, Kind(m.ev) = k, m.ev \notin Asks,
             AtMostOne(k, Boxes),
             NEW f \in Frame, ~Goes(k, Inbox, f), dQueue' \in {Tail(dQueue), Append(Tail(dQueue), f)}
      PROVE  None(k, Boxes')
  <2>1. Goes(k, Inbox, Head(Boxes[Inbox]))
    BY <1>0, <1>2, GoesAt DEF m
  <2>2. Boxes' = Drop(Boxes, Inbox) \/ Boxes' = Put(Drop(Boxes, Inbox), Inbox, f)
    BY <1>0, <1>2, InboxMoves
  <2> QED
    BY <1>0, <1>2, <2>1, <2>2, TakenOut
<1>3. CASE DRegisterAck \/ DRegisterAckFails
  <2> DEFINE f == Event("EventLoginRequest")
  <2>1. /\ UNCHANGED <<c2g, g2c>> /\ dQueue # <<>> /\ m.ev = "RegisterAckEventMessage"
        /\ dQueue' \in {Tail(dQueue), Append(Tail(dQueue), f)}
    BY <1>3 DEF DRegisterAck, DRegisterAckFails, On, Then, Done, connVars
  <2>2. ~DLoginChallengeFails /\ ~DLoginResponseFails /\ ~DLoginFailure /\ ~DLoginSuccess
        /\ ~DLoginSuccessFails
    BY <2>1 DEF DLoginChallengeFails, DLoginResponseFails, DLoginFailure, DLoginSuccess,
       DLoginSuccessFails, LoginFits, On
  <2>3. Kind(m.ev) = "registration" /\ m.ev \notin Asks
    BY <2>1, KindOf DEF Asks
  <2> QED
    BY <1>0, <1>1, <1>2, <2>1, <2>2, <2>3
<1>4. CASE DLoginChallengeFails \/ DLoginResponseFails \/ DLoginFailure \/ DLoginSuccess
           \/ DLoginSuccessFails
  <2>1. /\ UNCHANGED <<c2g, g2c>> /\ dQueue # <<>>
        /\ m.ev \in {"EventLoginChallenge", "EventLoginResponse", "EventLoginFailure",
                     "EventLoginSuccess"}
    BY <1>4 DEF DLoginChallengeFails, DLoginResponseFails, DLoginFailure, DLoginSuccess,
       DLoginSuccessFails, LoginFits, On, connVars
  <2>2. \E ev \in {"RegisterReqEventMessage", "EventLoginRequest"} :
          dQueue' \in {Tail(dQueue), Append(Tail(dQueue), Event(ev))}
    <3>1. DLoginChallengeFails => dQueue' = Append(Tail(dQueue), Event("RegisterReqEventMessage"))
      BY DEF DLoginChallengeFails, Then
    <3>2. DLoginResponseFails \/ DLoginSuccess => dQueue' = Tail(dQueue)
      BY DEF DLoginResponseFails, DLoginSuccess, Done
    <3>3. DLoginSuccessFails => dQueue' = Append(Tail(dQueue), Event("EventLoginRequest"))
      BY DEF DLoginSuccessFails, Then
    <3>4. DLoginFailure => \E ev \in {"RegisterReqEventMessage", "EventLoginRequest"} :
                             dQueue' = Append(Tail(dQueue), Event(ev))
      BY DEF DLoginFailure, Then
    <3> QED
      BY <1>4, <3>1, <3>2, <3>3, <3>4
  <2>3. ~DRegisterAck /\ ~DRegisterAckFails
    BY <2>1 DEF DRegisterAck, DRegisterAckFails, On
  <2>4. Kind(m.ev) = "login" /\ m.ev \notin Asks
    BY <2>1, KindOf DEF Asks
  <2> QED
    BY <1>0, <1>1, <1>2, <2>1, <2>2, <2>3, <2>4
<1> QED
  BY <1>3, <1>4

(* A request is made when none is under way, and is the only one.          *)
LEMMA RequestOne ==
  ASSUME TypeInv, NEW e \in 0..MaxTime, DRegisterReq(e) \/ DLoginRequest(e),
         AtMostOne("registration", Boxes), AtMostOne("login", Boxes),
         DRegisterReq(e) => None("registration", Boxes), DLoginRequest(e) => None("login", Boxes)
  PROVE  /\ AtMostOne("registration", Boxes') /\ AtMostOne("login", Boxes')
         /\ None("registration", Boxes) /\ ~DRegisterReq(e) => None("registration", Boxes')
         /\ None("login", Boxes) /\ ~DLoginRequest(e) => None("login", Boxes')
<1> DEFINE D == Drop(Boxes, Inbox)
<1>1. PICK f \in Frame :
        /\ DRegisterReq(e) => Kind(f.ev) = "registration"
        /\ DLoginRequest(e) => Kind(f.ev) = "login"
        /\ dQueue # <<>>
        /\ Boxes' = D \/ (dev.c \in Conns /\ Boxes' = Put(D, ToGw(dev.c), f))
  BY RequestMail
<1>2. Boxes \in [Places -> Seq(Frame)] /\ Boxes[Inbox] # <<>> /\ Inbox \in Places
      /\ (dev.c \in Conns => ToGw(dev.c) \in Places) /\ "registration" \in Kinds /\ "login" \in Kinds
  BY <1>1, BoxesTyped, AtPlaces, PlaceCases DEF TypeInv, Kinds
<1>3. /\ D \in [Places -> Seq(Frame)] /\ AtMostOne("registration", D) /\ AtMostOne("login", D)
      /\ None("registration", Boxes) => None("registration", D)
      /\ None("login", Boxes) => None("login", D)
  BY <1>2, DropOne
<1> HIDE DEF D
<1>4. ASSUME NEW k \in Kinds, AtMostOne(k, D), Kind(f.ev) = k => None(k, D)
      PROVE  AtMostOne(k, Boxes') /\ (None(k, D) /\ Kind(f.ev) # k => None(k, Boxes'))
  <2>1. ASSUME dev.c \in Conns, Boxes' = Put(D, ToGw(dev.c), f)
        PROVE  AtMostOne(k, Boxes') /\ (None(k, D) /\ Kind(f.ev) # k => None(k, Boxes'))
    <3>1. Goes(k, ToGw(dev.c), f) <=> Kind(f.ev) = k
      BY <2>1, GoesAt
    <3> QED
      BY <1>2, <1>3, <1>4, <2>1, <3>1, PutOne
  <2> QED
    BY <1>1, <1>4, <2>1
<1> QED
  BY <1>1, <1>2, <1>3, <1>4

LEMMA WayStep ==
  ASSUME TypeInv, WayInv, HeadInv, ~Bounds.expire, Next
  PROVE  WayInv'
<1> USE DEF TypeInv
<1>0. /\ Boxes \in [Places -> Seq(Frame)] /\ "registration" \in Kinds /\ "login" \in Kinds
      /\ AtMostOne("registration", Boxes) /\ AtMostOne("login", Boxes)
  BY BoxesTyped DEF WayInv, Kinds
<1>1. Calm(regTimer') /\ Calm(loginTimer') /\ (DRegTimer \/ DLoginTimer => UNCHANGED <<dev, dQueue>>)
  BY CalmStep DEF WayInv
<1>2. ASSUME Carried(Boxes, Boxes'), NEW k \in Kinds
      PROVE  AtMostOne(k, Boxes') /\ (None(k, Boxes) => None(k, Boxes'))
  BY <1>0, <1>2, CarriedOne DEF WayInv
<1>3. CASE DeviceStep
  <2>1. ASSUME NEW e \in 0..MaxTime, DRegisterReq(e)
        PROVE  WayInv'
    <3>1. ~dev.registerStart /\ None("registration", Boxes) /\ dev.regReqTimes = 0
      BY <2>1 DEF DRegisterReq, WayInv
    <3>2. dev'.registerStart = TRUE /\ dev'.login = dev.login
      <4>1. dev'.registerStart = (dev.regReqTimes < Bounds.times) /\ dev'.login = dev.login
        BY <2>1 DEF DRegisterReq, Record, DevFields
      <4>2. dev.regReqTimes < Bounds.times
        BY <3>1, Within
      <4> QED
        BY <4>1, <4>2
    <3>3. ~DLoginRequest(e)
      BY <2>1 DEF DRegisterReq, DLoginRequest, On
    <3>4. /\ AtMostOne("registration", Boxes') /\ AtMostOne("login", Boxes')
          /\ None("login", Boxes) => None("login", Boxes')
      BY <1>0, <2>1, <3>1, <3>3, RequestOne
    <3> QED
      BY <1>1, <3>2, <3>4 DEF WayInv, Kinds
  <2>2. ASSUME NEW e \in 0..MaxTime, DLoginRequest(e)
        PROVE  WayInv'
    <3>1. dev.login = "LoginStop" /\ None("login", Boxes)
      BY <2>2 DEF DLoginRequest, CanLogin, WayInv
    <3>2. dev'.login # "LoginStop" /\ dev'.registerStart = dev.registerStart
          /\ dev'.regReqTimes = dev.regReqTimes
      BY <2>2 DEF DLoginRequest, Record, DevFields
    <3>3. ~DRegisterReq(e)
      BY <2>2 DEF DRegisterReq, DLoginRequest, On
    <3>4. /\ AtMostOne("registration", Boxes') /\ AtMostOne("login", Boxes')
          /\ None("registration", Boxes) => None("registration", Boxes')
      BY <1>0, <2>2, <3>1, <3>3, RequestOne
    <3> QED
      BY <1>1, <3>2, <3>4 DEF WayInv, Kinds
  <2>3. CASE ~\E e \in 0..MaxTime : DRegisterReq(e) \/ DLoginRequest(e)
    <3>1. \A k \in Kinds : AtMostOne(k, Boxes') /\ (None(k, Boxes) => None(k, Boxes'))
      BY <1>2, <1>3, <2>3, DeviceMail
    <3>2. ~dev'.registerStart => None("registration", Boxes') /\ dev'.regReqTimes = 0
      <4>1. CASE DRegisterAck \/ DRegisterAckFails
        <5>1. dev'.regReqTimes = 0
          BY <4>1 DEF DRegisterAck, DRegisterAckFails, Record, DevFields
        <5> QED
          BY <1>0, <1>3, <4>1, <5>1, EndMail
      <4>2. CASE dev'.registerStart = dev.registerStart /\ dev'.regReqTimes = dev.regReqTimes
        BY <1>0, <3>1, <4>2 DEF WayInv
      <4> QED
        BY <1>1, <1>3, <2>3, <4>1, <4>2, DeviceWays
    <3>3. dev'.login = "LoginStop" => None("login", Boxes')
      <4>1. CASE DLoginChallengeFails \/ DLoginResponseFails \/ DLoginFailure \/ DLoginSuccess
                 \/ DLoginSuccessFails
        BY <1>0, <1>3, <4>1, EndMail
      <4>2. CASE dev'.login = dev.login
        BY <1>0, <3>1, <4>2 DEF WayInv
      <4>3. CASE DLoginChallenge \/ DLoginResponse
        <5>1. dev'.login # "LoginStop"
          BY <4>3 DEF DLoginChallenge, DLoginResponse, Record, DevFields
        <5> QED
          BY <5>1
      <4> QED
        BY <1>1, <1>3, <2>3, <4>1, <4>2, <4>3, DeviceWays
    <3> QED
      BY <1>1, <3>1, <3>2, <3>3 DEF WayInv
  <2> QED
    BY <2>1, <2>2, <2>3
<1>4. ASSUME NEW c \in Conns, GatewayStep(c)
      PROVE  WayInv'
  <2>1. UNCHANGED dev /\ Carried(Boxes, Boxes')
    BY <1>4, GatewayKeeps, GatewayMail
  <2> QED
    BY <1>0, <1>1, <1>2, <2>1 DEF WayInv
<1> QED
  BY <1>3, <1>4, Sides

(* Once lost it stays lost: the device sends no other.                     *)
LEMMA LostStays ==
  ASSUME TypeInv, WayInv, HeadInv, ~Bounds.expire, Next, RegLost
  PROVE  RegLost'
<1> USE DEF TypeInv
<1>0. /\ Boxes \in [Places -> Seq(Frame)] /\ "registration" \in Kinds /\ "login" \in Kinds
      /\ AtMostOne("registration", Boxes) /\ AtMostOne("login", Boxes)
      /\ dev.registerStart /\ None("registration", Boxes)
  BY BoxesTyped DEF WayInv, Kinds, RegLost
<1>1. DRegTimer \/ DLoginTimer => UNCHANGED <<dev, dQueue>>
  BY CalmStep DEF WayInv
<1>2. CASE DeviceStep
  <2>1. ~DRegisterAck /\ ~DRegisterAckFails /\ \A e \in 0..MaxTime : ~DRegisterReq(e)
    <3>1. ASSUME On("RegisterAckEventMessage") PROVE FALSE
      <4>1. /\ dQueue \in Seq(Frame) /\ dQueue # <<>> /\ Head(dQueue).ev = "RegisterAckEventMessage"
            /\ Boxes[Inbox] = dQueue /\ Inbox \in Places
        BY <3>1, AtPlaces, PlaceCases DEF On, m, PipesOK
      <4>2. dQueue[1] = Head(dQueue) /\ 1 \in 1..Len(dQueue)
        BY <4>1, TailAt
      <4>3. Goes("registration", Inbox, dQueue[1])
        BY <1>0, <4>1, <4>2, GoesAt, KindOf DEF Asks
      <4> QED
        BY <1>0, <4>1, <4>2, <4>3 DEF None
    <3> QED
      BY <1>0, <3>1 DEF DRegisterAck, DRegisterAckFails, DRegisterReq
  <2>2. dev'.registerStart = dev.registerStart
    BY <1>1, <1>2, <2>1, DeviceWays
  <2>3. None("registration", Boxes')
    <3>1. ASSUME NEW e \in 0..MaxTime, DLoginRequest(e)
          PROVE  None("registration", Boxes')
      <4>1. dev.login = "LoginStop" /\ None("login", Boxes)
        BY <3>1 DEF DLoginRequest, CanLogin, WayInv
      <4> QED
        BY <1>0, <2>1, <3>1, <4>1, RequestOne
    <3>2. CASE Carried(Boxes, Boxes')
      BY <1>0, <3>2, CarriedOne
    <3> QED
      BY <1>2, <2>1, <3>1, <3>2, DeviceMail
  <2> QED
    BY <1>0, <2>2, <2>3 DEF RegLost
<1>3. ASSUME NEW c \in Conns, GatewayStep(c)
      PROVE  RegLost'
  <2>1. UNCHANGED dev /\ Carried(Boxes, Boxes')
    BY <1>3, GatewayKeeps, GatewayMail
  <2> QED
    BY <1>0, <2>1, CarriedOne DEF RegLost
<1> QED
  BY <1>2, <1>3, Sides

-----------------------------------------------------------------------------
(* One connection at a time, and the order of what they bring.             *)

LEMMA OneTail ==
  ASSUME NEW q \in Seq(Frame), q # <<>>, OneConnect(q)
  PROVE  /\ OneConnect(Tail(q)) /\ (Waits(Tail(q)) => Waits(q))
         /\ IsConnect(Head(q)) => /\ ~Waits(Tail(q))
                                  /\ \A i \in 1..Len(Tail(q)) : Tail(q)[i].ev \notin FromGateway
<1>1. /\ \A i \in 1..Len(Tail(q)) : Tail(q)[i] = q[i + 1] /\ i + 1 \in 1..Len(q)
      /\ Head(q) = q[1] /\ 1 \in 1..Len(q)
  BY TailAt
<1>2. OneConnect(Tail(q))
  BY <1>1 DEF OneConnect
<1>3. Waits(Tail(q)) => Waits(q)
  BY <1>1 DEF Waits
<1>4. ASSUME IsConnect(Head(q)), NEW i \in 1..Len(Tail(q))
      PROVE  ~IsConnect(Tail(q)[i]) /\ Tail(q)[i].ev \notin FromGateway
  <2>1. IsConnect(q[1]) /\ i + 1 \in 1..Len(q) /\ 1 \in 1..Len(q) /\ i + 1 # 1 /\ 1 < i + 1
    BY <1>1, <1>4
  <2> QED
    BY <1>1, <2>1 DEF OneConnect
<1> QED
  BY <1>2, <1>3, <1>4 DEF Waits

LEMMA OneAppend ==
  ASSUME NEW q \in Seq(Frame), OneConnect(q), NEW f \in Frame,
         Waits(q) => ~IsConnect(f) /\ f.ev \notin FromGateway
  PROVE  OneConnect(Append(q, f)) /\ (Waits(Append(q, f)) => Waits(q) \/ IsConnect(f))
<1>1. /\ Len(Append(q, f)) = Len(q) + 1 /\ Len(q) \in Nat
      /\ \A i \in 1..Len(q) : Append(q, f)[i] = q[i]
      /\ Append(q, f)[Len(q) + 1] = f
      /\ \A i \in 1..Len(Append(q, f)) : i \in 1..Len(q) \/ i = Len(q) + 1
  BY AppendAt
<1>2. \A i \in 1..Len(q) : IsConnect(q[i]) => ~IsConnect(f) /\ f.ev \notin FromGateway
  BY DEF Waits
<1>3. ASSUME NEW i \in 1..Len(Append(q, f)),
             NEW j \in 1..Len(Append(q, f)), IsConnect(Append(q, f)[i])
      PROVE  /\ IsConnect(Append(q, f)[j]) => i = j
             /\ i < j => Append(q, f)[j].ev \notin FromGateway
  <2>1. CASE i \in 1..Len(q) /\ j \in 1..Len(q)
    BY <1>1, <1>3, <2>1 DEF OneConnect
  <2>2. CASE i \in 1..Len(q) /\ j = Len(q) + 1
    BY <1>1, <1>2, <1>3, <2>2
  <2>3. CASE i = Len(q) + 1 /\ j \in 1..Len(q)
    BY <1>1, <1>2, <1>3, <2>3
  <2>4. CASE i = Len(q) + 1 /\ j = Len(q) + 1
    BY <1>1, <2>4
  <2> QED
    BY <1>1, <2>1, <2>2, <2>3, <2>4
<1>4. Waits(Append(q, f)) => Waits(q) \/ IsConnect(f)
  BY <1>1 DEF Waits
<1> QED
  BY <1>3, <1>4 DEF OneConnect

(* What is put in the device's channel.                                    *)
OwnEvents == {"EventLoginResponse", "EventCheckThingStatus", "RegisterReqEventMessage",
              "EventLoginRequest"}

LEMMA DevicePuts ==
  ASSUME TypeInv, DeviceStep
  PROVE  \/ UNCHANGED dQueue
         \/ dQueue # <<>> /\ dQueue' = Tail(dQueue)
         \/ \E f \in Frame :
              \/ DRead /\ f = Head(g2c[dev.c]) /\ dQueue' = Append(dQueue, f)
              \/ /\ IsConnect(f) /\ (DConnectAgain \/ DLater("EventConnectServer"))
                 /\ dQueue' = Append(dQueue, f)
              \/ /\ f.ev \in OwnEvents
                 /\ dQueue' = Append(dQueue, f) \/ (dQueue # <<>> /\ dQueue' = Append(Tail(dQueue), f))
<1> USE DEF TypeInv
<1>1. CASE DRead
  <2>1. /\ g2c[dev.c] # <<>> /\ dev.c \in Conns
        /\ UNCHANGED dQueue \/ dQueue' = Append(dQueue, Head(g2c[dev.c]))
    BY <1>1 DEF DRead, Push, DevTyped
  <2>2. Head(g2c[dev.c]) \in Frame
    BY <2>1, HeadTyped DEF PipesOK
  <2> QED
    BY <1>1, <2>1, <2>2
<1>2. /\ Event("EventConnectServer") \in Frame /\ IsConnect(Event("EventConnectServer"))
      /\ \A ev \in {"EventCheckThingStatus", "RegisterReqEventMessage", "EventLoginRequest"} :
           Event(ev) \in Frame /\ Event(ev).ev \in OwnEvents
  BY EventFrame DEF Wire, Local, IsConnect, OwnEvents
<1>3. ASSUME dQueue # <<>>
      PROVE  /\ [m EXCEPT !.ev = "EventLoginResponse"] \in Frame
             /\ [m EXCEPT !.ev = "EventLoginResponse"].ev \in OwnEvents
  <2>1. m \in Frame
    BY <1>3, HeadTyped DEF m, PipesOK
  <2> QED
    BY <2>1, RenamedFrame DEF Wire, OwnEvents
<1>4. ASSUME dQueue # <<>>, dQueue' = Append(Tail(dQueue), [m EXCEPT !.ev = "EventLoginResponse"])
      PROVE  \E f \in Frame : f.ev \in OwnEvents /\ dQueue' = Append(Tail(dQueue), f)
  BY <1>3, <1>4
<1>5. ASSUME NEW ev \in {"EventCheckThingStatus", "RegisterReqEventMessage", "EventLoginRequest"},
             \/ dQueue' = Append(dQueue, Event(ev))
             \/ dQueue # <<>> /\ dQueue' = Append(Tail(dQueue), Event(ev))
      PROVE  \E f \in Frame : /\ f.ev \in OwnEvents
                              /\ \/ dQueue' = Append(dQueue, f)
                                 \/ dQueue # <<>> /\ dQueue' = Append(Tail(dQueue), f)
  BY <1>2, <1>5
<1> QED
  BY <1>1, <1>2, <1>4, <1>5, DevicePushes

LEMMA ConnectStep ==
  ASSUME TypeInv, HeadInv, ConnectInv, Next
  PROVE  ConnectInv'
<1> DEFINE q == dQueue
           away == later["EventConnectServer"]
<1> USE DEF TypeInv
<1>0. /\ q \in Seq(Frame) /\ away \in Nat /\ "EventConnectServer" \in DOMAIN later
      /\ DOMAIN g2c = Conns /\ DOMAIN conn = Conns /\ dev.c \in 0..MaxConn
      /\ Conns = 1..MaxConn /\ MaxConn \in Nat
  BY BoundsOK DEF PipesOK, CountsOK, Delayed, DevTyped, Conns
<1>c. /\ OneConnect(q) /\ (Waits(q) => dReader = "off" /\ away = 0)
      /\ away > 0 => dReader = "off" /\ away = 1
      /\ \A c \in Conns : c < dev.c \/ (c = dev.c /\ dReader # "read") => conn[c] = "broken"
  BY DEF ConnectInv
<1>1. \A c \in Conns : \A i \in 1..Len(g2c'[c]) : g2c'[c][i].ev \in FromGateway
  <2>1. ASSUME UNCHANGED g2c
        PROVE  \A c \in Conns : \A i \in 1..Len(g2c'[c]) : g2c'[c][i].ev \in FromGateway
    BY <2>1 DEF ConnectInv
  <2>2. ASSUME NEW s \in Seq(Frame), \A i \in 1..Len(s) : s[i].ev \in FromGateway,
               NEW c \in Conns, g2c' = [g2c EXCEPT ![c] = s]
        PROVE  \A d \in Conns : \A i \in 1..Len(g2c'[d]) : g2c'[d][i].ev \in FromGateway
    <3>1. \A d \in Conns : g2c'[d] = IF d = c THEN s ELSE g2c[d]
      BY <2>2, OneBox DEF PipesOK
    <3> QED
      BY <2>2, <3>1 DEF ConnectInv
  <2>3. CASE DRead
    <3>1. /\ dev.c \in Conns /\ g2c[dev.c] # <<>> /\ g2c[dev.c] \in Seq(Frame)
          /\ g2c' = [g2c EXCEPT ![dev.c] = Tail(g2c[dev.c])]
      BY <2>3 DEF DRead, DevTyped, PipesOK
    <3>2. /\ Tail(g2c[dev.c]) \in Seq(Frame)
          /\ \A i \in 1..Len(Tail(g2c[dev.c])) : Tail(g2c[dev.c])[i].ev \in FromGateway
      <4>1. \A i \in 1..Len(Tail(g2c[dev.c])) :
              i + 1 \in 1..Len(g2c[dev.c]) /\ Tail(g2c[dev.c])[i] = g2c[dev.c][i + 1]
        BY <3>1, TailAt
      <4> QED
        BY <3>1, <4>1, HeadTyped DEF ConnectInv
    <3> QED
      BY <2>2, <3>1, <3>2
  <2>4. ASSUME NEW c \in Conns, NEW f \in Frame, Sent(g2c, c, f), f.ev \in FromGateway
        PROVE  \A d \in Conns : \A i \in 1..Len(g2c'[d]) : g2c'[d][i].ev \in FromGateway
    <3>1. UNCHANGED g2c \/ g2c' = [g2c EXCEPT ![c] = Append(g2c[c], f)]
      BY <2>4 DEF Sent
    <3>2. g2c[c] \in Seq(Frame)
      BY DEF PipesOK
    <3>3. \A i \in 1..Len(Append(g2c[c], f)) : Append(g2c[c], f)[i].ev \in FromGateway
      <4>1. \A i \in 1..Len(Append(g2c[c], f)) :
              \/ i \in 1..Len(g2c[c]) /\ Append(g2c[c], f)[i] = g2c[c][i]
              \/ Append(g2c[c], f)[i] = f
        BY <3>2, AppendAt
      <4> QED
        BY <2>4, <4>1 DEF ConnectInv
    <3>4. Append(g2c[c], f) \in Seq(Frame)
      BY <3>2
    <3> QED
      BY <2>1, <2>2, <3>1, <3>3, <3>4
  <2>5. CASE DeviceStep
    BY <2>1, <2>3, <2>5, DevicePipes
  <2>6. ASSUME NEW c \in Conns, GatewayStep(c)
        PROVE  UNCHANGED g2c \/ \E f \in Frame : Sent(g2c, c, f) /\ f.ev \in FromGateway
    <3>1. GRead(c) \/ GReadBreak(c) => UNCHANGED g2c
      BY DEF GRead, GReadBreak
    <3> QED
      BY <2>6, <3>1, GatewayMoves
  <2> QED
    BY <2>1, <2>4, <2>5, <2>6, Sides
<1>2. CASE DeviceStep
  <2>t. q # <<>> => /\ OneConnect(Tail(q)) /\ (Waits(Tail(q)) => Waits(q)) /\ Tail(q) \in Seq(Frame)
                    /\ IsConnect(Head(q)) => ~Waits(Tail(q)) /\ Waits(q)
    <3>1. ASSUME q # <<>> PROVE Head(q) = q[1] /\ 1 \in 1..Len(q) /\ Tail(q) \in Seq(Frame)
      BY <1>0, <3>1, TailAt
    <3> QED
      BY <1>0, <1>c, <3>1, OneTail DEF Waits
  <2>a. ASSUME NEW p \in Seq(Frame), OneConnect(p), NEW f \in Frame, f.ev \in OwnEvents
        PROVE  OneConnect(Append(p, f)) /\ (Waits(Append(p, f)) => Waits(p))
    BY <2>a, OneAppend DEF OwnEvents, IsConnect, FromGateway
  <2>1. CASE DConnect
    <3>1. /\ q # <<>> /\ IsConnect(Head(q))
          /\ dQueue' = Append(Tail(q), Event("EventCheckThingStatus"))
          /\ later' = later /\ dReader' = "read" /\ dev.c + 1 \in Conns
          /\ conn' = [conn EXCEPT ![dev.c + 1] = "up"]
      BY <1>0, <2>1, Within DEF DConnect, On, m, IsConnect, Then
    <3>2. dev'.c = dev.c + 1
      BY <2>1 DEF DConnect, Record, DevFields
    <3>3. OneConnect(dQueue') /\ ~Waits(dQueue')
      <4>1. Event("EventCheckThingStatus") \in Frame
          /\ Event("EventCheckThingStatus").ev \in OwnEvents
        BY EventFrame DEF Local, OwnEvents
      <4> QED
        BY <2>a, <2>t, <3>1, <4>1
    <3>4. away = 0 /\ dReader = "off"
      BY <1>c, <2>t, <3>1
    <3>5. \A c \in Conns : c < dev.c + 1 => conn'[c] = "broken"
      <4>1. ASSUME NEW c \in Conns, c < dev.c + 1
            PROVE  conn'[c] = conn[c] /\ (c < dev.c \/ c = dev.c)
        BY <1>0, <3>1, <4>1
      <4> QED
        BY <1>c, <3>4, <4>1
    <3> QED
      BY <1>1, <3>1, <3>2, <3>3, <3>4, <3>5 DEF ConnectInv
  <2>2. CASE DDialFails
    <3>1. /\ q # <<>> /\ IsConnect(Head(q)) /\ dQueue' = Tail(q)
          /\ later' = [later EXCEPT !["EventConnectServer"] = @ + 1]
          /\ UNCHANGED <<dReader, dev, conn>>
      BY <2>2 DEF DDialFails, On, m, IsConnect, Done, connVars
    <3>2. later'["EventConnectServer"] = 1 /\ dReader = "off"
      BY <1>0, <1>c, <2>t, <3>1
    <3> QED
      BY <1>1, <1>c, <2>t, <3>1, <3>2 DEF ConnectInv
  <2>3. CASE DConnectAgain \/ DLater("EventConnectServer")
    <3>1. /\ dQueue' = Append(q, Event("EventConnectServer")) /\ UNCHANGED <<dev, conn>>
          /\ \/ dReader = "push" /\ dReader' = "off" /\ later' = later
             \/ away > 0 /\ UNCHANGED dReader /\ later' = [later EXCEPT !["EventConnectServer"] = @ - 1]
      BY <2>3 DEF DConnectAgain, DLater, Push, connVars
    <3>2. ~Waits(q) /\ dReader' = "off" /\ later'["EventConnectServer"] = 0 /\ dReader # "read"
      BY <1>0, <1>c, <3>1
    <3>3. OneConnect(dQueue')
      BY <1>0, <1>c, <3>1, <3>2, OneAppend, EventFrame DEF Local
    <3> QED
      BY <1>1, <1>c, <3>1, <3>2, <3>3 DEF ConnectInv
  <2>4. CASE DBroken
    <3>1. dReader = "read" /\ conn[dev.c] = "broken" /\ UNCHANGED <<dQueue, later, conn>>
      BY <2>4 DEF DBroken, connVars
    <3>2. dev'.c = dev.c
      BY <1>2, <2>4, DeviceKey DEF DBroken, DConnect
    <3> QED
      BY <1>0, <1>1, <1>c, <3>1, <3>2 DEF ConnectInv
  <2>5. CASE ~DConnect /\ ~DDialFails /\ ~DConnectAgain /\ ~DLater("EventConnectServer") /\ ~DBroken
    <3>1. UNCHANGED <<conn, dReader>> /\ dev'.c = dev.c
      BY <1>2, <2>5, DeviceKeeps, DeviceOpens, DeviceKey
    <3>2. later'["EventConnectServer"] = away
      <4>1. ASSUME NEW e \in {"RegisterReqEventMessage", "EventLoginRequest"}, NEW x,
                   later' = [later EXCEPT ![e] = x]
            PROVE  later'["EventConnectServer"] = away
        BY <1>0, <4>1
      <4>2. ASSUME NEW e \in Delayed, DLater(e)
            PROVE  later'["EventConnectServer"] = away
        BY <2>5, <4>1, <4>2 DEF DLater, Delayed
      <4>3. CASE DBroken \/ UNCHANGED later
        BY <2>5, <4>3
      <4> QED
        BY <1>2, <2>5, <4>1, <4>2, <4>3, DeviceOpens
    <3>3. OneConnect(dQueue') /\ (Waits(dQueue') => Waits(q))
      <4>1. ASSUME DRead, NEW f \in Frame, f = Head(g2c[dev.c]), dQueue' = Append(q, f)
            PROVE  OneConnect(dQueue') /\ (Waits(dQueue') => Waits(q))
        <5>1. dReader = "read" /\ g2c[dev.c] # <<>> /\ dev.c \in Conns /\ g2c[dev.c] \in Seq(Frame)
          BY <4>1 DEF DRead, DevTyped, PipesOK
        <5>2. f = g2c[dev.c][1] /\ 1 \in 1..Len(g2c[dev.c])
          BY <4>1, <5>1, TailAt
        <5>3. ~Waits(q) /\ ~IsConnect(f)
          BY <1>c, <5>1, <5>2 DEF ConnectInv, FromGateway, IsConnect
        <5> QED
          BY <1>0, <1>c, <4>1, <5>3, OneAppend
      <4>2. ASSUME NEW f \in Frame, f.ev \in OwnEvents,
                   dQueue' = Append(q, f) \/ (q # <<>> /\ dQueue' = Append(Tail(q), f))
            PROVE  OneConnect(dQueue') /\ (Waits(dQueue') => Waits(q))
        <5>1. PICK p \in {q, Tail(q)} : /\ p = q \/ q # <<>>
                                        /\ dQueue' = Append(p, f)
          BY <4>2
        <5>2. p \in Seq(Frame) /\ OneConnect(p) /\ (Waits(p) => Waits(q))
          BY <1>0, <1>c, <2>t, <5>1
        <5> QED
          BY <2>a, <4>2, <5>1, <5>2
      <4> QED
        BY <1>2, <1>c, <2>5, <2>t, <4>1, <4>2, DevicePuts
    <3> QED
      BY <1>1, <1>c, <3>1, <3>2, <3>3 DEF ConnectInv
  <2> QED
    BY <2>1, <2>2, <2>3, <2>4, <2>5
<1>3. ASSUME NEW c \in Conns, GatewayStep(c)
      PROVE  ConnectInv'
  <2>1. UNCHANGED <<dev, dQueue, dReader, later>>
    BY <1>3, GatewayKeeps
  <2>2. \A d \in Conns : conn[d] = "broken" => conn'[d] = "broken"
    BY <1>0, <1>3, GatewayKeeps DEF Break
  <2> QED
    BY <1>1, <1>c, <2>1, <2>2 DEF ConnectInv
<1> QED
  BY <1>2, <1>3, Sides

-----------------------------------------------------------------------------
(* The Things between the two halves of LoginSuccess.                      *)

LEMMA DeviceThings ==
  ASSUME TypeInv, DeviceStep
  PROVE  \A c \in Conns : gw'[c].enc = gw[c].enc /\ gw'[c].thingid = gw[c].thingid
<1>1. CASE DConnect
  BY <1>1 DEF DConnect, TypeInv, GwOK, Record, GwFields
<1>2. CASE UNCHANGED gw
  BY <1>2
<1> QED
  BY <1>1, <1>2, DeviceKeeps

LEMMA NewKeys ==
  ASSUME TypeInv, NEW c \in Conns, GatewayStep(c)
  PROVE  \/ db'.key = db.key
         \/ /\ db'.key = db.key + 1
            /\ GRegisterAck(c) \/ GLoginSuccessSent(c) \/ GLoginSuccessFails(c)
<1>0. DOMAIN db = {"status", "key"}
  BY DEF TypeInv, DbOK, Record
<1>1. ASSUME NEW st, db' = [db EXCEPT !.key = NewKey, !.status = st]
      PROVE  db'.key = db.key + 1
  BY <1>0, <1>1 DEF NewKey
<1>2. ASSUME db' = [db EXCEPT !.status = "ThingRegisteredUnLogin"]
      PROVE  db'.key = db.key
  BY <1>0, <1>2
<1> QED
  BY <1>1, <1>2, GatewayWrites

LEMMA HeadStep ==
  ASSUME TypeInv, HeadInv, Next
  PROVE  HeadInv'
<1> USE DEF TypeInv
<1>0. /\ \A d \in Conns : gQueue[d] \in Seq(Frame)
      /\ DOMAIN gQueue = Conns /\ DOMAIN gw = Conns /\ \A d \in Conns : Record(gw[d], GwFields)
  BY DEF PipesOK, GwOK
<1>1. CASE DeviceStep
  BY <1>1, DeviceKeeps, DeviceThings DEF HeadInv
<1>2. ASSUME NEW c \in Conns, GatewayStep(c)
      PROVE  HeadInv'
  <2>1. \A d \in Conns \ {c} : gw'[d] = gw[d]
    BY <1>0, <1>2, OthersStay
  <2>2. CASE GLoginSuccess(c)
    <3>1. UNCHANGED gQueue /\ gQueue[c] # <<>> /\ Head(gQueue[c]).ev = "EventLoginSuccess"
      BY <2>2 DEF GLoginSuccess, GOn
    <3>2. gQueue[c][1].ev = "EventLoginSuccess"
      BY <1>0, <3>1, TailAt
    <3> QED
      BY <2>1, <3>1, <3>2 DEF HeadInv
  <2>3. CASE ~GLoginSuccess(c)
    <3>1. /\ \A d \in Conns : gw'[d].enc = gw[d].enc \/ gw'[d].enc = NoKey
          /\ \A done \in BOOLEAN : LoginOver(c, done) => gw'[c].enc = NoKey
      BY <1>0, <1>2, <2>3, EncMoves
    <3>2. CASE UNCHANGED gQueue
      BY <3>1, <3>2 DEF HeadInv
    <3>3. ASSUME NEW f, gQueue' = [gQueue EXCEPT ![c] = Append(@, f)], f \in Frame
          PROVE  HeadInv'
      <4>1. \A d \in Conns : gQueue'[d] = IF d = c THEN Append(gQueue[c], f) ELSE gQueue[d]
        BY <1>0, <3>3
      <4>2. gQueue[c] # <<>> => Append(gQueue[c], f) # <<>> /\ Append(gQueue[c], f)[1] = gQueue[c][1]
        <5>1. ASSUME gQueue[c] # <<>> PROVE 1 \in 1..Len(gQueue[c])
          BY <1>0, <5>1, TailAt
        <5> QED
          BY <1>0, <3>3, <5>1, AppendAt
      <4> QED
        BY <3>1, <4>1, <4>2 DEF HeadInv
    <3>4. ASSUME gw'[c].enc = NoKey, NEW s, gQueue' = [gQueue EXCEPT ![c] = s]
          PROVE  HeadInv'
      <4>1. \A d \in Conns \ {c} : gQueue'[d] = gQueue[d]
        BY <1>0, <3>4
      <4> QED
        BY <2>1, <3>4, <4>1 DEF HeadInv
    <3>5. CASE GRead(c)
      <4>1. /\ c2g[c] # <<>> /\ c2g[c] \in Seq(Frame)
            /\ UNCHANGED gQueue \/ gQueue' = [gQueue EXCEPT ![c] = Append(@, Head(c2g[c]))]
        BY <3>5 DEF GRead, PipesOK
      <4> QED
        BY <3>2, <3>3, <4>1, HeadTyped
    <3>6. CASE GReadBreak(c)
      BY <3>3, <3>6, EventFrame DEF GReadBreak, Local
    <3>7. GFree(c) => gw'[c].enc = NoKey
      BY <3>1 DEF GFree
    <3>8. GDone(c) /\ gw'[c].enc = NoKey => HeadInv'
      BY <3>4 DEF GDone
    <3>9. ASSUME NEW e, GThen(c, e), gw'[c].enc = NoKey PROVE HeadInv'
      BY <3>4, <3>9 DEF GThen
    <3> QED
      BY <1>2, <3>1, <3>2, <3>5, <3>6, <3>7, <3>8, <3>9, GatewayPushes
  <2> QED
    BY <2>2, <2>3
<1> QED
  BY <1>1, <1>2, Sides

(* The frame that the Thing handles.                                       *)
LEMMA AtWork ==
  ASSUME TypeInv, HeadInv, NEW c \in Conns
  PROVE  /\ GRegisterAck(c) => /\ gQueue[c] # <<>> /\ Kind(Head(gQueue[c]).ev) = "registration"
                               /\ 1 \in 1..Len(Boxes[AtGw(c)])
                               /\ Goes("registration", AtGw(c), Boxes[AtGw(c)][1])
                               /\ Boxes[AtGw(c)][1] = Head(gQueue[c])
         /\ gw[c].enc # NoKey => /\ 1 \in 1..Len(Boxes[AtGw(c)])
                                 /\ Goes("login", AtGw(c), Boxes[AtGw(c)][1])
<1> USE DEF TypeInv
<1>0. Boxes[AtGw(c)] = gQueue[c] /\ gQueue[c] \in Seq(Frame) /\ {"registration", "login"} = Kinds
  BY AtPlaces DEF PipesOK, Kinds
<1>1. ASSUME gQueue[c] # <<>> PROVE gQueue[c][1] = Head(gQueue[c]) /\ 1 \in 1..Len(gQueue[c])
  BY <1>0, <1>1, TailAt
<1>2. GRegisterAck(c) => /\ gQueue[c] # <<>> /\ Head(gQueue[c]).ev = "RegisterAckEventMessage"
  BY DEF GRegisterAck, GOn
<1>3. gw[c].enc # NoKey => gQueue[c] # <<>> /\ gQueue[c][1].ev = "EventLoginSuccess"
  BY DEF HeadInv
<1> QED
  BY <1>0, <1>1, <1>2, <1>3, GoesAt, KindOf

LEMMA SavingStep ==
  ASSUME TypeInv, OpenInv, WayInv, ConnectInv, HeadInv, SavingInv, ~Bounds.expire, Next
  PROVE  SavingInv'
<1> DEFINE o == dev.c
           n == db.key
<1> USE DEF TypeInv
<1>0. /\ o \in 0..MaxConn /\ Conns = 1..MaxConn /\ MaxConn \in Nat /\ n \in Nat \ {0}
      /\ DOMAIN gw = Conns /\ \A d \in Conns : Record(gw[d], GwFields)
      /\ Boxes \in [Places -> Seq(Frame)] /\ "registration" \in Kinds /\ "login" \in Kinds
      /\ AtMostOne("registration", Boxes) /\ AtMostOne("login", Boxes)
  BY BoundsOK, BoxesTyped DEF DevTyped, Conns, DbOK, GwOK, WayInv, Kinds
<1>1. RegLost => RegLost'
  BY LostStays
<1>2. CASE DeviceStep
  <2>1. UNCHANGED db /\ \A c \in Conns : gw'[c].enc = gw[c].enc
    BY <1>2, DeviceKeeps, DeviceThings
  <2>2. CASE dev'.c = o
    BY <1>0, <1>1, <2>1, <2>2 DEF SavingInv
  <2>3. CASE DConnect
    <3>1. dev'.c = o + 1 /\ o + 1 \in Conns
      BY <1>0, <2>3, Within DEF DConnect, Record, DevFields
    <3>2. gw[o + 1].enc = NoKey
      BY <1>0, <3>1 DEF OpenInv
    <3>3. gw'[dev'.c].enc = NoKey
      BY <2>1, <3>1, <3>2
    <3> QED
      BY <3>3 DEF SavingInv
  <2> QED
    BY <1>2, <2>2, <2>3, DeviceKey
<1>3. ASSUME NEW c \in Conns, GatewayStep(c)
      PROVE  SavingInv'
  <2>0. UNCHANGED dev
    BY <1>3, GatewayKeeps
  <2>1. SUFFICES ASSUME o # 0, gw[o].enc \in {NoKey, n}, gw'[o].enc \notin {NoKey, db'.key}
                 PROVE  RegLost' /\ o > 1
    BY <1>1, <2>0 DEF SavingInv
  <2>2. o \in Conns
    BY <1>0, <2>1
  <2>3. ~GLoginSuccess(c)
    <3>1. ASSUME GLoginSuccess(c)
          PROVE  gw'[o].enc \in {gw[o].enc, n} /\ UNCHANGED db
      BY <1>0, <2>2, <3>1 DEF GLoginSuccess, Record, GwFields
    <3> QED
      BY <2>1, <3>1
  <2>4. /\ gw'[o].enc = gw[o].enc
        /\ \A done \in BOOLEAN : LoginOver(c, done) => gw'[c].enc = NoKey
    BY <1>0, <1>3, <2>1, <2>2, <2>3, EncMoves
  <2>5. gw[o].enc = n /\ gw[o].enc # NoKey
    BY <2>1, <2>4
  <2>6. GRegisterAck(c) \/ GLoginSuccessSent(c) \/ GLoginSuccessFails(c)
    BY <1>3, <2>1, <2>4, <2>5, NewKeys
  <2>7. GLoginSuccessSent(c) \/ GLoginSuccessFails(c) => gw[c].enc # NoKey /\ gw'[c].enc = NoKey
    BY <2>4 DEF GLoginSuccessSent, GLoginSuccessFails, Saving
  <2>8. GRegisterAck(c) => gw[c].enc = NoKey
    BY DEF GRegisterAck, GOn, GFree
  <2>9. c # o /\ gw[c].run = "run"
    BY <2>1, <2>5, <2>6, <2>7, <2>8 DEF GRegisterAck, GOn, GFree, GLoginSuccessSent, GLoginSuccessFails,
       Saving
  <2>10. c < o /\ o > 1 /\ conn[c] = "broken"
    BY <1>0, <2>2, <2>9 DEF OpenInv, ConnectInv
  <2>11. GRegisterAck(c)
    <3>1. ASSUME gw[c].enc # NoKey PROVE FALSE
      <4>1. AtGw(c) = AtGw(o)
        <5>1. \A d \in {c, o} : /\ 1 \in 1..Len(Boxes[AtGw(d)]) /\ AtGw(d) \in Places
                                /\ Goes("login", AtGw(d), Boxes[AtGw(d)][1])
          BY <2>2, <2>5, <3>1, AtWork, PlaceCases
        <5> QED
          BY <1>0, <5>1 DEF AtMostOne
      <4> QED
        BY <2>2, <2>9, <4>1, PlaceCases
    <3> QED
      BY <2>6, <2>7, <3>1
  <2>12. dev.registerStart
    BY <1>0, <2>11, AtWork, PlaceCases DEF WayInv, None
  <2>13. Boxes' = Drop(Boxes, AtGw(c))
    <3>1. UNCHANGED <<c2g, dQueue, g2c>> /\ GDone(c)
      BY <2>10, <2>11, <1>3, GatewayKeeps DEF GRegisterAck, Sent
    <3> QED
      BY <3>1, ThingMoves
  <2>14. None("registration", Boxes')
    <3>1. Boxes[AtGw(c)] # <<>> /\ Head(Boxes[AtGw(c)]) = Boxes[AtGw(c)][1] /\ AtGw(c) \in Places
      BY <2>11, AtWork, AtPlaces, PlaceCases
    <3> QED
      BY <1>0, <2>11, <2>13, <3>1, AtWork, DropOne
  <2> QED
    BY <2>0, <2>10, <2>12, <2>14 DEF RegLost
<1> QED
  BY <1>2, <1>3, Sides

-----------------------------------------------------------------------------
(* The answers to logins, and the acks of registrations before them.       *)

LEMMA AnswerTail ==
  ASSUME NEW s \in Seq(Frame), s # <<>>, NEW k, NEW N
  PROVE  /\ Under(s, k) => Under(Tail(s), k)
         /\ Mixed(Tail(s)) => Mixed(s)
         /\ NoAck(s) => NoAck(Tail(s))
         /\ AllIn(s, N) => AllIn(Tail(s), N)
         /\ Late(s, N) => Late(Tail(s), N)
         /\ Late(s, N) /\ IsAck(Head(s)) => AllIn(Tail(s), N)
         /\ IsAck(Head(s)) => ~NoAck(s)
         /\ IsSuccess(Head(s)) => /\ Under(s, k) => Head(s).enc = k
                                  /\ AllIn(s, N) => Head(s).key \in N
                                  /\ Head(s).key = BadKey => Mixed(s)
<1> DEFINE t == Tail(s)
<1>1. /\ \A i \in 1..Len(t) : t[i] = s[i + 1] /\ i + 1 \in 1..Len(s)
      /\ Head(s) = s[1] /\ 1 \in 1..Len(s)
  BY TailAt
<1> HIDE DEF t
<1>2. (Under(s, k) => Under(t, k)) /\ (NoAck(s) => NoAck(t)) /\ (AllIn(s, N) => AllIn(t, N))
  BY <1>1 DEF Under, NoAck, AllIn
<1>3. Mixed(t) => Mixed(s)
  BY <1>1 DEF Mixed
<1>4. Late(s, N) => Late(t, N)
  <2>1. ASSUME Late(s, N), NEW i \in 1..Len(t), IsSuccess(t[i]), t[i].key \notin N,
               NEW j \in 1..(i - 1)
        PROVE  ~IsAck(t[j])
    <3>1. j \in 1..Len(t) /\ j + 1 \in 1..((i + 1) - 1)
      BY <2>1
    <3> QED
      BY <1>1, <2>1, <3>1 DEF Late
  <2> QED
    BY <2>1 DEF Late
<1>5. Late(s, N) /\ IsAck(s[1]) => AllIn(t, N)
  <2>1. ASSUME Late(s, N), IsAck(s[1]), NEW i \in 1..Len(t), IsSuccess(t[i])
        PROVE  t[i].key \in N
    <3>1. 1 \in 1..((i + 1) - 1)
      BY <2>1
    <3> QED
      BY <1>1, <2>1, <3>1 DEF Late
  <2> QED
    BY <2>1 DEF AllIn
<1>6. /\ IsAck(s[1]) => ~NoAck(s)
      /\ IsSuccess(s[1]) => /\ Under(s, k) => s[1].enc = k
                            /\ AllIn(s, N) => s[1].key \in N
                            /\ s[1].key = BadKey => Mixed(s)
  BY <1>1 DEF NoAck, Under, AllIn, Mixed
<1> QED
  BY <1>1, <1>2, <1>3, <1>4, <1>5, <1>6 DEF t

LEMMA AnswerPush ==
  ASSUME NEW s \in Seq(Frame), NEW f \in Frame, NEW k, NEW N
  PROVE  /\ Under(s, k) /\ (IsSuccess(f) => f.enc = k) => Under(Append(s, f), k)
         /\ Mixed(Append(s, f)) => Mixed(s) \/ (IsSuccess(f) /\ f.key = BadKey)
         /\ NoAck(s) /\ ~IsAck(f) => NoAck(Append(s, f))
         /\ AllIn(s, N) /\ (IsSuccess(f) => f.key \in N) => AllIn(Append(s, f), N)
         /\ Late(s, N) /\ (IsSuccess(f) => f.key \in N \/ NoAck(s)) => Late(Append(s, f), N)
         /\ Silent(s) /\ ~IsSuccess(f) => Silent(Append(s, f))
<1> DEFINE t == Append(s, f)
<1>1. /\ \A i \in 1..Len(s) : t[i] = s[i]
      /\ \A i \in 1..Len(t) : i \in 1..Len(s) \/ (i = Len(s) + 1 /\ t[i] = f)
      /\ Len(s) \in Nat
  BY AppendAt
<1> HIDE DEF t
<1>2. /\ Under(s, k) /\ (IsSuccess(f) => f.enc = k) => Under(t, k)
      /\ NoAck(s) /\ ~IsAck(f) => NoAck(t)
      /\ AllIn(s, N) /\ (IsSuccess(f) => f.key \in N) => AllIn(t, N)
      /\ Silent(s) /\ ~IsSuccess(f) => Silent(t)
  BY <1>1 DEF Under, NoAck, AllIn, Silent
<1>3. Mixed(t) => Mixed(s) \/ (IsSuccess(f) /\ f.key = BadKey)
  BY <1>1 DEF Mixed
<1>4. ASSUME Late(s, N), IsSuccess(f) => f.key \in N \/ NoAck(s)
      PROVE  Late(t, N)
  <2>1. ASSUME NEW i \in 1..Len(t), IsSuccess(t[i]), t[i].key \notin N, NEW j \in 1..(i - 1)
        PROVE  ~IsAck(t[j])
    <3>1. j \in 1..Len(s) /\ t[j] = s[j]
      BY <1>1, <2>1
    <3>2. CASE i \in 1..Len(s)
      BY <1>1, <1>4, <2>1, <3>1, <3>2 DEF Late
    <3>3. CASE i = Len(s) + 1 /\ t[i] = f
      BY <1>4, <2>1, <3>1, <3>3 DEF NoAck
    <3> QED
      BY <1>1, <3>2, <3>3
  <2> QED
    BY <2>1 DEF Late
<1> QED
  BY <1>2, <1>3, <1>4 DEF t

LEMMA AnswerNone ==
  ASSUME NEW s, NEW k, NEW N
  PROVE  /\ Silent(s) => Under(s, k) /\ ~Mixed(s) /\ AllIn(s, N) /\ Late(s, N)
         /\ AllIn(s, N) => Late(s, N)
         /\ \A M : N \subseteq M => (AllIn(s, N) => AllIn(s, M)) /\ (Late(s, N) => Late(s, M))
  BY DEF Silent, Under, Mixed, AllIn, Late

LEMMA NoAckLate ==
  ASSUME NEW s \in Seq(Frame), NoAck(s), NEW N
  PROVE  Late(s, N)
<1>1. ASSUME NEW i \in 1..Len(s), NEW j \in 1..(i - 1) PROVE ~IsAck(s[j])
  <2>1. j \in 1..Len(s)
    BY <1>1
  <2> QED
    BY <2>1 DEF NoAck
<1> QED
  BY <1>1 DEF Late

(* The boxes at the device's end.                                          *)
LEMMA LiveBox ==
  ASSUME TypeInv
  PROVE  /\ Live \in Seq(Frame) /\ dQueue \in Seq(Frame)
         /\ dev.c # 0 => dev.c \in Conns /\ Live = g2c[dev.c] /\ Boxes[ToDev(dev.c)] = Live
         /\ dev.c = 0 => Live = <<>>
<1>1. <<>> \in Seq(Frame)
  OBVIOUS
<1>2. dev.c # 0 => dev.c \in Conns
  BY BoundsOK DEF TypeInv, DevTyped, Conns
<1> QED
  BY <1>1, <1>2, AtPlaces DEF Live, TypeInv, PipesOK

LEMMA EndsGo ==
  /\ \A f : IsSuccess(f) => Goes("login", Inbox, f) /\ \A c \in Conns : Goes("login", ToDev(c), f)
  /\ \A f : IsAck(f) => /\ Goes("registration", Inbox, f)
                        /\ \A c \in Conns : Goes("registration", ToDev(c), f)
<1>1. "login" \in Kinds /\ "registration" \in Kinds
  BY DEF Kinds
<1> QED
  BY <1>1, GoesAt, KindOf DEF IsSuccess, IsAck, Asks

LEMMA NoneMeans ==
  ASSUME TypeInv
  PROVE  /\ None("login", Boxes) => Silent(dQueue) /\ Silent(Live)
         /\ None("registration", Boxes) => NoAck(dQueue) /\ NoAck(Live)
<1>1. /\ Inbox \in Places /\ Boxes[Inbox] = dQueue
      /\ \A c \in Conns : ToDev(c) \in Places
      /\ dev.c # 0 => dev.c \in Conns /\ Boxes[ToDev(dev.c)] = Live
      /\ dev.c = 0 => Live = <<>>
  BY AtPlaces, PlaceCases, LiveBox DEF TypeInv
<1>2. None("login", Boxes) => Silent(dQueue)
  BY <1>1, EndsGo DEF None, Silent
<1>3. None("registration", Boxes) => NoAck(dQueue)
  BY <1>1, EndsGo DEF None, NoAck
<1>4. CASE dev.c = 0
  <2>1. Len(Live) = 0
    BY <1>1, <1>4
  <2>2. Silent(Live) /\ NoAck(Live)
    BY <2>1 DEF Silent, NoAck
  <2> QED
    BY <1>2, <1>3, <2>2
<1>5. CASE dev.c # 0
  <2>1. None("login", Boxes) => Silent(Live)
    BY <1>1, <1>5, EndsGo DEF None, Silent
  <2>2. None("registration", Boxes) => NoAck(Live)
    BY <1>1, <1>5, EndsGo DEF None, NoAck
  <2> QED
    BY <1>2, <1>3, <2>1, <2>2
<1> QED
  BY <1>4, <1>5

(* What the Thing handles is nowhere else.                                 *)
LEMMA Elsewhere ==
  ASSUME TypeInv, NEW c \in Conns, 1 \in 1..Len(Boxes[AtGw(c)])
  PROVE  /\ AtMostOne("login", Boxes) /\ Goes("login", AtGw(c), Boxes[AtGw(c)][1])
              => Silent(dQueue) /\ Silent(Live)
         /\ AtMostOne("registration", Boxes) /\ Goes("registration", AtGw(c), Boxes[AtGw(c)][1])
              => NoAck(dQueue) /\ NoAck(Live) /\ ~None("registration", Boxes)
<1>1. /\ Inbox \in Places /\ Boxes[Inbox] = dQueue /\ AtGw(c) \in Places
      /\ \A d \in Conns : ToDev(d) \in Places /\ ToDev(d) # AtGw(c)
      /\ Inbox # AtGw(c)
      /\ dev.c # 0 => dev.c \in Conns /\ Boxes[ToDev(dev.c)] = Live
      /\ dev.c = 0 => Live = <<>>
  BY AtPlaces, PlaceCases, LiveBox DEF TypeInv
<1>2. ASSUME NEW k, AtMostOne(k, Boxes), Goes(k, AtGw(c), Boxes[AtGw(c)][1])
      PROVE  /\ \A i \in 1..Len(dQueue) : ~Goes(k, Inbox, dQueue[i])
             /\ dev.c # 0 => \A i \in 1..Len(Live) : ~Goes(k, ToDev(dev.c), Live[i])
             /\ ~None(k, Boxes)
  <2>1. ASSUME NEW p \in Places, p # AtGw(c), NEW i \in 1..Len(Boxes[p])
        PROVE  ~Goes(k, p, Boxes[p][i])
    BY <1>1, <1>2, <2>1 DEF AtMostOne
  <2>2. ~None(k, Boxes)
    BY <1>1, <1>2 DEF None
  <2> QED
    BY <1>1, <2>1, <2>2
<1>3. dev.c = 0 => Len(Live) = 0
  BY <1>1
<1>4. ASSUME AtMostOne("login", Boxes), Goes("login", AtGw(c), Boxes[AtGw(c)][1])
      PROVE  Silent(dQueue) /\ Silent(Live)
  BY <1>1, <1>2, <1>3, <1>4, EndsGo DEF Silent
<1>5. ASSUME AtMostOne("registration", Boxes), Goes("registration", AtGw(c), Boxes[AtGw(c)][1])
      PROVE  NoAck(dQueue) /\ NoAck(Live) /\ ~None("registration", Boxes)
  BY <1>1, <1>2, <1>3, <1>5, EndsGo DEF NoAck
<1> QED
  BY <1>4, <1>5

(* A Thing keeps its id.                                                   *)
LEMMA IdStays ==
  ASSUME TypeInv, NEW c \in Conns, GatewayStep(c)
  PROVE  /\ \A d \in Conns : gw[d].thingid => gw'[d].thingid
         /\ LoginOver(c, TRUE) => gw'[c].thingid
<1>0. DOMAIN gw = Conns /\ Record(gw[c], GwFields)
  BY DEF TypeInv, GwOK
<1>1. \A d \in Conns \ {c} : gw'[d] = gw[d]
  BY <1>0, OthersStay
<1>2. ASSUME NEW l, LoginIs(c, l)
      PROVE  gw'[c].thingid = gw[c].thingid
  BY <1>0, <1>2 DEF LoginIs, Record, GwFields
<1>3. ASSUME GLoginRequest(c)
      PROVE  gw'[c].thingid = gw[c].thingid
  <2> DEFINE e == Head(gQueue[c]).ect
             r == Head(gQueue[c]).rnd
             x == [gw[c] EXCEPT !.login = "LoginRequestStatus", !.ect = e, !.rnd = r]
  <2>1. gw' = [gw EXCEPT ![c] = x]
    BY <1>3 DEF GLoginRequest
  <2> HIDE DEF e, r
  <2>2. x.thingid = gw[c].thingid
    BY <1>0 DEF Record, GwFields
  <2> HIDE DEF x
  <2> QED
    BY <1>0, <2>1, <2>2
<1>4. ASSUME GClosed(c) \/ GLoginSuccess(c)
      PROVE  gw'[c].thingid = gw[c].thingid
  BY <1>0, <1>4 DEF GClosed, GLoginSuccess, Record, GwFields
<1>5. ASSUME NEW done \in BOOLEAN, LoginOver(c, done)
      PROVE  gw'[c].thingid <=> gw[c].thingid \/ done
  BY <1>0, <1>5 DEF LoginOver, Record, GwFields
<1>6. gw[c].thingid => gw'[c].thingid
  BY <1>2, <1>3, <1>4, <1>5, GatewayWrites
<1> QED
  BY <1>1, <1>5, <1>6

LEMMA NewestSame ==
  ASSUME TypeInv, DeviceStep, dev'.c = dev.c
  PROVE  Newest' = Newest
<1>1. UNCHANGED db /\ (dev.c # 0 => gw'[dev.c].thingid = gw[dev.c].thingid)
  BY DeviceKeeps, DeviceThings, LiveBox
<1> QED
  BY <1>1 DEF Newest

(* The answer at the head of the channel, and what it leaves.              *)
LEMMA AnswerRead ==
  ASSUME TypeInv, OrderInv, AnswerInv, RegLost => RegLost', DRead
  PROVE  AnswerInv'
<1> DEFINE q == dQueue
           t == Live
           N == Newest
           f == Head(t)
<1> USE DEF TypeInv
<1>0. q \in Seq(Frame) /\ t \in Seq(Frame) /\ AllIssued(t, db.key)
  BY LiveBox DEF OrderInv
<1>1. /\ dev.c \in Conns /\ t = g2c[dev.c] /\ t # <<>> /\ UNCHANGED <<dev, gw, db>>
      /\ g2c' = [g2c EXCEPT ![dev.c] = Tail(t)]
  <2>1. /\ dev.c \in Conns /\ g2c[dev.c] # <<>> /\ UNCHANGED <<dev, gw, db>>
        /\ g2c' = [g2c EXCEPT ![dev.c] = Tail(g2c[dev.c])]
    BY DEF DRead, DevTyped, gwVars
  <2>2. dev.c # 0
    BY <2>1 DEF Conns
  <2> QED
    BY <2>1, <2>2, LiveBox
<1>2. q' = q \/ (Readable(f, dev.key) /\ q' = Append(q, f))
  BY <1>1 DEF DRead, Push
<1>3. Live' = Tail(t) /\ Newest' = N
  BY <1>1, AtPlaces DEF Live, Newest
<1>4. f \in Frame /\ (IsSuccess(f) => f.enc # NoKey)
  <2>1. f = t[1] /\ 1 \in 1..Len(t) /\ f \in Frame
    BY <1>0, <1>1, TailAt, HeadTyped
  <2>2. IsSuccess(f) => f.enc \in 1..db.key
    BY <1>0, <2>1 DEF AllIssued, IsIssued, IsSuccess
  <2>3. db.key \in Nat
    BY BoundsOK DEF DbOK
  <2> QED
    BY <2>1, <2>2, <2>3 DEF NoKey
<1> HIDE DEF f
<1>5. /\ Under(q, dev.key)
      /\ Mixed(q) \/ Mixed(t) => RegLost /\ dev.c > 1
      /\ ~dev.registerStart => AllIn(q, N) /\ AllIn(t, N)
      /\ Late(q, N) /\ Late(t, N)
      /\ NoAck(q) \/ AllIn(t, N)
  BY DEF AnswerInv
<1>6. /\ Mixed(Tail(t)) => Mixed(t)
      /\ AllIn(t, N) => AllIn(Tail(t), N)
      /\ Late(Tail(t), N)
      /\ IsAck(f) => AllIn(Tail(t), N)
      /\ IsSuccess(f) => /\ AllIn(t, N) => f.key \in N
                         /\ f.key = BadKey => Mixed(t)
  BY <1>0, <1>1, <1>5, AnswerTail DEF f
<1> HIDE DEF q, t, N
<1>7. /\ Under(q', dev.key)
      /\ Mixed(q') => Mixed(q) \/ Mixed(t)
      /\ AllIn(q, N) /\ AllIn(t, N) => AllIn(q', N)
      /\ Late(q', N)
      /\ NoAck(q') \/ AllIn(Tail(t), N)
  <2>1. CASE q' = q
    BY <1>5, <1>6, <2>1
  <2>2. CASE Readable(f, dev.key) /\ q' = Append(q, f)
    <3>1. IsSuccess(f) => f.enc = dev.key
      BY <1>4, <2>2 DEF Readable
    <3>2. IsSuccess(f) => f.key \in N \/ NoAck(q)
      BY <1>5, <1>6
    <3> QED
      BY <1>0, <1>4, <1>5, <1>6, <2>2, <3>1, <3>2, AnswerPush
  <2> QED
    BY <1>2, <2>1, <2>2
<1>8. /\ Mixed(q') \/ Mixed(Tail(t)) => RegLost' /\ dev.c > 1
      /\ ~dev.registerStart => AllIn(q', N) /\ AllIn(Tail(t), N)
  BY <1>5, <1>6, <1>7
<1> QED
  BY <1>1, <1>3, <1>6, <1>7, <1>8 DEF AnswerInv, q

(* A registration is over: what answered a login before it is of no use.   *)
LEMMA AnswerAcked ==
  ASSUME TypeInv, OrderInv, AnswerInv, DeviceStep, DRegisterAck \/ DRegisterAckFails
  PROVE  AnswerInv'
<1> DEFINE q == dQueue
           t == Live
           N == Newest
           k == dev.key
<1> USE DEF TypeInv
<1>0. /\ q \in Seq(Frame) /\ t \in Seq(Frame) /\ q # <<>> /\ IsAck(Head(q)) /\ m = Head(q)
      /\ UNCHANGED g2c
  BY LiveBox DEF DRegisterAck, DRegisterAckFails, On, m, IsAck, connVars
<1>1. q[1] = m /\ 1 \in 1..Len(q) /\ Tail(q) \in Seq(Frame)
  BY <1>0, TailAt, HeadTyped
<1>2. dev'.c = dev.c /\ t' = t /\ N' = N
  <2>1. dev'.c = dev.c
    BY DEF DRegisterAck, DRegisterAckFails, Record, DevFields
  <2> QED
    BY <1>0, <2>1, NewestSame DEF Live
<1>3. ~RegLost
  <2>1. ~NoAck(q)
    BY <1>0, AnswerTail
  <2> QED
    BY <2>1, NoneMeans DEF RegLost
<1>4. /\ Under(q, k) /\ ~Mixed(q) /\ ~Mixed(t)
      /\ AllIn(Tail(q), N) /\ AllIn(t, N) /\ Late(q, N)
  BY <1>0, <1>3, AnswerTail DEF AnswerInv
<1>5. /\ ~Mixed(Tail(q)) /\ Under(Tail(q), k) /\ Late(Tail(q), N) /\ Late(t, N)
  BY <1>0, <1>4, AnswerTail, AnswerNone
<1>6. CASE DRegisterAckFails
  <2>1. q' = Tail(q) /\ dev'.key = k
    BY <1>6 DEF DRegisterAckFails, Done, Record, DevFields
  <2> QED
    BY <1>2, <1>4, <1>5, <2>1 DEF AnswerInv
<1>7. CASE DRegisterAck
  <2> DEFINE f == Event("EventLoginRequest")
  <2>1. q' = Append(Tail(q), f) /\ f \in Frame /\ ~IsSuccess(f) /\ ~IsAck(f) /\ m.ok
    BY <1>7, EventFrame DEF DRegisterAck, Then, Wire, IsSuccess, IsAck
  <2>2. Silent(Tail(q))
    <3>1. ASSUME NEW i \in 1..Len(Tail(q)), IsSuccess(Tail(q)[i])
          PROVE  FALSE
      <4> DEFINE g == q[i + 1]
      <4>1. Tail(q)[i] = g /\ i + 1 \in 1..Len(q) /\ 1 < i + 1 /\ g \in Frame /\ m \in Frame
        BY <1>0, <1>1, <3>1, TailAt, At, HeadTyped
      <4>2. IsSuccess(g) /\ g.enc = k /\ g.key # BadKey
        BY <1>4, <3>1, <4>1 DEF Under, Mixed
      <4>3. g.key = g.enc + 1 /\ Carries(g)
        BY <4>1, <4>2 DEF OrderInv, AllIssued, IsIssued, IsSuccess, Carries
      <4>4. Carries(m)
        BY <1>0, <2>1 DEF Carries, IsAck
      <4>5. m.key < g.key /\ m.key > k
        BY <1>1, <4>1, <4>3, <4>4 DEF OrderInv, Ordered, Increasing, Newer
      <4>6. m.key \in Int /\ k \in Int
        BY <4>1, KeyNumber, BoundsOK DEF DevTyped, Keys, BadKey, PreKey
      <4> HIDE DEF g
      <4> QED
        BY <4>2, <4>3, <4>5, <4>6
    <3> QED
      BY <3>1 DEF Silent
  <2> HIDE DEF f
  <2>3. Silent(q')
    BY <1>1, <2>1, <2>2, AnswerPush
  <2> QED
    BY <1>2, <1>4, <1>5, <2>3, AnswerNone DEF AnswerInv
<1> QED
  BY <1>6, <1>7

LEMMA AnswerDevice ==
  ASSUME TypeInv, OpenInv, OrderInv, WayInv, ConnectInv, AnswerInv, RegLost => RegLost',
         DRegTimer \/ DLoginTimer => UNCHANGED <<dev, dQueue>>, DeviceStep
  PROVE  AnswerInv'
<1> DEFINE q == dQueue
           t == Live
           N == Newest
<1> USE DEF TypeInv
<1>0. /\ q \in Seq(Frame) /\ t \in Seq(Frame) /\ dev.c \in 0..MaxConn
      /\ Conns = 1..MaxConn /\ MaxConn \in Nat
  BY LiveBox, BoundsOK DEF DevTyped, Conns
<1>1. CASE DRegisterAck \/ DRegisterAckFails
  BY <1>1, AnswerAcked
<1>2. CASE DRead
  BY <1>2, AnswerRead
<1>3. CASE DLoginSuccess
  <2>1. None("login", Boxes')
    BY <1>3, EndMail DEF WayInv, Kinds
  <2>2. dev'.c = dev.c /\ UNCHANGED g2c /\ q # <<>> /\ q' = Tail(q)
    BY <1>3 DEF DLoginSuccess, Record, DevFields, connVars, LoginFits, On, Done
  <2>3. Live' = t
    BY <2>2 DEF Live
  <2>4. Boxes' = Drop(Boxes, Inbox)
    <3>1. UNCHANGED <<gQueue, g2c, c2g>>
      BY <1>3, <2>2 DEF DLoginSuccess, gwVars, connVars
    <3> QED
      BY <2>2, <3>1, InboxMoves
  <2>5. Silent(Tail(q)) /\ Silent(t)
    <3>1. /\ Inbox \in Places /\ Boxes'[Inbox] = Tail(q)
          /\ dev.c # 0 => /\ dev.c \in Conns /\ Boxes'[ToDev(dev.c)] = t /\ ToDev(dev.c) \in Places
          /\ dev.c = 0 => Len(t) = 0
      <4>1. /\ Inbox \in Places /\ Inbox \in DOMAIN Boxes /\ Boxes[Inbox] = q
            /\ \A c \in Conns : ToDev(c) \in Places /\ ToDev(c) \in DOMAIN Boxes /\ ToDev(c) # Inbox
        BY AtPlaces, PlaceCases
      <4> QED
        BY <2>4, <4>1, LiveBox DEF Drop, Held
    <3>2. Silent(Tail(q))
      BY <2>1, <3>1, EndsGo DEF None, Silent
    <3>3. Silent(t)
      BY <2>1, <3>1, EndsGo DEF None, Silent
    <3> QED
      BY <3>2, <3>3
  <2> QED
    BY <2>2, <2>3, <2>5, AnswerNone DEF AnswerInv
<1>4. CASE DConnect
  <2> DEFINE f == Event("EventCheckThingStatus")
  <2>1. /\ q # <<>> /\ IsConnect(Head(q)) /\ q' = Append(Tail(q), f) /\ UNCHANGED g2c
        /\ f \in Frame /\ ~IsSuccess(f) /\ ~IsAck(f) /\ dev.c + 1 \in Conns
    BY <1>0, <1>4, EventFrame, Within
       DEF DConnect, On, m, IsConnect, Then, Local, IsSuccess, IsAck
  <2>2. dev'.c = dev.c + 1
    BY <1>4 DEF DConnect, Record, DevFields
  <2>3. Live' = <<>>
    BY <1>0, <2>1, <2>2 DEF Live, OpenInv
  <2>4. Tail(q) \in Seq(Frame) /\ Silent(Tail(q)) /\ NoAck(Tail(q))
    <3>1. \A i \in 1..Len(Tail(q)) : Tail(q)[i].ev \notin FromGateway
      BY <1>0, <2>1, OneTail DEF ConnectInv
    <3> QED
      BY <1>0, <2>1, <3>1, HeadTyped DEF Silent, NoAck, FromGateway, IsSuccess, IsAck
  <2> HIDE DEF f
  <2>5. Silent(q') /\ NoAck(q')
    BY <2>1, <2>4, AnswerPush
  <2>6. Silent(<<>>)
    BY DEF Silent
  <2> QED
    BY <2>3, <2>5, <2>6, AnswerNone DEF AnswerInv
<1>5. CASE ~DRegisterAck /\ ~DRegisterAckFails /\ ~DRead /\ ~DLoginSuccess /\ ~DConnect
  <2>1. /\ dev'.key = dev.key /\ dev'.c = dev.c /\ UNCHANGED g2c
        /\ dev.registerStart => dev'.registerStart
    <3>1. \A e \in 0..MaxTime : DRegisterReq(e) => ~dev.registerStart
      BY DEF DRegisterReq
    <3> QED
      BY <1>5, <3>1, DeviceKey, DevicePipes, DeviceWays
  <2>2. Live' = t /\ Newest' = N
    BY <2>1, NewestSame DEF Live
  <2>3. PICK p \in {q, Tail(q)} : /\ p = q \/ q # <<>>
                                  /\ \/ q' = p
                                     \/ \E f \in Frame : /\ ~IsSuccess(f) /\ ~IsAck(f)
                                                         /\ q' = Append(p, f)
    BY <1>5, DevicePuts DEF IsConnect, IsSuccess, IsAck, OwnEvents
  <2>4. /\ p \in Seq(Frame) /\ Under(p, dev.key)
        /\ Mixed(p) => Mixed(q)
        /\ AllIn(q, N) => AllIn(p, N)
        /\ Late(p, N)
        /\ NoAck(q) => NoAck(p)
    <3>1. Under(q, dev.key) /\ Late(q, N)
      BY DEF AnswerInv
    <3> HIDE DEF q, N
    <3>2. CASE p = q
      BY <1>0, <3>1, <3>2
    <3>3. CASE p = Tail(q) /\ q # <<>>
      BY <1>0, <3>1, <3>3, AnswerTail, HeadTyped
    <3> QED
      BY <2>3, <3>2, <3>3
  <2>5. /\ Under(q', dev.key)
        /\ Mixed(q') => Mixed(q)
        /\ AllIn(q, N) => AllIn(q', N)
        /\ Late(q', N)
        /\ NoAck(q) => NoAck(q')
    BY <2>3, <2>4, AnswerPush
  <2> QED
    BY <2>1, <2>2, <2>5 DEF AnswerInv
<1> QED
  BY <1>1, <1>2, <1>3, <1>4, <1>5

LEMMA IssuedTyped == ASSUME TypeInv, db.key < Bounds.key PROVE NewKey \in Keys
  BY Within, KeyTypes, BoundsOK DEF TypeInv, DbOK, NewKey

LEMMA AnswerGateway ==
  ASSUME TypeInv, OpenInv, WayInv, ConnectInv, HeadInv, SavingInv, AnswerInv, RegLost => RegLost',
         NEW c \in Conns, GatewayStep(c)
  PROVE  AnswerInv'
<1> DEFINE q == dQueue
           t == Live
           N == Newest
           n == db.key
<1> USE DEF TypeInv
<1>0. /\ q \in Seq(Frame) /\ t \in Seq(Frame) /\ dev.c \in 0..MaxConn /\ n \in Nat
      /\ Conns = 1..MaxConn /\ MaxConn \in Nat /\ DOMAIN g2c = Conns
      /\ UNCHANGED <<dev, dQueue>>
      /\ AtMostOne("login", Boxes) /\ AtMostOne("registration", Boxes)
  BY LiveBox, GatewayKeeps, BoundsOK DEF DevTyped, Conns, DbOK, PipesOK, WayInv, Kinds
<1>1. /\ UNCHANGED g2c => Live' = t
      /\ \A f : Sent(g2c, c, f) => Live' = t \/ (c = dev.c /\ Live' = Append(t, f))
  BY <1>0 DEF Live, Sent
<1>2. /\ Under(q, dev.key)
      /\ Mixed(q) \/ Mixed(t) => RegLost' /\ dev.c > 1
      /\ ~dev.registerStart => AllIn(q, N) /\ AllIn(t, N)
      /\ Late(q, N) /\ Late(t, N)
      /\ NoAck(q) \/ AllIn(t, N)
  BY DEF AnswerInv
<1>3. CASE GRegisterAck(c)
  <2> DEFINE f == Msg("RegisterAckEventMessage", Head(gQueue[c]), NoKey, NewKey, TRUE)
  <2>1. dev.registerStart /\ ~RegLost /\ NoAck(q) /\ NoAck(t)
    <3>1. NoAck(q) /\ NoAck(t) /\ ~None("registration", Boxes)
      BY <1>0, <1>3, AtWork, Elsewhere
    <3> QED
      BY <3>1 DEF WayInv, RegLost
  <2>2. ~Mixed(q) /\ ~Mixed(t)
    BY <2>1 DEF AnswerInv
  <2>3. Sent(g2c, c, f) /\ f \in Frame /\ ~IsSuccess(f)
    <3>1. n < Bounds.key /\ Head(gQueue[c]) \in Frame
      BY <1>3, HeadTyped DEF GRegisterAck, GOn, PipesOK
    <3>2. NewKey \in Keys /\ NoKey \in Keys
      BY <3>1, IssuedTyped, KeyTypes
    <3> QED
      BY <1>3, <3>1, <3>2, MsgFrame DEF GRegisterAck, Wire, Msg, IsSuccess
  <2> HIDE DEF f
  <2>4. Late(q, N') /\ Late(Live', N') /\ ~Mixed(Live')
    <3>1. Late(q, N') /\ Late(t, N')
      BY <1>0, <2>1, NoAckLate
    <3> QED
      BY <1>0, <1>1, <2>2, <2>3, <3>1, AnswerPush
  <2> QED
    BY <1>0, <1>2, <2>1, <2>2, <2>4 DEF AnswerInv
<1>4. CASE GLoginSuccessSent(c) \/ GLoginSuccessFails(c)
  <2> DEFINE f == LoginSuccessFrame(c)
  <2>0. /\ Saving(c) /\ gw[c].enc # NoKey
        /\ UNCHANGED g2c \/ (GLoginSuccessSent(c) /\ Sent(g2c, c, f))
    BY <1>4 DEF GLoginSuccessSent, GLoginSuccessFails, Saving, connVars
  <2>1. Silent(q) /\ Silent(t)
    BY <1>0, <1>4, AtWork, Elsewhere DEF GLoginSuccessSent, GLoginSuccessFails, Saving
  <2>2. CASE Live' = t
    BY <1>0, <2>1, <2>2, AnswerNone DEF AnswerInv
  <2>3. CASE GLoginSuccessSent(c) /\ c = dev.c /\ Live' = Append(t, f)
    <3>1. db'.key = n + 1 /\ gw'[c].thingid /\ Head(gQueue[c]) \in Frame /\ gw[c].enc # NoKey
      <4>1. gw[c].enc # NoKey
        BY <2>3 DEF GLoginSuccessSent, Saving
      <4>2. gQueue[c] # <<>>
        BY <4>1 DEF HeadInv
      <4>3. LoginOver(c, TRUE)
        BY <2>3 DEF GLoginSuccessSent
      <4>4. db'.key = n + 1
        BY <2>3 DEF GLoginSuccessSent, NewKey, DbOK, Record
      <4> QED
        BY <4>1, <4>2, <4>3, <4>4, IdStays, HeadTyped DEF PipesOK
    <3>2. N' = {n + 1}
      BY <1>0, <2>3, <3>1 DEF Newest
    <3>3. /\ f.key = IF gw[c].enc = n THEN n + 1 ELSE BadKey
          /\ IsSuccess(f) /\ ~IsAck(f) /\ f \in Frame
      <4>1. n < Bounds.key /\ gw[c].enc \in 0..MaxKey
        BY <2>3 DEF GLoginSuccessSent, GwOK, GwTyped
      <4>2. NewKey \in Keys /\ BadKey \in Keys /\ gw[c].enc \in Keys
        BY <4>1, IssuedTyped, KeyTypes
      <4>3. f \in Frame
        BY <3>1, <4>2, MsgFrame DEF LoginSuccessFrame, Wire
      <4> QED
        BY <4>3 DEF LoginSuccessFrame, Msg, NewKey, IsSuccess, IsAck
    <3> HIDE DEF f
    <3>4. Under(q, dev.key) /\ ~Mixed(q) /\ ~Mixed(t) /\ AllIn(q, N') /\ AllIn(t, N')
          /\ Late(q, N') /\ Late(t, N')
      BY <2>1, AnswerNone
    <3>5. CASE gw[c].enc = n
      <4>1. f.key \in N' /\ f.key # BadKey
        BY <1>0, <3>2, <3>3, <3>5 DEF BadKey
      <4>2. ~Mixed(Live') /\ AllIn(Live', N') /\ Late(Live', N')
        BY <1>0, <2>3, <3>3, <3>4, <4>1, AnswerPush
      <4> QED
        BY <1>0, <3>4, <4>2 DEF AnswerInv
    <3>6. CASE gw[c].enc # n
      <4>1. RegLost /\ dev.c > 1
        BY <1>0, <2>3, <3>1, <3>6 DEF SavingInv
      <4>2. NoAck(q) /\ NoAck(t) /\ dev.registerStart
        BY <4>1, NoneMeans DEF RegLost
      <4>3. Late(Live', N')
        BY <1>0, <2>3, <3>3, <3>4, <4>2, AnswerPush
      <4> QED
        BY <1>0, <3>4, <4>1, <4>2, <4>3 DEF AnswerInv
    <3> QED
      BY <3>5, <3>6
  <2> QED
    BY <1>1, <2>0, <2>2, <2>3
<1>5. CASE ~GRegisterAck(c) /\ ~GLoginSuccessSent(c) /\ ~GLoginSuccessFails(c)
  <2>1. N \subseteq N'
    <3>1. db'.key = n
      BY <1>5, NewKeys
    <3>2. dev.c # 0 => (gw[dev.c].thingid => gw'[dev.c].thingid)
      BY IdStays, LiveBox
    <3> QED
      BY <1>0, <3>1, <3>2 DEF Newest
  <2>2. /\ AllIn(q, N) => AllIn(q, N')
        /\ AllIn(t, N) => AllIn(t, N')
        /\ Late(q, N') /\ Late(t, N')
    BY <1>2, <2>1, AnswerNone
  <2>3. Live' = t \/ \E f \in Frame : ~IsSuccess(f) /\ Live' = Append(t, f)
    BY <1>1, <1>5, SentToDevice DEF IsSuccess
  <2>4. /\ Mixed(Live') => Mixed(t)
        /\ AllIn(t, N') => AllIn(Live', N')
        /\ Late(Live', N')
    BY <1>0, <2>2, <2>3, AnswerPush
  <2> QED
    BY <1>0, <1>2, <2>2, <2>4 DEF AnswerInv
<1> QED
  BY <1>3, <1>4, <1>5

LEMMA AnswerStep ==
  ASSUME TypeInv, OpenInv, OrderInv, WayInv, ConnectInv, HeadInv, SavingInv, AnswerInv,
         ~Bounds.expire, Next
  PROVE  AnswerInv'
<1>1. /\ RegLost => RegLost'
      /\ DRegTimer \/ DLoginTimer => UNCHANGED <<dev, dQueue>>
  BY LostStays, CalmStep DEF WayInv
<1> QED
  BY <1>1, AnswerDevice, AnswerGateway, Sides

-----------------------------------------------------------------------------
(* A device that has not the newest key asks.                              *)

AskEvents == Asks \cup {"EventCheckThingStatus"}
AsksIn(q) == \E i \in 1..Len(q) : q[i].ev \in AskEvents

LEMMA AskTaken ==
  ASSUME DeviceStep, dQueue # <<>>, m.ev \in AskEvents
  PROVE  \/ DCheckThingStatus \/ DRegisterReqRefused \/ DRegisterReqError
         \/ \E e \in 0..MaxTime : DRegisterReqSendFails(e) \/ DRegisterReq(e) \/ DLoginRequest(e)
         \/ DLoginRequestRefused \/ DLoginRequestFails
         \/ DRead \/ UNCHANGED dQueue \/ \E f : dQueue' = Append(dQueue, f)
<1>1. CASE DeviceEvent
  <2>1. m.ev \in {"RegisterReqEventMessage", "EventLoginRequest", "EventCheckThingStatus"}
    BY DEF AskEvents, Asks
  <2> HIDE DEF m
  <2>2. ~DConnect /\ ~DDialFails
    BY <2>1 DEF DConnect, DDialFails, On
  <2>3. ~DRegisterAckRefused /\ ~DRegisterAck /\ ~DRegisterAckFails
    BY <2>1 DEF DRegisterAckRefused, DRegisterAck, DRegisterAckFails, On
  <2>4. ~DLoginRefused
    BY <2>1 DEF DLoginRefused, LoginFits, On
  <2>5. ~DLoginResponseRefused /\ ~DLoginResponse /\ ~DLoginResponseFails
    BY <2>1 DEF DLoginResponseRefused, DLoginResponse, DLoginResponseFails, LoginFits, On
  <2>6. ~DLoginChallenge /\ ~DLoginChallengeFails
    BY <2>1 DEF DLoginChallenge, DLoginChallengeFails, LoginFits, On
  <2>7. ~DLoginFailure /\ ~DLoginSuccess /\ ~DLoginSuccessFails
    BY <2>1 DEF DLoginFailure, DLoginSuccess, DLoginSuccessFails, LoginFits, On
  <2> QED
    BY <1>1, <2>2, <2>3, <2>4, <2>5, <2>6, <2>7 DEF DeviceEvent
<1>2. CASE DeviceReader
  BY <1>2 DEF DeviceReader, DBroken, DConnectAgain, Push
<1>3. CASE DeviceTimers
  <2>1. DRegTimer => UNCHANGED dQueue \/ \E f : dQueue' = Append(dQueue, f)
    BY DEF DRegTimer, RegTimer, Push
  <2>2. DLoginTimer => UNCHANGED dQueue \/ \E f : dQueue' = Append(dQueue, f)
    BY DEF DLoginTimer, LoginTimer, Push
  <2>3. \A e : DLater(e) => \E f : dQueue' = Append(dQueue, f)
    BY DEF DLater, Push
  <2> QED
    BY <1>3, <2>1, <2>2, <2>3 DEF DeviceTimers
<1>4. CASE DKeyAges \/ DCheckAesKeyValidity
  BY <1>4 DEF DKeyAges, DCheckAesKeyValidity, Push
<1> QED
  BY <1>1, <1>2, <1>3, <1>4 DEF DeviceStep

(* What a channel keeps of what is asked for.                              *)
LEMMA AskStays ==
  ASSUME NEW q \in Seq(Frame), NEW f
  PROVE  /\ AsksIn(q) \/ f.ev \in AskEvents => AsksIn(Append(q, f))
         /\ q # <<>> /\ AsksIn(q) /\ Head(q).ev \notin AskEvents => AsksIn(Tail(q))
<1>1. /\ Len(Append(q, f)) = Len(q) + 1 /\ Len(q) \in Nat
      /\ \A i \in 1..Len(q) : Append(q, f)[i] = q[i]
      /\ Append(q, f)[Len(q) + 1] = f
  OBVIOUS
<1>2. AsksIn(q) \/ f.ev \in AskEvents => AsksIn(Append(q, f))
  BY <1>1 DEF AsksIn
<1>3. ASSUME q # <<>>, AsksIn(q), Head(q).ev \notin AskEvents
      PROVE  AsksIn(Tail(q))
  <2>1. PICK i \in 1..Len(q) : q[i].ev \in AskEvents
    BY <1>3 DEF AsksIn
  <2>2. i # 1
    BY <1>3, <2>1, TailAt
  <2>a. Len(q) \in Nat /\ Len(Tail(q)) = Len(q) - 1
    BY <1>3
  <2>b. i - 1 \in 1..Len(Tail(q)) /\ (i - 1) + 1 = i
    BY <2>2, <2>a
  <2>3. Tail(q)[i - 1] = q[i]
    BY <1>3, <2>b, TailAt
  <2>4. i - 1 \in 1..Len(Tail(q))
    BY <2>b
  <2> QED
    BY <2>1, <2>3, <2>4 DEF AsksIn
<1> QED
  BY <1>2, <1>3

LEMMA AskingKept ==
  ASSUME TypeInv, DeviceStep, Asking
  PROVE  Asking' \/ dev'.login # "LoginStop" \/ dev'.ThingStatus # "ThingRegisteredLogined"
<1> DEFINE q == dQueue
           e1 == "RegisterReqEventMessage"
           e2 == "EventLoginRequest"
<1> USE DEF TypeInv
<1>0. /\ q \in Seq(Frame) /\ later \in [Delayed -> Nat] /\ {e1, e2} \subseteq Delayed
      /\ {e1, e2, "EventCheckThingStatus"} = AskEvents
  BY DEF PipesOK, CountsOK, Delayed, AskEvents, Asks
<1>1. AsksIn(q') => Asking'
  BY DEF AsksIn, AskEvents, Asking
<1>2. later'[e1] > 0 \/ later'[e2] > 0 => Asking'
  BY DEF Asking
<1>3. ASSUME NEW e \in {e1, e2}, later[e] > 0
      PROVE  Asking'
  <2>1. CASE DLater(e)
    <3>1. q' = Append(q, Event(e)) /\ Event(e).ev \in AskEvents
      BY <1>0, <1>3, <2>1 DEF DLater, Push, Event
    <3> QED
      BY <1>0, <1>1, <3>1, AskStays
  <2>2. CASE ~DLater(e)
    <3>1. later'[e] > 0
      <4>1. ASSUME NEW d \in Delayed, DLater(d) PROVE later'[e] > 0
        BY <1>0, <1>3, <2>2, <4>1 DEF DLater
      <4>2. ASSUME NEW d, later' = [later EXCEPT ![d] = @ + 1] PROVE later'[e] > 0
        BY <1>0, <1>3, <4>2
      <4>3. DDialFails => later' = [later EXCEPT !["EventConnectServer"] = @ + 1]
        BY DEF DDialFails
      <4> QED
        BY <1>3, <4>1, <4>2, <4>3, DeviceOpens
    <3> QED
      BY <1>2, <1>3, <3>1
  <2> QED
    BY <2>1, <2>2
<1>4. ASSUME AsksIn(q)
      PROVE  Asking' \/ dev'.login # "LoginStop" \/ dev'.ThingStatus # "ThingRegisteredLogined"
  <2>0. \A f : q' = Append(q, f) => AsksIn(q')
    BY <1>0, <1>4, AskStays
  <2>1. CASE UNCHANGED dQueue \/ \E f : q' = Append(q, f)
    BY <1>1, <1>4, <2>0, <2>1
  <2>2. CASE DRead
    <3>1. UNCHANGED dQueue \/ \E f : q' = Append(q, f)
      BY <2>2 DEF DRead, Push
    <3> QED
      BY <2>1, <3>1
  <2>3. CASE q # <<>> /\ m.ev \in AskEvents /\ ~DRead /\ ~UNCHANGED dQueue
             /\ ~\E f : q' = Append(q, f)
    <3>1. CASE DCheckThingStatus
      <4>1. q' = Append(Tail(q), Event(e1)) /\ Tail(q) \in Seq(Frame) /\ Event(e1).ev \in AskEvents
        BY <1>0, <2>3, <3>1, HeadTyped DEF DCheckThingStatus, Then, Event
      <4> QED
        BY <1>1, <4>1, AskStays
    <3>2. CASE DRegisterReqRefused \/ DRegisterReqError
               \/ \E e \in 0..MaxTime : DRegisterReqSendFails(e) \/ DRegisterReq(e)
      <4>1. dev'.ThingStatus = "ThingUnRegister"
        BY <3>2 DEF DRegisterReqRefused, DRegisterReqError, DRegisterReqSendFails, DRegisterReq,
           Record, DevFields
      <4> QED
        BY <4>1
    <3>3. CASE DLoginRequestRefused
      BY <3>3 DEF DLoginRequestRefused
    <3>4. CASE DLoginRequestFails
      <4>1. later'[e2] = later[e2] + 1 /\ later[e2] \in Nat
        BY <1>0, <3>4 DEF DLoginRequestFails, LoginAgain
      <4> QED
        BY <1>2, <4>1
    <3>5. ASSUME NEW e \in 0..MaxTime, DLoginRequest(e)
          PROVE  dev'.login # "LoginStop"
      BY <3>5 DEF DLoginRequest, Record, DevFields
    <3> QED
      BY <2>3, <3>1, <3>2, <3>3, <3>4, <3>5, AskTaken
  <2>4. CASE q # <<>> /\ m.ev \notin AskEvents /\ q' = Tail(q)
    BY <1>0, <1>1, <1>4, <2>4, AskStays DEF m
  <2>5. ASSUME q # <<>>, m.ev \notin AskEvents, NEW f, q' = Append(Tail(q), f)
        PROVE  Asking'
    <3>1. AsksIn(Tail(q)) /\ Tail(q) \in Seq(Frame)
      BY <1>0, <1>4, <2>5, AskStays, HeadTyped DEF m
    <3> QED
      BY <1>1, <2>5, <3>1, AskStays
  <2> QED
    BY <2>1, <2>2, <2>3, <2>4, <2>5, DevicePuts
<1> QED
  BY <1>3, <1>4 DEF Asking, AsksIn, AskEvents

LEMMA RestDevice ==
  ASSUME TypeInv, OrderInv, AnswerInv, RestInv, RegLost => RegLost',
         DRegTimer \/ DLoginTimer => UNCHANGED <<dev, dQueue>>, DeviceStep
  PROVE  RestInv'
<1> DEFINE q == dQueue
           N == Newest
           e1 == "RegisterReqEventMessage"
           e2 == "EventLoginRequest"
           Out == \/ Asking' \/ dev'.registerStart \/ dev'.login # "LoginStop"
                  \/ dev'.key \in Newest' \/ dev'.ThingStatus # "ThingRegisteredLogined"
<1> USE DEF TypeInv
<1>b. q \in Seq(Frame) /\ later \in [Delayed -> Nat] /\ {e1, e2} \subseteq Delayed
  BY DEF PipesOK, CountsOK, Delayed
<1>c. dev.c \in Nat
  BY BoundsOK DEF DevTyped
<1>0. /\ q \in Seq(Frame) /\ later \in [Delayed -> Nat] /\ {e1, e2} \subseteq Delayed
      /\ dev.c \in Nat
  BY <1>b, <1>c
<1>a. /\ \A f : q' = Append(q, f) /\ f.ev \in AskEvents => Asking'
      /\ q # <<>> => \A f : q' = Append(Tail(q), f) /\ f.ev \in AskEvents => Asking'
      /\ later'[e1] > 0 \/ later'[e2] > 0 => Asking'
  <2>1. AsksIn(q') => Asking'
    BY DEF AsksIn, AskEvents, Asking
  <2>2. later'[e1] > 0 \/ later'[e2] > 0 => Asking'
    BY DEF Asking
  <2> QED
    BY <1>0, <2>1, <2>2, AskStays, HeadTyped
<1>e. /\ Event(e1).ev \in AskEvents /\ Event(e2).ev \in AskEvents
      /\ Event("EventCheckThingStatus").ev \in AskEvents
  BY DEF Event, AskEvents, Asks
<1>1. CASE DConnect
  <2>1. /\ dev'.key = dev.key /\ dev'.c = dev.c + 1 /\ q # <<>>
        /\ q' = Append(Tail(q), Event("EventCheckThingStatus"))
    BY <1>1 DEF DConnect, Record, DevFields, On, Then
  <2> QED
    BY <1>0, <1>a, <1>e, <2>1 DEF RestInv
<1>2. CASE DRegisterAck
  <2>1. /\ q # <<>> /\ dev'.key = m.key /\ m.ok /\ m.ev = "RegisterAckEventMessage"
        /\ q' = Append(Tail(q), Event(e2))
    BY <1>2 DEF DRegisterAck, Record, DevFields, On, Then
  <2>2. m = q[1] /\ 1 \in 1..Len(q) /\ db.key \in Nat
    BY <1>0, <2>1, TailAt, BoundsOK DEF m, DbOK
  <2>3. dev'.key # BadKey
    BY <2>1, <2>2 DEF OrderInv, AllIssued, IsIssued, BadKey
  <2> QED
    BY <1>a, <1>e, <2>1, <2>3 DEF RestInv
<1>3. CASE DLoginSuccess
  <2>1. /\ q # <<>> /\ IsSuccess(Head(q)) /\ m = Head(q) /\ dev'.key = Derived(m)
        /\ dev'.c = dev.c /\ dev'.registerStart = dev.registerStart
    BY <1>3 DEF DLoginSuccess, Record, DevFields, LoginFits, On, m, IsSuccess
  <2>2. /\ m.enc = dev.key /\ (~dev.registerStart => m.key \in N)
        /\ m.key = BadKey => RegLost /\ dev.c > 1
    <3>1. /\ Under(q, dev.key) /\ (~dev.registerStart => AllIn(q, N))
          /\ Mixed(q) => RegLost /\ dev.c > 1
      BY DEF AnswerInv
    <3> HIDE DEF q, N
    <3> QED
      BY <1>0, <2>1, <3>1, AnswerTail
  <2>3. dev'.key = m.key /\ Newest' = N
    BY <2>1, <2>2, NewestSame DEF Derived
  <2> QED
    BY <2>1, <2>2, <2>3 DEF RestInv
<1>4. CASE ~DConnect /\ ~DRegisterAck /\ ~DLoginSuccess
  <2>1. dev'.key = dev.key /\ dev'.c = dev.c
    BY <1>4, DeviceKey
  <2>2. Newest' = N
    BY <2>1, NewestSame
  <2>3. dev.registerStart => dev'.registerStart \/ Asking'
    <3>1. CASE DRegisterAckFails
      <4>1. later'[e1] = later[e1] + 1 /\ later[e1] \in Nat
        BY <1>0, <3>1 DEF DRegisterAckFails
      <4> QED
        BY <1>a, <4>1
    <3>2. \A e \in 0..MaxTime : DRegisterReq(e) => ~dev.registerStart
      BY DEF DRegisterReq
    <3> QED
      BY <1>4, <3>1, <3>2, DeviceWays
  <2>4. dev.login # "LoginStop" => dev'.login # "LoginStop" \/ Asking'
    <3>1. DLoginChallengeFails \/ DLoginFailure \/ DLoginSuccessFails => Asking'
      <4>1. DLoginChallengeFails => q # <<>> /\ q' = Append(Tail(q), Event(e1))
        BY DEF DLoginChallengeFails, LoginFits, On, Then
      <4>2. DLoginFailure => q # <<>> /\ \E ev \in {e1, e2} : q' = Append(Tail(q), Event(ev))
        BY DEF DLoginFailure, LoginFits, On, Then
      <4>3. DLoginSuccessFails => q # <<>> /\ q' = Append(Tail(q), Event(e2))
        BY DEF DLoginSuccessFails, LoginFits, On, Then
      <4> QED
        BY <1>a, <1>e, <4>1, <4>2, <4>3
    <3>2. DLoginResponseFails => Asking'
      <4>1. DLoginResponseFails => later'[e2] = later[e2] + 1 /\ later[e2] \in Nat
        BY <1>0 DEF DLoginResponseFails, LoginAgain
      <4> QED
        BY <1>a, <4>1
    <3>3. DLoginChallenge \/ DLoginResponse => dev'.login # "LoginStop"
      BY DEF DLoginChallenge, DLoginResponse, Record, DevFields
    <3>4. \A e \in 0..MaxTime : DLoginRequest(e) => dev'.login # "LoginStop"
      BY DEF DLoginRequest, Record, DevFields
    <3> QED
      BY <1>4, <3>1, <3>2, <3>3, <3>4, DeviceWays
  <2>5. dev.ThingStatus = "ThingRegisteredLogined" \/ dev'.ThingStatus # "ThingRegisteredLogined"
    BY <1>4, DeviceWays
  <2>6. Asking => Asking' \/ dev'.login # "LoginStop" \/ dev'.ThingStatus # "ThingRegisteredLogined"
    BY AskingKept
  <2> QED
    BY <2>1, <2>2, <2>3, <2>4, <2>5, <2>6 DEF RestInv
<1> QED
  BY <1>1, <1>2, <1>3, <1>4

LEMMA RestGateway ==
  ASSUME TypeInv, WayInv, HeadInv, RestInv, RegLost => RegLost', NEW c \in Conns, GatewayStep(c)
  PROVE  RestInv'
<1>0. /\ UNCHANGED <<dev, dQueue, later>> /\ (dev.c # 0 => dev.c \in Conns)
      /\ AtMostOne("login", Boxes) /\ AtMostOne("registration", Boxes)
  BY GatewayKeeps, LiveBox DEF WayInv, Kinds
<1>1. Asking' = Asking
  BY <1>0 DEF Asking
<1>2. CASE GRegisterAck(c)
  <2>1. dev.registerStart
    BY <1>0, <1>2, AtWork, Elsewhere DEF WayInv
  <2> QED
    BY <1>0, <2>1 DEF RestInv
<1>3. CASE GLoginSuccessSent(c) \/ GLoginSuccessFails(c)
  <2>1. gw[c].enc # NoKey
    BY <1>3 DEF GLoginSuccessSent, GLoginSuccessFails, Saving
  <2>2. ~None("login", Boxes)
    BY <2>1, AtWork, PlaceCases DEF None
  <2> QED
    BY <1>0, <2>2 DEF RestInv, WayInv
<1>4. CASE ~GRegisterAck(c) /\ ~GLoginSuccessSent(c) /\ ~GLoginSuccessFails(c)
  <2>1. Newest \subseteq Newest'
    <3>1. db'.key = db.key
      BY <1>4, NewKeys
    <3>2. dev.c # 0 => (gw[dev.c].thingid => gw'[dev.c].thingid)
      BY <1>0, IdStays
    <3> QED
      BY <1>0, <3>1, <3>2 DEF Newest
  <2> QED
    BY <1>0, <1>1, <2>1 DEF RestInv
<1> QED
  BY <1>2, <1>3, <1>4

LEMMA AgreeStep ==
  ASSUME TypeInv, KeyInv, AgreeInv, ~Bounds.expire, Next
  PROVE  AgreeInv'
<1> USE DEF AgreeInv, KeyInv
<1>1. WayInv' /\ ConnectInv' /\ HeadInv' /\ SavingInv' /\ AnswerInv'
  BY WayStep, ConnectStep, HeadStep, SavingStep, AnswerStep
<1>2. /\ RegLost => RegLost'
      /\ DRegTimer \/ DLoginTimer => UNCHANGED <<dev, dQueue>>
  BY LostStays, CalmStep DEF WayInv
<1>3. RestInv'
  BY <1>2, RestDevice, RestGateway, Sides
<1> QED
  BY <1>1, <1>3

-----------------------------------------------------------------------------
(* The invariant and the theorem.                                          *)

LEMMA AgreeInit == ASSUME Init PROVE AgreeInv
<1> USE BoundsOK DEF Init
<1>1. /\ dQueue = <<Event("EventConnectServer")>> /\ Len(dQueue) = 1
      /\ dQueue[1].ev = "EventConnectServer" /\ Live = <<>> /\ Len(Live) = 0
  BY DEF Live, Event
<1>2. ASSUME NEW k \in Kinds PROVE None(k, Boxes)
  <2>1. \A c \in Conns : c2g[c] = <<>> /\ gQueue[c] = <<>> /\ g2c[c] = <<>>
    OBVIOUS
  <2>2. Kind("EventConnectServer") = "none" /\ k # "none"
    BY DEF Kind, Kinds
  <2>3. ~Goes(k, Inbox, dQueue[1])
    BY <1>1, <2>2 DEF Goes
  <2>4. Boxes[Inbox] = dQueue
    BY BoxAt DEF Boxes
  <2>5. \A c \in Conns : Len(Boxes[ToGw(c)]) = 0 /\ Len(Boxes[AtGw(c)]) = 0
                      /\ Len(Boxes[ToDev(c)]) = 0
    BY <2>1, BoxAt DEF Boxes
  <2>6. ASSUME NEW p \in Places, NEW i \in 1..Len(Boxes[p]) PROVE ~Goes(k, p, Boxes[p][i])
    <3> HIDE DEF Init
    <3>1. p = Inbox
      <4>1. Len(Boxes[p]) # 0
        BY <2>6
      <4> QED
        <5>1. ASSUME NEW c \in Conns, p = ToGw(c) \/ p = AtGw(c) \/ p = ToDev(c) PROVE FALSE
          BY <2>5, <4>1, <5>1
        <5> QED
          BY <5>1, PlaceCases
    <3>2. Len(Boxes[p]) = 1
      BY <1>1, <2>4, <3>1
    <3>3. i = 1
      BY <2>6, <3>2
    <3> QED
      BY <2>3, <2>4, <3>1, <3>3
  <2> QED
    BY <2>6 DEF None
<1>3. WayInv
  <2>1. Calm(regTimer) /\ Calm(loginTimer)
    BY DEF Calm, NoTimer
  <2>2. "registration" \in Kinds /\ "login" \in Kinds
    BY DEF Kinds
  <2>3. ~dev.registerStart /\ dev.regReqTimes = 0 /\ dev.login = "LoginStop"
    OBVIOUS
  <2>4. \A k \in Kinds : AtMostOne(k, Boxes)
    BY <1>2 DEF None, AtMostOne
  <2> HIDE DEF Init
  <2> QED
    BY <1>2, <2>1, <2>2, <2>3, <2>4 DEF WayInv
<1>4. ConnectInv
  <2>a. \A c \in Conns : g2c[c] = <<>>
    OBVIOUS
  <2>b. dev.c = 0
    OBVIOUS
  <2>1. \A c \in Conns : Len(g2c[c]) = 0 /\ ~(c < dev.c) /\ ~(c = dev.c)
    BY <2>a, <2>b DEF Conns
  <2>2. later["EventConnectServer"] = 0 /\ dReader = "off"
    BY DEF Delayed
  <2> HIDE DEF Init
  <2>3. OneConnect(dQueue)
    BY <1>1 DEF OneConnect
  <2> QED
    BY <2>1, <2>2, <2>3 DEF ConnectInv
<1>5. HeadInv
  BY DEF HeadInv, NewGwThing, NoKey
<1>6. SavingInv
  BY DEF SavingInv
<1>7. AnswerInv
  <2> HIDE DEF Init
  <2>1. /\ \A i \in 1..Len(dQueue) : ~IsSuccess(dQueue[i]) /\ ~IsAck(dQueue[i])
        /\ \A i \in 1..Len(Live) : FALSE
    BY <1>1 DEF IsSuccess, IsAck
  <2> QED
    BY <2>1 DEF AnswerInv, Under, Mixed, AllIn, Late, NoAck
<1>8. RestInv
  BY DEF RestInv, NoKey, BadKey
<1> QED
  BY <1>3, <1>4, <1>5, <1>6, <1>7, <1>8 DEF AgreeInv

LEMMA AgreeStays == ASSUME AgreeInv, UNCHANGED vars PROVE AgreeInv'
<1>1. /\ UNCHANGED <<conn, c2g, g2c, gQueue, dQueue, dev, dReader, regTimer, loginTimer>>
      /\ UNCHANGED <<later, gw, db>>
  BY DEF vars, connVars, devVars, gwVars
<1>2. Boxes' = Boxes /\ Live' = Live /\ Newest' = Newest /\ Asking' = Asking
  BY <1>1 DEF Boxes, Live, Newest, Asking
<1>3. RegLost' = RegLost
  BY <1>1, <1>2 DEF RegLost
<1>4. WayInv'
  BY <1>1, <1>2 DEF AgreeInv, WayInv
<1>5. ConnectInv' /\ HeadInv' /\ SavingInv'
  BY <1>1, <1>3 DEF AgreeInv, ConnectInv, HeadInv, SavingInv
<1>6. AnswerInv' /\ RestInv'
  BY <1>1, <1>2, <1>3 DEF AgreeInv, AnswerInv, RestInv
<1> QED
  BY <1>4, <1>5, <1>6 DEF AgreeInv

(* A device at rest has asked for nothing, so it has the newest key.       *)
LEMMA AgreeMeans ==
  ASSUME ~Bounds.expire => AgreeInv
  PROVE  KeysAgreeAtRest
<1> SUFFICES ASSUME ~Bounds.expire, AgreeInv
             PROVE  /\ dev.key = BadKey => dev.registerStart /\ dev.c > 1
                    /\ dev.ThingStatus = "ThingRegisteredLogined" /\ dev.c # 0 /\ Quiet(dev.c)
                         => dev.key = db.key /\ gw[dev.c].thingid
  BY DEF KeysAgreeAtRest
<1>1. dev.key = BadKey => dev.registerStart /\ dev.c > 1
  BY DEF AgreeInv, RestInv, RegLost
<1>2. ASSUME dev.ThingStatus = "ThingRegisteredLogined", dev.c # 0, Quiet(dev.c)
      PROVE  dev.key = db.key /\ gw[dev.c].thingid
  <2>1. ~Asking
    <3>1. Len(dQueue) = 0 /\ \A e \in Delayed : later[e] = 0
      BY <1>2 DEF Quiet
    <3>2. {"RegisterReqEventMessage", "EventLoginRequest"} \subseteq Delayed
      BY DEF Delayed
    <3> QED
      BY <3>1, <3>2 DEF Asking
  <2>2. ~dev.registerStart /\ dev.login = "LoginStop"
    BY <1>2 DEF Quiet
  <2>3. dev.key \in Newest
    BY <1>2, <2>1, <2>2 DEF AgreeInv, RestInv
  <2> QED
    BY <2>3 DEF Newest
<1> QED
  BY <1>1, <1>2

(* Unless a request may have run out, a device that takes itself for       *)
(* logged in and asks for nothing has the key of the gateway's database,   *)
(* and one that has a key nobody else has waits for a registration that an *)
(* earlier connection lost.                                                *)
THEOREM KeysAgree == Spec => []KeysAgreeAtRest
<1> DEFINE Inv == TypeInv /\ KeyInv /\ (~Bounds.expire => AgreeInv)
<1>1. Init => Inv
  BY TypeInvInit, KeyInvInit, AgreeInit
<1>2. Inv /\ [Next]_vars => Inv'
  <2> SUFFICES ASSUME Inv, [Next]_vars PROVE Inv'
    OBVIOUS
  <2>1. TypeInv' /\ KeyInv'
    BY TypeInvNext, KeyStep
  <2>2. UNCHANGED Bounds
    <3>1. CASE UNCHANGED vars
      BY <3>1 DEF vars, Bounds
    <3> QED
      BY <3>1, CountsInd
  <2>3. ASSUME ~Bounds.expire PROVE AgreeInv'
    BY <2>3, AgreeStep, AgreeStays
  <2> QED
    BY <2>1, <2>2, <2>3
<1>3. Inv => KeysAgreeAtRest
  BY AgreeMeans
<1> QED
  BY <1>1, <1>2, <1>3, PTL DEF Spec

=============================================================================
