--------------------------- MODULE GatewayProofs ---------------------------
(***************************************************************************)
(* Proofs about Gateway, for every set of connections and devices and      *)
(* every capacity of the channels.                                         *)
(***************************************************************************)
EXTENDS Gateway, SequenceTheorems, TLAPS

(* What a send and a receive do to a channel.                              *)
LEMMA Sent ==
  ASSUME NEW S, NEW q \in Seq(S), NEW x \in S
  PROVE  /\ Append(q, x) \in Seq(S)
         /\ Len(Append(q, x)) = Len(q) + 1
         /\ \A i \in 1..Len(q) : Append(q, x)[i] = q[i]
         /\ Append(q, x)[Len(q) + 1] = x
  OBVIOUS

LEMMA Received ==
  ASSUME NEW S, NEW q \in Seq(S), q # <<>>
  PROVE  /\ Head(q) \in S
         /\ Head(q) = q[1]
         /\ Len(q) \in Nat \ {0}
         /\ Tail(q) \in Seq(S)
         /\ Len(Tail(q)) = Len(q) - 1
         /\ \A i \in 1..Len(Tail(q)) : Tail(q)[i] = q[i + 1]
  BY HeadTailProperties, EmptySeq

(* The type invariant in three parts: the Things, the registry, the web.   *)
ThingTypes ==
  /\ conn \in [Thing -> {"none", "open", "broken"}]
  /\ reader \in [Thing -> {"off", "read", "exit"}]
  /\ sched \in [Thing -> SchedStates]
  /\ cur \in [Thing -> Events \cup {"none"}]
  /\ ThingMsgChan \in [Thing -> Seq(Events)]
  /\ thingid \in [Thing -> ThingId \cup {NoId}]
  /\ frames \in [Thing -> Nat]
  /\ login \in [Thing -> LoginStates] /\ retries \in [Thing -> Nat]
  /\ \A t \in Thing : Len(ThingMsgChan[t]) <= ThingMsgCap
RegTypes ==
  /\ AddThingChan \in Seq(ThingConn) /\ DeleteThingChan \in Seq(ThingConn)
  /\ recv \in RecvState
  /\ ThingConns \in [ThingId -> Thing \cup {NoThing}]
  /\ Len(AddThingChan) <= RegChanCap /\ Len(DeleteThingChan) <= RegChanCap
WebTypes ==
  /\ lock \in {"free", "web"}
  /\ web \in WebState
  /\ webReqs \in Nat
  (* a lookup is for a device, a push is to a Thing of the registry *)
  /\ web.pc \in {"lookup", "push"} => web.id \in ThingId
  /\ web.pc = "push" => web.thing \in Thing
  (* only a scheduler at "push" has an event to push *)
  /\ \A t \in Thing : sched[t] = "push" => cur[t] \in Events

TypeInv == ThingTypes /\ RegTypes /\ WebTypes

LEMMA TypeParts == TypeInv => TypeOK
  BY DEF TypeInv, ThingTypes, RegTypes, WebTypes, TypeOK

LEMMA TypeInit == Init => TypeInv
  BY ConstantsOK DEF Init, TypeInv, ThingTypes, RegTypes, WebTypes, LoginStates, SchedStates,
     RecvState, WebState, WebIdle, Idle

(* A frame that is read is one of the table's events.                      *)
LEMMA ReadsFrameEvent ==
  ASSUME ThingTypes, NEW t \in Thing, ReadFrame(t)
  PROVE  \E e \in FrameEvents : ThingMsgChan' = [ThingMsgChan EXCEPT ![t] = Append(@, e)]
<1>1. frames[t] \in Nat /\ frames[t] < Len(Frames[t]) /\ frames'[t] = frames[t] + 1
  BY DEF ReadFrame, ThingTypes
<1>2. Frames[t] \in Seq(SUBSET FrameEvents) /\ Len(Frames[t]) \in Nat
  BY ConstantsOK
<1>3. Frames[t][frames'[t]] \in SUBSET FrameEvents
  BY <1>1, <1>2, ElementOfSeq
<1> QED BY <1>3 DEF ReadFrame

(* A handler that returns, or goes on to push an event, changes the types  *)
(* of nothing else.                                                        *)
LEMMA ReturnKeeps ==
  ASSUME TypeInv, NEW t \in Thing, NEW pc \in SchedStates \ {"push"}, Return(t, pc),
         login' \in [Thing -> LoginStates], retries' \in [Thing -> Nat],
         UNCHANGED <<conn, reader, ThingMsgChan, thingid, frames, regVars, webVars>>
  PROVE  TypeInv'
  BY DEF TypeInv, Return, ThingTypes, RegTypes, WebTypes, regVars, webVars

LEMMA PushKeeps ==
  ASSUME TypeInv, NEW t \in Thing, NEW e \in Events, Push(t, e),
         login' \in [Thing -> LoginStates], retries' \in [Thing -> Nat],
         UNCHANGED <<conn, reader, ThingMsgChan, thingid, frames, regVars, webVars>>
  PROVE  TypeInv'
  BY DEF TypeInv, Push, ThingTypes, RegTypes, WebTypes, SchedStates, regVars, webVars

LEMMA TypeStep == TypeInv /\ [Next]_vars => TypeInv'
<1> SUFFICES ASSUME TypeInv, [Next]_vars PROVE TypeInv'
  OBVIOUS
<1> USE DEF TypeInv
<1>1. ASSUME NEW t \in Thing, Accept(t) PROVE TypeInv'
  BY <1>1 DEF Accept, ThingTypes, RegTypes, WebTypes, SchedStates, loginVars, regVars, webVars
<1>2. ASSUME NEW t \in Thing, Break(t) PROVE TypeInv'
  BY <1>2 DEF Break, ThingTypes, RegTypes, WebTypes, loginVars, regVars, webVars
<1>3. ASSUME NEW t \in Thing, ReadFrame(t) PROVE TypeInv'
  <2>1. PICK e \in FrameEvents : ThingMsgChan' = [ThingMsgChan EXCEPT ![t] = Append(@, e)]
    BY <1>3, ReadsFrameEvent DEF ThingTypes
  <2>2. e \in Events BY DEF Events
  <2>3. Len(ThingMsgChan[t]) + 1 <= ThingMsgCap
    BY <1>3, ConstantsOK DEF ReadFrame, HasRoom, ThingTypes
  <2> QED BY <1>3, <2>1, <2>2, <2>3, Sent DEF ReadFrame, ThingTypes, RegTypes, WebTypes, loginVars,
            regVars, webVars
<1>4. ASSUME NEW t \in Thing, ReadBreak(t) PROVE TypeInv'
  <2>1. "EventConnectionClosed" \in Events BY DEF Events
  <2>2. Len(ThingMsgChan[t]) + 1 <= ThingMsgCap
    BY <1>4, ConstantsOK DEF ReadBreak, HasRoom, ThingTypes
  <2> QED BY <1>4, <2>1, <2>2, Sent DEF ReadBreak, ThingTypes, RegTypes, WebTypes, loginVars,
          regVars, webVars
<1>5. ASSUME NEW t \in Thing, Scheduler(t) PROVE TypeInv'
  <2>1. CASE Take(t)
    BY <2>1, Received, ConstantsOK DEF Take, ThingTypes, RegTypes, WebTypes, SchedStates, loginVars,
       regVars, webVars
  <2>2. CASE PushEventChannel(t)
    <3>1. cur[t] \in Events
      BY <2>2 DEF PushEventChannel, WebTypes
    <3>2. Len(ThingMsgChan[t]) + 1 <= ThingMsgCap
      BY <2>2, ConstantsOK DEF PushEventChannel, HasRoom, ThingTypes
    <3> QED BY <2>2, <3>1, <3>2, Sent DEF PushEventChannel, Return, ThingTypes, RegTypes, WebTypes,
              SchedStates, loginVars, regVars, webVars
  <2>3. CASE HandleRegisterReq(t)
    BY <2>3, PushKeeps DEF HandleRegisterReq, ThingTypes, Events, FrameEvents, loginVars
  <2>4. CASE HandleRequest(t)
    <3>1. login' \in [Thing -> LoginStates]
      BY <2>4 DEF HandleRequest, ThingTypes, LoginStates
    <3>2. ASSUME NEW e \in DOMAIN Answer, Push(t, Answer[e]) PROVE TypeInv'
      <4>1. Answer[e] \in Events BY DEF Answer, Events, FrameEvents
      <4> QED BY <2>4, <3>1, <3>2, <4>1, PushKeeps DEF HandleRequest, ThingTypes
    <3>3. CASE Return(t, "select")
      BY <2>4, <3>1, <3>3, ReturnKeeps DEF HandleRequest, ThingTypes, SchedStates
    <3> QED BY <2>4, <3>2, <3>3 DEF HandleRequest
  <2>5. CASE HandleLoginResponse(t)
    <3>1. login' \in [Thing -> LoginStates]
      BY <2>5 DEF HandleLoginResponse, ThingTypes, LoginStates
    <3>2. ASSUME NEW e \in Events, Push(t, e) PROVE TypeInv'
      BY <2>5, <3>1, <3>2, PushKeeps DEF HandleLoginResponse, ThingTypes
    <3>3. CASE Return(t, "select")
      BY <2>5, <3>1, <3>3, ReturnKeeps DEF HandleLoginResponse, ThingTypes, SchedStates
    <3> QED BY <2>5, <3>2, <3>3 DEF HandleLoginResponse, Events, FrameEvents
  <2>6. CASE LoginSuccessSent(t)
    BY <2>6, ConstantsOK DEF LoginSuccessSent, Return, ThingTypes, RegTypes, WebTypes, SchedStates,
                LoginStates, regVars, webVars
  <2>7. CASE LoginSuccessFailed(t)
    <3>1. login' \in [Thing -> LoginStates]
      BY <2>7 DEF LoginSuccessFailed, ThingTypes, LoginStates
    <3> QED BY <2>7, <3>1, ReturnKeeps DEF LoginSuccessFailed, ThingTypes, SchedStates
  <2>8. CASE PushAdd(t)
    <3>1. [id |-> thingid[t], thing |-> t] \in ThingConn
      BY DEF ThingTypes, ThingConn
    <3> QED BY <2>8, <3>1, Sent, ConstantsOK DEF PushAdd, ThingTypes, RegTypes, WebTypes,
            SchedStates,
              loginVars, webVars
  <2>9. CASE HandleLoginFailure(t)
    <3>1. login' \in [Thing -> LoginStates]
      BY <2>9 DEF HandleLoginFailure, ThingTypes, LoginStates
    <3> QED BY <2>9, <3>1, ReturnKeeps DEF HandleLoginFailure, ThingTypes, SchedStates
  <2>10. CASE HandleClosed(t)
    BY <2>10, ReturnKeeps DEF HandleClosed, ThingTypes, SchedStates, loginVars
  <2>11. CASE PushDelete(t)
    <3>1. [id |-> thingid[t], thing |-> t] \in ThingConn
      BY DEF ThingTypes, ThingConn
    <3> QED BY <2>11, <3>1, Sent, ConstantsOK DEF PushDelete, ThingTypes, RegTypes, WebTypes,
            SchedStates,
              loginVars, webVars
  <2>12. CASE HandleReLoginReq(t)
    <3>1. retries' \in [Thing -> Nat]
      BY <2>12 DEF HandleReLoginReq, ThingTypes
    <3> QED BY <2>12, <3>1, ReturnKeeps DEF HandleReLoginReq, ThingTypes, SchedStates
  <2>13. CASE HandleAck(t)
    <3>1. retries' \in [Thing -> Nat]
      BY <2>13 DEF HandleAck, ThingTypes
    <3> QED BY <2>13, <3>1, ReturnKeeps DEF HandleAck, ThingTypes, SchedStates
  <2>14. CASE HandleOther(t)
    BY <2>14, ReturnKeeps DEF HandleOther, ThingTypes, SchedStates, loginVars
  <2>15. CASE Panic(t)
    BY <2>15 DEF Panic, ThingTypes, RegTypes, WebTypes, SchedStates, RecvState, WebState, WebIdle
  <2> QED BY <1>5, <2>1, <2>2, <2>3, <2>4, <2>5, <2>6, <2>7, <2>8, <2>9, <2>10, <2>11, <2>12, <2>13,
            <2>14, <2>15 DEF Scheduler
<1>11. ASSUME NEW t \in Thing, Timers(t) PROVE TypeInv'
  <2>1. CASE WaitClose(t) \/ CloseTaken(t)
    BY <2>1 DEF WaitClose, CloseTaken, ThingTypes, RegTypes, WebTypes, SchedStates, loginVars,
       regVars, webVars
  <2>2. CASE LateExpiry(t)
    BY <2>2 DEF LateExpiry, ThingTypes, RegTypes, WebTypes, LoginStates, loginVars, regVars, webVars
  <2>3. CASE ReLoginAgain(t)
    <3>1. "EventReLoginRequest" \in Events BY DEF Events, FrameEvents
    <3>2. Len(ThingMsgChan[t]) + 1 <= ThingMsgCap
      BY <2>3, ConstantsOK DEF ReLoginAgain, HasRoom, ThingTypes
    <3>3. retries' \in [Thing -> Nat]
      BY <2>3 DEF ReLoginAgain, ThingTypes
    <3> QED BY <2>3, <3>1, <3>2, <3>3, Sent DEF ReLoginAgain, ThingTypes, RegTypes, WebTypes,
            regVars,
              webVars
  <2> QED BY <1>11, <2>1, <2>2, <2>3 DEF Timers
<1>6. CASE RecvThingConnection
  <2>1. CASE RecvAdd
    <3>1. /\ Head(AddThingChan) \in ThingConn
          /\ Tail(AddThingChan) \in Seq(ThingConn)
          /\ Len(Tail(AddThingChan)) <= RegChanCap
      BY <2>1, Received, ConstantsOK DEF RecvAdd, RegTypes
    <3>2. recv' \in RecvState
      BY <2>1, <3>1 DEF RecvAdd, ThingConn, RecvState
    <3> QED BY <2>1, <3>1, <3>2 DEF RecvAdd, ThingTypes, RegTypes, WebTypes, thingVars,
            loginVars, webVars
  <2>2. CASE RecvDelete
    <3>1. /\ Head(DeleteThingChan) \in ThingConn
          /\ Tail(DeleteThingChan) \in Seq(ThingConn)
          /\ Len(Tail(DeleteThingChan)) <= RegChanCap
      BY <2>2, Received, ConstantsOK DEF RecvDelete, RegTypes
    <3>2. recv' \in RecvState
      BY <2>2, <3>1 DEF RecvDelete, ThingConn, RecvState
    <3> QED BY <2>2, <3>1, <3>2 DEF RecvDelete, ThingTypes, RegTypes, WebTypes, thingVars,
            loginVars, webVars
  <2>3. CASE ApplyAdd
    BY <2>3 DEF ApplyAdd, ThingTypes, RegTypes, WebTypes, RecvState, Idle, Ended, thingVars,
            loginVars,
                webVars
  <2>4. CASE ApplyDelete
    BY <2>4 DEF ApplyDelete, ThingTypes, RegTypes, WebTypes, RecvState, Idle, thingVars,
            loginVars, webVars
  <2> QED BY <1>6, <2>1, <2>2, <2>3, <2>4 DEF RecvThingConnection
<1>7. CASE WebTask
  <2>1. CASE WebNotFound
    BY <2>1 DEF WebNotFound, ThingTypes, RegTypes, WebTypes, WebState, WebIdle, thingVars,
            loginVars, regVars
  <2>2. CASE WebFind
    <3>1. web.id \in ThingId /\ ThingConns[web.id] \in Thing
      BY <2>2 DEF WebFind, RegTypes, WebTypes
    <3> QED BY <2>2, <3>1 DEF WebFind, ThingTypes, RegTypes, WebTypes, WebState, thingVars,
            loginVars, regVars
  <2>3. CASE WebPush
    <3>1. web.thing \in Thing /\ Command \in Events
      BY <2>3 DEF WebPush, WebTypes, Events
    <3>2. Len(ThingMsgChan[web.thing]) + 1 <= ThingMsgCap
      BY <2>3, <3>1, ConstantsOK DEF WebPush, HasRoom, ThingTypes
    <3> QED BY <2>3, <3>1, <3>2, Sent DEF WebPush, ThingTypes, RegTypes, WebTypes, WebState,
            WebIdle, loginVars, regVars
  <2> QED BY <1>7, <2>1, <2>2, <2>3 DEF WebTask
<1>8. ASSUME NEW d \in ThingId, WebReceive(d) PROVE TypeInv'
  BY <1>8 DEF WebReceive, ThingTypes, RegTypes, WebTypes, WebState, thingVars, loginVars, regVars
<1>9. CASE WebBadRequest
  BY <1>9 DEF WebBadRequest, ThingTypes, RegTypes, WebTypes, WebState, WebIdle, thingVars,
          loginVars, regVars
<1>10. CASE UNCHANGED vars
  BY <1>10 DEF vars, thingVars, loginVars, regVars, webVars, ThingTypes, RegTypes, WebTypes
<1> QED BY <1>1, <1>2, <1>3, <1>4, <1>5, <1>6, <1>7, <1>8, <1>9, <1>10, <1>11 DEF Next

(* Every variable stays in its set and no channel exceeds its capacity: in *)
(* every reachable state a send or a receive leaves the channels of        *)
(* NewThing and GatewayStart within the sizes they were made with.         *)
THEOREM TypeCorrect == Spec => []TypeOK
<1>1. Spec => []TypeInv
  BY TypeInit, TypeStep, PTL DEF Spec
<1> QED BY <1>1, TypeParts, PTL

-----------------------------------------------------------------------------
(* The inductive invariant of the registry. Beside the properties of       *)
(* Gateway it says where an id comes from and that a delete is sent only   *)
(* by a Thing that has ended.                                              *)

ThingIdIsDevice == \A t \in Thing : thingid[t] \in {NoId, Device[t]}
AddAfterLogin   == \A t \in Thing : sched[t] = "add" => thingid[t] = Device[t]
NotStarted      == \A t \in Thing : conn[t] = "none" => sched[t] = "off" /\ thingid[t] = NoId
HasEnded(x)        == sched[x.thing] = "exit" /\ thingid[x.thing] = x.id
DeletesOfEnded  == /\ \A i \in 1..Len(DeleteThingChan) : HasEnded(DeleteThingChan[i])
                   /\ recv.op = "delete" => HasEnded(recv)

IdInv == TypeInv /\ ThingIdIsDevice /\ AddAfterLogin /\ NotStarted
RegInv == IdInv /\ DeletesOfEnded /\ RegistryNamesLoggedIn
WebInv == RegInv /\ LockedLookupFresh
IInv == WebInv /\ CommandOnlyAfterLogin /\ SoleSessionRegistered

LEMMA IdInit == Init => IdInv
  BY TypeInit DEF Init, IdInv, ThingIdIsDevice, AddAfterLogin, NotStarted

LEMMA IdStep == IdInv /\ [Next]_vars => IdInv'
<1> SUFFICES ASSUME IdInv, [Next]_vars PROVE ThingIdIsDevice' /\ AddAfterLogin' /\ NotStarted'
  BY TypeStep DEF IdInv
<1> USE DEF ThingIdIsDevice, AddAfterLogin, NotStarted, IdInv, TypeInv, ThingTypes
<1>1. ASSUME NEW t \in Thing, Accept(t) \/ Break(t) \/ ReadBreak(t)
      PROVE ThingIdIsDevice' /\ AddAfterLogin' /\ NotStarted'
  BY <1>1 DEF Accept, Break, ReadBreak
<1>2. ASSUME NEW t \in Thing, ReadFrame(t) \/ Timers(t)
      PROVE ThingIdIsDevice' /\ AddAfterLogin' /\ NotStarted'
  BY <1>2 DEF ReadFrame, Timers, WaitClose, CloseTaken, LateExpiry, ReLoginAgain
<1>3. ASSUME NEW t \in Thing, Scheduler(t)
      PROVE ThingIdIsDevice' /\ AddAfterLogin' /\ NotStarted'
  <2>1. CASE LoginSuccessSent(t)
    BY <2>1 DEF LoginSuccessSent, Return, Handling
  <2>2. CASE Take(t) \/ PushEventChannel(t) \/ PushAdd(t) \/ PushDelete(t)
    BY <2>2 DEF Take, PushEventChannel, PushAdd, PushDelete, Return
  <2>3. CASE HandleRegisterReq(t) \/ HandleRequest(t) \/ HandleLoginResponse(t)
    BY <2>3 DEF HandleRegisterReq, HandleRequest, HandleLoginResponse, Push, Return, Handling,
            Closing
  <2>4. CASE LoginSuccessFailed(t) \/ HandleLoginFailure(t) \/ HandleClosed(t)
    BY <2>4 DEF LoginSuccessFailed, HandleLoginFailure, HandleClosed, Return, Handling
  <2>5. CASE HandleReLoginReq(t) \/ HandleAck(t) \/ HandleOther(t)
    BY <2>5 DEF HandleReLoginReq, HandleAck, HandleOther, Return, Handling, Closing
  <2>6. CASE Panic(t)
    BY <2>6 DEF Panic
  <2> QED BY <1>3, <2>1, <2>2, <2>3, <2>4, <2>5, <2>6 DEF Scheduler
<1>4. CASE RecvThingConnection
  BY <1>4 DEF RecvThingConnection, RecvAdd, RecvDelete, ApplyAdd, ApplyDelete, thingVars
<1>5. CASE WebTask \/ WebBadRequest
  BY <1>5 DEF WebTask, WebNotFound, WebFind, WebPush, WebBadRequest, thingVars
<1>6. ASSUME NEW d \in ThingId, WebReceive(d)
      PROVE ThingIdIsDevice' /\ AddAfterLogin' /\ NotStarted'
  BY <1>6 DEF WebReceive, thingVars
<1>7. CASE UNCHANGED vars
  BY <1>7 DEF vars, thingVars
<1> QED BY <1>1, <1>2, <1>3, <1>4, <1>5, <1>6, <1>7 DEF Next

(* No step takes an id away from a Thing that has one, and none restarts a *)
(* Thing that has ended.                                                   *)
LEMMA IdsStay ==
  ASSUME IdInv, [Next]_vars, NEW t \in Thing
  PROVE  /\ thingid[t] # NoId => thingid'[t] = thingid[t]
         /\ sched[t] = "exit" => sched'[t] = "exit" /\ thingid'[t] = thingid[t]
<1> USE DEF ThingIdIsDevice, NotStarted, IdInv, TypeInv, ThingTypes
<1> DEFINE Stay == /\ thingid[t] # NoId => thingid'[t] = thingid[t]
                   /\ sched[t] = "exit" => sched'[t] = "exit" /\ thingid'[t] = thingid[t]
<1>1. ASSUME NEW u \in Thing, Accept(u) \/ Break(u) \/ ReadBreak(u) PROVE Stay
  BY <1>1 DEF Accept, Break, ReadBreak
<1>2. ASSUME NEW u \in Thing, ReadFrame(u) \/ Timers(u) PROVE Stay
  BY <1>2 DEF ReadFrame, Timers, WaitClose, CloseTaken, LateExpiry, ReLoginAgain
<1>3. ASSUME NEW u \in Thing, Scheduler(u) PROVE Stay
  <2>1. CASE LoginSuccessSent(u)
    BY <2>1 DEF LoginSuccessSent, Return, Handling
  <2>2. CASE Take(u) \/ PushEventChannel(u) \/ PushAdd(u) \/ PushDelete(u)
    BY <2>2 DEF Take, PushEventChannel, PushAdd, PushDelete, Return
  <2>3. CASE HandleRegisterReq(u) \/ HandleRequest(u) \/ HandleLoginResponse(u)
    BY <2>3 DEF HandleRegisterReq, HandleRequest, HandleLoginResponse, Push, Return, Handling,
            Closing
  <2>4. CASE LoginSuccessFailed(u) \/ HandleLoginFailure(u) \/ HandleClosed(u)
    BY <2>4 DEF LoginSuccessFailed, HandleLoginFailure, HandleClosed, Return, Handling
  <2>5. CASE HandleReLoginReq(u) \/ HandleAck(u) \/ HandleOther(u)
    BY <2>5 DEF HandleReLoginReq, HandleAck, HandleOther, Return, Handling, Closing
  <2>6. CASE Panic(u)
    BY <2>6 DEF Panic
  <2> QED BY <1>3, <2>1, <2>2, <2>3, <2>4, <2>5, <2>6 DEF Scheduler
<1>4. CASE RecvThingConnection
  BY <1>4 DEF RecvThingConnection, RecvAdd, RecvDelete, ApplyAdd, ApplyDelete, thingVars
<1>5. CASE WebTask \/ WebBadRequest
  BY <1>5 DEF WebTask, WebNotFound, WebFind, WebPush, WebBadRequest, thingVars
<1>6. ASSUME NEW d \in ThingId, WebReceive(d) PROVE Stay
  BY <1>6 DEF WebReceive, thingVars
<1>7. CASE UNCHANGED vars
  BY <1>7 DEF vars, thingVars
<1> QED BY <1>1, <1>2, <1>3, <1>4, <1>5, <1>6, <1>7 DEF Next

(* The steps that touch the registry or the channels to it.                *)
RegAction == \/ \E t \in Thing : PushAdd(t) \/ PushDelete(t)
             \/ RecvThingConnection
             \/ \E t \in Thing : Panic(t)

LEMMA RegFrame == [Next]_vars => RegAction \/ UNCHANGED regVars
<1> SUFFICES ASSUME [Next]_vars PROVE RegAction \/ UNCHANGED regVars
  OBVIOUS
<1>1. ASSUME NEW t \in Thing, Accept(t) \/ Break(t) \/ ReadBreak(t) PROVE UNCHANGED regVars
  BY <1>1 DEF Accept, Break, ReadBreak
<1>2. ASSUME NEW t \in Thing, ReadFrame(t) \/ Timers(t) PROVE UNCHANGED regVars
  BY <1>2 DEF ReadFrame, Timers, WaitClose, CloseTaken, LateExpiry, ReLoginAgain
<1>3. ASSUME NEW t \in Thing, Scheduler(t) PROVE RegAction \/ UNCHANGED regVars
  BY <1>3 DEF Scheduler, RegAction, Take, PushEventChannel, HandleRegisterReq, HandleRequest,
     HandleLoginResponse, LoginSuccessSent, LoginSuccessFailed, HandleLoginFailure,
     HandleReLoginReq, HandleAck, HandleOther, HandleClosed
<1>4. CASE WebTask \/ WebBadRequest
  BY <1>4 DEF WebTask, WebNotFound, WebFind, WebPush, WebBadRequest
<1>5. ASSUME NEW d \in ThingId, WebReceive(d) PROVE UNCHANGED regVars
  BY <1>5 DEF WebReceive
<1>6. CASE UNCHANGED vars
  BY <1>6 DEF vars
<1> QED BY <1>1, <1>2, <1>3, <1>4, <1>5, <1>6 DEF Next, RegAction

LEMMA RegInit == Init => RegInv
  BY IdInit DEF Init, RegInv, DeletesOfEnded, RegistryNamesLoggedIn, Idle

LEMMA RegStep == RegInv /\ [Next]_vars => RegInv'
<1> SUFFICES ASSUME RegInv, [Next]_vars PROVE DeletesOfEnded' /\ RegistryNamesLoggedIn'
  BY IdStep DEF RegInv
<1>0. IdInv /\ IdInv'
  BY IdStep DEF RegInv
<1> DEFINE Named(x) == x.id \in ThingId /\ thingid[x.thing] = x.id
<1>1. ASSUME NEW x, x.thing \in Thing
      PROVE  /\ Named(x) => x.id \in ThingId /\ thingid'[x.thing] = x.id
             /\ HasEnded(x) => sched'[x.thing] = "exit" /\ thingid'[x.thing] = x.id
  BY <1>0, <1>1, IdsStay, ConstantsOK DEF HasEnded
<1>2. /\ AddThingChan \in Seq(ThingConn) /\ DeleteThingChan \in Seq(ThingConn)
      /\ recv \in RecvState
      /\ ThingConns \in [ThingId -> Thing \cup {NoThing}]
  BY <1>0 DEF IdInv, TypeInv, RegTypes
<1>3. /\ \A i \in 1..Len(AddThingChan) : AddThingChan[i].thing \in Thing /\ Named(AddThingChan[i])
      /\ \A i \in 1..Len(DeleteThingChan) :
           DeleteThingChan[i].thing \in Thing /\ HasEnded(DeleteThingChan[i])
      /\ recv.op = "add" => recv.thing \in Thing /\ Named(recv)
      /\ recv.op = "delete" => recv.thing \in Thing /\ HasEnded(recv)
      /\ \A d \in ThingId : ThingConns[d] # NoThing =>
           ThingConns[d] \in Thing /\ thingid[ThingConns[d]] = d
  <2>1. \A i \in 1..Len(AddThingChan) : AddThingChan[i] \in ThingConn
    BY <1>2, ElementOfSeq
  <2>2. \A i \in 1..Len(DeleteThingChan) : DeleteThingChan[i] \in ThingConn
    BY <1>2, ElementOfSeq
  <2>3. recv.op \in {"add", "delete"} => recv.thing \in Thing
    BY <1>2 DEF RecvState, Ended, Idle
  <2> QED BY <1>2, <2>1, <2>2, <2>3 DEF RegInv, DeletesOfEnded, RegistryNamesLoggedIn, ThingConn
<1>4. \A d \in ThingId : ThingConns[d] # NoThing => thingid'[ThingConns[d]] = d
  BY <1>3, <1>0, IdsStay, ConstantsOK
<1>5. CASE UNCHANGED regVars
  <2>1. \A i \in 1..Len(AddThingChan) :
         /\ AddThingChan[i].id \in ThingId
         /\ thingid'[AddThingChan[i].thing] = AddThingChan[i].id
    BY <1>1, <1>3
  <2>2. \A i \in 1..Len(DeleteThingChan) :
         /\ sched'[DeleteThingChan[i].thing] = "exit"
         /\ thingid'[DeleteThingChan[i].thing] = DeleteThingChan[i].id
    BY <1>1, <1>3
  <2> QED BY <1>1, <1>3, <1>4, <1>5, <2>1, <2>2
          DEF regVars, DeletesOfEnded, RegistryNamesLoggedIn, HasEnded
<1>6. ASSUME NEW t \in Thing, PushAdd(t) PROVE DeletesOfEnded' /\ RegistryNamesLoggedIn'
  <2> DEFINE x == [id |-> thingid[t], thing |-> t]
  <2>1. x \in ThingConn /\ Named(x) /\ x.thing \in Thing
    BY <1>0, <1>6, ConstantsOK DEF PushAdd, IdInv, AddAfterLogin, TypeInv, ThingTypes, ThingConn
  <2>2. AddThingChan' = Append(AddThingChan, x)
    BY <1>6 DEF PushAdd
  <2> HIDE DEF x
  <2>3. \A i \in 1..Len(AddThingChan') :
         AddThingChan'[i] = x \/ \E j \in 1..Len(AddThingChan) : AddThingChan'[i] = AddThingChan[j]
    BY <2>1, <2>2, <1>2, Sent
  <2>4. \A i \in 1..Len(AddThingChan') :
         /\ AddThingChan'[i].id \in ThingId
         /\ thingid'[AddThingChan'[i].thing] = AddThingChan'[i].id
    BY <2>1, <2>3, <1>1, <1>3
  <2>5. \A i \in 1..Len(DeleteThingChan) :
         /\ sched'[DeleteThingChan[i].thing] = "exit"
         /\ thingid'[DeleteThingChan[i].thing] = DeleteThingChan[i].id
    BY <1>1, <1>3
  <2>6. UNCHANGED <<DeleteThingChan, recv, ThingConns>>
    BY <1>6 DEF PushAdd
  <2> QED BY <1>1, <1>3, <1>4, <2>4, <2>5, <2>6 DEF DeletesOfEnded, RegistryNamesLoggedIn, HasEnded
<1>7. ASSUME NEW t \in Thing, PushDelete(t) PROVE DeletesOfEnded' /\ RegistryNamesLoggedIn'
  <2> DEFINE x == [id |-> thingid[t], thing |-> t]
  <2>1. /\ x \in ThingConn
        /\ sched'[x.thing] = "exit" /\ thingid'[x.thing] = x.id
    BY <1>0, <1>7 DEF PushDelete, IdInv, TypeInv, ThingTypes, ThingConn
  <2>2. DeleteThingChan' = Append(DeleteThingChan, x)
    BY <1>7 DEF PushDelete
  <2> HIDE DEF x
  <2>3. \A i \in 1..Len(DeleteThingChan') :
         DeleteThingChan'[i] = x
         \/ \E j \in 1..Len(DeleteThingChan) : DeleteThingChan'[i] = DeleteThingChan[j]
    BY <2>1, <2>2, <1>2, Sent
  <2>4. \A i \in 1..Len(DeleteThingChan') :
         /\ sched'[DeleteThingChan'[i].thing] = "exit"
         /\ thingid'[DeleteThingChan'[i].thing] = DeleteThingChan'[i].id
    BY <2>1, <2>3, <1>1, <1>3
  <2>5. \A i \in 1..Len(AddThingChan) :
         /\ AddThingChan[i].id \in ThingId
         /\ thingid'[AddThingChan[i].thing] = AddThingChan[i].id
    BY <1>1, <1>3
  <2>6. UNCHANGED <<AddThingChan, recv, ThingConns>>
    BY <1>7 DEF PushDelete
  <2> QED BY <1>1, <1>3, <1>4, <2>4, <2>5, <2>6 DEF DeletesOfEnded, RegistryNamesLoggedIn, HasEnded
<1>8. CASE RecvThingConnection
  <2>0. UNCHANGED <<sched, thingid>>
    BY <1>8 DEF RecvThingConnection, RecvAdd, RecvDelete, ApplyAdd, ApplyDelete, thingVars
  <2>1. CASE RecvAdd
    <3>1. AddThingChan # <<>> /\ AddThingChan' = Tail(AddThingChan)
      BY <2>1 DEF RecvAdd
    <3>2. /\ Named(AddThingChan[1])
          /\ Head(AddThingChan) = AddThingChan[1]
          /\ \A i \in 1..Len(AddThingChan') :
               i + 1 \in 1..Len(AddThingChan) /\ AddThingChan'[i] = AddThingChan[i + 1]
      BY <3>1, <1>2, <1>3, Received
    <3>3. /\ recv'.op = "add" /\ Named(recv')
          /\ UNCHANGED <<DeleteThingChan, ThingConns>>
      BY <2>1, <3>2 DEF RecvAdd
    <3> QED BY <1>3, <2>0, <3>2, <3>3 DEF DeletesOfEnded, RegistryNamesLoggedIn, HasEnded
  <2>2. CASE RecvDelete
    <3>1. DeleteThingChan # <<>> /\ DeleteThingChan' = Tail(DeleteThingChan)
      BY <2>2 DEF RecvDelete
    <3>2. /\ HasEnded(DeleteThingChan[1])
          /\ Head(DeleteThingChan) = DeleteThingChan[1]
          /\ \A i \in 1..Len(DeleteThingChan') :
               i + 1 \in 1..Len(DeleteThingChan) /\ DeleteThingChan'[i] = DeleteThingChan[i + 1]
      BY <3>1, <1>2, <1>3, Received
    <3>3. /\ recv'.op = "delete" /\ HasEnded(recv')
          /\ UNCHANGED <<AddThingChan, ThingConns>>
      BY <2>2, <3>2 DEF RecvDelete, HasEnded
    <3> QED BY <1>3, <2>0, <3>2, <3>3 DEF DeletesOfEnded, RegistryNamesLoggedIn, HasEnded
  <2>3. CASE ApplyAdd
    <3>1. recv'.op = "select" /\ UNCHANGED <<AddThingChan, DeleteThingChan>>
      BY <2>3 DEF ApplyAdd, Idle
    <3>2. \A d \in ThingId : ThingConns'[d] # NoThing => thingid[ThingConns'[d]] = d
      BY <2>3, <1>3 DEF ApplyAdd
    <3> QED BY <1>3, <2>0, <3>1, <3>2 DEF DeletesOfEnded, RegistryNamesLoggedIn, HasEnded
  <2>4. CASE ApplyDelete
    <3>1. recv'.op = "select" /\ UNCHANGED <<AddThingChan, DeleteThingChan>>
      BY <2>4 DEF ApplyDelete, Idle
    <3>2. \A d \in ThingId : ThingConns'[d] # NoThing => thingid[ThingConns'[d]] = d
      BY <2>4, <1>3 DEF ApplyDelete
    <3> QED BY <1>3, <2>0, <3>1, <3>2 DEF DeletesOfEnded, RegistryNamesLoggedIn, HasEnded
  <2> QED BY <1>8, <2>1, <2>2, <2>3, <2>4 DEF RecvThingConnection
<1>9. ASSUME NEW t \in Thing, Panic(t) PROVE DeletesOfEnded' /\ RegistryNamesLoggedIn'
  <2>1. recv'.op = "exit" /\ UNCHANGED <<AddThingChan, DeleteThingChan, ThingConns, thingid>>
    BY <1>9 DEF Panic, Ended, Idle
  <2>2. \A i \in 1..Len(DeleteThingChan) : sched'[DeleteThingChan[i].thing] = "exit"
    BY <1>3, <1>9 DEF Panic
  <2> QED BY <1>3, <2>1, <2>2 DEF DeletesOfEnded, RegistryNamesLoggedIn, HasEnded
<1> QED BY <1>5, <1>6, <1>7, <1>8, <1>9, RegFrame DEF RegAction

-----------------------------------------------------------------------------
(* The lock.                                                               *)

LEMMA WebInit == Init => WebInv
  BY RegInit DEF Init, WebInv, LockedLookupFresh, WebIdle

LEMMA WebStep == WebInv /\ [Next]_vars => WebInv'
<1> SUFFICES ASSUME WebInv, [Next]_vars PROVE LockedLookupFresh'
  BY RegStep DEF WebInv
<1> USE DEF LockedLookupFresh, WebInv
<1>1. ASSUME NEW t \in Thing, Accept(t) \/ Break(t) \/ ReadBreak(t) PROVE LockedLookupFresh'
  BY <1>1 DEF Accept, Break, ReadBreak, regVars, webVars
<1>2. ASSUME NEW t \in Thing, ReadFrame(t) \/ Timers(t) PROVE LockedLookupFresh'
  BY <1>2 DEF ReadFrame, Timers, WaitClose, CloseTaken, LateExpiry, ReLoginAgain,
     regVars, webVars
<1>3. ASSUME NEW t \in Thing, Scheduler(t) PROVE LockedLookupFresh'
  BY <1>3 DEF Scheduler, Take, PushEventChannel, HandleRegisterReq, HandleRequest,
     HandleLoginResponse, LoginSuccessSent, LoginSuccessFailed, HandleLoginFailure, PushAdd,
     HandleReLoginReq, HandleAck, HandleOther, HandleClosed, PushDelete, Panic, WebIdle, regVars,
     webVars
<1>4. CASE RecvThingConnection
  <2>1. CASE RecvAdd \/ RecvDelete
    BY <2>1 DEF RecvAdd, RecvDelete, webVars
  <2>2. CASE ApplyAdd \/ ApplyDelete
    <3>1. lock = "free" /\ UNCHANGED <<lock, web>>
      BY <2>2 DEF ApplyAdd, ApplyDelete, webVars
    <3>2. web.pc # "push"
      BY <3>1
    <3> QED BY <3>1, <3>2
  <2> QED BY <1>4, <2>1, <2>2 DEF RecvThingConnection
<1>5. CASE WebTask
  <2>1. CASE WebNotFound \/ WebPush
    BY <2>1 DEF WebNotFound, WebPush, WebIdle
  <2>2. CASE WebFind
    <3>1. web'.pc = "push" /\ web'.id = web.id /\ web'.thing = ThingConns[web.id]
      BY <2>2 DEF WebFind, RegInv, IdInv, TypeInv, WebTypes, WebState
    <3> QED BY <2>2, <3>1 DEF WebFind, regVars
  <2> QED BY <1>5, <2>1, <2>2 DEF WebTask
<1>6. CASE WebBadRequest
  BY <1>6 DEF WebBadRequest, WebIdle
<1>7. ASSUME NEW d \in ThingId, WebReceive(d) PROVE LockedLookupFresh'
  BY <1>7 DEF WebReceive
<1>8. CASE UNCHANGED vars
  BY <1>8 DEF vars, regVars, webVars
<1> QED BY <1>1, <1>2, <1>3, <1>4, <1>5, <1>6, <1>7, <1>8 DEF Next

-----------------------------------------------------------------------------
(* Commands reach a Thing only after its login.                            *)

Commanded(t) == InChan(ThingMsgChan[t], Command) \/ cur[t] = Command

(* The queue of a Thing changes by one event at either end; a command gets *)
(* into it only through WebPush.                                           *)
LEMMA CommandsFrom ==
  ASSUME WebInv, [Next]_vars, NEW t \in Thing, Commanded(t)'
  PROVE  Commanded(t) \/ (WebPush /\ web.thing = t)
<1> DEFINE Goal == Commanded(t) \/ (WebPush /\ web.thing = t)
<1> USE DEF Commanded
<1>1. /\ ThingMsgChan \in [Thing -> Seq(Events)]
      /\ cur \in [Thing -> Events \cup {"none"}]
      /\ web.pc = "push" => web.thing \in Thing
  BY DEF WebInv, RegInv, IdInv, TypeInv, ThingTypes, WebTypes
<1>2. ASSUME NEW u \in Thing, NEW e \in Events, e # Command, UNCHANGED cur \/ cur'[t] = "none",
             ThingMsgChan' = [ThingMsgChan EXCEPT ![u] = Append(@, e)]
      PROVE Goal
  <2>1. CASE cur'[t] = Command
    BY <2>1, <1>2 DEF Command
  <2>2. CASE InChan(ThingMsgChan'[t], Command)
    <3>1. /\ ThingMsgChan[u] \in Seq(Events)
          /\ ThingMsgChan'[t] = IF t = u THEN Append(ThingMsgChan[u], e) ELSE ThingMsgChan[t]
      BY <1>1, <1>2
    <3>2. PICK i \in 1..Len(ThingMsgChan'[t]) : ThingMsgChan'[t][i] = Command
      BY <2>2 DEF InChan
    <3>3. CASE t = u
      <4>1. i \in 1..Len(ThingMsgChan[t]) /\ ThingMsgChan[t][i] = Command
        BY <1>2, <3>1, <3>2, <3>3, Sent
      <4> QED BY <4>1 DEF InChan
    <3> QED BY <3>1, <3>2, <3>3 DEF InChan
  <2> QED BY <2>1, <2>2
<1>3. ASSUME UNCHANGED ThingMsgChan, cur'[t] # Command \/ UNCHANGED cur PROVE Goal
  BY <1>3 DEF Command
<1>4. ASSUME NEW u \in Thing, Accept(u) \/ Break(u) PROVE Goal
  BY <1>3, <1>4 DEF Accept, Break
<1>5. ASSUME NEW u \in Thing, ReadBreak(u) PROVE Goal
  BY <1>2, <1>5 DEF ReadBreak, Events, Command
<1>6. ASSUME NEW u \in Thing, ReadFrame(u) PROVE Goal
  <2>1. PICK e \in FrameEvents : ThingMsgChan' = [ThingMsgChan EXCEPT ![u] = Append(@, e)]
    BY <1>6, ReadsFrameEvent DEF WebInv, RegInv, IdInv, TypeInv
  <2>2. e \in Events /\ e # Command BY DEF Events, FrameEvents, Command
  <2> QED BY <1>2, <1>6, <2>1, <2>2 DEF ReadFrame
<1>13. ASSUME NEW u \in Thing, Timers(u) PROVE Goal
  <2>1. CASE WaitClose(u) \/ CloseTaken(u) \/ LateExpiry(u)
    BY <1>3, <2>1 DEF WaitClose, CloseTaken, LateExpiry
  <2>2. CASE ReLoginAgain(u)
    BY <1>2, <2>2 DEF ReLoginAgain, Events, FrameEvents, Command
  <2> QED BY <1>13, <2>1, <2>2 DEF Timers
<1>7. ASSUME NEW u \in Thing, Scheduler(u) PROVE Goal
  <2>1. CASE Take(u)
    <3>1. /\ ThingMsgChan[u] \in Seq(Events) /\ ThingMsgChan[u] # <<>>
          /\ cur'[t] = IF t = u THEN Head(ThingMsgChan[u]) ELSE cur[t]
          /\ ThingMsgChan'[t] = IF t = u THEN Tail(ThingMsgChan[u]) ELSE ThingMsgChan[t]
      BY <2>1, <1>1 DEF Take
    <3>2. CASE t = u
      <4>1. CASE cur'[t] = Command
        BY <3>1, <3>2, <4>1, Received DEF InChan
      <4>2. CASE InChan(ThingMsgChan'[t], Command)
        <5>1. PICK i \in 1..Len(ThingMsgChan'[t]) : ThingMsgChan'[t][i] = Command
          BY <4>2 DEF InChan
        <5>2. i + 1 \in 1..Len(ThingMsgChan[t]) /\ ThingMsgChan[t][i + 1] = Command
          BY <3>1, <3>2, <5>1, Received
        <5> QED BY <5>2 DEF InChan
      <4> QED BY <4>1, <4>2
    <3> QED BY <3>1, <3>2
  <2>2. CASE PushEventChannel(u)
    <3>1. cur[u] \in Events
      BY <2>2 DEF PushEventChannel, WebInv, RegInv, IdInv, TypeInv, WebTypes
    <3>2. cur' = [cur EXCEPT ![u] = "none"]
          /\ ThingMsgChan' = [ThingMsgChan EXCEPT ![u] = Append(@, cur[u])]
      BY <2>2 DEF PushEventChannel, Return
    <3>3. CASE t = u /\ cur[u] = Command
      BY <3>3
    <3>4. CASE t = u /\ cur[u] # Command
      BY <1>1, <1>2, <3>1, <3>2, <3>4
    <3>5. CASE t # u
      BY <1>1, <3>2, <3>5
    <3> QED BY <3>3, <3>4, <3>5
  <2>3. CASE HandleRegisterReq(u)
    BY <2>3, <1>1, <1>3 DEF HandleRegisterReq, Push, Command
  <2>4. CASE HandleLoginResponse(u)
    BY <2>4, <1>1, <1>3 DEF HandleLoginResponse, Push, Return, Command

        <2>5. CASE LoginSuccessSent(u) \/ LoginSuccessFailed(u) \/ HandleLoginFailure(u) \/ HandleClosed(u)
    BY <2>5, <1>1, <1>3
       DEF LoginSuccessSent, LoginSuccessFailed, HandleLoginFailure, HandleClosed, Return, Command
  <2>7. CASE HandleReLoginReq(u) \/ HandleAck(u) \/ HandleOther(u)
    BY <2>7, <1>1, <1>3 DEF HandleReLoginReq, HandleAck, HandleOther, Return, Command
  <2>8. CASE HandleRequest(u)
    <3>1. ASSUME NEW e \in DOMAIN Answer, Push(u, Answer[e]) PROVE Goal
      <4>1. Answer[e] \in FrameEvents BY DEF Answer, FrameEvents
      <4>2. Answer[e] # Command BY <4>1 DEF FrameEvents, Command
      <4>3. cur'[t] # Command \/ cur'[t] = cur[t]
        BY <1>1, <3>1, <4>2 DEF Push
      <4> QED BY <2>8, <4>3 DEF HandleRequest
    <3>2. CASE Return(u, "select")
      BY <2>8, <3>2, <1>1, <1>3 DEF HandleRequest, Return, Command
    <3> QED BY <2>8, <3>1, <3>2 DEF HandleRequest
  <2>9. CASE Panic(u)
    BY <2>9, <1>3 DEF Panic
  <2>6. CASE PushAdd(u) \/ PushDelete(u)
    BY <2>6, <1>3 DEF PushAdd, PushDelete
  <2> QED BY <1>7, <2>1, <2>2, <2>3, <2>4, <2>5, <2>6, <2>7, <2>8, <2>9 DEF Scheduler
<1>8. CASE RecvThingConnection
  BY <1>3, <1>8 DEF RecvThingConnection, RecvAdd, RecvDelete, ApplyAdd, ApplyDelete, thingVars
<1>9. CASE WebTask
  <2>1. CASE WebNotFound \/ WebFind
    BY <1>3, <2>1 DEF WebNotFound, WebFind, thingVars
  <2>2. CASE WebPush
    BY <1>1, <2>2 DEF WebPush
  <2> QED BY <1>9, <2>1, <2>2 DEF WebTask
<1>10. CASE WebBadRequest
  BY <1>3, <1>10 DEF WebBadRequest, thingVars
<1>11. ASSUME NEW d \in ThingId, WebReceive(d) PROVE Goal
  BY <1>3, <1>11 DEF WebReceive, thingVars
<1>12. CASE UNCHANGED vars
  BY <1>3, <1>12 DEF vars, thingVars
<1> QED BY <1>4, <1>5, <1>6, <1>7, <1>8, <1>9, <1>10, <1>11, <1>12, <1>13 DEF Next

LEMMA CommandStep == WebInv /\ CommandOnlyAfterLogin /\ [Next]_vars => CommandOnlyAfterLogin'
<1> SUFFICES ASSUME WebInv, CommandOnlyAfterLogin, [Next]_vars, NEW t \in Thing, Commanded(t)'
             PROVE  thingid'[t] = Device[t]
  BY DEF CommandOnlyAfterLogin, Commanded, Command
<1>1. Commanded(t) \/ (WebPush /\ web.thing = t)
  BY CommandsFrom
<1>2. thingid[t] = Device[t]
  <2>1. CASE Commanded(t)
    BY <2>1 DEF CommandOnlyAfterLogin, Commanded, Command
  <2>2. CASE WebPush /\ web.thing = t
    <3>1. web.id \in ThingId /\ ThingConns[web.id] = t /\ t # NoThing
      BY <2>2, ConstantsOK DEF WebPush, WebInv, LockedLookupFresh, RegInv, IdInv, TypeInv, WebTypes
    <3>2. thingid[t] = web.id
      BY <3>1 DEF WebInv, RegInv, RegistryNamesLoggedIn
    <3> QED BY <3>1, <3>2, ConstantsOK DEF WebInv, RegInv, IdInv, ThingIdIsDevice
  <2> QED BY <1>1, <2>1, <2>2
<1> QED BY <1>2, IdsStay, ConstantsOK DEF WebInv, RegInv

-----------------------------------------------------------------------------
(* A live session is not lost.                                             *)

(* What can end an add that is under way: only its being applied, or the   *)
(* end of the process.                                                     *)
LEMMA AddsProgress ==
  ASSUME WebInv, [Next]_vars, NEW t \in Thing, AddPending(t), thingid[t] = Device[t],
         \A u \in Thing : ~Panic(u)
  PROVE  AddPending(t)' \/ ThingConns'[Device[t]] = t
<1> DEFINE Goal == AddPending(t)' \/ ThingConns'[Device[t]] = t
<1>1. /\ AddThingChan \in Seq(ThingConn)
      /\ recv \in RecvState
      /\ ThingConns \in [ThingId -> Thing \cup {NoThing}]
      /\ sched \in [Thing -> SchedStates]
      /\ AddOf(t) \in ThingConn
      /\ Device[t] \in ThingId
  BY ConstantsOK DEF WebInv, RegInv, IdInv, TypeInv, ThingTypes, RegTypes, AddOf, ThingConn
<1>2. CASE InChan(AddThingChan, AddOf(t))
  <2>1. PICK i \in 1..Len(AddThingChan) : AddThingChan[i] = AddOf(t)
    BY <1>2 DEF InChan
  <2>2. ASSUME NEW u \in Thing, PushAdd(u) PROVE Goal
    <3>1. [id |-> thingid[u], thing |-> u] \in ThingConn
      BY DEF WebInv, RegInv, IdInv, TypeInv, ThingTypes, ThingConn
    <3>2. i \in 1..Len(AddThingChan') /\ AddThingChan'[i] = AddOf(t)
      BY <1>1, <2>1, <2>2, <3>1, Sent DEF PushAdd
    <3> QED BY <3>2 DEF AddPending, InChan, AddOf
  <2>3. CASE RecvAdd
    <3>1. AddThingChan # <<>> /\ AddThingChan' = Tail(AddThingChan)
      BY <2>3 DEF RecvAdd
    <3>2. CASE i = 1
      BY <1>1, <2>1, <2>3, <3>1, <3>2, Received DEF RecvAdd, AddPending, AddOf
    <3>3. CASE i # 1
      <4>1. i - 1 \in 1..Len(AddThingChan') /\ AddThingChan'[i - 1] = AddOf(t)
        BY <1>1, <2>1, <3>1, <3>3, Received
      <4> QED BY <4>1 DEF AddPending, InChan, AddOf
    <3> QED BY <3>2, <3>3
  <2>4. CASE UNCHANGED AddThingChan
    BY <1>2, <2>4 DEF AddPending, InChan, AddOf
  <2> QED BY <2>2, <2>3, <2>4, RegFrame
          DEF RegAction, RecvThingConnection, PushDelete, RecvDelete, ApplyAdd, ApplyDelete, regVars
<1>3. CASE recv = [op |-> "add", id |-> Device[t], thing |-> t]
  <2>1. CASE ApplyAdd
    BY <1>1, <1>3, <2>1 DEF ApplyAdd
  <2>2. CASE UNCHANGED recv
    BY <1>3, <2>2 DEF AddPending
  <2>3. ~RecvAdd /\ ~RecvDelete /\ ~ApplyDelete
    BY <1>3 DEF RecvAdd, RecvDelete, ApplyDelete, Idle
  <2> QED BY <2>1, <2>2, <2>3, RegFrame
          DEF RegAction, RecvThingConnection, PushAdd, PushDelete, regVars
<1>4. CASE sched[t] = "add"
  <2>1. CASE PushAdd(t)
    <3>1. [id |-> thingid[t], thing |-> t] = AddOf(t) /\ AddThingChan' = Append(AddThingChan,
         AddOf(t))
      BY <2>1 DEF PushAdd, AddOf

            <3>2. Len(AddThingChan') \in 1..Len(AddThingChan') /\ AddThingChan'[Len(AddThingChan')] = AddOf(t)
      BY <1>1, <3>1, Sent
    <3> QED BY <3>2 DEF AddPending, InChan, AddOf
  <2>2. CASE sched'[t] = "add"
    BY <2>2 DEF AddPending
  <2>3. ASSUME NEW u \in Thing, Scheduler(u), ~PushAdd(t) PROVE sched'[t] = "add"
    BY <1>1, <1>4, <2>3 DEF Scheduler, Take, PushEventChannel, HandleRegisterReq, HandleRequest,
       HandleLoginResponse, LoginSuccessSent, LoginSuccessFailed, HandleLoginFailure, PushAdd,
       HandleReLoginReq, HandleAck, HandleOther, HandleClosed, PushDelete, Handling, Closing, Push,
       Return
  <2>4. ASSUME NEW u \in Thing, Accept(u) PROVE sched'[t] = "add"
    BY <1>1, <1>4, <2>4 DEF Accept, WebInv, RegInv, IdInv, NotStarted
  <2>5. ASSUME NEW u \in Thing, Break(u) \/ ReadBreak(u) \/ ReadFrame(u)
        PROVE  UNCHANGED sched
    BY <2>5 DEF Break, ReadBreak, ReadFrame
  <2>8. ASSUME NEW u \in Thing, Timers(u) PROVE sched'[t] = "add"
    BY <1>1, <1>4, <2>8 DEF Timers, WaitClose, CloseTaken, LateExpiry, ReLoginAgain
  <2>6. ASSUME RecvThingConnection \/ WebTask \/ WebBadRequest \/ \E d \in ThingId : WebReceive(d)
        PROVE  UNCHANGED sched
    BY <2>6 DEF RecvThingConnection, RecvAdd, RecvDelete, ApplyAdd, ApplyDelete, WebTask,
       WebNotFound,
       WebFind, WebPush, WebBadRequest, WebReceive, thingVars
  <2>7. CASE UNCHANGED vars
    BY <1>4, <2>7 DEF vars, thingVars, AddPending
  <2> QED BY <1>4, <2>1, <2>2, <2>3, <2>4, <2>5, <2>6, <2>7, <2>8 DEF Next
<1> QED BY <1>2, <1>3, <1>4 DEF AddPending

(* A Thing gets its id only in LoginSuccess, which goes on to the add.     *)
LEMMA LoginAdds ==
  ASSUME WebInv, [Next]_vars, NEW t \in Thing, Live(t)', thingid'[t] # NoId
  PROVE  (Live(t) /\ thingid[t] # NoId) \/ sched'[t] = "add"
<1> DEFINE Goal == (Live(t) /\ thingid[t] # NoId) \/ sched'[t] = "add"
<1> USE DEF Live
<1>1. /\ sched \in [Thing -> SchedStates]
      /\ thingid \in [Thing -> ThingId \cup {NoId}]
  BY DEF WebInv, RegInv, IdInv, TypeInv, ThingTypes
<1>2. ASSUME NEW u \in Thing, Accept(u) PROVE Goal
  BY <1>1, <1>2 DEF Accept, WebInv, RegInv, IdInv, NotStarted
<1>3. ASSUME NEW u \in Thing, Scheduler(u) PROVE Goal
  <2>1. CASE LoginSuccessSent(u)
    BY <1>1, <2>1 DEF LoginSuccessSent, Return
  <2>2. CASE HandleClosed(u) \/ PushDelete(u)
    BY <1>1, <2>2 DEF HandleClosed, PushDelete, Return
  <2>3. CASE Take(u) \/ PushEventChannel(u) \/ PushAdd(u) \/ HandleLoginFailure(u)
    BY <1>1, <2>3 DEF Take, PushEventChannel, PushAdd, HandleLoginFailure, Handling, Return

        <2>4. CASE HandleRegisterReq(u) \/ HandleRequest(u) \/ HandleLoginResponse(u) \/ LoginSuccessFailed(u)
    BY <1>1, <2>4 DEF HandleRegisterReq, HandleRequest, HandleLoginResponse, LoginSuccessFailed,
       Handling, Closing, Push, Return
  <2>5. CASE HandleReLoginReq(u) \/ HandleAck(u) \/ HandleOther(u)
    BY <1>1, <2>5 DEF HandleReLoginReq, HandleAck, HandleOther, Handling, Closing, Return
  <2>6. CASE Panic(u)
    BY <2>6 DEF Panic
  <2> QED BY <1>3, <2>1, <2>2, <2>3, <2>4, <2>5, <2>6 DEF Scheduler
<1>4. ASSUME NEW u \in Thing, Break(u) \/ ReadBreak(u) \/ ReadFrame(u)
      PROVE  Goal
  BY <1>4 DEF Break, ReadBreak, ReadFrame
<1>7. ASSUME NEW u \in Thing, Timers(u) PROVE Goal
  BY <1>1, <1>7 DEF Timers, WaitClose, CloseTaken, LateExpiry, ReLoginAgain
<1>5. ASSUME RecvThingConnection \/ WebTask \/ WebBadRequest \/ \E d \in ThingId : WebReceive(d)
      PROVE  Goal
  BY <1>5 DEF RecvThingConnection, RecvAdd, RecvDelete, ApplyAdd, ApplyDelete, WebTask, WebNotFound,
     WebFind, WebPush, WebBadRequest, WebReceive, thingVars
<1>6. CASE UNCHANGED vars
  BY <1>6 DEF vars, thingVars
<1> QED BY <1>2, <1>3, <1>4, <1>5, <1>6, <1>7 DEF Next

(* An entry of the registry that names t goes only when an add or a delete *)
(* of the same id is applied.                                              *)
LEMMA EntryGoes ==
  ASSUME WebInv, [Next]_vars, NEW d \in ThingId, ThingConns'[d] # ThingConns[d]
  PROVE  (ApplyAdd \/ ApplyDelete) /\ recv.id = d /\ recv.thing \in Thing
<1>1. ThingConns \in [ThingId -> Thing \cup {NoThing}] /\ recv \in RecvState
  BY DEF WebInv, RegInv, IdInv, TypeInv, RegTypes
<1>2. ApplyAdd \/ ApplyDelete
  BY RegFrame DEF RegAction, RecvThingConnection, PushAdd, PushDelete, RecvAdd, RecvDelete, Panic,
     regVars
<1>3. recv.id = d
  BY <1>1, <1>2 DEF ApplyAdd, ApplyDelete
<1>4. recv.op \in {"add", "delete"}
  BY <1>2 DEF ApplyAdd, ApplyDelete
<1> QED BY <1>1, <1>2, <1>3, <1>4 DEF RecvState, Ended, Idle

LEMMA SessionStep == WebInv /\ SoleSessionRegistered /\ [Next]_vars => SoleSessionRegistered'
<1> SUFFICES ASSUME WebInv, SoleSessionRegistered, [Next]_vars, NEW t \in Thing,
                    Live(t)', thingid'[t] # NoId,
                    \A u \in Thing \ {t} : thingid'[u] # thingid'[t]
             PROVE  AddPending(t)' \/ ThingConns'[Device[t]] = t
  BY DEF SoleSessionRegistered
<1>1. CASE sched'[t] = "add"
  BY <1>1 DEF AddPending
<1>2. CASE Live(t) /\ thingid[t] # NoId
  <2>1. thingid[t] = Device[t] /\ Device[t] \in ThingId
    BY <1>2, ConstantsOK DEF WebInv, RegInv, IdInv, ThingIdIsDevice
  <2>4. \A u \in Thing \ {t} : thingid[u] # thingid[t]
    BY <1>2, IdsStay DEF WebInv, RegInv
  <2>2. CASE AddPending(t)
    <3>1. \A u \in Thing : ~Panic(u)
      BY DEF Panic, Live
    <3> QED BY <2>1, <2>2, <3>1, AddsProgress
  <2>3. CASE ThingConns[Device[t]] = t /\ ThingConns'[Device[t]] # t
    <3>1. (ApplyAdd \/ ApplyDelete) /\ recv.id = Device[t] /\ recv.thing \in Thing
      BY <2>1, <2>3, EntryGoes
    <3>2. thingid[recv.thing] = Device[t]
      BY <3>1 DEF ApplyAdd, ApplyDelete, WebInv, RegInv, DeletesOfEnded, HasEnded,
         RegistryNamesLoggedIn
    <3>3. recv.thing = t
      BY <2>1, <2>4, <3>1, <3>2
    <3>4. CASE ApplyAdd
      BY <2>1, <2>3, <3>1, <3>3, <3>4 DEF ApplyAdd, WebInv, RegInv, IdInv, TypeInv, RegTypes
    <3>5. CASE ApplyDelete
      BY <1>2, <3>3, <3>5 DEF ApplyDelete, Live, WebInv, RegInv, DeletesOfEnded, HasEnded
    <3> QED BY <3>1, <3>4, <3>5
  <2> QED BY <1>2, <2>2, <2>3, <2>4 DEF SoleSessionRegistered
<1> QED BY <1>1, <1>2, LoginAdds

-----------------------------------------------------------------------------
(* The theorems.                                                           *)

LEMMA IInvInductive == Spec => []IInv
<1>1. Init => IInv
  BY WebInit DEF Init, IInv, CommandOnlyAfterLogin, SoleSessionRegistered, InChan, Live, Command
<1>2. IInv /\ [Next]_vars => IInv'
  BY WebStep, CommandStep, SessionStep DEF IInv
<1> QED BY <1>1, <1>2, PTL DEF Spec

(* WebTask holds gw.lock from the lookup to the push, and as long as it    *)
(* does the entry names the Thing it pushes to.                            *)
THEOREM LookupFresh == Spec => []LockedLookupFresh
<1>1. IInv => LockedLookupFresh
  BY DEF IInv, WebInv
<1> QED BY <1>1, IInvInductive, PTL

(* The registry, and every add on its way, names a Thing logged in as that *)
(* very device.                                                            *)
THEOREM NamesLoggedIn == Spec => []RegistryNamesLoggedIn
<1>1. IInv => RegistryNamesLoggedIn
  BY DEF IInv, WebInv, RegInv
<1> QED BY <1>1, IInvInductive, PTL

(* A command of the web is queued at, or handled by, a Thing only after    *)
(* the login of that Thing's device.                                       *)
THEOREM CommandAfterLogin == Spec => []CommandOnlyAfterLogin
<1>1. IInv => CommandOnlyAfterLogin
  BY DEF IInv
<1> QED BY <1>1, IInvInductive, PTL

(* The only Thing that has logged in as a device is in the registry, or    *)
(* its add is under way, from its login until its scheduler ends.          *)
THEOREM SessionRegistered == Spec => []SoleSessionRegistered
<1>1. IInv => SoleSessionRegistered
  BY DEF IInv
<1> QED BY <1>1, IInvInductive, PTL

(* An entry is removed only for a Thing that was logged in as that device  *)
(* and has ended.                                                          *)
THEOREM RemovalAfterEnd == Spec => RemovalNeedsDeadSession
<1> DEFINE Removal == \A d \in ThingId : ThingConns[d] # NoThing /\ ThingConns'[d] = NoThing =>
                        \E t \in Thing : sched[t] = "exit" /\ thingid[t] = d
<1>1. IInv /\ [Next]_vars => [Removal]_vars
  <2> SUFFICES ASSUME IInv, [Next]_vars, NEW d \in ThingId,
                      ThingConns[d] # NoThing, ThingConns'[d] = NoThing
               PROVE  \E t \in Thing : sched[t] = "exit" /\ thingid[t] = d
    OBVIOUS
  <2>1. (ApplyAdd \/ ApplyDelete) /\ recv.id = d /\ recv.thing \in Thing
    BY EntryGoes DEF IInv
  <2>2. ~ApplyAdd
    BY <2>1, ConstantsOK DEF ApplyAdd, IInv, WebInv, RegInv, IdInv, TypeInv, RegTypes
  <2> QED BY <2>1, <2>2 DEF ApplyDelete, IInv, WebInv, RegInv, DeletesOfEnded, HasEnded
<1> QED BY <1>1, IInvInductive, PTL DEF Spec, RemovalNeedsDeadSession
=============================================================================
