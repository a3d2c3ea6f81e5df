------------------------------ MODULE Gateway ------------------------------
(***************************************************************************)
(* The gateway process of iot/gateway: one Thing (event channel, scheduler *)
(* goroutine, TCP reader goroutine) per accepted connection, the registry  *)
(* ThingConns of logged-in Things kept by recvThingConnection, and the     *)
(* goroutine of WebTask that looks a device up under gw.lock and pushes    *)
(* the command on its Thing's event channel while it still holds the lock. *)
(*                                                                         *)
(* A goroutine blocked on a full channel is an action that is not enabled. *)
(* Of an event's handler this module keeps what it does to the channels,   *)
(* the registry and thingid; the handshake with what it keeps in the       *)
(* database and the exchanges are in Handshake, Exchange, RemoteControl.   *)
(***************************************************************************)
EXTENDS Naturals, Sequences

CONSTANTS
  Thing,        (* accepted TCP connections, one Thing each              *)
  ThingId,      (* devices with a row in thingbaseinfodata_tbl           *)
  Device,       (* the device that dialled each connection               *)
  NoId,         (* the zero value of thing.thingid                       *)
  NoThing,      (* "no entry" in ThingConns                              *)
  ThingMsgCap,  (* capacity of a Thing's event channel (128 in the code) *)
  RegChanCap,   (* capacity of AddThingChan, DeleteThingChan (128)       *)
  Frames,       (* bound: what each frame of a connection may be         *)
  Waits,        (* bound: the handlers whose timer may run out around    *)
                (* them, so that they find its close channel full        *)
  MaxWeb        (* bound: requests read from the web                     *)

(* eventTypeMapAidMidTable: what GetEventTypeByAidMid makes of a frame.    *)
FrameEvents ==
  {"RegisterReqEventMessage", "RegisterAckEventMessage",
   "EventLoginRequest", "EventLoginChallenge", "EventLoginResponse",
   "EventLoginFailure", "EventLoginSuccess",
   "EventReLoginRequest", "EventReLoginAck",
   "EventReadConfigRequest", "EventReadConfigAck",
   "EventSetConfigRequest", "EventSetConfigAck",
   "EventHeartbeatRequest", "EventHeartbeatAck",
   "EventRemoteOperationRequest", "EventDispatcherAckMessage",
   "EventRemoteOperationEnd", "EventRemoteOperationAck",
   "EventThingInfoUpload", "EventThingInfoUploadAck",
   "UnknownEventMessage"}

(* WebTask pushes EventRemoteOperationRequest too, and with a Param.       *)
Command == "EventRemoteOperationRequest with Param"

Events == FrameEvents \cup {Command, "EventConnectionClosed"}

(* The handlers that send on the close channel (capacity 1) of a timer.    *)
SendsClose ==
  {"EventLoginResponse", "EventReLoginAck", "EventReadConfigAck", "EventSetConfigAck",
   "EventDispatcherAckMessage", "EventRemoteOperationEnd", "EventRemoteOperationAck"}

(* The handlers that push an answer to themselves, unless they refuse.     *)
Answer == [EventLoginRequest     |-> "EventLoginChallenge",
           EventHeartbeatRequest |-> "EventHeartbeatAck",
           EventThingInfoUpload  |-> "EventThingInfoUploadAck"]

(* The handlers that leave what this module keeps as it is.                *)
NoEffect == {"RegisterAckEventMessage", "EventLoginChallenge", "EventReadConfigRequest", "EventSetConfigRequest",
             "EventHeartbeatAck", "EventThingInfoUploadAck", "UnknownEventMessage", Command}

ASSUME ConstantsOK ==
  /\ Device \in [Thing -> ThingId]
  /\ NoId \notin ThingId
  /\ NoThing \notin Thing
  /\ ThingMsgCap \in Nat \ {0}
  /\ RegChanCap \in Nat \ {0}
  /\ Frames \in [Thing -> Seq(SUBSET FrameEvents)]
  /\ Waits \subseteq SendsClose
  /\ MaxWeb \in Nat

VARIABLES
  conn,            (* the TCP connection of each Thing                    *)
  reader,          (* taskReadTcp                                         *)
  sched,           (* where ThingScheduler is                             *)
  cur,             (* the event it took from the channel                  *)
  ThingMsgChan,    (* the event channel of each Thing                     *)
  thingid,         (* thing.thingid, set by a successful login            *)
  login,           (* how far the login of the connection has come        *)
  retries,         (* goroutines of ReLoginReq that wait for their timer  *)
  frames,          (* frames read so far, for Frames                      *)
  AddThingChan, DeleteThingChan,
  recv,            (* what recvThingConnection took and has not applied   *)
  ThingConns,      (* the registry                                        *)
  lock,            (* gw.lock: "free" or the goroutine that holds it      *)
  web,             (* the goroutine of WebTask                            *)
  webReqs          (* requests read so far, for MaxWeb                    *)

loginVars == <<login, retries>>
thingVars == <<conn, reader, sched, cur, ThingMsgChan, thingid, frames, loginVars>>
regVars   == <<AddThingChan, DeleteThingChan, recv, ThingConns>>
webVars   == <<lock, web, webReqs>>
vars      == <<thingVars, regVars, webVars>>

SchedStates ==
  {"off", "select", "handle", "close", "closed", "push", "add", "delete", "exit"}

(* "new": no LoginRequest yet, loginReqServData is nil; "answered":         *)
(* loginStatus is LoginResponseStatus; "asked": neither.                   *)
LoginStates == {"new", "asked", "answered"}

ThingConn == [id : ThingId \cup {NoId}, thing : Thing]
Idle      == [op |-> "select", id |-> NoId, thing |-> NoThing]
Ended     == [Idle EXCEPT !.op = "exit"]  (* the process has ended *)
RecvState == {Idle, Ended} \cup [op : {"add", "delete"}, id : ThingId \cup {NoId}, thing : Thing]
WebState  == [pc : {"recv", "lookup", "push", "exit"},
              id : ThingId \cup {NoId}, thing : Thing \cup {NoThing}]
WebIdle   == [pc |-> "recv", id |-> NoId, thing |-> NoThing]

Init ==
  /\ conn = [t \in Thing |-> "none"]
  /\ reader = [t \in Thing |-> "off"]
  /\ sched = [t \in Thing |-> "off"]
  /\ cur = [t \in Thing |-> "none"]
  /\ ThingMsgChan = [t \in Thing |-> <<>>]
  /\ thingid = [t \in Thing |-> NoId]
  /\ frames = [t \in Thing |-> 0]
  /\ login = [t \in Thing |-> "new"]
  /\ retries = [t \in Thing |-> 0]
  /\ AddThingChan = <<>>
  /\ DeleteThingChan = <<>>
  /\ recv = Idle
  /\ ThingConns = [d \in ThingId |-> NoThing]
  /\ lock = "free"
  /\ web = WebIdle
  /\ webReqs = 0

HasRoom(t) == Len(ThingMsgChan[t]) < ThingMsgCap
-----------------------------------------------------------------------------
(* Connections and readers.                                                *)

(* GatewayStart accepts, thingHandler builds the Thing and runs its        *)
(* scheduler, which starts the reader.                                     *)
Accept(t) ==
  /\ conn[t] = "none"
  /\ conn' = [conn EXCEPT ![t] = "open"]
  /\ reader' = [reader EXCEPT ![t] = "read"]
  /\ sched' = [sched EXCEPT ![t] = "select"]
  /\ UNCHANGED <<cur, ThingMsgChan, thingid, frames, loginVars, regVars, webVars>>

(* The device goes away: reads and writes on the connection now fail.      *)
Break(t) ==
  /\ conn[t] = "open"
  /\ conn' = [conn EXCEPT ![t] = "broken"]
  /\ UNCHANGED <<reader, sched, cur, ThingMsgChan, thingid, frames, loginVars, regVars, webVars>>

(* taskReadTcp, a frame received and parsed: its event is pushed.          *)
ReadFrame(t) ==
  /\ reader[t] = "read" /\ conn[t] = "open" /\ frames[t] < Len(Frames[t])
  /\ HasRoom(t)
  /\ frames' = [frames EXCEPT ![t] = @ + 1]
  /\ \E e \in Frames[t][frames'[t]] :
       ThingMsgChan' = [ThingMsgChan EXCEPT ![t] = Append(@, e)]
  /\ UNCHANGED <<conn, reader, sched, cur, thingid, loginVars, regVars, webVars>>

(* Mutant: every receive error is retried, the broken connection's too.    *)
ReadBreakRetried(t) ==
  /\ reader[t] = "read" /\ conn[t] = "broken"
  /\ HasRoom(t)
  /\ UNCHANGED vars

(* Mutant: the last event is sent on a channel without a bound.            *)
ReadBreakUnbounded(t) ==
  /\ reader[t] = "read" /\ conn[t] = "broken"
  /\ ThingMsgChan' = [ThingMsgChan EXCEPT ![t] = Append(@, "EventConnectionClosed")]
  /\ reader' = [reader EXCEPT ![t] = "exit"]
  /\ UNCHANGED <<conn, sched, cur, thingid, frames, loginVars, regVars, webVars>>

(* taskReadTcp, ErrorCodeConnectionBreak: the last event, then it returns. *)
ReadBreak(t) ==
  /\ reader[t] = "read" /\ conn[t] = "broken"
  /\ HasRoom(t)
  /\ ThingMsgChan' = [ThingMsgChan EXCEPT ![t] = Append(@, "EventConnectionClosed")]
  /\ reader' = [reader EXCEPT ![t] = "exit"]
  /\ UNCHANGED <<conn, sched, cur, thingid, frames, loginVars, regVars, webVars>>
-----------------------------------------------------------------------------
(* The scheduler: take an event, run its handler, take the next.           *)

Take(t) ==
  /\ sched[t] = "select" /\ ThingMsgChan[t] # <<>>
  /\ cur' = [cur EXCEPT ![t] = Head(ThingMsgChan[t])]
  /\ ThingMsgChan' = [ThingMsgChan EXCEPT ![t] = Tail(@)]
  /\ sched' = [sched EXCEPT ![t] = "handle"]
  /\ UNCHANGED <<conn, reader, thingid, frames, loginVars, regVars, webVars>>

Handling(t, e) == sched[t] = "handle" /\ cur[t] = e

Return(t, pc) ==
  /\ sched' = [sched EXCEPT ![t] = pc]
  /\ cur' = [cur EXCEPT ![t] = "none"]

(* A handler calls PushEventChannel on its own Thing's channel, which only *)
(* this scheduler drains: the handler is done when the event is in.        *)
Push(t, e) ==
  /\ sched' = [sched EXCEPT ![t] = "push"]
  /\ cur' = [cur EXCEPT ![t] = e]

PushEventChannel(t) ==
  /\ sched[t] = "push" /\ HasRoom(t)
  /\ ThingMsgChan' = [ThingMsgChan EXCEPT ![t] = Append(@, cur[t])]
  /\ Return(t, "select")
  /\ UNCHANGED <<conn, reader, thingid, frames, loginVars, regVars, webVars>>

HandleRegisterReq(t) ==
  /\ Handling(t, "RegisterReqEventMessage")
  /\ Push(t, "RegisterAckEventMessage")
  /\ UNCHANGED <<conn, reader, ThingMsgChan, thingid, frames, loginVars, regVars, webVars>>

(* LoginRequest, HeartbeatReq, ThingInfoUploadReq: the answer is pushed,   *)
(* or the request is refused. LoginRequest parses loginReqServData first.  *)
HandleRequest(t) ==
  /\ \E e \in DOMAIN Answer :
       /\ Handling(t, e)
       /\ \/ ~(e = "EventLoginRequest" /\ login[t] = "answered") /\ Push(t, Answer[e])
          \/ Return(t, "select")
       /\ login' = IF e = "EventLoginRequest" /\ login[t] = "new"
                   THEN [login EXCEPT ![t] = "asked"] ELSE login
  /\ UNCHANGED <<conn, reader, ThingMsgChan, thingid, frames, retries, regVars, webVars>>

(* closeTimeoutTimer <- true finds a token in the channel: the handler     *)
(* waits until a goroutine of a timer takes it, if one ever does.          *)
WaitClose(t) ==
  /\ sched[t] = "handle" /\ cur[t] \in Waits
  /\ sched' = [sched EXCEPT ![t] = "close"]
  /\ UNCHANGED <<conn, reader, cur, ThingMsgChan, thingid, frames, loginVars, regVars, webVars>>

CloseTaken(t) ==
  /\ sched[t] = "close"
  /\ sched' = [sched EXCEPT ![t] = "closed"]
  /\ UNCHANGED <<conn, reader, cur, ThingMsgChan, thingid, frames, loginVars, regVars, webVars>>

(* The rest of a handler that sends on a close channel, where it waited or *)
(* not.                                                                    *)
Closing(t, e) == sched[t] \in {"handle", "closed"} /\ cur[t] = e

(* LoginResponse: the outcome of the challenge is pushed as an event, or   *)
(* the handler returns early (no challenge, stale packet, database error). *)
HandleLoginResponse(t) ==
  /\ Closing(t, "EventLoginResponse")
  /\ \/ /\ login[t] = "asked"
        /\ login' = [login EXCEPT ![t] = "answered"]
        /\ \E e \in {"EventLoginSuccess", "EventLoginFailure"} : Push(t, e)
     \/ UNCHANGED login /\ Return(t, "select")
  /\ UNCHANGED <<conn, reader, ThingMsgChan, thingid, frames, retries, regVars, webVars>>

(* The timer of the challenge, taken before LoginResponse stopped it: its  *)
(* goroutine resets the status only now.                                   *)
LateExpiry(t) ==
  /\ "EventLoginResponse" \in Waits /\ login[t] = "answered"
  /\ login' = [login EXCEPT ![t] = "asked"]
  /\ UNCHANGED <<conn, reader, sched, cur, ThingMsgChan, thingid, frames, retries, regVars, webVars>>

(* ReLoginReq: unless one is under way, the request is sent, or fails, and *)
(* a goroutine waits for a timer in either case.                           *)
HandleReLoginReq(t) ==
  /\ Handling(t, "EventReLoginRequest")
  /\ retries' \in {retries, [retries EXCEPT ![t] = @ + 1]}
  /\ Return(t, "select")
  /\ UNCHANGED <<conn, reader, ThingMsgChan, thingid, frames, login, regVars, webVars>>

(* The timer of such a goroutine: it asks again, then it is gone.          *)
ReLoginAgain(t) ==
  /\ retries[t] > 0 /\ HasRoom(t)
  /\ ThingMsgChan' = [ThingMsgChan EXCEPT ![t] = Append(@, "EventReLoginRequest")]
  /\ retries' = [retries EXCEPT ![t] = @ - 1]
  /\ UNCHANGED <<conn, reader, sched, cur, thingid, frames, login, regVars, webVars>>

(* The other handlers that send on a close channel; ReLoginAck's token can *)
(* end the goroutine of ReLoginReq.                                        *)
HandleAck(t) ==
  /\ \E e \in SendsClose \ {"EventLoginResponse"} :
       /\ Closing(t, e)
       /\ \/ UNCHANGED retries
          \/ /\ e = "EventReLoginAck" /\ retries[t] > 0
             /\ retries' = [retries EXCEPT ![t] = @ - 1]
  /\ Return(t, "select")
  /\ UNCHANGED <<conn, reader, ThingMsgChan, thingid, frames, login, regVars, webVars>>

(* Mutant: the Thing registers itself before it knows its id.              *)
LoginSuccessNoId(t) ==
  /\ Handling(t, "EventLoginSuccess") /\ login[t] = "answered"
  /\ login' = [login EXCEPT ![t] = "asked"]
  /\ Return(t, "add")
  /\ UNCHANGED <<conn, reader, ThingMsgChan, thingid, frames, retries, regVars, webVars>>

(* LoginSuccess, after the key and the status were saved and the answer    *)
(* was sent: SetThingIdAndBid sets the id and goes on to AddThingConnChan. *)
LoginSuccessSent(t) ==
  /\ Handling(t, "EventLoginSuccess") /\ login[t] = "answered"
  /\ login' = [login EXCEPT ![t] = "asked"]
  /\ thingid' = [thingid EXCEPT ![t] = Device[t]]
  /\ Return(t, "add")
  /\ UNCHANGED <<conn, reader, ThingMsgChan, frames, retries, regVars, webVars>>

(* LoginSuccess that needs a LoginResponse and has none, or returns early, *)
(* before the key was saved or after: the Thing is never told its id.      *)
LoginSuccessFailed(t) ==
  /\ Handling(t, "EventLoginSuccess")
  /\ login' = IF login[t] = "answered" THEN [login EXCEPT ![t] = "asked"] ELSE login
  /\ Return(t, "select")
  /\ UNCHANGED <<conn, reader, ThingMsgChan, thingid, frames, retries, regVars, webVars>>

PushAdd(t) ==
  /\ sched[t] = "add" /\ Len(AddThingChan) < RegChanCap
  /\ AddThingChan' = Append(AddThingChan, [id |-> thingid[t], thing |-> t])
  /\ sched' = [sched EXCEPT ![t] = "select"]
  /\ UNCHANGED <<conn, reader, cur, ThingMsgChan, thingid, frames, loginVars,
                 DeleteThingChan, recv, ThingConns, webVars>>

(* LoginFailure answers, or returns early.                                 *)
HandleLoginFailure(t) ==
  /\ Handling(t, "EventLoginFailure")
  /\ login' = IF login[t] = "answered" THEN [login EXCEPT ![t] = "asked"] ELSE login
  /\ Return(t, "select")
  /\ UNCHANGED <<conn, reader, ThingMsgChan, thingid, frames, retries, regVars, webVars>>

HandleOther(t) ==
  /\ sched[t] = "handle" /\ cur[t] \in NoEffect
  /\ Return(t, "select")
  /\ UNCHANGED <<conn, reader, ThingMsgChan, thingid, frames, loginVars, regVars, webVars>>

(* A handler panics, which nothing recovers, and every goroutine ends with *)
(* the process: thingMsg.Param of a request that came as a frame is nil    *)
(* (its type assertion fails), and loginReqServData is nil when            *)
(* LoginFailure is asked for the key before any LoginRequest.              *)
Panic(t) ==
  /\ \/ Handling(t, "EventRemoteOperationRequest")
     \/ Handling(t, "EventLoginFailure") /\ login[t] = "new"
  /\ conn' = [u \in Thing |-> "broken"]
  /\ reader' = [u \in Thing |-> "exit"]
  /\ sched' = [u \in Thing |-> "exit"]
  /\ retries' = [u \in Thing |-> 0]
  /\ recv' = Ended
  /\ web' = [WebIdle EXCEPT !.pc = "exit"]
  /\ UNCHANGED <<cur, ThingMsgChan, thingid, frames, login, AddThingChan, DeleteThingChan,
                 ThingConns, lock, webReqs>>

(* Mutant: the id is cleared before the Thing asks to be deleted under it. *)
HandleClosedClearsId(t) ==
  /\ Handling(t, "EventConnectionClosed")
  /\ thingid' = [thingid EXCEPT ![t] = NoId]
  /\ Return(t, "delete")
  /\ UNCHANGED <<conn, reader, ThingMsgChan, frames, loginVars, regVars, webVars>>

(* destoryThing: the status of the row of thing.thingid is written, a      *)
(* failure of which nothing looks at; then the Thing asks to be deleted.   *)
HandleClosed(t) ==
  /\ Handling(t, "EventConnectionClosed")
  /\ Return(t, "delete")
  /\ UNCHANGED <<conn, reader, ThingMsgChan, thingid, frames, loginVars, regVars, webVars>>

(* Mutant: the error of EventConnectionClosed is lost, the scheduler goes  *)
(* on.                                                                     *)
PushDeleteGoesOn(t) ==
  /\ sched[t] = "delete" /\ Len(DeleteThingChan) < RegChanCap
  /\ DeleteThingChan' = Append(DeleteThingChan, [id |-> thingid[t], thing |-> t])
  /\ sched' = [sched EXCEPT ![t] = "select"]
  /\ UNCHANGED <<conn, reader, cur, ThingMsgChan, thingid, frames, loginVars,
                 AddThingChan, recv, ThingConns, webVars>>

(* Mutant: the Thing asks to be deleted under the id its device gave, not  *)
(* under the one it logged in with.                                        *)
PushDeleteOfDevice(t) ==
  /\ sched[t] = "delete" /\ Len(DeleteThingChan) < RegChanCap
  /\ DeleteThingChan' = Append(DeleteThingChan, [id |-> Device[t], thing |-> t])
  /\ sched' = [sched EXCEPT ![t] = "exit"]
  /\ UNCHANGED <<conn, reader, cur, ThingMsgChan, thingid, frames, loginVars,
                 AddThingChan, recv, ThingConns, webVars>>

PushDelete(t) ==
  /\ sched[t] = "delete" /\ Len(DeleteThingChan) < RegChanCap
  /\ DeleteThingChan' = Append(DeleteThingChan, [id |-> thingid[t], thing |-> t])
  /\ sched' = [sched EXCEPT ![t] = "exit"]
  /\ UNCHANGED <<conn, reader, cur, ThingMsgChan, thingid, frames, loginVars,
                 AddThingChan, recv, ThingConns, webVars>>
-----------------------------------------------------------------------------
(* recvThingConnection: a select over two channels, then the map.          *)

RecvAdd ==
  /\ recv = Idle /\ AddThingChan # <<>>
  /\ recv' = [op |-> "add", id |-> Head(AddThingChan).id, thing |-> Head(AddThingChan).thing]
  /\ AddThingChan' = Tail(AddThingChan)
  /\ UNCHANGED <<thingVars, DeleteThingChan, ThingConns, webVars>>

RecvDelete ==
  /\ recv = Idle /\ DeleteThingChan # <<>>
  /\ recv' = [op |-> "delete", id |-> Head(DeleteThingChan).id,
              thing |-> Head(DeleteThingChan).thing]
  /\ DeleteThingChan' = Tail(DeleteThingChan)
  /\ UNCHANGED <<thingVars, AddThingChan, ThingConns, webVars>>

(* Mutant: an entry that is there already is kept.                         *)
ApplyAddIfAbsent ==
  /\ recv.op = "add" /\ lock = "free"
  /\ ThingConns' = [d \in ThingId |->
       IF d = recv.id /\ ThingConns[d] = NoThing THEN recv.thing ELSE ThingConns[d]]
  /\ recv' = Idle
  /\ UNCHANGED <<thingVars, AddThingChan, DeleteThingChan, webVars>>

(* Mutant: no Unlock after the entry was written.                          *)
ApplyAddKeepsLock ==
  /\ recv.op = "add" /\ lock = "free"
  /\ ThingConns' = [d \in ThingId |-> IF d = recv.id THEN recv.thing ELSE ThingConns[d]]
  /\ lock' = "registry"
  /\ recv' = Idle
  /\ UNCHANGED <<thingVars, AddThingChan, DeleteThingChan, web, webReqs>>

ApplyAdd ==
  /\ recv.op = "add" /\ lock = "free"
  /\ ThingConns' = [d \in ThingId |-> IF d = recv.id THEN recv.thing ELSE ThingConns[d]]
  /\ recv' = Idle
  /\ UNCHANGED <<thingVars, AddThingChan, DeleteThingChan, webVars>>

(* Mutant: the delete does not take gw.lock.                               *)
ApplyDeleteUnlocked ==
  /\ recv.op = "delete"
  /\ ThingConns' = [d \in ThingId |-> IF d = recv.id THEN NoThing ELSE ThingConns[d]]
  /\ recv' = Idle
  /\ UNCHANGED <<thingVars, AddThingChan, DeleteThingChan, webVars>>

(* delete(gw.ThingConns, id): whichever Thing the entry names.             *)
ApplyDelete ==
  /\ recv.op = "delete" /\ lock = "free"
  /\ ThingConns' = [d \in ThingId |-> IF d = recv.id THEN NoThing ELSE ThingConns[d]]
  /\ recv' = Idle
  /\ UNCHANGED <<thingVars, AddThingChan, DeleteThingChan, webVars>>
-----------------------------------------------------------------------------
(* The goroutine of WebTask.                                               *)

WebReceive(d) ==
  /\ web.pc = "recv" /\ webReqs < MaxWeb
  /\ web' = [pc |-> "lookup", id |-> d, thing |-> NoThing]
  /\ webReqs' = webReqs + 1
  /\ UNCHANGED <<thingVars, regVars, lock>>

(* json.Unmarshal fails: the goroutine returns and nothing restarts it.    *)
WebBadRequest ==
  /\ web.pc = "recv" /\ webReqs < MaxWeb
  /\ web' = [WebIdle EXCEPT !.pc = "exit"]
  /\ webReqs' = webReqs + 1
  /\ UNCHANGED <<thingVars, regVars, lock>>

WebNotFound ==
  /\ web.pc = "lookup" /\ lock = "free" /\ ThingConns[web.id] = NoThing
  /\ web' = WebIdle
  /\ UNCHANGED <<thingVars, regVars, lock, webReqs>>

WebFind ==
  /\ web.pc = "lookup" /\ lock = "free" /\ ThingConns[web.id] # NoThing
  /\ lock' = "web"
  /\ web' = [web EXCEPT !.pc = "push", !.thing = ThingConns[web.id]]
  /\ UNCHANGED <<thingVars, regVars, webReqs>>

(* PushEventChannel2 under gw.lock, then Unlock and the answer.            *)
WebPush ==
  /\ web.pc = "push" /\ HasRoom(web.thing)
  /\ ThingMsgChan' = [ThingMsgChan EXCEPT ![web.thing] =
                        Append(@, Command)]
  /\ lock' = "free"
  /\ web' = WebIdle
  /\ UNCHANGED <<conn, reader, sched, cur, thingid, frames, loginVars, regVars, webReqs>>
-----------------------------------------------------------------------------
Scheduler(t) ==
  \/ Take(t) \/ PushEventChannel(t)
  \/ HandleRegisterReq(t) \/ HandleRequest(t) \/ HandleLoginResponse(t)
  \/ LoginSuccessSent(t) \/ LoginSuccessFailed(t) \/ HandleLoginFailure(t) \/ PushAdd(t)
  \/ HandleReLoginReq(t) \/ HandleAck(t) \/ HandleOther(t)
  \/ HandleClosed(t) \/ PushDelete(t) \/ Panic(t)

(* What other goroutines of the Thing do to its scheduler, or do not.      *)
Timers(t) == WaitClose(t) \/ CloseTaken(t) \/ LateExpiry(t) \/ ReLoginAgain(t)

RecvThingConnection == RecvAdd \/ RecvDelete \/ ApplyAdd \/ ApplyDelete

WebTask == WebNotFound \/ WebFind \/ WebPush

Next ==
  \/ \E t \in Thing : \/ Accept(t) \/ Break(t) \/ ReadFrame(t) \/ ReadBreak(t)
                      \/ Scheduler(t) \/ Timers(t)
  \/ RecvThingConnection
  \/ WebTask
  \/ \E d \in ThingId : WebReceive(d)
  \/ WebBadRequest

(* A runnable goroutine runs: readers of a broken connection, schedulers,  *)
(* the registry loop and the web goroutine. Devices, frames, timers and    *)
(* web requests come or do not come, and nobody need take a token from a   *)
(* full close channel.                                                     *)
Fairness ==
  /\ \A t \in Thing : WF_vars(ReadBreak(t)) /\ WF_vars(Scheduler(t))
  /\ WF_vars(RecvThingConnection)
  /\ WF_vars(WebTask)

Spec == Init /\ [][Next]_vars /\ Fairness

(* Go serves the senders that wait on a channel in their order: a reader   *)
(* whose channel has room again and again, while the timers of ReLoginReq  *)
(* send to it too, sends its last event.                                   *)
SendersInOrder == \A t \in Thing : SF_vars(ReadBreak(t))

OrderedSpec == Spec /\ SendersInOrder
-----------------------------------------------------------------------------
(* Types.                                                                  *)

(* Every variable stays in its set and no channel exceeds its capacity.    *)
TypeOK ==
  /\ conn \in [Thing -> {"none", "open", "broken"}]
  /\ reader \in [Thing -> {"off", "read", "exit"}]
  /\ sched \in [Thing -> SchedStates]
  /\ cur \in [Thing -> Events \cup {"none"}]
  /\ ThingMsgChan \in [Thing -> Seq(Events)]
  /\ thingid \in [Thing -> ThingId \cup {NoId}]
  /\ frames \in [Thing -> Nat]
  /\ login \in [Thing -> LoginStates] /\ retries \in [Thing -> Nat]
  /\ AddThingChan \in Seq(ThingConn) /\ DeleteThingChan \in Seq(ThingConn)
  /\ recv \in RecvState
  /\ ThingConns \in [ThingId -> Thing \cup {NoThing}]
  /\ lock \in {"free", "web"}
  /\ web \in WebState
  /\ webReqs \in Nat
  /\ \A t \in Thing : Len(ThingMsgChan[t]) <= ThingMsgCap
  /\ Len(AddThingChan) <= RegChanCap /\ Len(DeleteThingChan) <= RegChanCap

-----------------------------------------------------------------------------
(* Safety.                                                                 *)

InChan(q, x) == \E i \in 1..Len(q) : q[i] = x

(* What a Thing's login puts on AddThingChan, and where it can be until it *)
(* is in the registry.                                                     *)
AddOf(t) == [id |-> Device[t], thing |-> t]
AddPending(t) ==
  \/ sched[t] = "add"
  \/ InChan(AddThingChan, AddOf(t))
  \/ recv = [op |-> "add", id |-> Device[t], thing |-> t]

Live(t) == sched[t] \in {"select", "handle", "close", "closed", "push", "add"}

(* gw.lock protects what WebTask looked up: from the lookup to the push    *)
(* the goroutine holds the lock and the entry still names that Thing, so a *)
(* command never goes to a Thing the registry has just replaced.           *)
LockedLookupFresh ==
  web.pc = "push" => /\ lock = "web"
                     /\ web.thing # NoThing
                     /\ ThingConns[web.id] = web.thing

(* The registry, and every add on its way to it, names a Thing that logged *)
(* in as that very device: SetThingIdAndBid sets thingid before the add,   *)
(* and nothing ever sends a Thing under another id.                        *)
RegistryNamesLoggedIn ==
  /\ \A d \in ThingId : ThingConns[d] # NoThing => thingid[ThingConns[d]] = d
  /\ recv.op = "add" => recv.id \in ThingId /\ thingid[recv.thing] = recv.id
  /\ \A i \in 1..Len(AddThingChan) :
       /\ AddThingChan[i].id \in ThingId
       /\ thingid[AddThingChan[i].thing] = AddThingChan[i].id

(* A command of the web is queued at, or handled by, a Thing only after    *)
(* that Thing's device has logged in on it: RemoteOperationReq encrypts    *)
(* with the key of thing.thingid. The same event from a frame of the       *)
(* device, which has no Param, is not a command: see Panic.                *)
CommandOnlyAfterLogin ==
  \A t \in Thing :
    \/ InChan(ThingMsgChan[t], Command)
    \/ cur[t] = Command
    => thingid[t] = Device[t]

(* A Thing that is the only one to have logged in as its device, and has   *)
(* not ended, can be found by the web or is on its way into the registry:  *)
(* no interleaving of the two channels loses it, nor do other connections  *)
(* of the device that come and go without a login.                         *)
SoleSessionRegistered ==
  \A t \in Thing :
    /\ Live(t) /\ thingid[t] # NoId
    /\ \A u \in Thing \ {t} : thingid[u] # thingid[t]
    => AddPending(t) \/ ThingConns[Device[t]] = t

(* The entry of a device is removed only on behalf of a Thing that was     *)
(* logged in as this device and has ended; which Thing the entry names at  *)
(* that moment is another matter (delete looks at the id alone).           *)
RemovalNeedsDeadSession ==
  [][\A d \in ThingId :
       ThingConns[d] # NoThing /\ ThingConns'[d] = NoThing =>
         \E t \in Thing : sched[t] = "exit" /\ thingid[t] = d]_vars

-----------------------------------------------------------------------------
(* Liveness.                                                               *)

(* The comment on the push of EventConnectionClosed in taskReadTcp, "need  *)
(* go out": when the connection breaks, the scheduler ends.                *)
GoesOut == \A t \in Thing : conn[t] = "broken" ~> sched[t] = "exit"

(* What the code does guarantee: the scheduler ends, or it waits on its    *)
(* own full channel, or in a handler on the full close channel of a timer, *)
(* or the web goroutine waits on a full channel and keeps gw.lock.         *)
Jammed(t) == \/ sched[t] = "push" /\ ~HasRoom(t)
             \/ sched[t] = "close"
             \/ web.pc = "push" /\ ~HasRoom(web.thing)
GoesOutOrJammed ==
  \A t \in Thing : conn[t] = "broken" ~> (sched[t] = "exit" \/ Jammed(t))

(* Below capacity every request of the web is answered, unless the process *)
(* ends.                                                                   *)
WebAnswered == web.pc = "lookup" ~> (web.pc = "recv" \/ recv = Ended)

(* Below capacity every login reaches the registry, whatever deletes and   *)
(* lookups of the web it races with, unless the process ends.              *)
LoginReachesRegistry ==
  \A t \in Thing : sched[t] = "add" ~> (ThingConns[Device[t]] = t \/ recv = Ended)

(* A Thing that ends with its entry in place and no add under way leaves   *)
(* the registry: commands are not queued at it for ever.                   *)
DeadSessionRemoved ==
  \A t \in Thing :
    (sched[t] = "delete" /\ ThingConns[Device[t]] = t /\ ~AddPending(t))
      ~> (ThingConns[Device[t]] # t \/ recv = Ended)
=============================================================================
