--------------------------- MODULE RemoteControl ---------------------------
(***************************************************************************)
(* The remote operation of a device: ThingControl of iot/gateway (one per  *)
(* connection, started by a command of the web) and ThingControl of        *)
(* iot_client/thing (one per device, outliving its connections).           *)
(*                                                                         *)
(*   gateway  RemoteOperationRequest  -->            device                *)
(*            <--  DispatcherAckMessage, RemoteOperationEnd                *)
(*            DispatcherAckMessage    -->                                  *)
(*            <--  RemoteOperationAck                                      *)
(*            DispatcherAckMessage    -->                                  *)
(*                                                                         *)
(* Both sides start out logged in. Abstracted: what is between a broken    *)
(* connection and the next login is one event of the device; parameters,   *)
(* counters and encryption are left out.                                   *)
(***************************************************************************)
EXTENDS Integers, Sequences, RequestTimer

CONSTANTS
  Operations,    (* the operations convertOperation knows                  *)
  Commands,      (* what the web may ask for, known or not                 *)
  NoOperation,   (* the operation of an event that is not about one        *)
  Instances      (* what a behaviour may meet: a set of records of         *)
                 (*   ask      what the web asks for                       *)
                 (*   times    bound: commands of the web                  *)
                 (*   expire   bound: timers that run out                  *)
                 (*   fault    bound: database and JSON errors             *)
                 (*   break    bound: connections that break               *)

ASSUME ConstantsOK == /\ NoOperation \notin Operations \cup Commands
                      /\ Instances \subseteq [ask : SUBSET Commands, times : Nat,
                                              expire : Nat, fault : Nat, break : Nat]

VARIABLES
  conn,              (* "up", "broken", "login": connected but not logged in *)
  g2d, d2g,          (* frames in each direction                           *)
  gw, gQueue, gTimer,
  dev, dQueue, dTimer,
  reader,            (* the device's taskReadTcp runs                      *)
  commands, expired, faults, breaks

connVars == <<conn, g2d, d2g, reader, breaks>>
gwVars   == <<gw, gQueue, gTimer>>
devVars  == <<dev, dQueue, dTimer>>
vars     == <<connVars, gwVars, devVars, commands, expired, faults>>

GwEvents  == {"EventRemoteOperationRequest", "EventDispatcherAckMessage",
              "EventRemoteOperationEnd", "EventRemoteOperationAck"}
DevEvents == GwEvents \cup {"EventConnectServer", "EventLoginSuccess"}
Event(ev, op) == [ev |-> ev, op |-> op]

(* "panic": a method of a nil timer was called, which ends the process.    *)
ControlStates == {"ThingControlStop", "RemoteOperationReqStatus", "DispatcherAckMessageStatus",
                  "RemoteOperationEndStatus", "RemoteOperationAckStatus", "panic"}

(* made: timeoutTimer and closeTimeoutTimer are no longer nil.             *)
NewControl == [status |-> "ThingControlStop", operation |-> NoOperation, made |-> FALSE]
Control    == [status : ControlStates, operation : Operations \cup {NoOperation}, made : BOOLEAN]

AtMost(n) == [used |-> 0, most |-> n]
Spend(b)  == b.used < b.most /\ b' = [b EXCEPT !.used = @ + 1]

Init ==
  /\ conn = "up" /\ reader = TRUE
  /\ g2d = <<>> /\ d2g = <<>>
  /\ gw = NewControl /\ gQueue = <<>> /\ gTimer = NoTimer
  /\ dev = NewControl /\ dQueue = <<>> /\ dTimer = NoTimer
  /\ \E i \in Instances : /\ commands = [used |-> 0, most |-> i.times, of |-> i.ask]
                          /\ expired = AtMost(i.expire)
                          /\ faults = AtMost(i.fault) /\ breaks = AtMost(i.break)

-----------------------------------------------------------------------------
(* Shared steps.                                                           *)

Fault   == Spend(faults)
NoFault == UNCHANGED faults

(* A broken connection takes a frame into its buffer, or fails.            *)
Sent(pipe, m) == pipe' = IF conn = "broken" THEN pipe ELSE Append(pipe, m)
Unsent(pipe)  == UNCHANGED pipe /\ IF conn = "broken" THEN NoFault ELSE Fault

-----------------------------------------------------------------------------
(* The gateway's ThingControl.                                             *)

GOn(ev)     == gw.status # "panic" /\ gQueue # <<>> /\ Head(gQueue).ev = ev
GOp         == Head(gQueue).op
Fits        == GOp = gw.operation
GIs(status) == gw.status = status
GGoes(status) == gw' = [gw EXCEPT !.status = status]
GStops      == /\ CanClose(gTimer) /\ gTimer' = Closed(gTimer)
               /\ GGoes("ThingControlStop")
GDone       == gQueue' = Tail(gQueue)
GRest       == UNCHANGED <<conn, reader, breaks, devVars, commands, expired>>

(* PushEventChannel2 of the web's goroutine.                               *)
WebCommand(c) ==
  /\ conn # "login" /\ c \in commands.of /\ Spend(commands)
  /\ gQueue' = Append(gQueue, Event("EventRemoteOperationRequest", c))
  /\ UNCHANGED <<connVars, gw, gTimer, devVars, expired, faults>>

GRead ==
  /\ d2g # <<>>
  /\ gQueue' = Append(gQueue, Head(d2g)) /\ d2g' = Tail(d2g)
  /\ UNCHANGED <<conn, g2d, reader, breaks, gw, gTimer, devVars, commands, expired, faults>>

GRefused ==
  /\ \E w \in {<<"EventRemoteOperationRequest", "ThingControlStop">>,
               <<"EventDispatcherAckMessage", "RemoteOperationReqStatus">>,
               <<"EventRemoteOperationEnd", "DispatcherAckMessageStatus">>,
               <<"EventRemoteOperationAck", "RemoteOperationEndStatus">>} :
       GOn(w[1]) /\ ~GIs(w[2])
  /\ GDone
  /\ GRest /\ UNCHANGED <<g2d, d2g, gw, gTimer, faults>>

GRequest ==
  /\ GOn("EventRemoteOperationRequest") /\ GIs("ThingControlStop") /\ GOp \in Operations
  /\ Sent(g2d, Head(gQueue))
  /\ gw' = [status |-> "RemoteOperationReqStatus", operation |-> GOp, made |-> TRUE]
  /\ gTimer' = Started(gTimer)
  /\ GDone
  /\ GRest /\ UNCHANGED <<d2g, faults>>

(* Mutant: the operation is assigned before the error is looked at.        *)
GRequestFailsLate ==
  /\ GOn("EventRemoteOperationRequest") /\ GIs("ThingControlStop")
  /\ IF GOp \in Operations THEN Unsent(g2d) ELSE UNCHANGED g2d /\ NoFault
  /\ gw' = [gw EXCEPT !.status = "RemoteOperationReqStatus",
                      !.operation = GOp]
  /\ GDone
  /\ GRest /\ UNCHANGED <<d2g, gTimer>>

(* Nothing was sent and no timer runs, but the status has moved on.        *)
GRequestFails ==
  /\ GOn("EventRemoteOperationRequest") /\ GIs("ThingControlStop")
  /\ IF GOp \in Operations THEN Unsent(g2d) ELSE UNCHANGED g2d /\ NoFault
  /\ gw' = [gw EXCEPT !.status = "RemoteOperationReqStatus",
                      !.operation = IF GOp \in Operations THEN GOp ELSE @]
  /\ GDone
  /\ GRest /\ UNCHANGED <<d2g, gTimer>>

(* Data that cannot be parsed is not compared with the operation.          *)
GDispatcherAck ==
  /\ GOn("EventDispatcherAckMessage") /\ GIs("RemoteOperationReqStatus")
  /\ IF ~gw.made THEN GGoes("panic") /\ UNCHANGED gTimer /\ NoFault
     ELSE \/ /\ IF Fits THEN NoFault ELSE Fault
             /\ GGoes("DispatcherAckMessageStatus") /\ gTimer' = Stopped(gTimer)
          \/ /\ ~Fits /\ NoFault
             /\ CanClose(gTimer) /\ gTimer' = Closed(Stopped(gTimer))
             /\ GGoes("ThingControlStop")
  /\ GDone
  /\ GRest /\ UNCHANGED <<g2d, d2g>>

(* Mutant: RemoteOperationEnd is not acknowledged.                         *)
GEndNoAnswer ==
  /\ GOn("EventRemoteOperationEnd") /\ GIs("DispatcherAckMessageStatus")
  /\ Fits
  /\ GGoes("RemoteOperationEndStatus") /\ UNCHANGED gTimer
  /\ UNCHANGED <<g2d, faults>>
  /\ GDone
  /\ GRest /\ UNCHANGED d2g

GEnd ==
  /\ GOn("EventRemoteOperationEnd") /\ GIs("DispatcherAckMessageStatus")
  /\ Fits
  /\ GGoes("RemoteOperationEndStatus") /\ UNCHANGED gTimer
  /\ \/ Sent(g2d, Event("EventDispatcherAckMessage", gw.operation)) /\ NoFault
     \/ Unsent(g2d)
  /\ GDone
  /\ GRest /\ UNCHANGED d2g

GEndFails ==
  /\ GOn("EventRemoteOperationEnd") /\ GIs("DispatcherAckMessageStatus")
  /\ \/ ~Fits /\ GStops /\ NoFault
     \/ Fault /\ GGoes("RemoteOperationEndStatus") /\ UNCHANGED gTimer
  /\ GDone
  /\ GRest /\ UNCHANGED <<g2d, d2g>>

(* The last acknowledgement may not get out: the error is dropped.         *)
GAck ==
  /\ GOn("EventRemoteOperationAck") /\ GIs("RemoteOperationEndStatus")
  /\ Fits
  /\ GStops
  /\ \/ Sent(g2d, Event("EventDispatcherAckMessage", gw.operation)) /\ NoFault
     \/ Unsent(g2d)
  /\ GDone
  /\ GRest /\ UNCHANGED d2g

GAckFails ==
  /\ GOn("EventRemoteOperationAck") /\ GIs("RemoteOperationEndStatus")
  /\ \/ ~Fits /\ GStops /\ NoFault
     \/ Fault /\ GGoes("RemoteOperationAckStatus") /\ UNCHANGED gTimer
  /\ GDone
  /\ GRest /\ UNCHANGED <<g2d, d2g>>

-----------------------------------------------------------------------------
(* The device's ThingControl.                                              *)

DOn(ev)     == dev.status # "panic" /\ dQueue # <<>> /\ Head(dQueue).ev = ev
DOp         == Head(dQueue).op
DIs(status) == dev.status = status
DGoes(status) == dev' = [dev EXCEPT !.status = status]
DDone       == dQueue' = Tail(dQueue)
DThen(ev)   == dQueue' = Append(Tail(dQueue), [Head(dQueue) EXCEPT !.ev = ev])
DRest       == UNCHANGED <<conn, g2d, reader, breaks, gwVars, commands, expired>>

DRead ==
  /\ reader /\ g2d # <<>>
  /\ dQueue' = Append(dQueue, Head(g2d)) /\ g2d' = Tail(g2d)
  /\ UNCHANGED <<conn, d2g, reader, breaks, gwVars, dev, dTimer, commands, expired, faults>>

(* The reader's last push.                                                 *)
DReadBreak ==
  /\ reader /\ conn = "broken"
  /\ dQueue' = Append(dQueue, Event("EventConnectServer", NoOperation)) /\ reader' = FALSE
  /\ UNCHANGED <<conn, g2d, d2g, breaks, gwVars, dev, dTimer, commands, expired, faults>>

(* A new Thing on the gateway; commands reach it after the login.          *)
DConnect ==
  /\ DOn("EventConnectServer")
  /\ conn' = "login" /\ reader' = TRUE
  /\ g2d' = <<>> /\ d2g' = <<>>
  /\ gw' = NewControl /\ gQueue' = <<>> /\ gTimer' = NoTimer
  /\ DThen("EventLoginSuccess")
  /\ UNCHANGED <<breaks, dev, dTimer, commands, expired, faults>>

DLoginSuccess ==
  /\ DOn("EventLoginSuccess") /\ conn = "login"
  /\ conn' = "up"
  /\ DDone
  /\ UNCHANGED <<g2d, d2g, reader, breaks, gwVars, dev, dTimer, commands, expired, faults>>

DRefused ==
  /\ \/ DOn("EventRemoteOperationRequest") /\ ~DIs("ThingControlStop")
     \/ DOn("EventRemoteOperationEnd") /\ ~DIs("DispatcherAckMessageStatus")
     \/ DOn("EventRemoteOperationAck") /\ ~DIs("RemoteOperationEndStatus")
     \/ /\ DOn("EventDispatcherAckMessage")
        /\ ~DIs("RemoteOperationEndStatus") /\ ~DIs("RemoteOperationAckStatus")
     \/ DOn("EventLoginSuccess") /\ conn # "login"
  /\ DDone
  /\ DRest /\ UNCHANGED <<d2g, dev, dTimer, faults>>

DRequest ==
  /\ DOn("EventRemoteOperationRequest") /\ DIs("ThingControlStop")
  /\ dev' = [dev EXCEPT !.status = "DispatcherAckMessageStatus", !.operation = DOp]
  /\ Sent(d2g, Event("EventDispatcherAckMessage", DOp))
  /\ DThen("EventRemoteOperationEnd")
  /\ DRest /\ UNCHANGED <<dTimer, faults>>

(* Without an answer, without a timer, and no longer at rest.              *)
DRequestFails ==
  /\ DOn("EventRemoteOperationRequest") /\ DIs("ThingControlStop")
  /\ \/ /\ Fault /\ UNCHANGED d2g
        /\ DGoes("RemoteOperationReqStatus")
     \/ /\ Unsent(d2g)
        /\ dev' = [dev EXCEPT !.status = "DispatcherAckMessageStatus", !.operation = DOp]
  /\ DDone
  /\ DRest /\ UNCHANGED dTimer

(* Mutant: no timer is started.                                            *)
DEndNoTimer ==
  /\ DOn("EventRemoteOperationEnd") /\ DIs("DispatcherAckMessageStatus")
  /\ Sent(d2g, Event("EventRemoteOperationEnd", dev.operation))
  /\ DGoes("RemoteOperationEndStatus")
  /\ DDone
  /\ DRest /\ UNCHANGED <<dTimer, faults>>

DEnd ==
  /\ DOn("EventRemoteOperationEnd") /\ DIs("DispatcherAckMessageStatus")
  /\ Sent(d2g, Event("EventRemoteOperationEnd", dev.operation))
  /\ dev' = [dev EXCEPT !.status = "RemoteOperationEndStatus", !.made = TRUE]
  /\ dTimer' = Started(dTimer)
  /\ DDone
  /\ DRest /\ UNCHANGED faults

DEndFails ==
  /\ DOn("EventRemoteOperationEnd") /\ DIs("DispatcherAckMessageStatus")
  /\ Unsent(d2g)
  /\ DGoes("RemoteOperationEndStatus")
  /\ DDone
  /\ DRest /\ UNCHANGED dTimer

DStopsTimer(status) ==
  IF dev.made THEN DGoes(status) /\ dTimer' = Stopped(dTimer)
              ELSE DGoes("panic") /\ UNCHANGED dTimer
DClosesTimer ==
  IF dev.made THEN /\ DGoes("ThingControlStop")
                   /\ CanClose(dTimer) /\ dTimer' = Closed(Stopped(dTimer))
              ELSE DGoes("panic") /\ UNCHANGED dTimer

(* Mutant: the first DispatcherAckMessage is taken for the last.           *)
DEndAckedIsLast ==
  /\ DOn("EventDispatcherAckMessage") /\ DIs("RemoteOperationEndStatus")
  /\ DClosesTimer
  /\ DDone
  /\ DRest /\ UNCHANGED <<d2g, faults>>

(* DispatcherAckMessage2: the answer to RemoteOperationEnd, then the one   *)
(* to RemoteOperationAck.                                                  *)
DEndAcked ==
  /\ DOn("EventDispatcherAckMessage") /\ DIs("RemoteOperationEndStatus")
  /\ \/ /\ DOp = dev.operation /\ NoFault
        /\ DStopsTimer(dev.status)
        /\ DThen("EventRemoteOperationAck")
     \/ /\ DOp # dev.operation /\ NoFault
        /\ DClosesTimer
        /\ DDone
     \/ /\ Fault
        /\ DStopsTimer(dev.status)
        /\ DDone
  /\ DRest /\ UNCHANGED d2g

DAckAcked ==
  /\ DOn("EventDispatcherAckMessage") /\ DIs("RemoteOperationAckStatus")
  /\ \/ DClosesTimer /\ NoFault
     \/ DStopsTimer(dev.status) /\ Fault
  /\ DDone
  /\ DRest /\ UNCHANGED d2g

DAck ==
  /\ DOn("EventRemoteOperationAck") /\ DIs("RemoteOperationEndStatus")
  /\ Sent(d2g, Event("EventRemoteOperationAck", dev.operation))
  /\ DGoes("RemoteOperationAckStatus")
  /\ dTimer' = Restarted(dTimer)
  /\ DDone
  /\ DRest /\ UNCHANGED faults

DAckFails ==
  /\ DOn("EventRemoteOperationAck") /\ DIs("RemoteOperationEndStatus")
  /\ Unsent(d2g)
  /\ DGoes("RemoteOperationAckStatus")
  /\ DDone
  /\ DRest /\ UNCHANGED dTimer

-----------------------------------------------------------------------------
(* The goroutines of the timers. The write of ThingControlStop is not      *)
(* synchronised: a handler that has read the old status writes over it.    *)

Expires == Spend(expired)

GTimerTaken == \E x \in TokenTaken(gTimer) : gTimer' = x /\ UNCHANGED <<gw, expired>>
GTimerExpires == \E x \in Expired(gTimer) : gTimer' = x /\ Expires /\ UNCHANGED gw
GTimerWrites ==
  /\ gTimer.fired > 0 /\ gTimer' = SecondDone(FirstDone(gTimer))
  /\ \/ GGoes("ThingControlStop")
     \/ ~GIs("ThingControlStop") /\ UNCHANGED gw
  /\ UNCHANGED expired
GTimer == /\ gw.status # "panic" /\ (GTimerTaken \/ GTimerExpires \/ GTimerWrites)
          /\ UNCHANGED <<connVars, gQueue, devVars, commands, faults>>

DTimerTaken == \E x \in TokenTaken(dTimer) : dTimer' = x /\ UNCHANGED <<dev, expired>>
DTimerExpires == \E x \in Expired(dTimer) : dTimer' = x /\ Expires /\ UNCHANGED dev
DTimerWrites ==
  /\ dTimer.fired > 0 /\ dTimer' = SecondDone(FirstDone(dTimer))
  /\ \/ DGoes("ThingControlStop")
     \/ ~DIs("ThingControlStop") /\ UNCHANGED dev
  /\ UNCHANGED expired
DTimer == /\ dev.status # "panic" /\ (DTimerTaken \/ DTimerExpires \/ DTimerWrites)
          /\ UNCHANGED <<connVars, gwVars, dQueue, commands, faults>>

Break ==
  /\ conn = "up" /\ Spend(breaks)
  /\ conn' = "broken"
  /\ UNCHANGED <<g2d, d2g, reader, gwVars, devVars, commands, expired, faults>>

-----------------------------------------------------------------------------
GatewayEvent ==
  \/ GRefused \/ GRequest \/ GRequestFails \/ GDispatcherAck
  \/ GEnd \/ GEndFails \/ GAck \/ GAckFails

DeviceEvent ==
  \/ DConnect \/ DLoginSuccess \/ DRefused \/ DRequest \/ DRequestFails
  \/ DEnd \/ DEndFails \/ DEndAcked \/ DAckAcked \/ DAck \/ DAckFails

Readers == GRead \/ DRead \/ DReadBreak

Next ==
  \/ \E c \in Commands : WebCommand(c)
  \/ GatewayEvent \/ DeviceEvent \/ Readers \/ GTimer \/ DTimer \/ Break

Fairness ==
  /\ WF_vars(GatewayEvent) /\ WF_vars(DeviceEvent)
  /\ WF_vars(GRead) /\ WF_vars(DRead) /\ WF_vars(DReadBreak)
  /\ WF_vars(GTimer) /\ WF_vars(DTimer)

Spec == Init /\ [][Next]_vars /\ Fairness

-----------------------------------------------------------------------------
(* Every variable stays in its set.                                        *)
TypeOK ==
  /\ conn \in {"up", "broken", "login"} /\ reader \in BOOLEAN
  /\ gw \in Control /\ dev \in Control
  /\ \A f \in {g2d, d2g, gQueue} : \A i \in 1..Len(f) :
       f[i] \in [ev : GwEvents, op : Operations \cup Commands]
  /\ \A i \in 1..Len(dQueue) : dQueue[i] \in [ev : DevEvents, op : Operations \cup {NoOperation}]
  /\ gTimer \in Timers(0..commands.most) /\ dTimer \in Timers(0..commands.most)

(* No handler stops a timer that was never made: thing.timeoutTimer is nil *)
(* until the first request went out, and the handlers of the answers do    *)
(* not look.                                                               *)
NoPanic == gw.status # "panic" /\ dev.status # "panic"

(* While the gateway waits for the end of an operation the device is busy  *)
(* with the same one, whatever breaks or fails, until a timer runs out.    *)
SameOperation ==
  expired.used = 0 /\ gw.status \in {"DispatcherAckMessageStatus", "RemoteOperationEndStatus"}
    => dev.operation = gw.operation /\ dev.status # "ThingControlStop"

(* Every operation the gateway has begun comes to an end, and the device   *)
(* is then ready for the next, while nothing fails, no timer runs out and  *)
(* the web asks for nothing unknown.                                       *)
Harmed == expired.used + faults.used + breaks.used > 0 \/ ~(commands.of \subseteq Operations)
OperationEnds ==
  /\ gw.status # "ThingControlStop" ~> gw.status = "ThingControlStop" \/ Harmed
  /\ dev.status # "ThingControlStop" ~> dev.status = "ThingControlStop" \/ Harmed
=============================================================================
