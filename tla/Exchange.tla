------------------------------ MODULE Exchange ------------------------------
(***************************************************************************)
(* The exchanges of one request and one acknowledgement between a gateway  *)
(* Thing and a device Thing that has logged in:                            *)
(*                                                                         *)
(*   relogin, readconfig, setconfig   asked by the gateway                 *)
(*   heartbeat, infoupload            asked by the device                  *)
(*                                                                         *)
(* The asker keeps a status and a timer, the peer a status; the peer's     *)
(* handler of the request pushes EventXxxAck on the peer's own channel and *)
(* the handler of that event sends the acknowledgement. The exchanges      *)
(* share nothing but the connection and the channels. Who asks first is    *)
(* left open (Ask): the pushes after the login are commented out.          *)
(* The device's Thing outlives a connection, the gateway's does not. Its   *)
(* status is Logined only from a login to the next registration, break or  *)
(* tick that finds the key too old.                                        *)
(***************************************************************************)
EXTENDS Integers, Sequences, RequestTimer

CONSTANTS
  Instances,     (* what a behaviour may be about: a set of records of     *)
                 (*   exchanges  the exchanges that take place             *)
                 (*   sides      the sides on which errors are considered  *)
                 (*   ask        bound: requests pushed from outside       *)
                 (*   expire     bound: timers that run out                *)
                 (*   fault      bound: database, mongo and JSON errors,   *)
                 (*              failed sends                              *)
                 (*   break      bound: connections that break             *)
                 (*   withdraw   bound: logins taken back by the ticker or *)
                 (*              by a registration that is repeated        *)
                 (*   lose       bound: frames that a reader cannot decode *)
  MaxAgain       (* bound: relogins asked for again after a failure        *)

AskedByGateway == {"relogin", "readconfig", "setconfig"}
AskedByDevice  == {"heartbeat", "infoupload"}
Sides          == {"gw", "dev"}

AllExchanges   == AskedByGateway \cup AskedByDevice

ASSUME ConstantsOK ==
  /\ MaxAgain \in Nat
  /\ Instances \subseteq [exchanges : SUBSET AllExchanges, sides : SUBSET Sides,
                          ask : Nat, expire : Nat, fault : Nat, break : Nat,
                          withdraw : Nat, lose : Nat]

VARIABLES
  conn,          (* "up", "broken", "login": new, no login over it yet     *)
  reader,        (* the device's taskReadTcp runs                          *)
  ThingStatus,   (* of the device: "Logined", or one of the other two      *)
  login,         (* the device registers or logs in                        *)
  wire,          (* wire[s]: frames on their way to side s                 *)
  queue,         (* queue[s]: ThingMsgChan of side s                       *)
  asker,         (* asker[x]: status, creation time and timer of the asker *)
  timer,         (* timer[x]: the asker's goroutines, see RequestTimer     *)
  peer,          (* peer[x]: the status of the side that answers           *)
  again,         (* goroutines that ask for a relogin after ReLoginAgainTime *)
  reloginTimers, (* the device's goroutines that wait for reloginTimer     *)
  now,           (* time.Now().Unix()                                      *)
  owed,          (* history: requests begun and not acknowledged           *)
  robbed,        (* history: requests whose goroutine took the token of an *)
                 (* earlier answer and no longer watches the timer         *)
  asks, expired, faults, breaks,  (* what has happened, and at most may   *)
  withdrawn, lost

linkVars  == <<conn, reader, ThingStatus, login, breaks, withdrawn, lost>>
chanVars  == <<wire, queue>>
stateVars == <<asker, timer, peer, again, reloginTimers, owed, robbed>>
vars == <<linkVars, chanVars, stateVars, now, asks, expired, faults>>

Asker(x) == IF x \in AskedByGateway THEN "gw" ELSE "dev"
Peer(x)  == IF x \in AskedByGateway THEN "dev" ELSE "gw"

(* ect: EventCreationTime; n tells the requests of an exchange apart, the  *)
(* code does not see it.                                                   *)
Event(ev, x, ect, n) == [ev |-> ev, x |-> x, ect |-> ect, n |-> n]
NoRequest == [status |-> "Stop", made |-> FALSE, ect |-> 0, n |-> 0]

AtMost(n) == [used |-> 0, most |-> n]
Spend(b)  == b.used < b.most /\ b' = [b EXCEPT !.used = @ + 1]

Exchanges == DOMAIN asker

Init ==
  /\ \E i \in Instances :
       /\ asker = [x \in i.exchanges |-> NoRequest]
       /\ timer = [x \in i.exchanges |-> NoTimer]
       /\ peer  = [x \in i.exchanges |-> "Stop"]
       /\ asks = AtMost(i.ask) /\ expired = AtMost(i.expire) /\ breaks = AtMost(i.break)
       /\ withdrawn = AtMost(i.withdraw) /\ lost = AtMost(i.lose)
       /\ faults = [used |-> 0, most |-> i.fault, sides |-> i.sides]
  /\ conn = "up" /\ reader = TRUE /\ ThingStatus = "Logined" /\ login = FALSE
  /\ wire = [s \in Sides |-> <<>>] /\ queue = [s \in Sides |-> <<>>]
  /\ again = 0 /\ reloginTimers = 0
  /\ now = 0 /\ owed = {} /\ robbed = {}

-----------------------------------------------------------------------------
(* Shared steps of the handlers.                                           *)

LoggedIn == ThingStatus = "Logined"
Alive    == \A x \in Exchanges : asker[x].status # "panic"

On(side, ev, x) == /\ Alive /\ x \in Exchanges
                   /\ queue[side] # <<>>
                   /\ Head(queue[side]).ev = ev /\ Head(queue[side]).x = x
Msg(side) == Head(queue[side])

Done(side)       == queue' = [queue EXCEPT ![side] = Tail(@)]
DoneThen(side, e) == queue' = [queue EXCEPT ![side] = Append(Tail(@), e)]

Fault(side) == side \in faults.sides /\ Spend(faults)
NoFault     == UNCHANGED faults

(* A broken connection takes a frame into its buffer, or fails.            *)
Send(to, m) == wire' = IF conn = "broken" THEN wire ELSE [wire EXCEPT ![to] = Append(@, m)]

(* Before the login the gateway's Thing has no id and finds no key.        *)
CanEncrypt(side) == side = "dev" \/ conn # "login"
FailedSend(side) == /\ UNCHANGED wire
                    /\ IF conn = "broken" \/ ~CanEncrypt(side) THEN NoFault ELSE Fault(side)

StatesRest  == UNCHANGED <<wire, asker, timer, peer, again, reloginTimers, owed>>
RequestRest == UNCHANGED <<linkVars, now, asks, expired>>
HandlerRest == RequestRest /\ UNCHANGED robbed

(* The guard of every request handler.                                     *)
CanAsk(x)  == On(Asker(x), "Req", x) /\ asker[x].status = "Stop"
CanTake(x) == On(Peer(x), "Req", x) /\ peer[x] = "Stop"
CanReply(x) == On(Peer(x), "Ack", x) /\ peer[x] = "Req"

(* Mutant: the timer is built where the channel is, with the first request. *)
RequestedTimedOnce(x) ==
  /\ CanAsk(x) /\ CanEncrypt(Asker(x))
  /\ LET n == asker[x].n + 1
     IN  /\ asker' = [asker EXCEPT ![x] = [status |-> "Req", made |-> TRUE, ect |-> now, n |-> n]]
         /\ Send(Peer(x), Event("Req", x, now, n))
  /\ timer' = IF asker[x].made THEN timer ELSE [timer EXCEPT ![x] = Started(@)]
  /\ owed' = owed \cup {x} /\ robbed' = robbed \ {x}
  /\ Done(Asker(x)) /\ NoFault
  /\ RequestRest /\ UNCHANGED <<peer, again, reloginTimers>>

(* Mutant: the timer is not built.                                         *)
RequestedUntimed(x) ==
  /\ CanAsk(x) /\ CanEncrypt(Asker(x))
  /\ LET n == asker[x].n + 1
     IN  /\ asker' = [asker EXCEPT ![x].status = "Req", ![x].ect = now, ![x].n = n]
         /\ Send(Peer(x), Event("Req", x, now, n))
  /\ owed' = owed \cup {x} /\ robbed' = robbed \ {x}
  /\ Done(Asker(x)) /\ NoFault
  /\ RequestRest /\ UNCHANGED <<timer, peer, again, reloginTimers>>

(* The request goes out and its timer is started.                          *)
Requested(x) ==
  /\ CanAsk(x) /\ CanEncrypt(Asker(x))
  /\ LET n == asker[x].n + 1
     IN  /\ asker' = [asker EXCEPT ![x] = [status |-> "Req", made |-> TRUE, ect |-> now, n |-> n]]
         /\ Send(Peer(x), Event("Req", x, now, n))
  /\ timer' = [timer EXCEPT ![x] = Started(@)]
  /\ owed' = owed \cup {x} /\ robbed' = robbed \ {x}
  /\ Done(Asker(x)) /\ NoFault
  /\ RequestRest /\ UNCHANGED <<peer, again, reloginTimers>>

(* Any error before the send has succeeded: the status stays set, and      *)
(* there is no timer that would reset it.                                  *)
RequestFails(x) ==
  /\ CanAsk(x)
  /\ asker' = [asker EXCEPT ![x].status = "Req"]
  /\ owed' = owed \cup {x}
  /\ FailedSend(Asker(x)) /\ Done(Asker(x))
  /\ HandlerRest /\ UNCHANGED <<timer, peer, again, reloginTimers>>

(* The acknowledgement comes: Stop, token, status. Stop of a timer that    *)
(* was never made ends the process.                                        *)
Acknowledged(x) ==
  /\ On(Asker(x), "Ack", x) /\ asker[x].status = "Req"
  /\ IF asker[x].made
     THEN /\ CanClose(timer[x]) /\ timer' = [timer EXCEPT ![x] = Closed(Stopped(@))]
          /\ asker' = [asker EXCEPT ![x].status = "Stop"]
     ELSE asker' = [asker EXCEPT ![x].status = "panic"] /\ UNCHANGED timer
  /\ owed' = owed \ {x}
  /\ Done(Asker(x)) /\ NoFault
  /\ HandlerRest /\ UNCHANGED <<wire, peer, again, reloginTimers>>

PeerRest == HandlerRest /\ UNCHANGED <<asker, timer, again, owed>>
TimerOfReLoginRest == UNCHANGED reloginTimers

Taken(x) ==
  /\ CanTake(x)
  /\ peer' = [peer EXCEPT ![x] = "Req"]
  /\ DoneThen(Peer(x), [Msg(Peer(x)) EXCEPT !.ev = "Ack"])
  /\ NoFault /\ UNCHANGED wire /\ PeerRest

Replied(x, ect) ==
  /\ CanReply(x) /\ CanEncrypt(Peer(x))
  /\ peer' = [peer EXCEPT ![x] = "Stop"]
  /\ Send(Asker(x), [Msg(Peer(x)) EXCEPT !.ect = ect])
  /\ Done(Peer(x))
  /\ NoFault /\ PeerRest /\ TimerOfReLoginRest

(* An error of the peer's second handler, which leaves `status' behind.    *)
ReplyFails(x, status) ==
  /\ CanReply(x)
  /\ peer' = [peer EXCEPT ![x] = status]
  /\ FailedSend(Peer(x)) /\ Done(Peer(x))
  /\ PeerRest /\ TimerOfReLoginRest

(* Every handler's refusal: nothing but the event is gone.                 *)
Refused(side) ==
  /\ \E x \in Exchanges :
       \/ On(side, "Req", x) /\ side = Asker(x) /\ asker[x].status # "Stop"
       \/ On(side, "Ack", x) /\ side = Asker(x) /\ asker[x].status # "Req"
       \/ On(side, "Req", x) /\ side = Peer(x) /\ peer[x] # "Stop"
       \/ On(side, "Ack", x) /\ side = Peer(x) /\ peer[x] # "Req"
  /\ Done(side) /\ NoFault
  /\ HandlerRest /\ StatesRest

-----------------------------------------------------------------------------
(* The gateway's handlers.                                                 *)

GReLoginReq == Requested("relogin")

(* Mutant: an error is handled as in the other exchanges.                  *)
ReLoginReqGivesUp == RequestFails("relogin")

(* Any error: the status is reset and a goroutine asks again later. The    *)
(* creation time is recorded between the database and the send.            *)
GReLoginReqFails ==
  /\ CanAsk("relogin")
  /\ \E ect \in {asker["relogin"].ect, now} : asker' = [asker EXCEPT !["relogin"].ect = ect]
  /\ again' = again + 1
  /\ owed' = owed \cup {"relogin"}
  /\ FailedSend("gw") /\ Done("gw")
  /\ HandlerRest /\ UNCHANGED <<timer, peer, reloginTimers>>

(* Mutant: the creation time is not compared.                              *)
AnyAck  == Msg("gw").ect >= 0
Current == Msg("gw").ect = asker["relogin"].ect
GReLoginAck == On("gw", "Ack", "relogin") /\ Current /\ Acknowledged("relogin")
GReLoginAckOutOfDate ==
  /\ On("gw", "Ack", "relogin") /\ asker["relogin"].status = "Req" /\ ~Current
  /\ Done("gw") /\ NoFault
  /\ HandlerRest /\ StatesRest

GReadConfigReq      == Requested("readconfig")
GReadConfigReqFails == RequestFails("readconfig")
GReadConfigAck      == Acknowledged("readconfig")
GSetConfigReq       == Requested("setconfig")
GSetConfigReqFails  == RequestFails("setconfig")
GSetConfigAck       == Acknowledged("setconfig")

(* Mutant: the status is not reset after the answer.                       *)
HeartbeatAckNotReset ==
  /\ CanReply("heartbeat") /\ CanEncrypt("gw")
  /\ Send("dev", Msg("gw")) /\ Done("gw") /\ NoFault
  /\ UNCHANGED peer /\ PeerRest /\ TimerOfReLoginRest
GHeartbeatReq      == Taken("heartbeat") /\ TimerOfReLoginRest
GHeartbeatAck      == Replied("heartbeat", now)
GHeartbeatAckFails == ReplyFails("heartbeat", "Req")

GThingInfoUploadReq == Taken("infoupload") /\ TimerOfReLoginRest
(* JSON or mongo: the upload is not acknowledged, the status stays set.    *)
GThingInfoUploadReqFails ==
  /\ CanTake("infoupload") /\ Fault("gw")
  /\ peer' = [peer EXCEPT !["infoupload"] = "Req"]
  /\ Done("gw")
  /\ UNCHANGED wire /\ PeerRest /\ TimerOfReLoginRest
GThingInfoUploadAck      == Replied("infoupload", now)
GThingInfoUploadAckFails == ReplyFails("infoupload", "Req")

-----------------------------------------------------------------------------
(* The device's handlers.                                                  *)

DReLoginReq ==
  /\ Taken("relogin")
  /\ reloginTimers' = reloginTimers + 1
DReLoginReqFails ==
  /\ CanTake("relogin") /\ Fault("dev")
  /\ Done("dev")
  /\ UNCHANGED <<wire, peer>> /\ PeerRest /\ TimerOfReLoginRest
DReLoginAck      == Replied("relogin", Msg("dev").ect)
(* Mutant: the status is kept after an error.                              *)
ReLoginAckLeavesStatus == ReplyFails("relogin", "Req")
DReLoginAckFails == ReplyFails("relogin", "Stop")

DReadConfigReq == LoggedIn /\ Taken("readconfig") /\ TimerOfReLoginRest
DReadConfigReqUnLogin ==
  /\ CanTake("readconfig") /\ ~LoggedIn
  /\ Done("dev") /\ NoFault
  /\ HandlerRest /\ StatesRest
DReadConfigAck      == Replied("readconfig", now)
DReadConfigAckFails == ReplyFails("readconfig", "Req")

DSetConfigReq      == Taken("setconfig") /\ TimerOfReLoginRest
DSetConfigAck      == Replied("setconfig", now)
(* Data that cannot be parsed resets the status, every other error leaves it. *)
DSetConfigAckFails ==
  \/ ReplyFails("setconfig", "Req")
  \/ /\ CanReply("setconfig") /\ Fault("dev")
     /\ peer' = [peer EXCEPT !["setconfig"] = "Stop"]
     /\ Done("dev") /\ UNCHANGED wire
     /\ PeerRest /\ TimerOfReLoginRest

DHeartbeatReq == LoggedIn /\ Requested("heartbeat")
DHeartbeatReqFails == LoggedIn /\ RequestFails("heartbeat")
(* The status has been set when the login is looked at.                    *)
DHeartbeatReqUnLogin ==
  /\ CanAsk("heartbeat") /\ ~LoggedIn
  /\ asker' = [asker EXCEPT !["heartbeat"].status = "Req"]
  /\ owed' = owed \cup {"heartbeat"}
  /\ Done("dev") /\ NoFault
  /\ HandlerRest /\ UNCHANGED <<wire, timer, peer, again, reloginTimers>>
DHeartbeatAck == Acknowledged("heartbeat")

DThingInfoUploadReq      == Requested("infoupload")
DThingInfoUploadReqFails == RequestFails("infoupload")
DThingInfoUploadAck      == Acknowledged("infoupload")

-----------------------------------------------------------------------------
(* The goroutines of the timers. relogin: push, then reset; heartbeat and  *)
(* infoupload: reset, then push; readconfig and setconfig: reset.          *)

Push(side, e)  == queue' = [queue EXCEPT ![side] = Append(@, e)]
Repetition(x)  == Push(Asker(x), Event("Req", x, 0, 0))
ResetStatus(x) == asker' = [asker EXCEPT ![x].status = "Stop"]

(* Mutant: the goroutine only logs.                                        *)
TimerOnlyLogs(x) ==
  /\ timer[x].fired > 0
  /\ timer' = [timer EXCEPT ![x] = FirstDone(@)]
  /\ UNCHANGED <<robbed, now, expired, asker, queue>>

TimerTaken(x) == \E tm \in TokenTaken(timer[x]) :
                    /\ timer' = [timer EXCEPT ![x] = tm]
                    /\ robbed' = IF timer[x].newest /\ ~tm.newest THEN robbed \cup {x} ELSE robbed
                    /\ UNCHANGED <<asker, queue, now, expired>>
(* A token that lies in the channel is taken at once, a timer runs for     *)
(* seconds: it does not run out while there is one.                        *)
TimerExpires(x) == \E tm \in Expired(timer[x]) :
                    /\ timer[x].token = 0
                    /\ Spend(expired)
                    /\ now' = now + 1
                    /\ timer' = [timer EXCEPT ![x] = tm]
                    /\ UNCHANGED <<asker, queue, robbed>>
TimerFirst(x) ==
  /\ timer[x].fired > 0
  /\ timer' = [timer EXCEPT ![x] = FirstDone(@)]
  /\ IF x = "relogin" THEN Repetition(x) /\ UNCHANGED asker
                      ELSE ResetStatus(x) /\ UNCHANGED queue
  /\ UNCHANGED <<robbed, now, expired>>
TimerSecond(x) ==
  /\ timer[x].late > 0
  /\ timer' = [timer EXCEPT ![x] = SecondDone(@)]
  /\ CASE x = "relogin"      -> ResetStatus(x) /\ UNCHANGED queue
       [] x \in AskedByDevice -> Repetition(x) /\ UNCHANGED asker
       [] OTHER               -> UNCHANGED <<asker, queue>>
  /\ UNCHANGED <<robbed, now, expired>>
Timer(x) ==
  /\ Alive /\ x \in Exchanges
  /\ TimerTaken(x) \/ TimerExpires(x) \/ TimerFirst(x) \/ TimerSecond(x)
  /\ UNCHANGED <<linkVars, wire, peer, again, reloginTimers, owed, asks, faults>>

(* ReLoginAgainTime, ten seconds, has passed since the failure.            *)
GReLoginAgain ==
  /\ Alive /\ again > 0 /\ again' = again - 1
  /\ now - expired.used < MaxAgain /\ now' = now + 1
  /\ Repetition("relogin")
  /\ UNCHANGED <<linkVars, wire, asker, timer, peer, reloginTimers, owed, robbed,
                 asks, expired, faults>>

DReLoginTimer ==
  /\ Alive /\ reloginTimers > 0 /\ reloginTimers' = reloginTimers - 1
  /\ Push("dev", Event("LoginRequest", "relogin", 0, 0))
  /\ UNCHANGED <<linkVars, wire, asker, timer, peer, again, owed, robbed, now,
                 asks, expired, faults>>

-----------------------------------------------------------------------------
(* Readers, connection, environment.                                       *)

Ask(x) ==
  /\ Alive /\ reader /\ conn # "login"
  /\ Spend(asks)
  /\ Repetition(x)
  /\ UNCHANGED <<linkVars, wire, stateVars, now, expired, faults>>

Read(side) ==
  /\ Alive /\ (side = "dev" => reader)
  /\ wire[side] # <<>>
  /\ Push(side, Head(wire[side]))
  /\ wire' = [wire EXCEPT ![side] = Tail(@)]
  /\ UNCHANGED <<linkVars, stateVars, now, asks, expired, faults>>

(* The reader goes on behind a frame that it cannot decode: the database   *)
(* does not give the key, or the keys change while the frame is under way. *)
ReadFails(side) ==
  /\ Alive /\ (side = "dev" => reader)
  /\ wire[side] # <<>> /\ Spend(lost)
  /\ wire' = [wire EXCEPT ![side] = Tail(@)]
  /\ UNCHANGED <<conn, reader, ThingStatus, login, breaks, withdrawn, queue, stateVars, now,
                 asks, expired, faults>>

StatusRest == UNCHANGED <<conn, reader, breaks, lost, wire, stateVars, now, asks, expired, faults>>

Break ==
  /\ Alive /\ conn = "up" /\ Spend(breaks)
  /\ conn' = "broken"
  /\ UNCHANGED <<reader, ThingStatus, login, withdrawn, lost, chanVars, stateVars, now,
                 asks, expired, faults>>

(* The device's reader ends; the status is set before its last push.       *)
DReadBreak ==
  /\ Alive /\ reader /\ conn = "broken"
  /\ reader' = FALSE /\ ThingStatus' = "UnLogin"
  /\ Push("dev", Event("ConnectServer", "none", 0, 0))
  /\ UNCHANGED <<conn, login, breaks, withdrawn, lost, wire, stateVars, now,
                 asks, expired, faults>>

(* A new Thing on the gateway.                                             *)
DConnect ==
  /\ Alive /\ queue["dev"] # <<>> /\ Msg("dev").ev = "ConnectServer"
  /\ conn' = "login" /\ reader' = TRUE /\ login' = FALSE
  /\ wire' = [s \in Sides |-> <<>>]
  /\ queue' = [gw |-> <<>>, dev |-> Append(Tail(queue["dev"]), Event("RegisterReq", "none", 0, 0))]
  /\ asker' = [x \in Exchanges |-> IF x \in AskedByGateway THEN [NoRequest EXCEPT !.n = asker[x].n]
                                                           ELSE asker[x]]
  /\ timer' = [x \in Exchanges |-> IF x \in AskedByGateway THEN NoTimer ELSE timer[x]]
  /\ peer'  = [x \in Exchanges |-> IF x \in AskedByDevice THEN "Stop" ELSE peer[x]]
  /\ again' = 0 /\ owed' = owed \ AskedByGateway /\ robbed' = robbed \ AskedByGateway
  /\ UNCHANGED <<ThingStatus, breaks, withdrawn, lost, reloginTimers, now, asks, expired, faults>>

-----------------------------------------------------------------------------
(* The device's status. The frames of the registration and of the login    *)
(* themselves are in Handshake.                                            *)

(* The ticker finds the key too old.                                       *)
DCheckAesKeyValidity ==
  /\ Alive /\ Spend(withdrawn)
  /\ ThingStatus' = "UnLogin"
  /\ Push("dev", Event("LoginRequest", "none", 0, 0))
  /\ StatusRest /\ UNCHANGED login

(* A goroutine of the registration, or of a login's timer, that has waited. *)
DRegisterAgain ==
  /\ Alive /\ Spend(withdrawn)
  /\ Push("dev", Event("RegisterReq", "none", 0, 0))
  /\ StatusRest /\ UNCHANGED <<ThingStatus, login>>

(* The registration goes on to the login.                                  *)
DRegisterReq ==
  /\ Alive /\ queue["dev"] # <<>> /\ Msg("dev").ev = "RegisterReq"
  /\ ThingStatus' = "UnLogin" /\ login' = TRUE
  /\ Done("dev")
  /\ StatusRest /\ UNCHANGED withdrawn

(* The status is left alone until the login has succeeded.                 *)
DLoginRequest ==
  /\ Alive /\ queue["dev"] # <<>> /\ Msg("dev").ev = "LoginRequest"
  /\ login' = TRUE
  /\ Done("dev")
  /\ StatusRest /\ UNCHANGED <<ThingStatus, withdrawn>>

(* An answer to the Thing that the gateway had for the last connection.    *)
OldAnswer(e) == e.x \in AskedByGateway /\ e.ev = "Ack"
NoneIn(q)    == \A i \in 1..Len(q) : ~OldAnswer(q[i])

(* The login's own frames go both ways through the same channels, so that, *)
(* over a new connection, the old answers have been worked off.            *)
DLoginSuccess ==
  /\ Alive /\ login
  /\ conn = "login" => NoneIn(queue["dev"]) /\ NoneIn(wire["gw"]) /\ NoneIn(queue["gw"])
  /\ login' = FALSE /\ ThingStatus' = "Logined"
  /\ conn' = IF conn = "login" THEN "up" ELSE conn
  /\ UNCHANGED <<reader, breaks, withdrawn, lost, chanVars, stateVars, now, asks, expired, faults>>

-----------------------------------------------------------------------------
GatewayEvent ==
  \/ Refused("gw")
  \/ GReLoginReq \/ GReLoginReqFails \/ GReLoginAck \/ GReLoginAckOutOfDate
  \/ GReadConfigReq \/ GReadConfigReqFails \/ GReadConfigAck
  \/ GSetConfigReq \/ GSetConfigReqFails \/ GSetConfigAck
  \/ GHeartbeatReq \/ GHeartbeatAck \/ GHeartbeatAckFails
  \/ GThingInfoUploadReq \/ GThingInfoUploadReqFails
  \/ GThingInfoUploadAck \/ GThingInfoUploadAckFails

DeviceEvent ==
  \/ Refused("dev") \/ DConnect \/ DRegisterReq \/ DLoginRequest \/ DLoginSuccess
  \/ DReLoginReq \/ DReLoginReqFails \/ DReLoginAck \/ DReLoginAckFails
  \/ DReadConfigReq \/ DReadConfigReqUnLogin \/ DReadConfigAck \/ DReadConfigAckFails
  \/ DSetConfigReq \/ DSetConfigAck \/ DSetConfigAckFails
  \/ DHeartbeatReq \/ DHeartbeatReqFails \/ DHeartbeatReqUnLogin \/ DHeartbeatAck
  \/ DThingInfoUploadReq \/ DThingInfoUploadReqFails \/ DThingInfoUploadAck

Next ==
  \/ \E x \in Exchanges : Ask(x) \/ Timer(x)
  \/ GatewayEvent \/ DeviceEvent
  \/ GReLoginAgain \/ DReLoginTimer \/ DRegisterAgain \/ DCheckAesKeyValidity
  \/ \E s \in Sides : Read(s) \/ ReadFails(s)
  \/ DReadBreak \/ Break

Fairness ==
  /\ WF_vars(GatewayEvent) /\ WF_vars(DeviceEvent)
  /\ \A s \in Sides : WF_vars(Read(s))
  /\ \A x \in AllExchanges : WF_vars(Timer(x))
  /\ WF_vars(GReLoginAgain) /\ WF_vars(DReLoginTimer) /\ WF_vars(DReadBreak)

Spec == Init /\ [][Next]_vars /\ Fairness

-----------------------------------------------------------------------------
(* Every variable stays in its set.                                        *)
Events == [ev : {"Req", "Ack", "LoginRequest", "RegisterReq", "ConnectServer"},
           x : Exchanges \cup {"relogin", "none"}, ect : Nat, n : Nat]
TypeOK ==
  /\ conn \in {"up", "broken", "login"} /\ {reader, login} \subseteq BOOLEAN
  /\ ThingStatus \in {"UnLogin", "Logined"}
  /\ wire \in [Sides -> Seq(Events)] /\ queue \in [Sides -> Seq(Events)]
  /\ asker \in [Exchanges -> [status : {"Stop", "Req", "panic"}, made : BOOLEAN, ect : Nat, n : Nat]]
  /\ \A x \in Exchanges : timer[x] \in Timers(0..asker[x].n)
  /\ peer \in [Exchanges -> {"Stop", "Req"}]
  /\ {again, reloginTimers, now} \subseteq Nat
  /\ owed \cup robbed \subseteq Exchanges

(* No acknowledgement meets a status that was set without a timer: the     *)
(* handlers of the acknowledgements call Stop without looking for nil.     *)
NoPanic == Alive

(* What the properties are conditional on. The asker's own trouble: an     *)
(* error of its own, a break, and for the heartbeat, which looks at the    *)
(* status after it has set its own, a login that is taken back.            *)
Withdrawn(x)  == x = "heartbeat" /\ withdrawn.used > 0
OwnTrouble(x) == \/ breaks.used > 0 \/ Withdrawn(x)
                 \/ faults.used > 0 /\ Asker(x) \in faults.sides
Harmed        == breaks.used + faults.used + lost.used > 0

(* An asker that waits is watched: its timer runs, or a goroutine whose    *)
(* timer ran out has still to reset the status. But for its own trouble    *)
(* only a stolen token leaves it waiting for good, whatever the other side *)
(* fails to do and whatever the readers lose.                              *)
TimerWatches(x) == timer[x].newest \/ timer[x].fired + timer[x].late > 0
WaitsForSomething ==
  \A x \in Exchanges :
    asker[x].status = "Req" => TimerWatches(x) \/ x \in robbed \/ OwnTrouble(x)

(* A ReLoginAck that is accepted answers the request that waits, not one   *)
(* that was given up: creation times are whole seconds. With a second      *)
(* request from outside in the same second it need not be so.              *)
AckIsCurrent ==
  [][\A x \in Exchanges :
       /\ x = "relogin" /\ asker[x].status = "Req" /\ asker'[x].status = "Stop"
       /\ Len(queue'["gw"]) < Len(queue["gw"])
       /\ conn' = conn /\ asks.used < 2
       => Msg("gw").n = asker[x].n]_vars

(* The device's relogin never keeps the status of a request that failed:   *)
(* while it is set, the event that resets it is in the queue.              *)
ReLoginReleased ==
  "relogin" \in Exchanges /\ peer["relogin"] = "Req"
    => \E i \in 1..Len(queue["dev"]) : queue["dev"][i].ev = "Ack" /\ queue["dev"][i].x = "relogin"

(* The scheduler is not blocked by its own close channel: a token that no  *)
(* goroutine will take never meets the next acknowledgement.               *)
CloseTakesToken ==
  \A x \in Exchanges :
    On(Asker(x), "Ack", x) /\ asker[x].status = "Req" /\ ~CanClose(timer[x])
      => timer[x].run + timer[x].idle > 0 \/ OwnTrouble(x)

(* What the device asks is acknowledged in the end, as its timers ask      *)
(* again, while nothing fails: the upload whatever becomes of the login,   *)
(* the heartbeat as long as the login is not taken back.                   *)
DeviceIsAnswered ==
  \A x \in AskedByDevice : x \in owed ~> x \notin owed \/ Harmed \/ Withdrawn(x)

(* A relogin whose request could not be sent is asked for again until it   *)
(* is acknowledged, while the connection holds, no timer runs out, no      *)
(* frame is lost and the device is in order.                               *)
ReLoginComesAbout ==
  "relogin" \in owed ~> \/ "relogin" \notin owed
                        \/ breaks.used + expired.used + lost.used > 0 \/ "dev" \in faults.sides
=============================================================================
