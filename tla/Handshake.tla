----------------------------- MODULE Handshake -----------------------------
(***************************************************************************)
(* Registration and login of one device: iot_client/thing on the device    *)
(* (one scheduler, one event channel that outlives its connections) and    *)
(* one Thing of iot/gateway per connection, over TCP, with the AES key     *)
(* that each side keeps in its own database and derives anew at every      *)
(* login. A handler is one step; what its goroutines do is a step each.    *)
(*                                                                         *)
(* Abstracted: keys are numbered in the order the gateway issues them,     *)
(* H(AesRandom + key) is a new number when both sides derive it from the   *)
(* same key and BadKey otherwise; md5 digests are compared by what they    *)
(* digest; a frame decrypted with another key than it was encrypted with   *)
(* is dropped (ServiceDataCheck). A key may become older than              *)
(* AesValidityDurationTime, never AesKeyOutOfDateTime, ten minutes later:  *)
(* KeyType is KeyTypeCurrentAesKey throughout.                             *)
(***************************************************************************)
EXTENDS Integers, Sequences, FiniteSets, RequestTimer

CONSTANTS
  MaxConn, MaxTime, MaxTries, MaxKey,   (* the largest bounds of Instances *)
  Instances   (* what a behaviour may meet: a set of records of            *)
              (*   conn    bound: connections the device opens             *)
              (*   time    bound: seconds on the clock that                *)
              (*           EventCreationTime reads                         *)
              (*   tries   bound: requests the device sends (also numbers  *)
              (*           randoms)                                        *)
              (*   key     bound: keys the gateway issues                  *)
              (*   fault   bound: database and JSON errors                 *)
              (*   times   RegisterReqMaxTimes, 3 in the code              *)
              (*   expire  whether the timer of a request may run out      *)
              (*   age     bound: times the device's key becomes too old   *)
              (*   breaks  bound: connections that break                   *)

ASSUME BoundsOK ==
  /\ {MaxConn, MaxKey} \subseteq Nat \ {0} /\ {MaxTime, MaxTries} \subseteq Nat
  /\ Instances \subseteq [conn : 1..MaxConn, time : 0..MaxTime, tries : 0..MaxTries,
                          key : 1..MaxKey, fault : Nat, times : Nat \ {0}, expire : BOOLEAN,
                          age : Nat, breaks : Nat]

VARIABLES
  conn,      (* 1..MaxConn -> "none", "up", "broken"                       *)
  c2g, g2c,  (* frames in each direction                                   *)
  dev,       (* the device: its struct Thing, Register, Login, its row     *)
  dQueue,    (* its event channel                                          *)
  dReader,   (* its taskReadTcp                                            *)
  regTimer, loginTimer,
  later,     (* goroutines that push an event after a delay, by event      *)
  gw,        (* per connection: the gateway's Thing and Login              *)
  gQueue, gTimer,
  db,        (* the device's row in the gateway's database                 *)
  now, tries,
  faults     (* errors and aged keys so far, and the instance              *)

connVars == <<conn, c2g, g2c>>
devVars  == <<dev, dQueue, dReader, regTimer, loginTimer, later>>
gwVars   == <<gw, gQueue, gTimer, db>>
vars     == <<connVars, devVars, gwVars, now, tries, faults>>

Conns   == 1..MaxConn
NoKey   == 0
BadKey  == -1
PreKey  == -2
Keys    == {BadKey, PreKey} \cup 0..MaxKey

Wire == {"RegisterReqEventMessage", "RegisterAckEventMessage", "EventLoginRequest",
         "EventLoginChallenge", "EventLoginResponse", "EventLoginSuccess", "EventLoginFailure"}
Local == {"EventConnectServer", "EventCheckThingStatus", "EventConnectionClosed"}
Delayed == {"EventConnectServer", "RegisterReqEventMessage", "EventLoginRequest"}

(* ect: EventCreationTime; rnd: the request whose randoms the frame is     *)
(* about; enc: the key it is encrypted with; key: the key it is about;     *)
(* ok: the result byte, where a handler looks at it.                       *)
Frame == [ev : Wire \cup Local, ect : 0..MaxTime, rnd : 0..MaxTries, enc : Keys, key : Keys,
          ok : BOOLEAN]
Msg(ev, m, enc, key, ok) ==
  [ev |-> ev, ect |-> m.ect, rnd |-> m.rnd, enc |-> enc, key |-> key, ok |-> ok]
Event(ev) == [ev |-> ev, ect |-> 0, rnd |-> 0, enc |-> NoKey, key |-> NoKey, ok |-> TRUE]

LoginStates == {"LoginStop", "LoginRequestStatus", "LoginChallengeStatus", "LoginResponseStatus"}
Statuses == {"ThingUnRegister", "ThingRegisteredUnLogin", "ThingRegisteredLogined"}

NewGwThing == [run |-> "off", login |-> "LoginStop", ect |-> 0, rnd |-> 0, enc |-> NoKey,
               thingid |-> FALSE]

Init ==
  /\ conn = [c \in Conns |-> "none"]
  /\ c2g = [c \in Conns |-> <<>>] /\ g2c = [c \in Conns |-> <<>>]
  /\ dev = [ThingStatus |-> "ThingUnRegister", key |-> NoKey, c |-> 0,
            registerStart |-> FALSE, regReqTimes |-> 0, regEct |-> 0,
            login |-> "LoginStop", ect |-> 0, rnd |-> 0, old |-> FALSE]
  /\ dQueue = <<Event("EventConnectServer")>>
  /\ dReader = "off"
  /\ regTimer = NoTimer /\ loginTimer = NoTimer
  /\ later = [e \in Delayed |-> 0]
  /\ gw = [c \in Conns |-> NewGwThing]
  /\ gQueue = [c \in Conns |-> <<>>]
  /\ gTimer = [c \in Conns |-> NoTimer]
  /\ db = [status |-> "ThingUnRegister", key |-> 1]
  /\ now = 0 /\ tries = 0
  /\ faults \in {[used |-> 0, aged |-> 0, of |-> i] : i \in Instances}

-----------------------------------------------------------------------------
(* Shared steps.                                                           *)

Bounds == faults.of

(* A database or JSON error.                                               *)
Fault == faults.used < Bounds.fault /\ faults' = [faults EXCEPT !.used = @ + 1]
NoFault == UNCHANGED faults

(* SendMessage: delivered while the connection is up; on a broken one it   *)
(* fails, or succeeds into the socket's buffer and is lost.                *)
Sent(pipe, c, m) == pipe' = IF conn[c] = "up" THEN [pipe EXCEPT ![c] = Append(@, m)] ELSE pipe
SendFails(c)     == conn[c] = "broken"

(* A key of 16 random bytes, or H of a random and the key before it.       *)
NewKey == db.key + 1

(* H(AesRandom + key) on the device: the key the gateway issued if both    *)
(* sides started from the same one.                                        *)
Derived(m) == IF dev.key = m.enc THEN m.key ELSE BadKey

(* The device's clock when it makes a request: this second or a later one. *)
Stamp(e) == e \in now..Bounds.time /\ e <= now + 1 /\ now' = e

(* Seconds pass before a delayed event, or before a request times out.     *)
Seconds == now < Bounds.time /\ now' = now + 1
Timeout == Bounds.expire /\ Seconds

-----------------------------------------------------------------------------
(* The device's connection and reader.                                     *)

m == Head(dQueue)
On(ev) == dQueue # <<>> /\ m.ev = ev
Done    == dQueue' = Tail(dQueue)
Then(e) == dQueue' = Append(Tail(dQueue), e)
Push(e) == dQueue' = Append(dQueue, e)

DConnect ==
  /\ On("EventConnectServer") /\ dev.c < Bounds.conn
  /\ dev' = [dev EXCEPT !.c = @ + 1]
  /\ conn' = [conn EXCEPT ![dev.c + 1] = "up"]
  /\ gw' = [gw EXCEPT ![dev.c + 1].run = "run"]
  /\ dReader' = "read"
  /\ Then(Event("EventCheckThingStatus"))
  /\ UNCHANGED <<c2g, g2c, regTimer, loginTimer, later, gQueue, gTimer, db, now, tries, faults>>

DDialFails ==
  /\ On("EventConnectServer") /\ dev.c < Bounds.conn
  /\ later' = [later EXCEPT !["EventConnectServer"] = @ + 1]
  /\ Done
  /\ UNCHANGED <<connVars, dev, dReader, regTimer, loginTimer, gwVars, now, tries, faults>>

(* The condition reads "if true": every connection registers.              *)
DCheckThingStatus ==
  /\ On("EventCheckThingStatus")
  /\ Then(Event("RegisterReqEventMessage"))
  /\ UNCHANGED <<connVars, dev, dReader, regTimer, loginTimer, later, gwVars, now, tries, faults>>

Readable(f, key) == f.enc \in {NoKey, key}

(* Mutant: ServiceDataCheck is not compared.                               *)
DReadUnchecked ==
  /\ dReader = "read" /\ g2c[dev.c] # <<>>
  /\ g2c' = [g2c EXCEPT ![dev.c] = Tail(@)]
  /\ Push(Head(g2c[dev.c]))
  /\ UNCHANGED <<conn, c2g, dev, dReader, regTimer, loginTimer, later, gwVars, now, tries, faults>>

(* The key is the one in the database when the frame is read.              *)
DRead ==
  /\ dReader = "read" /\ g2c[dev.c] # <<>>
  /\ g2c' = [g2c EXCEPT ![dev.c] = Tail(@)]
  /\ LET f == Head(g2c[dev.c])
     IN  IF Readable(f, dev.key) THEN Push(f) ELSE UNCHANGED dQueue
  /\ UNCHANGED <<conn, c2g, dev, dReader, regTimer, loginTimer, later, gwVars, now, tries, faults>>

(* setStatusWhenBroken, on the reader's goroutine.                         *)
DBroken ==
  /\ dReader = "read" /\ conn[dev.c] = "broken"
  /\ dev' = IF dev.ThingStatus = "ThingRegisteredLogined"
            THEN [dev EXCEPT !.ThingStatus = "ThingRegisteredUnLogin"] ELSE dev
  /\ dReader' = "push"
  /\ UNCHANGED <<connVars, dQueue, regTimer, loginTimer, later, gwVars, now, tries, faults>>

DConnectAgain ==
  /\ dReader = "push"
  /\ Push(Event("EventConnectServer"))
  /\ dReader' = "off"
  /\ UNCHANGED <<connVars, dev, regTimer, loginTimer, later, gwVars, now, tries, faults>>

(* A goroutine that waited before it pushes.                               *)
DLater(e) ==
  /\ later[e] > 0 /\ Seconds
  /\ later' = [later EXCEPT ![e] = @ - 1]
  /\ Push(Event(e))
  /\ UNCHANGED <<connVars, dev, dReader, regTimer, loginTimer, gwVars, tries, faults>>

-----------------------------------------------------------------------------
(* Registration on the device.                                             *)

(* eventDispatcher resets the status whether or not RegisterReq refuses.   *)
DRegisterReqRefused ==
  /\ On("RegisterReqEventMessage") /\ dev.registerStart
  /\ dev' = [dev EXCEPT !.ThingStatus = "ThingUnRegister"]
  /\ Done
  /\ UNCHANGED <<connVars, dReader, regTimer, loginTimer, later, gwVars, now, tries, faults>>

DRegisterReqError ==
  /\ On("RegisterReqEventMessage") /\ ~dev.registerStart
  /\ Fault
  /\ dev' = [dev EXCEPT !.ThingStatus = "ThingUnRegister"]
  /\ Done
  /\ UNCHANGED <<connVars, dReader, regTimer, loginTimer, later, gwVars, now, tries>>

DRegisterReqSendFails(e) ==
  /\ On("RegisterReqEventMessage") /\ ~dev.registerStart
  /\ tries < Bounds.tries /\ tries' = tries + 1 /\ Stamp(e)
  /\ SendFails(dev.c)
  /\ dev' = [dev EXCEPT !.ThingStatus = "ThingUnRegister", !.regEct = e]
  /\ Done
  /\ UNCHANGED <<connVars, dReader, regTimer, loginTimer, later, gwVars, faults>>

(* Mutant: requests in a row are not limited.                              *)
DRegisterReqForever(e) ==
  /\ On("RegisterReqEventMessage") /\ ~dev.registerStart
  /\ tries < Bounds.tries /\ tries' = tries + 1 /\ Stamp(e)
  /\ Sent(c2g, dev.c, [Event("RegisterReqEventMessage") EXCEPT !.ect = e, !.rnd = tries + 1])
  /\ LET again == TRUE
     IN  /\ dev' = [dev EXCEPT !.ThingStatus = "ThingUnRegister", !.regEct = e,
                               !.registerStart = again,
                               !.regReqTimes = IF again THEN @ + 1 ELSE 0]
         /\ regTimer' = IF again THEN Started(regTimer) ELSE regTimer
  /\ Done
  /\ UNCHANGED <<conn, g2c, dReader, loginTimer, later, gwVars, faults>>

(* The fourth request in a row waits for no answer.                        *)
DRegisterReq(e) ==
  /\ On("RegisterReqEventMessage") /\ ~dev.registerStart
  /\ tries < Bounds.tries /\ tries' = tries + 1 /\ Stamp(e)
  /\ Sent(c2g, dev.c, [Event("RegisterReqEventMessage") EXCEPT !.ect = e, !.rnd = tries + 1])
  /\ LET again == dev.regReqTimes < Bounds.times
     IN  /\ dev' = [dev EXCEPT !.ThingStatus = "ThingUnRegister", !.regEct = e,
                               !.registerStart = again,
                               !.regReqTimes = IF again THEN @ + 1 ELSE 0]
         /\ regTimer' = IF again THEN Started(regTimer) ELSE regTimer
  /\ Done
  /\ UNCHANGED <<conn, g2c, dReader, loginTimer, later, gwVars, faults>>

RegisterAckFits == dev.registerStart /\ dev.regEct = m.ect

DRegisterAckRefused ==
  /\ On("RegisterAckEventMessage") /\ ~RegisterAckFits
  /\ Done
  /\ UNCHANGED <<connVars, dev, dReader, regTimer, loginTimer, later, gwVars, now, tries, faults>>

(* Mutant: Status of the answer is not looked at.                          *)
DRegisterAckAny ==
  /\ On("RegisterAckEventMessage") /\ RegisterAckFits
  /\ CanClose(regTimer) /\ regTimer' = Closed(Stopped(regTimer))
  /\ dev' = [dev EXCEPT !.key = m.key, !.ThingStatus = "ThingRegisteredUnLogin",
                        !.registerStart = FALSE, !.regReqTimes = 0, !.old = FALSE]
  /\ Then(Event("EventLoginRequest"))
  /\ UNCHANGED <<connVars, dReader, loginTimer, later, gwVars, now, tries, faults>>

DRegisterAck ==
  /\ On("RegisterAckEventMessage") /\ RegisterAckFits /\ m.ok
  /\ CanClose(regTimer) /\ regTimer' = Closed(Stopped(regTimer))
  /\ dev' = [dev EXCEPT !.key = m.key, !.ThingStatus = "ThingRegisteredUnLogin",
                        !.registerStart = FALSE, !.regReqTimes = 0, !.old = FALSE]
  /\ Then(Event("EventLoginRequest"))
  /\ UNCHANGED <<connVars, dReader, loginTimer, later, gwVars, now, tries, faults>>

DRegisterAckFails ==
  /\ On("RegisterAckEventMessage") /\ RegisterAckFits
  /\ IF m.ok THEN Fault ELSE NoFault
  /\ CanClose(regTimer) /\ regTimer' = Closed(Stopped(regTimer))
  /\ dev' = [dev EXCEPT !.registerStart = FALSE, !.regReqTimes = 0]
  /\ later' = [later EXCEPT !["RegisterReqEventMessage"] = @ + 1]
  /\ Done
  /\ UNCHANGED <<connVars, dReader, loginTimer, gwVars, now, tries>>

(* The goroutine of checkRegAckTimer: it pushes the retry, and only then   *)
(* makes room for it.                                                      *)
RegTimer ==
  \/ /\ \E x \in TokenTaken(regTimer) : regTimer' = x
     /\ UNCHANGED <<dev, dQueue, now>>
  \/ /\ \E x \in Expired(regTimer) : regTimer' = x
     /\ Timeout
     /\ UNCHANGED <<dev, dQueue>>
  \/ /\ regTimer.fired > 0 /\ regTimer' = FirstDone(regTimer)
     /\ Push(Event("RegisterReqEventMessage"))
     /\ UNCHANGED <<dev, now>>
  \/ /\ regTimer.late > 0 /\ regTimer' = SecondDone(regTimer)
     /\ dev' = [dev EXCEPT !.registerStart = FALSE]
     /\ UNCHANGED <<dQueue, now>>
DRegTimer == RegTimer /\ UNCHANGED <<connVars, dReader, loginTimer, later, gwVars, tries, faults>>

-----------------------------------------------------------------------------
(* Login on the device.                                                    *)

LoginAgain == later' = [later EXCEPT !["EventLoginRequest"] = @ + 1]

DLoginRequestRefused ==
  /\ On("EventLoginRequest")
  /\ dev.login # "LoginStop" \/ dev.ThingStatus = "ThingUnRegister"
  /\ Done
  /\ UNCHANGED <<connVars, dev, dReader, regTimer, loginTimer, later, gwVars, now, tries, faults>>

CanLogin == dev.login = "LoginStop" /\ dev.ThingStatus # "ThingUnRegister"

DLoginRequestFails ==
  /\ On("EventLoginRequest") /\ CanLogin
  /\ IF SendFails(dev.c) THEN NoFault ELSE Fault
  /\ LoginAgain
  /\ Done
  /\ UNCHANGED <<connVars, dev, dReader, regTimer, loginTimer, gwVars, now, tries>>

DLoginRequest(e) ==
  /\ On("EventLoginRequest") /\ CanLogin
  /\ tries < Bounds.tries /\ tries' = tries + 1 /\ Stamp(e)
  /\ Sent(c2g, dev.c, [ev |-> "EventLoginRequest", ect |-> e, rnd |-> tries + 1,
                       enc |-> dev.key, key |-> NoKey, ok |-> TRUE])
  /\ dev' = [dev EXCEPT !.login = "LoginRequestStatus", !.ect = e, !.rnd = tries + 1]
  /\ loginTimer' = Started(loginTimer)
  /\ Done
  /\ UNCHANGED <<conn, g2c, dReader, regTimer, later, gwVars, faults>>

(* The answer belongs to the request under way.                            *)
LoginFits(ev, status) == On(ev) /\ dev.login = status /\ dev.ect = m.ect

DLoginRefused ==
  /\ \E a \in {<<"EventLoginChallenge", "LoginRequestStatus">>,
               <<"EventLoginFailure", "LoginResponseStatus">>,
               <<"EventLoginSuccess", "LoginResponseStatus">>} :
       On(a[1]) /\ ~LoginFits(a[1], a[2])
  /\ Done
  /\ UNCHANGED <<connVars, dev, dReader, regTimer, loginTimer, later, gwVars, now, tries, faults>>

(* ThingRandomMd5 digests the random of the request and the key.           *)
DLoginChallenge ==
  /\ LoginFits("EventLoginChallenge", "LoginRequestStatus")
  /\ m.rnd = dev.rnd /\ m.key = dev.key
  /\ dev' = [dev EXCEPT !.login = "LoginChallengeStatus"]
  /\ loginTimer' = Stopped(loginTimer)
  /\ Then([m EXCEPT !.ev = "EventLoginResponse"])
  /\ UNCHANGED <<connVars, dReader, regTimer, later, gwVars, now, tries, faults>>

DLoginChallengeFails ==
  /\ LoginFits("EventLoginChallenge", "LoginRequestStatus")
  /\ IF m.rnd = dev.rnd /\ m.key = dev.key THEN Fault ELSE NoFault
  /\ CanClose(loginTimer) /\ loginTimer' = Closed(Stopped(loginTimer))
  /\ dev' = [dev EXCEPT !.login = "LoginStop"]
  /\ Then(Event("RegisterReqEventMessage"))
  /\ UNCHANGED <<connVars, dReader, regTimer, later, gwVars, now, tries>>

DLoginResponseRefused ==
  /\ On("EventLoginResponse") /\ dev.login # "LoginChallengeStatus"
  /\ Done
  /\ UNCHANGED <<connVars, dev, dReader, regTimer, loginTimer, later, gwVars, now, tries, faults>>

(* AccessKey digests the random of the challenge and the key of now.       *)
DLoginResponse ==
  /\ On("EventLoginResponse") /\ dev.login = "LoginChallengeStatus"
  /\ Sent(c2g, dev.c, Msg("EventLoginResponse", m, dev.key, dev.key, TRUE))
  /\ dev' = [dev EXCEPT !.login = "LoginResponseStatus"]
  /\ loginTimer' = Restarted(loginTimer)
  /\ Done
  /\ UNCHANGED <<conn, g2c, dReader, regTimer, later, gwVars, now, tries, faults>>

DLoginResponseFails ==
  /\ On("EventLoginResponse") /\ dev.login = "LoginChallengeStatus"
  /\ IF SendFails(dev.c) THEN NoFault ELSE Fault
  /\ CanClose(loginTimer) /\ loginTimer' = Closed(loginTimer)
  /\ dev' = [dev EXCEPT !.login = "LoginStop"]
  /\ LoginAgain
  /\ Done
  /\ UNCHANGED <<connVars, dReader, regTimer, gwVars, now, tries>>

DLoginFailure ==
  /\ LoginFits("EventLoginFailure", "LoginResponseStatus")
  /\ CanClose(loginTimer) /\ loginTimer' = Closed(Stopped(loginTimer))
  /\ Then(Event(IF m.ok THEN "EventLoginRequest" ELSE "RegisterReqEventMessage"))
  /\ dev' = [dev EXCEPT !.login = "LoginStop"]
  /\ UNCHANGED <<connVars, dReader, regTimer, later, gwVars, now, tries, faults>>

DLoginSuccess ==
  /\ LoginFits("EventLoginSuccess", "LoginResponseStatus")
  /\ CanClose(loginTimer) /\ loginTimer' = Closed(Stopped(loginTimer))
  /\ dev' = [dev EXCEPT !.key = Derived(m), !.ThingStatus = "ThingRegisteredLogined",
                        !.login = "LoginStop", !.old = FALSE]
  /\ Done
  /\ UNCHANGED <<connVars, dReader, regTimer, later, gwVars, now, tries, faults>>

DLoginSuccessFails ==
  /\ LoginFits("EventLoginSuccess", "LoginResponseStatus")
  /\ Fault
  /\ CanClose(loginTimer) /\ loginTimer' = Closed(Stopped(loginTimer))
  /\ dev' = [dev EXCEPT !.login = "LoginStop"]
  /\ Then(Event("EventLoginRequest"))
  /\ UNCHANGED <<connVars, dReader, regTimer, later, gwVars, now, tries>>

(* The write of LoginStop is not synchronised: a handler that has read the *)
(* old status writes its own over it.                                      *)
LoginTimer ==
  \/ /\ \E x \in TokenTaken(loginTimer) : loginTimer' = x
     /\ UNCHANGED <<dev, dQueue, now>>
  \/ /\ \E x \in Expired(loginTimer) : loginTimer' = x
     /\ Timeout
     /\ UNCHANGED <<dev, dQueue>>
  \/ /\ loginTimer.fired > 0 /\ loginTimer' = FirstDone(loginTimer)
     /\ Push(Event("RegisterReqEventMessage"))
     /\ UNCHANGED <<dev, now>>
  \/ /\ loginTimer.late > 0 /\ loginTimer' = SecondDone(loginTimer)
     /\ \/ dev' = [dev EXCEPT !.login = "LoginStop"]
        \/ dev.login \in {"LoginChallengeStatus", "LoginResponseStatus"} /\ dev' = dev
     /\ UNCHANGED <<dQueue, now>>
DLoginTimer == LoginTimer /\ UNCHANGED <<connVars, dReader, regTimer, later, gwVars, tries, faults>>

Ended(x) == x.run = 0 /\ x.fired = 0 /\ x.late = 0 /\ TokenTaken(x) = {}

(* AesValidityDurationTime passes since the key was saved: nothing the     *)
(* device does takes so long but dialling again and again.                 *)
DKeyAges ==
  /\ dev.key # NoKey /\ ~dev.old
  /\ faults.aged < Bounds.age /\ faults' = [faults EXCEPT !.aged = @ + 1]
  /\ Ended(regTimer) /\ Ended(loginTimer)
  /\ \A c \in Conns : /\ Ended(gTimer[c]) /\ g2c[c] = <<>>
                      /\ gw[c].run = "run" => c2g[c] = <<>> /\ gQueue[c] = <<>>
  /\ later["RegisterReqEventMessage"] = 0 /\ later["EventLoginRequest"] = 0
  /\ \A i \in 1..Len(dQueue) : dQueue[i].ev = "EventConnectServer"
  /\ dev' = [dev EXCEPT !.old = TRUE]
  /\ UNCHANGED <<connVars, dQueue, dReader, regTimer, loginTimer, later, gwVars, now, tries>>

(* The ticker's case of the scheduler, every five minutes: what the tick   *)
(* before has pushed was handled meanwhile.                                *)
DCheckAesKeyValidity ==
  /\ dev.old
  /\ later["EventLoginRequest"] = 0
  /\ \A i \in 1..Len(dQueue) : dQueue[i].ev # "EventLoginRequest"
  /\ dev' = [dev EXCEPT !.ThingStatus = "ThingRegisteredUnLogin"]
  /\ Push(Event("EventLoginRequest"))
  /\ UNCHANGED <<connVars, dReader, regTimer, loginTimer, later, gwVars, now, tries, faults>>

-----------------------------------------------------------------------------
(* The gateway's Thing of connection c.                                    *)

devRest == <<dev, dQueue, dReader, regTimer, loginTimer, later>>

GFree(c) == gw[c].run = "run" /\ gw[c].enc = NoKey
GOn(c, ev) == GFree(c) /\ gQueue[c] # <<>> /\ Head(gQueue[c]).ev = ev
GDone(c)    == gQueue' = [gQueue EXCEPT ![c] = Tail(@)]
GThen(c, e) == gQueue' = [gQueue EXCEPT ![c] = Append(Tail(@), e)]
LoginIs(c, status) == gw' = [gw EXCEPT ![c].login = status]
StopToken(c) == CanClose(gTimer[c]) /\ gTimer' = [gTimer EXCEPT ![c] = Closed(Stopped(@))]

GRead(c) ==
  /\ gw[c].run = "run" /\ c2g[c] # <<>>
  /\ c2g' = [c2g EXCEPT ![c] = Tail(@)]
  /\ LET f == Head(c2g[c])
     IN  gQueue' = IF Readable(f, db.key) THEN [gQueue EXCEPT ![c] = Append(@, f)] ELSE gQueue
  /\ UNCHANGED <<conn, g2c, devRest, gw, gTimer, db, now, tries, faults>>

(* The reader's last event; what is still in the pipe is lost.             *)
GReadBreak(c) ==
  /\ gw[c].run = "run" /\ conn[c] = "broken"
  /\ \A i \in 1..Len(gQueue[c]) : gQueue[c][i].ev # "EventConnectionClosed"
  /\ c2g' = [c2g EXCEPT ![c] = <<>>]
  /\ gQueue' = [gQueue EXCEPT ![c] = Append(@, Event("EventConnectionClosed"))]
  /\ UNCHANGED <<conn, g2c, devRest, gw, gTimer, db, now, tries, faults>>

GClosed(c) ==
  /\ GOn(c, "EventConnectionClosed")
  /\ db' = IF gw[c].thingid THEN [db EXCEPT !.status = "ThingRegisteredUnLogin"] ELSE db
  /\ gw' = [gw EXCEPT ![c].run = "exit"]
  /\ GDone(c)
  /\ UNCHANGED <<connVars, devRest, gTimer, now, tries, faults>>

GRegisterReq(c) ==
  /\ GOn(c, "RegisterReqEventMessage")
  /\ GThen(c, [Head(gQueue[c]) EXCEPT !.ev = "RegisterAckEventMessage"])
  /\ UNCHANGED <<connVars, devRest, gw, gTimer, db, now, tries, faults>>

(* A new key for every registration, the repeated one too.                 *)
GRegisterAck(c) ==
  /\ GOn(c, "RegisterAckEventMessage") /\ db.key < Bounds.key
  /\ db' = [db EXCEPT !.key = NewKey, !.status = "ThingRegisteredUnLogin"]
  /\ Sent(g2c, c, Msg("RegisterAckEventMessage", Head(gQueue[c]), NoKey, NewKey, TRUE))
  /\ GDone(c)
  /\ UNCHANGED <<conn, c2g, devRest, gw, gTimer, now, tries, faults>>

(* The row cannot be read: RegisterFailure is answered. It cannot be       *)
(* written: nothing is.                                                    *)
GRegisterAckFails(c) ==
  /\ GOn(c, "RegisterAckEventMessage")
  /\ Fault
  /\ \/ Sent(g2c, c, Msg("RegisterAckEventMessage", Head(gQueue[c]), NoKey, NoKey, FALSE))
     \/ UNCHANGED g2c
  /\ GDone(c)
  /\ UNCHANGED <<conn, c2g, devRest, gw, gTimer, db, now, tries>>

GLoginRefused(c) ==
  /\ \/ GOn(c, "EventLoginRequest") /\ gw[c].login # "LoginStop"
     \/ GOn(c, "EventLoginChallenge") /\ gw[c].login # "LoginRequestStatus"
     \/ GOn(c, "EventLoginSuccess") /\ gw[c].login # "LoginResponseStatus"
     \/ /\ GOn(c, "EventLoginResponse")
        /\ gw[c].login # "LoginChallengeStatus" \/ gw[c].ect # Head(gQueue[c]).ect
  /\ GDone(c)
  /\ UNCHANGED <<connVars, devRest, gw, gTimer, db, now, tries, faults>>

GLoginRequest(c) ==
  /\ GOn(c, "EventLoginRequest") /\ gw[c].login = "LoginStop"
  /\ gw' = [gw EXCEPT ![c].login = "LoginRequestStatus", ![c].ect = Head(gQueue[c]).ect,
                      ![c].rnd = Head(gQueue[c]).rnd]
  /\ GThen(c, [Head(gQueue[c]) EXCEPT !.ev = "EventLoginChallenge"])
  /\ UNCHANGED <<connVars, devRest, gTimer, db, now, tries, faults>>

(* The data cannot be parsed: the status stays what it was just set to.    *)
GLoginRequestError(c) ==
  /\ GOn(c, "EventLoginRequest") /\ gw[c].login = "LoginStop"
  /\ Fault
  /\ LoginIs(c, "LoginRequestStatus")
  /\ GDone(c)
  /\ UNCHANGED <<connVars, devRest, gTimer, db, now, tries>>

GLoginChallenge(c) ==
  /\ GOn(c, "EventLoginChallenge") /\ gw[c].login = "LoginRequestStatus"
  /\ db.status # "ThingUnRegister"
  /\ LoginIs(c, "LoginChallengeStatus")
  /\ Sent(g2c, c, [Msg("EventLoginChallenge", Head(gQueue[c]), db.key, db.key, TRUE)
                     EXCEPT !.rnd = gw[c].rnd])
  /\ gTimer' = [gTimer EXCEPT ![c] = Started(@)]
  /\ GDone(c)
  /\ UNCHANGED <<conn, c2g, devRest, db, now, tries, faults>>

(* An unregistered device, a database error or a failed send; the answer   *)
(* with a result code is never sent, because it is encrypted with "".      *)
GLoginChallengeFails(c) ==
  /\ GOn(c, "EventLoginChallenge") /\ gw[c].login = "LoginRequestStatus"
  /\ IF db.status = "ThingUnRegister" \/ SendFails(c) THEN NoFault ELSE Fault
  /\ LoginIs(c, "LoginStop")
  /\ GDone(c)
  /\ UNCHANGED <<connVars, devRest, gTimer, db, now, tries>>

ResponseFits(c) ==
  /\ GOn(c, "EventLoginResponse")
  /\ gw[c].login = "LoginChallengeStatus" /\ gw[c].ect = Head(gQueue[c]).ect

(* Mutant: the status is not moved on.                                     *)
GLoginResponseNoStatus(c) ==
  /\ ResponseFits(c)
  /\ StopToken(c)
  /\ LET f == Head(gQueue[c])
     IN  GThen(c, [f EXCEPT !.ev = IF f.rnd = gw[c].rnd /\ f.key = db.key
                                   THEN "EventLoginSuccess" ELSE "EventLoginFailure"])
  /\ UNCHANGED <<connVars, devRest, gw, db, now, tries, faults>>

GLoginResponse(c) ==
  /\ ResponseFits(c)
  /\ StopToken(c)
  /\ LoginIs(c, "LoginResponseStatus")
  /\ LET f == Head(gQueue[c])
     IN  GThen(c, [f EXCEPT !.ev = IF f.rnd = gw[c].rnd /\ f.key = db.key
                                   THEN "EventLoginSuccess" ELSE "EventLoginFailure"])
  /\ UNCHANGED <<connVars, devRest, db, now, tries, faults>>

GLoginResponseFails(c) ==
  /\ ResponseFits(c)
  /\ Fault
  /\ StopToken(c)
  /\ LoginIs(c, "LoginStop")
  /\ GDone(c)
  /\ UNCHANGED <<connVars, devRest, db, now, tries>>

(* No early return: a login that was stopped meanwhile is answered with    *)
(* LoginResultCodeInterrupt, under the key the device was delivered with.  *)
GLoginFailure(c) ==
  /\ GOn(c, "EventLoginFailure")
  /\ LET interrupted == gw[c].login = "LoginStop"
         key == IF gw[c].login = "LoginResponseStatus" THEN db.key ELSE PreKey
     IN  \/ Sent(g2c, c, Msg("EventLoginFailure", Head(gQueue[c]), key, NoKey, interrupted)) /\ NoFault
         \/ UNCHANGED g2c /\ IF SendFails(c) THEN NoFault ELSE Fault
  /\ LoginIs(c, "LoginStop")
  /\ GDone(c)
  /\ UNCHANGED <<conn, c2g, devRest, gTimer, db, now, tries>>

(* The answer is encrypted under the key read now; the Thing of another    *)
(* connection may replace that key before the next step.                   *)
GLoginSuccess(c) ==
  /\ GOn(c, "EventLoginSuccess") /\ gw[c].login = "LoginResponseStatus"
  /\ gw' = [gw EXCEPT ![c].enc = db.key]
  /\ UNCHANGED <<connVars, devRest, gQueue, gTimer, db, now, tries, faults>>

(* The new key is derived from the one in the database and saved, the      *)
(* answer is sent, and the Thing gets its id.                              *)
Saving(c) == gw[c].run = "run" /\ gw[c].enc # NoKey
LoginSuccessFrame(c) ==
  Msg("EventLoginSuccess", Head(gQueue[c]), gw[c].enc,
      IF gw[c].enc = db.key THEN NewKey ELSE BadKey, TRUE)
LoginOver(c, done) ==
  gw' = [gw EXCEPT ![c].login = "LoginStop", ![c].enc = NoKey, ![c].thingid = @ \/ done]

GLoginSuccessSent(c) ==
  /\ Saving(c) /\ db.key < Bounds.key
  /\ db' = [db EXCEPT !.key = NewKey, !.status = "ThingRegisteredLogined"]
  /\ Sent(g2c, c, LoginSuccessFrame(c))
  /\ LoginOver(c, TRUE)
  /\ GDone(c)
  /\ UNCHANGED <<conn, c2g, devRest, gTimer, now, tries, faults>>

(* Mutant: the answer is sent before the key is saved.                     *)
GLoginSuccessSendFirst(c) ==
  /\ Saving(c)
  /\ \/ Fault /\ UNCHANGED db /\ Sent(g2c, c, LoginSuccessFrame(c))
     \/ /\ SendFails(c) /\ NoFault /\ db.key < Bounds.key /\ UNCHANGED g2c
        /\ db' = [db EXCEPT !.key = NewKey, !.status = "ThingRegisteredLogined"]
  /\ LoginOver(c, FALSE)
  /\ GDone(c)
  /\ UNCHANGED <<conn, c2g, devRest, gTimer, now, tries>>

(* The save fails and nothing has changed, or the send fails after it.     *)
GLoginSuccessFails(c) ==
  /\ Saving(c)
  /\ \/ Fault /\ UNCHANGED db
     \/ /\ SendFails(c) /\ NoFault /\ db.key < Bounds.key
        /\ db' = [db EXCEPT !.key = NewKey, !.status = "ThingRegisteredLogined"]
  /\ LoginOver(c, FALSE)
  /\ GDone(c)
  /\ UNCHANGED <<connVars, devRest, gTimer, now, tries>>

(* The goroutine of timeoutTimer only writes LoginStop, unsynchronised.    *)
GTimer(c) ==
  /\ \/ /\ \E x \in TokenTaken(gTimer[c]) : gTimer' = [gTimer EXCEPT ![c] = x]
        /\ UNCHANGED <<gw, now>>
     \/ /\ \E x \in Expired(gTimer[c]) : gTimer' = [gTimer EXCEPT ![c] = x]
        /\ Timeout
        /\ UNCHANGED gw
     \/ /\ gTimer[c].fired > 0
        /\ gTimer' = [gTimer EXCEPT ![c] = SecondDone(FirstDone(@))]
        /\ \/ LoginIs(c, "LoginStop")
           \/ gw[c].login = "LoginResponseStatus" /\ gw' = gw
        /\ UNCHANGED now
  /\ UNCHANGED <<connVars, devRest, gQueue, db, tries, faults>>

-----------------------------------------------------------------------------
Break(c) ==
  /\ conn[c] = "up" /\ Cardinality({x \in Conns : conn[x] = "broken"}) < Bounds.breaks
  /\ conn' = [conn EXCEPT ![c] = "broken"]
  /\ UNCHANGED <<c2g, g2c, devVars, gwVars, now, tries, faults>>

DeviceEvent ==
  \/ DConnect \/ DDialFails \/ DCheckThingStatus
  \/ DRegisterReqRefused \/ DRegisterReqError
  \/ \E e \in 0..MaxTime : DRegisterReqSendFails(e) \/ DRegisterReq(e) \/ DLoginRequest(e)
  \/ DRegisterAckRefused \/ DRegisterAck \/ DRegisterAckFails
  \/ DLoginRequestRefused \/ DLoginRequestFails \/ DLoginRefused
  \/ DLoginChallenge \/ DLoginChallengeFails
  \/ DLoginResponseRefused \/ DLoginResponse \/ DLoginResponseFails
  \/ DLoginFailure \/ DLoginSuccess \/ DLoginSuccessFails

DeviceReader == DRead \/ DBroken \/ DConnectAgain
DeviceTimers == DRegTimer \/ DLoginTimer \/ \E e \in Delayed : DLater(e)

GatewayEvent(c) ==
  \/ GClosed(c) \/ GRegisterReq(c) \/ GRegisterAck(c) \/ GRegisterAckFails(c)
  \/ GLoginRefused(c) \/ GLoginRequest(c) \/ GLoginRequestError(c)
  \/ GLoginChallenge(c) \/ GLoginChallengeFails(c)
  \/ GLoginResponse(c) \/ GLoginResponseFails(c)
  \/ GLoginFailure(c) \/ GLoginSuccess(c) \/ GLoginSuccessSent(c) \/ GLoginSuccessFails(c)

GatewayReader(c) == GRead(c) \/ GReadBreak(c)

Next ==
  \/ DeviceEvent \/ DeviceReader \/ DeviceTimers
  \/ DKeyAges \/ DCheckAesKeyValidity
  \/ \E c \in Conns : GatewayEvent(c) \/ GatewayReader(c) \/ GTimer(c) \/ Break(c)

Fairness ==
  /\ WF_vars(DeviceEvent) /\ WF_vars(DeviceReader) /\ WF_vars(DCheckAesKeyValidity)
  /\ \A c \in Conns : WF_vars(GatewayEvent(c)) /\ WF_vars(GatewayReader(c))

Spec == Init /\ [][Next]_vars /\ Fairness

-----------------------------------------------------------------------------
(* Every variable stays in its set.                                        *)
TypeOK ==
  /\ conn \in [Conns -> {"none", "up", "broken"}]
  /\ {c2g, g2c, gQueue} \subseteq [Conns -> Seq(Frame)] /\ dQueue \in Seq(Frame)
  /\ dev \in [ThingStatus : Statuses, key : Keys, c : 0..MaxConn, registerStart : BOOLEAN,
              regReqTimes : 0..Bounds.times, regEct : 0..MaxTime,
              login : LoginStates, ect : 0..MaxTime, rnd : 0..MaxTries, old : BOOLEAN]
  /\ dReader \in {"off", "read", "push"}
  /\ regTimer \in Timers(0..tries) /\ loginTimer \in Timers(0..tries)
  /\ gTimer \in [Conns -> Timers(Nat)]
  /\ gw \in [Conns -> [run : {"off", "run", "exit"}, login : LoginStates, ect : 0..MaxTime,
                       rnd : 0..MaxTries, enc : 0..MaxKey, thingid : BOOLEAN]]
  /\ db \in [status : Statuses, key : 1..MaxKey]
  /\ later \in [Delayed -> Nat] /\ now \in 0..MaxTime /\ tries \in 0..MaxTries
  /\ faults \in [used : Nat, aged : Nat, of : Instances]

Quiet(c) ==
  /\ conn[c] = "up" /\ c2g[c] = <<>> /\ g2c[c] = <<>> /\ gQueue[c] = <<>> /\ dQueue = <<>>
  /\ \A e \in Delayed : later[e] = 0
  /\ ~dev.registerStart /\ dev.login = "LoginStop"

(* Unless a request may have run out: when the device takes itself for     *)
(* logged in, asks for nothing and nothing is under way on its connection, *)
(* both databases hold the same key and the Thing of that connection knows *)
(* whose it is; and the device has a key that nobody else has only while   *)
(* it still waits for a registration that it sent on an earlier connection *)
(* (gateway/login.go:597-613, iot_client/thing/login.go:108-147).          *)
KeysAgreeAtRest ==
  ~Bounds.expire =>
    /\ dev.key = BadKey => dev.registerStart /\ dev.c > 1
    /\ dev.ThingStatus = "ThingRegisteredLogined" /\ dev.c # 0 /\ Quiet(dev.c)
         => dev.key = db.key /\ gw[dev.c].thingid

(* A connection that is opened ends in a login with equal keys, and so     *)
(* does one whose key has become too old, unless it breaks: no step of the *)
(* two handshakes and their three timers blocks or drops the exchange.     *)
LoginCompletes ==
  \A c \in Conns :
    conn[c] = "up" ~> \/ conn[c] = "broken"
                      \/ /\ dev.ThingStatus = "ThingRegisteredLogined"
                         /\ dev.key = db.key /\ ~dev.old

(* The device only ever takes over keys that the gateway issued, each newer *)
(* than the one before: no late, repeated or undecryptable answer takes it *)
(* back to a key the gateway has replaced. While a login is answered on    *)
(* the second or a later connection the Thing of an earlier one may still  *)
(* register the device: only then is a key derived that nobody has.        *)
K == INSTANCE KeyIssue WITH platform <- db.key, device <- dev.key, sessions <- dev.c
KeysAreIssued == K!Spec
=============================================================================
