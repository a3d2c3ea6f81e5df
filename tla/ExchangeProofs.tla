--------------------------- MODULE ExchangeProofs ---------------------------
(***************************************************************************)
(* What holds of the five exchanges whatever fails, breaks, or is asked    *)
(* for how often: the types, that no acknowledgement meets a timer that    *)
(* was never made, that the device's relogin is released, that an asker    *)
(* that waits is watched, that the close channel is emptied, and that an   *)
(* acknowledged relogin is the one that waits.                             *)
(***************************************************************************)
EXTENDS Exchange, RequestTimerProofs

AskerStates == [status : {"Stop", "Req"}, made : BOOLEAN, ect : Nat, n : Nat]
Frames      == [ev : {"Req", "Ack"}, x : Exchanges, ect : Nat, n : Nat]
Budget      == [used : Nat, most : Nat]

ChanTypes == wire \in [Sides -> Seq(Frames)] /\ queue \in [Sides -> Seq(Events)]
AskTypes ==
  /\ asker \in [Exchanges -> AskerStates]
  /\ timer = [x \in Exchanges |-> timer[x]]
  /\ \A x \in Exchanges : TimerOK(timer[x]) /\ Goroutines(timer[x]) <= asker[x].n
  /\ owed \subseteq Exchanges /\ robbed \subseteq Exchanges
PeerTypes == peer \in [Exchanges -> {"Stop", "Req"}] /\ reloginTimers \in Nat
ElseTypes ==
  /\ conn \in {"up", "broken", "login"} /\ reader \in BOOLEAN
  /\ ThingStatus \in {"UnLogin", "Logined"} /\ login \in BOOLEAN
  /\ again \in Nat /\ now \in Nat
  /\ asks \in Budget /\ expired \in Budget /\ breaks \in Budget /\ withdrawn \in Budget
  /\ faults \in [used : Nat, most : Nat, sides : SUBSET Sides]
TypeInv == Exchanges \subseteq AllExchanges /\ ChanTypes /\ AskTypes /\ PeerTypes /\ ElseTypes

(* Only a break ends the reader, and only a break, the ticker or another   *)
(* registration makes a login necessary.                                   *)
Has(q, ev)  == \E i \in 1..Len(q) : q[i].ev = ev
Interrupted == breaks.used > 0 \/ withdrawn.used > 0
LinkInv ==
  /\ ~reader => conn = "broken"
  /\ conn # "up" => breaks.used > 0
  /\ ThingStatus # "Logined" \/ Has(queue["dev"], "RegisterReq") => Interrupted

(* Every request that waits has a goroutine that will reset it, unless     *)
(* another took its token or the asker met an error of its own; a token    *)
(* that lies in the channel meanwhile has somebody to take it.             *)
Watched(x) ==
  /\ \/ timer[x].newest \/ timer[x].fired > 0
     \/ x = "relogin" /\ timer[x].late > 0
     \/ x \in robbed
  /\ timer[x].token # 0 => timer[x].run + timer[x].idle > 0
WatchInv == \A x \in Exchanges : asker[x].status = "Req" => Watched(x) \/ OwnTrouble(x)

(* The events of an exchange, and of those the gateway asks.               *)
Concerns(e, x) == e.x = x /\ e.ev \in {"Req", "Ack"}
OfGateway(e)   == e.x \in AskedByGateway /\ e.ev \in {"Req", "Ack"}
GatewayAsks(e) == e.x \in AskedByGateway /\ e.ev = "Req"

(* An exchange whose timer has not been made: nothing of it is under way,  *)
(* but for requests that the asker has still to handle.                    *)
NoneOf(x)   == {e \in Events : ~Concerns(e, x)}
OnlyReqs(x) == {e \in Events : ~(e.x = x /\ e.ev = "Ack")}
Silent(x)   == /\ wire["gw"] \in Seq(NoneOf(x)) /\ wire["dev"] \in Seq(NoneOf(x))
               /\ queue[Peer(x)] \in Seq(NoneOf(x)) /\ queue[Asker(x)] \in Seq(OnlyReqs(x))
MadeInv == \A x \in Exchanges :
             ~asker[x].made /\ (conn = "login" => x \in AskedByDevice) => Silent(x)

(* Until the login the gateway's new Thing asks for nothing; what comes    *)
(* are answers to its predecessor.                                         *)
NoAsking  == {e \in Events : ~GatewayAsks(e)}
NoGateway == {e \in Events : ~OfGateway(e)}
FreshInv ==
  conn = "login" =>
    /\ again = 0
    /\ \A x \in Exchanges \cap AskedByGateway :
         asker[x].status = "Stop" /\ ~asker[x].made /\ timer[x] = NoTimer
CalmInv ==
  conn = "login" =>
    /\ wire["gw"] \in Seq(NoAsking) /\ wire["dev"] \in Seq(NoGateway)
    /\ queue["gw"] \in Seq(NoAsking) /\ queue["dev"] \in Seq(NoAsking)

(* Behind the last push of a reader come no requests of the gateway.       *)
BehindBreak(q) ==
  \A i, j \in 1..Len(q) :
    i < j /\ q[i].ev = "ConnectServer" => q[j].ev # "ConnectServer" /\ ~GatewayAsks(q[j])
PlaceInv == BehindBreak(queue["dev"]) /\ (Has(queue["dev"], "ConnectServer") => ~reader)

(* The acknowledgement that releases the device's relogin is in its queue. *)
Released(q) == \E i \in 1..Len(q) : q[i].ev = "Ack" /\ q[i].x = "relogin"
ReleaseInv  == "relogin" \in Exchanges /\ peer["relogin"] = "Req" => Released(queue["dev"])

-----------------------------------------------------------------------------
(* Queues.                                                                 *)

(* The elements of a sequence with one more, and with one less.            *)
LEMMA AppendAt ==
  ASSUME NEW S, NEW s \in Seq(S), NEW e \in S
  PROVE  /\ Append(s, e) \in Seq(S) /\ Len(Append(s, e)) = Len(s) + 1
         /\ \A i \in 1..Len(s) : Append(s, e)[i] = s[i]
         /\ Append(s, e)[Len(s) + 1] = e
         /\ \A i \in 1..Len(Append(s, e)) : i \in 1..Len(s) \/ i = Len(s) + 1
  OBVIOUS

LEMMA TailAt ==
  ASSUME NEW S, NEW s \in Seq(S), s # <<>>
  PROVE  /\ Tail(s) \in Seq(S) /\ Len(Tail(s)) = Len(s) - 1 /\ Len(s) \in Nat \ {0}
         /\ \A i \in 1..Len(Tail(s)) : i + 1 \in 1..Len(s) /\ Tail(s)[i] = s[i + 1]
         /\ Head(s) = s[1] /\ Head(s) \in S
  OBVIOUS

(* A queue that takes one more event, or none.                             *)
Longer(q, b, e) == IF b = "yes" THEN Append(q, e) ELSE q

LEMMA LongerIn ==
  ASSUME NEW S, NEW q \in Seq(S), NEW b \in {"yes", "no"}, NEW e, b = "yes" => e \in S
  PROVE  Longer(q, b, e) \in Seq(S)
  BY DEF Longer

(* What stands behind what in a queue that grows.                          *)
LEMMA PlacesGrow ==
  ASSUME NEW S, NEW q \in Seq(S), NEW e \in S
  PROVE  /\ BehindBreak(q) /\ (Has(q, "ConnectServer") => e.ev # "ConnectServer" /\ ~GatewayAsks(e))
              => BehindBreak(Append(q, e))
         /\ \A ev : Has(Append(q, e), ev) => Has(q, ev) \/ e.ev = ev
<1> DEFINE r == Append(q, e)
<1>1. /\ Len(q) \in Nat /\ Len(r) = Len(q) + 1 /\ \A i \in 1..Len(q) : r[i] = q[i]
      /\ r[Len(q) + 1] = e /\ \A i \in 1..Len(r) : i \in 1..Len(q) \/ i = Len(q) + 1
  BY AppendAt
<1> HIDE DEF r
<1>2. \A i, j \in 1..Len(r) : i < j => i \in 1..Len(q) /\ (j \in 1..Len(q) \/ j = Len(q) + 1)
  BY <1>1
<1>3. ASSUME BehindBreak(q), Has(q, "ConnectServer") => e.ev # "ConnectServer" /\ ~GatewayAsks(e)
      PROVE  BehindBreak(r)
  BY <1>1, <1>2, <1>3 DEF BehindBreak, Has
<1>4. \A ev : Has(r, ev) => Has(q, ev) \/ e.ev = ev
  BY <1>1 DEF Has
<1> QED
  BY <1>3, <1>4 DEF r

(* What stands behind what in a queue without its head.                    *)
LEMMA PlacesShrink ==
  ASSUME NEW S, NEW q \in Seq(S), q # <<>>
  PROVE  /\ BehindBreak(q) => BehindBreak(Tail(q))
         /\ \A ev : Has(Tail(q), ev) => Has(q, ev)
         /\ Has(q, Head(q).ev)
         /\ BehindBreak(q) /\ Head(q).ev = "ConnectServer" =>
              /\ ~Has(Tail(q), "ConnectServer")
              /\ \A i \in 1..Len(Tail(q)) : ~GatewayAsks(Tail(q)[i])
<1> DEFINE r == Tail(q)
<1>1. /\ Len(r) = Len(q) - 1 /\ Len(q) \in Nat \ {0}
      /\ \A i \in 1..Len(r) : i + 1 \in 1..Len(q) /\ r[i] = q[i + 1]
      /\ Head(q) = q[1]
  BY TailAt
<1> HIDE DEF r
<1>2. 1 \in 1..Len(q) /\ \A i \in 1..Len(r) : 1 < i + 1
  BY <1>1
<1>3. \A i, j \in 1..Len(r) : i < j => i + 1 < j + 1
  BY <1>1
<1>4. BehindBreak(q) => BehindBreak(r)
  BY <1>1, <1>3 DEF BehindBreak
<1>5. (\A ev : Has(r, ev) => Has(q, ev)) /\ Has(q, Head(q).ev)
  BY <1>1, <1>2 DEF Has
<1>6. ASSUME BehindBreak(q), Head(q).ev = "ConnectServer"
      PROVE  ~Has(r, "ConnectServer") /\ \A i \in 1..Len(r) : ~GatewayAsks(r[i])
  BY <1>1, <1>2, <1>6 DEF BehindBreak, Has
<1> QED
  BY <1>4, <1>5, <1>6 DEF r

(* A queue without a kind of events.                                       *)
LEMMA Without ==
  ASSUME NEW S, NEW q \in Seq(S)
  PROVE  \A T : (\A i \in 1..Len(q) : q[i] \in T) <=> q \in Seq(T)
  OBVIOUS

-----------------------------------------------------------------------------
(* What is under way.                                                      *)

Traffic == MadeInv /\ CalmInv /\ PlaceInv

(* A handler: one event less, with what it pushes itself, and a frame more *)
(* or none.                                                                *)
Handled(s, b, e, o, c, m) ==
  /\ queue[s] # <<>> /\ queue' = [queue EXCEPT ![s] = Longer(Tail(queue[s]), b, e)]
  /\ wire' = [wire EXCEPT ![o] = Longer(wire[o], c, m)]
  /\ conn' = conn /\ reader' = reader

(* A goroutine, the web or a reader: one event more, and in a reader's case *)
(* a frame less.                                                           *)
Pushed(s, e) ==
  /\ queue' = [queue EXCEPT ![s] = Append(queue[s], e)]
  /\ \/ wire' = wire
     \/ wire[s] # <<>> /\ wire' = [wire EXCEPT ![s] = Tail(wire[s])]
  /\ conn' = conn /\ reader' = reader

(* The exchanges of a behaviour stay, and so does a timer once made.       *)
SameExchanges == /\ DOMAIN asker' = DOMAIN asker
                 /\ \A x \in Exchanges : asker[x].made => asker'[x].made

(* What may be pushed on the channel of s, and what sent to o.             *)
Begun(x) == asker'[x].made \/ (conn = "login" /\ x \in AskedByGateway)
MayPush(e, s) ==
  /\ e \in Events /\ e.ev # "ConnectServer"
  /\ Concerns(e, e.x) => Begun(e.x) \/ (s = Asker(e.x) /\ e.ev = "Req")
  /\ GatewayAsks(e) => conn # "login" /\ (s = "dev" => reader)
MaySend(m, o) ==
  /\ m \in Frames /\ Begun(m.x)
  /\ conn = "login" => ~GatewayAsks(m) /\ (o = "dev" => ~OfGateway(m))

LEMMA EventsSame ==
  ASSUME SameExchanges
  PROVE  /\ Exchanges' = Exchanges /\ Events' = Events /\ Frames' = Frames
         /\ \A x : NoneOf(x)' = NoneOf(x) /\ OnlyReqs(x)' = OnlyReqs(x)
         /\ NoAsking' = NoAsking /\ NoGateway' = NoGateway
<1>1. Exchanges' = Exchanges
  BY DEF Exchanges, SameExchanges
<1>2. Events' = Events /\ Frames' = Frames
  BY <1>1 DEF Events, Frames
<1> QED
  BY <1>1, <1>2 DEF NoneOf, OnlyReqs, NoAsking, NoGateway

(* An event of a kind.                                                     *)
LEMMA FrameIsEvent == Frames \subseteq Events
  BY DEF Frames, Events

(* A queue that has only events of one set has no others afterwards.       *)
Stays(s, b, e, o, c, m) ==
  \A S : \A t \in Sides :
    /\ queue[t] \in Seq(S) /\ (t = s /\ b = "yes" => e \in S) => queue'[t] \in Seq(S)
    /\ wire[t] \in Seq(S) /\ (t = o /\ c = "yes" => m \in S) => wire'[t] \in Seq(S)

LEMMA HandledIn ==
  ASSUME TypeInv, NEW s \in Sides, NEW b \in {"yes", "no"}, NEW e,
         NEW o \in Sides, NEW c \in {"yes", "no"}, NEW m, Handled(s, b, e, o, c, m)
  PROVE  Stays(s, b, e, o, c, m)
<1> SUFFICES ASSUME NEW S, NEW t \in Sides
             PROVE  /\ queue[t] \in Seq(S) /\ (t = s /\ b = "yes" => e \in S) => queue'[t] \in Seq(S)
                    /\ wire[t] \in Seq(S) /\ (t = o /\ c = "yes" => m \in S) => wire'[t] \in Seq(S)
  BY DEF Stays
<1>1. /\ queue'[t] = IF t = s THEN Longer(Tail(queue[s]), b, e) ELSE queue[t]
      /\ wire'[t] = IF t = o THEN Longer(wire[o], c, m) ELSE wire[t]
      /\ queue[s] # <<>>
  BY DEF Handled, TypeInv, ChanTypes
<1>2. ASSUME queue[t] \in Seq(S), t = s /\ b = "yes" => e \in S PROVE queue'[t] \in Seq(S)
  <2>1. CASE t = s
    <3>1. Tail(queue[s]) \in Seq(S)
      BY <1>1, <1>2, <2>1, TailAt
    <3> QED
      BY <1>1, <1>2, <2>1, <3>1, LongerIn
  <2> QED
    BY <1>1, <1>2, <2>1
<1>3. ASSUME wire[t] \in Seq(S), t = o /\ c = "yes" => m \in S PROVE wire'[t] \in Seq(S)
  BY <1>1, <1>3, LongerIn
<1> QED
  BY <1>2, <1>3

(* The same for a push.                                                    *)
LEMMA PushedIn ==
  ASSUME TypeInv, NEW s \in Sides, NEW e, Pushed(s, e)
  PROVE  Stays(s, "yes", e, s, "no", e)
<1> SUFFICES ASSUME NEW S, NEW t \in Sides
             PROVE  /\ queue[t] \in Seq(S) /\ (t = s => e \in S) => queue'[t] \in Seq(S)
                    /\ wire[t] \in Seq(S) => wire'[t] \in Seq(S)
  BY DEF Stays
<1>1. queue[t] \in Seq(S) /\ (t = s => e \in S) => queue'[t] \in Seq(S)
  BY DEF Pushed, TypeInv, ChanTypes
<1>2. ASSUME wire[t] \in Seq(S) PROVE wire'[t] \in Seq(S)
  <2>1. CASE wire' = wire
    BY <1>2, <2>1
  <2>2. CASE wire[s] # <<>> /\ wire' = [wire EXCEPT ![s] = Tail(wire[s])]
    <3>1. wire'[t] = IF t = s THEN Tail(wire[s]) ELSE wire[t]
      BY <2>2 DEF TypeInv, ChanTypes
    <3>2. t = s => Tail(wire[s]) \in Seq(S)
      BY <1>2, <2>2, TailAt
    <3> QED
      BY <1>2, <3>1, <3>2
  <2> QED
    BY <2>1, <2>2 DEF Pushed
<1> QED
  BY <1>1, <1>2

(* Either way what is under way stays as the invariant has it.             *)
LEMMA TrafficKept ==
  ASSUME TypeInv, LinkInv, Traffic, SameExchanges,
         NEW s \in Sides, NEW b \in {"yes", "no"}, NEW e, b = "yes" => MayPush(e, s),
         NEW o \in Sides, NEW c \in {"yes", "no"}, NEW m, c = "yes" => MaySend(m, o),
         conn' = conn,
         Stays(s, b, e, o, c, m)
  PROVE  MadeInv' /\ CalmInv'
<1>1. MadeInv'
  <2> SUFFICES ASSUME NEW x \in Exchanges, ~asker'[x].made, conn = "login" => x \in AskedByDevice
               PROVE  Silent(x)'
    BY EventsSame DEF MadeInv
  <2>1. Silent(x) /\ x \in AllExchanges
    BY DEF Traffic, MadeInv, SameExchanges, TypeInv
  <2>2. ~Begun(x)
    BY DEF Begun, AskedByGateway, AskedByDevice
  <2>3. c = "yes" => m \in NoneOf(x)
    BY <2>2, FrameIsEvent DEF MaySend, NoneOf, Concerns
  <2>4. b = "yes" => e \in OnlyReqs(x) /\ (s # Asker(x) => e \in NoneOf(x))
    BY <2>2 DEF MayPush, NoneOf, OnlyReqs, Concerns
  <2>5. Peer(x) \in Sides /\ Asker(x) \in Sides /\ Peer(x) # Asker(x) /\ "gw" \in Sides /\ "dev" \in Sides
    BY DEF Peer, Asker, Sides
  <2>6. /\ wire'["gw"] \in Seq(NoneOf(x)) /\ wire'["dev"] \in Seq(NoneOf(x))
        /\ queue'[Peer(x)] \in Seq(NoneOf(x)) /\ queue'[Asker(x)] \in Seq(OnlyReqs(x))
    <3>1. /\ wire["gw"] \in Seq(NoneOf(x)) /\ wire["dev"] \in Seq(NoneOf(x))
          /\ queue[Peer(x)] \in Seq(NoneOf(x)) /\ queue[Asker(x)] \in Seq(OnlyReqs(x))
      BY <2>1 DEF Silent
    <3>2. wire'["gw"] \in Seq(NoneOf(x)) /\ wire'["dev"] \in Seq(NoneOf(x))
      BY <2>3, <2>5, <3>1 DEF Stays
    <3>3. queue'[Peer(x)] \in Seq(NoneOf(x))
      BY <2>4, <2>5, <3>1 DEF Stays
    <3>4. queue'[Asker(x)] \in Seq(OnlyReqs(x))
      BY <2>4, <2>5, <3>1 DEF Stays
    <3> QED
      BY <3>2, <3>3, <3>4
  <2> QED
    BY <2>6, EventsSame DEF Silent
<1>2. CalmInv'
  <2> SUFFICES ASSUME conn = "login"
               PROVE  /\ wire'["gw"] \in Seq(NoAsking) /\ wire'["dev"] \in Seq(NoGateway)
                      /\ queue'["gw"] \in Seq(NoAsking) /\ queue'["dev"] \in Seq(NoAsking)
    BY EventsSame DEF CalmInv
  <2>1. /\ wire["gw"] \in Seq(NoAsking) /\ wire["dev"] \in Seq(NoGateway)
        /\ queue["gw"] \in Seq(NoAsking) /\ queue["dev"] \in Seq(NoAsking)
    BY DEF Traffic, CalmInv
  <2>2. c = "yes" => m \in NoAsking /\ (o = "dev" => m \in NoGateway)
    BY FrameIsEvent DEF MaySend, NoAsking, NoGateway
  <2>3. b = "yes" => e \in NoAsking
    BY DEF MayPush, NoAsking
  <2> QED
    BY <2>1, <2>2, <2>3 DEF Sides, Stays
<1> QED
  BY <1>1, <1>2

(* No registration is asked for, but by the event that is pushed.          *)
NoRegister == Has(queue'["dev"], "RegisterReq") => Has(queue["dev"], "RegisterReq")

(* A handler keeps it.                                                     *)
LEMMA HandledKeeps ==
  ASSUME TypeInv, LinkInv, Traffic, SameExchanges,
         NEW s \in Sides, NEW b \in {"yes", "no"}, NEW e, b = "yes" => MayPush(e, s),
         NEW o \in Sides, NEW c \in {"yes", "no"}, NEW m, c = "yes" => MaySend(m, o),
         Handled(s, b, e, o, c, m)
  PROVE  /\ Traffic' /\ queue' \in [Sides -> Seq(Events)] /\ wire' \in [Sides -> Seq(Frames)]
         /\ b = "no" \/ e.ev # "RegisterReq" => NoRegister
<1>1. /\ queue \in [Sides -> Seq(Events)] /\ wire \in [Sides -> Seq(Frames)] /\ queue[s] # <<>>
      /\ queue' = [queue EXCEPT ![s] = Longer(Tail(queue[s]), b, e)]
      /\ wire' = [wire EXCEPT ![o] = Longer(wire[o], c, m)]
      /\ conn' = conn /\ reader' = reader
  BY DEF TypeInv, ChanTypes, Handled
<1>2. (b = "yes" => e \in Events) /\ (c = "yes" => m \in Frames)
  BY DEF MayPush, MaySend
<1>3. Stays(s, b, e, o, c, m)
  BY HandledIn
<1>4. queue' \in [Sides -> Seq(Events)] /\ wire' \in [Sides -> Seq(Frames)]
  <2>1. \A t \in Sides : queue'[t] \in Seq(Events) /\ wire'[t] \in Seq(Frames)
    BY <1>1, <1>2, <1>3 DEF Stays
  <2> QED
    BY <1>1, <2>1
<1>5. MadeInv' /\ CalmInv'
  BY <1>1, <1>3, TrafficKept
<1>6. PlaceInv' /\ (b = "no" \/ e.ev # "RegisterReq" => NoRegister)
  <2>1. CASE s = "gw"
    <3>1. queue'["dev"] = queue["dev"]
      BY <1>1, <2>1 DEF Sides
    <3> QED
      BY <1>1, <3>1 DEF Traffic, PlaceInv, NoRegister
  <2>2. CASE s = "dev"
    <3> DEFINE q == Tail(queue["dev"])
    <3>1. queue'["dev"] = Longer(q, b, e) /\ queue["dev"] # <<>> /\ queue["dev"] \in Seq(Events)
      BY <1>1, <2>2 DEF Sides
    <3>2. /\ BehindBreak(q) /\ q \in Seq(Events)
          /\ Has(q, "ConnectServer") => ~reader
          /\ Has(q, "RegisterReq") => Has(queue["dev"], "RegisterReq")
      BY <3>1, PlacesShrink, TailAt DEF Traffic, PlaceInv
    <3> HIDE DEF q
    <3>3. CASE b = "no"
      BY <1>1, <3>1, <3>2, <3>3 DEF PlaceInv, Longer, NoRegister
    <3>4. CASE b = "yes"
      <4>1. /\ e \in Events /\ e.ev # "ConnectServer"
            /\ Has(q, "ConnectServer") => ~GatewayAsks(e)
        BY <2>2, <3>2, <3>4 DEF MayPush
      <4>2. queue'["dev"] = Append(q, e)
        BY <3>1, <3>4 DEF Longer
      <4>3. /\ BehindBreak(queue'["dev"])
            /\ \A ev : Has(queue'["dev"], ev) => Has(q, ev) \/ e.ev = ev
        BY <3>2, <4>1, <4>2, PlacesGrow
      <4>4. PlaceInv'
        BY <1>1, <3>2, <4>1, <4>3 DEF PlaceInv
      <4> QED
        BY <3>2, <3>4, <4>3, <4>4 DEF NoRegister
    <3> QED
      BY <3>3, <3>4
  <2> QED
    BY <2>1, <2>2 DEF Sides
<1> QED
  BY <1>1, <1>4, <1>5, <1>6 DEF Traffic, Sides

(* A push keeps it.                                                        *)
LEMMA PushedKeeps ==
  ASSUME TypeInv, LinkInv, Traffic, SameExchanges,
         NEW s \in Sides, NEW e, MayPush(e, s), Pushed(s, e)
  PROVE  /\ Traffic' /\ queue' \in [Sides -> Seq(Events)] /\ wire' \in [Sides -> Seq(Frames)]
         /\ e.ev # "RegisterReq" => NoRegister
<1>1. /\ queue \in [Sides -> Seq(Events)] /\ wire \in [Sides -> Seq(Frames)]
      /\ queue' = [queue EXCEPT ![s] = Append(queue[s], e)]
      /\ wire' \in {wire, [wire EXCEPT ![s] = Tail(wire[s])]}
      /\ conn' = conn /\ reader' = reader
  BY DEF TypeInv, ChanTypes, Pushed
<1>2. e \in Events /\ e.ev # "ConnectServer"
  BY DEF MayPush
<1>3. Stays(s, "yes", e, s, "no", e)
  BY PushedIn
<1>4. queue' \in [Sides -> Seq(Events)] /\ wire' \in [Sides -> Seq(Frames)]
  <2>1. \A t \in Sides : queue'[t] \in Seq(Events) /\ wire'[t] \in Seq(Frames)
    BY <1>1, <1>2, <1>3 DEF Stays
  <2> QED
    BY <1>1, <2>1
<1>5. MadeInv' /\ CalmInv'
  BY <1>1, <1>3, TrafficKept
<1>6. PlaceInv' /\ (e.ev # "RegisterReq" => NoRegister)
  <2>1. CASE s = "gw"
    <3>1. queue'["dev"] = queue["dev"]
      BY <1>1, <2>1 DEF Sides
    <3> QED
      BY <1>1, <3>1 DEF Traffic, PlaceInv, NoRegister
  <2>2. CASE s = "dev"
    <3> DEFINE q == queue["dev"]
    <3>1. /\ queue'["dev"] = Append(q, e) /\ q \in Seq(Events) /\ BehindBreak(q)
          /\ Has(q, "ConnectServer") => ~reader
      BY <1>1, <2>2 DEF Sides, Traffic, PlaceInv
    <3>2. NoRegister <=> (Has(queue'["dev"], "RegisterReq") => Has(q, "RegisterReq"))
      BY DEF NoRegister
    <3> HIDE DEF q
    <3>3. Has(q, "ConnectServer") => ~GatewayAsks(e)
      BY <2>2, <3>1 DEF MayPush
    <3>4. /\ BehindBreak(queue'["dev"])
          /\ \A ev : Has(queue'["dev"], ev) => Has(q, ev) \/ e.ev = ev
      BY <1>2, <3>1, <3>3, PlacesGrow
    <3>5. PlaceInv'
      BY <1>1, <1>2, <3>1, <3>4 DEF PlaceInv
    <3> QED
      BY <3>2, <3>4, <3>5
  <2> QED
    BY <2>1, <2>2 DEF Sides
<1> QED
  BY <1>4, <1>5, <1>6 DEF Traffic

-----------------------------------------------------------------------------
(* The handlers of the side that answers.                                  *)

Inv == TypeInv /\ LinkInv /\ WatchInv /\ Traffic /\ FreshInv /\ ReleaseInv

(* Trouble is never forgotten.                                             *)
LEMMA TroubleStays ==
  ASSUME ElseTypes, breaks' = breaks \/ Spend(breaks), faults' = faults \/ Spend(faults),
         withdrawn' = withdrawn \/ Spend(withdrawn)
  PROVE  /\ breaks' \in Budget /\ withdrawn' \in Budget
         /\ faults' \in [used : Nat, most : Nat, sides : SUBSET Sides]
         /\ \A x : OwnTrouble(x) => OwnTrouble(x)'
         /\ breaks.used > 0 => breaks'.used > 0
         /\ Interrupted => Interrupted'
<1>1. /\ breaks' \in Budget /\ breaks'.used \in Nat /\ breaks.used \in Nat
      /\ breaks'.used >= breaks.used
  BY DEF ElseTypes, Budget, Spend
<1>2. /\ faults' \in [used : Nat, most : Nat, sides : SUBSET Sides]
      /\ faults'.used \in Nat /\ faults.used \in Nat
      /\ faults'.used >= faults.used /\ faults'.sides = faults.sides
  BY DEF ElseTypes, Spend
<1>3. /\ withdrawn' \in Budget /\ withdrawn'.used \in Nat /\ withdrawn.used \in Nat
      /\ withdrawn'.used >= withdrawn.used
  BY DEF ElseTypes, Budget, Spend
<1> QED
  BY <1>1, <1>2, <1>3 DEF OwnTrouble, Withdrawn, Interrupted

(* An error of the asker's own side is trouble of its own.                 *)
LEMMA FaultIsTrouble ==
  ASSUME ElseTypes, NEW x \in AllExchanges, Fault(Asker(x)) PROVE OwnTrouble(x)'
  BY DEF ElseTypes, Fault, Spend, OwnTrouble

(* Where the acknowledgement of a relogin is in a queue that changes.      *)
LEMMA ReleasedKept ==
  ASSUME NEW S, NEW q \in Seq(S)
  PROVE  /\ \A e \in S : Released(q) \/ (e.ev = "Ack" /\ e.x = "relogin") => Released(Append(q, e))
         /\ /\ Released(q) /\ q # <<>> /\ ~(Head(q).ev = "Ack" /\ Head(q).x = "relogin")
            => Released(Tail(q))
<1>1. ASSUME NEW e \in S, Released(q) \/ (e.ev = "Ack" /\ e.x = "relogin")
      PROVE  Released(Append(q, e))
  <2> DEFINE r == Append(q, e)
  <2>1. /\ Len(q) \in Nat /\ Len(r) = Len(q) + 1 /\ \A i \in 1..Len(q) : r[i] = q[i]
        /\ r[Len(q) + 1] = e
    BY AppendAt
  <2> HIDE DEF r
  <2>2. Released(r)
    BY <1>1, <2>1 DEF Released
  <2> QED
    BY <2>2 DEF r
<1>2. ASSUME Released(q), q # <<>>, ~(Head(q).ev = "Ack" /\ Head(q).x = "relogin")
      PROVE  Released(Tail(q))
  <2> DEFINE r == Tail(q)
  <2>1. /\ Len(r) = Len(q) - 1 /\ Len(q) \in Nat \ {0} /\ Head(q) = q[1]
        /\ \A i \in 1..Len(r) : r[i] = q[i + 1]
    BY <1>2, TailAt
  <2> HIDE DEF r
  <2>2. PICK i \in 1..Len(q) : q[i].ev = "Ack" /\ q[i].x = "relogin"
    BY <1>2 DEF Released
  <2>3. i - 1 \in 1..Len(r) /\ (i - 1) + 1 = i
    BY <1>2, <2>1, <2>2
  <2>4. Released(r)
    BY <2>1, <2>2, <2>3 DEF Released
  <2> QED
    BY <2>4 DEF r
<1> QED
  BY <1>1, <1>2

(* What a handler may do to the status of the side that answers: the       *)
(* device's relogin is set with its acknowledgement pushed, and reset with *)
(* it taken.                                                               *)
Releases(s, b, e) ==
  /\ peer' \in [Exchanges -> {"Stop", "Req"}] /\ reloginTimers' \in Nat
  /\ "relogin" \in Exchanges /\ peer'["relogin"] = "Req" =>
       \/ /\ peer["relogin"] = "Req"
          /\ s = "dev" => ~(Head(queue["dev"]).ev = "Ack" /\ Head(queue["dev"]).x = "relogin")
       \/ s = "dev" /\ b = "yes" /\ e.ev = "Ack" /\ e.x = "relogin"

LEMMA ReleaseKept ==
  ASSUME TypeInv, ReleaseInv, SameExchanges, NEW s \in Sides, NEW b \in {"yes", "no"}, NEW e,
         b = "yes" => e \in Events, NEW o \in Sides, NEW c \in {"yes", "no"}, NEW m,
         Handled(s, b, e, o, c, m), Releases(s, b, e)
  PROVE  ReleaseInv'
<1> SUFFICES ASSUME "relogin" \in Exchanges, peer'["relogin"] = "Req"
             PROVE  Released(queue'["dev"])
  BY EventsSame DEF ReleaseInv
<1>1. /\ queue["dev"] \in Seq(Events) /\ queue["gw"] \in Seq(Events) /\ queue[s] # <<>>
      /\ s = "dev" => queue'["dev"] = Longer(Tail(queue["dev"]), b, e)
      /\ s = "gw" => queue'["dev"] = queue["dev"]
  BY DEF TypeInv, ChanTypes, Handled, Sides
<1>2. CASE s = "gw"
  BY <1>1, <1>2 DEF Releases, ReleaseInv
<1>3. CASE s = "dev"
  <2> DEFINE q == Tail(queue["dev"])
  <2>1. q \in Seq(Events)
    BY <1>1, <1>3, TailAt
  <2>2. CASE /\ peer["relogin"] = "Req"
             /\ ~(Head(queue["dev"]).ev = "Ack" /\ Head(queue["dev"]).x = "relogin")
    <3>1. Released(q)
      BY <1>1, <1>3, <2>2, ReleasedKept DEF ReleaseInv
    <3> HIDE DEF q
    <3>2. Released(Longer(q, b, e))
      BY <2>1, <3>1, ReleasedKept DEF Longer
    <3> QED
      BY <1>1, <1>3, <3>2 DEF q
  <2>3. CASE b = "yes" /\ e.ev = "Ack" /\ e.x = "relogin"
    <3> HIDE DEF q
    <3>1. Released(Longer(q, b, e))
      BY <2>1, <2>3, ReleasedKept DEF Longer
    <3> QED
      BY <1>1, <1>3, <3>1 DEF q
  <2> QED
    BY <1>3, <2>2, <2>3 DEF Releases
<1> QED
  BY <1>2, <1>3 DEF Sides

(* A handler that leaves the askers alone, and takes a login back only if  *)
(* that has been asked for.                                                *)
StatusKept ==
  /\ UNCHANGED <<breaks, withdrawn>>
  /\ ThingStatus' = ThingStatus \/ (ThingStatus' = "UnLogin" /\ Interrupted)
  /\ login' \in {login, TRUE}
AskersIdle ==
  /\ UNCHANGED <<asker, timer, robbed, owed, again, now, asks, expired>>
  /\ faults' = faults \/ Spend(faults)
  /\ StatusKept

LEMMA PeerStep ==
  ASSUME Inv, NEW s \in Sides, NEW b \in {"yes", "no"}, NEW e,
         b = "yes" => MayPush(e, s) /\ e.ev = "Ack",
         NEW o \in Sides, NEW c \in {"yes", "no"}, NEW m, c = "yes" => MaySend(m, o),
         Handled(s, b, e, o, c, m), Releases(s, b, e), AskersIdle
  PROVE  Inv'
<1>1. SameExchanges /\ conn' = conn /\ reader' = reader
  BY DEF SameExchanges, AskersIdle, Handled
<1>2. /\ TypeInv /\ LinkInv /\ WatchInv /\ Traffic /\ FreshInv /\ ReleaseInv
      /\ ElseTypes /\ AskTypes /\ Exchanges \subseteq AllExchanges
  BY DEF Inv, TypeInv
<1>3. Traffic' /\ ChanTypes' /\ NoRegister
  BY <1>1, <1>2, HandledKeeps, EventsSame DEF ChanTypes
<1>4. /\ breaks' = breaks /\ withdrawn' = withdrawn
      /\ ThingStatus' = ThingStatus \/ (ThingStatus' = "UnLogin" /\ Interrupted)
      /\ login' \in {login, TRUE}
      /\ faults' \in [used : Nat, most : Nat, sides : SUBSET Sides]
      /\ \A x : OwnTrouble(x) => OwnTrouble(x)'
  BY <1>2, TroubleStays DEF AskersIdle, StatusKept
<1>5. TypeInv'
  <2>1. AskTypes'
    BY <1>2 DEF AskersIdle, AskTypes, Exchanges
  <2>2. ElseTypes'
    BY <1>1, <1>2, <1>4 DEF AskersIdle, ElseTypes
  <2> QED
    BY <1>1, <1>2, <1>3, <2>1, <2>2, EventsSame DEF TypeInv, PeerTypes, Releases
<1>6. LinkInv' /\ FreshInv'
  <2>1. LinkInv'
    BY <1>1, <1>2, <1>3, <1>4 DEF LinkInv, Interrupted, NoRegister
  <2> QED
    BY <1>1, <1>2, <2>1, EventsSame DEF FreshInv, AskersIdle
<1>7. WatchInv'
  BY <1>1, <1>2, <1>4, EventsSame DEF WatchInv, Watched, AskersIdle
<1>8. ReleaseInv'
  BY <1>1, <1>2, ReleaseKept DEF MayPush
<1> QED
  BY <1>3, <1>5, <1>6, <1>7, <1>8 DEF Inv

(* The first event of a queue.                                             *)
LEMMA HeadOf ==
  ASSUME TypeInv, NEW s \in Sides, queue[s] # <<>>
  PROVE  /\ Msg(s) \in Events /\ queue[s] \in Seq(Events)
         /\ DOMAIN queue = Sides /\ DOMAIN wire = Sides
         /\ \A o \in Sides : wire = [wire EXCEPT ![o] = wire[o]]
         /\ \A T : queue[s] \in Seq(T) => Msg(s) \in T
<1>1. /\ queue[s] \in Seq(Events) /\ queue \in [Sides -> Seq(Events)]
      /\ wire \in [Sides -> Seq(Frames)]
  BY DEF TypeInv, ChanTypes
<1>2. \A T : queue[s] \in Seq(T) => Head(queue[s]) \in T
  BY TailAt
<1>3. \A o \in Sides : wire = [wire EXCEPT ![o] = wire[o]]
  BY <1>1
<1> QED
  BY <1>1, <1>2, <1>3 DEF Msg

(* The two sides of an exchange.                                           *)
LEMMA TwoSides ==
  \A x \in AllExchanges : /\ Asker(x) \in Sides /\ Peer(x) \in Sides /\ Asker(x) # Peer(x)
                          /\ Asker(x) = "gw" <=> x \in AskedByGateway
                          /\ Asker(x) = "dev" <=> x \in AskedByDevice
  BY DEF AllExchanges, AskedByGateway, AskedByDevice, Asker, Peer, Sides

(* A peer that has an event of an exchange, the exchange has been begun.   *)
LEMMA PeerBegun ==
  ASSUME Inv, SameExchanges, NEW x \in Exchanges, NEW ev \in {"Req", "Ack"}, On(Peer(x), ev, x)
  PROVE  Begun(x)
<1> SUFFICES ASSUME ~asker[x].made, conn = "login" => x \notin AskedByGateway PROVE FALSE
  BY DEF Begun, SameExchanges
<1>1. TypeInv /\ MadeInv /\ x \in AllExchanges
  BY DEF Inv, TypeInv, Traffic
<1>2. Silent(x)
  BY <1>1 DEF MadeInv, AllExchanges
<1>3. Peer(x) \in Sides /\ queue[Peer(x)] # <<>> /\ Msg(Peer(x)).ev = ev /\ Msg(Peer(x)).x = x
  BY <1>1, TwoSides DEF On, Msg
<1>4. Msg(Peer(x)) \in NoneOf(x)
  BY <1>1, <1>2, <1>3, HeadOf DEF Silent
<1> QED
  BY <1>3, <1>4 DEF NoneOf, Concerns

(* Events that are dropped: refusals, errors before anything is done.      *)
LEMMA DroppedOK ==
  ASSUME Inv, NEW s \in Sides, queue[s] # <<>>, Done(s), wire' = wire, conn' = conn,
         reader' = reader, AskersIdle, reloginTimers' = reloginTimers,
         peer' \in [Exchanges -> {"Stop", "Req"}],
         "relogin" \in Exchanges /\ peer'["relogin"] = "Req" =>
           /\ peer["relogin"] = "Req"
           /\ s = "dev" => ~(Head(queue["dev"]).ev = "Ack" /\ Head(queue["dev"]).x = "relogin")
  PROVE  Inv'
<1>1. TypeInv /\ PeerTypes
  BY DEF Inv, TypeInv
<1>2. Handled(s, "no", 0, s, "no", 0)
  BY <1>1, HeadOf DEF Handled, Done, Longer
<1>3. Releases(s, "no", 0)
  BY <1>1 DEF Releases, PeerTypes
<1> QED
  BY <1>2, <1>3, PeerStep

LEMMA RefusedOK ==
  ASSUME Inv, NEW s \in Sides, Refused(s) PROVE Inv'
<1>1. PICK x \in Exchanges :
        \/ On(s, "Req", x) /\ s = Asker(x) /\ asker[x].status # "Stop"
        \/ On(s, "Ack", x) /\ s = Asker(x) /\ asker[x].status # "Req"
        \/ On(s, "Req", x) /\ s = Peer(x) /\ peer[x] # "Stop"
        \/ On(s, "Ack", x) /\ s = Peer(x) /\ peer[x] # "Req"
  BY DEF Refused
<1>2. /\ queue[s] # <<>> /\ Done(s) /\ wire' = wire /\ conn' = conn /\ reader' = reader
      /\ AskersIdle /\ reloginTimers' = reloginTimers /\ peer' = peer
      /\ Head(queue[s]).x = x
  BY <1>1 DEF Refused, On, HandlerRest, RequestRest, StatesRest, NoFault, linkVars, AskersIdle, StatusKept
<1>3. peer \in [Exchanges -> {"Stop", "Req"}]
  BY DEF Inv, TypeInv, PeerTypes
<1>4. ASSUME peer["relogin"] = "Req", s = "dev"
      PROVE  ~(Head(queue["dev"]).ev = "Ack" /\ Head(queue["dev"]).x = "relogin")
  <2> SUFFICES ASSUME Head(queue["dev"]).ev = "Ack", x = "relogin" PROVE FALSE
    BY <1>2, <1>4
  <2>1. Asker(x) = "gw" /\ Peer(x) = "dev"
    BY DEF Asker, Peer, AskedByGateway
  <2> QED
    BY <1>1, <1>4, <2>1 DEF On
<1> QED
  BY <1>2, <1>3, <1>4, DroppedOK

(* The peer takes a request and pushes the event of its second handler.    *)
LEMMA TakenOK ==
  ASSUME Inv, NEW x, Taken(x), reloginTimers' \in Nat
  PROVE  Inv'
<1> DEFINE s == Peer(x)
           e == [Msg(s) EXCEPT !.ev = "Ack"]
<1>1. /\ x \in Exchanges /\ On(s, "Req", x) /\ queue[s] # <<>>
      /\ Msg(s).ev = "Req" /\ Msg(s).x = x
  BY DEF Taken, CanTake, On, Msg
<1>2. TypeInv /\ Traffic /\ PeerTypes /\ x \in AllExchanges /\ s \in Sides
  BY <1>1, TwoSides DEF Inv, TypeInv
<1>3. Msg(s) \in Events
  BY <1>1, <1>2, HeadOf
<1>4. e \in Events /\ e.ev = "Ack" /\ e.x = x
  BY <1>1, <1>3 DEF Events
<1>5. /\ peer' = [peer EXCEPT ![x] = "Req"] /\ wire' = wire /\ conn' = conn /\ reader' = reader
      /\ AskersIdle
      /\ queue' = [queue EXCEPT ![s] = Longer(Tail(queue[s]), "yes", e)]
  BY DEF Taken, DoneThen, PeerRest, HandlerRest, RequestRest, NoFault, linkVars, AskersIdle, StatusKept, Longer
<1>6. SameExchanges
  BY <1>5 DEF SameExchanges, AskersIdle
<1>7. Begun(x)
  BY <1>1, <1>6, PeerBegun
<1> HIDE DEF e
<1>8. MayPush(e, s)
  BY <1>4, <1>7 DEF MayPush, Concerns, OfGateway, GatewayAsks
<1>9. Handled(s, "yes", e, s, "no", e)
  BY <1>1, <1>2, <1>5, HeadOf DEF Handled, Longer
<1>10. Releases(s, "yes", e)
  <2>1. CASE x = "relogin"
    BY <1>2, <1>4, <1>5, <2>1 DEF Releases, PeerTypes, Peer, AskedByGateway
  <2>2. CASE x # "relogin"
    BY <1>1, <1>2, <1>5, <2>2 DEF Releases, PeerTypes, Msg
  <2> QED
    BY <2>1, <2>2
<1> QED
  BY <1>2, <1>4, <1>5, <1>8, <1>9, <1>10, PeerStep

(* The peer sends the acknowledgement.                                     *)
LEMMA RepliedOK ==
  ASSUME Inv, NEW x, NEW ect \in Nat, Replied(x, ect)
  PROVE  Inv'
<1> DEFINE s == Peer(x)
           m == [Msg(s) EXCEPT !.ect = ect]
<1>1. /\ x \in Exchanges /\ On(s, "Ack", x) /\ queue[s] # <<>>
      /\ Msg(s).ev = "Ack" /\ Msg(s).x = x
  BY DEF Replied, CanReply, On, Msg
<1>2. /\ TypeInv /\ Traffic /\ PeerTypes /\ x \in AllExchanges /\ s \in Sides /\ Asker(x) \in Sides
  BY <1>1, TwoSides DEF Inv, TypeInv
<1>3. Msg(s) \in Events
  BY <1>1, <1>2, HeadOf
<1>4. m \in Frames /\ m.ev = "Ack" /\ m.x = x
  BY <1>1, <1>3 DEF Events, Frames
<1>5. /\ peer' = [peer EXCEPT ![x] = "Stop"] /\ conn' = conn /\ reader' = reader
      /\ AskersIdle /\ reloginTimers' = reloginTimers
      /\ queue' = [queue EXCEPT ![s] = Longer(Tail(queue[s]), "no", m)]
      /\ wire' = wire \/ wire' = [wire EXCEPT ![Asker(x)] = Append(wire[Asker(x)], m)]
  BY DEF Replied, Done, Send, PeerRest, HandlerRest, RequestRest, NoFault, linkVars, AskersIdle, StatusKept,
         Longer, TimerOfReLoginRest
<1>6. SameExchanges
  BY <1>5 DEF SameExchanges, AskersIdle
<1>7. Begun(x)
  BY <1>1, <1>6, PeerBegun
<1> HIDE DEF m
<1>8. MaySend(m, Asker(x))
  BY <1>2, <1>4, <1>7, TwoSides
     DEF MaySend, OfGateway, GatewayAsks, AskedByGateway, AskedByDevice
<1>9. PICK c \in {"yes", "no"} : Handled(s, "no", m, Asker(x), c, m)
  <2>1. CASE wire' = wire
    <3>1. Handled(s, "no", m, Asker(x), "no", m)
      BY <1>1, <1>2, <1>5, <2>1, HeadOf DEF Handled, Longer
    <3> QED
      BY <3>1
  <2>2. CASE wire' = [wire EXCEPT ![Asker(x)] = Append(wire[Asker(x)], m)]
    <3>1. Handled(s, "no", m, Asker(x), "yes", m)
      BY <1>1, <1>2, <1>5, <2>2 DEF Handled, Longer
    <3> QED
      BY <3>1
  <2> QED
    BY <1>5, <2>1, <2>2
<1>10. Releases(s, "no", m)
  BY <1>1, <1>2, <1>5 DEF Releases, PeerTypes, Msg
<1> QED
  BY <1>2, <1>5, <1>8, <1>9, <1>10, PeerStep

(* The acknowledgement cannot be sent.                                     *)
LEMMA ReplyFailsOK ==
  ASSUME Inv, NEW x, NEW status \in {"Stop", "Req"}, x = "relogin" => status = "Stop",
         ReplyFails(x, status)
  PROVE  Inv'
<1>1. /\ x \in Exchanges /\ queue[Peer(x)] # <<>> /\ Head(queue[Peer(x)]).x = x
  BY DEF ReplyFails, CanReply, On
<1>2. Peer(x) \in Sides /\ peer \in [Exchanges -> {"Stop", "Req"}]
  BY <1>1, TwoSides DEF Inv, TypeInv, PeerTypes
<1>3. /\ peer' = [peer EXCEPT ![x] = status] /\ conn' = conn /\ reader' = reader
      /\ AskersIdle /\ reloginTimers' = reloginTimers /\ wire' = wire /\ Done(Peer(x))
  BY DEF ReplyFails, FailedSend, Fault, PeerRest, HandlerRest, RequestRest, NoFault, linkVars,
         AskersIdle, StatusKept, TimerOfReLoginRest
<1>4. /\ peer' \in [Exchanges -> {"Stop", "Req"}]
      /\ "relogin" \in Exchanges /\ peer'["relogin"] = "Req" =>
           peer["relogin"] = "Req" /\ x # "relogin"
  BY <1>1, <1>2, <1>3
<1> QED
  BY <1>1, <1>2, <1>3, <1>4, DroppedOK

-----------------------------------------------------------------------------
(* The askers.                                                             *)

(* What watches a request that waits, with tm for its timer.               *)
Watches(x, tm) ==
  /\ \/ tm.newest \/ tm.fired > 0
     \/ x = "relogin" /\ tm.late > 0
     \/ x \in robbed'
  /\ tm.token # 0 => tm.run + tm.idle > 0

(* A step of one asker, which becomes a, with its timer, which becomes tm. *)
OneAsker(x, a, tm) ==
  /\ asker' = [asker EXCEPT ![x] = a] /\ timer' = [timer EXCEPT ![x] = tm]
  /\ a \in AskerStates /\ TimerOK(tm) /\ Goroutines(tm) <= a.n
  /\ asker[x].made => a.made
  /\ a.status = "Req" => Watches(x, tm) \/ OwnTrouble(x)'
  /\ owed' \subseteq Exchanges /\ robbed' \subseteq Exchanges /\ robbed \subseteq robbed' \cup {x}
  /\ conn' = conn
  /\ conn = "login" =>
       /\ again' = 0
       /\ x \in AskedByGateway => a.status = "Stop" /\ ~a.made /\ tm = NoTimer

LEMMA AskerKept ==
  ASSUME Inv, NEW x \in Exchanges, NEW a, NEW tm, OneAsker(x, a, tm),
         breaks' = breaks \/ Spend(breaks), faults' = faults \/ Spend(faults),
         withdrawn' = withdrawn \/ Spend(withdrawn)
  PROVE  SameExchanges /\ AskTypes' /\ WatchInv' /\ FreshInv'
<1>1. /\ AskTypes /\ ElseTypes /\ WatchInv /\ FreshInv
      /\ asker \in [Exchanges -> AskerStates] /\ timer = [y \in Exchanges |-> timer[y]]
  BY DEF Inv, TypeInv, AskTypes
<1>2. /\ asker' \in [Exchanges -> AskerStates] /\ timer' = [y \in Exchanges |-> timer'[y]]
      /\ asker'[x] = a /\ timer'[x] = tm
      /\ \A y \in Exchanges \ {x} : asker'[y] = asker[y] /\ timer'[y] = timer[y]
  BY <1>1 DEF OneAsker
<1>3. SameExchanges
  <2>1. DOMAIN asker' = DOMAIN asker
    BY <1>2 DEF Exchanges
  <2>2. \A y \in Exchanges : asker[y].made => asker'[y].made
    BY <1>2 DEF OneAsker
  <2> QED
    BY <2>1, <2>2 DEF SameExchanges
<1>4. Exchanges' = Exchanges
  BY <1>3, EventsSame
<1>5. \A y : OwnTrouble(y) => OwnTrouble(y)'
  BY <1>1, TroubleStays
<1>6. AskTypes'
  <2>1. \A y \in Exchanges : TimerOK(timer'[y]) /\ Goroutines(timer'[y]) <= asker'[y].n
    <3> TAKE y \in Exchanges
    <3>1. CASE y = x
      BY <1>2, <3>1 DEF OneAsker
    <3>2. CASE y # x
      BY <1>1, <1>2, <3>2 DEF AskTypes
    <3> QED
      BY <3>1, <3>2
  <2>2. owed' \subseteq Exchanges /\ robbed' \subseteq Exchanges
    BY DEF OneAsker
  <2>3. asker' \in [Exchanges' -> AskerStates]
    BY <1>2, <1>4
  <2> QED
    BY <1>2, <1>4, <2>1, <2>2, <2>3 DEF AskTypes, AskerStates
<1>7. WatchInv'
  <2> SUFFICES ASSUME NEW y \in Exchanges, asker'[y].status = "Req"
               PROVE  Watched(y)' \/ OwnTrouble(y)'
    BY <1>4 DEF WatchInv
  <2>1. CASE y = x
    BY <1>2, <2>1 DEF OneAsker, Watches, Watched
  <2>2. CASE y # x
    <3>1. Watched(y) \/ OwnTrouble(y)
      BY <1>1, <1>2, <2>2 DEF WatchInv
    <3>2. timer'[y] = timer[y] /\ (y \in robbed => y \in robbed')
      BY <1>2, <2>2 DEF OneAsker
    <3> QED
      BY <1>5, <3>1, <3>2 DEF Watched
  <2> QED
    BY <2>1, <2>2
<1>8. FreshInv'
  <2> SUFFICES ASSUME conn = "login"
               PROVE  /\ again' = 0
                      /\ \A y \in Exchanges \cap AskedByGateway :
                           asker'[y].status = "Stop" /\ ~asker'[y].made /\ timer'[y] = NoTimer
    BY <1>4 DEF FreshInv, OneAsker, AskedByGateway
  <2>1. again' = 0
    BY DEF OneAsker
  <2>2. ASSUME NEW y \in Exchanges \cap AskedByGateway
        PROVE  asker'[y].status = "Stop" /\ ~asker'[y].made /\ timer'[y] = NoTimer
    <3>1. CASE y = x
      BY <1>2, <3>1 DEF OneAsker
    <3>2. CASE y # x
      BY <1>1, <1>2, <3>2 DEF FreshInv
    <3> QED
      BY <3>1, <3>2
  <2> QED
    BY <2>1, <2>2
<1> QED
  BY <1>3, <1>6, <1>7, <1>8

(* A handler of an asker.                                                  *)
AskerRest ==
  /\ UNCHANGED <<peer, reloginTimers, now, asks, expired, breaks, withdrawn, ThingStatus, login>>
  /\ again' \in Nat /\ (faults' = faults \/ Spend(faults))

LEMMA AskerStep ==
  ASSUME Inv, NEW x \in Exchanges, NEW a, NEW tm, OneAsker(x, a, tm), AskerRest,
         NEW c \in {"yes", "no"}, NEW m, c = "yes" => MaySend(m, Peer(x)),
         Handled(Asker(x), "no", m, Peer(x), c, m),
         Head(queue[Asker(x)]).x = x
  PROVE  Inv'
<1>1. /\ TypeInv /\ LinkInv /\ Traffic /\ ReleaseInv /\ ElseTypes /\ PeerTypes
      /\ Exchanges \subseteq AllExchanges /\ x \in AllExchanges
  BY DEF Inv, TypeInv
<1>2. SameExchanges /\ AskTypes' /\ WatchInv' /\ FreshInv'
  BY AskerKept DEF AskerRest
<1>3. UNCHANGED <<conn, reader, breaks, withdrawn, ThingStatus, login>>
  BY DEF Handled, AskerRest
<1>4. Asker(x) \in Sides /\ Peer(x) \in Sides
  BY <1>1, TwoSides
<1>5. Traffic' /\ ChanTypes' /\ NoRegister
  BY <1>1, <1>2, <1>4, HandledKeeps, EventsSame DEF ChanTypes
<1>6. ElseTypes'
  <2>1. faults' \in [used : Nat, most : Nat, sides : SUBSET Sides]
    BY <1>1, TroubleStays DEF AskerRest
  <2> QED
    BY <1>1, <1>3, <2>1 DEF AskerRest, ElseTypes
<1>7. TypeInv' /\ LinkInv'
  <2>1. LinkInv'
    BY <1>1, <1>3, <1>5 DEF LinkInv, Interrupted, NoRegister
  <2> QED
    BY <1>1, <1>2, <1>3, <1>5, <1>6, <2>1, EventsSame DEF TypeInv, PeerTypes, AskerRest
<1>8. ReleaseInv'
  <2>1. Asker(x) = "dev" => x # "relogin"
    BY <1>1, TwoSides DEF AskedByDevice
  <2>2. Releases(Asker(x), "no", m)
    BY <1>1, <2>1 DEF Releases, PeerTypes, AskerRest
  <2> QED
    BY <1>1, <1>2, <1>4, <2>2, ReleaseKept
<1> QED
  BY <1>2, <1>5, <1>7, <1>8 DEF Inv

(* Before the login the new Thing of the gateway has nothing to ask.       *)
LEMMA AsksLate ==
  ASSUME Inv, NEW x \in Exchanges, CanAsk(x)
  PROVE  conn = "login" => x \notin AskedByGateway
<1> SUFFICES ASSUME conn = "login", x \in AskedByGateway PROVE FALSE
  OBVIOUS
<1>1. /\ queue["gw"] # <<>> /\ Msg("gw").ev = "Req" /\ Msg("gw").x = x
  BY DEF CanAsk, On, Msg, Asker
<1>2. Msg("gw") \in NoAsking
  BY <1>1, HeadOf DEF Inv, TypeInv, Traffic, CalmInv, Sides
<1> QED
  BY <1>1, <1>2 DEF NoAsking, GatewayAsks

(* What the types say of one asker.                                        *)
LEMMA AskerTyped ==
  ASSUME Inv, NEW x \in Exchanges
  PROVE  /\ asker[x] \in AskerStates /\ TimerOK(timer[x]) /\ Goroutines(timer[x]) <= asker[x].n
         /\ Goroutines(timer[x]) \in Nat
         /\ asker \in [Exchanges -> AskerStates] /\ timer = [timer EXCEPT ![x] = timer[x]]
         /\ owed \subseteq Exchanges /\ robbed \subseteq Exchanges /\ now \in Nat /\ again \in Nat
         /\ x \in AllExchanges /\ Asker(x) \in Sides /\ Peer(x) \in Sides
<1>1. AskTypes /\ ElseTypes /\ Exchanges \subseteq AllExchanges
  BY DEF Inv, TypeInv
<1>2. timer = [timer EXCEPT ![x] = timer[x]]
  BY <1>1 DEF AskTypes
<1> QED
  BY <1>1, <1>2, TwoSides, TimerTyped DEF AskTypes, ElseTypes

(* The request goes out.                                                   *)
LEMMA RequestedOK ==
  ASSUME Inv, NEW x, Requested(x) PROVE Inv'
<1> DEFINE a  == [status |-> "Req", made |-> TRUE, ect |-> now, n |-> asker[x].n + 1]
           tm == Started(timer[x])
           m  == Event("Req", x, now, asker[x].n + 1)
<1>1. /\ x \in Exchanges /\ CanAsk(x) /\ queue[Asker(x)] # <<>> /\ Head(queue[Asker(x)]).x = x
  BY DEF Requested, CanAsk, On
<1>2. /\ asker[x] \in AskerStates /\ TimerOK(timer[x]) /\ Goroutines(timer[x]) <= asker[x].n
      /\ Goroutines(timer[x]) \in Nat /\ timer[x].run \in Nat /\ timer[x].idle \in Nat
      /\ asker[x].n \in Nat /\ now \in Nat /\ owed \subseteq Exchanges /\ robbed \subseteq Exchanges
      /\ again \in Nat /\ x \in AllExchanges /\ Asker(x) \in Sides /\ Peer(x) \in Sides
  BY <1>1, AskerTyped DEF AskerStates, TimerOK, Counted
<1>3. conn = "login" => x \notin AskedByGateway /\ again = 0
  BY <1>1, AsksLate DEF Inv, FreshInv
<1>4. /\ asker' = [asker EXCEPT ![x] = a] /\ timer' = [timer EXCEPT ![x] = tm]
      /\ wire' = wire \/ wire' = [wire EXCEPT ![Peer(x)] = Append(wire[Peer(x)], m)]
      /\ queue' = [queue EXCEPT ![Asker(x)] = Longer(Tail(queue[Asker(x)]), "no", m)]
      /\ owed' = owed \cup {x} /\ robbed' = robbed \ {x}
      /\ UNCHANGED <<conn, reader, ThingStatus, login, breaks, withdrawn, faults, again>>
      /\ UNCHANGED <<peer, reloginTimers, now, asks, expired>>
  BY DEF Requested, Send, Done, NoFault, RequestRest, linkVars, Longer
<1>5. a \in AskerStates /\ a.status = "Req" /\ a.made
  BY <1>2 DEF AskerStates
<1>6. TimerOK(tm) /\ Goroutines(tm) <= a.n
  <2>1. TimerOK(tm) /\ Goroutines(tm) = Goroutines(timer[x]) + 1
    BY <1>2, StartedOK
  <2> QED
    BY <1>2, <2>1
<1>7. tm.newest /\ tm.run + tm.idle > 0
  <2>1. tm.newest = TRUE /\ tm.run = timer[x].run + 1 /\ tm.idle = timer[x].idle
    BY <1>2 DEF Started, TimerOK, Record, TimerFields
  <2> QED
    BY <1>2, <2>1
<1>8. m \in Frames /\ m.ev = "Req" /\ m.x = x
  BY <1>1, <1>2 DEF Event, Frames
<1> HIDE DEF tm
<1>9. OneAsker(x, a, tm)
  <2>1. Watches(x, tm)
    BY <1>7 DEF Watches
  <2> QED
    BY <1>1, <1>2, <1>3, <1>4, <1>5, <1>6, <2>1 DEF OneAsker
<1> HIDE DEF m
<1>10. MaySend(m, Peer(x))
  <2>1. Begun(x)
    BY <1>1, <1>2, <1>4, AskerTyped DEF Begun
  <2> QED
    BY <1>3, <1>8, <2>1 DEF MaySend, GatewayAsks, OfGateway
<1>11. PICK c \in {"yes", "no"} : Handled(Asker(x), "no", m, Peer(x), c, m)
  <2>1. CASE wire' = wire
    <3>1. Handled(Asker(x), "no", m, Peer(x), "no", m)
      BY <1>1, <1>2, <1>4, <2>1, HeadOf DEF Handled, Longer, Inv
    <3> QED
      BY <3>1
  <2>2. CASE wire' = [wire EXCEPT ![Peer(x)] = Append(wire[Peer(x)], m)]
    <3>1. Handled(Asker(x), "no", m, Peer(x), "yes", m)
      BY <1>1, <1>4, <2>2 DEF Handled, Longer
    <3> QED
      BY <3>1
  <2> QED
    BY <1>4, <2>1, <2>2
<1>12. AskerRest
  BY <1>2, <1>4 DEF AskerRest
<1> QED
  BY <1>1, <1>9, <1>10, <1>11, <1>12, AskerStep

(* A handler of an asker that sends nothing and leaves the timer alone.    *)
Stuck(x, status, ect) ==
  /\ asker' = [asker EXCEPT ![x] = [@ EXCEPT !.status = status, !.ect = ect]]
  /\ owed' = owed \cup {x} /\ wire' = wire /\ Done(Asker(x))
  /\ conn' = conn /\ reader' = reader
  /\ UNCHANGED <<timer, robbed>>

LEMMA StuckOK ==
  ASSUME Inv, NEW x, CanAsk(x), NEW status \in {"Stop", "Req"}, NEW ect \in Nat,
         Stuck(x, status, ect), AskerRest, conn = "login" => again' = 0,
         status = "Req" => OwnTrouble(x)'
  PROVE  Inv'
<1> DEFINE a == [asker[x] EXCEPT !.status = status, !.ect = ect]
<1>1. x \in Exchanges /\ queue[Asker(x)] # <<>> /\ Head(queue[Asker(x)]).x = x
  BY DEF CanAsk, On
<1>2. /\ asker[x] \in AskerStates /\ TimerOK(timer[x]) /\ Goroutines(timer[x]) <= asker[x].n
      /\ timer = [timer EXCEPT ![x] = timer[x]]
      /\ owed \subseteq Exchanges /\ robbed \subseteq Exchanges
      /\ Asker(x) \in Sides /\ Peer(x) \in Sides
  BY <1>1, AskerTyped
<1>3. conn = "login" => x \notin AskedByGateway
  BY <1>1, AsksLate
<1>4. a \in AskerStates /\ a.status = status /\ a.made = asker[x].made /\ a.n = asker[x].n
  BY <1>2 DEF AskerStates
<1>5. asker' = [asker EXCEPT ![x] = a] /\ timer' = [timer EXCEPT ![x] = timer[x]]
  BY <1>2 DEF Stuck
<1> HIDE DEF a
<1>6. OneAsker(x, a, timer[x])
  BY <1>1, <1>2, <1>3, <1>4, <1>5 DEF OneAsker, Stuck
<1>7. Handled(Asker(x), "no", 0, Peer(x), "no", 0)
  BY <1>1, <1>2, HeadOf DEF Handled, Longer, Stuck, Done, Inv
<1> QED
  BY <1>1, <1>6, <1>7, AskerStep

(* An error before the request has gone out.                               *)
LEMMA FailedSendIsTrouble ==
  ASSUME Inv, NEW x \in Exchanges, FailedSend(Asker(x)), breaks' = breaks, conn' = conn
  PROVE  OwnTrouble(x)'
<1>1. LinkInv /\ ElseTypes /\ x \in AllExchanges
  BY DEF Inv, TypeInv
<1>2. CASE conn = "broken" \/ conn = "login"
  BY <1>1, <1>2 DEF LinkInv, OwnTrouble
<1>3. CASE conn # "broken" /\ conn # "login"
  BY <1>1, <1>3, FaultIsTrouble DEF FailedSend, CanEncrypt
<1> QED
  BY <1>2, <1>3

LEMMA RequestFailsOK ==
  ASSUME Inv, NEW x, RequestFails(x) PROVE Inv'
<1>1. CanAsk(x) /\ x \in Exchanges
  BY DEF RequestFails, CanAsk, On
<1>2. asker[x] \in AskerStates /\ asker[x].ect \in Nat /\ again \in Nat
  BY <1>1, AskerTyped DEF AskerStates
<1>3. Stuck(x, "Req", asker[x].ect)
  <2>1. [asker[x] EXCEPT !.status = "Req"] = [asker[x] EXCEPT !.status = "Req", !.ect = asker[x].ect]
    BY <1>2 DEF AskerStates
  <2> QED
    BY <2>1 DEF Stuck, RequestFails, FailedSend, HandlerRest, RequestRest, linkVars
<1>4. AskerRest /\ again' = again /\ conn' = conn /\ breaks' = breaks
  BY <1>2 DEF AskerRest, RequestFails, FailedSend, NoFault, Fault, HandlerRest, RequestRest,
     linkVars
<1>5. OwnTrouble(x)'
  BY <1>1, <1>4, FailedSendIsTrouble DEF RequestFails
<1>6. conn = "login" => again' = 0
  BY <1>4 DEF Inv, FreshInv
<1> QED
  BY <1>1, <1>2, <1>3, <1>4, <1>5, <1>6, StuckOK

LEMMA UnLoginOK ==
  ASSUME Inv, DHeartbeatReqUnLogin PROVE Inv'
<1> DEFINE x == "heartbeat"
<1>1. CanAsk(x) /\ x \in Exchanges
  BY DEF DHeartbeatReqUnLogin, CanAsk, On
<1>2. asker[x] \in AskerStates /\ asker[x].ect \in Nat /\ again \in Nat
  BY <1>1, AskerTyped DEF AskerStates
<1>3. Stuck(x, "Req", asker[x].ect)
  <2>1. [asker[x] EXCEPT !.status = "Req"] = [asker[x] EXCEPT !.status = "Req", !.ect = asker[x].ect]
    BY <1>2 DEF AskerStates
  <2> QED
    BY <2>1 DEF Stuck, DHeartbeatReqUnLogin, HandlerRest, RequestRest, linkVars, Asker,
       AskedByGateway
<1>4. AskerRest /\ again' = again /\ breaks' = breaks /\ withdrawn' = withdrawn
  BY <1>2 DEF AskerRest, DHeartbeatReqUnLogin, NoFault, HandlerRest, RequestRest, linkVars
<1>5. OwnTrouble(x)'
  BY <1>4 DEF Inv, LinkInv, Interrupted, LoggedIn, DHeartbeatReqUnLogin, OwnTrouble, Withdrawn
<1>6. conn = "login" => again' = 0
  BY <1>4 DEF Inv, FreshInv
<1> QED
  BY <1>1, <1>2, <1>3, <1>4, <1>5, <1>6, StuckOK

LEMMA ReLoginFailsOK ==
  ASSUME Inv, GReLoginReqFails PROVE Inv'
<1> DEFINE x == "relogin"
<1>1. CanAsk(x) /\ x \in Exchanges /\ asker[x].status = "Stop"
  BY DEF GReLoginReqFails, CanAsk, On
<1>2. asker[x] \in AskerStates /\ now \in Nat /\ again \in Nat
  BY <1>1, AskerTyped
<1>3. PICK ect \in {asker[x].ect, now} : asker' = [asker EXCEPT ![x].ect = ect]
  BY DEF GReLoginReqFails
<1>4. ect \in Nat
  BY <1>2, <1>3 DEF AskerStates
<1>5. Stuck(x, "Stop", ect)
  <2>1. [asker[x] EXCEPT !.ect = ect] = [asker[x] EXCEPT !.status = "Stop", !.ect = ect]
    BY <1>1, <1>2 DEF AskerStates
  <2> QED
    BY <1>3, <2>1 DEF Stuck, GReLoginReqFails, FailedSend, HandlerRest, RequestRest, linkVars, Asker,
                AskedByGateway
<1>6. AskerRest
  BY <1>2 DEF AskerRest, GReLoginReqFails, FailedSend, NoFault, Fault, HandlerRest, RequestRest,
              linkVars
<1>7. conn # "login"
  BY <1>1, AsksLate DEF AskedByGateway
<1> QED
  BY <1>1, <1>4, <1>5, <1>6, <1>7, StuckOK

(* The timer of a request that is acknowledged has been made.              *)
LEMMA AckIsMade ==
  ASSUME Inv, NEW x, On(Asker(x), "Ack", x), asker[x].status = "Req"
  PROVE  /\ asker[x].made
         /\ conn = "login" => x \notin AskedByGateway
<1>1. /\ x \in Exchanges /\ queue[Asker(x)] # <<>> /\ Msg(Asker(x)).ev = "Ack"
      /\ Msg(Asker(x)).x = x
  BY DEF On, Msg
<1>2. /\ TypeInv /\ MadeInv /\ FreshInv /\ Asker(x) \in Sides /\ x \in AllExchanges
  BY <1>1, TwoSides DEF Inv, TypeInv, Traffic
<1>3. conn = "login" => x \notin AskedByGateway
  BY <1>1, <1>2 DEF FreshInv
<1>4. ASSUME ~asker[x].made PROVE FALSE
  <2>1. Silent(x)
    BY <1>1, <1>2, <1>3, <1>4 DEF MadeInv, AllExchanges
  <2>2. Msg(Asker(x)) \in OnlyReqs(x)
    BY <1>1, <1>2, <2>1, HeadOf DEF Silent
  <2> QED
    BY <1>1, <2>2 DEF OnlyReqs
<1> QED
  BY <1>3, <1>4

LEMMA AcknowledgedOK ==
  ASSUME Inv, NEW x, Acknowledged(x) PROVE Inv'
<1> DEFINE a  == [asker[x] EXCEPT !.status = "Stop"]
           tm == Closed(Stopped(timer[x]))
<1>1. /\ x \in Exchanges /\ queue[Asker(x)] # <<>> /\ Head(queue[Asker(x)]).x = x
      /\ asker[x].made /\ (conn = "login" => x \notin AskedByGateway)
  BY AckIsMade DEF Acknowledged, On
<1>2. /\ asker[x] \in AskerStates /\ TimerOK(timer[x]) /\ Goroutines(timer[x]) <= asker[x].n
      /\ owed \subseteq Exchanges /\ robbed \subseteq Exchanges /\ again \in Nat
      /\ Asker(x) \in Sides /\ Peer(x) \in Sides
  BY <1>1, AskerTyped
<1>3. a \in AskerStates /\ a.status = "Stop" /\ a.made /\ a.n = asker[x].n
  BY <1>1, <1>2 DEF AskerStates
<1>4. TimerOK(tm) /\ Goroutines(tm) = Goroutines(timer[x])
  BY <1>2, KeptOK
<1>5. /\ asker' = [asker EXCEPT ![x] = a] /\ timer' = [timer EXCEPT ![x] = tm]
      /\ owed' = owed \ {x} /\ robbed' = robbed /\ wire' = wire /\ Done(Asker(x))
      /\ conn' = conn /\ reader' = reader /\ again' = again /\ AskerRest
  BY <1>1, <1>2 DEF Acknowledged, HandlerRest, RequestRest, linkVars, AskerRest, NoFault
<1> HIDE DEF a, tm
<1>6. conn = "login" => again' = 0
  BY <1>5 DEF Inv, FreshInv
<1>7. OneAsker(x, a, tm)
  BY <1>1, <1>2, <1>3, <1>4, <1>5, <1>6 DEF OneAsker
<1>8. Handled(Asker(x), "no", 0, Peer(x), "no", 0)
  BY <1>1, <1>2, <1>5, HeadOf DEF Handled, Longer, Done, Inv
<1> QED
  BY <1>1, <1>5, <1>7, <1>8, AskerStep
-----------------------------------------------------------------------------
(* Goroutines, the web and the readers.                                    *)

(* A step that leaves the channels alone, or pushes one event.             *)
ChansOK == Traffic' /\ ChanTypes' /\ (Released(queue["dev"]) => Released(queue'["dev"]))

LEMMA ChansStay ==
  ASSUME Inv, SameExchanges, UNCHANGED <<queue, wire, conn, reader>>
  PROVE  ChansOK /\ NoRegister
<1>1. /\ TypeInv /\ LinkInv /\ Traffic /\ ChanTypes
  BY DEF Inv, TypeInv
<1>2. \A o, e : o \in Sides => Stays(o, "no", e, o, "no", e)
  BY DEF Stays
<1>3. MadeInv' /\ CalmInv'
  <2>1. Stays("gw", "no", 0, "gw", "no", 0) /\ "gw" \in Sides
    BY <1>2 DEF Sides
  <2> QED
    BY <1>1, <2>1, TrafficKept
<1>4. PlaceInv'
  BY <1>1 DEF Traffic, PlaceInv
<1>5. ChanTypes'
  BY <1>1, EventsSame DEF ChanTypes
<1> QED
  BY <1>3, <1>4, <1>5 DEF ChansOK, Traffic, NoRegister

(* A frame that the reader drops.                                          *)
LEMMA ChansLost ==
  ASSUME Inv, SameExchanges, UNCHANGED <<queue, conn, reader>>,
         NEW s \in Sides, wire[s] # <<>>, wire' = [wire EXCEPT ![s] = Tail(@)]
  PROVE  ChansOK /\ NoRegister
<1>1. /\ TypeInv /\ LinkInv /\ Traffic /\ ChanTypes
  BY DEF Inv, TypeInv
<1>2. /\ wire \in [Sides -> Seq(Frames)]
      /\ \A t \in Sides : wire'[t] = IF t = s THEN Tail(wire[s]) ELSE wire[t]
      /\ wire' = [t \in Sides |-> wire'[t]]
  BY <1>1 DEF ChanTypes
<1>3. \A S : \A t \in Sides : wire[t] \in Seq(S) => wire'[t] \in Seq(S)
  BY <1>2, TailAt
<1>4. Stays(s, "no", 0, s, "no", 0)
  BY <1>3 DEF Stays
<1>5. MadeInv' /\ CalmInv'
  BY <1>1, <1>4, TrafficKept
<1>6. PlaceInv'
  BY <1>1 DEF Traffic, PlaceInv
<1>7. ChanTypes'
  <2>1. wire' \in [Sides -> Seq(Frames)]
    BY <1>2, <1>3
  <2> QED
    BY <1>1, <2>1, EventsSame DEF ChanTypes
<1> QED
  BY <1>5, <1>6, <1>7 DEF ChansOK, Traffic, NoRegister

LEMMA ChansPushed ==
  ASSUME Inv, SameExchanges, NEW s \in Sides, NEW e, MayPush(e, s), Pushed(s, e)
  PROVE  ChansOK /\ (e.ev # "RegisterReq" => NoRegister)
<1>1. /\ TypeInv /\ LinkInv /\ Traffic /\ ChanTypes
  BY DEF Inv, TypeInv
<1>2. Traffic' /\ queue' \in [Sides -> Seq(Events)] /\ wire' \in [Sides -> Seq(Frames)]
  BY <1>1, PushedKeeps
<1>3. ChanTypes'
  BY <1>2, EventsSame DEF ChanTypes
<1>4. ASSUME Released(queue["dev"]) PROVE Released(queue'["dev"])
  <2>1. queue["dev"] \in Seq(Events) /\ e \in Events
    BY <1>1 DEF ChanTypes, MayPush, Sides
  <2>2. queue'["dev"] = queue["dev"] \/ queue'["dev"] = Append(queue["dev"], e)
    BY <1>1 DEF ChanTypes, Pushed, Sides
  <2> QED
    BY <1>4, <2>1, <2>2, ReleasedKept
<1>5. ChansOK
  BY <1>2, <1>3, <1>4 DEF ChansOK
<1>6. e.ev # "RegisterReq" => NoRegister
  BY <1>1, PushedKeeps
<1> QED
  BY <1>5, <1>6

(* A request that is asked for, from outside or again.                     *)
LEMMA ChansAsked ==
  ASSUME Inv, SameExchanges, NEW x \in Exchanges \cup {"relogin"}, Repetition(x),
         UNCHANGED <<wire, conn, reader>>, conn = "login" => x \notin AskedByGateway
  PROVE  ChansOK /\ NoRegister
<1> DEFINE e == Event("Req", x, 0, 0)
<1>1. x \in AllExchanges
  BY DEF Inv, TypeInv, AllExchanges, AskedByGateway
<1>2. Asker(x) \in Sides /\ (x \in AskedByGateway => Asker(x) = "gw")
  BY <1>1, TwoSides
<1>3. e \in Events /\ e.ev = "Req" /\ e.x = x
  BY DEF Event, Events
<1>4. Pushed(Asker(x), e)
  BY DEF Repetition, Push, Pushed
<1> HIDE DEF e
<1>5. MayPush(e, Asker(x))
  BY <1>2, <1>3 DEF MayPush, GatewayAsks, OfGateway
<1> QED
  BY <1>2, <1>3, <1>4, <1>5, ChansPushed

(* A step of one timer, with what its goroutine pushes or resets.          *)
TimerRest ==
  /\ UNCHANGED <<linkVars, peer, again, reloginTimers, asks, faults>>
  /\ now' \in Nat /\ expired' \in Budget

LEMMA TimerStep ==
  ASSUME Inv, NEW x \in Exchanges, NEW a, NEW tm, OneAsker(x, a, tm), TimerRest,
         UNCHANGED wire, queue' = queue \/ Repetition(x), conn = "login" => x \notin AskedByGateway
  PROVE  Inv'
<1>1. /\ TypeInv /\ LinkInv /\ ReleaseInv /\ ElseTypes /\ PeerTypes
  BY DEF Inv, TypeInv
<1>2. SameExchanges /\ AskTypes' /\ WatchInv' /\ FreshInv'
  BY AskerKept DEF TimerRest, linkVars
<1>3. ChansOK /\ NoRegister
  BY <1>2, ChansStay, ChansAsked DEF TimerRest, linkVars
<1>4. ElseTypes' /\ PeerTypes'
  BY <1>1, <1>2, EventsSame DEF TimerRest, linkVars, ElseTypes, PeerTypes
<1>5. TypeInv'
  BY <1>1, <1>2, <1>3, <1>4, EventsSame DEF TypeInv, ChansOK
<1>6. LinkInv' /\ ReleaseInv'
  <2>1. LinkInv'
    BY <1>1, <1>3 DEF LinkInv, Interrupted, NoRegister, TimerRest, linkVars
  <2> QED
    BY <1>1, <1>2, <1>3, <2>1, EventsSame DEF ReleaseInv, TimerRest, ChansOK
<1> QED
  BY <1>2, <1>3, <1>5, <1>6 DEF Inv, ChansOK

(* A timer of an asker that waits, seen from the goroutine that moves.     *)
LEMMA TimerIsWatched ==
  ASSUME Inv, NEW x \in Exchanges, asker[x].status = "Req", ~OwnTrouble(x)'
  PROVE  UNCHANGED <<breaks, withdrawn, faults>> => Watched(x)
  BY DEF Inv, WatchInv, OwnTrouble, Withdrawn

(* Before the login a timer of the gateway is not there to move.           *)
LEMMA NoTimerMoves ==
  ASSUME Inv, NEW x \in Exchanges,
         \/ TokenTaken(timer[x]) # {} \/ Expired(timer[x]) # {}
         \/ timer[x].fired > 0 \/ timer[x].late > 0
  PROVE  conn = "login" => x \notin AskedByGateway
<1>1. TokenTaken(NoTimer) = {} /\ Expired(NoTimer) = {} /\ ~(NoTimer.fired > 0) /\ ~(NoTimer.late > 0)
  BY DEF TokenTaken, Expired, NoTimer
<1> QED
  BY <1>1 DEF Inv, FreshInv

LEMMA TimerTakenOK ==
  ASSUME Inv, NEW x \in Exchanges, TimerTaken(x), TimerRest, UNCHANGED <<wire, owed>>
  PROVE  Inv'
<1>1. PICK tm \in TokenTaken(timer[x]) :
        /\ timer' = [timer EXCEPT ![x] = tm]
        /\ robbed' = IF timer[x].newest /\ ~tm.newest THEN robbed \cup {x} ELSE robbed
        /\ UNCHANGED <<asker, queue, now, expired>>
  BY DEF TimerTaken
<1>2. /\ asker[x] \in AskerStates /\ TimerOK(timer[x]) /\ Goroutines(timer[x]) <= asker[x].n
      /\ Goroutines(timer[x]) \in Nat /\ asker[x].n \in Nat
      /\ asker \in [Exchanges -> AskerStates] /\ owed \subseteq Exchanges /\ robbed \subseteq Exchanges
  BY AskerTyped DEF AskerStates
<1>3. TimerOK(tm) /\ Goroutines(tm) <= asker[x].n
  <2>1. TimerOK(tm) /\ Goroutines(tm) = Goroutines(timer[x]) - 1
    BY <1>2, TokenTakenOK
  <2> QED
    BY <1>2, <2>1
<1>4. tm.token = 0 /\ tm.fired = timer[x].fired /\ tm.late = timer[x].late
  BY <1>2, PartsKept, FiredKept
<1>5. conn = "login" => x \notin AskedByGateway
  BY <1>1, NoTimerMoves
<1>6. asker[x].status = "Req" => Watches(x, tm) \/ OwnTrouble(x)'
  BY <1>1, <1>4, TimerIsWatched DEF Watches, Watched, TimerRest, linkVars
<1>7. conn = "login" => again' = 0
  BY DEF Inv, FreshInv, TimerRest, linkVars
<1>8. OneAsker(x, asker[x], tm)
  BY <1>1, <1>2, <1>3, <1>5, <1>6, <1>7 DEF OneAsker, TimerRest, linkVars
<1> QED
  BY <1>1, <1>5, <1>8, TimerStep

LEMMA TimerExpiresOK ==
  ASSUME Inv, NEW x \in Exchanges, TimerExpires(x), TimerRest, UNCHANGED <<wire, owed>>
  PROVE  Inv'
<1>1. PICK tm \in Expired(timer[x]) :
        /\ timer[x].token = 0 /\ timer' = [timer EXCEPT ![x] = tm]
        /\ UNCHANGED <<asker, queue, robbed>>
  BY DEF TimerExpires
<1>2. /\ asker[x] \in AskerStates /\ TimerOK(timer[x]) /\ Goroutines(timer[x]) <= asker[x].n
      /\ asker \in [Exchanges -> AskerStates] /\ owed \subseteq Exchanges /\ robbed \subseteq Exchanges
  BY AskerTyped
<1>3. TimerOK(tm) /\ Goroutines(tm) <= asker[x].n /\ tm.fired > 0
  BY <1>2, ExpiredOK
<1>4. tm.token = 0
  BY <1>1, <1>2, PartsKept
<1>5. conn = "login" => x \notin AskedByGateway
  BY <1>1, NoTimerMoves
<1>6. Watches(x, tm)
  BY <1>3, <1>4 DEF Watches
<1>7. conn = "login" => again' = 0
  BY DEF Inv, FreshInv, TimerRest, linkVars
<1>8. OneAsker(x, asker[x], tm)
  BY <1>1, <1>2, <1>3, <1>5, <1>6, <1>7 DEF OneAsker, TimerRest, linkVars
<1> QED
  BY <1>1, <1>5, <1>8, TimerStep

LEMMA TimerFirstOK ==
  ASSUME Inv, NEW x \in Exchanges, TimerFirst(x), TimerRest, UNCHANGED <<wire, owed>>
  PROVE  Inv'
<1> DEFINE a  == IF x = "relogin" THEN asker[x] ELSE [asker[x] EXCEPT !.status = "Stop"]
           tm == FirstDone(timer[x])
<1>1. /\ timer[x].fired > 0 /\ timer' = [timer EXCEPT ![x] = tm] /\ robbed' = robbed
      /\ queue' = queue \/ Repetition(x)
      /\ x = "relogin" => asker' = asker
      /\ x # "relogin" => asker' = [asker EXCEPT ![x].status = "Stop"]
  BY DEF TimerFirst, ResetStatus
<1>2. /\ asker[x] \in AskerStates /\ TimerOK(timer[x]) /\ Goroutines(timer[x]) <= asker[x].n
      /\ asker \in [Exchanges -> AskerStates] /\ owed \subseteq Exchanges /\ robbed \subseteq Exchanges
  BY AskerTyped
<1>3. TimerOK(tm) /\ Goroutines(tm) <= asker[x].n /\ tm.late > 0
  BY <1>1, <1>2, DoneOK
<1>4. tm.token = timer[x].token /\ tm.run = timer[x].run /\ tm.idle = timer[x].idle
  BY <1>2, PartsKept
<1>5. conn = "login" => x \notin AskedByGateway
  BY <1>1, NoTimerMoves
<1>6. /\ a \in AskerStates /\ a.made = asker[x].made /\ a.n = asker[x].n
      /\ a.status = "Req" => x = "relogin" /\ asker[x].status = "Req"
  BY <1>2 DEF AskerStates
<1>7. asker' = [asker EXCEPT ![x] = a]
  BY <1>1, <1>2
<1> HIDE DEF a, tm
<1>8. a.status = "Req" => Watches(x, tm) \/ OwnTrouble(x)'
  <2>1. a.status = "Req" /\ ~OwnTrouble(x)' => Watched(x)
    BY <1>6, TimerIsWatched DEF TimerRest, linkVars
  <2> QED
    BY <1>3, <1>4, <1>6, <2>1 DEF Watches, Watched
<1>9. conn = "login" => again' = 0
  BY DEF Inv, FreshInv, TimerRest, linkVars
<1>10. OneAsker(x, a, tm)
  BY <1>1, <1>2, <1>3, <1>5, <1>6, <1>7, <1>8, <1>9 DEF OneAsker, TimerRest, linkVars
<1> QED
  BY <1>1, <1>5, <1>10, TimerStep

LEMMA TimerSecondOK ==
  ASSUME Inv, NEW x \in Exchanges, TimerSecond(x), TimerRest, UNCHANGED <<wire, owed>>
  PROVE  Inv'
<1> DEFINE a  == IF x = "relogin" THEN [asker[x] EXCEPT !.status = "Stop"] ELSE asker[x]
           tm == SecondDone(timer[x])
<1>1. /\ timer[x].late > 0 /\ timer' = [timer EXCEPT ![x] = tm] /\ robbed' = robbed
      /\ queue' = queue \/ Repetition(x)
      /\ x = "relogin" => asker' = [asker EXCEPT ![x].status = "Stop"]
      /\ x # "relogin" => asker' = asker
  BY DEF TimerSecond, ResetStatus, AskedByDevice
<1>2. /\ asker[x] \in AskerStates /\ TimerOK(timer[x]) /\ Goroutines(timer[x]) <= asker[x].n
      /\ Goroutines(timer[x]) \in Nat /\ asker[x].n \in Nat
      /\ asker \in [Exchanges -> AskerStates] /\ owed \subseteq Exchanges /\ robbed \subseteq Exchanges
  BY AskerTyped DEF AskerStates
<1>3. TimerOK(tm) /\ Goroutines(tm) <= asker[x].n
  <2>1. TimerOK(tm) /\ Goroutines(tm) = Goroutines(timer[x]) - 1
    BY <1>1, <1>2, DoneOK
  <2> QED
    BY <1>2, <2>1
<1>4. /\ tm.token = timer[x].token /\ tm.run = timer[x].run /\ tm.idle = timer[x].idle
      /\ tm.newest = timer[x].newest /\ tm.fired = timer[x].fired
  BY <1>2, PartsKept
<1>5. conn = "login" => x \notin AskedByGateway
  BY <1>1, NoTimerMoves
<1>6. /\ a \in AskerStates /\ a.made = asker[x].made /\ a.n = asker[x].n
      /\ a.status = "Req" => x # "relogin" /\ asker[x].status = "Req"
  BY <1>2 DEF AskerStates
<1>7. asker' = [asker EXCEPT ![x] = a]
  BY <1>1, <1>2
<1> HIDE DEF a, tm
<1>8. a.status = "Req" => Watches(x, tm) \/ OwnTrouble(x)'
  <2>1. a.status = "Req" /\ ~OwnTrouble(x)' => Watched(x)
    BY <1>6, TimerIsWatched DEF TimerRest, linkVars
  <2> QED
    BY <1>1, <1>4, <1>6, <2>1 DEF Watches, Watched
<1>9. conn = "login" => again' = 0
  BY DEF Inv, FreshInv, TimerRest, linkVars
<1>10. OneAsker(x, a, tm)
  BY <1>1, <1>2, <1>3, <1>5, <1>6, <1>7, <1>8, <1>9 DEF OneAsker, TimerRest, linkVars
<1> QED
  BY <1>1, <1>5, <1>10, TimerStep

LEMMA TimerKeeps ==
  ASSUME Inv, NEW x \in Exchanges, Timer(x) PROVE Inv'
<1>1. ElseTypes
  BY DEF Inv, TypeInv
<1>2. UNCHANGED <<wire, owed>>
  BY DEF Timer
<1>3. TimerRest
  <2>1. UNCHANGED <<linkVars, peer, again, reloginTimers, asks, faults>>
    BY DEF Timer
  <2>2. now' \in Nat /\ expired' \in Budget
    BY <1>1 DEF Timer, TimerTaken, TimerExpires, TimerFirst, TimerSecond, Spend, ElseTypes, Budget
  <2> QED
    BY <2>1, <2>2 DEF TimerRest
<1>4. CASE TimerTaken(x)
  BY <1>2, <1>3, <1>4, TimerTakenOK
<1>5. CASE TimerExpires(x)
  BY <1>2, <1>3, <1>5, TimerExpiresOK
<1>6. CASE TimerFirst(x)
  BY <1>2, <1>3, <1>6, TimerFirstOK
<1>7. CASE TimerSecond(x)
  BY <1>2, <1>3, <1>7, TimerSecondOK
<1> QED
  BY <1>4, <1>5, <1>6, <1>7 DEF Timer

(* What the askers and the peers have no part in.                          *)
StatesStay ==
  /\ UNCHANGED <<asker, timer, robbed, owed, peer>>
  /\ reloginTimers' \in Nat /\ again' \in Nat /\ now' \in Nat
  /\ asks' \in Budget /\ expired' = expired /\ faults' = faults

LEMMA StatesKept ==
  ASSUME Inv, StatesStay
  PROVE  /\ SameExchanges /\ Exchanges' = Exchanges /\ Exchanges' \subseteq AllExchanges
         /\ AskTypes' /\ PeerTypes' /\ faults' = faults
<1>1. AskTypes /\ PeerTypes /\ Exchanges \subseteq AllExchanges
  BY DEF Inv, TypeInv
<1>2. SameExchanges
  BY DEF StatesStay, SameExchanges
<1>3. Exchanges' = Exchanges
  BY <1>2, EventsSame
<1>4. AskTypes'
  BY <1>1, <1>3 DEF StatesStay, AskTypes
<1>5. PeerTypes'
  BY <1>1, <1>3 DEF StatesStay, PeerTypes
<1> QED
  BY <1>1, <1>2, <1>3, <1>4, <1>5 DEF StatesStay

(* The login is taken back, or stays, and nobody asks for a registration.  *)
StatusTold ==
  /\ ThingStatus' \in {"UnLogin", "Logined"} /\ login' \in BOOLEAN
  /\ Spend(withdrawn) \/ (UNCHANGED <<ThingStatus, withdrawn>> /\ NoRegister)

(* A push from outside, from a goroutine that has waited, from a reader.   *)
LEMMA PushStep ==
  ASSUME Inv, StatesStay, ChansOK, StatusTold, UNCHANGED <<conn, reader, breaks>>,
         conn = "login" => again' = 0
  PROVE  Inv'
<1>1. /\ TypeInv /\ LinkInv /\ WatchInv /\ FreshInv /\ ReleaseInv /\ ElseTypes
  BY DEF Inv, TypeInv
<1>2. /\ Exchanges' = Exchanges /\ Exchanges' \subseteq AllExchanges /\ AskTypes' /\ PeerTypes'
  BY StatesKept
<1>3. /\ withdrawn' \in Budget /\ (Interrupted => Interrupted')
      /\ \A x : OwnTrouble(x) => OwnTrouble(x)'
      /\ Spend(withdrawn) => Interrupted'
  <2>1. faults' = faults
    BY DEF StatesStay
  <2>2. Spend(withdrawn) => Interrupted'
    BY <1>1 DEF Spend, Interrupted, ElseTypes, Budget
  <2> QED
    BY <1>1, <2>1, <2>2, TroubleStays DEF StatusTold
<1>4. ElseTypes'
  BY <1>1, <1>3 DEF ElseTypes, StatesStay, StatusTold
<1>5. TypeInv'
  BY <1>2, <1>4 DEF TypeInv, ChansOK
<1>6. LinkInv'
  <2>1. ThingStatus' # "Logined" \/ Has(queue'["dev"], "RegisterReq") => Interrupted'
    BY <1>1, <1>3 DEF LinkInv, NoRegister, StatusTold
  <2> QED
    BY <1>1, <2>1 DEF LinkInv
<1>7. WatchInv'
  BY <1>1, <1>2, <1>3 DEF WatchInv, Watched, StatesStay
<1>8. FreshInv'
  BY <1>1, <1>2 DEF FreshInv, StatesStay
<1>9. ReleaseInv'
  BY <1>1, <1>2 DEF ReleaseInv, StatesStay, ChansOK
<1> QED
  BY <1>5, <1>6, <1>7, <1>8, <1>9 DEF Inv, ChansOK

LEMMA AskOK ==
  ASSUME Inv, NEW x \in Exchanges, Ask(x) PROVE Inv'
<1>1. ElseTypes /\ PeerTypes /\ FreshInv
  BY DEF Inv, TypeInv
<1>2. /\ conn # "login" /\ Repetition(x)
      /\ UNCHANGED <<linkVars, wire, again, asker, timer, robbed, owed, peer>>
  BY DEF Ask, stateVars
<1>3. StatesStay
  BY <1>1 DEF Ask, stateVars, StatesStay, ElseTypes, PeerTypes, Spend, Budget
<1>4. ChansOK /\ NoRegister
  BY <1>2, <1>3, StatesKept, ChansAsked DEF linkVars
<1> QED
  BY <1>1, <1>2, <1>3, <1>4, PushStep DEF StatusTold, ElseTypes, linkVars

LEMMA AgainOK ==
  ASSUME Inv, GReLoginAgain PROVE Inv'
<1>1. ElseTypes /\ PeerTypes
  BY DEF Inv, TypeInv
<1>2. conn # "login"
  BY <1>1 DEF Inv, FreshInv, GReLoginAgain
<1>3. Repetition("relogin") /\ UNCHANGED <<linkVars, wire>>
  BY DEF GReLoginAgain
<1>4. StatesStay
  BY <1>1 DEF GReLoginAgain, StatesStay, ElseTypes, PeerTypes
<1>5. ChansOK /\ NoRegister
  BY <1>2, <1>3, <1>4, StatesKept, ChansAsked DEF linkVars
<1> QED
  BY <1>1, <1>2, <1>3, <1>4, <1>5, PushStep DEF StatusTold, ElseTypes, linkVars

LEMMA ReLoginTimerOK ==
  ASSUME Inv, DReLoginTimer PROVE Inv'
<1> DEFINE e == Event("LoginRequest", "relogin", 0, 0)
<1>1. ElseTypes /\ PeerTypes /\ FreshInv
  BY DEF Inv, TypeInv
<1>2. UNCHANGED <<linkVars, wire, again>> /\ Pushed("dev", e)
  BY DEF DReLoginTimer, linkVars, Push, Pushed
<1>3. StatesStay
  BY <1>1 DEF DReLoginTimer, StatesStay, ElseTypes, PeerTypes
<1>4. e \in Events /\ e.ev = "LoginRequest"
  BY DEF Event, Events
<1> HIDE DEF e
<1>5. MayPush(e, "dev")
  BY <1>4 DEF MayPush, Concerns, GatewayAsks, OfGateway
<1>6. ChansOK /\ NoRegister
  BY <1>2, <1>3, <1>4, <1>5, StatesKept, ChansPushed DEF Sides
<1>7. conn = "login" => again' = 0
  BY <1>1, <1>2 DEF FreshInv, linkVars
<1> QED
  BY <1>1, <1>2, <1>3, <1>6, <1>7, PushStep DEF StatusTold, ElseTypes, linkVars

(* A goroutine asks for a login or a registration.                         *)
LEMMA StatusPushed ==
  ASSUME Inv, NEW ev \in {"LoginRequest", "RegisterReq"}, Push("dev", Event(ev, "none", 0, 0)),
         Spend(withdrawn), StatusRest,
         ThingStatus' \in {"UnLogin", "Logined"}, login' \in BOOLEAN
  PROVE  Inv'
<1> DEFINE e == Event(ev, "none", 0, 0)
<1>1. ElseTypes /\ PeerTypes /\ FreshInv
  BY DEF Inv, TypeInv
<1>2. UNCHANGED <<conn, reader, breaks, wire, again>> /\ Pushed("dev", e)
  BY DEF StatusRest, stateVars, Push, Pushed
<1>3. StatesStay
  BY <1>1 DEF StatusRest, stateVars, StatesStay, ElseTypes, PeerTypes
<1>4. e \in Events /\ e.ev = ev
  BY DEF Event, Events
<1> HIDE DEF e
<1>5. MayPush(e, "dev")
  BY <1>4 DEF MayPush, Concerns, GatewayAsks, OfGateway
<1>6. ChansOK
  BY <1>2, <1>3, <1>5, StatesKept, ChansPushed DEF Sides
<1>7. conn = "login" => again' = 0
  BY <1>1, <1>2 DEF FreshInv
<1> QED
  BY <1>2, <1>3, <1>6, <1>7, PushStep DEF StatusTold

LEMMA CheckAesKeyOK ==
  ASSUME Inv, DCheckAesKeyValidity PROVE Inv'
<1>1. login \in BOOLEAN
  BY DEF Inv, TypeInv, ElseTypes
<1> QED
  BY <1>1, StatusPushed DEF DCheckAesKeyValidity

LEMMA RegisterAgainOK ==
  ASSUME Inv, DRegisterAgain PROVE Inv'
<1>1. login \in BOOLEAN /\ ThingStatus \in {"UnLogin", "Logined"}
  BY DEF Inv, TypeInv, ElseTypes
<1> QED
  BY <1>1, StatusPushed DEF DRegisterAgain

(* A frame that is under way has its exchange begun.                       *)
LEMMA FrameBegun ==
  ASSUME Inv, SameExchanges, NEW s \in Sides, wire[s] # <<>>
  PROVE  /\ Head(wire[s]) \in Frames /\ Begun(Head(wire[s]).x)
         /\ \A T : wire[s] \in Seq(T) => Head(wire[s]) \in T
<1> DEFINE m == Head(wire[s])
<1>1. TypeInv /\ MadeInv /\ wire[s] \in Seq(Frames)
  BY DEF Inv, TypeInv, ChanTypes, Traffic
<1>2. \A T : wire[s] \in Seq(T) => m \in T
  BY TailAt
<1>3. m \in Frames /\ m.x \in Exchanges /\ m.ev \in {"Req", "Ack"}
  BY <1>1, <1>2 DEF Frames
<1> HIDE DEF m
<1>4. Begun(m.x)
  <2> SUFFICES ASSUME ~asker[m.x].made, conn = "login" => m.x \notin AskedByGateway PROVE FALSE
    BY <1>3 DEF Begun, SameExchanges
  <2>1. Silent(m.x)
    BY <1>1, <1>3 DEF MadeInv, TypeInv, AllExchanges
  <2>2. m \in NoneOf(m.x)
    BY <1>2, <2>1 DEF Silent, Sides
  <2> QED
    BY <1>3, <2>2 DEF NoneOf, Concerns
<1> QED
  BY <1>2, <1>3, <1>4 DEF m

LEMMA ReadOK ==
  ASSUME Inv, NEW s \in Sides, Read(s) PROVE Inv'
<1> DEFINE m == Head(wire[s])
<1>1. ElseTypes /\ PeerTypes /\ FreshInv /\ CalmInv
  BY DEF Inv, TypeInv, Traffic
<1>2. /\ UNCHANGED <<linkVars, again>> /\ Pushed(s, m) /\ wire[s] # <<>>
      /\ s = "dev" => reader
  BY DEF Read, linkVars, stateVars, Push, Pushed
<1>3. StatesStay
  BY <1>1 DEF Read, stateVars, StatesStay, ElseTypes, PeerTypes
<1>4. SameExchanges
  BY <1>3, StatesKept
<1>5. /\ m \in Frames /\ Begun(m.x) /\ \A T : wire[s] \in Seq(T) => m \in T
  BY <1>2, <1>4, FrameBegun
<1> HIDE DEF m
<1>6. conn = "login" => ~GatewayAsks(m) /\ (s = "dev" => ~OfGateway(m))
  <2> SUFFICES ASSUME conn = "login" PROVE ~GatewayAsks(m) /\ (s = "dev" => ~OfGateway(m))
    OBVIOUS
  <2>1. CASE s = "gw"
    <3>1. m \in NoAsking
      BY <1>1, <1>5, <2>1 DEF CalmInv
    <3> QED
      BY <2>1, <3>1 DEF NoAsking
  <2>2. CASE s = "dev"
    <3>1. m \in NoGateway
      BY <1>1, <1>5, <2>2 DEF CalmInv
    <3> QED
      BY <2>2, <3>1 DEF NoGateway, GatewayAsks, OfGateway
  <2> QED
    BY <2>1, <2>2 DEF Sides
<1>7. MayPush(m, s)
  <2>1. m \in Events /\ m.ev \notin {"ConnectServer", "RegisterReq"}
    BY <1>5 DEF Frames, Events
  <2> QED
    BY <1>2, <1>5, <1>6, <2>1 DEF MayPush
<1>8. ChansOK /\ NoRegister
  <2>1. m.ev # "RegisterReq"
    BY <1>5 DEF Frames
  <2> QED
    BY <1>2, <1>4, <1>7, <2>1, ChansPushed
<1>9. conn = "login" => again' = 0
  BY <1>1, <1>2 DEF FreshInv, linkVars
<1> QED
  BY <1>1, <1>2, <1>3, <1>8, <1>9, PushStep DEF StatusTold, ElseTypes, linkVars

LEMMA ReadFailsOK ==
  ASSUME Inv, NEW s \in Sides, ReadFails(s) PROVE Inv'
<1>1. ElseTypes /\ PeerTypes /\ FreshInv
  BY DEF Inv, TypeInv
<1>2. UNCHANGED <<conn, reader, ThingStatus, login, breaks, withdrawn, queue, again>>
  BY DEF ReadFails, stateVars
<1>3. StatesStay
  BY <1>1 DEF ReadFails, stateVars, StatesStay, ElseTypes, PeerTypes
<1>4. ChansOK /\ NoRegister
  <2>1. SameExchanges
    BY <1>3, StatesKept
  <2> QED
    BY <1>2, <2>1, ChansLost DEF ReadFails
<1>5. conn = "login" => again' = 0
  BY <1>1, <1>2 DEF FreshInv
<1> QED
  BY <1>1, <1>2, <1>3, <1>4, <1>5, PushStep DEF StatusTold, ElseTypes

-----------------------------------------------------------------------------
(* The connection.                                                         *)

(* What a step of the connection has to keep by itself.                    *)
LEMMA LinkStep ==
  ASSUME Inv, StatesStay, again' = again, breaks' = breaks \/ Spend(breaks),
         withdrawn' = withdrawn, ThingStatus' \in {"UnLogin", "Logined"}, login' \in BOOLEAN,
         conn' \in {"up", "broken", "login"}, reader' \in BOOLEAN, conn' # "login",
         queue' \in [Sides -> Seq(Events)], wire' \in [Sides -> Seq(Frames)],
         LinkInv', MadeInv', PlaceInv', Released(queue["dev"]) => Released(queue'["dev"])
  PROVE  Inv'
<1>1. ElseTypes /\ WatchInv /\ ReleaseInv
  BY DEF Inv, TypeInv
<1>2. /\ SameExchanges /\ Exchanges' = Exchanges /\ Exchanges' \subseteq AllExchanges
      /\ AskTypes' /\ PeerTypes' /\ faults' = faults
  BY StatesKept
<1>3. breaks' \in Budget /\ \A x : OwnTrouble(x) => OwnTrouble(x)'
  BY <1>1, <1>2, TroubleStays
<1>4. ElseTypes' /\ ChanTypes'
  BY <1>1, <1>2, <1>3, EventsSame DEF ElseTypes, StatesStay, ChanTypes
<1>5. TypeInv' /\ FreshInv' /\ CalmInv'
  BY <1>2, <1>4 DEF TypeInv, FreshInv, CalmInv
<1>6. WatchInv'
  BY <1>1, <1>2, <1>3 DEF WatchInv, Watched, StatesStay
<1>7. ReleaseInv'
  BY <1>1, <1>2 DEF ReleaseInv, StatesStay
<1> QED
  BY <1>5, <1>6, <1>7 DEF Inv, Traffic

LEMMA BreakOK ==
  ASSUME Inv, Break PROVE Inv'
<1>1. TypeInv /\ ElseTypes /\ PeerTypes /\ LinkInv /\ MadeInv /\ PlaceInv
  BY DEF Inv, TypeInv, Traffic
<1>2. /\ conn = "up" /\ conn' = "broken" /\ Spend(breaks)
      /\ UNCHANGED <<reader, ThingStatus, login, withdrawn, wire, queue, again>>
  BY DEF Break, chanVars, stateVars
<1>3. StatesStay
  BY <1>1 DEF Break, stateVars, StatesStay, ElseTypes, PeerTypes
<1>4. SameExchanges
  BY <1>3, StatesKept
<1>5. LinkInv'
  BY <1>1, <1>2 DEF LinkInv, Interrupted, Spend, ElseTypes, Budget
<1>6. MadeInv'
  BY <1>1, <1>2, <1>3, <1>4, EventsSame DEF MadeInv, Silent, StatesStay
<1>7. PlaceInv'
  BY <1>1, <1>2 DEF PlaceInv
<1>8. queue' \in [Sides -> Seq(Events)] /\ wire' \in [Sides -> Seq(Frames)] /\ reader' \in BOOLEAN
  BY <1>1, <1>2 DEF TypeInv, ChanTypes, ElseTypes
<1> QED
  BY <1>1, <1>2, <1>3, <1>5, <1>6, <1>7, <1>8, LinkStep DEF ElseTypes

(* The reader of the device ends, and its last push asks for a connection. *)
LEMMA ReadBreakOK ==
  ASSUME Inv, DReadBreak PROVE Inv'
<1> DEFINE e == Event("ConnectServer", "none", 0, 0)
           q == queue["dev"]
<1>1. TypeInv /\ ElseTypes /\ PeerTypes /\ LinkInv /\ MadeInv /\ PlaceInv
  BY DEF Inv, TypeInv, Traffic
<1>2. /\ reader /\ ~reader' /\ conn = "broken" /\ reader' \in BOOLEAN
      /\ queue' = [queue EXCEPT !["dev"] = Append(q, e)]
      /\ ThingStatus' = "UnLogin"
      /\ UNCHANGED <<conn, login, breaks, withdrawn, wire, again>>
  BY DEF DReadBreak, stateVars, Push
<1>3. StatesStay
  BY <1>1 DEF DReadBreak, stateVars, StatesStay, ElseTypes, PeerTypes
<1>4. SameExchanges
  BY <1>3, StatesKept
<1>5. /\ queue \in [Sides -> Seq(Events)] /\ wire \in [Sides -> Seq(Frames)]
      /\ q \in Seq(Events) /\ e \in Events /\ e.ev = "ConnectServer"
  BY <1>1 DEF TypeInv, ChanTypes, Sides, Event, Events
<1>6. queue'["dev"] = Append(q, e) /\ queue'["gw"] = queue["gw"] /\ queue' \in [Sides -> Seq(Events)]
  BY <1>2, <1>5 DEF Sides
<1> HIDE DEF e
<1>7. LinkInv'
  BY <1>1, <1>2 DEF LinkInv, Interrupted
<1>8. MadeInv'
  <2> SUFFICES ASSUME NEW x \in Exchanges, ~asker[x].made PROVE Silent(x)'
    BY <1>2, <1>3, <1>4, EventsSame DEF MadeInv, StatesStay
  <2>1. Silent(x)
    BY <1>1, <1>2 DEF MadeInv
  <2>2. e \in NoneOf(x) /\ e \in OnlyReqs(x)
    BY <1>5 DEF NoneOf, OnlyReqs, Concerns
  <2>3. \A S : /\ queue["dev"] \in Seq(S) /\ e \in S => queue'["dev"] \in Seq(S)
               /\ queue["gw"] \in Seq(S) => queue'["gw"] \in Seq(S)
    BY <1>6
  <2> QED
    BY <1>2, <1>4, <2>1, <2>2, <2>3, EventsSame DEF Silent, Peer, Asker
<1>9. PlaceInv'
  <2>1. ~Has(q, "ConnectServer") /\ BehindBreak(q)
    BY <1>1, <1>2 DEF PlaceInv
  <2> HIDE DEF q
  <2>2. BehindBreak(Append(q, e))
    BY <1>5, <2>1, PlacesGrow
  <2> QED
    BY <1>2, <1>5, <1>6, <2>1, <2>2 DEF PlaceInv
<1>10. Released(queue["dev"]) => Released(queue'["dev"])
  BY <1>5, <1>6, ReleasedKept
<1> QED
  BY <1>1, <1>2, <1>3, <1>5, <1>6, <1>7, <1>8, <1>9, <1>10, LinkStep DEF ElseTypes

LEMMA LoginSuccessOK ==
  ASSUME Inv, DLoginSuccess PROVE Inv'
<1>1. TypeInv /\ ElseTypes /\ PeerTypes /\ LinkInv /\ MadeInv /\ PlaceInv /\ CalmInv
  BY DEF Inv, TypeInv, Traffic
<1>2. /\ queue \in [Sides -> Seq(Events)] /\ wire \in [Sides -> Seq(Frames)]
  BY <1>1 DEF TypeInv, ChanTypes
<1>3. /\ conn' \in {"up", "broken"} /\ (conn # "login" => conn' = conn)
      /\ ThingStatus' = "Logined" /\ login' = FALSE
      /\ conn = "login" => NoneIn(queue["dev"]) /\ NoneIn(wire["gw"]) /\ NoneIn(queue["gw"])
      /\ UNCHANGED <<reader, breaks, withdrawn, wire, queue, again>>
  BY <1>1 DEF DLoginSuccess, stateVars, chanVars, ElseTypes
<1>4. StatesStay
  BY <1>1 DEF DLoginSuccess, stateVars, StatesStay, ElseTypes, PeerTypes
<1>5. SameExchanges
  BY <1>4, StatesKept
<1>6. LinkInv'
  BY <1>1, <1>3 DEF LinkInv, Interrupted
<1>7. MadeInv'
  <2> SUFFICES ASSUME NEW x \in Exchanges, ~asker[x].made PROVE Silent(x)'
    BY <1>4, <1>5, EventsSame DEF MadeInv, StatesStay
  <2>1. Silent(x)
    <3>1. CASE conn # "login" \/ x \in AskedByDevice
      BY <1>1, <3>1 DEF MadeInv
    <3>2. CASE conn = "login" /\ x \in AskedByGateway
      <4>1. \A q : q \in Seq(NoAsking) /\ NoneIn(q) => q \in Seq(NoGateway)
        <5> TAKE q
        <5> HAVE q \in Seq(NoAsking) /\ NoneIn(q)
        <5>1. \A i \in 1..Len(q) : q[i] \in NoAsking
          OBVIOUS
        <5>2. \A i \in 1..Len(q) : q[i] \in NoGateway
          BY <5>1 DEF NoneIn, OldAnswer, NoAsking, NoGateway, OfGateway, GatewayAsks
        <5> QED
          BY <5>2, Without
      <4>2. NoGateway \subseteq NoneOf(x) /\ NoGateway \subseteq OnlyReqs(x)
        BY <3>2 DEF NoGateway, NoneOf, OnlyReqs, OfGateway, Concerns
      <4>3. /\ wire["gw"] \in Seq(NoGateway) /\ wire["dev"] \in Seq(NoGateway)
            /\ queue["gw"] \in Seq(NoGateway) /\ queue["dev"] \in Seq(NoGateway)
        BY <1>1, <1>3, <3>2, <4>1 DEF CalmInv
      <4> QED
        BY <4>2, <4>3 DEF Silent, Peer, Asker
    <3> QED
      BY <1>1, <3>1, <3>2 DEF TypeInv, AllExchanges
  <2> QED
    BY <1>3, <1>5, <2>1, EventsSame DEF Silent
<1>8. PlaceInv'
  BY <1>1, <1>3 DEF PlaceInv
<1> QED
  BY <1>1, <1>2, <1>3, <1>4, <1>6, <1>7, <1>8, LinkStep DEF ElseTypes

LEMMA ConnectOK ==
  ASSUME Inv, DConnect PROVE Inv'
<1> DEFINE q == queue["dev"]
           r == Tail(q)
           e == Event("RegisterReq", "none", 0, 0)
<1>1. /\ TypeInv /\ ElseTypes /\ AskTypes /\ PeerTypes /\ LinkInv /\ MadeInv /\ PlaceInv /\ ReleaseInv
      /\ Exchanges \subseteq AllExchanges
  BY DEF Inv, TypeInv, Traffic
<1>2. /\ queue \in [Sides -> Seq(Events)] /\ wire \in [Sides -> Seq(Frames)] /\ q \in Seq(Events)
  BY <1>1 DEF TypeInv, ChanTypes, Sides
<1>3. /\ q # <<>> /\ Head(q).ev = "ConnectServer" /\ conn' = "login" /\ reader'
      /\ wire' = [s \in Sides |-> <<>>] /\ queue' = [gw |-> <<>>, dev |-> Append(r, e)]
      /\ asker' = [x \in Exchanges |-> IF x \in AskedByGateway THEN [NoRequest EXCEPT !.n = asker[x].n]
                                                               ELSE asker[x]]
      /\ timer' = [x \in Exchanges |-> IF x \in AskedByGateway THEN NoTimer ELSE timer[x]]
      /\ peer'  = [x \in Exchanges |-> IF x \in AskedByDevice THEN "Stop" ELSE peer[x]]
      /\ again' = 0 /\ owed' = owed \ AskedByGateway /\ robbed' = robbed \ AskedByGateway
      /\ login' = FALSE
      /\ UNCHANGED <<ThingStatus, breaks, withdrawn, reloginTimers, now, asks, expired, faults>>
  BY DEF DConnect, Msg
<1>4. /\ r \in Seq(Events) /\ BehindBreak(r) /\ ~Has(r, "ConnectServer")
      /\ Has(q, "ConnectServer") /\ \A i \in 1..Len(r) : ~GatewayAsks(r[i])
  BY <1>1, <1>2, <1>3, PlacesShrink, TailAt DEF PlaceInv
<1>5. conn = "broken" /\ breaks.used > 0
  BY <1>1, <1>4 DEF PlaceInv, LinkInv
<1>6. Exchanges' = Exchanges /\ Events' = Events /\ Frames' = Frames
  <2>1. Exchanges' = Exchanges
    BY <1>3 DEF Exchanges
  <2> QED
    BY <2>1 DEF Events, Frames
<1>7. e \in Events /\ e.ev = "RegisterReq"
  BY DEF Event, Events
<1>8. /\ queue'["dev"] = Append(r, e) /\ queue'["gw"] = <<>>
      /\ wire'["gw"] = <<>> /\ wire'["dev"] = <<>>
  BY <1>3 DEF Sides
<1> HIDE DEF e
<1>9. ChanTypes'
  <2>1. DOMAIN queue' = Sides /\ queue' = [s \in Sides |-> queue'[s]]
    BY <1>3 DEF Sides
  <2>2. Append(r, e) \in Seq(Events) /\ <<>> \in Seq(Events) /\ <<>> \in Seq(Frames)
    BY <1>4, <1>7, AppendAt
  <2>3. \A s \in Sides : queue'[s] \in Seq(Events)
    BY <1>8, <2>2 DEF Sides
  <2>4. queue' \in [Sides -> Seq(Events)]
    BY <2>1, <2>3
  <2>5. wire' \in [Sides -> Seq(Frames)]
    BY <1>3, <2>2
  <2> QED
    BY <1>6, <2>4, <2>5 DEF ChanTypes
<1>10. AskTypes'
  <2>1. \A x \in Exchanges : /\ asker'[x] \in AskerStates
                             /\ TimerOK(timer'[x]) /\ Goroutines(timer'[x]) <= asker'[x].n
    <3> TAKE x \in Exchanges
    <3>1. asker[x] \in AskerStates /\ asker[x].n \in Nat
      BY <1>1 DEF AskTypes, AskerStates
    <3>2. CASE x \in AskedByGateway
      <4>1. asker'[x] \in AskerStates /\ asker'[x].n = asker[x].n
        BY <1>3, <3>1, <3>2 DEF NoRequest, AskerStates
      <4> QED
        BY <1>3, <3>1, <3>2, <4>1, NoTimerOK
    <3>3. CASE x \notin AskedByGateway
      BY <1>1, <1>3, <3>1, <3>3 DEF AskTypes
    <3> QED
      BY <3>2, <3>3
  <2>2. asker' \in [Exchanges -> AskerStates]
    BY <1>3, <2>1
  <2>3. timer' = [x \in Exchanges |-> timer'[x]]
    BY <1>3
  <2>4. owed' \subseteq Exchanges /\ robbed' \subseteq Exchanges
    BY <1>1, <1>3 DEF AskTypes
  <2> QED
    BY <1>6, <2>1, <2>2, <2>3, <2>4 DEF AskTypes, AskerStates
<1>11. TypeInv'
  <2>1. PeerTypes'
    BY <1>1, <1>3, <1>6 DEF PeerTypes
  <2>2. ElseTypes'
    BY <1>1, <1>3 DEF ElseTypes
  <2> QED
    BY <1>1, <1>6, <1>9, <1>10, <2>1, <2>2 DEF TypeInv
<1>12. LinkInv' /\ WatchInv'
  BY <1>3, <1>5 DEF LinkInv, Interrupted, WatchInv, OwnTrouble
<1>13. FreshInv'
  <2>1. \A x \in Exchanges \cap AskedByGateway :
          asker'[x].status = "Stop" /\ ~asker'[x].made /\ timer'[x] = NoTimer
    BY <1>3 DEF NoRequest
  <2> QED
    BY <1>3, <1>6, <2>1 DEF FreshInv
<1>14. MadeInv'
  <2> SUFFICES ASSUME NEW x \in Exchanges, ~asker'[x].made, x \in AskedByDevice PROVE Silent(x)'
    BY <1>3, <1>6 DEF MadeInv
  <2>1. asker'[x] = asker[x] /\ Peer(x) = "gw" /\ Asker(x) = "dev"
    BY <1>3 DEF Peer, Asker, AskedByGateway, AskedByDevice
  <2>2. q \in Seq(OnlyReqs(x))
    BY <1>1, <1>5, <2>1 DEF MadeInv, Silent
  <2>3. r \in Seq(OnlyReqs(x)) /\ e \in OnlyReqs(x)
    BY <1>3, <1>7, <2>2, TailAt DEF OnlyReqs
  <2>4. Append(r, e) \in Seq(OnlyReqs(x)) /\ <<>> \in Seq(NoneOf(x))
    BY <2>3, AppendAt
  <2>5. NoneOf(x)' = NoneOf(x) /\ OnlyReqs(x)' = OnlyReqs(x)
    BY <1>6 DEF NoneOf, OnlyReqs
  <2> QED
    BY <1>8, <2>1, <2>4, <2>5 DEF Silent, Peer, Asker
<1>15. CalmInv'
  <2>1. \A i \in 1..Len(r) : r[i] \in NoAsking
    <3> HIDE DEF r
    <3>1. \A i \in 1..Len(r) : r[i] \in Events
      BY <1>4
    <3> QED
      BY <1>4, <3>1 DEF NoAsking
  <2>2. r \in Seq(NoAsking)
    <3> HIDE DEF r
    <3> QED
      BY <1>4, <2>1, Without
  <2>3. e \in NoAsking
    BY <1>7 DEF NoAsking, GatewayAsks
  <2>4. Append(r, e) \in Seq(NoAsking) /\ <<>> \in Seq(NoAsking) /\ <<>> \in Seq(NoGateway)
    BY <2>2, <2>3, AppendAt
  <2>5. NoAsking' = NoAsking /\ NoGateway' = NoGateway
    BY <1>6 DEF NoAsking, NoGateway
  <2> QED
    BY <1>8, <2>4, <2>5 DEF CalmInv
<1>16. PlaceInv'
  <2> HIDE DEF r
  <2>1. /\ BehindBreak(Append(r, e))
        /\ Has(Append(r, e), "ConnectServer") => Has(r, "ConnectServer") \/ e.ev = "ConnectServer"
    BY <1>4, <1>5, <1>7, PlacesGrow
  <2> QED
    BY <1>3, <1>4, <1>7, <1>8, <2>1 DEF PlaceInv
<1>17. ReleaseInv'
  <2> SUFFICES ASSUME "relogin" \in Exchanges, peer'["relogin"] = "Req"
               PROVE  Released(Append(r, e))
    BY <1>6, <1>8 DEF ReleaseInv
  <2>1. peer["relogin"] = "Req"
    BY <1>3 DEF AskedByDevice
  <2>2. Released(r)
    BY <1>1, <1>2, <1>3, <2>1, ReleasedKept DEF ReleaseInv
  <2> HIDE DEF r
  <2> QED
    BY <1>4, <1>7, <2>2, ReleasedKept
<1> QED
  BY <1>11, <1>12, <1>13, <1>14, <1>15, <1>16, <1>17 DEF Inv, Traffic

-----------------------------------------------------------------------------
(* Every step.                                                             *)

LEMMA InvInit == Init => Inv
<1> SUFFICES ASSUME Init PROVE Inv
  OBVIOUS
<1>1. PICK i \in Instances :
        /\ asker = [x \in i.exchanges |-> NoRequest]
        /\ timer = [x \in i.exchanges |-> NoTimer]
        /\ peer  = [x \in i.exchanges |-> "Stop"]
        /\ asks = AtMost(i.ask) /\ expired = AtMost(i.expire) /\ breaks = AtMost(i.break)
        /\ withdrawn = AtMost(i.withdraw)
        /\ faults = [used |-> 0, most |-> i.fault, sides |-> i.sides]
  BY DEF Init
<1>2. /\ i.exchanges \subseteq AllExchanges /\ i.sides \subseteq Sides
      /\ i.ask \in Nat /\ i.expire \in Nat /\ i.fault \in Nat /\ i.break \in Nat
      /\ i.withdraw \in Nat
  BY ConstantsOK
<1>3. /\ conn = "up" /\ reader = TRUE /\ again = 0 /\ reloginTimers = 0 /\ now = 0
      /\ owed = {} /\ robbed = {} /\ ThingStatus = "Logined" /\ login = FALSE
      /\ wire = [s \in Sides |-> <<>>] /\ queue = [s \in Sides |-> <<>>]
  BY DEF Init
<1>4. Exchanges = i.exchanges
  BY <1>1 DEF Exchanges
<1>5. <<>> \in Seq(Events) /\ <<>> \in Seq(Frames) /\ "gw" \in Sides /\ "dev" \in Sides
  BY DEF Sides
<1>6. ChanTypes
  BY <1>3, <1>5 DEF ChanTypes
<1>7. AskTypes
  <2>1. NoRequest \in AskerStates /\ NoRequest.n = 0
    BY DEF NoRequest, AskerStates
  <2> QED
    BY <1>1, <1>3, <1>4, <2>1, NoTimerOK DEF AskTypes
<1>8. ElseTypes
  <2>1. asks \in Budget /\ expired \in Budget /\ breaks \in Budget /\ withdrawn \in Budget
    BY <1>1, <1>2 DEF AtMost, Budget
  <2>2. faults \in [used : Nat, most : Nat, sides : SUBSET Sides]
    BY <1>1, <1>2
  <2> QED
    BY <1>3, <2>1, <2>2 DEF ElseTypes
<1>9. TypeInv /\ LinkInv
  <2>1. ~Has(queue["dev"], "RegisterReq")
    BY <1>3, <1>5 DEF Has
  <2> QED
    BY <1>1, <1>2, <1>3, <1>4, <1>6, <1>7, <1>8, <2>1 DEF TypeInv, PeerTypes, LinkInv
<1>10. WatchInv /\ FreshInv /\ ReleaseInv
  BY <1>1, <1>3, <1>4 DEF WatchInv, FreshInv, ReleaseInv, NoRequest
<1>11. Traffic
  <2>1. MadeInv
    <3> SUFFICES ASSUME NEW x \in Exchanges PROVE Silent(x)
      BY DEF MadeInv
    <3>1. <<>> \in Seq(NoneOf(x)) /\ <<>> \in Seq(OnlyReqs(x))
      OBVIOUS
    <3> QED
      BY <1>3, <3>1 DEF Silent, Peer, Asker, Sides
  <2>2. CalmInv
    BY <1>3 DEF CalmInv
  <2>3. Len(queue["dev"]) = 0
    BY <1>3, <1>5
  <2>4. PlaceInv
    BY <2>3 DEF PlaceInv, BehindBreak, Has
  <2> QED
    BY <2>1, <2>2, <2>4 DEF Traffic
<1> QED
  BY <1>9, <1>10, <1>11 DEF Inv

(* The gateway's handlers.                                                 *)
LEMMA GatewayEventOK ==
  ASSUME Inv, GatewayEvent PROVE Inv'
<1>1. PeerTypes /\ ElseTypes
  BY DEF Inv, TypeInv
<1>2. CASE Refused("gw")
  BY <1>2, RefusedOK DEF Sides
<1>3. CASE GReLoginReq \/ GReadConfigReq \/ GSetConfigReq
  BY <1>3, RequestedOK DEF GReLoginReq, GReadConfigReq, GSetConfigReq
<1>4. CASE GReLoginReqFails
  BY <1>4, ReLoginFailsOK
<1>5. CASE GReadConfigReqFails \/ GSetConfigReqFails
  BY <1>5, RequestFailsOK DEF GReadConfigReqFails, GSetConfigReqFails
<1>6. CASE GReLoginAck \/ GReadConfigAck \/ GSetConfigAck
  BY <1>6, AcknowledgedOK DEF GReLoginAck, GReadConfigAck, GSetConfigAck
<1>7. CASE GReLoginAckOutOfDate
  <2>1. /\ queue["gw"] # <<>> /\ Done("gw") /\ AskersIdle
        /\ UNCHANGED <<wire, conn, reader, reloginTimers, peer>>
    BY <1>7 DEF GReLoginAckOutOfDate, On, HandlerRest, RequestRest, StatesRest, NoFault, linkVars,
               AskersIdle, StatusKept
  <2> QED
    BY <1>1, <2>1, DroppedOK DEF Sides, PeerTypes
<1>8. CASE GHeartbeatReq \/ GThingInfoUploadReq
  BY <1>1, <1>8, TakenOK DEF GHeartbeatReq, GThingInfoUploadReq, TimerOfReLoginRest, PeerTypes
<1>9. CASE GHeartbeatAck \/ GThingInfoUploadAck
  BY <1>1, <1>9, RepliedOK DEF GHeartbeatAck, GThingInfoUploadAck, ElseTypes
<1>10. CASE GHeartbeatAckFails \/ GThingInfoUploadAckFails
  BY <1>10, ReplyFailsOK DEF GHeartbeatAckFails, GThingInfoUploadAckFails
<1>11. CASE GThingInfoUploadReqFails
  <2>1. /\ queue["gw"] # <<>> /\ Done("gw") /\ AskersIdle
        /\ UNCHANGED <<wire, conn, reader, reloginTimers>>
        /\ peer' = [peer EXCEPT !["infoupload"] = "Req"]
    BY <1>11 DEF GThingInfoUploadReqFails, CanTake, On, Fault, PeerRest, HandlerRest, RequestRest,
                linkVars, AskersIdle, StatusKept, TimerOfReLoginRest, Peer, AskedByGateway
  <2>2. peer' \in [Exchanges -> {"Stop", "Req"}]
    BY <1>1, <2>1 DEF PeerTypes
  <2>3. "relogin" \in Exchanges /\ peer'["relogin"] = "Req" => peer["relogin"] = "Req"
    BY <1>1, <2>1 DEF PeerTypes
  <2> QED
    BY <2>1, <2>2, <2>3, DroppedOK DEF Sides
<1> QED
  BY <1>2, <1>3, <1>4, <1>5, <1>6, <1>7, <1>8, <1>9, <1>10, <1>11 DEF GatewayEvent

(* The device's handlers.                                                  *)
LEMMA DeviceEventOK ==
  ASSUME Inv, DeviceEvent PROVE Inv'
<1>1. TypeInv /\ PeerTypes /\ ElseTypes
  BY DEF Inv, TypeInv
<1>2. CASE Refused("dev")
  BY <1>2, RefusedOK DEF Sides
<1>3. CASE DConnect
  BY <1>3, ConnectOK
<1>4. CASE DLoginSuccess
  BY <1>4, LoginSuccessOK
<1>5. CASE DRegisterReq \/ DLoginRequest \/ DReLoginReqFails \/ DReadConfigReqUnLogin
  <2>1. /\ queue["dev"] # <<>> /\ Done("dev") /\ AskersIdle /\ Head(queue["dev"]).ev # "Ack"
        /\ UNCHANGED <<wire, conn, reader, reloginTimers, peer>>
    <3>1. CASE DLoginRequest
      BY <3>1 DEF DLoginRequest, Msg, StatusRest, stateVars, AskersIdle, StatusKept
    <3>2. CASE DReLoginReqFails
      BY <3>2 DEF DReLoginReqFails, CanTake, On, Fault, PeerRest, HandlerRest, RequestRest,
         linkVars,
                 AskersIdle, StatusKept, TimerOfReLoginRest, Peer, AskedByGateway
    <3>3. CASE DReadConfigReqUnLogin
      BY <3>3 DEF DReadConfigReqUnLogin, CanTake, On, HandlerRest, RequestRest, StatesRest, NoFault,
                 linkVars, AskersIdle, StatusKept, Peer, AskedByGateway
    <3>4. CASE DRegisterReq
      <4>1. Has(queue["dev"], "RegisterReq")
        <5>1. queue["dev"] \in Seq(Events)
          BY <1>1 DEF TypeInv, ChanTypes, Sides
        <5> QED
          BY <3>4, <5>1, PlacesShrink DEF DRegisterReq, Msg
      <4>2. Interrupted
        BY <4>1 DEF Inv, LinkInv
      <4> QED
        BY <3>4, <4>2 DEF DRegisterReq, Msg, StatusRest, stateVars, AskersIdle, StatusKept
    <3> QED
      BY <1>5, <3>1, <3>2, <3>3, <3>4
  <2> QED
    BY <1>1, <2>1, DroppedOK DEF Sides, PeerTypes
<1>6. CASE DReLoginReq
  BY <1>1, <1>6, TakenOK DEF DReLoginReq, PeerTypes
<1>7. CASE DReLoginAck
  <2>1. Msg("dev").ect \in Nat
    <3>1. queue["dev"] # <<>>
      BY <1>7 DEF DReLoginAck, Replied, CanReply, On, Peer, AskedByGateway
    <3>2. Msg("dev") \in Events
      BY <1>1, <3>1, HeadOf DEF Sides
    <3> QED
      BY <3>2 DEF Events
  <2> QED
    BY <1>7, <2>1, RepliedOK DEF DReLoginAck
<1>8. CASE DReLoginAckFails \/ DReadConfigAckFails
  BY <1>8, ReplyFailsOK DEF DReLoginAckFails, DReadConfigAckFails
<1>9. CASE DReadConfigReq \/ DSetConfigReq
  BY <1>1, <1>9, TakenOK DEF DReadConfigReq, DSetConfigReq, TimerOfReLoginRest, PeerTypes
<1>10. CASE DReadConfigAck \/ DSetConfigAck
  BY <1>1, <1>10, RepliedOK DEF DReadConfigAck, DSetConfigAck, ElseTypes
<1>11. CASE DSetConfigAckFails
  <2>1. CASE ReplyFails("setconfig", "Req")
    BY <2>1, ReplyFailsOK
  <2>2. CASE ~ReplyFails("setconfig", "Req")
    <3>1. /\ queue["dev"] # <<>> /\ Done("dev") /\ AskersIdle /\ Head(queue["dev"]).x = "setconfig"
          /\ UNCHANGED <<wire, conn, reader, reloginTimers>>
          /\ peer' = [peer EXCEPT !["setconfig"] = "Stop"]
      BY <1>11, <2>2 DEF DSetConfigAckFails, CanReply, On, Fault, PeerRest, HandlerRest,
         RequestRest,
                  linkVars, AskersIdle, StatusKept, TimerOfReLoginRest, Peer, AskedByGateway
    <3>2. peer' \in [Exchanges -> {"Stop", "Req"}]
      BY <1>1, <3>1 DEF PeerTypes
    <3>3. "relogin" \in Exchanges /\ peer'["relogin"] = "Req" => peer["relogin"] = "Req"
      BY <1>1, <3>1 DEF PeerTypes
    <3> QED
      BY <3>1, <3>2, <3>3, DroppedOK DEF Sides
  <2> QED
    BY <2>1, <2>2
<1>12. CASE DHeartbeatReq \/ DThingInfoUploadReq
  BY <1>12, RequestedOK DEF DHeartbeatReq, DThingInfoUploadReq
<1>13. CASE DHeartbeatReqFails \/ DThingInfoUploadReqFails
  BY <1>13, RequestFailsOK DEF DHeartbeatReqFails, DThingInfoUploadReqFails
<1>14. CASE DHeartbeatReqUnLogin
  BY <1>14, UnLoginOK
<1>15. CASE DHeartbeatAck \/ DThingInfoUploadAck
  BY <1>15, AcknowledgedOK DEF DHeartbeatAck, DThingInfoUploadAck
<1> QED
  BY <1>2, <1>3, <1>4, <1>5, <1>6, <1>7, <1>8, <1>9, <1>10, <1>11, <1>12, <1>13, <1>14, <1>15
  DEF DeviceEvent

LEMMA InvStep == Inv /\ [Next]_vars => Inv'
<1> SUFFICES ASSUME Inv, [Next]_vars PROVE Inv'
  OBVIOUS
<1>1. CASE \E x \in Exchanges : Ask(x)
  BY <1>1, AskOK
<1>2. CASE \E x \in Exchanges : Timer(x)
  BY <1>2, TimerKeeps
<1>3. CASE GatewayEvent
  BY <1>3, GatewayEventOK
<1>4. CASE DeviceEvent
  BY <1>4, DeviceEventOK
<1>5. CASE GReLoginAgain
  BY <1>5, AgainOK
<1>6. CASE DReLoginTimer
  BY <1>6, ReLoginTimerOK
<1>7. CASE \E s \in Sides : Read(s)
  BY <1>7, ReadOK
<1>8. CASE DReadBreak
  BY <1>8, ReadBreakOK
<1>9. CASE Break
  BY <1>9, BreakOK
<1>10. CASE DRegisterAgain \/ DCheckAesKeyValidity
  BY <1>10, RegisterAgainOK, CheckAesKeyOK
<1>11. CASE \E s \in Sides : ReadFails(s)
  BY <1>11, ReadFailsOK
<1>12. CASE UNCHANGED vars
  <2>1. ElseTypes /\ PeerTypes /\ FreshInv
    BY DEF Inv, TypeInv
  <2>2. StatesStay /\ UNCHANGED <<queue, wire, linkVars, again>>
    BY <1>12, <2>1 DEF vars, linkVars, chanVars, stateVars, StatesStay, ElseTypes, PeerTypes
  <2>3. ChansOK /\ NoRegister
    BY <2>2, StatesKept, ChansStay DEF linkVars
  <2> QED
    BY <2>1, <2>2, <2>3, PushStep DEF FreshInv, StatusTold, ElseTypes, linkVars
<1> QED
  BY <1>1, <1>2, <1>3, <1>4, <1>5, <1>6, <1>7, <1>8, <1>9, <1>12, <1>10, <1>11 DEF Next

-----------------------------------------------------------------------------
(* What it is for.                                                         *)

(* The types: the counters of a timer are bounded by the requests that     *)
(* were made (thing/heartbeat.go, gateway/relogin.go: one goroutine each). *)
THEOREM TypeCorrect == Spec => []TypeOK
<1>1. Inv => TypeOK
  <2> SUFFICES ASSUME Inv PROVE TypeOK
    OBVIOUS
  <2>1. TypeInv /\ ChanTypes /\ AskTypes /\ PeerTypes /\ ElseTypes
    BY DEF Inv, TypeInv
  <2>2. wire \in [Sides -> Seq(Events)]
    <3>1. \A s \in Sides : wire[s] \in Seq(Events)
      BY <2>1, FrameIsEvent DEF ChanTypes
    <3> QED
      BY <2>1, <3>1 DEF ChanTypes
  <2>3. asker \in [Exchanges -> [status : {"Stop", "Req", "panic"}, made : BOOLEAN,
                                 ect : Nat, n : Nat]]
    <3>1. AskerStates \subseteq [status : {"Stop", "Req", "panic"}, made : BOOLEAN,
                                 ect : Nat, n : Nat]
      BY DEF AskerStates
    <3> QED
      BY <2>1, <3>1 DEF AskTypes
  <2>4. \A x \in Exchanges : timer[x] \in Timers(0..asker[x].n)
    <3> TAKE x \in Exchanges
    <3>1. TimerOK(timer[x]) /\ Goroutines(timer[x]) <= asker[x].n /\ asker[x].n \in Nat
      BY <2>1 DEF AskTypes, AskerStates
    <3> QED
      BY <3>1, CountersOK
  <2> QED
    BY <2>1, <2>2, <2>3, <2>4 DEF TypeOK, ChanTypes, AskTypes, PeerTypes, ElseTypes
<1> QED
  BY <1>1, InvInit, InvStep, PTL DEF Spec

(* No acknowledgement reaches a handler whose timer is nil: none is under  *)
(* way before the first request has been sent, which makes the timer, and  *)
(* what the gateway's former Thing had asked for does not reach the next.  *)
THEOREM NoNilTimer == Spec => []NoPanic
<1>1. Inv => NoPanic
  BY DEF Inv, TypeInv, AskTypes, AskerStates, NoPanic, Alive
<1> QED
  BY <1>1, InvInit, InvStep, PTL DEF Spec

(* A device whose relogin status is set has the event in its channel that  *)
(* resets it, and the gateway can always make it log in again.             *)
THEOREM ReLoginIsReleased == Spec => []ReLoginReleased
<1>1. Inv => ReLoginReleased
  BY DEF Inv, ReleaseInv, Released, ReLoginReleased
<1> QED
  BY <1>1, InvInit, InvStep, PTL DEF Spec

(* An asker that waits is watched, whatever the other side does: its timer *)
(* runs or has run out and is being handled, unless the goroutine has left *)
(* with the token of an earlier answer or the asker had trouble of its own; *)
(* for the heartbeat (thing/heartbeat.go) that is a login taken back, too. *)
THEOREM RequestsAreWatched == Spec => []WaitsForSomething
<1>1. Inv => WaitsForSomething
  <2> SUFFICES ASSUME Inv, NEW x \in Exchanges, asker[x].status = "Req"
               PROVE  TimerWatches(x) \/ x \in robbed \/ OwnTrouble(x)
    BY DEF WaitsForSomething
  <2>1. Watched(x) \/ OwnTrouble(x)
    BY DEF Inv, WatchInv
  <2>2. timer[x].fired \in Nat /\ timer[x].late \in Nat
    BY AskerTyped DEF TimerOK, Counted
  <2> QED
    BY <2>1, <2>2 DEF Watched, TimerWatches
<1> QED
  BY <1>1, InvInit, InvStep, PTL DEF Spec

(* The handler of an acknowledgement that finds a token in the close       *)
(* channel finds a goroutine too that will take it: the scheduler of the   *)
(* Thing is not blocked for good by its own channel.                       *)
THEOREM CloseFindsTaker == Spec => []CloseTakesToken
<1>1. Inv => CloseTakesToken
  <2> SUFFICES ASSUME Inv, NEW x \in Exchanges, asker[x].status = "Req", ~CanClose(timer[x])
               PROVE  timer[x].run + timer[x].idle > 0 \/ OwnTrouble(x)
    BY DEF CloseTakesToken
  <2> QED
    BY DEF Inv, WatchInv, Watched, CanClose
<1> QED
  BY <1>1, InvInit, InvStep, PTL DEF Spec

-----------------------------------------------------------------------------
(* Creation times. The request of a relogin from outside begins a chain:   *)
(* a request, its timer, a repetition. While there is no second chain, two *)
(* requests of the gateway have different creation times, because          *)
(* between them a timer has run out.                                       *)

Asked(e)    == e.x = "relogin" /\ e.ev = "Req"
HasReq(q)   == \E i \in 1..Len(q) : Asked(q[i])
OneReq(q)   == \A i, j \in 1..Len(q) : Asked(q[i]) /\ Asked(q[j]) => i = j
Waiting     == again + Armed(timer["relogin"])
Pending     == again > 0 \/ timer["relogin"].fired > 0 \/ HasReq(queue["gw"])
ChainInv ==
  /\ OneReq(queue["gw"])
  /\ HasReq(queue["gw"]) => Waiting = 0 /\ asks.used = 1
  /\ Waiting <= asks.used
  /\ asks.used = 0 => asker["relogin"].n = 0

(* What is under way belongs to the request that waits or is older, and is *)
(* older than the request that comes next.                                 *)
Dated(e) ==
  /\ asker["relogin"].n > 0 /\ e.ect <= now
  /\ asker["relogin"].status = "Req" => e.n = asker["relogin"].n \/ e.ect < asker["relogin"].ect
  /\ Pending => e.ect < now
FitFrames == {e \in Events : Concerns(e, "relogin") => Dated(e)}
FitAcks   == {e \in Events : e.x = "relogin" /\ e.ev = "Ack" => Dated(e)}
Answers   == {e \in Events : ~Asked(e)}
DatesInv ==
  /\ wire["gw"] \in Seq(FitFrames) /\ wire["gw"] \in Seq(Answers)
  /\ wire["dev"] \in Seq(FitFrames)
  /\ queue["dev"] \in Seq(FitFrames) /\ queue["gw"] \in Seq(FitAcks)

Chained  == "relogin" \in Exchanges /\ asks.used < 2 /\ ChainInv /\ DatesInv
DatedInv == "relogin" \in Exchanges /\ asks.used < 2 => ChainInv /\ DatesInv

(* Requests in a queue that grows, and in one that shrinks.                *)
LEMMA ReqsGrow ==
  ASSUME NEW S, NEW q \in Seq(S), NEW e \in S
  PROVE  /\ OneReq(q) /\ (Asked(e) => ~HasReq(q)) => OneReq(Append(q, e))
         /\ HasReq(Append(q, e)) => HasReq(q) \/ Asked(e)
         /\ Asked(e) => HasReq(Append(q, e))
<1> DEFINE r == Append(q, e)
<1>1. /\ Len(q) \in Nat /\ Len(r) = Len(q) + 1 /\ \A i \in 1..Len(q) : r[i] = q[i]
      /\ r[Len(q) + 1] = e /\ \A i \in 1..Len(r) : i \in 1..Len(q) \/ i = Len(q) + 1
  BY AppendAt
<1> HIDE DEF r
<1>2. Len(q) + 1 \in 1..Len(r)
  BY <1>1
<1>3. ASSUME OneReq(q), Asked(e) => ~HasReq(q) PROVE OneReq(r)
  <2> SUFFICES ASSUME NEW i \in 1..Len(r), NEW j \in 1..Len(r), Asked(r[i]), Asked(r[j])
               PROVE  i = j
    BY DEF OneReq
  <2>1. CASE Asked(e)
    BY <1>1, <1>3, <2>1 DEF HasReq
  <2>2. CASE ~Asked(e)
    BY <1>1, <1>3, <2>2 DEF OneReq
  <2> QED
    BY <2>1, <2>2
<1>4. HasReq(r) => HasReq(q) \/ Asked(e)
  BY <1>1 DEF HasReq
<1>5. Asked(e) => HasReq(r)
  BY <1>1, <1>2 DEF HasReq
<1> QED
  BY <1>3, <1>4, <1>5 DEF r

LEMMA ReqsShrink ==
  ASSUME NEW S, NEW q \in Seq(S), q # <<>>
  PROVE  /\ OneReq(q) => OneReq(Tail(q)) /\ (Asked(Head(q)) => ~HasReq(Tail(q)))
         /\ HasReq(Tail(q)) => HasReq(q)
         /\ Asked(Head(q)) => HasReq(q)
<1> DEFINE r == Tail(q)
<1>1. /\ Len(r) = Len(q) - 1 /\ Len(q) \in Nat \ {0} /\ Head(q) = q[1]
      /\ \A i \in 1..Len(r) : i + 1 \in 1..Len(q) /\ r[i] = q[i + 1]
  BY TailAt
<1> HIDE DEF r
<1>2. 1 \in 1..Len(q) /\ \A i, j \in 1..Len(r) : 1 # i + 1 /\ (i + 1 = j + 1 => i = j)
  BY <1>1
<1>3. ASSUME OneReq(q) PROVE OneReq(r) /\ (Asked(Head(q)) => ~HasReq(r))
  <2>1. OneReq(r)
    BY <1>1, <1>2, <1>3 DEF OneReq
  <2>2. Asked(Head(q)) => ~HasReq(r)
    BY <1>1, <1>2, <1>3 DEF OneReq, HasReq
  <2> QED
    BY <2>1, <2>2
<1>4. (HasReq(r) => HasReq(q)) /\ (Asked(Head(q)) => HasReq(q))
  BY <1>1, <1>2 DEF HasReq
<1> QED
  BY <1>3, <1>4 DEF r

(* No request of a relogin is added to the gateway's channel.              *)
NoNewReq == /\ OneReq(queue["gw"]) => OneReq(queue'["gw"])
            /\ HasReq(queue'["gw"]) => HasReq(queue["gw"])

LEMMA HandledNoReq ==
  ASSUME TypeInv, NEW s \in Sides, NEW b \in {"yes", "no"}, NEW e,
         b = "yes" => e \in Events /\ ~Asked(e),
         NEW o \in Sides, NEW c \in {"yes", "no"}, NEW m, Handled(s, b, e, o, c, m)
  PROVE  NoNewReq
<1>1. /\ queue["gw"] \in Seq(Events) /\ queue[s] # <<>>
      /\ s = "gw" => queue'["gw"] = Longer(Tail(queue["gw"]), b, e)
      /\ s = "dev" => queue'["gw"] = queue["gw"]
  BY DEF TypeInv, ChanTypes, Handled, Sides
<1>2. CASE s = "dev"
  BY <1>1, <1>2 DEF NoNewReq
<1>3. CASE s = "gw"
  <2> DEFINE r == Tail(queue["gw"])
  <2>1. /\ r \in Seq(Events) /\ (OneReq(queue["gw"]) => OneReq(r))
        /\ HasReq(r) => HasReq(queue["gw"])
    BY <1>1, <1>3, TailAt, ReqsShrink
  <2> HIDE DEF r
  <2>2. CASE b = "no"
    BY <1>1, <1>3, <2>1, <2>2 DEF NoNewReq, Longer, r
  <2>3. CASE b = "yes"
    <3>1. queue'["gw"] = Append(r, e)
      BY <1>1, <1>3, <2>3 DEF Longer, r
    <3> QED
      BY <2>1, <2>3, <3>1, ReqsGrow DEF NoNewReq
  <2> QED
    BY <2>2, <2>3
<1> QED
  BY <1>2, <1>3 DEF Sides

LEMMA PushedNoReq ==
  ASSUME TypeInv, NEW s \in Sides, NEW e \in Events, s = "gw" => ~Asked(e), Pushed(s, e)
  PROVE  NoNewReq
<1>1. /\ queue["gw"] \in Seq(Events)
      /\ s = "gw" => queue'["gw"] = Append(queue["gw"], e)
      /\ s = "dev" => queue'["gw"] = queue["gw"]
  BY DEF TypeInv, ChanTypes, Pushed, Sides
<1>2. CASE s = "dev"
  BY <1>1, <1>2 DEF NoNewReq
<1>3. CASE s = "gw"
  BY <1>1, <1>3, ReqsGrow DEF NoNewReq
<1> QED
  BY <1>2, <1>3 DEF Sides

(* What is under way keeps its dates.                                      *)
DatesStay == \A d \in Events : Dated(d) => Dated(d)'
Fits(s, b, e, o, c, m) ==
  /\ b = "yes" => e \in FitAcks /\ (s = "dev" => e \in FitFrames)
  /\ c = "yes" => m \in FitFrames /\ (o = "gw" => ~Asked(m))
FitsThen(s, b, e, o, c, m) ==
  /\ b = "yes" => e \in FitAcks' /\ (s = "dev" => e \in FitFrames')
  /\ c = "yes" => m \in FitFrames' /\ (o = "gw" => ~Asked(m))

LEMMA DatesMove ==
  ASSUME DatesInv, DOMAIN asker' = DOMAIN asker, DatesStay,
         NEW s \in Sides, NEW b \in {"yes", "no"}, NEW e, NEW o \in Sides, NEW c \in {"yes", "no"},
         NEW m, Stays(s, b, e, o, c, m), FitsThen(s, b, e, o, c, m)
  PROVE  DatesInv'
<1>1. Events' = Events
  BY DEF Events, Exchanges
<1>2. FitFrames \subseteq FitFrames' /\ FitAcks \subseteq FitAcks' /\ Answers' = Answers
  BY <1>1 DEF DatesStay, FitFrames, FitAcks, Answers
<1>3. FitFrames' \subseteq Events
  BY <1>1 DEF FitFrames
<1> DEFINE F == FitFrames'
           A == FitAcks'
<1>4. /\ wire["gw"] \in Seq(F) /\ wire["gw"] \in Seq(Answers) /\ wire["dev"] \in Seq(F)
      /\ queue["dev"] \in Seq(F) /\ queue["gw"] \in Seq(A)
  BY <1>2 DEF DatesInv
<1>5. /\ b = "yes" => e \in A /\ (s = "dev" => e \in F)
      /\ c = "yes" => m \in F /\ (o = "gw" => m \in Answers)
  BY <1>3 DEF FitsThen, Answers
<1> HIDE DEF F, A
<1>6. wire'["gw"] \in Seq(F) /\ wire'["dev"] \in Seq(F)
  BY <1>4, <1>5 DEF Stays, Sides
<1>7. wire'["gw"] \in Seq(Answers)
  BY <1>4, <1>5 DEF Stays, Sides
<1>8. queue'["dev"] \in Seq(F)
  BY <1>4, <1>5 DEF Stays, Sides
<1>9. queue'["gw"] \in Seq(A)
  BY <1>4, <1>5 DEF Stays, Sides
<1> QED
  BY <1>2, <1>6, <1>7, <1>8, <1>9 DEF DatesInv, F, A

(* Steps that the relogin of the gateway has no part in, but that time may *)
(* pass.                                                                   *)
Unmoved ==
  /\ DOMAIN asker' = DOMAIN asker /\ asks' = asks /\ again' = again
  /\ "relogin" \in Exchanges => /\ asker'["relogin"] = asker["relogin"]
                                /\ timer'["relogin"] = timer["relogin"]
  /\ now' = now \/ now' = now + 1

LEMMA DatesLater ==
  ASSUME ElseTypes, "relogin" \in Exchanges, DOMAIN asker' = DOMAIN asker,
         asker'["relogin"].n = asker["relogin"].n,
         \/ asker'["relogin"] = asker["relogin"]
         \/ asker'["relogin"].status = "Stop",
         now' = now \/ now' = now + 1,
         Pending' => Pending \/ now' = now + 1
  PROVE  DatesStay
<1> SUFFICES ASSUME NEW d \in Events, Dated(d) PROVE Dated(d)'
  BY DEF DatesStay
<1>1. d.ect \in Nat /\ now \in Nat /\ d.ect <= now
  BY DEF Events, ElseTypes, Dated
<1>2. d.ect <= now' /\ (now' = now + 1 => d.ect < now') /\ (d.ect < now => d.ect < now')
  BY <1>1
<1> QED
  BY <1>2 DEF Dated

LEMMA UnmovedKeeps ==
  ASSUME Inv, DatedInv, Unmoved, NEW s \in Sides, NEW b \in {"yes", "no"}, NEW e, NEW o \in Sides,
         NEW c \in {"yes", "no"}, NEW m, Stays(s, b, e, o, c, m), NoNewReq,
         Chained => Fits(s, b, e, o, c, m)
  PROVE  DatedInv'
<1>1. Exchanges' = Exchanges /\ Events' = Events
  BY DEF Unmoved, Exchanges, Events
<1> SUFFICES ASSUME "relogin" \in Exchanges, asks.used < 2 PROVE ChainInv' /\ DatesInv'
  BY <1>1 DEF DatedInv, Unmoved
<1>2. ElseTypes /\ ChainInv /\ DatesInv /\ Chained
  BY DEF Inv, TypeInv, DatedInv, Chained
<1>3. Pending' => Pending
  BY DEF Pending, Unmoved, NoNewReq
<1>4. DatesStay
  BY <1>2, <1>3, DatesLater DEF Unmoved
<1>5. FitsThen(s, b, e, o, c, m)
  BY <1>1, <1>2, <1>4 DEF Fits, FitsThen, FitFrames, FitAcks, DatesStay
<1>6. DatesInv'
  BY <1>2, <1>4, <1>5, DatesMove DEF Unmoved
<1>7. ChainInv'
  BY <1>2 DEF ChainInv, Unmoved, NoNewReq, Waiting
<1> QED
  BY <1>6, <1>7

(* What a queue holds, its first event does.                               *)
LEMMA HeadDated ==
  ASSUME Inv, Chained, NEW s \in Sides, queue[s] # <<>>
  PROVE  Msg(s) \in FitAcks /\ (s = "dev" => Msg(s) \in FitFrames)
<1>1. /\ s = "gw" => queue[s] \in Seq(FitAcks)
      /\ s = "dev" => queue[s] \in Seq(FitFrames)
  BY DEF Chained, DatesInv
<1>2. FitFrames \subseteq FitAcks
  BY DEF FitFrames, FitAcks, Concerns
<1>3. \A T : queue[s] \in Seq(T) => Msg(s) \in T
  BY HeadOf DEF Inv, TypeInv
<1> QED
  BY <1>1, <1>2, <1>3 DEF Sides

(* Handlers that send nothing and push nothing.                            *)
LEMMA DropDated ==
  ASSUME Inv, DatedInv, Unmoved, NEW s \in Sides, queue[s] # <<>>, Done(s), wire' = wire,
         conn' = conn, reader' = reader
  PROVE  DatedInv'
<1>1. TypeInv
  BY DEF Inv
<1>2. Handled(s, "no", 0, s, "no", 0)
  BY <1>1, HeadOf DEF Handled, Longer, Done
<1>3. Stays(s, "no", 0, s, "no", 0) /\ NoNewReq
  BY <1>1, <1>2, HandledIn, HandledNoReq
<1>4. Fits(s, "no", 0, s, "no", 0)
  BY DEF Fits
<1> QED
  BY <1>3, <1>4, UnmovedKeeps

(* Handlers that leave the askers alone do so with the gateway's relogin.  *)
LEMMA IdleUnmoved == ASSUME AskersIdle PROVE Unmoved
  BY DEF AskersIdle, Unmoved

LEMMA RefusedDated ==
  ASSUME Inv, DatedInv, NEW s \in Sides, Refused(s) PROVE DatedInv'
<1>1. /\ queue[s] # <<>> /\ Done(s) /\ wire' = wire /\ conn' = conn /\ reader' = reader
      /\ AskersIdle
  BY DEF Refused, On, HandlerRest, RequestRest, StatesRest, NoFault, linkVars, AskersIdle, StatusKept
<1> QED
  BY <1>1, IdleUnmoved, DropDated

LEMMA TakenDated ==
  ASSUME Inv, DatedInv, NEW x, Taken(x) PROVE DatedInv'
<1> DEFINE s == Peer(x)
           e == [Msg(s) EXCEPT !.ev = "Ack"]
<1>1. x \in Exchanges /\ queue[s] # <<>> /\ Msg(s).ev = "Req" /\ Msg(s).x = x
  BY DEF Taken, CanTake, On, Msg
<1>2. TypeInv /\ x \in AllExchanges /\ s \in Sides
  BY <1>1, TwoSides DEF Inv, TypeInv
<1>3. Msg(s) \in Events
  BY <1>1, <1>2, HeadOf
<1>4. e \in Events /\ e.ev = "Ack" /\ e.x = x /\ e.n = Msg(s).n /\ e.ect = Msg(s).ect
  BY <1>1, <1>3 DEF Events
<1>5. /\ AskersIdle /\ wire' = wire /\ conn' = conn /\ reader' = reader
      /\ queue' = [queue EXCEPT ![s] = Longer(Tail(queue[s]), "yes", e)]
  BY DEF Taken, DoneThen, PeerRest, HandlerRest, RequestRest, NoFault, linkVars, AskersIdle, StatusKept, Longer
<1>6. Chained => Fits(s, "yes", e, s, "no", e)
  <2> SUFFICES ASSUME Chained PROVE e \in FitAcks /\ (s = "dev" => e \in FitFrames)
    BY DEF Fits
  <2>1. CASE x = "relogin"
    <3>1. s = "dev"
      BY <2>1 DEF Peer, AskedByGateway
    <3>2. Msg(s) \in FitFrames
      BY <1>1, <1>2, <3>1, HeadDated
    <3>3. Dated(Msg(s))
      BY <1>1, <2>1, <3>2 DEF FitFrames, Concerns
    <3>4. Dated(e)
      BY <1>4, <3>3 DEF Dated
    <3> QED
      BY <1>4, <3>4 DEF FitFrames, FitAcks
  <2>2. CASE x # "relogin"
    BY <1>4, <2>2 DEF FitFrames, FitAcks, Concerns
  <2> QED
    BY <2>1, <2>2
<1> HIDE DEF e
<1>7. Handled(s, "yes", e, s, "no", e)
  BY <1>1, <1>2, <1>5, HeadOf DEF Handled, Longer
<1>8. Stays(s, "yes", e, s, "no", e) /\ NoNewReq
  BY <1>2, <1>4, <1>7, HandledIn, HandledNoReq DEF Asked
<1> QED
  BY <1>2, <1>5, <1>6, <1>8, IdleUnmoved, UnmovedKeeps

LEMMA RepliedDated ==
  ASSUME Inv, DatedInv, NEW x, NEW ect \in Nat, Replied(x, ect),
         x = "relogin" => ect = Msg(Peer(x)).ect
  PROVE  DatedInv'
<1> DEFINE s == Peer(x)
           m == [Msg(s) EXCEPT !.ect = ect]
<1>1. x \in Exchanges /\ queue[s] # <<>> /\ Msg(s).ev = "Ack" /\ Msg(s).x = x
  BY DEF Replied, CanReply, On, Msg
<1>2. TypeInv /\ x \in AllExchanges /\ s \in Sides /\ Asker(x) \in Sides
  BY <1>1, TwoSides DEF Inv, TypeInv
<1>3. Msg(s) \in Events
  BY <1>1, <1>2, HeadOf
<1>4. m \in Events /\ m.ev = "Ack" /\ m.x = x /\ m.n = Msg(s).n /\ m.ect = ect
  BY <1>1, <1>3 DEF Events
<1>5. /\ AskersIdle /\ conn' = conn /\ reader' = reader
      /\ queue' = [queue EXCEPT ![s] = Longer(Tail(queue[s]), "no", m)]
      /\ wire' = wire \/ wire' = [wire EXCEPT ![Asker(x)] = Append(wire[Asker(x)], m)]
  BY DEF Replied, Done, Send, PeerRest, HandlerRest, RequestRest, NoFault, linkVars, AskersIdle, StatusKept,
         Longer
<1>6. Chained => m \in FitFrames
  <2> SUFFICES ASSUME Chained PROVE m \in FitFrames
    OBVIOUS
  <2>1. CASE x = "relogin"
    <3>1. s = "dev"
      BY <2>1 DEF Peer, AskedByGateway
    <3>2. Msg(s) \in FitFrames
      BY <1>1, <1>2, <3>1, HeadDated
    <3>3. Dated(Msg(s))
      BY <1>1, <2>1, <3>2 DEF FitFrames, Concerns
    <3>4. Dated(m)
      BY <1>4, <2>1, <3>3 DEF Dated
    <3> QED
      BY <1>4, <3>4 DEF FitFrames
  <2>2. CASE x # "relogin"
    BY <1>4, <2>2 DEF FitFrames, Concerns
  <2> QED
    BY <2>1, <2>2
<1> HIDE DEF m
<1>7. PICK c \in {"yes", "no"} : Handled(s, "no", m, Asker(x), c, m)
  <2>1. CASE wire' = wire
    <3>1. Handled(s, "no", m, Asker(x), "no", m)
      BY <1>1, <1>2, <1>5, <2>1, HeadOf DEF Handled, Longer
    <3> QED
      BY <3>1
  <2>2. CASE wire' = [wire EXCEPT ![Asker(x)] = Append(wire[Asker(x)], m)]
    <3>1. Handled(s, "no", m, Asker(x), "yes", m)
      BY <1>1, <1>5, <2>2 DEF Handled, Longer
    <3> QED
      BY <3>1
  <2> QED
    BY <1>5, <2>1, <2>2
<1>8. Stays(s, "no", m, Asker(x), c, m) /\ NoNewReq
  BY <1>2, <1>7, HandledIn, HandledNoReq
<1>9. Chained => Fits(s, "no", m, Asker(x), c, m)
  BY <1>4, <1>6 DEF Fits, Asked
<1> QED
  BY <1>2, <1>5, <1>8, <1>9, IdleUnmoved, UnmovedKeeps

LEMMA ReplyFailsDated ==
  ASSUME Inv, DatedInv, NEW x, NEW status, ReplyFails(x, status) PROVE DatedInv'
<1>1. x \in Exchanges /\ queue[Peer(x)] # <<>>
  BY DEF ReplyFails, CanReply, On
<1>2. Peer(x) \in Sides
  BY <1>1, TwoSides DEF Inv, TypeInv
<1>3. /\ conn' = conn /\ reader' = reader /\ AskersIdle /\ wire' = wire /\ Done(Peer(x))
  BY DEF ReplyFails, FailedSend, Fault, PeerRest, HandlerRest, RequestRest, NoFault, linkVars,
         AskersIdle, StatusKept
<1> QED
  BY <1>1, <1>2, <1>3, IdleUnmoved, DropDated

(* The askers of the other exchanges.                                      *)
LEMMA OtherUnmoved ==
  ASSUME Inv, NEW x, x # "relogin", NEW a, NEW tm,
         asker' = asker \/ asker' = [asker EXCEPT ![x] = a],
         timer' = timer \/ timer' = [timer EXCEPT ![x] = tm],
         asks' = asks, again' = again, now' = now \/ now' = now + 1
  PROVE  Unmoved
<1>1. DOMAIN timer = Exchanges
  BY DEF Inv, TypeInv, AskTypes
<1> QED
  BY <1>1 DEF Unmoved, Exchanges

LEMMA OtherFailsDated ==
  ASSUME Inv, DatedInv, NEW x, x # "relogin", RequestFails(x) PROVE DatedInv'
<1>1. x \in Exchanges /\ queue[Asker(x)] # <<>>
  BY DEF RequestFails, CanAsk, On
<1>2. /\ asker' = [asker EXCEPT ![x] = [@ EXCEPT !.status = "Req"]] /\ timer' = timer
      /\ asks' = asks /\ again' = again /\ now' = now
      /\ wire' = wire /\ Done(Asker(x)) /\ conn' = conn /\ reader' = reader
  BY DEF RequestFails, FailedSend, HandlerRest, RequestRest, linkVars
<1>3. Unmoved
  BY <1>2, OtherUnmoved
<1> QED
  BY <1>1, <1>2, <1>3, AskerTyped, DropDated

LEMMA UnLoginDated ==
  ASSUME Inv, DatedInv, DHeartbeatReqUnLogin PROVE DatedInv'
<1>1. "heartbeat" \in Exchanges /\ queue["dev"] # <<>>
  BY DEF DHeartbeatReqUnLogin, CanAsk, On, Asker, AskedByGateway
<1>2. /\ asker' = [asker EXCEPT !["heartbeat"] = [@ EXCEPT !.status = "Req"]] /\ timer' = timer
      /\ asks' = asks /\ again' = again /\ now' = now
      /\ wire' = wire /\ Done("dev") /\ conn' = conn /\ reader' = reader
  BY DEF DHeartbeatReqUnLogin, HandlerRest, RequestRest, linkVars
<1>3. Unmoved
  BY <1>2, OtherUnmoved
<1> QED
  BY <1>1, <1>2, <1>3, DropDated DEF Sides

LEMMA OtherAckDated ==
  ASSUME Inv, DatedInv, NEW x, x # "relogin", Acknowledged(x) PROVE DatedInv'
<1>1. x \in Exchanges /\ queue[Asker(x)] # <<>> /\ asker[x].made
  BY AckIsMade DEF Acknowledged, On
<1>2. /\ asker' = [asker EXCEPT ![x] = [@ EXCEPT !.status = "Stop"]]
      /\ timer' = [timer EXCEPT ![x] = Closed(Stopped(timer[x]))]
      /\ asks' = asks /\ again' = again /\ now' = now
      /\ wire' = wire /\ Done(Asker(x)) /\ conn' = conn /\ reader' = reader
  BY <1>1, AskerTyped DEF Acknowledged, HandlerRest, RequestRest, linkVars
<1>3. Unmoved
  BY <1>2, OtherUnmoved
<1> QED
  BY <1>1, <1>2, <1>3, AskerTyped, DropDated

LEMMA OtherRequestedDated ==
  ASSUME Inv, DatedInv, NEW x, x # "relogin", Requested(x) PROVE DatedInv'
<1> DEFINE a == [status |-> "Req", made |-> TRUE, ect |-> now, n |-> asker[x].n + 1]
           m == Event("Req", x, now, asker[x].n + 1)
           s == Asker(x)
<1>1. x \in Exchanges /\ queue[s] # <<>>
  BY DEF Requested, CanAsk, On
<1>2. /\ s \in Sides /\ Peer(x) \in Sides /\ now \in Nat /\ asker[x].n \in Nat /\ TypeInv
  BY <1>1, AskerTyped DEF AskerStates, Inv
<1>3. /\ asker' = [asker EXCEPT ![x] = a] /\ timer' = [timer EXCEPT ![x] = Started(timer[x])]
      /\ wire' = wire \/ wire' = [wire EXCEPT ![Peer(x)] = Append(wire[Peer(x)], m)]
      /\ queue' = [queue EXCEPT ![s] = Longer(Tail(queue[s]), "no", m)]
      /\ conn' = conn /\ reader' = reader /\ again' = again /\ UNCHANGED <<now, asks>>
  BY <1>1, AskerTyped DEF Requested, Send, Done, NoFault, RequestRest, linkVars, Longer
<1>4. m \in FitFrames /\ ~Asked(m)
  BY <1>1, <1>2 DEF Event, Events, FitFrames, Concerns, Asked
<1> HIDE DEF m
<1>5. Unmoved
  BY <1>3, OtherUnmoved
<1>6. PICK c \in {"yes", "no"} : Handled(s, "no", m, Peer(x), c, m)
  <2>1. CASE wire' = wire
    <3>1. Handled(s, "no", m, Peer(x), "no", m)
      BY <1>1, <1>2, <1>3, <2>1, HeadOf DEF Handled, Longer
    <3> QED
      BY <3>1
  <2>2. CASE wire' = [wire EXCEPT ![Peer(x)] = Append(wire[Peer(x)], m)]
    <3>1. Handled(s, "no", m, Peer(x), "yes", m)
      BY <1>1, <1>3, <2>2 DEF Handled, Longer
    <3> QED
      BY <3>1
  <2> QED
    BY <1>3, <2>1, <2>2
<1>7. Stays(s, "no", m, Peer(x), c, m) /\ NoNewReq
  BY <1>2, <1>6, HandledIn, HandledNoReq
<1>8. Fits(s, "no", m, Peer(x), c, m)
  BY <1>4 DEF Fits
<1> QED
  BY <1>2, <1>5, <1>7, <1>8, UnmovedKeeps

(* Steps of the gateway's relogin itself.                                  *)
LEMMA ReLoginMoves ==
  ASSUME Inv, DatedInv, asks' = asks \/ Spend(asks), DOMAIN asker' = DOMAIN asker,
         NEW s \in Sides, NEW b \in {"yes", "no"}, NEW e, NEW o \in Sides, NEW c \in {"yes", "no"},
         NEW m, Stays(s, b, e, o, c, m),
         Chained /\ asks'.used < 2 => DatesStay /\ FitsThen(s, b, e, o, c, m) /\ ChainInv'
  PROVE  DatedInv'
<1>1. Exchanges' = Exchanges
  BY DEF Exchanges
<1> SUFFICES ASSUME "relogin" \in Exchanges, asks'.used < 2 PROVE ChainInv' /\ DatesInv'
  BY <1>1 DEF DatedInv
<1>2. asks.used < 2
  <2>1. asks.used \in Nat /\ asks \in Budget
    BY DEF Inv, TypeInv, ElseTypes, Budget
  <2> QED
    BY <2>1 DEF Spend, Budget
<1>3. Chained /\ DatesInv
  BY <1>2 DEF DatedInv, Chained
<1> QED
  BY <1>3, DatesMove

(* What the invariants say of the relogin's timer.                         *)
LEMMA ChainTyped ==
  ASSUME Inv, Chained
  PROVE  /\ TimerOK(timer["relogin"]) /\ Armed(timer["relogin"]) \in Nat /\ again \in Nat
         /\ asks.used \in Nat /\ now \in Nat /\ asker["relogin"] \in AskerStates
         /\ asker["relogin"].n \in Nat /\ timer["relogin"].fired \in Nat
         /\ timer["relogin"].run \in Nat /\ queue["gw"] \in Seq(Events) /\ ElseTypes /\ TypeInv
<1>1. "relogin" \in Exchanges
  BY DEF Chained
<1>2. /\ TimerOK(timer["relogin"]) /\ again \in Nat /\ now \in Nat /\ asker["relogin"] \in AskerStates
  BY <1>1, AskerTyped
<1>3. asks.used \in Nat /\ queue["gw"] \in Seq(Events) /\ ElseTypes /\ TypeInv
  BY DEF Inv, TypeInv, ElseTypes, ChanTypes, Budget, Sides
<1> QED
  BY <1>2, <1>3, ArmedOK DEF AskerStates, TimerOK, Counted

(* The request at the head of the gateway's channel is the only one, and   *)
(* nothing else is on its way to become one.                               *)
LEMMA ChainHead ==
  ASSUME Inv, Chained, CanAsk("relogin")
  PROVE  /\ again = 0 /\ Armed(timer["relogin"]) = 0 /\ timer["relogin"].fired = 0
         /\ asks.used = 1 /\ Pending
         /\ queue["gw"] # <<>> /\ OneReq(Tail(queue["gw"])) /\ ~HasReq(Tail(queue["gw"]))
<1>1. queue["gw"] # <<>> /\ Asked(Head(queue["gw"]))
  BY DEF CanAsk, On, Asker, AskedByGateway, Asked
<1>2. queue["gw"] \in Seq(Events) /\ ChainInv
  BY ChainTyped DEF Chained
<1>3. /\ HasReq(queue["gw"]) /\ OneReq(Tail(queue["gw"])) /\ ~HasReq(Tail(queue["gw"]))
  BY <1>1, <1>2, ReqsShrink DEF ChainInv
<1>4. Waiting = 0 /\ asks.used = 1 /\ Pending
  BY <1>2, <1>3 DEF ChainInv, Pending
<1>5. again = 0 /\ Armed(timer["relogin"]) = 0
  BY <1>4, ChainTyped DEF Waiting
<1>6. timer["relogin"].fired = 0
  BY <1>5, ChainTyped DEF Armed
<1> QED
  BY <1>1, <1>3, <1>4, <1>5, <1>6

LEMMA ReLoginReqDated ==
  ASSUME Inv, DatedInv, Requested("relogin") PROVE DatedInv'
<1> DEFINE n == asker["relogin"].n + 1
           m == Event("Req", "relogin", now, n)
<1>1. /\ "relogin" \in Exchanges /\ queue["gw"] # <<>> /\ CanAsk("relogin")
      /\ Asker("relogin") = "gw" /\ Peer("relogin") = "dev" /\ "gw" \in Sides /\ "dev" \in Sides
  BY DEF Requested, CanAsk, On, Asker, Peer, AskedByGateway, Sides
<1>2. /\ asker' = [asker EXCEPT !["relogin"] = [status |-> "Req", made |-> TRUE, ect |-> now, n |-> n]]
      /\ timer' = [timer EXCEPT !["relogin"] = Started(timer["relogin"])]
      /\ wire' = wire \/ wire' = [wire EXCEPT !["dev"] = Append(wire["dev"], m)]
      /\ queue' = [queue EXCEPT !["gw"] = Longer(Tail(queue["gw"]), "no", m)]
      /\ conn' = conn /\ reader' = reader /\ again' = again /\ UNCHANGED <<now, asks>>
  BY <1>1, AskerTyped DEF Requested, Send, Done, NoFault, RequestRest, linkVars, Longer
<1>3. TypeInv /\ now \in Nat /\ asker["relogin"].n \in Nat
  BY <1>1, AskerTyped DEF Inv, AskerStates
<1>4. m \in Events /\ m.ev = "Req" /\ m.x = "relogin" /\ m.ect = now /\ m.n = n
  BY <1>1, <1>3 DEF Event, Events
<1>5. DOMAIN asker' = DOMAIN asker /\ asker'["relogin"].status = "Req"
      /\ asker'["relogin"].n = n /\ asker'["relogin"].ect = now
      /\ timer'["relogin"] = Started(timer["relogin"]) /\ queue'["gw"] = Tail(queue["gw"])
  BY <1>1, <1>2, <1>3 DEF Exchanges, Longer, TypeInv, ChanTypes, AskTypes
<1> HIDE DEF m
<1>6. PICK c \in {"yes", "no"} : Handled("gw", "no", m, "dev", c, m)
  <2>1. CASE wire' = wire
    <3>1. Handled("gw", "no", m, "dev", "no", m)
      BY <1>1, <1>2, <1>3, <2>1, HeadOf DEF Handled, Longer
    <3> QED
      BY <3>1
  <2>2. CASE wire' = [wire EXCEPT !["dev"] = Append(wire["dev"], m)]
    <3>1. Handled("gw", "no", m, "dev", "yes", m)
      BY <1>1, <1>2, <2>2 DEF Handled, Longer
    <3> QED
      BY <3>1
  <2> QED
    BY <1>2, <2>1, <2>2
<1>7. Stays("gw", "no", m, "dev", c, m)
  BY <1>1, <1>3, <1>6, HandledIn
<1>8. ASSUME Chained PROVE DatesStay /\ FitsThen("gw", "no", m, "dev", c, m) /\ ChainInv'
  <2>1. /\ again = 0 /\ Armed(timer["relogin"]) = 0 /\ timer["relogin"].fired = 0
        /\ asks.used = 1 /\ Pending
        /\ OneReq(Tail(queue["gw"])) /\ ~HasReq(Tail(queue["gw"]))
    BY <1>1, <1>8, ChainHead
  <2>2. Armed(timer'["relogin"]) = 1 /\ timer'["relogin"].fired = 0
    BY <1>5, <1>8, <2>1, ChainTyped, ArmedOK, FiredKept
  <2>3. ~Pending'
    BY <1>2, <1>5, <2>1, <2>2 DEF Pending
  <2>4. n > 0
    BY <1>3
  <2>5. DatesStay
    <3> SUFFICES ASSUME NEW d \in Events, Dated(d) PROVE Dated(d)'
      BY DEF DatesStay
    <3>1. d.ect <= now /\ d.ect < now
      BY <2>1 DEF Dated
    <3> QED
      BY <1>2, <1>5, <2>3, <2>4, <3>1 DEF Dated
  <2>6. \A d \in Events : d.ect = now /\ d.n = n => Dated(d)'
    <3>1. \A d \in Events : d.ect = now => d.ect <= now
      BY <1>3
    <3> QED
      BY <1>2, <1>5, <2>3, <2>4, <3>1 DEF Dated
  <2>7. m \in FitFrames'
    <3>1. Events' = Events
      BY <1>5 DEF Events, Exchanges
    <3>2. PICK d : d = m
      OBVIOUS
    <3>3. d \in Events /\ Dated(d)'
      BY <1>4, <2>6, <3>2
    <3>4. d \in FitFrames'
      BY <3>1, <3>3 DEF FitFrames
    <3> QED
      BY <3>2, <3>4
  <2>8. ChainInv'
    <3>1. Waiting' = 1
      BY <1>2, <2>1, <2>2 DEF Waiting
    <3> QED
      BY <1>2, <1>5, <2>1, <3>1 DEF ChainInv
  <2> QED
    BY <2>5, <2>7, <2>8 DEF FitsThen
<1> QED
  BY <1>1, <1>2, <1>5, <1>7, <1>8, ReLoginMoves

(* The other steps leave what is under way its dates, as time passes when  *)
(* they bring the next request nearer.                                     *)
LEMMA ReLoginFailsDated ==
  ASSUME Inv, DatedInv, GReLoginReqFails PROVE DatedInv'
<1>1. /\ "relogin" \in Exchanges /\ queue["gw"] # <<>> /\ CanAsk("relogin") /\ "gw" \in Sides
      /\ asker["relogin"].status = "Stop"
  BY DEF GReLoginReqFails, CanAsk, On, Asker, AskedByGateway, Sides
<1>2. /\ \E ect : asker' = [asker EXCEPT !["relogin"] = [@ EXCEPT !.ect = ect]]
      /\ timer' = timer
      /\ again' = again + 1 /\ Done("gw") /\ wire' = wire /\ UNCHANGED <<conn, reader, now, asks>>
  BY DEF GReLoginReqFails, FailedSend, HandlerRest, RequestRest, linkVars
<1>3. /\ TypeInv /\ ElseTypes /\ asker["relogin"] \in AskerStates
  BY <1>1, AskerTyped DEF Inv, TypeInv
<1>4. /\ DOMAIN asker' = DOMAIN asker /\ asker'["relogin"].n = asker["relogin"].n
      /\ asker'["relogin"].status = "Stop" /\ queue'["gw"] = Tail(queue["gw"])
  BY <1>1, <1>2, <1>3 DEF AskerStates, Exchanges, Done, TypeInv, ChanTypes
<1>5. Stays("gw", "no", 0, "gw", "no", 0)
  <2>1. Handled("gw", "no", 0, "gw", "no", 0)
    BY <1>1, <1>2, <1>3, HeadOf DEF Handled, Longer, Done
  <2> QED
    BY <1>1, <1>3, <2>1, HandledIn
<1>6. ASSUME Chained PROVE DatesStay /\ FitsThen("gw", "no", 0, "gw", "no", 0) /\ ChainInv'
  <2>1. /\ again = 0 /\ Armed(timer["relogin"]) = 0 /\ asks.used = 1 /\ Pending
        /\ OneReq(Tail(queue["gw"])) /\ ~HasReq(Tail(queue["gw"]))
    BY <1>1, <1>6, ChainHead
  <2>2. DatesStay
    BY <1>1, <1>2, <1>3, <1>4, <2>1, DatesLater
  <2>3. Waiting' = 1
    BY <1>2, <2>1 DEF Waiting
  <2>4. ChainInv'
    BY <1>2, <1>4, <2>1, <2>3 DEF ChainInv
  <2> QED
    BY <2>2, <2>4 DEF FitsThen
<1> QED
  BY <1>1, <1>2, <1>4, <1>5, <1>6, ReLoginMoves

(* A timer of the relogin moves, with no request more than before.         *)
LEMMA FewerArmed ==
  ASSUME Inv, DatedInv, "relogin" \in Exchanges, NEW s \in Sides, Stays(s, "no", 0, s, "no", 0), NoNewReq,
         DOMAIN asker' = DOMAIN asker, asker'["relogin"].n = asker["relogin"].n,
         asker'["relogin"] = asker["relogin"] \/ asker'["relogin"].status = "Stop",
         again' = again, asks' = asks, now' = now \/ now' = now + 1,
         Armed(timer'["relogin"]) \in Nat, Armed(timer'["relogin"]) <= Armed(timer["relogin"]),
         timer'["relogin"].fired = timer["relogin"].fired \/ now' = now + 1
  PROVE  DatedInv'
<1>1. ASSUME Chained PROVE DatesStay /\ FitsThen(s, "no", 0, s, "no", 0) /\ ChainInv'
  <2>1. ElseTypes /\ ChainInv /\ again \in Nat /\ Armed(timer["relogin"]) \in Nat /\ asks.used \in Nat
    BY <1>1, ChainTyped DEF Chained
  <2>2. Pending' => Pending \/ now' = now + 1
    BY DEF Pending, NoNewReq
  <2>3. DatesStay
    BY <2>1, <2>2, DatesLater
  <2>4. Waiting \in Nat /\ Waiting' \in Nat /\ Waiting' <= Waiting
    BY <2>1 DEF Waiting
  <2>5. (Waiting = 0 => Waiting' = 0) /\ (Waiting <= asks.used => Waiting' <= asks.used)
    BY <2>1, <2>4
  <2>6. ChainInv'
    BY <2>1, <2>5 DEF ChainInv, NoNewReq
  <2> QED
    BY <2>3, <2>6 DEF FitsThen
<1> QED
  BY <1>1, ReLoginMoves

LEMMA ReLoginAckDated ==
  ASSUME Inv, DatedInv, Acknowledged("relogin") PROVE DatedInv'
<1>1. "relogin" \in Exchanges /\ queue["gw"] # <<>> /\ asker["relogin"].made /\ "gw" \in Sides
  BY AckIsMade DEF Acknowledged, On, Asker, AskedByGateway, Sides
<1>2. /\ asker' = [asker EXCEPT !["relogin"] = [@ EXCEPT !.status = "Stop"]]
      /\ timer' = [timer EXCEPT !["relogin"] = Closed(Stopped(timer["relogin"]))]
      /\ asks' = asks /\ again' = again /\ now' = now
      /\ wire' = wire /\ Done("gw") /\ conn' = conn /\ reader' = reader
  BY <1>1, AskerTyped DEF Acknowledged, HandlerRest, RequestRest, linkVars, Asker, AskedByGateway
<1>3. TypeInv /\ TimerOK(timer["relogin"]) /\ asker["relogin"] \in AskerStates
  BY <1>1, AskerTyped DEF Inv
<1>4. /\ DOMAIN asker' = DOMAIN asker /\ asker'["relogin"].n = asker["relogin"].n
      /\ asker'["relogin"].status = "Stop"
      /\ timer'["relogin"] = Closed(Stopped(timer["relogin"]))
  BY <1>1, <1>2, <1>3 DEF AskerStates, Exchanges, TypeInv, AskTypes
<1>5. Handled("gw", "no", 0, "gw", "no", 0)
  BY <1>1, <1>2, <1>3, HeadOf DEF Handled, Longer, Done
<1>6. Stays("gw", "no", 0, "gw", "no", 0) /\ NoNewReq
  BY <1>1, <1>3, <1>5, HandledIn, HandledNoReq
<1>7. /\ Armed(timer'["relogin"]) \in Nat /\ Armed(timer'["relogin"]) <= Armed(timer["relogin"])
      /\ timer'["relogin"].fired = timer["relogin"].fired
  BY <1>3, <1>4, ArmedOK, FiredKept
<1> QED
  BY <1>1, <1>2, <1>4, <1>6, <1>7, FewerArmed

-----------------------------------------------------------------------------
(* Timers, readers and the connection.                                     *)

LEMMA QuietStays ==
  ASSUME queue' = queue, wire' = wire
  PROVE  Stays("gw", "no", 0, "gw", "no", 0) /\ NoNewReq
  BY DEF Stays, NoNewReq

(* What is pushed and has nothing to do with the relogin.                  *)
LEMMA PushDated ==
  ASSUME Inv, DatedInv, Unmoved, NEW s \in Sides, NEW e \in Events, ~Concerns(e, "relogin"),
         Pushed(s, e)
  PROVE  DatedInv'
<1>1. TypeInv /\ ~Asked(e)
  BY DEF Inv, Concerns, Asked
<1>2. Stays(s, "yes", e, s, "no", e) /\ NoNewReq
  BY <1>1, PushedIn, PushedNoReq
<1>3. Fits(s, "yes", e, s, "no", e)
  BY DEF Fits, FitFrames, FitAcks, Concerns
<1> QED
  BY <1>2, <1>3, UnmovedKeeps

LEMMA RepetitionDated ==
  ASSUME Inv, DatedInv, Unmoved, NEW x \in Exchanges, x # "relogin", Repetition(x),
         UNCHANGED <<wire, conn, reader>>
  PROVE  DatedInv'
<1> DEFINE e == Event("Req", x, 0, 0)
<1>1. Asker(x) \in Sides
  BY AskerTyped
<1>2. e \in Events /\ ~Concerns(e, "relogin")
  BY DEF Event, Events, Concerns
<1>3. Pushed(Asker(x), e)
  BY DEF Repetition, Push, Pushed
<1> HIDE DEF e
<1> QED
  BY <1>1, <1>2, <1>3, PushDated

LEMMA QuietDated ==
  ASSUME Inv, DatedInv, Unmoved, queue' = queue, wire' = wire PROVE DatedInv'
<1>1. Fits("gw", "no", 0, "gw", "no", 0) /\ "gw" \in Sides
  BY DEF Fits, Sides
<1> QED
  BY <1>1, QuietStays, UnmovedKeeps

(* The timers of the other exchanges.                                      *)
LEMMA OtherTimerDated ==
  ASSUME Inv, DatedInv, NEW x \in Exchanges, x # "relogin", Timer(x) PROVE DatedInv'
<1>1. /\ asker' = asker \/ asker' = [asker EXCEPT ![x] = [asker[x] EXCEPT !.status = "Stop"]]
      /\ \E tm : timer' = [timer EXCEPT ![x] = tm]
      /\ queue' = queue \/ Repetition(x)
      /\ now' = now \/ now' = now + 1
      /\ UNCHANGED <<wire, conn, reader, again, asks>>
  <2>1. UNCHANGED <<wire, conn, reader, again, asks>>
    BY DEF Timer, linkVars
  <2>2. CASE TimerTaken(x)
    BY <2>1, <2>2 DEF TimerTaken
  <2>3. CASE TimerExpires(x)
    BY <2>1, <2>3 DEF TimerExpires
  <2>4. CASE TimerFirst(x)
    BY <2>1, <2>4 DEF TimerFirst, ResetStatus
  <2>5. CASE TimerSecond(x)
    BY <2>1, <2>5 DEF TimerSecond, ResetStatus
  <2> QED
    BY <2>2, <2>3, <2>4, <2>5 DEF Timer
<1>2. PICK tm : timer' = [timer EXCEPT ![x] = tm]
  BY <1>1
<1>3. Unmoved
  BY <1>1, <1>2, OtherUnmoved
<1> QED
  BY <1>1, <1>3, QuietDated, RepetitionDated

(* The relogin's own: a goroutine leaves, runs out, resets the status.     *)
LEMMA TimerTakenDated ==
  ASSUME Inv, DatedInv, "relogin" \in Exchanges, TimerTaken("relogin") \/ TimerExpires("relogin"),
         UNCHANGED <<wire, again, asks>>
  PROVE  DatedInv'
<1>1. PICK tm \in TokenTaken(timer["relogin"]) \cup Expired(timer["relogin"]) :
        /\ timer' = [timer EXCEPT !["relogin"] = tm] /\ asker' = asker /\ queue' = queue
        /\ \/ tm \in TokenTaken(timer["relogin"]) /\ now' = now
           \/ tm \in Expired(timer["relogin"]) /\ now' = now + 1
  BY DEF TimerTaken, TimerExpires
<1>2. TimerOK(timer["relogin"]) /\ DOMAIN timer = Exchanges
  BY AskerTyped DEF Inv, TypeInv, AskTypes
<1>3. timer'["relogin"] = tm
  BY <1>1, <1>2
<1>4. Armed(timer["relogin"]) \in Nat /\ Armed(tm) \in Nat /\ Armed(tm) <= Armed(timer["relogin"])
  BY <1>1, <1>2, ArmedOK
<1>5. tm.fired = timer["relogin"].fired \/ now' = now + 1
  BY <1>1, <1>2, FiredKept
<1>6. "gw" \in Sides
  BY DEF Sides
<1> QED
  BY <1>1, <1>3, <1>4, <1>5, <1>6, QuietStays, FewerArmed

LEMMA TimerSecondDated ==
  ASSUME Inv, DatedInv, "relogin" \in Exchanges, TimerSecond("relogin"),
         UNCHANGED <<wire, again, asks>>
  PROVE  DatedInv'
<1> DEFINE tm == SecondDone(timer["relogin"])
<1>1. /\ timer' = [timer EXCEPT !["relogin"] = tm] /\ queue' = queue /\ now' = now
      /\ asker' = [asker EXCEPT !["relogin"] = [asker["relogin"] EXCEPT !.status = "Stop"]]
  <2>1. timer' = [timer EXCEPT !["relogin"] = tm]
    BY DEF TimerSecond
  <2>2. ResetStatus("relogin") /\ queue' = queue /\ now' = now
    BY DEF TimerSecond, AskedByDevice
  <2> QED
    BY <2>1, <2>2 DEF ResetStatus
<1>2. TimerOK(timer["relogin"]) /\ DOMAIN timer = Exchanges /\ asker["relogin"] \in AskerStates
  BY AskerTyped DEF Inv, TypeInv, AskTypes
<1>3. /\ timer'["relogin"] = tm /\ asker'["relogin"].status = "Stop"
      /\ asker'["relogin"].n = asker["relogin"].n /\ DOMAIN asker' = DOMAIN asker
  BY <1>1, <1>2 DEF AskerStates, Exchanges
<1>4. /\ Armed(timer["relogin"]) \in Nat /\ Armed(tm) \in Nat /\ Armed(tm) <= Armed(timer["relogin"])
      /\ tm.fired = timer["relogin"].fired
  BY <1>2, ArmedOK, PartsKept
<1>5. "gw" \in Sides
  BY DEF Sides
<1> HIDE DEF tm
<1> QED
  BY <1>1, <1>3, <1>4, <1>5, QuietStays, FewerArmed

(* Without a relogin, or with a second request from outside, there is      *)
(* nothing to keep.                                                        *)
LEMMA Unchained ==
  ASSUME DatedInv, ~Chained, asks' = asks, DOMAIN asker' = DOMAIN asker
  PROVE  DatedInv'
  BY DEF DatedInv, Chained, Exchanges

(* A request of the relogin takes the place of what it waited for.         *)
LEMMA AskedAgain ==
  ASSUME Inv, Chained, Repetition("relogin"), UNCHANGED <<wire, conn, reader>>,
         ~HasReq(queue["gw"])
  PROVE  /\ Stays("gw", "yes", Event("Req", "relogin", 0, 0), "gw", "no", Event("Req", "relogin", 0, 0))
         /\ OneReq(queue'["gw"])
         /\ Event("Req", "relogin", 0, 0) \in Events /\ Asked(Event("Req", "relogin", 0, 0))
<1> DEFINE e == Event("Req", "relogin", 0, 0)
<1>1. e \in Events /\ Asked(e)
  BY DEF Event, Events, Asked
<1>2. Pushed("gw", e) /\ "gw" \in Sides
  BY DEF Repetition, Push, Pushed, Asker, AskedByGateway, Sides
<1> HIDE DEF e
<1>3. Stays("gw", "yes", e, "gw", "no", e)
  BY <1>2, PushedIn DEF Inv
<1>4. queue["gw"] \in Seq(Events) /\ ChainInv
  BY ChainTyped DEF Chained
<1>5. queue'["gw"] = Append(queue["gw"], e)
  BY <1>2 DEF Pushed, Inv, TypeInv, ChanTypes
<1>6. OneReq(queue'["gw"])
  BY <1>1, <1>4, <1>5, ReqsGrow DEF ChainInv
<1> QED
  BY <1>1, <1>3, <1>6 DEF e

LEMMA TimerFirstDated ==
  ASSUME Inv, DatedInv, "relogin" \in Exchanges, TimerFirst("relogin"),
         UNCHANGED <<wire, conn, reader, again, asks>>
  PROVE  DatedInv'
<1> DEFINE tm == FirstDone(timer["relogin"])
           e  == Event("Req", "relogin", 0, 0)
<1>1. /\ timer["relogin"].fired > 0 /\ timer' = [timer EXCEPT !["relogin"] = tm]
      /\ Repetition("relogin") /\ UNCHANGED <<asker, now>>
  BY DEF TimerFirst
<1>2. TimerOK(timer["relogin"]) /\ DOMAIN timer = Exchanges
  BY AskerTyped DEF Inv, TypeInv, AskTypes
<1>3. timer'["relogin"] = tm
  BY <1>1, <1>2
<1>4. Armed(timer["relogin"]) \in Nat /\ Armed(tm) = Armed(timer["relogin"]) - 1
  BY <1>2, ArmedOK
<1> HIDE DEF tm
<1>5. ASSUME Chained
      PROVE  /\ DatesStay /\ FitsThen("gw", "yes", e, "gw", "no", e) /\ ChainInv'
             /\ Stays("gw", "yes", e, "gw", "no", e)
  <2>1. /\ ElseTypes /\ ChainInv /\ again \in Nat /\ asks.used \in Nat /\ asks.used < 2
        /\ timer["relogin"].fired \in Nat /\ timer["relogin"].run \in Nat
    BY <1>5, ChainTyped DEF Chained
  <2>2. Armed(timer["relogin"]) > 0 /\ Pending
    BY <1>1, <2>1 DEF Armed, Pending
  <2>3. Waiting = 1 /\ asks.used = 1 /\ again = 0 /\ Armed(timer["relogin"]) = 1
    BY <1>4, <2>1, <2>2 DEF ChainInv, Waiting
  <2>4. ~HasReq(queue["gw"])
    BY <2>1, <2>3 DEF ChainInv
  <2>5. /\ Stays("gw", "yes", e, "gw", "no", e) /\ OneReq(queue'["gw"])
        /\ e \in Events /\ Asked(e)
    BY <1>1, <1>5, <2>4, AskedAgain
  <2> HIDE DEF e
  <2>6. DatesStay
    BY <1>1, <2>1, <2>2, DatesLater
  <2>7. FitsThen("gw", "yes", e, "gw", "no", e)
    <3>1. Events' = Events
      BY <1>1 DEF Events, Exchanges
    <3> QED
      BY <2>5, <3>1 DEF FitsThen, FitAcks, Asked
  <2>8. Waiting' = 0
    BY <1>3, <1>4, <2>3 DEF Waiting
  <2>9. ChainInv'
    BY <1>1, <2>1, <2>3, <2>5, <2>8 DEF ChainInv
  <2> QED
    BY <2>5, <2>6, <2>7, <2>9
<1>6. CASE Chained
  <2>1. Stays("gw", "yes", e, "gw", "no", e) /\ "gw" \in Sides
    BY <1>5, <1>6 DEF Sides
  <2> HIDE DEF e
  <2> QED
    BY <1>1, <1>5, <2>1, ReLoginMoves
<1>7. CASE ~Chained
  BY <1>1, <1>7, Unchained
<1> QED
  BY <1>6, <1>7

LEMMA AgainDated ==
  ASSUME Inv, DatedInv, GReLoginAgain PROVE DatedInv'
<1> DEFINE e  == Event("Req", "relogin", 0, 0)
<1>1. /\ again > 0 /\ again' = again - 1 /\ now' = now + 1 /\ Repetition("relogin")
      /\ UNCHANGED <<wire, conn, reader, asker, timer, asks>>
  BY DEF GReLoginAgain, linkVars
<1>2. ASSUME Chained
      PROVE  /\ DatesStay /\ FitsThen("gw", "yes", e, "gw", "no", e) /\ ChainInv'
             /\ Stays("gw", "yes", e, "gw", "no", e)
  <2>1. /\ ElseTypes /\ ChainInv /\ again \in Nat /\ asks.used \in Nat /\ asks.used < 2
        /\ Armed(timer["relogin"]) \in Nat /\ "relogin" \in Exchanges
    BY <1>2, ChainTyped DEF Chained
  <2>2. Waiting = 1 /\ asks.used = 1 /\ again = 1 /\ Armed(timer["relogin"]) = 0
    BY <1>1, <2>1 DEF ChainInv, Waiting
  <2>3. ~HasReq(queue["gw"])
    BY <2>1, <2>2 DEF ChainInv
  <2>4. /\ Stays("gw", "yes", e, "gw", "no", e) /\ OneReq(queue'["gw"])
        /\ e \in Events /\ Asked(e)
    BY <1>1, <1>2, <2>3, AskedAgain
  <2> HIDE DEF e
  <2>5. DatesStay
    BY <1>1, <2>1, DatesLater
  <2>6. FitsThen("gw", "yes", e, "gw", "no", e)
    <3>1. Events' = Events
      BY <1>1 DEF Events, Exchanges
    <3> QED
      BY <2>4, <3>1 DEF FitsThen, FitAcks, Asked
  <2>7. Waiting' = 0
    BY <1>1, <2>2 DEF Waiting
  <2>8. ChainInv'
    BY <1>1, <2>1, <2>2, <2>4, <2>7 DEF ChainInv
  <2> QED
    BY <2>4, <2>5, <2>6, <2>8
<1>3. CASE Chained
  <2>1. Stays("gw", "yes", e, "gw", "no", e) /\ "gw" \in Sides
    BY <1>2, <1>3 DEF Sides
  <2> HIDE DEF e
  <2> QED
    BY <1>1, <1>2, <2>1, ReLoginMoves
<1>4. CASE ~Chained
  BY <1>1, <1>4, Unchained
<1> QED
  BY <1>3, <1>4

(* The first request from outside, whichever exchange it is for.           *)
LEMMA AskDated ==
  ASSUME Inv, DatedInv, NEW x \in Exchanges, Ask(x) PROVE DatedInv'
<1> DEFINE e  == Event("Req", x, 0, 0)
           s  == Asker(x)
<1>1. /\ Spend(asks) /\ Repetition(x)
      /\ UNCHANGED <<wire, conn, reader, asker, timer, again, now>>
  BY DEF Ask, linkVars, stateVars
<1>2. s \in Sides /\ (x = "relogin" => s = "gw")
  BY AskerTyped DEF Asker, AskedByGateway
<1>3. e \in Events /\ e.ev = "Req" /\ e.x = x
  BY DEF Event, Events
<1>4. Pushed(s, e)
  BY <1>1 DEF Repetition, Push, Pushed
<1> HIDE DEF e, s
<1>5. Stays(s, "yes", e, s, "no", e)
  BY <1>2, <1>4, PushedIn DEF Inv
<1>6. ASSUME Chained, asks'.used < 2
      PROVE  DatesStay /\ FitsThen(s, "yes", e, s, "no", e) /\ ChainInv'
  <2>1. /\ ElseTypes /\ ChainInv /\ again \in Nat /\ asks.used \in Nat
        /\ Armed(timer["relogin"]) \in Nat /\ asks \in Budget /\ queue["gw"] \in Seq(Events)
    BY <1>6, ChainTyped DEF Chained, ElseTypes
  <2>2. asks'.used = asks.used + 1
    BY <1>1, <2>1 DEF Spend, Budget
  <2>3. asks.used = 0 /\ asks'.used = 1
    BY <1>6, <2>1, <2>2
  <2>4. ~HasReq(queue["gw"]) /\ Waiting = 0 /\ asker["relogin"].n = 0
    BY <2>1, <2>3 DEF ChainInv, Waiting
  <2>5. DatesStay
    BY <2>4 DEF DatesStay, Dated
  <2>6. FitsThen(s, "yes", e, s, "no", e)
    <3>1. Events' = Events
      BY <1>1 DEF Events, Exchanges
    <3> QED
      BY <1>2, <1>3, <3>1 DEF FitsThen, FitAcks, FitFrames, Concerns, Sides
  <2>7. queue'["gw"] = queue["gw"] \/ queue'["gw"] = Append(queue["gw"], e)
    BY <1>2, <1>4 DEF Pushed, Inv, TypeInv, ChanTypes
  <2>8. OneReq(queue'["gw"])
    BY <1>3, <2>1, <2>4, <2>7, ReqsGrow DEF ChainInv
  <2>9. Waiting' = 0
    BY <1>1, <2>4 DEF Waiting
  <2>10. ChainInv'
    BY <2>3, <2>8, <2>9 DEF ChainInv
  <2> QED
    BY <2>5, <2>6, <2>10
<1> QED
  BY <1>1, <1>2, <1>5, <1>6, ReLoginMoves

LEMMA ReadDated ==
  ASSUME Inv, DatedInv, NEW s \in Sides, Read(s) PROVE DatedInv'
<1> DEFINE e == Head(wire[s])
<1>1. /\ wire[s] # <<>> /\ Pushed(s, e)
      /\ UNCHANGED <<conn, reader, asker, timer, again, now, asks>>
  BY DEF Read, linkVars, stateVars, Push, Pushed
<1>2. TypeInv /\ wire[s] \in Seq(Frames) /\ \A T : wire[s] \in Seq(T) => e \in T
  BY <1>1, TailAt DEF Inv, TypeInv, ChanTypes
<1>3. e \in Events
  BY <1>2, FrameIsEvent
<1> HIDE DEF e
<1>4. Unmoved
  BY <1>1 DEF Unmoved
<1>5. CASE Chained
  <2>1. e \in FitFrames /\ (s = "gw" => ~Asked(e))
    BY <1>2, <1>5 DEF Chained, DatesInv, Answers, Sides
  <2>2. Stays(s, "yes", e, s, "no", e) /\ NoNewReq
    BY <1>1, <1>2, <1>3, <2>1, PushedIn, PushedNoReq
  <2>3. Fits(s, "yes", e, s, "no", e)
    BY <2>1 DEF Fits, FitFrames, FitAcks, Concerns
  <2> QED
    BY <1>4, <2>2, <2>3, UnmovedKeeps
<1>6. CASE ~Chained
  BY <1>1, <1>6, Unchained
<1> QED
  BY <1>5, <1>6

LEMMA BreakDated ==
  ASSUME Inv, DatedInv, Break PROVE DatedInv'
<1>1. queue' = queue /\ wire' = wire /\ Unmoved
  BY DEF Break, chanVars, stateVars, Unmoved
<1> QED
  BY <1>1, QuietDated

LEMMA ReadBreakDated ==
  ASSUME Inv, DatedInv, DReadBreak PROVE DatedInv'
<1> DEFINE e == Event("ConnectServer", "none", 0, 0)
<1>1. /\ queue' = [queue EXCEPT !["dev"] = Append(queue["dev"], e)] /\ wire' = wire /\ Unmoved
  BY DEF DReadBreak, stateVars, Push, Unmoved
<1>2. DOMAIN queue = Sides
  BY DEF Inv, TypeInv, ChanTypes
<1>3. e \in Events /\ ~Concerns(e, "relogin")
  BY DEF Event, Events, Concerns
<1> HIDE DEF e
<1>4. queue'["dev"] = Append(queue["dev"], e) /\ queue'["gw"] = queue["gw"]
  BY <1>1, <1>2 DEF Sides
<1>5. Stays("dev", "yes", e, "dev", "no", e) /\ NoNewReq
  <2>1. Stays("dev", "yes", e, "dev", "no", e)
    BY <1>1, <1>4 DEF Stays, Sides
  <2> QED
    BY <1>4, <2>1 DEF NoNewReq
<1>6. Fits("dev", "yes", e, "dev", "no", e) /\ "dev" \in Sides
  BY <1>3 DEF Fits, FitFrames, FitAcks, Concerns, Sides
<1> QED
  BY <1>1, <1>5, <1>6, UnmovedKeeps

LEMMA LoginSuccessDated ==
  ASSUME Inv, DatedInv, DLoginSuccess PROVE DatedInv'
<1>1. queue' = queue /\ wire' = wire /\ Unmoved
  BY DEF DLoginSuccess, chanVars, stateVars, Unmoved
<1> QED
  BY <1>1, QuietDated

LEMMA ReadFailsDated ==
  ASSUME Inv, DatedInv, NEW s \in Sides, ReadFails(s) PROVE DatedInv'
<1>1. /\ wire[s] # <<>> /\ wire' = [wire EXCEPT ![s] = Tail(wire[s])] /\ queue' = queue
      /\ Unmoved
  BY DEF ReadFails, stateVars, Unmoved
<1>2. DOMAIN wire = Sides
  BY DEF Inv, TypeInv, ChanTypes
<1>3. \A S : \A t \in Sides : wire[t] \in Seq(S) => wire'[t] \in Seq(S)
  BY <1>1, <1>2, TailAt
<1>4. Stays(s, "no", 0, s, "no", 0) /\ NoNewReq /\ Fits(s, "no", 0, s, "no", 0)
  BY <1>1, <1>3 DEF Stays, NoNewReq, Fits
<1> QED
  BY <1>1, <1>4, UnmovedKeeps

(* A goroutine asks for a login or a registration.                         *)
LEMMA StatusPushedDated ==
  ASSUME Inv, DatedInv, NEW ev \in {"LoginRequest", "RegisterReq"}, NEW x \in {"relogin", "none"},
         Push("dev", Event(ev, x, 0, 0)), Unmoved, UNCHANGED <<wire, conn, reader>>
  PROVE  DatedInv'
<1> DEFINE e == Event(ev, x, 0, 0)
<1>1. Pushed("dev", e)
  BY DEF Push, Pushed
<1>2. e \in Events /\ ~Concerns(e, "relogin")
  BY DEF Event, Events, Concerns
<1> HIDE DEF e
<1> QED
  BY <1>1, <1>2, PushDated DEF Sides

(* A new Thing on the gateway asks for nothing: what is dated stays so.    *)
LEMMA ConnectDated ==
  ASSUME Inv, DatedInv, DConnect PROVE DatedInv'
<1> DEFINE e == Event("RegisterReq", "none", 0, 0)
           r == Tail(queue["dev"])
<1>1. /\ queue["dev"] # <<>> /\ wire' = [s \in Sides |-> <<>>]
      /\ queue' = [gw |-> <<>>, dev |-> Append(r, e)]
      /\ asker' = [x \in Exchanges |-> IF x \in AskedByGateway THEN [NoRequest EXCEPT !.n = asker[x].n]
                                                               ELSE asker[x]]
      /\ timer' = [x \in Exchanges |-> IF x \in AskedByGateway THEN NoTimer ELSE timer[x]]
      /\ again' = 0 /\ asks' = asks /\ now' = now
  BY DEF DConnect
<1>2. DOMAIN asker' = DOMAIN asker
  BY <1>1 DEF Exchanges
<1>3. CASE ~Chained
  BY <1>1, <1>2, <1>3, Unchained
<1>4. CASE Chained
  <2>1. /\ ElseTypes /\ ChainInv /\ DatesInv /\ asks.used \in Nat /\ "relogin" \in Exchanges
        /\ queue["dev"] \in Seq(FitFrames) /\ now \in Nat
    BY <1>4, ChainTyped DEF Chained, DatesInv
  <2>2. /\ asker'["relogin"].n = asker["relogin"].n /\ asker'["relogin"].status = "Stop"
        /\ timer'["relogin"] = NoTimer /\ again' = 0
        /\ queue'["gw"] = <<>> /\ queue'["dev"] = Append(r, e)
        /\ wire'["gw"] = <<>> /\ wire'["dev"] = <<>>
    BY <1>1, <2>1 DEF AskedByGateway, NoRequest, Sides
  <2>3. Len(queue'["gw"]) = 0
    BY <2>2
  <2>4. ~HasReq(queue'["gw"]) /\ OneReq(queue'["gw"])
    BY <2>3 DEF HasReq, OneReq
  <2>5. timer'["relogin"].fired = 0 /\ Armed(timer'["relogin"]) = 0
    BY <2>2 DEF NoTimer, Armed
  <2>6. Waiting' = 0 /\ ~Pending'
    BY <2>2, <2>4, <2>5 DEF Waiting, Pending
  <2>7. ChainInv'
    BY <1>1, <2>1, <2>2, <2>4, <2>6 DEF ChainInv
  <2>8. DatesStay
    BY <1>1, <1>2, <2>1, <2>2, <2>6, DatesLater
  <2>9. Events' = Events /\ FitFrames \subseteq FitFrames'
    <3>1. Events' = Events
      BY <1>2 DEF Events, Exchanges
    <3> QED
      BY <2>8, <3>1 DEF DatesStay, FitFrames
  <2>10. Append(r, e) \in Seq(FitFrames')
    <3>1. e \in FitFrames'
      BY <2>9 DEF FitFrames, Concerns, Event, Events
    <3> DEFINE F == FitFrames'
    <3>2. queue["dev"] \in Seq(F)
      BY <2>1, <2>9
    <3> HIDE DEF F, e
    <3>3. r \in Seq(F)
      BY <1>1, <3>2, TailAt
    <3>4. e \in F
      BY <3>1 DEF F
    <3>5. Append(r, e) \in Seq(F)
      BY <3>3, <3>4, AppendAt
    <3> QED
      BY <3>5 DEF F
  <2> HIDE DEF r, e
  <2>11. \A T : <<>> \in Seq(T)
    OBVIOUS
  <2>12. DatesInv'
    BY <2>2, <2>10, <2>11 DEF DatesInv
  <2>13. QED
    BY <2>7, <2>12 DEF DatedInv
<1> QED
  BY <1>3, <1>4

-----------------------------------------------------------------------------
LEMMA TimerDated ==
  ASSUME Inv, DatedInv, NEW x \in Exchanges, Timer(x) PROVE DatedInv'
<1>1. UNCHANGED <<wire, conn, reader, again, asks>>
  BY DEF Timer, linkVars
<1>2. CASE x # "relogin"
  BY <1>2, OtherTimerDated
<1>3. CASE x = "relogin"
  BY <1>1, <1>3, TimerTakenDated, TimerFirstDated, TimerSecondDated DEF Timer
<1> QED
  BY <1>2, <1>3

LEMMA GatewayDated ==
  ASSUME Inv, DatedInv, GatewayEvent PROVE DatedInv'
<1>1. CASE Refused("gw")
  BY <1>1, RefusedDated DEF Sides
<1>2. CASE GReLoginReq \/ GReLoginReqFails
  BY <1>2, ReLoginReqDated, ReLoginFailsDated DEF GReLoginReq
<1>3. CASE GReadConfigReq \/ GSetConfigReq
  BY <1>3, OtherRequestedDated DEF GReadConfigReq, GSetConfigReq
<1>4. CASE GReadConfigReqFails \/ GSetConfigReqFails
  BY <1>4, OtherFailsDated DEF GReadConfigReqFails, GSetConfigReqFails
<1>5. CASE GReLoginAck
  BY <1>5, ReLoginAckDated DEF GReLoginAck
<1>6. CASE GReadConfigAck \/ GSetConfigAck
  BY <1>6, OtherAckDated DEF GReadConfigAck, GSetConfigAck
<1>7. CASE GReLoginAckOutOfDate \/ GThingInfoUploadReqFails
  <2>1. /\ queue["gw"] # <<>> /\ Done("gw") /\ wire' = wire /\ conn' = conn /\ reader' = reader
        /\ AskersIdle
    BY <1>7 DEF GReLoginAckOutOfDate, GThingInfoUploadReqFails, CanTake, On, Fault, PeerRest,
       HandlerRest,
               RequestRest, StatesRest, NoFault, linkVars, AskersIdle, StatusKept, Peer, AskedByGateway
  <2> QED
    BY <2>1, IdleUnmoved, DropDated DEF Sides
<1>8. CASE GHeartbeatReq \/ GThingInfoUploadReq
  BY <1>8, TakenDated DEF GHeartbeatReq, GThingInfoUploadReq
<1>9. CASE GHeartbeatAck \/ GThingInfoUploadAck
  <2>1. now \in Nat
    BY DEF Inv, TypeInv, ElseTypes
  <2> QED
    BY <1>9, <2>1, RepliedDated DEF GHeartbeatAck, GThingInfoUploadAck
<1>10. CASE GHeartbeatAckFails \/ GThingInfoUploadAckFails
  BY <1>10, ReplyFailsDated DEF GHeartbeatAckFails, GThingInfoUploadAckFails
<1> QED
  BY <1>1, <1>2, <1>3, <1>4, <1>5, <1>6, <1>7, <1>8, <1>9, <1>10 DEF GatewayEvent

LEMMA DeviceDated ==
  ASSUME Inv, DatedInv, DeviceEvent PROVE DatedInv'
<1>1. now \in Nat /\ TypeInv
  BY DEF Inv, TypeInv, ElseTypes
<1>2. CASE Refused("dev")
  BY <1>2, RefusedDated DEF Sides
<1>3. CASE DConnect \/ DLoginSuccess
  BY <1>3, ConnectDated, LoginSuccessDated
<1>4. CASE DRegisterReq \/ DLoginRequest \/ DReLoginReqFails \/ DReadConfigReqUnLogin
  <2>1. /\ queue["dev"] # <<>> /\ Done("dev") /\ wire' = wire /\ conn' = conn /\ reader' = reader
        /\ Unmoved
    <3>1. CASE DRegisterReq \/ DLoginRequest
      BY <3>1 DEF DRegisterReq, DLoginRequest, StatusRest, stateVars, Unmoved
    <3>2. CASE DReLoginReqFails \/ DReadConfigReqUnLogin
      BY <3>2 DEF DReLoginReqFails, DReadConfigReqUnLogin, CanTake, On, PeerRest, HandlerRest,
                  RequestRest, StatesRest, linkVars, Unmoved, Peer, AskedByGateway
    <3> QED
      BY <1>4, <3>1, <3>2
  <2> QED
    BY <2>1, DropDated DEF Sides
<1>5. CASE DReLoginReq \/ DReadConfigReq \/ DSetConfigReq
  BY <1>5, TakenDated DEF DReLoginReq, DReadConfigReq, DSetConfigReq
<1>6. CASE DReLoginAck
  <2>1. Peer("relogin") = "dev" /\ queue["dev"] # <<>>
    BY <1>6 DEF DReLoginAck, Replied, CanReply, On, Peer, AskedByGateway
  <2>2. Msg("dev") \in Events
    BY <1>1, <2>1, HeadOf DEF Sides
  <2>3. Msg("dev").ect \in Nat
    BY <2>2 DEF Events
  <2> QED
    BY <1>6, <2>1, <2>3, RepliedDated DEF DReLoginAck
<1>7. CASE DReadConfigAck \/ DSetConfigAck
  BY <1>1, <1>7, RepliedDated DEF DReadConfigAck, DSetConfigAck
<1>8. CASE DReLoginAckFails \/ DReadConfigAckFails \/ DSetConfigAckFails
  <2>1. CASE DReLoginAckFails \/ DReadConfigAckFails \/ ReplyFails("setconfig", "Req")
    BY <2>1, ReplyFailsDated DEF DReLoginAckFails, DReadConfigAckFails
  <2>2. CASE DSetConfigAckFails /\ ~ReplyFails("setconfig", "Req")
    <3>1. /\ queue["dev"] # <<>> /\ Done("dev") /\ wire' = wire /\ conn' = conn /\ reader' = reader
          /\ AskersIdle
      BY <2>2 DEF DSetConfigAckFails, CanReply, On, Fault, PeerRest, HandlerRest, RequestRest,
         linkVars,
                 AskersIdle, StatusKept, Peer, AskedByGateway
    <3> QED
      BY <3>1, IdleUnmoved, DropDated DEF Sides
  <2> QED
    BY <1>8, <2>1, <2>2
<1>9. CASE DHeartbeatReq \/ DThingInfoUploadReq
  BY <1>9, OtherRequestedDated DEF DHeartbeatReq, DThingInfoUploadReq
<1>10. CASE DHeartbeatReqFails \/ DThingInfoUploadReqFails
  BY <1>10, OtherFailsDated DEF DHeartbeatReqFails, DThingInfoUploadReqFails
<1>11. CASE DHeartbeatReqUnLogin
  BY <1>11, UnLoginDated
<1>12. CASE DHeartbeatAck \/ DThingInfoUploadAck
  BY <1>12, OtherAckDated DEF DHeartbeatAck, DThingInfoUploadAck
<1> QED
  BY <1>2, <1>3, <1>4, <1>5, <1>6, <1>7, <1>8, <1>9, <1>10, <1>11, <1>12 DEF DeviceEvent

LEMMA DatedStep == Inv /\ DatedInv /\ [Next]_vars => DatedInv'
<1> SUFFICES ASSUME Inv, DatedInv, [Next]_vars PROVE DatedInv'
  OBVIOUS
<1>1. CASE \E x \in Exchanges : Ask(x) \/ Timer(x)
  BY <1>1, AskDated, TimerDated
<1>2. CASE GatewayEvent \/ DeviceEvent
  BY <1>2, GatewayDated, DeviceDated
<1>3. CASE GReLoginAgain
  BY <1>3, AgainDated
<1>4. CASE DReLoginTimer
  BY <1>4, StatusPushedDated DEF DReLoginTimer, linkVars, Unmoved
<1>5. CASE \E s \in Sides : Read(s) \/ ReadFails(s)
  BY <1>5, ReadDated, ReadFailsDated
<1>6. CASE DReadBreak \/ Break
  BY <1>6, ReadBreakDated, BreakDated
<1>7. CASE DRegisterAgain \/ DCheckAesKeyValidity
  BY <1>7, StatusPushedDated DEF DRegisterAgain, DCheckAesKeyValidity, StatusRest, stateVars,
                                 Unmoved
<1>8. CASE UNCHANGED vars
  <2>1. queue' = queue /\ wire' = wire /\ Unmoved
    BY <1>8 DEF vars, linkVars, chanVars, stateVars, Unmoved
  <2> QED
    BY <2>1, QuietDated
<1> QED
  BY <1>1, <1>2, <1>3, <1>4, <1>5, <1>6, <1>7, <1>8 DEF Next

LEMMA DatedInit == Init => DatedInv
<1> SUFFICES ASSUME Init PROVE DatedInv
  OBVIOUS
<1>1. /\ queue["gw"] = <<>> /\ queue["dev"] = <<>> /\ wire["gw"] = <<>> /\ wire["dev"] = <<>>
      /\ again = 0 /\ asks.used = 0
  BY DEF Init, Sides, AtMost
<1>2. ASSUME "relogin" \in Exchanges PROVE ChainInv
  <2>1. asker["relogin"] = NoRequest /\ timer["relogin"] = NoTimer
    BY <1>2 DEF Init, Exchanges
  <2>2. asker["relogin"].n = 0 /\ Armed(timer["relogin"]) = 0
    BY <2>1 DEF NoRequest, NoTimer, Armed
  <2>3. Len(queue["gw"]) = 0
    BY <1>1
  <2>4. OneReq(queue["gw"]) /\ ~HasReq(queue["gw"])
    BY <2>3 DEF OneReq, HasReq
  <2> QED
    BY <1>1, <2>2, <2>4 DEF ChainInv, Waiting
<1>3. \A T : <<>> \in Seq(T)
  OBVIOUS
<1>4. DatesInv
  BY <1>1, <1>3 DEF DatesInv
<1> QED
  BY <1>2, <1>4 DEF DatedInv

(* A relogin that stops waiting as the gateway works off an event has had  *)
(* its acknowledgement.                                                    *)
LEMMA OnlyAckStops ==
  ASSUME Inv, [Next]_vars, "relogin" \in Exchanges, asker["relogin"].status = "Req",
         asker'["relogin"].status = "Stop", Len(queue'["gw"]) < Len(queue["gw"]), conn' = conn
  PROVE  GReLoginAck
<1>1. /\ queue["gw"] \in Seq(Events) /\ DOMAIN asker = Exchanges
      /\ DOMAIN queue = Sides /\ asker["relogin"] \in AskerStates
  BY AskerTyped DEF Inv, TypeInv, ChanTypes, Sides, Exchanges
<1>2. /\ ~(Len(queue["gw"]) < Len(queue["gw"]))
      /\ \A e : ~(Len(Append(queue["gw"], e)) < Len(queue["gw"]))
  BY <1>1
<1>3. asker' # asker /\ queue' # queue
  BY <1>2
<1>4. \A x, a : x # "relogin" => asker' # [asker EXCEPT ![x] = a]
  BY <1>1
<1>5. \A s, e : queue' # [queue EXCEPT ![s] = Append(queue[s], e)]
  <2> SUFFICES ASSUME NEW s, NEW e, queue' = [queue EXCEPT ![s] = Append(queue[s], e)] PROVE FALSE
    OBVIOUS
  <2>1. queue'["gw"] = queue["gw"] \/ queue'["gw"] = Append(queue["gw"], e)
    BY <1>1 DEF Sides
  <2> QED
    BY <1>2, <2>1
<1>6. \A x : ~Requested(x)
  <2> SUFFICES ASSUME NEW x, Requested(x) PROVE FALSE
    OBVIOUS
  <2>1. x # "relogin"
    BY DEF Requested, CanAsk
  <2> QED
    BY <1>4, <2>1 DEF Requested
<1>7. \A x : x # "relogin" => ~RequestFails(x) /\ ~Acknowledged(x)
  BY <1>3, <1>4 DEF RequestFails, Acknowledged
<1>8. \A x, ect, status : ~Taken(x) /\ ~Replied(x, ect) /\ ~ReplyFails(x, status)
  BY <1>3 DEF Taken, Replied, ReplyFails, PeerRest
<1>9. CASE \E x \in Exchanges : Ask(x) \/ Timer(x)
  <2> SUFFICES ASSUME NEW x \in Exchanges, Ask(x) \/ Timer(x) PROVE FALSE
    BY <1>9
  <2>1. CASE Ask(x) \/ TimerTaken(x) \/ TimerExpires(x)
    BY <1>3, <2>1 DEF Ask, stateVars, TimerTaken, TimerExpires
  <2>2. CASE TimerFirst(x) \/ TimerSecond(x)
    <3>1. queue' = queue \/ queue' = [queue EXCEPT ![Asker(x)] = Append(queue[Asker(x)], Event("Req", x, 0, 0))]
      BY <2>2 DEF TimerFirst, TimerSecond, Repetition, Push
    <3> QED
      BY <1>3, <1>5, <3>1
  <2> QED
    BY <2>1, <2>2 DEF Timer
<1>10. CASE GatewayEvent
  <2>1. ~GReLoginReqFails /\ ~Refused("gw") /\ ~GReLoginAckOutOfDate /\ ~GThingInfoUploadReqFails
    BY <1>3 DEF GReLoginReqFails, CanAsk, Refused, StatesRest, GReLoginAckOutOfDate,
               GThingInfoUploadReqFails, PeerRest
  <2> QED
    BY <1>6, <1>7, <1>8, <1>10, <2>1
    DEF GatewayEvent, GReLoginReq, GReadConfigReq, GReadConfigReqFails, GReadConfigAck,
       GSetConfigReq,
        GSetConfigReqFails, GSetConfigAck, GHeartbeatReq, GHeartbeatAck, GHeartbeatAckFails,
        GThingInfoUploadReq, GThingInfoUploadAck, GThingInfoUploadAckFails
<1>11. CASE DeviceEvent
  <2>1. ~Refused("dev") /\ ~DLoginSuccess /\ ~DReLoginReqFails /\ ~DReadConfigReqUnLogin
        /\ ~DSetConfigAckFails /\ ~DRegisterReq /\ ~DLoginRequest
    BY <1>3, <1>8 DEF Refused, StatesRest, DLoginSuccess, stateVars, DRegisterReq, DLoginRequest,
               StatusRest, DReLoginReqFails, PeerRest, DReadConfigReqUnLogin, DSetConfigAckFails
  <2>2. ~DHeartbeatReqUnLogin
    BY <1>4 DEF DHeartbeatReqUnLogin
  <2>3. ~DConnect
    BY DEF DConnect, Msg, Inv, Traffic, PlaceInv, LinkInv, Has
  <2> QED
    BY <1>6, <1>7, <1>8, <1>11, <2>1, <2>2, <2>3
    DEF DeviceEvent, DReLoginReq, DReLoginAck, DReLoginAckFails, DReadConfigReq, DReadConfigAck,
        DReadConfigAckFails, DSetConfigReq, DSetConfigAck, DHeartbeatReq, DHeartbeatReqFails,
        DHeartbeatAck, DThingInfoUploadReq, DThingInfoUploadReqFails, DThingInfoUploadAck
<1>12. CASE \/ GReLoginAgain \/ DReLoginTimer \/ DRegisterAgain \/ DCheckAesKeyValidity
            \/ (\E s \in Sides : Read(s) \/ ReadFails(s)) \/ DReadBreak \/ Break
  BY <1>3, <1>12 DEF GReLoginAgain, DReLoginTimer, DRegisterAgain, DCheckAesKeyValidity, StatusRest,
                     Read, ReadFails, DReadBreak, Break, stateVars
<1>13. CASE UNCHANGED vars
  BY <1>3, <1>13 DEF vars, stateVars
<1> QED
  BY <1>9, <1>10, <1>11, <1>12, <1>13 DEF Next

(* A ReLoginAck that is accepted (gateway/relogin.go: its creation time is *)
(* that of the request) answers the request that waits and not one that    *)
(* was given up, while one request from outside began them all: between    *)
(* two of the chain a timer has run out, and a second has passed.          *)
THEOREM AckAnswersCurrent == Spec => AckIsCurrent
<1> DEFINE Right == \A x \in Exchanges :
                      /\ x = "relogin" /\ asker[x].status = "Req" /\ asker'[x].status = "Stop"
                      /\ Len(queue'["gw"]) < Len(queue["gw"])
                      /\ conn' = conn /\ asks.used < 2
                      => Msg("gw").n = asker[x].n
<1>1. ASSUME Inv, DatedInv, [Next]_vars PROVE [Right]_vars
  <2> SUFFICES ASSUME "relogin" \in Exchanges, asker["relogin"].status = "Req",
                      asker'["relogin"].status = "Stop", Len(queue'["gw"]) < Len(queue["gw"]),
                      conn' = conn, asks.used < 2
               PROVE  Msg("gw").n = asker["relogin"].n
    OBVIOUS
  <2>1. queue["gw"] \in Seq(Events) /\ TypeInv /\ asker["relogin"] \in AskerStates /\ Chained
    BY <1>1, AskerTyped DEF Inv, TypeInv, ChanTypes, Sides, DatedInv, Chained
  <2>2. GReLoginAck
    BY <1>1, OnlyAckStops
  <2>3. queue["gw"] # <<>> /\ Msg("gw").ev = "Ack" /\ Msg("gw").x = "relogin"
        /\ Msg("gw").ect = asker["relogin"].ect
    BY <2>2 DEF GReLoginAck, On, Current, Msg
  <2>4. Dated(Msg("gw"))
    <3>1. Msg("gw") \in FitAcks
      BY <1>1, <2>1, <2>3, HeadDated DEF Sides
    <3> QED
      BY <2>3, <3>1 DEF FitAcks
  <2>5. asker["relogin"].ect \in Nat
    BY <2>1 DEF AskerStates
  <2> QED
    BY <2>3, <2>4, <2>5 DEF Dated
<1> QED
  BY <1>1, InvInit, InvStep, DatedInit, DatedStep, PTL DEF Spec, AckIsCurrent
=============================================================================
