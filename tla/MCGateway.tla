----------------------------- MODULE MCGateway -----------------------------
(***************************************************************************)
(* Instances of Gateway for TLC. The configurations choose who dials and   *)
(* what is sent: a device that reconnects, alone or beside a second one,   *)
(* or one connection alone.                                                *)
(***************************************************************************)
EXTENDS Gateway, TLC

CONSTANTS t1, t2, t3, d1, d2

(* One device, two connections: the second is a reconnection. The two can  *)
(* be exchanged.                                                           *)
Reconnecting == t1 :> d1 @@ t2 :> d1
Connections  == Permutations({t1, t2})

(* The same beside another device, which has one connection.               *)
TwoDevices == Reconnecting @@ t3 :> d2

(* One connection.                                                         *)
OneConnection == t1 :> d1

(* What the connections send: a login; a login, before which the other     *)
(* device may send the request of a command; any three frames; two         *)
(* registrations.                                                          *)
Login == <<{"EventLoginRequest"}, {"EventLoginResponse"}>>
Logins == [t \in Thing |-> Login]
LoginsOrRequest ==
  [t \in Thing |-> IF t = t3 THEN [Login EXCEPT ![1] = @ \cup {"EventRemoteOperationRequest"}]
                            ELSE Login]
AnyFrames == [t \in Thing |-> [n \in 1..3 |-> FrameEvents]]
Registers == [t \in Thing |-> [n \in 1..2 |-> {"RegisterReqEventMessage"}]]
=============================================================================
