----------------------------- MODULE MCExchange -----------------------------
(***************************************************************************)
(* The behaviours of Exchange that TLC explores. Exchanges meet only in    *)
(* the queues, so that most instances have one; what differs is who may    *)
(* fail, how often timers run out, and whether the connection breaks.      *)
(***************************************************************************)
EXTENDS Exchange

Instance(exchanges, sides, ask, expire, fault, break) ==
  [exchanges |-> exchanges, sides |-> sides, ask |-> ask, expire |-> expire,
   fault |-> fault, break |-> break, withdraw |-> 0, lose |-> 0]
Withdrawing(i) == [i EXCEPT !.withdraw = 1]
Losing(i)      == [i EXCEPT !.lose = 1]

(* Nothing fails but the timers.                                           *)
InOrder == {Instance({"heartbeat", "infoupload"}, {}, 2, 1, 0, 0),
            Instance({"heartbeat"}, {}, 2, 2, 0, 0)}

(* The peer fails, and the asker's timer has to notice.                    *)
PeerFails == {Instance({"infoupload"}, {"gw"}, 2, 2, 1, 0),
              Instance({"readconfig", "setconfig"}, {"dev"}, 2, 2, 1, 0),
              Instance({"relogin"}, {"dev"}, 1, 3, 1, 0)}

(* The gateway cannot send its relogin.                                    *)
AskerFails == {Instance({"relogin"}, {"gw"}, 3, 0, 2, 0)}

(* Anyone fails, and the connection breaks.                                *)
AnyoneFails == {Instance({x}, Sides, 2, 1, 1, 1) : x \in AllExchanges}
               \cup {Instance({"relogin", "heartbeat"}, Sides, 2, 0, 1, 1)}

(* A login that is taken back, and frames that a reader cannot decode.     *)
LoginsWithdrawn ==
  {Withdrawing(Instance({x}, {}, 1, 2, 0, 0)) : x \in AskedByDevice}
  \cup {Losing(Withdrawing(Instance({x}, {}, 1, 1, 0, 0))) : x \in AllExchanges}
  \cup {Withdrawing(Instance({"heartbeat"}, {}, 1, 1, 0, 1))}

All == LoginsWithdrawn \cup InOrder \cup PeerFails \cup AskerFails \cup AnyoneFails
=============================================================================
