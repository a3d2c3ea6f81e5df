---------------------------- MODULE MCHandshake ----------------------------
(***************************************************************************)
(* The behaviours of Handshake that TLC explores.                          *)
(***************************************************************************)
EXTENDS Handshake

(* One connection, no errors, answers in time.                             *)
InOrder == {[conn |-> 1, breaks |-> 1, time |-> 2, tries |-> 3, key |-> 3, fault |-> 0,
             times |-> 3, expire |-> FALSE, age |-> 0],
            [conn |-> 1, breaks |-> 1, time |-> 2, tries |-> 4, key |-> 4, fault |-> 0,
             times |-> 3, expire |-> FALSE, age |-> 1]}

(* The first connection breaks, a handler meets an error, and the key      *)
(* becomes too old, on either connection or between the two.               *)
Breaks == [conn |-> 2, breaks |-> 1, time |-> 1, tries |-> 3, key |-> 4, fault |-> 1,
           times |-> 3, expire |-> FALSE, age |-> 1]

(* The first connection breaks, and the device sends one request more.     *)
Repeats == [conn |-> 2, breaks |-> 1, time |-> 1, tries |-> 4, key |-> 5, fault |-> 0,
            times |-> 3, expire |-> FALSE, age |-> 0]

(* Requests time out, and the device gives up registering.                 *)
Timeouts == [conn |-> 1, breaks |-> 1, time |-> 2, tries |-> 3, key |-> 5, fault |-> 0,
             times |-> 1, expire |-> TRUE, age |-> 0]

(* The first connection breaks, and a request runs out on it or after it:  *)
(* its Thing may register the device in the middle of the next login.      *)
Overlaps == [conn |-> 2, breaks |-> 1, time |-> 1, tries |-> 3, key |-> 4, fault |-> 0,
             times |-> 3, expire |-> TRUE, age |-> 0]

(* The key becomes too old while the device has no connection, the next    *)
(* one breaks as it registers, and the ticker begins a login on the third  *)
(* before the Thing of the second replaces the key.                        *)
Ticks == [conn |-> 3, breaks |-> 2, time |-> 0, tries |-> 4, key |-> 5, fault |-> 0,
          times |-> 3, expire |-> FALSE, age |-> 1]

Troubles == {Breaks, Repeats, Timeouts, Overlaps, Ticks}
=============================================================================
