------------------------------ MODULE KeyIssue ------------------------------
(***************************************************************************)
(* What registration and login promise about the AES key of a device: the  *)
(* platform replaces its key at will, and the device takes over a key that *)
(* was issued and is newer than its own, at any later time. Keys are       *)
(* numbered in the order they are issued. Only when there was more than    *)
(* one session may the device derive a key that nobody else has, and the   *)
(* next it takes over is again one that was issued.                        *)
(***************************************************************************)
EXTENDS Integers

VARIABLES platform, device, sessions

vars == <<platform, device, sessions>>

MixedUp == -1

Init == platform = 1 /\ device = 0 /\ sessions = 0

Connect == sessions' = sessions + 1 /\ UNCHANGED <<platform, device>>

Issue == platform' = platform + 1 /\ UNCHANGED <<device, sessions>>

Adopt ==
  /\ device' \in 1..platform /\ device' > device
  /\ UNCHANGED <<platform, sessions>>

MixUp == sessions > 1 /\ device' = MixedUp /\ UNCHANGED <<platform, sessions>>

Next == Connect \/ Issue \/ Adopt \/ MixUp

Spec == Init /\ [][Next]_vars
=============================================================================
