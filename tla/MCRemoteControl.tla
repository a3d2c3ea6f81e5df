-------------------------- MODULE MCRemoteControl --------------------------
(***************************************************************************)
(* The behaviours of RemoteControl that TLC explores; operations and       *)
(* commands are model values of the configuration.                         *)
(***************************************************************************)
EXTENDS RemoteControl

Instance(ask, times, expire, fault, break) ==
  [ask |-> ask, times |-> times, expire |-> expire, fault |-> fault, break |-> break]

All == {Instance(Operations, 3, 0, 0, 0),   (* nothing fails               *)
        Instance(Commands, 3, 0, 1, 1),     (* no timer runs out           *)
        Instance(Operations, 3, 1, 1, 0),
        Instance(Operations, 3, 2, 0, 0),   (* late answers                *)
        Instance(Commands, 2, 2, 1, 1)}     (* everything                  *)
=============================================================================
