----------------------------- MODULE MCMqBridge -----------------------------
(***************************************************************************)
(* The behaviours of MqBridge that TLC explores. Where the producers fail  *)
(* there are two of them, and one elsewhere.                               *)
(***************************************************************************)
EXTENDS MqBridge

CONSTANTS k1, k2

Instance(places, fault, bad, crash, routines) ==
  [at |-> places, fault |-> fault, garbage |-> bad, crash |-> crash, starts |-> routines]

All == {Instance({}, 0, 0, 2, {k1}),             (* processes that end     *)
        Instance({"read"}, 1, 1, 0, {k1}),       (* Read meets an error    *)
        Instance({"read"}, 1, 0, 1, {k1}),       (* and the process ends   *)
        Instance({"setup"}, 1, 0, 1, {k1}),      (* NewConsumer does, too  *)
        Instance({"start"}, 2, 0, 0, {k1, k2}),  (* NewProducer does       *)
        Instance({"send"}, 1, 1, 0, {k1, k2})}   (* a reply is not sent    *)
=============================================================================
