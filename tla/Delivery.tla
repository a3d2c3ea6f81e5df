------------------------------ MODULE Delivery ------------------------------
(***************************************************************************)
(* What the bridge from the message queue promises the web goroutine: of   *)
(* each partition it is given messages that are there, in their order, no  *)
(* message twice. Messages may be passed over.                             *)
(***************************************************************************)
EXTENDS Naturals, Sequences

CONSTANT Partitions

VARIABLES
  length,   (* length[p]: messages the partition holds                     *)
  given     (* given[p]: the offsets of those given, in their order         *)

Init ==
  /\ length = [p \in Partitions |-> 0]
  /\ given  = [p \in Partitions |-> <<>>]

Produce(p) ==
  /\ length' = [length EXCEPT ![p] = @ + 1]
  /\ UNCHANGED given

Give(p) ==
  /\ \E o \in 0 .. length[p] - 1 :
       /\ \A i \in DOMAIN given[p] : given[p][i] < o
       /\ given' = [given EXCEPT ![p] = Append(@, o)]
  /\ UNCHANGED length

Next == \E p \in Partitions : Produce(p) \/ Give(p)

Spec == Init /\ [][Next]_<<length, given>>
=============================================================================
