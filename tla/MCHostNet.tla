------------------------------ MODULE MCHostNet ------------------------------
(* The network of the host on small instances. *)
EXTENDS HostNet

CONSTANTS s1, s2

MCShells == {s1, s2}
MCLength == [br |-> 1, lxc |-> 2, ap |-> 3, nat |-> 1]
MCPlace == [lxc |-> 1, ap |-> 2]

=============================================================================
