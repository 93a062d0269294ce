------------------------------ MODULE MCMonitor ------------------------------
(* Instance of QEMUMonitorProtocol for TLC. *)
EXTENDS QEMUMonitorProtocol, TLC

CONSTANTS shutdown, stop

TwoNames == {shutdown, stop}
NameSymmetry == Permutations(TwoNames)

=============================================================================
