----------------------------- MODULE MCMachines -----------------------------
(* Instance of QEMUMachines for TLC. *)
EXTENDS QEMUMachines, TLC

CONSTANTS vm1, vm2

TwoMachines == {vm1, vm2}

\* Both machines have the name that the process gives them.
DefaultName == [m \in TwoMachines |-> "qemu-1"]

MachineSymmetry == Permutations(TwoMachines)

=============================================================================
