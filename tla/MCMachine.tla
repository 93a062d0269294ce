------------------------------ MODULE MCMachine ------------------------------
(* Instance of QEMUMachine for TLC. *)
EXTENDS QEMUMachine

\* Everything that may fail in launch(), and everything but what breaks its cleanup.
AllFaults == {"mkdtemp", "log", "bind", "popen", "accept", "refused"}
CleanFaults == AllFaults \ {"log"}

=============================================================================
