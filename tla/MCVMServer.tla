----------------------------- MODULE MCVMServer -----------------------------
(* Instances of VMServer for TLC: many starts of one machine, and two      *)
(* machines.                                                               *)
EXTENDS VMServer, TLC

CONSTANTS server, desktop, s1, s2

OneName == {server}
TwoNames == {server, desktop}

\* Each pattern matches its own name, or the name of the server begins with that
\* of the desktop.
Distinct == {<<n, n>> : n \in Names}
Prefix == Distinct \cup {<<desktop, server>>}

\* The scripts are the same program.
AnyScript == Permutations(Scripts)

=============================================================================
