---------------------------- MODULE MonitorService ----------------------------
(***************************************************************************)
(* What callers of a QMP connection rely on, without sockets, lines, caches *)
(* or timeouts: at most one command is outstanding, an answer is the answer *)
(* to it, and an event that happened stays available until it is taken.    *)
(***************************************************************************)
EXTENDS Integers

CONSTANTS maxCalls, maxEvents

VARIABLES
  up,           \* is there a connection?
  calls,        \* commands sent
  outstanding,  \* is the last one unanswered and waited for?
  answered,     \* the command answered last
  known,        \* events that happened
  pending,      \* those not taken yet
  taken         \* those handed to the caller

vars == <<up, calls, outstanding, answered, known, pending, taken>>

Init ==
  /\ up = FALSE /\ calls = 0 /\ outstanding = FALSE /\ answered = 0
  /\ known = 0 /\ pending = {} /\ taken = {}

Connect ==
  /\ ~up /\ calls = 0 /\ up' = TRUE
  /\ UNCHANGED <<calls, outstanding, answered, known, pending, taken>>

Issue ==
  /\ up /\ ~outstanding /\ calls < maxCalls
  /\ calls' = calls + 1 /\ outstanding' = TRUE
  /\ UNCHANGED <<up, answered, known, pending, taken>>

Answer ==
  /\ outstanding
  /\ outstanding' = FALSE /\ answered' = calls
  /\ UNCHANGED <<up, calls, known, pending, taken>>

\* The connection ended before the answer.
NoAnswer ==
  /\ outstanding
  /\ outstanding' = FALSE
  /\ UNCHANGED <<up, calls, answered, known, pending, taken>>

Happen ==
  /\ up /\ known < maxEvents
  /\ known' = known + 1 /\ pending' = pending \cup {known + 1}
  /\ UNCHANGED <<up, calls, outstanding, answered, taken>>

Take(S) ==
  /\ S # {}
  /\ pending' = pending \ S /\ taken' = taken \cup S
  /\ UNCHANGED <<up, calls, outstanding, answered, known>>

\* Events not read yet go with the connection.
Disconnect ==
  /\ up /\ ~outstanding
  /\ up' = FALSE
  /\ pending' \in SUBSET pending
  /\ UNCHANGED <<calls, outstanding, answered, known, taken>>

Next ==
  \/ Connect \/ Issue \/ Answer \/ NoAnswer \/ Happen \/ Disconnect
  \/ \E S \in SUBSET pending : Take(S)

Spec == Init /\ [][Next]_vars

=============================================================================
