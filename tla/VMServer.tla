------------------------------ MODULE VMServer ------------------------------
(***************************************************************************)
(* Virtual machines run by sbin/slackware-qemu-vmserver.sh and             *)
(* etc/rc.d/rc.slackvirt.  Scripts are processes that interleave with one  *)
(* another, with the QEMUs they find by pgrep, and with the qmp-shells     *)
(* they leave behind in the background.                                    *)
(*                                                                         *)
(* A machine is known by its name only: the pattern of pgrep, the path of  *)
(* the monitor socket and the state file are made from it.  QEMUs are      *)
(* numbered in the order they are forked.  A monitor serves one client at  *)
(* a time; the others wait in the order they connected.                    *)
(***************************************************************************)
EXTENDS Integers, SequencesExt

CONSTANTS
  Names,      \* VMNAME of the configuration files
  Server,     \* the machine of server.qemu
  Desktop,    \* the machine of desktop-i440fx.qemu
  Covers,     \* pairs <<n, m>>: the pattern guest=n also matches guest=m
  Saved,      \* names with a state file in /srv/qemu
  Ops,        \* commands of slackware-qemu-vmserver.sh that are used
  Scripts,    \* invocations that may be in progress at one time
  MaxPolls,   \* polls of stop_vm before it forces the machine off (240)
  MaxRuns,    \* bound: invocations
  MaxQemus    \* bound: QEMUs forked

\* The commands of slackware-qemu-vmserver.sh.
AllOps == {"start", "stop", "wakeup", "resume", "pause", "save", "load", "status"}

\* A pattern matches the names that begin with its own.
ASSUME ServerAssumption ==
  /\ Server \in Names /\ Desktop \in Names
  /\ Covers \subseteq Names \X Names
  /\ \A n \in Names : <<n, n>> \in Covers
  /\ \A l, m, n \in Names : <<l, m>> \in Covers /\ <<m, n>> \in Covers => <<l, n>> \in Covers
  /\ Saved \subseteq Names
  /\ Ops \subseteq AllOps
  /\ MaxPolls \in Nat \ {0} /\ MaxRuns \in Nat /\ MaxQemus \in Nat

VARIABLES
  nqemus,   \* QEMUs forked so far
  qname,    \* the name each was started with
  qstate,   \* "unborn", "forked", "starting", "running", "paused", "suspended", "dead"
  clients,  \* the clients of each monitor, the one that is served first
  owner,    \* the QEMU that has bound the monitor socket of a name, 0 if there is none
  shells,   \* number of qmp-shells for a name and a command that are not connected yet
  pc,       \* of each script: "idle", "check", "fork", "send", "poll", "force", "kill"
  todo,     \* what is left of its invocation, as a sequence of [op, name]
  polls,    \* i
  seen,     \* history: the QEMUs the last stop has found running
  nruns,    \* history: invocations so far
  raced     \* history: names the last start of which has met another one

qemus == <<nqemus, qname, qstate, clients, owner>>
script == <<pc, todo, polls, seen, nruns>>
vars == <<qemus, shells, script, raced>>

Qemus == 1 .. MaxQemus
Commands == {"system_powerdown", "quit", "system_wakeup", "cont"}
Processes == Commands \cup {"minicom"}

\* A QEMU is a fork of bash first, then it can be seen by pgrep, then its monitor can
\* be reached.
Bound == {"running", "paused", "suspended"}
Visible == {"starting"} \cup Bound
Alive == {"forked"} \cup Visible

\* Machines may run already.
Init ==
  /\ nqemus \in 0 .. MaxQemus
  /\ qname \in [Qemus -> Names] /\ owner \in [Names -> 0 .. nqemus]
  /\ \A q \in Qemus : IF q <= nqemus THEN owner[qname[q]] = q ELSE qname[q] = Server
  /\ \A n \in Names : owner[n] # 0 => qname[owner[n]] = n
  /\ qstate = [q \in Qemus |-> IF q <= nqemus THEN "running" ELSE "unborn"]
  /\ clients = [q \in Qemus |-> <<>>]
  /\ shells = [n \in Names |-> [c \in Processes |-> 0]]
  /\ pc = [s \in Scripts |-> "idle"] /\ todo = [s \in Scripts |-> <<>>]
  /\ polls = [s \in Scripts |-> 0] /\ seen = [s \in Scripts |-> {}]
  /\ nruns = 0 /\ raced = {}

-----------------------------------------------------------------------------
(* pgrep *)

\* The QEMUs that pgrep finds for a name.
Found(n) == {q \in Qemus : qstate[q] \in Visible /\ <<n, qname[q]>> \in Covers}

Op(s) == Head(todo[s]).op
Name(s) == Head(todo[s]).name

\* The command line of a pgrep contains its pattern, so it is found by the pgrep
\* of another script at the same time.
OtherPgrep(s) ==
  \E t \in Scripts \ {s} : /\ pc[t] \in {"check", "poll", "kill"}
                           /\ <<Name(s), Name(t)>> \in Covers

\* pgrep for the name of the machine prints nothing, or something.
Nothing(s) == Found(Name(s)) = {}
Something(s) == Found(Name(s)) # {} \/ OtherPgrep(s)

-----------------------------------------------------------------------------
(* Invocations *)

Goto(s, step) == pc' = [pc EXCEPT ![s] = step]

\* One slackware-qemu-vmserver.sh ends; rc.slackvirt goes on with the next.
Finish(s) ==
  /\ todo' = [todo EXCEPT ![s] = Tail(@)]
  /\ Goto(s, IF Tail(todo[s]) = <<>> THEN "idle" ELSE "check")

Step(op, name) == [op |-> op, name |-> name]

\* What rc.slackvirt runs one after the other, and what is run alone.
RcRuns == {<<Step("start", Server), Step("start", Desktop)>>} \cup
          {<<Step(op, Desktop), Step(op, Server)>> : op \in {"stop", "pause", "resume"}}
OwnRuns == {<<Step(op, n)>> : op \in Ops, n \in Names}

Begin(s, run) ==
  /\ pc[s] = "idle" /\ nruns < MaxRuns
  /\ nruns' = nruns + 1
  /\ todo' = [todo EXCEPT ![s] = run]
  /\ Goto(s, "check")
  /\ UNCHANGED <<nqemus, qname, qstate, owner, shells, polls, seen, raced>>

BeginOwn(s) == (\E run \in OwnRuns : Begin(s, run)) /\ UNCHANGED clients

\* rc.slackvirt, whatever its argument, first kills the terminals that sit on a monitor.
KillTerminals ==
  clients' = [q \in Qemus |-> IF qstate[q] \in Bound
                             THEN SelectSeq(clients[q], LAMBDA c : c # "terminal")
                             ELSE <<>>]

BeginRc(s) == (\E run \in RcRuns : Begin(s, run)) /\ KillTerminals

\* And with reboot, status or anything else it does no more than that.
RcOnlyKills ==
  /\ KillTerminals
  /\ UNCHANGED <<nqemus, qname, qstate, owner, shells, script, raced>>

\* Every command but start and status exits if pgrep prints nothing; start exits
\* if it prints something, and status is over in any case.
Exits(s) ==
  /\ pc[s] = "check"
  /\ \/ Nothing(s) /\ Op(s) # "start"
     \/ Something(s) /\ Op(s) \in {"start", "status"}
  /\ Finish(s)
  /\ UNCHANGED <<qemus, shells, polls, seen, nruns, raced>>

\* Another start of this machine is past its check, and what it starts cannot be
\* seen by pgrep yet.
Rival(s) ==
  \/ \E t \in Scripts \ {s} : pc[t] = "fork" /\ Name(t) = Name(s)
  \/ \E q \in Qemus : qstate[q] = "forked" /\ qname[q] = Name(s)

\* What the check of a start has missed.
Races(s) ==
  raced' = IF Op(s) # "start" THEN raced
           ELSE IF Rival(s) THEN raced \cup {Name(s)} ELSE raced \ {Name(s)}

\* A mutant of GoesOn: start does not look whether the machine runs.
GoesOn_Blindly(s) ==
  /\ pc[s] = "check"
  /\ \/ Something(s) /\ Op(s) \notin {"start", "load", "status"} /\ Goto(s, "send")
     \/ Op(s) = "start" /\ Goto(s, "fork")
  /\ seen' = IF Op(s) = "stop" THEN [seen EXCEPT ![s] = Found(Name(s))] ELSE seen
  /\ Races(s)
  /\ UNCHANGED <<qemus, shells, todo, polls, nruns>>

GoesOn(s) ==
  /\ pc[s] = "check"
  /\ \/ Something(s) /\ Op(s) \notin {"start", "load", "status"} /\ Goto(s, "send")
     \/ Nothing(s) /\ Op(s) = "start" /\ Goto(s, "fork")
  /\ seen' = IF Op(s) = "stop" THEN [seen EXCEPT ![s] = Found(Name(s))] ELSE seen
  /\ Races(s)
  /\ UNCHANGED <<qemus, shells, todo, polls, nruns>>

\* A mutant of Load: load_vm() runs QEMU itself.
Load_Directly(s) ==
  /\ pc[s] = "check" /\ Op(s) = "load"
  /\ Goto(s, "fork")
  /\ UNCHANGED <<qemus, shells, todo, polls, seen, nruns, raced>>

\* load_vm() of a machine that runs is start_vm().
Load(s) ==
  /\ pc[s] = "check" /\ Op(s) = "load" /\ Something(s)
  /\ todo' = [todo EXCEPT ![s] = <<Step("start", Name(s))>> \o Tail(@)]
  /\ UNCHANGED <<qemus, shells, pc, polls, seen, nruns, raced>>

-----------------------------------------------------------------------------
(* start_vm() *)

\* $VMCMD & is a fork, and the script ends whether or not QEMU runs by then.  With a
\* state file the command is only printed; or the fork fails.
StartVM(s) ==
  /\ pc[s] = "fork"
  /\ \/ /\ Name(s) \notin Saved /\ nqemus < MaxQemus
        /\ nqemus' = nqemus + 1
        /\ qname' = [qname EXCEPT ![nqemus'] = Name(s)]
        /\ qstate' = [qstate EXCEPT ![nqemus'] = "forked"]
     \/ UNCHANGED <<nqemus, qname, qstate>>
  /\ Finish(s)
  /\ UNCHANGED <<clients, owner, shells, polls, seen, nruns, raced>>

-----------------------------------------------------------------------------
(* stop_vm(), wakeup_vm(), resume_vm(), pause_vm(), save_vm() *)

\* POWERDOWN_CMD
Command(op) ==
  CASE op = "stop" -> "system_powerdown"
    [] op = "wakeup" -> "system_wakeup"
    [] OTHER -> "cont"

\* echo ... | qmp-shell &, and minicom &
Background(n, C) ==
  shells' = [shells EXCEPT ![n] = [c \in Processes |-> @[c] + IF c \in C THEN 1 ELSE 0]]

Send(s) ==
  /\ pc[s] = "send"
  /\ Background(Name(s), {Command(Op(s))} \cup (IF Op(s) = "save" THEN {"minicom"} ELSE {}))
  /\ IF Op(s) = "stop"
     THEN Goto(s, "poll") /\ polls' = [polls EXCEPT ![s] = 0] /\ UNCHANGED todo
     ELSE Finish(s) /\ UNCHANGED polls
  /\ UNCHANGED <<qemus, seen, nruns, raced>>

PollEnds(s) ==
  /\ pc[s] = "poll" /\ Nothing(s)
  /\ Finish(s)
  /\ UNCHANGED <<qemus, shells, polls, seen, nruns, raced>>

\* A mutant of PollAgain: the machine is never forced off.
PollAgain_Patient(s) ==
  /\ pc[s] = "poll" /\ Something(s)
  /\ Goto(s, "poll")
  /\ UNCHANGED <<qemus, shells, todo, polls, seen, nruns, raced>>

PollAgain(s) ==
  /\ pc[s] = "poll" /\ Something(s)
  /\ polls' = [polls EXCEPT ![s] = @ + 1]
  /\ Goto(s, IF polls'[s] = MaxPolls THEN "force" ELSE "poll")
  /\ UNCHANGED <<qemus, shells, todo, seen, nruns, raced>>

\* A mutant of ForceOff: after quit, no kill.
ForceOff_Quits(s) ==
  /\ pc[s] = "force"
  /\ Background(Name(s), {"quit"})
  /\ Finish(s)
  /\ UNCHANGED <<qemus, polls, seen, nruns, raced>>

\* "force off"
ForceOff(s) ==
  /\ pc[s] = "force"
  /\ Background(Name(s), {"quit"})
  /\ Goto(s, "kill")
  /\ UNCHANGED <<qemus, todo, polls, seen, nruns, raced>>

\* kill -9 of whatever pgrep finds now.  The socket file stays.  The pgrep of a script
\* that is killed as well prints nothing: what it could find is dead with it, since
\* Covers is transitive, so that is what the script may read anyway.
Kill(s) ==
  /\ pc[s] = "kill"
  /\ qstate' = [q \in Qemus |-> IF q \in Found(Name(s)) THEN "dead" ELSE qstate[q]]
  /\ clients' = [q \in Qemus |-> IF q \in Found(Name(s)) THEN <<>> ELSE clients[q]]
  /\ Finish(s)
  /\ UNCHANGED <<nqemus, qname, owner, shells, polls, seen, nruns, raced>>

ScriptStep(s) ==
  \/ Exits(s) \/ GoesOn(s) \/ Load(s) \/ StartVM(s) \/ Send(s)
  \/ PollEnds(s) \/ PollAgain(s) \/ ForceOff(s) \/ Kill(s)

-----------------------------------------------------------------------------
(* QEMU, its monitor and the guest: external *)

\* From now on the command line is that of QEMU, with its name.
Exec(q) ==
  /\ qstate[q] = "forked"
  /\ qstate' = [qstate EXCEPT ![q] = "starting"]
  /\ UNCHANGED <<nqemus, qname, clients, owner, shells, script, raced>>

\* QEMU binds the path of its monitor, whoever had it, and runs.
BindMonitor(q) ==
  /\ qstate[q] = "starting"
  /\ qstate' = [qstate EXCEPT ![q] = "running"]
  /\ owner' = [owner EXCEPT ![qname[q]] = q]
  /\ UNCHANGED <<nqemus, qname, clients, shells, script, raced>>

\* A QEMU that ends removes the socket file, be it its own or not.
Ends(q) ==
  /\ qstate' = [qstate EXCEPT ![q] = "dead"]
  /\ clients' = [clients EXCEPT ![q] = <<>>]
  /\ owner' = [owner EXCEPT ![qname[q]] = 0]
  /\ UNCHANGED <<nqemus, qname, shells, script, raced>>

\* The guest shuts down, or QEMU fails.
QemuEnds(q) == qstate[q] \in Bound /\ Ends(q)

\* The execution fails, or QEMU does before it has bound anything.
ExecFails(q) ==
  /\ qstate[q] \in {"forked", "starting"}
  /\ qstate' = [qstate EXCEPT ![q] = "dead"]
  /\ UNCHANGED <<nqemus, qname, clients, owner, shells, script, raced>>

GuestSleeps(q) ==
  /\ qstate[q] = "running"
  /\ qstate' = [qstate EXCEPT ![q] = "suspended"]
  /\ UNCHANGED <<nqemus, qname, clients, owner, shells, script, raced>>

\* The path of the monitor of n exists and somebody listens.
Listens(n) == owner[n] \in {q \in Qemus : qstate[q] \in Bound}

\* A qmp-shell connects to the socket as it is now, or to nobody and ends.
\* The minicom of save_vm() may end for want of a terminal.  If not it writes a
\* command of the human monitor to the QMP socket, which does nothing, and stays.
Connect(n, c) ==
  /\ shells[n][c] > 0
  /\ shells' = [shells EXCEPT ![n][c] = @ - 1]
  /\ \/ Listens(n) /\ clients' = [clients EXCEPT ![owner[n]] = Append(@, c)]
     \/ (~Listens(n) \/ c = "minicom") /\ UNCHANGED clients
  /\ UNCHANGED <<nqemus, qname, qstate, owner, script, raced>>

\* A mutant of Serve: the qmp-shell does not leave at the end of its input.
Serve_Stays(q) ==
  /\ clients[q] # <<>> /\ Head(clients[q]) \in Commands
  /\ IF Head(clients[q]) = "quit"
     THEN Ends(q)
     ELSE /\ qstate' = [qstate EXCEPT ![q] =
               IF <<@, Head(clients[q])>> \in {<<"paused", "cont">>,
                                               <<"suspended", "system_wakeup">>}
               THEN "running" ELSE @]
          /\ UNCHANGED <<nqemus, qname, clients, owner, shells, script, raced>>

\* The client at the head has its command executed and leaves.
Serve(q) ==
  /\ clients[q] # <<>> /\ Head(clients[q]) \in Commands
  /\ IF Head(clients[q]) = "quit"
     THEN Ends(q)
     ELSE /\ qstate' = [qstate EXCEPT ![q] =
               IF <<@, Head(clients[q])>> \in {<<"paused", "cont">>,
                                               <<"suspended", "system_wakeup">>}
               THEN "running" ELSE @]
          /\ clients' = [clients EXCEPT ![q] = Tail(@)]
          /\ UNCHANGED <<nqemus, qname, owner, shells, script, raced>>

\* A terminal of the desktop (an xterm with minicom) sits on a monitor, and its
\* user pauses the machine or leaves.  One for each machine is enough.
OpenTerminal(q) ==
  /\ qstate[q] \in Bound /\ owner[qname[q]] = q
  /\ \A i \in DOMAIN clients[q] : clients[q][i] # "terminal"
  /\ clients' = [clients EXCEPT ![q] = Append(@, "terminal")]
  /\ UNCHANGED <<nqemus, qname, qstate, owner, shells, script, raced>>

UserPauses(q) ==
  /\ clients[q] # <<>> /\ Head(clients[q]) = "terminal" /\ qstate[q] = "running"
  /\ qstate' = [qstate EXCEPT ![q] = "paused"]
  /\ UNCHANGED <<nqemus, qname, clients, owner, shells, script, raced>>

Leave(q) ==
  /\ clients[q] # <<>> /\ Head(clients[q]) \in {"terminal", "minicom"}
  /\ clients' = [clients EXCEPT ![q] = Tail(@)]
  /\ UNCHANGED <<nqemus, qname, qstate, owner, shells, script, raced>>

QemuStep(q) ==
  \/ Exec(q) \/ BindMonitor(q) \/ QemuEnds(q) \/ ExecFails(q) \/ GuestSleeps(q)
  \/ Serve(q) \/ OpenTerminal(q) \/ UserPauses(q) \/ Leave(q)

Next ==
  \/ RcOnlyKills
  \/ \E s \in Scripts : BeginOwn(s) \/ BeginRc(s) \/ ScriptStep(s)
  \/ \E q \in Qemus : QemuStep(q)
  \/ \E n \in Names, c \in Processes : Connect(n, c)

\* A script is scheduled, a qmp-shell connects, and QEMU serves a client.
Fairness ==
  /\ \A s \in Scripts : WF_vars(ScriptStep(s))
  /\ \A q \in Qemus : WF_vars(Serve(q))
  /\ \A n \in Names, c \in Processes : WF_vars(Connect(n, c))

Spec == Init /\ [][Next]_vars /\ Fairness

-----------------------------------------------------------------------------
(* Properties *)

\* Type correctness (start_vm, stop_vm): what each script is doing, and that a
\* monitor has clients only while its QEMU lives.
TypeOK ==
  /\ nqemus \in 0 .. MaxQemus
  /\ qname \in [Qemus -> Names]
  /\ qstate \in [Qemus -> Alive \cup {"unborn", "dead"}]
  /\ owner \in [Names -> 0 .. nqemus]
  /\ DOMAIN clients = Qemus
  /\ shells \in [Names -> [Processes -> Nat]]
  /\ pc \in [Scripts -> {"idle", "check", "fork", "send", "poll", "force", "kill"}]
  /\ todo \in [Scripts -> Seq([op : AllOps, name : Names])]
  /\ polls \in [Scripts -> 0 .. MaxPolls]
  /\ seen \in [Scripts -> SUBSET Qemus]
  /\ nruns \in 0 .. MaxRuns /\ raced \subseteq Names
  /\ \A q \in Qemus : /\ qstate[q] = "unborn" <=> q > nqemus
                      /\ clients[q] # <<>> => qstate[q] \in Bound
  /\ \A s \in Scripts : pc[s] = "idle" <=> todo[s] = <<>>

\* A machine runs twice only if a start was past its check, and its QEMU not to be
\* seen by pgrep yet, when another start checked (start_vm): nothing else that scripts,
\* guests and terminals do, a load or a kill of what is starting included, leads there,
\* and the next start that meets no other one puts an end to it.
OneQEMUPerName ==
  \A p, q \in Qemus :
    qstate[p] \in Alive /\ qstate[q] \in Alive /\ qname[p] = qname[q] /\ qname[q] \notin raced
      => p = q

\* A machine that has bound its monitor can be reached there (start_vm) unless its start
\* met another: no QEMU that fails, ends or is killed while a later one comes up takes
\* the path away from it or leaves it in a state that keeps it away.
MonitorReachable ==
  \A q \in Qemus : qstate[q] \in Bound /\ qname[q] \notin raced => owner[qname[q]] = q

\* When a stop has returned (stop_vm), every QEMU it found running is dead: whether
\* the guest shut down, was forced off, or somebody else was first on the monitor.
StopStops ==
  \A s \in Scripts : pc[s] \notin {"send", "poll", "force", "kill"}
                       => \A q \in seen[s] : qstate[q] = "dead"

\* Every invocation ends (stop_vm), with guests that do not react and monitors that
\* are taken: no wait in a script depends on anybody else.
RunsEnd == \A s \in Scripts : pc[s] # "idle" ~> pc[s] = "idle"

\* The qmp-shells left in the background end once nobody sits on a monitor for ever.
Sitting == \E q \in Qemus : \E i \in DOMAIN clients[q] : clients[q][i] \notin Commands
ShellsEnd ==
  <>[](~Sitting) => <>[](/\ \A n \in Names, c \in Processes : shells[n][c] = 0
                        /\ \A q \in Qemus : clients[q] = <<>>)

=============================================================================
