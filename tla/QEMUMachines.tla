---------------------------- MODULE QEMUMachines ----------------------------
(***************************************************************************)
(* The machines of one test: QEMUMachine of share/python/qemu/machine.py   *)
(* and QEMUQtestMachine of share/python/qemu/qtest.py, made and used by a  *)
(* program with one thread, so that one call on one machine is in progress *)
(* at a time.  QEMUMachine (the module) is about the life cycle of one of  *)
(* them; this one about what they are started with, what they share, and   *)
(* the console and qtest connections to the QEMU that is running.          *)
(*                                                                         *)
(* Machines share the file system: the default name is "qemu-PID", the     *)
(* same for all of them, and the qtest socket is outside of the temporary  *)
(* directory.  Launches are numbered; the number names the QEMU and the    *)
(* temporary directory of a launch.  A list of arguments is an object that *)
(* may be known by two names.                                              *)
(***************************************************************************)
EXTENDS Integers, Sequences

CONSTANTS
  Machines,  \* objects of the two classes
  Caller,    \* the list the program makes machines with
  Name,      \* the name of each machine: the same if it is left to the default
  Extra,     \* arguments for add_args()
  Devices,   \* device types for set_console(), "default" for None
  MaxRuns,   \* bound: launches
  MaxAdds,   \* bound: arguments added and settings made
  MaxCmds,   \* bound: qtest commands
  MaxIrqs    \* bound: interrupts reported

ASSUME MachinesAssumption ==
  /\ Caller \notin Machines
  /\ DOMAIN Name = Machines
  /\ "unset" \notin Devices
  /\ MaxRuns \in Nat /\ MaxAdds \in Nat /\ MaxCmds \in Nat /\ MaxIrqs \in Nat

VARIABLES
  lists,  \* the contents of each list object
  vm,     \* the attributes of each machine
  qemu,   \* the QEMU of each launch
  qfile,  \* the launch that bound the qtest socket file of a name, 0 if there is none
  pc,     \* "idle", in launch() "monitor" and "qtest" (the accept()s), "read" in qtest()
  cur,    \* the machine of the call in progress, or of the last one
  got,    \* what the last qtest() returned: <<launch, command>>, command 0 for an IRQ line
  nruns,  \* history: launches so far
  nadds,  \* history: arguments and settings so far
  ncmds,  \* history: qtest commands so far
  nirqs,  \* history: interrupts reported so far
  own     \* history: the arguments each machine was made with and those added to it

counts == <<nruns, nadds, ncmds, nirqs>>
vars == <<lists, vm, qemu, qfile, pc, cur, got, counts, own>>

Lists == Machines \cup {Caller}
Runs == 1 .. MaxRuns
Names == {Name[m] : m \in Machines}
Nothing == <<0, 0>>
Arguments == Extra \cup {"-monitor", "null", "-add-fd", "fd"}

\* What a machine is before it was made.  The console socket is -1 while it is
\* not connected; qtest is the launch of the protocol object, knock the QEMU that
\* waits to be accepted, peer the one accepted, reader that of _sockfile.
NoMachine == [class |-> "none", args |-> Caller, type |-> "unset", console |-> "unset",
              address |-> 0, socket |-> 0, dir |-> 0, launched |-> FALSE, popen |-> 0,
              qtest |-> 0, knock |-> 0, peer |-> 0, reader |-> 0]

\* A QEMU: state is "started", "up" (on its monitor), "joined" (on qtest, too), "dead".
NoQEMU == [state |-> "none", line |-> <<>>, lines |-> <<>>, sent |-> 0, answered |-> 0,
           late |-> 0]

Alive(r) == qemu[r].state \in {"started", "up", "joined"}
IsQtest(m) == vm[m].class = "qtest"
Idle(m) == pc = "idle" /\ vm[m].class # "none"

Init ==
  /\ lists = [l \in Lists |-> <<>>]
  /\ vm = [m \in Machines |-> NoMachine]
  /\ qemu = [r \in Runs |-> NoQEMU]
  /\ qfile = [n \in Names |-> 0]
  /\ pc = "idle" /\ cur \in Machines /\ got = Nothing
  /\ nruns = 0 /\ nadds = 0 /\ ncmds = 0 /\ nirqs = 0
  /\ own = [m \in Machines |-> <<>>]

-----------------------------------------------------------------------------
(* Arguments and settings *)

\* Mutant: a list that is given is not copied.
Initial_Shares(m, c, a) ==
  /\ lists' = lists
  /\ vm' = [vm EXCEPT ![m].class = c, ![m].args = IF a THEN Caller ELSE m]

\* The attributes of a new machine: its own list, a copy of args or empty.
Initial(m, c, a) ==
  /\ lists' = [lists EXCEPT ![m] = IF a THEN lists[Caller] ELSE <<>>]
  /\ vm' = [vm EXCEPT ![m].class = c, ![m].args = m]

\* Calling the class, with the list of the program as args or without it.
New(m, c, a) ==
  /\ pc = "idle" /\ vm[m].class = "none"
  /\ Initial(m, c, a)
  /\ own' = [own EXCEPT ![m] = IF a THEN lists[Caller] ELSE <<>>]
  /\ UNCHANGED <<qemu, qfile, pc, cur, got, counts>>

Changes == nadds < MaxAdds /\ nadds' = nadds + 1 /\ UNCHANGED <<nruns, ncmds, nirqs>>

\* The program goes on with the list it made a machine with.
CallerAppends(x) ==
  /\ pc = "idle" /\ Changes
  /\ lists' = [lists EXCEPT ![Caller] = Append(@, x)]
  /\ UNCHANGED <<vm, qemu, qfile, pc, cur, got, own>>

Extend(m, s) ==
  /\ Idle(m) /\ Changes
  /\ lists' = [lists EXCEPT ![vm[m].args] = @ \o s]
  /\ own' = [own EXCEPT ![m] = @ \o s]
  /\ UNCHANGED <<vm, qemu, qfile, pc, cur, got>>

AddArgs(m, x) == Extend(m, <<x>>)
AddMonitorNull(m) == Extend(m, <<"-monitor", "null">>)

\* The descriptor is inheritable from here on, for QEMUs of all machines.
AddFd(m) == Extend(m, <<"-add-fd", "fd">>)

Set(m, v) ==
  /\ Idle(m) /\ Changes
  /\ vm' = [vm EXCEPT ![m] = v]
  /\ UNCHANGED <<lists, qemu, qfile, pc, cur, got, own>>

SetMachine(m) == Set(m, [vm[m] EXCEPT !.type = "machine"])
SetConsole(m, d) == Set(m, [vm[m] EXCEPT !.console = d])

-----------------------------------------------------------------------------
(* Launch *)

Opt(o, v, d) == [opt |-> o, val |-> v, dir |-> d]
Present(c, s) == IF c THEN s ELSE <<>>

\* _base_args(), of either class, in the temporary directory d.
BaseArgs(m, d) ==
  <<Opt("mon", "control", d)>>
    \o Present(vm[m].type # "unset", <<Opt("machine", vm[m].type, 0)>>)
    \o Present(vm[m].console # "unset",
               <<Opt("chardev", "console", d), Opt("device", vm[m].console, 0)>>)
    \o Present(IsQtest(m), <<Opt("qtest", Name[m], 0), Opt("machine", "accel=qtest", 0)>>)

CommandLine(m, d) ==
  BaseArgs(m, d) \o [i \in DOMAIN lists[vm[m].args] |-> Opt("arg", lists[vm[m].args][i], 0)]

Options(r) == {qemu[r].line[i] : i \in DOMAIN qemu[r].line}

\* Mutant: the console socket is not closed.
CleanedUp_KeepsConsole(v) == [v EXCEPT !.dir = 0]

\* _post_shutdown() of a machine.
CleanedUp(v) == [v EXCEPT !.socket = 0, !.dir = 0]

\* Mutant: _post_shutdown() of a qtest machine leaves the socket file.
RemovesSocket_Not(m) == qfile' = qfile

\* _remove_if_exists(): the file goes, whoever bound it.
RemovesSocket(m) ==
  qfile' = IF IsQtest(m) THEN [qfile EXCEPT ![Name[m]] = 0] ELSE qfile

\* shutdown() up to the cleanup: the QEMU has quit or was killed, and was waited for.
Gone(r) == qemu' = IF r = 0 THEN qemu ELSE [qemu EXCEPT ![r].state = "dead"]

\* shutdown(), by itself or called by a launch() that fails.
TearsDown(m) ==
  /\ Gone(vm[m].popen)
  /\ RemovesSocket(m)
  /\ vm' = [vm EXCEPT ![m] = [CleanedUp(@) EXCEPT !.launched = FALSE]]

\* bind() of the qtest socket fails on the file of another machine.
LaunchRefused(m) ==
  /\ Idle(m) /\ ~vm[m].launched
  /\ IsQtest(m) /\ qfile[Name[m]] # 0
  /\ cur' = m
  /\ TearsDown(m)
  /\ UNCHANGED <<lists, pc, got, counts, own>>

\* launch() up to the accept() of the monitor.
Launch(m) ==
  /\ Idle(m) /\ ~vm[m].launched /\ nruns < MaxRuns
  /\ IsQtest(m) => qfile[Name[m]] = 0
  /\ LET r == nruns + 1 IN
     /\ nruns' = r
     /\ qfile' = IF IsQtest(m) THEN [qfile EXCEPT ![Name[m]] = r] ELSE qfile
     /\ qemu' = [qemu EXCEPT ![r].state = "started", ![r].line = CommandLine(m, r)]
     /\ vm' = [vm EXCEPT ![m] =
                 [@ EXCEPT !.dir = r, !.popen = r,
                           !.address = IF vm[m].console = "unset" THEN vm[m].address ELSE r,
                           !.qtest = IF IsQtest(m) THEN r ELSE 0,
                           !.knock = 0, !.peer = 0, !.reader = 0]]
  /\ pc' = "monitor" /\ cur' = m
  /\ UNCHANGED <<lists, got, nadds, ncmds, nirqs, own>>

Up(m) == vm' = [vm EXCEPT ![m].launched = TRUE]

\* The monitor of QEMU is accepted and has negotiated.
AcceptMonitor ==
  /\ pc = "monitor" /\ qemu[vm[cur].popen].state \in {"up", "joined"}
  /\ IF IsQtest(cur) THEN pc' = "qtest" /\ UNCHANGED vm ELSE pc' = "idle" /\ Up(cur)
  /\ UNCHANGED <<lists, qemu, qfile, cur, got, counts, own>>

\* Mutant: the file object of an earlier accept() is kept.
AcceptQtest_KeepsFile ==
  /\ pc = "qtest" /\ vm[cur].knock # 0
  /\ vm' = [vm EXCEPT ![cur].peer = vm[cur].knock, ![cur].launched = TRUE]
  /\ pc' = "idle"
  /\ UNCHANGED <<lists, qemu, qfile, cur, got, counts, own>>

\* accept() of the qtest socket, which has no timeout.
AcceptQtest ==
  /\ pc = "qtest" /\ vm[cur].knock # 0
  /\ vm' = [vm EXCEPT ![cur].peer = vm[cur].knock, ![cur].reader = vm[cur].knock,
                      ![cur].launched = TRUE]
  /\ pc' = "idle"
  /\ UNCHANGED <<lists, qemu, qfile, cur, got, counts, own>>

\* The monitor is not accepted in 15 seconds, or the user presses Ctrl-C.
LaunchFails ==
  /\ pc = "monitor" \/ pc = "qtest"
  /\ pc' = "idle"
  /\ TearsDown(cur)
  /\ UNCHANGED <<lists, cur, got, counts, own>>

-----------------------------------------------------------------------------
(* Other calls *)

Shutdown(m) ==
  /\ Idle(m)
  /\ cur' = m
  /\ TearsDown(m)
  /\ UNCHANGED <<lists, pc, got, counts, own>>

\* wait() returns once QEMU has ended; _launched stays as it is.
Wait(m) ==
  /\ Idle(m) /\ vm[m].popen # 0 /\ qemu[vm[m].popen].state = "dead"
  /\ cur' = m
  /\ RemovesSocket(m)
  /\ vm' = [vm EXCEPT ![m] = CleanedUp(@)]
  /\ UNCHANGED <<lists, qemu, pc, got, counts, own>>

\* Is QEMU listening at a console address, and the path still there?
Listens(m) ==
  LET a == vm[m].address IN
  /\ a # 0 /\ vm[m].dir = a
  /\ Opt("chardev", "console", a) \in Options(a)
  /\ qemu[a].state \in {"up", "joined"}

\* console_socket: the socket is stored before it is connected, and stays if
\* connect() raises.
ConsoleSocket(m) ==
  /\ Idle(m) /\ vm[m].socket = 0
  /\ vm' = [vm EXCEPT ![m].socket = IF Listens(m) THEN vm[m].address ELSE -1]
  /\ UNCHANGED <<lists, qemu, qfile, pc, cur, got, counts, own>>

\* qtest() sends a command; to a QEMU that is gone it raises.
Qtest(m) ==
  /\ Idle(m) /\ vm[m].peer # 0
  /\ LET r == vm[m].peer IN
     /\ qemu[r].state = "joined"
     /\ qemu' = [qemu EXCEPT ![r].sent = @ + 1]
  /\ ncmds < MaxCmds /\ ncmds' = ncmds + 1
  /\ pc' = "read" /\ cur' = m
  /\ UNCHANGED <<lists, vm, qfile, got, nruns, nadds, nirqs, own>>

\* It returns the next line, whatever that is; at the end of file an empty one.
ReadLine ==
  /\ pc = "read" /\ pc' = "idle"
  /\ LET r == vm[cur].reader IN
     \/ /\ qemu[r].lines # <<>>
        /\ got' = <<r, Head(qemu[r].lines)>>
        /\ qemu' = [qemu EXCEPT ![r].lines = Tail(@),
                                ![r].late = IF Head(qemu[r].lines) = 0 THEN @ + 1 ELSE @]
     \/ /\ qemu[r].lines = <<>> /\ ~Alive(r)
        /\ got' = Nothing
        /\ UNCHANGED qemu
  /\ UNCHANGED <<lists, vm, qfile, cur, counts, own>>

\* Mutant: a command whose read raised is sent again.
ReadRaises_Resends ==
  /\ pc = "read" /\ got' = Nothing
  /\ qemu' = [qemu EXCEPT ![vm[cur].peer].sent = @ + 1]
  /\ UNCHANGED <<lists, vm, qfile, pc, cur, counts, own>>

\* Ctrl-C, or a timeout that was set on the socket, while it waits for the line.
\* readline() may drop the beginning of the line: what is left of it is read in its
\* place, and counts as the line.
ReadRaises ==
  /\ pc = "read" /\ pc' = "idle" /\ got' = Nothing
  /\ qemu' = [qemu EXCEPT ![vm[cur].peer].late = @ + 1]
  /\ UNCHANGED <<lists, vm, qfile, cur, counts, own>>

-----------------------------------------------------------------------------
(* QEMU *)

QemuDies(r) ==
  /\ Alive(r)
  /\ qemu' = [qemu EXCEPT ![r].state = "dead"]
  /\ UNCHANGED <<lists, vm, qfile, pc, cur, got, counts, own>>

\* It connects to the monitor and listens on the console, in its own directory.
MonitorConnects(r) ==
  /\ qemu[r].state = "started"
  /\ \E m \in Machines : vm[m].dir = r
  /\ qemu' = [qemu EXCEPT ![r].state = "up"]
  /\ UNCHANGED <<lists, vm, qfile, pc, cur, got, counts, own>>

\* It connects to whoever listens at the qtest path, or exits.
QtestConnects(r, n) ==
  /\ qemu[r].state = "up" /\ Opt("qtest", n, 0) \in Options(r)
  /\ LET listeners == {m \in Machines : qfile[n] # 0 /\ vm[m].qtest = qfile[n] /\ vm[m].peer = 0} IN
     \/ \E m \in listeners :
          /\ vm[m].knock = 0
          /\ vm' = [vm EXCEPT ![m].knock = r]
          /\ qemu' = [qemu EXCEPT ![r].state = "joined"]
     \/ /\ listeners = {}
        /\ qemu' = [qemu EXCEPT ![r].state = "dead"]
        /\ UNCHANGED vm
  /\ UNCHANGED <<lists, qfile, pc, cur, got, counts, own>>

QtestReplies(r) ==
  /\ qemu[r].state = "joined" /\ qemu[r].answered < qemu[r].sent
  /\ qemu' = [qemu EXCEPT ![r].lines = Append(@, qemu[r].answered + 1),
                          ![r].answered = @ + 1]
  /\ UNCHANGED <<lists, vm, qfile, pc, cur, got, counts, own>>

\* An interrupt that an earlier command asked to be told of.
QtestIrq(r) ==
  /\ qemu[r].state = "joined" /\ qemu[r].answered > 0
  /\ nirqs < MaxIrqs /\ nirqs' = nirqs + 1
  /\ qemu' = [qemu EXCEPT ![r].lines = Append(@, 0)]
  /\ UNCHANGED <<lists, vm, qfile, pc, cur, got, nruns, nadds, ncmds, own>>

Next ==
  \/ \E m \in Machines :
       \/ \E c \in {"plain", "qtest"}, a \in BOOLEAN : New(m, c, a)
       \/ \E x \in Extra : AddArgs(m, x)
       \/ AddMonitorNull(m) \/ AddFd(m) \/ SetMachine(m)
       \/ \E d \in Devices : SetConsole(m, d)
       \/ Launch(m) \/ LaunchRefused(m) \/ Shutdown(m) \/ Wait(m)
       \/ ConsoleSocket(m) \/ Qtest(m)
  \/ \E x \in Extra : CallerAppends(x)
  \/ AcceptMonitor \/ AcceptQtest \/ LaunchFails \/ ReadLine \/ ReadRaises
  \/ \E r \in Runs :
       \/ QemuDies(r) \/ MonitorConnects(r) \/ QtestReplies(r) \/ QtestIrq(r)
       \/ \E n \in Names : QtestConnects(r, n)

Spec == Init /\ [][Next]_vars

-----------------------------------------------------------------------------
(* Properties *)

VMs == [class : {"none", "plain", "qtest"}, args : Lists, type : {"unset", "machine"},
        console : Devices \cup {"unset"}, address : Runs \cup {0},
        socket : Runs \cup {-1, 0}, dir : Runs \cup {0}, launched : BOOLEAN,
        popen : Runs \cup {0}, qtest : Runs \cup {0}, knock : Runs \cup {0},
        peer : Runs \cup {0}, reader : Runs \cup {0}]

LineOptions ==
  [opt : {"mon", "machine", "chardev", "device", "qtest", "arg"},
   val : Arguments \cup Devices \cup Names \cup {"control", "machine", "console", "accel=qtest"},
   dir : Runs \cup {0}]

QEMUs == [state : {"none", "started", "up", "joined", "dead"}, line : Seq(LineOptions),
          lines : Seq(Nat), sent : Nat, answered : Nat, late : Nat]

\* Every variable keeps its type: the attributes of machine.py:93-114 and qtest.py:93,
\* and what is known of each QEMU.
TypeOK ==
  /\ lists \in [Lists -> Seq(Arguments)] /\ own \in [Machines -> Seq(Arguments)]
  /\ vm \in [Machines -> VMs]
  /\ qemu \in [Runs -> QEMUs]
  /\ qfile \in [Names -> Runs \cup {0}]
  /\ pc \in {"idle", "monitor", "qtest", "read"} /\ cur \in Machines
  /\ got \in (Runs \cup {0}) \X Nat
  /\ nruns \in 0 .. MaxRuns /\ nadds \in Nat /\ ncmds \in Nat /\ nirqs \in Nat

\* A machine is started with the arguments it was made with and those added to it,
\* whatever happens to the list of the program or to another machine made with it
\* (machine.py:100, "Force copy args in case we modify them").
ArgumentsAreOwn ==
  \A m \in Machines : vm[m].class # "none" => lists[vm[m].args] = own[m]

\* A console socket that is connected leads to the QEMU of the last launch, in the
\* temporary directory of now: nobody talks to the console of an earlier run
\* (machine.py:269-271, 523-532).
ConsoleOfThisRun ==
  \A m \in Machines :
    vm[m].socket \in Runs => vm[m].socket = vm[m].popen /\ vm[m].dir = vm[m].popen

\* The qtest connection of a machine that is launched, and the file its answers are
\* read from, are those of its own QEMU of this launch, although machines share the
\* path and QEMUs of launches that failed may be late (qtest.py:61-63, 102-104).
QtestOfThisRun ==
  \A m \in Machines :
    vm[m].launched /\ IsQtest(m) => vm[m].peer = vm[m].popen /\ vm[m].reader = vm[m].popen

\* What qtest() returns comes from the QEMU that runs; an answer is that to the
\* command just sent, but for as many commands as there were interrupts returned in
\* place of an answer and reads that raised (qtest.py:71-73).
AnswersInStep ==
  [][ pc = "read" /\ pc' = "idle" /\ got' # Nothing =>
        LET r == vm[cur].popen IN
        /\ got'[1] = r
        /\ got'[2] # 0 => got'[2] + qemu[r].late = qemu[r].sent ]_vars

\* A launch is refused for a qtest socket file only while another machine of the
\* same name is up: what a machine leaves behind never stands in the way of its
\* own next launch (qtest.py:112-114).
RefusedByAnother ==
  \A m \in Machines :
    Idle(m) /\ ~vm[m].launched /\ qfile[Name[m]] # 0 =>
      \E o \in Machines \ {m} :
        Name[o] = Name[m] /\ vm[o].launched /\ vm[o].popen = qfile[Name[m]]

=============================================================================
