# slackvirt in TLA+

slackvirt turns a Slackware laptop into a host of QEMU virtual machines.  Shell
scripts start and stop the machines, the host network and the boot order; a Python
library (a copy of the one of QEMU's own test suite) launches a QEMU and talks to
its monitor; `qmp-shell` and `qmp` are front ends of that library.  This directory
holds TLA+ models of the parts of it that keep state, TLC configurations that check
them on small instances, and proofs that TLAPS checks for every instance.

Paths below are relative to the root of the repository; `qmp.py`, `machine.py`
and `qtest.py` stand for the files of that name under `share/python/qemu/`.
`PROJECT.json` says for each definition which lines it models.

## 1. Inventory

| Component | Source | State | Operations | Interacts with |
|---|---|---|---|---|
| QMP client | `qmp.py` | the socket and its timeout, the file object's buffer, the cache `__events` | `connect`, `accept`, `cmd`, `pull_event`, `get_events`, `clear_events`, `settimeout`, `close` | QEMU's monitor, which sends events between the answers |
| Events of a machine | `machine.py:385-474` | the queue `_events` | `get_qmp_event(s)`, `event_wait`, `events_wait`, `event_match` | the QMP client's cache and socket |
| Machine life cycle | `machine.py`, `qtest.py:79-118` | `_launched`, `_popen`, `_qmp`, the log, the temporary directory, socket files | `launch`, `wait`, `shutdown`, `is_running` | the QEMU process, the QMP client |
| Arguments and console | `machine.py:126-150`, `226-249`, `483-532` | the list of arguments, the type of machine and console, the console socket | `add_args`, `add_monitor_null`, `add_fd`, `set_machine`, `set_console`, `console_socket` | the caller's list, the command line of QEMU |
| qtest protocol | `qtest.py` | a socket and its file object, a socket file that machines of one name share | `accept`, `cmd`, `close` | QEMU's qtest server |
| qmp-shell | `share/qemu/qmp/qmp-shell` | transaction mode and its actions, completion, HMP's current CPU | command builder, `send_cmd`, HMP pass-through | the QMP client |
| qmp | `share/qemu/qmp/qmp` | none | one command per run | the QMP client |
| VM server | `sbin/slackware-qemu-vmserver.sh`, `etc/rc.d/rc.slackvirt`, `etc/minicom/*`, `sbin/ssh-shutdown-vms.sh` | QEMU processes found by `pgrep`, monitor sockets and state files on disk | `start`, `stop`, `pause`, `resume`, `wakeup`, `save`, `load`, `status` | QEMU over `qmp-shell` and `minicom` |
| CPU and device hotplug | `sbin/vm-cpu-hotplug.sh`, `sbin/qemu-device-add.sh`, `etc/pm/power.d/vm-cpus.sh` | the CPUs of a guest, those it was asked to give up | add or remove CPUs on a power event | QEMU over `qmp-shell` |
| Host network | `sbin/iptables-*.sh`, `etc/rc.d/rc.qemubridge` | chains of rules, three bridges, a veth | `start`, `stop`, `restart` | the machines' interfaces |
| Wireless access point | `etc/rc.d/rc.wifi-ap`, `rc.local-wireless` | daemons of other programs | `start`, `stop` | hostapd, dhcpd, wpa_supplicant |
| Boot and shutdown order | `etc/rc.d/rc.local-slackvirt`, `rc.local_shutdown-slackvirt`, `rc.cryptsetup`, `rc.sshd` | which services are up | start and stop in sequence | all of the above |
| notemon | `src/notemon/notemon.c` | one reused buffer | reads the battery files, prints | sysfs |
| Toggles | `sbin/toogle-wifi.sh`, `intel-performance-state.sh`, `etc/pm/power.d/intel-governor.sh`, `wpa_*` | one kernel setting each, the governor one for each CPU | read and write it back | the kernel |
| Menus and monitors | `bin/*`, `sbin/*tmux*`, `xterms.sh`, `ping-vms.sh` | none | display | - |
| Configuration | `etc/slackvirt/**` | none | variables the VM server sources | - |

### Which behaviours are hard

* QEMU is another process: it dies between any two steps of the library, and events
  arrive between a command and its answer.
* A read may raise half way: a timeout (`events_wait` and `get_qmp_event` have one,
  60 seconds and the caller's), `EAGAIN` on a socket that was left nonblocking, a
  line of which only a part is there.  The library has one socket with one timeout
  for all its calls, so what one call leaves behind the next one finds.
* An event sits on the socket, in the protocol's cache, or in the machine's queue,
  and each call looks at them in its own order.
* `launch()` fails at any of its steps and cleans up by calling `shutdown()`, which
  itself relies on what the launch has or has not done.
* `wait()` does not reset `_launched`, a failed launch leaves `_popen` and `_qmp` of
  the previous run, and all of them are used again by the next launch.
* Machines of one program have the same name unless they are given another, and so the
  same qtest socket file; the list of arguments is the caller's own object.
* Of the scripts: two invocations at once, processes found by a name pattern, a
  monitor that serves one client at a time, rules added twice.
* A guest gives up a CPU when it likes, so power events come while an earlier one is
  still being obeyed.

### What makes each component correct

* QMP client: a command returns the answer to that command; events are neither lost
  nor copied nor reordered; a call that succeeds leaves the socket as it was.
* Events of a machine: a wait does not sleep on an event that is there; the oldest
  match is returned, and a match is what the comment of `event_match()` says it is.
* Life cycle: no QEMU outlives its machine or is signalled after it was waited for,
  one QEMU at a time, the monitor is connected while QEMU runs, the log is that of
  the last run, nothing stays on disk, `launch()` and `shutdown()` end.
* Arguments, console, qtest: a machine is started with its own arguments and no other's;
  its connections lead to its own QEMU of this launch; an answer is that to the command.
* qmp-shell: the object sent is the one typed; leaving a transaction sends exactly
  its actions.
* VM server: at most one QEMU per name, unless two starts of it meet; what a `stop` has
  found running is dead when it returns.
* Hotplug and governor: guest and host follow the last script that ran alone.
* Network: `stop` undoes `start`, of one script and in spite of the others; the bridges
  are whole after a `start` and gone after a `stop`.

`PROJECT.json` lists, under `hazards`, the lines at which each of these can go wrong
and the properties that watch over it.

## 2. Modules

| Module | Models |
|---|---|
| `QEMUMonitorProtocol` | `qmp.py` and the event calls of `machine.py` |
| `MonitorService` | what callers rely on, without sockets: implemented by the above |
| `MCMonitor` | TLC instance |
| `QEMUMonitorProtocol_proofs` | proofs |
| `QEMUMachine` | `launch`, `wait`, `shutdown` of `machine.py` and `qtest.py` |
| `MCMachine` | TLC instance |
| `QEMUMachine_proofs` | proofs |
| `QMPShell` | `qmp-shell`: the command builder, transactions, the HMP shell |
| `MCShell` | TLC instance: the lines that are typed |
| `QMPShell_proofs` | proofs |
| `VMServer` | `slackware-qemu-vmserver.sh` and `rc.slackvirt` |
| `MCVMServer` | TLC instances |
| `VMServer_proofs` | proofs |
| `HostNet` | `iptables-br.sh`, `iptables-lxc.sh`, `iptables-wlan0_ap.sh`, `rc.qemubridge`, and the part of `rc.local-slackvirt` that starts them |
| `MCHostNet` | TLC instance |
| `HostNet_proofs` | proofs |
| `QEMUMachines` | arguments, settings, console and qtest connections of several machines of one program |
| `MCMachines` | TLC instance |
| `QEMUMachines_proofs` | proofs |
| `PowerEvents` | the hooks of `etc/pm/power.d` and the two scripts they call, with the guest |
| `MCPowerEvents` | TLC instance |
| `PowerEvents_proofs` | proofs |
| `EventMatch` | `event_match()` on JSON values, and `events_wait()` around it |
| `MCEventMatch` | TLC instance: the values and the criteria |
| `EventMatch_proofs` | proofs |

In each module a definition with an underscore after its name, such as `Poll_Drops`, is a
mutant of the one after it: the code with a plausible bug, under which TLC finds the property
violated that `PROJECT.json` pairs it with.

### QEMUMonitorProtocol

One caller uses a connection, so one call is in progress at a time (`pc`, `api`);
QEMU interleaves with it at every read of a line.  `inbox` is what QEMU wrote and no
`readline()` returned; a line is a record of its kind and its number (that of the
command answered, that of the event).  `mode` is the timeout of the socket and is
what the calls hand to one another.  The calls are actions (`Open`, `CmdSend`,
`GetQmpEvent`, `GetQmpEvents`, `EventsWait`, `SetTimeout`, `Close`), the reads of the
call in progress are others: `GreetingRead`; `CmdRead`, `BufferEvent` and `ReadJunk`
are the branches of `__json_read`; `PollEnds`, `BlockRead` and `BlockFails` those of
`__get_events`, and `Finish...` what the caller of `__get_events` does with its
result in the same step.  `RunsDry` and `DropPrefix` are what a Python 2 socket file
does when `recv()` raises: the part of a line already read is lost, so that its rest
is read as a line that is no JSON (`Junk`).  `PeerGreet`, `PeerReply`, `PeerEmit`,
`PeerRest` and `PeerExit` are QEMU: it answers in order, emits events once
capabilities are negotiated, may write a line in two pieces and may die at any point.
`got`, `clean`, `ncmds`, `emitted` and `delivered` are history: they record, and
guard nothing (but for the bounds).

Abstractions: `sendall()` does not block; a call before `connect()` or `accept()` is
left out; an event is its name and number, and the criteria of `events_wait()` are a
set of names; `event_wait()` is `events_wait()` with one.  `Close` drops what is on
the wire, and keeps the caches, as the code does.

### MonitorService

At most one command is outstanding, it is answered once or never, and an event stays
pending from the moment it happens until it is taken; only `Disconnect` loses some.
`ImplementsService` maps it: `up` to the open socket, `outstanding` to a call that
reads an answer, `pending` to the union of the two caches and the socket.

### QEMUMachine

A step is one call to the system of `launch()`, `wait()` or `shutdown()`, so that
QEMU may die (`ProcessExits`) between any two of them, and so may the caller press
Ctrl-C within `launch()` (`Interrupt`).  Launches are numbered, and the number names
the process, the log and the temporary directory of that launch; `proc` follows each
of the processes: "running", "refusing" when it refuses every command, "quitting"
once it accepted `quit`, "dead" (a zombie) and "reaped".  `Faults` chooses which steps may fail: `mkdtemp`, the open of the log,
either `bind`, `Popen`, the 15 seconds of `accept`, and a QEMU that refuses
`qmp_capabilities` (and so refuses `quit` as well, which `shutdown()` does not
notice).  `Qtest` chooses the class, `FixedAddress` a `monitor_address` that is a
path outside the temporary directory.  `_post_shutdown` and its overriding method are
one step, `Cleanup`, with the `_load_io_log` in front of it.

Abstractions: an interrupt within `subprocess.Popen` itself or within `shutdown()` is
left out; arguments, the console and what goes over qtest are in `QEMUMachines`.
`console_socket` may be used at any time, so that an unconnected socket may be there even
of a machine that is down; `NothingLeftBehind` says that no connected one is.

### QMPShell

A line is a sequence of words, a word a key with dots and a value, or a word alone.
`CliExpr` is `__cli_expr()`: a fold over the arguments that carries the dict and the
`parent` that a dotted key leaves behind for the arguments after it; `DescendAll` folds
over the keys in front of the last dot of one of them.  A dict is a function from the paths
of its entries, its own the empty path, to the text of a value or, for a dict, to `ADict`.  Each action is a line as `read_exec_command()`
handles it: `BlankLine` and `EmptyLine`, `CloseTransaction`, `CloseWithJunk` (which
leaves the mode and raises), `OpenTransaction`, `CacheAction` (which closes the
transaction too if the line ends with `)`), `StandardCommand`; and `SelectCpu`,
`PassOn` and `MissingWord` for the HMP shell, whose `cpu` asks QEMU before it selects.
`Answered` and `Disconnected` end a command; `QemuChanges` is QEMU, which may go away.
`Send` is `cmd_obj()`, whose `json.dumps()` refuses what `ast.literal_eval()` accepted but
JSON cannot hold, such as `a={(1, 2): 3}` or `a=[1j]`, and a text that is no UTF-8: nobody
catches that, so the shell has crashed, and a transaction that was refused is gone with the
`_actions` that `__build_cmd()` has emptied before.  An empty line polls a nonblocking
socket, and `readline()` drops what it has read of a line that is not complete (`lost`): the
next read fails in `json.loads()`, which ends the shell, except for the probe of `cpu`, where
the `ValueError` passes for a wrong argument and the answer to the probe is left for the
next one.
`accepted`, `delivered`, `opened`, `stale` and `confirmed` are history.

Abstractions: a value is its text, and which texts are read as a dict, and as which one, is
a constant (`Literals`, of which `LiteralAssumption` says that they are dicts), and so is
which texts JSON refuses (`BadKeys`, `BadValues`); a text on which `__parse_value()` raises is
one without a value, which is reported in the same way; Ctrl-C ends the shell (`Interrupted`)
like the end of the input, and is not counted as a crash; after a tear any answer may be taken
for that to a probe of HMPShell; what is printed, the history file and the list of completions are left
out (what completion sends is not).

### VMServer

A script is a process with the step it is at (`pc`), what is left of its invocation
(`todo`: `rc.slackvirt` runs two commands one after the other) and its count of polls.
QEMUs are numbered as they are forked, and a script has no other way to know one than
its name: `Found` is `pgrep`, whose pattern also matches a longer name that begins with
the same letters (`Covers`), and `OtherPgrep` the command line of another script's
`pgrep`, which matches as well.  The check of a command and what follows it are two
steps.  `echo ... | qmp-shell &` counts a process in `shells`, which connects at a time
of its own to the QEMU that has the path then (`owner`), and waits in `clients` behind
whoever is on that monitor.  `$VMCMD &` is three steps: the script forks and is over
(`StartVM`), the fork becomes QEMU, which is when `pgrep` can see it (`Exec`), and QEMU
binds the path of its monitor, whoever had it (`BindMonitor`); it may fail before each of
the last two.  Nothing locks, so any number of scripts may be between a check and a fork.
At first (`Init`) any of the machines may run already, one QEMU of a name at most, with its monitor at
its path: what earlier, lone commands leave.
`RcOnlyKills` is `rc.slackvirt` with another argument than the four that run something: it
kills the terminals as all do (`KillTerminals`).  A QEMU that ends removes the path, one that is killed
leaves it.  Guests may shut down, sleep or ignore a powerdown (which does nothing in the
model; a guest that obeys is `QemuEnds`), and users sit at terminals on a monitor.

`raced` is history: the names whose last start checked while another start of it was past its
own check, and what that one starts not to be seen yet (`Rival`).  Two `start` commands do
run a machine twice then.  `OneQEMUPerName` and `MonitorReachable` say that it takes this,
with everything else the scripts, guests and terminals can do, and that the name is clean
again after a start that meets no other.

Abstractions: a `kill -9` that also hits the `pgrep` of another script has no action of its
own: what that `pgrep` looks for is among what was killed, because patterns match the names
that begin with theirs (`Covers` is transitive), so it would have printed nothing as well;
the sleeps between steps are left out, so that the steps may be arbitrarily close or
far apart; `save` is `pause` and a `minicom` that may stay on the monitor.

### HostNet

A script is a sequence of jobs, one for each function it calls (`restart` of the access
point is four), and a job the sequence of the commands of that function (`Commands`).
`RunScript` and `NextJob` take the next of each; `Iptables`, `Nic` and `Bridge` are the
commands, which leave everything as it is when they fail, because no script looks.
`at` is the command a shell is at, 0 before its next job is begun.
`copies` counts a rule: which copy of it `-D` deletes, and its place in the chain, make
no difference, for no rule of the scripts rejects anything.  One rule, `FORWARD -s
192.168.20.0/24 -o qemubr1 -j ACCEPT`, is in `iptables-lxc.sh` and in
`iptables-wlan0_ap.sh` (`Shared`, at its `Place` in each list); the others of a list are
alike and only numbered (`Length`).  `Locked` is an `iptables` that fails because another
one runs.

`depth`, `taken`, `blurred`, `alone` and `settled` are history.  `CopiesFollow` leaves out
the rules of a part on which two jobs met, where a `stop` may come before the `start` it is
to undo (`blurred`), and is an upper bound for a shared rule a copy of which went to a
`stop` of a part that was not up (`taken`): the scripts cannot do better in either case.

### QEMUMachines

The machines of one program with one thread.  `lists` are the list objects, so that two
names may stand for one list (`args` of a machine says which is its own); `CommandLine` is
what `_base_args()` and `_launch()` make of the attributes.  Launches are numbered across
machines, and the number names the QEMU and the temporary directory of a launch.  The qtest
socket file (`qfile`) has the name of the machine and is outside of that directory, so
machines of one name share it: `Launch` binds it, `LaunchRefused` finds it taken, and
`RemovesSocket` removes it whoever bound it.  `QtestConnects` is a QEMU that connects to
whoever listens at the path then, and nothing in the guard says that it is its own machine
(`QtestOfThisRun` says so, and needs that a failed launch waits for its QEMU); `knock`, `peer` and `reader` are the connection that waits, the one accepted and the one
that `cmd()` reads its answers from.  `Qtest`, `ReadLine` and `ReadRaises` are `cmd()`,
which takes the next line whatever it is: an answer, an interrupt (`QtestIrq`) or the late
answer to a command whose read raised.  What `readline()` drops of a line when the read
raises makes no difference here: the rest of it is read in its place, and counts as that
line.  `got`, `late`, `own` and the counters are history.

Abstractions: what `QEMUMachine` is about (the log, what fails at which step, how QEMU
quits) is one step here (`TearsDown`); a launch that is refused does not count; `binary`
and `wrapper` are the same for all; `send_fd_scm`, which runs a helper program, is left out.

### PowerEvents

A shell runs a hook, or one of the scripts, and is at a round of its loop (`pc`, `count`):
`CpufreqSet`, `EnableCpu`, `DisableCpu`, and `NextHook` at the end of a loop, which goes on
with `vm-cpu-hotplug.sh` if the shell runs the hooks (`then`).  `FirstDigit` is what the
`grep -o` of a set of characters finds of a number: one digit.  `plugged` are the CPUs that
were added and `leaving` those of them that the guest was asked for and still has, whose id
QEMU refuses to add again; `GivesUp` is the guest.  Its QEMU may end and be started between
any two rounds.  `last`, `alone` and `excused` are history: what the last script is about,
whether another one was at work since it began, and which CPUs it may miss for a reason of
the guest.

Abstractions: all CPUs of the host have the same governor at boot, and only the first
`Swept` of them are followed, each of them by the loop's own counter; `SMP` is half of the
CPUs of the host, as `server.qemu` sets it; other configurations set a number.

### EventMatch

`EventMatch` evaluates `event_match()` as Python does: the loop over the criteria (`Round`
is one round of it), `in` on a dict, a list or a string, and a subscript that raises
`IndexError` (which leaves the function) or `TypeError` (which ends it with a comparison).
The keys of a dict come in any order, so the result is a set.  `EventMatch[m][event]` is a
recursive function, of the criteria first; `Round`, `Loop` and `Results` are the body, and
take the function they call themselves as an argument.  `Values` are the JSON values there
are, and `Size` bounds how deep each is: more than any value in it.  On every pair of the values
and criteria of `MCEventMatch` it is what a Python 3 interpreter computes, in every order
of the keys.  `Superset` is what the comment
above the function promises.  `Scan` and `Poll` are the two loops of `events_wait()`.

Abstractions: numbers are integers, `true` and `false` are left out; a string is a sequence
of characters.  How events reach the connection is in `QEMUMonitorProtocol`, where an event
matches or does not.

## 3. Runs

| Run | Instance | Shows |
|---|---|---|
| `mon_blocking` | waits "no" and "block", 3 commands, 2 events of 2 names, fair | own answer, waits end with events, events conserved, refinement of `MonitorService`, commands return, waits find their event |
| `mon_timeouts` | all waits, `settimeout(None)`, torn lines, 3 commands, 2 events | nobody gets the answer of another command before a call has raised; answers and events stay in order, the oldest event first; a command raises only after another call did |
| `mon_late_answer` | timeouts | violated: see finding 1 |
| `mach_life` | a qtest machine, 3 launches, all faults but the log's | safety and termination of the life cycle |
| `mach_log_leak` | all faults | violated: see finding 2 |
| `machines` | 2 machines of one name, of either class, 2 launches, a change of arguments or settings, 2 qtest commands, an interrupt | own arguments, own console, own qtest connection, answers in step, no launch refused for a file left behind |
| `event_match` | 24 values and 31 criteria of every kind, 2 events | a wait takes the oldest event that the comment calls a match, and loses none |
| `shell` | both shells, 23 lines, 5 typed, polls that tear a line, values JSON cannot hold | actions and arguments conserved, transactions whole, lines to the confirmed CPU |
| `vm_server` | `start`, `stop` and `load` of 1 machine, and `rc.slackvirt`, which starts it twice; 2 scripts, 2 invocations, 3 QEMUs, one of which may run already | one QEMU and a monitor that is reached, unless two starts met |
| `vm_ends` | all commands for 2 names, one a prefix of the other, and a state file; 2 scripts, 2 invocations, 1 QEMU that may run already, fair | `stop` stops, invocations end, `qmp-shell`s end |
| `host_net` | 2 shells, 3 scripts of any kind, 1 command that finds the lock taken | rules follow starts and stops, bridges settle |
| `power` | hosts of 3, 4, 12 and 20 CPUs, 2 shells, 4 hooks or scripts, QEMU ends once | CPUs and governors follow the last script, a guest asked for its CPUs gets rid of them |

Bounds.  Two names are enough for an event that matches and one that does not; three
events for two of a kind with another between them.  A late answer shows with two
commands after the negotiation's own (`qmp_capabilities` counts as the first), so
with three.  A relaunch shows what a launch leaves behind, and a third launch what a
failed relaunch does.  `NameSymmetry` is sound where it is used: no property names a
name.  `CHECK_DEADLOCK` is on in every run: `settimeout`-less instances go on because
calls on a closed connection can still be made (they raise).  It is off in the runs of
`QMPShell`, `VMServer`, `HostNet` and `PowerEvents`, where a shell that is closed and scripts
that have used up their invocations stop, and in `event_match`, where a wait for an event that
does not come sleeps.  `MachineSymmetry` is sound because no property names a machine.  The lines of `shell` hold every branch of the builder, keys that meet
at a leaf, at a dict and below a dict included; five lines are an old transaction given
up, and a new one that is opened, filled and closed.  In `vm_server` the
two names of `rc.slackvirt` are one and the same, so that an invocation of it starts the
machine, and starts it again when it may have ended, or not be seen yet; two such
invocations, or one and a command, are starts that meet, a third QEMU, and a start that
meets no other after two that did (TLC reaches machines that run twice, that lose their
path, and that are started afresh later).  In `vm_ends` a machine may run from the
beginning, so that two invocations are two commands for it that meet (or one that starts it and
one that stops it), one of which may be for the name that begins the other's; and two polls are one that goes on and one that is the last.  `AnyScript` is sound
because scripts are alike, and is not used where a run checks liveness.
In `HostNet` three scripts are two that mix and one, alone, after them; a list of one rule
of its own and the shared one, in front of it or between two, has each order in which
two scripts can meet on the shared rule.  In `QEMUMachines` two launches are a machine that
is launched again, or two that share the path; an interrupt and two commands are an answer
that comes late.  In `PowerEvents` the hosts are one whose half is rounded, one that is not,
and two whose number has two digits, with the half in one and in two; four scripts are one
that runs alone after two that mix, and one more.  In `EventMatch` the values are nested
twice, which is as deep as two rounds of the recursion, and hold each kind in each place.

Fairness.  In `QEMUMonitorProtocol`: the interpreter runs a call on when it can
(`ClientStep`), and a QEMU that lives greets, answers, and completes lines it began.
No fairness makes QEMU emit an event, exit, or makes the caller call anything.  In
`QEMUMachine`: a call goes on, a running QEMU connects to the qtest socket it was told
to connect to, and a QEMU that accepted `quit` exits.  Nothing makes a QEMU exit
otherwise.  In `VMServer`: a script runs, a process in the background connects or
fails to, and QEMU serves a client that has sent its command.  Nothing makes a QEMU that
was forked come up, a guest shut down or a user leave a terminal: `RunsEnd` holds in spite of it, `ShellsEnd`
is about the case that they do.  In `PowerEvents`: a script runs on, and a guest gives up, some
time, a CPU it was asked for; `DisableEmpties` is about guests that do, and the invariants need
no fairness.

### Findings

1. `mon_late_answer`: after a timeout the next command returns the late answer of the
   one before, and so do all later commands (`qmp.py:169`).  `OwnReplyWhileClean` and
   `AnswersInOrder` say how far this goes: nothing goes astray before a call has
   raised, and a caller never sees an answer twice or out of order.
2. `mach_log_leak`: when the log cannot be opened the cleanup of `launch()` fails on
   the log, and leaves the temporary directory (`machine.py:224`).

Met while modelling and left to a note: `get_qmp_events(wait=True)` blocks although an event
is in the queue of the machine (`machine.py:397`); after a line `) junk` the actions of the
transaction that was given up are sent with the next one (`qmp-shell:235`; `TransactionWhole`
shows that this is the only way, `ActionsConserved` that none is lost or sent twice even so);
criteria of `events_wait()` that are empty, or hold something empty, match any event that has
the key, those with a list that begins with a number take the number for a place in the list
of the event, and an `IndexError` there loses the event (`machine.py:425-432`; `Plain` is the
condition without which `TakesOldestMatch` and `EventsKept` fail); `qtest()` returns an
interrupt, or the answer to an earlier command whose read raised, for an answer
(`qtest.py:73`; `AnswersInStep` counts them); with ten CPUs or more `vm-cpu-hotplug.sh` reads
the first digit of their number (line 10), so that it adds and removes none or other ones than
it should (`AllCpus` says that they are never too many); two `start` commands at one time, or
one right after the other, both start the machine (`slackware-qemu-vmserver.sh:50`;
`OneQEMUPerName` is about all other ways); a value that JSON cannot hold ends `qmp-shell`,
with the actions of the transaction it is in (`qmp-shell:283`, `qmp.py:169`;
`LinesDoNotCrash`); in the HMP shell a `cpu` command after an empty line may take an old
answer for that to its probe (`qmp-shell:375-379`; `CpuConfirmed` holds until then); after a `connect()` to the console that failed,
the next use of `console_socket` returns the unconnected socket (`machine.py:529`);
an argument of `qmp-shell` after one with a dotted key goes into the dict of that key
(`qmp-shell:213`; `ArgumentsKept` says that it is not lost there); `pause` sends `cont`
(`slackware-qemu-vmserver.sh:137`), and `load` starts nothing, since it exits unless
the machine runs and `start_vm` exits if it does; `pull_event()` with a wait ends with `None`
when the line it reads is an answer (only after a timeout; `WaitEndsWithEvent` holds
without), which `events_wait()` turns into a `TypeError`; a connection that ends in
the negotiation raises `TypeError` where `qmp.py:138` promises
`QMPCapabilitiesError`; `shutdown()` of a QEMU that refuses `quit` waits for ever, and
so does `launch()` when QEMU dies between its two connections (both are the
exceptions that `ShutdownReturns` and `LaunchReturns` name).

## 4. Proofs

The proofs hold for every value of the constants that the assumptions
`MonitorAssumption`, `MachineAssumption`, `ShellAssumption`, `ServerAssumption`,
`MachinesAssumption`, `PowerAssumption`, `NetAssumption`, `LiteralAssumption` and
`MatchAssumption` admit: any set of event names, any number of commands, events and
launches, any choice of waits and faults, any lines, with any texts that stand for dicts, any
JSON values for events and criteria, any number of scripts, names, machines and QEMUs, any patterns that overlap, lists of rules
of any length with the shared rule anywhere in them, hosts of up to 999 CPUs.  TLC checked
each inductive invariant first, on the instances of section 3.

The types of each module, `MonitorWhileRunning` of `QEMUMachine` and `LinesDoNotCrash` of
`QMPShell` are proved and no run spends time on them.  The proofs about
`QEMUMonitorProtocol` cover timeouts that are numbers as well as the one mode that
`mon_timeouts` passes to `settimeout()`.

### QEMUMachine_proofs

`Invariance` is the induction, over `IInv == TypeOK /\ ProcessInv /\ MonitorInv /\
LogInv`.  None of the properties is inductive: what a step may do depends on where
`launch()` is and on what the previous launch left.  `ProcessInv` says at which places
of the control there is no live QEMU (before `Popen`, after the cleanup, at rest and
not launched) and at which `_popen` is one that was not waited for; `MonitorInv` that a
launched machine at rest has negotiated; `LogInv` to which launch the log, its path and
the temporary directory belong at each step, so that `_load_io_log()` reads the right
file.  `NoOrphan`, `DownUnlessLaunched`, `KillOnlyUnreaped`, `MonitorWhileRunning` and
`LogOfLastRun` follow.  `CleansUp` adds `FilesInv` (what is on disk, step by step) and
two assumptions: no fixed monitor address, whose socket file nothing removes, and no
failure of the open of the log, without which the property is false (finding 2).

`CallsWaitForTheEnd` is about the two waits that have no timeout.  `EndInv` follows
what QEMU has been told: `shutdown()` reaps only a QEMU that accepted `quit`, ended, or
refuses every command since its negotiation failed, and `_post_launch()` accepts on the
qtest socket only while a QEMU runs that comes to connect, or has died.

### QEMUMonitorProtocol_proofs

`Synchronised` is the first induction, over `TypeOK /\ OrderInv /\ OwnInv`.

* Every step does one of three things to the socket: it takes lines away (`Shrunk`:
  what is left was there before and in the same order, but for junk), it adds one line
  at the end, or it leaves it.  The lemmas `ShrunkKeeps`, `ConsumeIsFirst` and
  `AppendIsLast` say what each does to the numbers of the lines of any kind, so the
  cases of the induction need no reasoning about indices.
* `OrderInv` is `AnswersInOrder` with what it takes to keep it: numbers stay within
  those sent, and at most one greeting is ever written.  It needs no assumption, and
  gives `AnswersOrdered`.
* `OwnInv` says that client and QEMU are in step (`InStep`): between commands nothing
  is on its way, and during a command nothing but its own answer is.  That is true
  while no call failed; it stays true after failures if no float is passed as a
  timeout and lines are whole (`NoTimeouts`), because then every read outside the poll
  blocks (`ModeInv`) and a call can only fail with the connection.  `OwnRepliesWhileClean`
  is the first half, `OwnReplies` the second; finding 1 shows that the assumption of
  the second cannot be dropped.

`EventsHeld` is the second, over `TypeOK /\ EventInv`, and `KeptInv` if lines are whole.

* `EventInv` says that events delivered, in the queue of the machine, in the cache of
  the protocol and on the socket are disjoint, and those not delivered in increasing
  order along these places.  A step moves events from one list to the next; the lemmas
  `HandOut`, `HandOutMatch`, `PutOff`, `HandOutAll` and `KeepRead` are the ways to do
  so.  `EventsInOrder` follows without any assumption.
* `KeptInv` says that on an open connection these places together hold all that was
  emitted.  It needs whole lines: an exception within a line loses the line.
  `EventsKept` follows.
* `OldestIsFirst` is an action property.  It uses the order and `SearchInv`: a call
  reads from the socket only when the queue of the machine holds nothing it looks for.

`ServiceImplemented` is the refinement of `MonitorService`, from both inductions and
`OpenInv`.  A step that leaves the connection open and emits nothing neither loses nor
adds an event (`KeptInv` before and after it), so it takes what it delivers
(`NextTakes`); the rest is which of `Issue`, `Answer` and `NoAnswer` it is, for which
`InStep` says whose answer was read.  It needs `NoTimeouts`.  `WaitsEndWithEvent` and
`CommandsDoNotTimeOut` are about how calls end: the first needs `NoTimeouts`, the
second only that `settimeout()` is never given a number.

`WaitsAreOwed` is about what a call may wait for, with any timeouts and torn lines.
`OwedInv` says that the answer to a command in progress is still QEMU's to give or on the
socket, and so is the greeting; `SleepInv` and `SearchInv` that a read that blocks has
found no event it is for in either cache.  `get_qmp_events()` is excepted: it looks at the
queue of the machine last.

### QMPShell_proofs

`ShellInvariance` is the induction.  What it adds to the properties is where the
shell can be (no command is in flight in transaction mode, HMP has no transactions), and
that actions held are the last ones accepted: outside of a transaction only those of one
that was given up.  `ActionsAreConserved`, `TransactionsAreWhole`, `CpuIsConfirmed` and
`LinesAreHandled` follow without any assumption on the lines.  The first holds as long as the
shell has not crashed, and the last says of what it may: QEMU is gone, a poll has torn a line,
or `json.dumps()` refuses the command or an action, which for a transaction must be one of
those accepted (`TransactionEncodes`).

`ArgumentsAreKept` is about the two folds of the builder, for lines of any length and keys
with any number of dots.  A number is the least of those with a property if any has it
(`LeastOf`, from the order of the naturals being well-founded), which gives what an
induction would: `DescendUnfolds` and `SetArgUnfolds` say what one more element adds to a
fold, and a claim about all prefixes fails first at one whose predecessor it holds for.

* `Tree` is what a dict always is: each entry but the first lies in a dict.  `Built` adds
  that `parent` is one of its dicts.  A key of a path (`DescendKeeps`), a whole path
  (`PathKeeps`), a value that is itself a dict (`GraftKeeps`) and an argument
  (`SetArgKeeps`) keep it, and never change an entry that is there (`Extends`): that is
  where `WellFormed` of the literals is needed, and the check for a key that is taken.
* `CliKeeps` concludes that every argument of a line is in the dict that `__cli_expr()`
  makes of it, below one of the dicts that the arguments before it have opened.
* `SentInv` ties the command in flight to the line it was built from.

### VMServer_proofs

`Invariant` is the first induction, over types, `PollsInv` (a poll that goes on is below
the limit) and `StopInv`: what a stop has found is dead, or still found by its pattern as
long as it polls or is about to kill.  It rests on one fact about every step of anybody,
`Persists`: no QEMU comes back from the dead, changes its name, or leaves the sight of
`pgrep` but by dying (`NoneComesBack`).  So a stop that finds nothing, or has killed what
it finds, has none of them left: `StopsStop`.

`Unique` is the second, `IInv /\ UniqueInv`, with any number of scripts and no assumption on
who starts what.  Of a name that is not in `raced`, `OneOf` says that there is at most one
among the scripts about to fork its QEMU and its QEMUs that live, seen or not, and that a QEMU
that has bound its monitor has the path.  The check of a start is where it is decided
(`CheckUnique`): what `pgrep` finds is none of the name, so what is left is a script past its
check or a QEMU not seen yet, which is what puts the name in `raced`.  A fork trades the script
for a QEMU (`ForkUnique`), and `QemuUnique` goes through what QEMUs do: one that ends removes
the path of its name without a look whose it is, which is harmless only because there is no
other, and one that is killed before it has bound the path leaves it to the next.
`MachineRunsOnce` and `MonitorsReachable` follow.

`RunsAreBounded` has a variant: `StepsLeft` is a natural number, bounded by the limit of
polls and the words of the invocation, that each step of a script lowers (`StepsGoDown`)
and no step of another script, guest or monitor changes (`OthersDoNotMove`).

### QEMUMachines_proofs

`TypeCorrect` goes with `ReadInv` (who waits for an answer has a reader), because `cmd()`
reads from whatever its object kept of an earlier connection.  Then each property has an
induction of its own:

* `ArgumentsOwn` from `ListInv`: what a machine calls its arguments is its own list, never
  the caller's, and holds what was asked of this machine.  A command line is made of it
  part by part (`PartsOfLine`, `CommandLineType`).
* `ConsoleRun` and `Refused` from `Life`: no two machines have the QEMU of one launch
  (`OwnerInv`), a directory and a console in it belong to the last launch and only while
  the machine is up or being launched (`DirInv`), and a qtest socket file to a machine
  that is (`FileInv`), so that a launch is refused only because of one of these.
* `QtestRun` from `Connection`: a QEMU that has still to connect to a qtest socket is that
  of the launch in progress (`LineInv`), because `shutdown()` of a failed launch waits for
  its QEMU before another launch can bind the path; who knocks, and who was accepted, is
  then the QEMU of the last launch (`KnockInv`).
* `AnswersKeepStep` from `AnswerInv`: what is in the queue of a connection are the answers
  from the first command not answered in step to the last one answered, in order and with
  interrupts between them.  `OrderAnswer`, `OrderIrq` and `OrderRead` say what a line
  more or less does to that.

Every one of these inductions splits into what one action does to it (`LifeLaunch`,
`ConnectionAccept`, `AnswerRead`, ...) and one lemma that all other steps leave it alone
(`LifeSteps`, `ConnectionSteps`, `AnswerSteps`).

### PowerEvents_proofs

`PowerTypes` holds `CountInv`, where the counter of a loop can be, for which `HotBound`
says what CPUs a guest has and `Digit` what the `grep -o` of `vm-cpu-hotplug.sh` finds of a
number of up to three digits.  `AsManyCpus` follows.  `FollowInv` says how far the last
script has come while it is alone: it is the only one at work (`OneInv`), the CPUs of the
host below its counter have its governor (`SweepInv`), the CPUs of the guest that its loop
has come by are plugged, or leaving, or excused (`HotplugInv`).  `GuestFollows` and
`HostFollows` are its end.  `ScriptsEnd` has a variant, `StepsLeft`, the rounds the loop of a
script has left, which its rounds lower and nothing else changes.

### HostNet_proofs

`ListRules` is what the proofs need of the lists: none has a rule twice, two lists share
`Shared` at most, and the numbers of the commands of a job are those of its rules.
`BridgesEnd` comes from `AloneInv`: a job on the bridges that nothing meets has come as
far as `Stage` says, for each of its eight commands.  `RulesFollow` comes from two
inductions.  `MeetInv`: two jobs on one part have blurred its rules, at every moment that
both are at work, so a rule that is not blurred is touched by one job at a time.
`FollowInv`: the copies of such a rule and those a `start` in progress has still to append
are those due, and those a `stop` in progress has still to delete; of the shared rule there
may be fewer from the moment a `stop` of a part that was not up took one.
`PendingDone`, `BeginWork` and `CommandWork` say what a command and the begin of a job do
to what is pending.

### EventMatch_proofs

That a function defined by recursion is what its body says is not given, it has to be
proved.  `Recursion` does it for any function of values whose body looks only at smaller
ones: for each bound on the size there is a solution up to that bound (`ExistsUpto`), any
two of them agree (`SameUpto`), and the least bound without one would be a contradiction.
`RoundLooksDown` is why `event_match()` is such a function: it calls itself for an item of
the criteria.  `EventMatchUnfolds`, `SupersetUnfolds` and `PlainUnfolds` are the results.

`PlainMatches` is the theorem about the code's promise: on plain criteria, which hold
nothing empty and no list that begins with a number, `event_match()` ends in one way only
whatever the order of the keys, does not raise, and is true exactly if the event has all that
the criteria have (`Superset`).  The pair with the least criteria for which that fails is
taken apart by its kind: a dict by `LoopOverDict`, and a list or a string by its first
element, which decides because a subscript with it raises `TypeError` (`FirstRoundDecides`).

`WaitInvariance` is the induction for `events_wait()`: `Ordered` says that ids are in
increasing order in the queue of the machine and then on the wire; `Rejected` that a call
that reads has found nothing in the queue that it looks for; `EventsKept`, that no event is
missing, is its last part.  `OldestIsTaken` is an action property that needs
`Rejected` and `PlainMatches`.

### What is only model-checked

The liveness properties (`CmdReturns`, `WaitFindsMatch`, `ShutdownReturns`, `LaunchReturns`,
`RunsEnd`, `ShellsEnd`, `DisableEmpties`), because the prover has no rules for fairness.
Everything else that the passing runs check is proved.

The part of liveness that is safety is proved too, for every value of the constants: that
loops have a bound (`RunsAreBounded` for `RunsEnd`, `ScriptsEnd` for `DisableEmpties`), and
that what a call waits for is owed to it (`WaitsAreOwed` for `CmdReturns` and
`WaitFindsMatch`, `CallsWaitForTheEnd` for `ShutdownReturns` and `LaunchReturns`).  What is
left to TLC is that a script which may take a step takes it, and that QEMU does what it owes.

## 5. Plan

In order of importance; each item is a module, its runs and its proofs.

1. `QEMUMonitorProtocol`, `MonitorService` - done.
2. `QEMUMachine` - done.
3. `QMPShell` - done.
4. `VMServer` - done.
5. `QEMUMachines` - done.
6. `PowerEvents` - done.
7. `HostNet` - done.
8. `EventMatch` - done.

### Not modelled

* `send_fd_scm()` (`machine.py:152-188`) runs a helper program and returns its status;
  the library keeps nothing of it, and the helper is not in the repository.
* `sbin/qemu-device-add.sh`: one `qmp-shell` command for each entry of a fixed list.
* `share/qemu/qmp/qmp`: one connection and one command of the client modelled here.
* `notemon`: five reads in a row and a print.  What can go wrong in it is in the arithmetic
  of one buffer (`notemon.c:41`), which a test reaches at once; nothing acts in between.
* `rc.wifi-ap`, `rc.local-wireless`, the wireless toggles, `wpa_*`: each starts or asks
  a program of others whose state they do not keep.
* `rc.cryptsetup`, `rc.sshd` and the rest of the boot order: a sequence of commands none of
  which looks at what the one before it did, so a property would say what the order of
  the lines is.
* Menus, terminals, monitors: input and output.
* Configuration: variables, of which the models take those that a property tells apart
  (the number of CPUs, names that begin alike).
* `install`, `configure` and `list` of the VM server script: a QEMU without a guest name,
  which the other commands do not see, a variable that the script ends with, and a display.
* `qmp-shell`: formatting, the history file, and what an empty line prints.
