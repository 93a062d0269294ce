----------------------------- MODULE QEMUMachine -----------------------------
(***************************************************************************)
(* The life of one QEMUMachine (share/python/qemu/machine.py) or           *)
(* QEMUQtestMachine (qtest.py): launch(), wait(), shutdown(), what they    *)
(* create on disk and what they remove, with QEMU dying between any two of *)
(* their steps and any of the calls to the system failing.                 *)
(*                                                                         *)
(* Attempts to launch are numbered; the number names the QEMU process, the *)
(* temporary directory and the log file of the attempt.  0 stands for None.*)
(***************************************************************************)
EXTENDS Integers, FiniteSets

CONSTANTS
  Qtest,        \* is it a QEMUQtestMachine?
  FixedAddress, \* was a monitor_address given that is a path outside the temporary directory?
  Faults,       \* which steps of a launch may fail
  MaxLaunches   \* bound: calls of launch() that get past its guard

ASSUME MachineAssumption ==
  /\ Qtest \in BOOLEAN
  /\ FixedAddress \in BOOLEAN
  /\ Faults \subseteq {"mkdtemp", "log", "bind", "popen", "accept", "refused"}
  /\ MaxLaunches \in Nat

VARIABLES
  launched,   \* _launched
  popen,      \* _popen: the attempt whose process it stands for
  proc,       \* the process of each attempt: "unborn", "running", "refusing" (quit, as
              \* it has not accepted qmp_capabilities), "quitting" (it accepted quit),
              \* "dead" (a zombie), "reaped"
  qmp,        \* _qmp: "none", "listening", "connected" (but not negotiated),
              \* "negotiated", "closed"
  tempdir,    \* _temp_dir
  dirs,       \* temporary directories on disk
  logpath,    \* _qemu_log_path
  logfile,    \* _qemu_log_file
  logs,       \* log files on disk
  iolog,      \* _iolog: the attempt whose output get_log() returns
  console,    \* _console_socket: "none", "unconnected", "connected"
  paths,      \* socket files outside the temporary directory: "monitor", "qtest"
  attempt,    \* number of attempts to launch so far
  pc,         \* the next step of the call in progress, "idle" between calls
  caller,     \* the method in progress, or the last one
  out         \* "pending", "ok", or "raised"

files == <<tempdir, dirs, logpath, logfile, logs, paths>>
process == <<popen, proc>>
control == <<pc, caller, out>>
vars == <<launched, process, qmp, files, iolog, console, attempt, control>>

Attempts == 1 .. MaxLaunches
Live == {"running", "refusing", "quitting"}
Alive == Live \cup {"dead"}     \* a process nobody waited for yet

Init ==
  /\ launched = FALSE
  /\ popen = 0 /\ proc = [n \in Attempts |-> "unborn"]
  /\ qmp = "none"
  /\ tempdir = 0 /\ dirs = {} /\ logpath = 0 /\ logfile = 0 /\ logs = {} /\ paths = {}
  /\ iolog = 0 /\ console = "none" /\ attempt = 0
  /\ pc = "idle" /\ caller = "none" /\ out = "ok"

Goto(step) == pc' = step /\ UNCHANGED <<caller, out>>
Begin(name, step) == pc = "idle" /\ caller' = name /\ pc' = step /\ out' = "pending"
Return(o) == pc' = "idle" /\ out' = o /\ UNCHANGED caller

Running == popen # 0 /\ proc[popen] \in Live

-----------------------------------------------------------------------------
(* launch() *)

Launch ==
  /\ ~launched /\ attempt < MaxLaunches
  /\ Begin("launch", "mkdtemp")
  /\ attempt' = attempt + 1
  /\ iolog' = 0
  /\ UNCHANGED <<launched, process, qmp, files, console>>

\* 'VM already launched'
LaunchRefused ==
  /\ launched /\ pc = "idle"
  /\ caller' = "launch" /\ out' = "raised" /\ pc' = "idle"
  /\ UNCHANGED <<launched, process, qmp, files, iolog, console, attempt>>

\* Any exception in _launch() goes to shutdown().
MakeTempDir ==
  /\ pc = "mkdtemp"
  /\ \/ /\ tempdir' = attempt /\ dirs' = dirs \cup {attempt}
        /\ Goto("log")
     \/ /\ "mkdtemp" \in Faults
        /\ Goto("shutdown") /\ UNCHANGED <<tempdir, dirs>>
  /\ UNCHANGED <<launched, process, qmp, logpath, logfile, logs, paths, iolog,
                 console, attempt>>

\* The path is assigned before the file is opened.
OpenLog ==
  /\ pc = "log"
  /\ logpath' = attempt
  /\ \/ /\ logfile' = attempt /\ logs' = logs \cup {attempt}
        /\ Goto("bind")
     \/ /\ "log" \in Faults
        /\ Goto("shutdown") /\ UNCHANGED <<logfile, logs>>
  /\ UNCHANGED <<launched, process, qmp, tempdir, dirs, paths, iolog, console, attempt>>

\* The monitor socket; bind() fails if the path exists.  _qmp is assigned last.
BindMonitor ==
  /\ pc = "bind"
  /\ \/ /\ "monitor" \notin paths
        /\ qmp' = "listening"
        /\ paths' = IF FixedAddress THEN paths \cup {"monitor"} ELSE paths
        /\ Goto(IF Qtest THEN "qtest_bind" ELSE "popen")
     \/ /\ "bind" \in Faults \/ "monitor" \in paths
        /\ Goto("shutdown") /\ UNCHANGED <<qmp, paths>>
  /\ UNCHANGED <<launched, process, tempdir, dirs, logpath, logfile, logs, iolog,
                 console, attempt>>

BindQtest ==
  /\ pc = "qtest_bind"
  /\ \/ /\ "qtest" \notin paths
        /\ paths' = paths \cup {"qtest"}
        /\ Goto("popen")
     \/ /\ "bind" \in Faults \/ "qtest" \in paths
        /\ Goto("shutdown") /\ UNCHANGED paths
  /\ UNCHANGED <<launched, process, qmp, tempdir, dirs, logpath, logfile, logs,
                 iolog, console, attempt>>

StartProcess ==
  /\ pc = "popen"
  /\ \/ /\ popen' = attempt
        /\ proc' = [proc EXCEPT ![attempt] = "running"]
        /\ Goto("accept")
     \/ /\ "popen" \in Faults
        /\ Goto("shutdown") /\ UNCHANGED process
  /\ UNCHANGED <<launched, qmp, files, iolog, console, attempt>>

\* _launched = True
Launched ==
  /\ launched' = TRUE
  /\ Return("ok")

\* Where accept() goes when it succeeds.
Accepted == IF Qtest THEN Goto("qtest_accept") /\ UNCHANGED launched ELSE Launched

\* The connection is there and QEMU has not accepted qmp_capabilities.
NotNegotiated ==
  /\ Running
  /\ qmp' = "connected" /\ proc' = [proc EXCEPT ![popen] = "refusing"]

\* Mutant: accept() waits as long as it takes.
Accept_NoTimeout ==
  /\ pc = "accept"
  /\ \/ Running /\ qmp' = "negotiated" /\ Accepted /\ UNCHANGED proc
     \/ "refused" \in Faults /\ NotNegotiated /\ Goto("shutdown") /\ UNCHANGED launched
  /\ UNCHANGED <<popen, files, iolog, console, attempt>>

\* _post_launch(): accept() on the monitor.  QEMU connects and negotiates; or nobody
\* connects within 15 seconds, or QEMU dies before or after it connected, or refuses
\* qmp_capabilities.
Accept ==
  /\ pc = "accept"
  /\ \/ Running /\ qmp' = "negotiated" /\ Accepted /\ UNCHANGED proc
     \/ /\ \/ "accept" \in Faults /\ qmp' = "listening" /\ UNCHANGED proc
           \/ ~Running /\ qmp' \in {"listening", "connected"} /\ UNCHANGED proc
           \/ "refused" \in Faults /\ NotNegotiated
        /\ Goto("shutdown") /\ UNCHANGED launched
  /\ UNCHANGED <<popen, files, iolog, console, attempt>>

\* accept() on the qtest socket has no timeout.  It succeeds even after QEMU died,
\* if QEMU had connected.
AcceptQtest ==
  /\ pc = "qtest_accept"
  /\ Launched
  /\ UNCHANGED <<process, qmp, files, iolog, console, attempt>>

LaunchPcs == {"mkdtemp", "log", "bind", "qtest_bind", "popen", "accept", "qtest_accept"}

\* KeyboardInterrupt: "except:" in launch() catches that as well.  In accept() it may
\* come before, during or after the negotiation.
Interrupt ==
  /\ pc \in LaunchPcs
  /\ Goto("shutdown")
  /\ \/ UNCHANGED <<qmp, proc>>
     \/ pc = "accept" /\ NotNegotiated
     \/ pc = "accept" /\ Running /\ qmp' = "negotiated" /\ UNCHANGED proc
  /\ UNCHANGED <<launched, popen, files, iolog, console, attempt>>

-----------------------------------------------------------------------------
(* shutdown(), also from launch() and __exit__(), and wait() *)

\* With has_quit the caller has sent quit itself.
ShutdownCalled(has_quit) ==
  /\ has_quit => popen # 0 /\ proc[popen] \in {"quitting", "dead", "reaped"}
  /\ Begin("shutdown", IF has_quit THEN "shutdown_has_quit" ELSE "shutdown")
  /\ UNCHANGED <<launched, process, qmp, files, iolog, console, attempt>>

\* Popen.poll(): a dead process is reaped.
Poll ==
  IF popen # 0 /\ proc[popen] = "dead"
  THEN proc' = [proc EXCEPT ![popen] = "reaped"] /\ UNCHANGED popen
  ELSE UNCHANGED process

\* Mutant: the check reads _launched, which is False while launch() runs.
CheckRunning_ByFlag ==
  /\ pc \in {"shutdown", "shutdown_has_quit"}
  /\ Poll
  /\ Goto(CASE ~launched \/ ~Running -> "cleanup"
            [] launched /\ Running /\ pc = "shutdown" -> "quit"
            [] OTHER -> "close")
  /\ UNCHANGED <<launched, qmp, files, iolog, console, attempt>>

\* Mutant: the check is for _popen alone.
CheckRunning_NotNone ==
  /\ pc \in {"shutdown", "shutdown_has_quit"}
  /\ Poll
  /\ Goto(CASE popen = 0 -> "cleanup"
            [] popen # 0 /\ pc = "shutdown" -> "quit"
            [] OTHER -> "close")
  /\ UNCHANGED <<launched, qmp, files, iolog, console, attempt>>

\* if self.is_running(): the process may die right after.
CheckRunning ==
  /\ pc \in {"shutdown", "shutdown_has_quit"}
  /\ Poll
  /\ Goto(CASE ~Running -> "cleanup"
            [] Running /\ pc = "shutdown" -> "quit"
            [] OTHER -> "close")
  /\ UNCHANGED <<launched, qmp, files, iolog, console, attempt>>

\* A QEMU that got quit: it accepts it once capabilities are negotiated.
Quitting ==
  IF qmp = "negotiated" /\ Running THEN [proc EXCEPT ![popen] = "quitting"] ELSE proc

\* _qmp.cmd('quit').  The reply is not looked at, so a refusal is like a success;
\* a QEMU that died makes it return None or raise; without a connection it raises.
SendQuit ==
  /\ pc = "quit"
  /\ proc' = Quitting
  /\ \/ qmp \in {"connected", "negotiated"} /\ Goto("close")
     \/ qmp \notin {"connected", "negotiated"} /\ Goto("kill")
     \/ ~Running /\ Goto("kill")
  /\ UNCHANGED <<launched, popen, qmp, files, iolog, console, attempt>>

\* _qmp.close(): without a connection __sockfile is None and close() raises.
CloseMonitor ==
  /\ pc = "close"
  /\ qmp' = "closed"
  /\ Goto(IF qmp = "listening" THEN "kill" ELSE "reap")
  /\ UNCHANGED <<launched, process, files, iolog, console, attempt>>

\* Mutant: "except: pass".
Kill_Not ==
  /\ pc = "kill"
  /\ Goto("reap")
  /\ UNCHANGED <<launched, process, qmp, files, iolog, console, attempt>>

Kill ==
  /\ pc = "kill"
  /\ proc' = [proc EXCEPT ![popen] = "dead"]
  /\ Goto("reap")
  /\ UNCHANGED <<launched, popen, qmp, files, iolog, console, attempt>>

\* _popen.wait()
Reap ==
  /\ pc = "reap" /\ proc[popen] \notin Live
  /\ proc' = [proc EXCEPT ![popen] = "reaped"]
  /\ Goto("cleanup")
  /\ UNCHANGED <<launched, popen, qmp, files, iolog, console, attempt>>

WaitCalled ==
  /\ popen # 0
  /\ Begin("wait", "wait")
  /\ UNCHANGED <<launched, process, qmp, files, iolog, console, attempt>>

\* _popen.wait() and _qmp.close(), which raises if there never was a connection.
WaitEnds ==
  /\ pc = "wait" /\ proc[popen] \notin Live
  /\ proc' = [proc EXCEPT ![popen] = "reaped"]
  /\ qmp' = "closed"
  /\ IF qmp = "listening" THEN Return("raised") ELSE Goto("cleanup")
  /\ UNCHANGED <<launched, popen, files, iolog, console, attempt>>

\* Mutant: called after _post_shutdown(), when the path is None.
LoadIoLog_Late == UNCHANGED iolog

\* _load_io_log(), when it can read the file.
LoadIoLog == iolog' = IF logpath # 0 THEN logpath ELSE iolog

\* Mutant: the qtest socket is left for the next launch to find.
RemoveQtestSocket_Not == UNCHANGED paths

RemoveQtestSocket == paths' = IF Qtest THEN paths \ {"qtest"} ELSE paths

CloseLog == logpath' = 0 /\ logfile' = 0

\* _post_shutdown()
PostShutdown ==
  /\ CloseLog
  /\ console' = "none"
  /\ tempdir' = 0
  /\ dirs' = dirs \ {tempdir} /\ logs' = logs \ {tempdir}
  /\ RemoveQtestSocket

\* _load_io_log() and _post_shutdown(); wait() leaves _launched alone, and launch()
\* raises again what brought it here.  When there is no log file to read the
\* exception leaves everything after it undone.
Cleanup ==
  /\ pc = "cleanup"
  /\ \/ /\ logpath # 0 => logpath \in logs
        /\ LoadIoLog
        /\ PostShutdown
        /\ launched' = (launched /\ caller = "wait")
        /\ Return(IF caller = "launch" THEN "raised" ELSE "ok")
     \/ /\ logpath # 0 /\ logpath \notin logs
        /\ Return("raised")
        /\ UNCHANGED <<launched, files, iolog, console>>
  /\ UNCHANGED <<process, qmp, attempt>>

-----------------------------------------------------------------------------
(* Other calls, and QEMU *)

\* is_running(), exitcode(), get_pid()
Observe ==
  /\ pc = "idle"
  /\ Poll
  /\ UNCHANGED <<launched, qmp, files, iolog, console, attempt, control>>

\* The caller sends quit over the monitor, before shutdown(has_quit=True).
CallerQuits ==
  /\ pc = "idle" /\ launched /\ qmp = "negotiated" /\ Running
  /\ proc' = Quitting
  /\ UNCHANGED <<launched, popen, qmp, files, iolog, console, attempt, control>>

\* console_socket, at any time: the attribute is set before connect(), and a second
\* call returns whatever is there.
ConsoleSocket ==
  /\ pc = "idle"
  /\ caller' = "console" /\ pc' = "idle"
  /\ \/ console = "none" /\ Running /\ console' = "connected" /\ out' = "ok"
     \/ console = "none" /\ console' = "unconnected" /\ out' = "raised"
     \/ console # "none" /\ out' = "ok" /\ UNCHANGED console
  /\ UNCHANGED <<launched, process, qmp, files, iolog, attempt>>

\* QEMU quits, is powered off from inside, or crashes.
ProcessExits ==
  /\ Running
  /\ proc' = [proc EXCEPT ![popen] = "dead"]
  /\ UNCHANGED <<launched, popen, qmp, files, iolog, console, attempt, control>>

-----------------------------------------------------------------------------

LaunchStep ==
  MakeTempDir \/ OpenLog \/ BindMonitor \/ BindQtest \/ StartProcess \/ Accept

TeardownStep ==
  CheckRunning \/ SendQuit \/ CloseMonitor \/ Kill \/ Reap \/ WaitEnds \/ Cleanup

CallerStep ==
  \/ Launch \/ LaunchRefused \/ WaitCalled
  \/ \E has_quit \in BOOLEAN : ShutdownCalled(has_quit)
  \/ Observe \/ CallerQuits \/ ConsoleSocket

Next == LaunchStep \/ AcceptQtest \/ Interrupt \/ TeardownStep \/ CallerStep \/ ProcessExits

Spec == Init /\ [][Next]_vars

\* A call goes on when it can, a QEMU that lives connects to the qtest socket, and one
\* that accepted quit exits.  QEMU need not exit otherwise, and the caller need not
\* call anything nor interrupt a call.
FairSpec ==
  /\ Spec
  /\ WF_vars(LaunchStep \/ TeardownStep)
  /\ WF_vars(Running /\ AcceptQtest)
  /\ WF_vars(popen # 0 /\ proc[popen] = "quitting" /\ ProcessExits)

-----------------------------------------------------------------------------
(* Properties *)

TeardownPcs == {"shutdown", "shutdown_has_quit", "quit", "close", "kill", "reap", "cleanup"}
Pcs == LaunchPcs \cup TeardownPcs \cup {"idle", "wait"}

\* Every variable has its type; an open log file is that of the last attempt.
TypeOK ==
  /\ launched \in BOOLEAN
  /\ popen \in 0 .. MaxLaunches
  /\ proc \in [Attempts -> Alive \cup {"unborn", "reaped"}]
  /\ qmp \in {"none", "listening", "connected", "negotiated", "closed"}
  /\ tempdir \in 0 .. MaxLaunches /\ dirs \subseteq Attempts
  /\ logpath \in 0 .. MaxLaunches /\ logfile \in {0, attempt}
  /\ logs \subseteq Attempts
  /\ iolog \in 0 .. MaxLaunches
  /\ console \in {"none", "unconnected", "connected"}
  /\ paths \subseteq {"monitor", "qtest"}
  /\ attempt \in 0 .. MaxLaunches
  /\ pc \in Pcs
  /\ caller \in {"none", "launch", "shutdown", "wait", "console"}
  /\ out \in {"pending", "ok", "raised"}

\* The machine never loses track of a QEMU: a process that runs, or that nobody
\* waited for, is the one _popen stands for, so a relaunch never starts a second
\* QEMU beside it (machine.py:288-316 assigns _popen without a look at the old one).
NoOrphan == \A n \in Attempts : proc[n] \in Alive => n = popen

\* "vm is guaranteed to be shut down here" (machine.py:69): when a machine that is
\* not launched is left, whichever call failed on the way, no QEMU runs.
DownUnlessLaunched ==
  pc = "idle" /\ ~launched => \A n \in Attempts : proc[n] \notin Alive

\* shutdown() and launch() signal only a process nobody waited for: the pid of
\* another one may belong to somebody else (machine.py:336-343).
KillOnlyUnreaped == pc = "kill" => proc[popen] \in Alive

\* Between calls, a running QEMU of a launched machine has a monitor connection that
\* is negotiated: no path leaves it closed or listening under a live QEMU.
MonitorWhileRunning == pc = "idle" /\ Running => qmp = "negotiated"

\* get_log() (machine.py:476-481): once a machine is down it returns the output of
\* the last QEMU that ran, and never that of an earlier one.
LogOfLastRun ==
  /\ iolog \in {0, attempt}
  /\ pc = "idle" /\ ~launched /\ attempt # 0 =>
       (proc[attempt] # "unborn" => iolog = attempt)

\* "make sure we cleanup ... in case of exception" (machine.py:284): what launch()
\* put on disk is gone when the machine is down again, so that it can be launched
\* once more; and no console is connected.
NothingLeftBehind ==
  pc = "idle" /\ ~launched =>
    dirs = {} /\ logs = {} /\ paths = {} /\ logfile = 0 /\ console # "connected"

\* "Terminate the VM and clean up" (machine.py:334): shutdown() comes to an end, or
\* waits for a QEMU that refused quit, because the negotiation failed or was
\* interrupted.
ShutdownReturns ==
  pc \in TeardownPcs ~> (pc = "idle" \/ (pc = "reap" /\ proc[popen] = "refusing"))

\* launch() comes to an end, or stops in the accept() of the qtest socket, for ever,
\* because QEMU died between its two connections, or in the shutdown() above.
LaunchReturns ==
  (pc # "idle" /\ caller = "launch") ~>
     \/ pc = "idle"
     \/ pc = "qtest_accept" /\ proc[popen] = "dead"
     \/ pc = "reap" /\ proc[popen] = "refusing"

=============================================================================
