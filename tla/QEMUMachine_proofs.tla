-------------------------- MODULE QEMUMachine_proofs --------------------------
(***************************************************************************)
(* Proofs that the safety invariants of QEMUMachine hold for every value   *)
(* of its constants: both classes, any monitor address, any set of faults  *)
(* and any number of launches.                                             *)
(***************************************************************************)
EXTENDS QEMUMachine, TLAPS

NoneAlive == \A n \in Attempts : proc[n] \notin Alive

BeforeStart == {"mkdtemp", "log", "bind", "qtest_bind", "popen"}
OnProcess == {"quit", "close", "kill", "reap"}

\* What the process is at each place of the control: there is none until the launch
\* has started it and none after the teardown has waited for it.
ProcessInv ==
  /\ NoOrphan
  /\ pc \in BeforeStart \cup {"cleanup"} => NoneAlive
  /\ pc \in {"idle", "wait"} /\ ~launched => NoneAlive
  /\ pc \in OnProcess => popen # 0 /\ proc[popen] \in Alive
  /\ pc = "wait" => popen # 0
  /\ popen # 0 => proc[popen] # "unborn"

\* What the monitor connection is while a launched machine is at rest.
MonitorInv ==
  /\ pc = "qtest_accept" => qmp = "negotiated"
  /\ pc \in {"idle", "wait"} /\ launched /\ Running => qmp = "negotiated"

\* The log file on disk is that of the last attempt; it is there from the moment the
\* launch has opened it until the output is in _iolog.
LogInv ==
  /\ logs \subseteq {attempt}
  /\ logs # {} => attempt # 0 /\ logpath = attempt /\ tempdir = attempt
  /\ logfile # 0 => logs = {attempt}
  /\ pc \in {"idle", "wait"} /\ ~launched => logs = {}
  /\ pc \in {"mkdtemp", "log"} => logs = {}
  /\ pc = "log" => tempdir = attempt
  /\ pc \in {"bind", "qtest_bind", "popen"} => logs = {attempt}
  /\ pc \in BeforeStart => attempt # 0 /\ proc[attempt] = "unborn"
  /\ \A n \in Attempts : n > attempt => proc[n] = "unborn"
  /\ iolog \in {0, attempt}
  /\ attempt # 0 /\ proc[attempt] # "unborn" => logs = {attempt} \/ iolog = attempt

IInv == TypeOK /\ ProcessInv /\ MonitorInv /\ LogInv

\* A machine that was just created (machine.py:72-117) satisfies IInv.
LEMMA InitIInv == Init => IInv
<1> SUFFICES ASSUME Init PROVE IInv
  OBVIOUS
<1> USE MachineAssumption DEF Init, Alive, Live, Attempts
<1>1. TypeOK
  <2>1. launched \in BOOLEAN
    OBVIOUS
  <2> QED
    BY <2>1 DEF TypeOK, Pcs, LaunchPcs, TeardownPcs
<1>2. ProcessInv
  BY DEF ProcessInv, NoOrphan, NoneAlive, BeforeStart, OnProcess
<1>3. MonitorInv
  BY DEF MonitorInv, Running
<1>4. LogInv
  BY DEF LogInv, BeforeStart
<1> QED
  BY <1>1, <1>2, <1>3, <1>4 DEF IInv

\* The step of the induction: under each action, one step for each part of IInv.
LEMMA NextIInv == IInv /\ [Next]_vars => IInv'
<1> SUFFICES ASSUME IInv, [Next]_vars PROVE IInv'
  OBVIOUS
<1>a. TypeOK /\ ProcessInv /\ MonitorInv /\ LogInv
  BY DEF IInv
<1>b. pc \in BeforeStart => attempt \in Attempts
  BY <1>a, MachineAssumption DEF LogInv, TypeOK, Attempts
<1>c. pc \in OnProcess \cup {"wait"} => popen \in Attempts
  BY <1>a, MachineAssumption DEF ProcessInv, TypeOK, Attempts
<1> USE MachineAssumption
    DEF vars, files, process, control, Attempts, Alive, Live, Pcs, LaunchPcs, TeardownPcs,
        BeforeStart, OnProcess, NoneAlive, NoOrphan, Goto, Begin, Return
<1>1. CASE MakeTempDir
  <2>1. TypeOK'
    <3>1. (dirs \subseteq Attempts)'
      BY <1>a, <1>b, <1>c, <1>1 DEF MakeTempDir, TypeOK
    <3> QED
      BY <3>1, <1>a, <1>b, <1>c, <1>1 DEF MakeTempDir, TypeOK
  <2>2. ProcessInv'
    BY <1>a, <1>1 DEF MakeTempDir, TypeOK, ProcessInv
  <2>3. MonitorInv'
    BY <1>a, <1>1 DEF MakeTempDir, Running, TypeOK, ProcessInv, MonitorInv
  <2>4. LogInv'
    BY <1>a, <1>1 DEF MakeTempDir, TypeOK, ProcessInv, LogInv
  <2> QED
    BY <2>1, <2>2, <2>3, <2>4 DEF IInv
<1>2. CASE OpenLog
  <2>1. TypeOK'
    <3>1. logs' \subseteq Attempts /\ logpath' \in 0 .. MaxLaunches
      BY <1>a, <1>b, <1>2 DEF OpenLog, TypeOK
    <3>2. logfile' \in {0, attempt'} /\ pc' \in {"bind", "shutdown"}
      BY <1>a, <1>2 DEF OpenLog, TypeOK
    <3>3. UNCHANGED <<launched, process, qmp, tempdir, dirs, paths, iolog, console, attempt>>
      BY <1>2 DEF OpenLog
    <3>4. caller' \in {"none", "launch", "shutdown", "wait", "console"} /\ out' \in {"pending", "ok", "raised"}
      BY <1>a, <1>2 DEF OpenLog, TypeOK
    <3> QED
      BY <1>a, <3>1, <3>2, <3>3, <3>4 DEF TypeOK
  <2>2. ProcessInv'
    BY <1>a, <1>2 DEF OpenLog, TypeOK, ProcessInv
  <2>3. MonitorInv'
    BY <1>a, <1>2 DEF OpenLog, Running, TypeOK, ProcessInv, MonitorInv
  <2>4. LogInv'
    <3> USE <1>a, <1>b, <1>c, <1>2 DEF OpenLog, TypeOK, ProcessInv, LogInv
    <3>1. (logs \subseteq {attempt})'
      OBVIOUS
    <3>2. (logs # {} => attempt # 0 /\ logpath = attempt /\ tempdir = attempt)'
      OBVIOUS
    <3>3. (logfile # 0 => logs = {attempt})'
      OBVIOUS
    <3>4. (pc \in {"idle", "wait"} /\ ~launched => logs = {})'
      OBVIOUS
    <3>5. (pc \in {"mkdtemp", "log"} => logs = {})'
      OBVIOUS
    <3>6. (pc = "log" => tempdir = attempt)'
      OBVIOUS
    <3>7. (pc \in {"bind", "qtest_bind", "popen"} => logs = {attempt})'
      OBVIOUS
    <3>8. (pc \in BeforeStart => attempt # 0 /\ proc[attempt] = "unborn")'
      OBVIOUS
    <3>9. (\A n \in Attempts : n > attempt => proc[n] = "unborn")'
      OBVIOUS
    <3>10. (iolog \in {0, attempt})'
      OBVIOUS
    <3>11. (attempt # 0 /\ proc[attempt] # "unborn" => logs = {attempt} \/ iolog = attempt)'
      OBVIOUS
    <3> QED
      BY <3>1, <3>2, <3>3, <3>4, <3>5, <3>6, <3>7, <3>8, <3>9, <3>10, <3>11 DEF LogInv
  <2> QED
    BY <2>1, <2>2, <2>3, <2>4 DEF IInv
<1>3. CASE BindMonitor
  <2>1. TypeOK'
    <3>1. (paths \subseteq {"monitor", "qtest"})'
      BY <1>a, <1>b, <1>c, <1>3 DEF BindMonitor, TypeOK
    <3> QED
      BY <3>1, <1>a, <1>b, <1>c, <1>3 DEF BindMonitor, TypeOK
  <2>2. ProcessInv'
    BY <1>a, <1>3 DEF BindMonitor, TypeOK, ProcessInv
  <2>3. MonitorInv'
    BY <1>a, <1>3 DEF BindMonitor, Running, TypeOK, ProcessInv, MonitorInv
  <2>4. LogInv'
    BY <1>a, <1>3 DEF BindMonitor, TypeOK, ProcessInv, LogInv
  <2> QED
    BY <2>1, <2>2, <2>3, <2>4 DEF IInv
<1>4. CASE BindQtest
  <2>1. TypeOK'
    <3>1. (paths \subseteq {"monitor", "qtest"})'
      BY <1>a, <1>b, <1>c, <1>4 DEF BindQtest, TypeOK
    <3> QED
      BY <3>1, <1>a, <1>b, <1>c, <1>4 DEF BindQtest, TypeOK
  <2>2. ProcessInv'
    BY <1>a, <1>4 DEF BindQtest, TypeOK, ProcessInv
  <2>3. MonitorInv'
    BY <1>a, <1>4 DEF BindQtest, Running, TypeOK, ProcessInv, MonitorInv
  <2>4. LogInv'
    BY <1>a, <1>4 DEF BindQtest, TypeOK, ProcessInv, LogInv
  <2> QED
    BY <2>1, <2>2, <2>3, <2>4 DEF IInv
<1>5. CASE StartProcess
  <2>1. TypeOK'
    BY <1>a, <1>b, <1>c, <1>5 DEF StartProcess, TypeOK
  <2>2. ProcessInv'
    BY <1>a, <1>5 DEF StartProcess, TypeOK, ProcessInv
  <2>3. MonitorInv'
    BY <1>a, <1>5 DEF StartProcess, Running, TypeOK, ProcessInv, MonitorInv
  <2>4. LogInv'
    BY <1>a, <1>5 DEF StartProcess, TypeOK, ProcessInv, LogInv
  <2> QED
    BY <2>1, <2>2, <2>3, <2>4 DEF IInv
<1>6. CASE Accept
  <2>1. TypeOK'
    <3>1. proc' \in [Attempts -> Alive \cup {"unborn", "reaped"}]
      BY <1>a, <1>6 DEF Accept, NotNegotiated, TypeOK
    <3>2. launched' \in BOOLEAN
      BY <1>a, <1>6 DEF Accept, Accepted, Launched, TypeOK
    <3>3. pc' \in Pcs /\ out' \in {"pending", "ok", "raised"} /\ UNCHANGED caller
      BY <1>a, <1>6 DEF Accept, NotNegotiated, Accepted, Launched, TypeOK
    <3>4. /\ UNCHANGED <<popen, files, iolog, console, attempt>>
          /\ qmp' \in {"negotiated", "listening", "connected"}
      BY <1>6 DEF Accept, NotNegotiated
    <3> QED
      BY <1>a, <3>1, <3>2, <3>3, <3>4 DEF TypeOK
  <2>2. ProcessInv'
    BY <1>a, <1>6
       DEF Accept, NotNegotiated, Accepted, Launched, Running, TypeOK, ProcessInv
  <2>3. MonitorInv'
    BY <1>a, <1>6
       DEF Accept, NotNegotiated, Accepted, Launched, Running, TypeOK, ProcessInv,
           MonitorInv
  <2>4. LogInv'
    BY <1>a, <1>6
       DEF Accept, NotNegotiated, Accepted, Launched, Running, TypeOK, ProcessInv,
           LogInv
  <2> QED
    BY <2>1, <2>2, <2>3, <2>4 DEF IInv
<1>7. CASE AcceptQtest
  <2>1. TypeOK'
    BY <1>a, <1>b, <1>c, <1>7 DEF AcceptQtest, Launched, TypeOK
  <2>2. ProcessInv'
    BY <1>a, <1>7 DEF AcceptQtest, Launched, TypeOK, ProcessInv
  <2>3. MonitorInv'
    BY <1>a, <1>7 DEF AcceptQtest, Launched, Running, TypeOK, ProcessInv, MonitorInv
  <2>4. LogInv'
    BY <1>a, <1>7 DEF AcceptQtest, Launched, TypeOK, ProcessInv, LogInv
  <2> QED
    BY <2>1, <2>2, <2>3, <2>4 DEF IInv
<1>8. CASE Interrupt
  <2>1. TypeOK'
    BY <1>a, <1>b, <1>c, <1>8 DEF Interrupt, NotNegotiated, Running, TypeOK
  <2>2. ProcessInv'
    BY <1>a, <1>8 DEF Interrupt, NotNegotiated, Running, TypeOK, ProcessInv
  <2>3. MonitorInv'
    BY <1>a, <1>8 DEF Interrupt, NotNegotiated, Running, TypeOK, ProcessInv, MonitorInv
  <2>4. LogInv'
    BY <1>a, <1>8 DEF Interrupt, NotNegotiated, Running, TypeOK, ProcessInv, LogInv
  <2> QED
    BY <2>1, <2>2, <2>3, <2>4 DEF IInv
<1>9. CASE CheckRunning
  <2>1. TypeOK'
    BY <1>a, <1>b, <1>c, <1>9 DEF CheckRunning, Poll, Running, TypeOK
  <2>2. ProcessInv'
    BY <1>a, <1>9 DEF CheckRunning, Poll, Running, TypeOK, ProcessInv
  <2>3. MonitorInv'
    BY <1>a, <1>9 DEF CheckRunning, Poll, Running, TypeOK, ProcessInv, MonitorInv
  <2>4. LogInv'
    BY <1>a, <1>9 DEF CheckRunning, Poll, Running, TypeOK, ProcessInv, LogInv
  <2> QED
    BY <2>1, <2>2, <2>3, <2>4 DEF IInv
<1>10. CASE SendQuit
  <2>1. TypeOK'
    BY <1>a, <1>b, <1>c, <1>10 DEF SendQuit, Quitting, Running, TypeOK
  <2>2. ProcessInv'
    BY <1>a, <1>10 DEF SendQuit, Quitting, Running, TypeOK, ProcessInv
  <2>3. MonitorInv'
    BY <1>a, <1>10 DEF SendQuit, Quitting, Running, TypeOK, ProcessInv, MonitorInv
  <2>4. LogInv'
    BY <1>a, <1>10 DEF SendQuit, Quitting, Running, TypeOK, ProcessInv, LogInv
  <2> QED
    BY <2>1, <2>2, <2>3, <2>4 DEF IInv
<1>11. CASE CloseMonitor
  <2>1. TypeOK'
    BY <1>a, <1>b, <1>c, <1>11 DEF CloseMonitor, TypeOK
  <2>2. ProcessInv'
    BY <1>a, <1>11 DEF CloseMonitor, TypeOK, ProcessInv
  <2>3. MonitorInv'
    BY <1>a, <1>11 DEF CloseMonitor, Running, TypeOK, ProcessInv, MonitorInv
  <2>4. LogInv'
    BY <1>a, <1>11 DEF CloseMonitor, TypeOK, ProcessInv, LogInv
  <2> QED
    BY <2>1, <2>2, <2>3, <2>4 DEF IInv
<1>12. CASE Kill
  <2>1. TypeOK'
    BY <1>a, <1>b, <1>c, <1>12 DEF Kill, TypeOK
  <2>2. ProcessInv'
    BY <1>a, <1>12 DEF Kill, TypeOK, ProcessInv
  <2>3. MonitorInv'
    BY <1>a, <1>12 DEF Kill, Running, TypeOK, ProcessInv, MonitorInv
  <2>4. LogInv'
    BY <1>a, <1>12 DEF Kill, TypeOK, ProcessInv, LogInv
  <2> QED
    BY <2>1, <2>2, <2>3, <2>4 DEF IInv
<1>13. CASE Reap
  <2>1. TypeOK'
    BY <1>a, <1>b, <1>c, <1>13 DEF Reap, TypeOK
  <2>2. ProcessInv'
    BY <1>a, <1>13 DEF Reap, TypeOK, ProcessInv
  <2>3. MonitorInv'
    BY <1>a, <1>13 DEF Reap, Running, TypeOK, ProcessInv, MonitorInv
  <2>4. LogInv'
    BY <1>a, <1>13 DEF Reap, TypeOK, ProcessInv, LogInv
  <2> QED
    BY <2>1, <2>2, <2>3, <2>4 DEF IInv
<1>14. CASE WaitEnds
  <2>1. TypeOK'
    BY <1>a, <1>b, <1>c, <1>14 DEF WaitEnds, TypeOK
  <2>2. ProcessInv'
    BY <1>a, <1>14 DEF WaitEnds, TypeOK, ProcessInv
  <2>3. MonitorInv'
    BY <1>a, <1>14 DEF WaitEnds, Running, TypeOK, ProcessInv, MonitorInv
  <2>4. LogInv'
    <3> USE <1>a, <1>b, <1>c, <1>14 DEF WaitEnds, TypeOK, ProcessInv, LogInv
    <3>1. (logs \subseteq {attempt})'
      OBVIOUS
    <3>2. (logs # {} => attempt # 0 /\ logpath = attempt /\ tempdir = attempt)'
      OBVIOUS
    <3>3. (logfile # 0 => logs = {attempt})'
      OBVIOUS
    <3>4. (pc \in {"idle", "wait"} /\ ~launched => logs = {})'
      OBVIOUS
    <3>5. (pc \in {"mkdtemp", "log"} => logs = {})'
      OBVIOUS
    <3>6. (pc = "log" => tempdir = attempt)'
      OBVIOUS
    <3>7. (pc \in {"bind", "qtest_bind", "popen"} => logs = {attempt})'
      OBVIOUS
    <3>8. (pc \in BeforeStart => attempt # 0 /\ proc[attempt] = "unborn")'
      OBVIOUS
    <3>9. (\A n \in Attempts : n > attempt => proc[n] = "unborn")'
      OBVIOUS
    <3>10. (iolog \in {0, attempt})'
      OBVIOUS
    <3>11. (attempt # 0 /\ proc[attempt] # "unborn" => logs = {attempt} \/ iolog = attempt)'
      OBVIOUS
    <3> QED
      BY <3>1, <3>2, <3>3, <3>4, <3>5, <3>6, <3>7, <3>8, <3>9, <3>10, <3>11 DEF LogInv
  <2> QED
    BY <2>1, <2>2, <2>3, <2>4 DEF IInv
<1>15. CASE Cleanup
  <2>1. TypeOK'
    <3>1. (paths \subseteq {"monitor", "qtest"})'
      BY <1>a, <1>b, <1>c, <1>15
         DEF Cleanup, LoadIoLog, PostShutdown, CloseLog, RemoveQtestSocket, TypeOK
    <3>2. launched' \in BOOLEAN
      BY <1>a, <1>b, <1>c, <1>15
         DEF Cleanup, LoadIoLog, PostShutdown, CloseLog, RemoveQtestSocket, TypeOK
    <3>3. (logfile \in {0, attempt})'
      BY <1>a, <1>b, <1>c, <1>15
         DEF Cleanup, LoadIoLog, PostShutdown, CloseLog, RemoveQtestSocket, TypeOK
    <3>4. (iolog \in 0 .. MaxLaunches)'
      BY <1>a, <1>b, <1>c, <1>15
         DEF Cleanup, LoadIoLog, PostShutdown, CloseLog, RemoveQtestSocket, TypeOK
    <3>5. (dirs \subseteq Attempts /\ logs \subseteq Attempts)'
      BY <1>a, <1>b, <1>c, <1>15
         DEF Cleanup, LoadIoLog, PostShutdown, CloseLog, RemoveQtestSocket, TypeOK
    <3> QED
      BY <3>1, <3>2, <3>3, <3>4, <3>5, <1>a, <1>b, <1>c, <1>15
         DEF Cleanup, LoadIoLog, PostShutdown, CloseLog, RemoveQtestSocket, TypeOK
  <2>2. ProcessInv'
    BY <1>a, <1>15
       DEF Cleanup, LoadIoLog, PostShutdown, CloseLog, RemoveQtestSocket, TypeOK,
           ProcessInv
  <2>3. MonitorInv'
    BY <1>a, <1>15
       DEF Cleanup, LoadIoLog, PostShutdown, CloseLog, RemoveQtestSocket, Running,
           TypeOK, ProcessInv, MonitorInv
  <2>4. LogInv'
    <3>0. logs' = {}
      <4>1. CASE logs' = logs \ {tempdir}
        BY <1>a, <4>1 DEF LogInv
      <4>2. CASE logpath \notin logs /\ logs' = logs
        BY <1>a, <4>2 DEF LogInv
      <4> QED
        BY <1>15, <4>1, <4>2 DEF Cleanup, PostShutdown
    <3> USE <1>a, <1>b, <1>c, <1>15
           DEF Cleanup, LoadIoLog, PostShutdown, CloseLog, RemoveQtestSocket, TypeOK,
               ProcessInv, LogInv
    <3>1. (logs \subseteq {attempt})'
      OBVIOUS
    <3>2. (logs # {} => attempt # 0 /\ logpath = attempt /\ tempdir = attempt)'
      OBVIOUS
    <3>3. (logfile # 0 => logs = {attempt})'
      OBVIOUS
    <3>4. (pc \in {"idle", "wait"} /\ ~launched => logs = {})'
      BY <3>0
    <3>5. (pc \in {"mkdtemp", "log"} => logs = {})'
      OBVIOUS
    <3>6. (pc = "log" => tempdir = attempt)'
      OBVIOUS
    <3>7. (pc \in {"bind", "qtest_bind", "popen"} => logs = {attempt})'
      OBVIOUS
    <3>8. (pc \in BeforeStart => attempt # 0 /\ proc[attempt] = "unborn")'
      OBVIOUS
    <3>9. (\A n \in Attempts : n > attempt => proc[n] = "unborn")'
      OBVIOUS
    <3>10. (iolog \in {0, attempt})'
      OBVIOUS
    <3>11. (attempt # 0 /\ proc[attempt] # "unborn" => logs = {attempt} \/ iolog = attempt)'
      OBVIOUS
    <3> QED
      BY <3>1, <3>2, <3>3, <3>4, <3>5, <3>6, <3>7, <3>8, <3>9, <3>10, <3>11 DEF LogInv
  <2> QED
    BY <2>1, <2>2, <2>3, <2>4 DEF IInv
<1>16. CASE Launch
  <2>1. TypeOK'
    <3>1. (logfile \in {0, attempt})'
      BY <1>a, <1>b, <1>c, <1>16 DEF Launch, TypeOK, LogInv
    <3>2. attempt' \in 0 .. MaxLaunches
      BY <1>a, <1>b, <1>c, <1>16 DEF Launch, TypeOK
    <3> QED
      BY <3>1, <3>2, <1>a, <1>b, <1>c, <1>16 DEF Launch, TypeOK
  <2>2. ProcessInv'
    BY <1>a, <1>16 DEF Launch, TypeOK, ProcessInv
  <2>3. MonitorInv'
    BY <1>a, <1>16 DEF Launch, Running, TypeOK, ProcessInv, MonitorInv
  <2>4. LogInv'
    <3> USE <1>a, <1>b, <1>c, <1>16 DEF Launch, TypeOK, ProcessInv, LogInv
    <3>1. (logs \subseteq {attempt})'
      OBVIOUS
    <3>2. (logs # {} => attempt # 0 /\ logpath = attempt /\ tempdir = attempt)'
      OBVIOUS
    <3>3. (logfile # 0 => logs = {attempt})'
      OBVIOUS
    <3>4. (pc \in {"idle", "wait"} /\ ~launched => logs = {})'
      OBVIOUS
    <3>5. (pc \in {"mkdtemp", "log"} => logs = {})'
      OBVIOUS
    <3>6. (pc = "log" => tempdir = attempt)'
      OBVIOUS
    <3>7. (pc \in {"bind", "qtest_bind", "popen"} => logs = {attempt})'
      OBVIOUS
    <3>8. (pc \in BeforeStart => attempt # 0 /\ proc[attempt] = "unborn")'
      OBVIOUS
    <3>9. (\A n \in Attempts : n > attempt => proc[n] = "unborn")'
      OBVIOUS
    <3>10. (iolog \in {0, attempt})'
      OBVIOUS
    <3>11. (attempt # 0 /\ proc[attempt] # "unborn" => logs = {attempt} \/ iolog = attempt)'
      OBVIOUS
    <3> QED
      BY <3>1, <3>2, <3>3, <3>4, <3>5, <3>6, <3>7, <3>8, <3>9, <3>10, <3>11 DEF LogInv
  <2> QED
    BY <2>1, <2>2, <2>3, <2>4 DEF IInv
<1>17. CASE LaunchRefused
  <2>1. TypeOK'
    BY <1>a, <1>b, <1>c, <1>17 DEF LaunchRefused, TypeOK
  <2>2. ProcessInv'
    BY <1>a, <1>17 DEF LaunchRefused, TypeOK, ProcessInv
  <2>3. MonitorInv'
    BY <1>a, <1>17 DEF LaunchRefused, Running, TypeOK, ProcessInv, MonitorInv
  <2>4. LogInv'
    BY <1>a, <1>17 DEF LaunchRefused, TypeOK, ProcessInv, LogInv
  <2> QED
    BY <2>1, <2>2, <2>3, <2>4 DEF IInv
<1>18. CASE WaitCalled
  <2>1. TypeOK'
    BY <1>a, <1>b, <1>c, <1>18 DEF WaitCalled, TypeOK
  <2>2. ProcessInv'
    BY <1>a, <1>18 DEF WaitCalled, TypeOK, ProcessInv
  <2>3. MonitorInv'
    BY <1>a, <1>18 DEF WaitCalled, Running, TypeOK, ProcessInv, MonitorInv
  <2>4. LogInv'
    BY <1>a, <1>18 DEF WaitCalled, TypeOK, ProcessInv, LogInv
  <2> QED
    BY <2>1, <2>2, <2>3, <2>4 DEF IInv
<1>19. ASSUME NEW has_quit \in BOOLEAN, ShutdownCalled(has_quit)
      PROVE  IInv'
  <2>1. TypeOK'
    BY <1>a, <1>b, <1>c, <1>19 DEF ShutdownCalled, TypeOK
  <2>2. ProcessInv'
    BY <1>a, <1>19 DEF ShutdownCalled, TypeOK, ProcessInv
  <2>3. MonitorInv'
    BY <1>a, <1>19 DEF ShutdownCalled, Running, TypeOK, ProcessInv, MonitorInv
  <2>4. LogInv'
    BY <1>a, <1>19 DEF ShutdownCalled, TypeOK, ProcessInv, LogInv
  <2> QED
    BY <2>1, <2>2, <2>3, <2>4 DEF IInv
<1>20. CASE Observe
  <2>1. TypeOK'
    BY <1>a, <1>b, <1>c, <1>20 DEF Observe, Poll, TypeOK
  <2>2. ProcessInv'
    BY <1>a, <1>20 DEF Observe, Poll, TypeOK, ProcessInv
  <2>3. MonitorInv'
    BY <1>a, <1>20 DEF Observe, Poll, Running, TypeOK, ProcessInv, MonitorInv
  <2>4. LogInv'
    BY <1>a, <1>20 DEF Observe, Poll, TypeOK, ProcessInv, LogInv
  <2> QED
    BY <2>1, <2>2, <2>3, <2>4 DEF IInv
<1>21. CASE CallerQuits
  <2>1. TypeOK'
    BY <1>a, <1>b, <1>c, <1>21 DEF CallerQuits, Quitting, Running, TypeOK
  <2>2. ProcessInv'
    BY <1>a, <1>21 DEF CallerQuits, Quitting, Running, TypeOK, ProcessInv
  <2>3. MonitorInv'
    BY <1>a, <1>21 DEF CallerQuits, Quitting, Running, TypeOK, ProcessInv, MonitorInv
  <2>4. LogInv'
    BY <1>a, <1>21 DEF CallerQuits, Quitting, Running, TypeOK, ProcessInv, LogInv
  <2> QED
    BY <2>1, <2>2, <2>3, <2>4 DEF IInv
<1>22. CASE ConsoleSocket
  <2>1. TypeOK'
    BY <1>a, <1>b, <1>c, <1>22 DEF ConsoleSocket, Running, TypeOK
  <2>2. ProcessInv'
    BY <1>a, <1>22 DEF ConsoleSocket, Running, TypeOK, ProcessInv
  <2>3. MonitorInv'
    BY <1>a, <1>22 DEF ConsoleSocket, Running, TypeOK, ProcessInv, MonitorInv
  <2>4. LogInv'
    BY <1>a, <1>22 DEF ConsoleSocket, Running, TypeOK, ProcessInv, LogInv
  <2> QED
    BY <2>1, <2>2, <2>3, <2>4 DEF IInv
<1>23. CASE ProcessExits
  <2>1. TypeOK'
    <3>1. proc' \in [Attempts -> Alive \cup {"unborn", "reaped"}]
      BY <1>a, <1>b, <1>c, <1>23 DEF ProcessExits, Running, TypeOK
    <3> QED
      BY <3>1, <1>a, <1>b, <1>c, <1>23 DEF ProcessExits, Running, TypeOK
  <2>2. ProcessInv'
    BY <1>a, <1>23 DEF ProcessExits, Running, TypeOK, ProcessInv
  <2>3. MonitorInv'
    BY <1>a, <1>23 DEF ProcessExits, Running, TypeOK, ProcessInv, MonitorInv
  <2>4. LogInv'
    BY <1>a, <1>23 DEF ProcessExits, Running, TypeOK, ProcessInv, LogInv
  <2> QED
    BY <2>1, <2>2, <2>3, <2>4 DEF IInv
<1>24. CASE UNCHANGED vars
  <2>1. TypeOK'
    BY <1>a, <1>b, <1>c, <1>24 DEF TypeOK
  <2>2. ProcessInv'
    BY <1>a, <1>24 DEF TypeOK, ProcessInv
  <2>3. MonitorInv'
    BY <1>a, <1>24 DEF Running, TypeOK, ProcessInv, MonitorInv
  <2>4. LogInv'
    BY <1>a, <1>24 DEF TypeOK, ProcessInv, LogInv
  <2> QED
    BY <2>1, <2>2, <2>3, <2>4 DEF IInv
<1> QED
  BY <1>1, <1>2, <1>3, <1>4, <1>5, <1>6, <1>7, <1>8, <1>9, <1>10, <1>11, <1>12, <1>13,
     <1>14, <1>15, <1>16, <1>17, <1>18, <1>19, <1>20, <1>21, <1>22, <1>23, <1>24
     DEF Next, LaunchStep, TeardownStep, CallerStep

\* IInv holds in every state of every behaviour.
THEOREM Invariance == Spec => []IInv
<1>1. Init => IInv
  BY InitIInv
<1>2. IInv /\ [Next]_vars => IInv'
  BY NextIInv
<1> QED
  BY <1>1, <1>2, PTL DEF Spec

\* Every variable of the machine keeps its type (machine.py:72-117 and every method).
THEOREM TypeCorrect == Spec => []TypeOK
<1>1. IInv => TypeOK
  BY DEF IInv
<1> QED
  BY <1>1, Invariance, PTL

\* A process nobody waited for is the one _popen stands for, however often and with
\* whatever failures launch() is called (machine.py:282-321).
THEOREM NoQEMUIsLost == Spec => []NoOrphan
<1>1. IInv => NoOrphan
  BY DEF IInv, ProcessInv
<1> QED
  BY <1>1, Invariance, PTL

\* "vm is guaranteed to be shut down here" (machine.py:69).
THEOREM ShutDownWhenNotLaunched == Spec => []DownUnlessLaunched
<1>1. IInv => DownUnlessLaunched
  BY DEF IInv, ProcessInv, NoneAlive, DownUnlessLaunched
<1> QED
  BY <1>1, Invariance, PTL

\* _popen.kill() (machine.py:342) is only ever called on a process that still has its
\* pid.
THEOREM KillIsOnItsProcess == Spec => []KillOnlyUnreaped
<1>1. IInv => KillOnlyUnreaped
  BY DEF IInv, ProcessInv, OnProcess, KillOnlyUnreaped
<1> QED
  BY <1>1, Invariance, PTL

\* A launched machine at rest whose QEMU runs has a negotiated monitor
\* (machine.py:264-265, 323-330, 332-357).
THEOREM MonitorIsConnected == Spec => []MonitorWhileRunning
<1>1. IInv => MonitorWhileRunning
  BY DEF IInv, ProcessInv, NoneAlive, MonitorInv, TypeOK, Running, Alive, Attempts,
         MonitorWhileRunning
<1> QED
  BY <1>1, Invariance, PTL

\* get_log() of a machine that is down is the output of its last QEMU (machine.py:476).
THEOREM LogIsOfTheLastRun == Spec => []LogOfLastRun
<1>1. IInv => LogOfLastRun
  BY DEF IInv, LogInv, TypeOK, LogOfLastRun
<1> QED
  BY <1>1, Invariance, PTL

-----------------------------------------------------------------------------
(* What is left on disk *)

\* Where the files of a machine are, when its monitor has its default address.
FilesInv ==
  /\ dirs \subseteq {tempdir}
  /\ pc = "mkdtemp" => dirs = {}
  /\ logpath # 0 => logpath \in logs
  /\ paths \subseteq {"qtest"}
  /\ ~Qtest => paths = {} /\ pc # "qtest_bind"
  /\ pc \in {"idle", "wait"} /\ ~launched =>
       dirs = {} /\ paths = {} /\ logpath = 0 /\ logfile = 0 /\ console # "connected"

\* A machine that was just created has left nothing behind (machine.py:72-117).
LEMMA InitFilesInv == Init => FilesInv
  BY DEF Init, FilesInv

\* No step loses track of a file: what _pre_launch() creates is what _post_shutdown()
\* removes (machine.py:251-280, qtest.py:102-112).
LEMMA NextFilesInv ==
  ASSUME ~FixedAddress, "log" \notin Faults, IInv, FilesInv, [Next]_vars
  PROVE  FilesInv'
<1>a. TypeOK /\ LogInv
  BY DEF IInv
<1> USE <1>a DEF FilesInv, TypeOK, LogInv, vars, files, process, control, Goto, Begin, Return
<1>1. CASE MakeTempDir
  BY <1>1 DEF MakeTempDir
<1>2. CASE OpenLog
  BY <1>2 DEF OpenLog
<1>3. CASE BindMonitor
  BY <1>3 DEF BindMonitor
<1>4. CASE BindQtest
  BY <1>4 DEF BindQtest
<1>5. CASE StartProcess
  BY <1>5 DEF StartProcess
<1>6. CASE Accept
  BY <1>6 DEF Accept, NotNegotiated, Accepted, Launched, Running
<1>7. CASE AcceptQtest
  BY <1>7 DEF AcceptQtest, Launched
<1>8. CASE Interrupt
  BY <1>8 DEF Interrupt, NotNegotiated, Running, LaunchPcs
<1>9. CASE CheckRunning
  BY <1>9 DEF CheckRunning, Poll, Running
<1>10. CASE SendQuit
  BY <1>10 DEF SendQuit, Quitting, Running
<1>11. CASE CloseMonitor
  BY <1>11 DEF CloseMonitor
<1>12. CASE Kill
  BY <1>12 DEF Kill
<1>13. CASE Reap
  BY <1>13 DEF Reap
<1>14. CASE WaitEnds
  BY <1>14 DEF WaitEnds
<1>15. CASE Cleanup
  BY <1>15 DEF Cleanup, LoadIoLog, PostShutdown, CloseLog, RemoveQtestSocket
<1>16. CASE Launch
  BY <1>16 DEF Launch
<1>17. CASE LaunchRefused
  BY <1>17 DEF LaunchRefused
<1>18. CASE WaitCalled
  BY <1>18 DEF WaitCalled
<1>19. ASSUME NEW has_quit \in BOOLEAN, ShutdownCalled(has_quit)
      PROVE  FilesInv'
  BY <1>19 DEF ShutdownCalled
<1>20. CASE Observe
  BY <1>20 DEF Observe, Poll
<1>21. CASE CallerQuits
  BY <1>21 DEF CallerQuits, Quitting, Running
<1>22. CASE ConsoleSocket
  <2>1. pc = "idle" /\ ~launched => ~Running
    <3>1. popen # 0 => popen \in Attempts
      BY MachineAssumption DEF Attempts
    <3> QED
      BY <3>1 DEF IInv, ProcessInv, NoneAlive, Running, Alive
  <2>2. pc' = "idle" /\ (console' = "connected" => Running \/ console = "connected")
    BY <1>22 DEF ConsoleSocket
  <2>3. pc = "idle" /\ UNCHANGED <<launched, qmp, files>>
    BY <1>22 DEF ConsoleSocket
  <2> QED
    BY <2>1, <2>2, <2>3
<1>23. CASE ProcessExits
  BY <1>23 DEF ProcessExits, Running
<1>24. CASE UNCHANGED vars
  BY <1>24
<1> QED
  BY <1>1, <1>2, <1>3, <1>4, <1>5, <1>6, <1>7, <1>8, <1>9, <1>10, <1>11, <1>12, <1>13,
     <1>14, <1>15, <1>16, <1>17, <1>18, <1>19, <1>20, <1>21, <1>22, <1>23, <1>24
     DEF Next, LaunchStep, TeardownStep, CallerStep

\* Without a fixed monitor address, and as long as log files can be opened, nothing of
\* a launch is left behind when the machine is down (machine.py:267-280, 284).
THEOREM CleansUp ==
  ASSUME ~FixedAddress, "log" \notin Faults
  PROVE  Spec => []NothingLeftBehind
<1>1. Init => IInv /\ FilesInv
  BY InitIInv, InitFilesInv
<1>2. IInv /\ FilesInv /\ [Next]_vars => IInv' /\ FilesInv'
  BY NextIInv, NextFilesInv
<1>3. IInv /\ FilesInv => NothingLeftBehind
  BY DEF IInv, FilesInv, LogInv, NothingLeftBehind
<1> QED
  BY <1>1, <1>2, <1>3, PTL DEF Spec

-----------------------------------------------------------------------------
(* What a call may wait for *)

\* A QEMU that has got quit, or whose negotiation failed, does not just run; a launch that
\* accepts connections has one that does, or has died.
EndInv ==
  /\ pc \in {"qtest_bind", "popen", "accept"} => qmp = "listening"
  /\ pc \in {"accept", "qtest_accept"} => popen # 0 /\ proc[popen] \in {"running", "dead"}
  /\ qmp = "connected" /\ popen # 0 => proc[popen] # "running"
  /\ pc = "shutdown_has_quit" => proc[popen] # "running"
  /\ pc = "close" /\ qmp # "listening" => proc[popen] # "running"
  /\ pc = "reap" => proc[popen] # "running"

\* What the calls without a timeout wait for: shutdown() for a QEMU that has accepted quit,
\* or has ended, but for one that refuses every command because its negotiation failed;
\* launch() for one that runs, and so comes to connect, or has died.
WaitsForTheEnd ==
  /\ pc = "reap" => proc[popen] \in {"quitting", "refusing", "dead"}
  /\ pc = "qtest_accept" => proc[popen] \in {"running", "dead"}

\* Every step keeps it: one for each action.
LEMMA NextEndInv ==
  ASSUME IInv, EndInv, [Next]_vars
  PROVE  EndInv'
<1>a. TypeOK /\ ProcessInv
  BY DEF IInv
<1>b. /\ popen \in 0 .. MaxLaunches /\ proc \in [Attempts -> Alive \cup {"unborn", "reaped"}]
      /\ popen # 0 => popen \in Attempts
      /\ pc \in OnProcess \cup {"wait"} => popen # 0
  BY <1>a, MachineAssumption DEF TypeOK, Attempts, ProcessInv
<1> USE <1>b DEF EndInv, vars, process, control, Goto, Begin, Return
<1>1. CASE MakeTempDir
  BY <1>1 DEF MakeTempDir
<1>2. CASE OpenLog
  BY <1>2 DEF OpenLog
<1>3. CASE BindMonitor
  BY <1>3 DEF BindMonitor
<1>4. CASE BindQtest
  BY <1>4 DEF BindQtest
<1>5. CASE StartProcess
  <2>1. attempt \in Attempts
    BY <1>5, <1>a, MachineAssumption DEF StartProcess, IInv, LogInv, BeforeStart, TypeOK, Attempts
  <2> QED
    BY <1>5, <2>1, MachineAssumption DEF StartProcess, Attempts
<1>6. CASE Accept
  BY <1>6 DEF Accept, NotNegotiated, Accepted, Launched, Running, Live
<1>7. CASE AcceptQtest
  BY <1>7 DEF AcceptQtest, Launched
<1>8. CASE Interrupt
  BY <1>8 DEF Interrupt, NotNegotiated, Running
<1>9. CASE CheckRunning
  BY <1>9 DEF CheckRunning, Poll, Running, Live
<1>10. CASE SendQuit
  BY <1>10, <1>a DEF SendQuit, Quitting, Running, Live, OnProcess
<1>11. CASE CloseMonitor
  BY <1>11 DEF CloseMonitor
<1>12. CASE Kill
  BY <1>12, <1>a DEF Kill, OnProcess
<1>13. CASE Reap
  BY <1>13, <1>a DEF Reap, OnProcess
<1>14. CASE WaitEnds
  BY <1>14 DEF WaitEnds
<1>15. CASE Cleanup
  BY <1>15 DEF Cleanup
<1>16. CASE Launch
  BY <1>16 DEF Launch
<1>17. CASE LaunchRefused
  BY <1>17 DEF LaunchRefused
<1>18. CASE WaitCalled
  BY <1>18 DEF WaitCalled
<1>19. ASSUME NEW has_quit \in BOOLEAN, ShutdownCalled(has_quit)
      PROVE  EndInv'
  BY <1>19 DEF ShutdownCalled
<1>20. CASE Observe
  BY <1>20 DEF Observe, Poll
<1>21. CASE CallerQuits
  BY <1>21 DEF CallerQuits, Quitting, Running
<1>22. CASE ConsoleSocket
  BY <1>22 DEF ConsoleSocket
<1>23. CASE ProcessExits
  BY <1>23 DEF ProcessExits, Running
<1>24. CASE UNCHANGED vars
  BY <1>24
<1> QED
  BY <1>1, <1>2, <1>3, <1>4, <1>5, <1>6, <1>7, <1>8, <1>9, <1>10, <1>11, <1>12, <1>13,
     <1>14, <1>15, <1>16, <1>17, <1>18, <1>19, <1>20, <1>21, <1>22, <1>23, <1>24
     DEF Next, LaunchStep, TeardownStep, CallerStep

\* No call waits without a timeout for a QEMU that neither ends nor connects by itself, but
\* for the one that refuses quit (machine.py:332-345, qtest.py:56-62).
THEOREM CallsWaitForTheEnd == Spec => []WaitsForTheEnd
<1>1. Init => EndInv
  BY DEF Init, EndInv
<1>2. IInv /\ EndInv /\ [Next]_vars => EndInv'
  BY NextEndInv
<1>3. IInv /\ EndInv => WaitsForTheEnd
  <2> SUFFICES ASSUME IInv, EndInv, pc = "reap" PROVE proc[popen] \in {"quitting", "refusing", "dead"}
    BY DEF EndInv, WaitsForTheEnd
  <2>1. proc[popen] \in Alive /\ proc[popen] # "running"
    BY DEF IInv, ProcessInv, OnProcess, EndInv
  <2> QED
    BY <2>1 DEF Alive, Live
<1> QED
  BY <1>1, <1>2, <1>3, Invariance, PTL DEF Spec

=============================================================================
