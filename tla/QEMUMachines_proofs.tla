------------------------- MODULE QEMUMachines_proofs -------------------------
(***************************************************************************)
(* Proofs that the properties of QEMUMachines hold for every value of its  *)
(* constants: any number of machines, of either class and whatever names   *)
(* they share, of launches, arguments, commands and interrupts.            *)
(***************************************************************************)
EXTENDS QEMUMachines, TLAPS

\* The machine is in launch(), past the start of its QEMU.
Launching(m) == pc \in {"monitor", "qtest"} /\ cur = m

Has(s, x) == \E i \in DOMAIN s : s[i] = x

\* A list of one or two (what _base_args() extends args by) is a sequence.
LEMMA ShortLists ==
  ASSUME NEW S, NEW a \in S, NEW b \in S
  PROVE  <<>> \in Seq(S) /\ <<a>> \in Seq(S) /\ <<a, b>> \in Seq(S)
OBVIOUS

\* What is in a list put together of two (_launch) is in one of them.
LEMMA ConcatHas ==
  ASSUME NEW S, NEW s \in Seq(S), NEW t \in Seq(S), NEW x, Has(s \o t, x)
  PROVE  Has(s, x) \/ Has(t, x)
<1>1. PICK i \in DOMAIN (s \o t) : (s \o t)[i] = x
  BY DEF Has
<1>2. i \in 1 .. Len(s) + Len(t) /\ Len(s) \in Nat /\ Len(t) \in Nat
  BY <1>1
<1>3. CASE i <= Len(s)
  BY <1>1, <1>2, <1>3 DEF Has
<1>4. CASE i > Len(s)
  <2>1. i - Len(s) \in 1 .. Len(t) /\ (s \o t)[i] = t[i - Len(s)]
    BY <1>2, <1>4
  <2> QED
    BY <1>1, <2>1 DEF Has
<1> QED
  BY <1>2, <1>3, <1>4

\* The parts of a command line, in their order.
MonArgs(d) == <<Opt("mon", "control", d)>>
TypeArgs(m) == Present(vm[m].type # "unset", <<Opt("machine", vm[m].type, 0)>>)
ConsoleArgs(m, d) ==
  Present(vm[m].console # "unset",
          <<Opt("chardev", "console", d), Opt("device", vm[m].console, 0)>>)
QtestArgs(m) ==
  Present(IsQtest(m), <<Opt("qtest", Name[m], 0), Opt("machine", "accel=qtest", 0)>>)
OwnArgs(m) == [i \in DOMAIN lists[vm[m].args] |-> Opt("arg", lists[vm[m].args][i], 0)]

\* Each part of a command line (_base_args, _launch) is a sequence of options.
LEMMA PartTypes ==
  ASSUME TypeOK, NEW m \in Machines, NEW d \in Runs
  PROVE  /\ MonArgs(d) \in Seq(LineOptions) /\ TypeArgs(m) \in Seq(LineOptions)
         /\ ConsoleArgs(m, d) \in Seq(LineOptions) /\ QtestArgs(m) \in Seq(LineOptions)
         /\ OwnArgs(m) \in Seq(LineOptions)
<1>1. vm[m] \in VMs /\ lists[vm[m].args] \in Seq(Arguments)
  BY DEF TypeOK, VMs
<1>2. Opt("mon", "control", d) \in LineOptions /\ Opt("machine", "accel=qtest", 0) \in LineOptions
        /\ Opt("chardev", "console", d) \in LineOptions
  BY DEF Opt, LineOptions
<1>3. vm[m].type # "unset" => Opt("machine", vm[m].type, 0) \in LineOptions
  BY <1>1 DEF Opt, LineOptions, VMs
<1>4. vm[m].console # "unset" => Opt("device", vm[m].console, 0) \in LineOptions
  BY <1>1 DEF Opt, LineOptions, VMs
<1>5. Opt("qtest", Name[m], 0) \in LineOptions
  BY DEF Opt, LineOptions, Names
<1>6. OwnArgs(m) \in Seq(LineOptions)
  <2>1. \A i \in DOMAIN lists[vm[m].args] : lists[vm[m].args][i] \in Arguments
    BY <1>1
  <2>2. \A i \in DOMAIN lists[vm[m].args] : Opt("arg", lists[vm[m].args][i], 0) \in LineOptions
    BY <2>1 DEF Opt, LineOptions
  <2> QED
    BY <1>1, <2>2 DEF OwnArgs
<1>7. MonArgs(d) \in Seq(LineOptions)
  BY <1>2, ShortLists DEF MonArgs
<1>8. TypeArgs(m) \in Seq(LineOptions)
  BY <1>2, <1>3, ShortLists DEF TypeArgs, Present
<1>9. ConsoleArgs(m, d) \in Seq(LineOptions)
  BY <1>2, <1>4, ShortLists DEF ConsoleArgs, Present
<1>10. QtestArgs(m) \in Seq(LineOptions)
  BY <1>2, <1>5, ShortLists DEF QtestArgs, Present
<1> QED
  BY <1>6, <1>7, <1>8, <1>9, <1>10

\* They make up the command line (machine.py:312-313).
LEMMA PartsOfLine ==
  ASSUME NEW m \in Machines, NEW d \in Runs
  PROVE  CommandLine(m, d)
           = (((MonArgs(d) \o TypeArgs(m)) \o ConsoleArgs(m, d)) \o QtestArgs(m)) \o OwnArgs(m)
BY DEF CommandLine, BaseArgs, MonArgs, TypeArgs, ConsoleArgs, QtestArgs, OwnArgs

\* So is the command line as a whole.
LEMMA CommandLineType ==
  ASSUME TypeOK, NEW m \in Machines, NEW d \in Runs
  PROVE  CommandLine(m, d) \in Seq(LineOptions)
<1>1. MonArgs(d) \o TypeArgs(m) \in Seq(LineOptions)
  BY PartTypes
<1>2. (MonArgs(d) \o TypeArgs(m)) \o ConsoleArgs(m, d) \in Seq(LineOptions)
  BY <1>1, PartTypes
<1>3. ((MonArgs(d) \o TypeArgs(m)) \o ConsoleArgs(m, d)) \o QtestArgs(m) \in Seq(LineOptions)
  BY <1>2, PartTypes
<1> QED
  <2>1. OwnArgs(m) \in Seq(LineOptions)
    BY PartTypes
  <2>2. (((MonArgs(d) \o TypeArgs(m)) \o ConsoleArgs(m, d)) \o QtestArgs(m)) \o OwnArgs(m)
          \in Seq(LineOptions)
    BY <1>3, <2>1
  <2> QED
    BY <2>2, PartsOfLine

\* Only a QEMUQtestMachine starts its QEMU with -qtest, and with the path of its own
\* name (qtest.py:96-100).
LEMMA QtestOption ==
  ASSUME TypeOK, NEW m \in Machines, NEW d \in Runs, NEW n,
         Has(CommandLine(m, d), Opt("qtest", n, 0))
  PROVE  IsQtest(m) /\ n = Name[m]
<1> DEFINE q == Opt("qtest", n, 0)
           front == (MonArgs(d) \o TypeArgs(m)) \o ConsoleArgs(m, d)
<1>1. ~Has(MonArgs(d), q) /\ ~Has(TypeArgs(m), q) /\ ~Has(ConsoleArgs(m, d), q)
  <2>1. ~Has(MonArgs(d), q)
    BY DEF Has, Opt, MonArgs
  <2>2. ~Has(TypeArgs(m), q)
    BY DEF Has, Opt, Present, TypeArgs
  <2>3. ~Has(ConsoleArgs(m, d), q)
    BY DEF Has, Opt, Present, ConsoleArgs
  <2> QED
    BY <2>1, <2>2, <2>3
<1>2. ~Has(OwnArgs(m), q)
  BY DEF Has, Opt, OwnArgs
<1>3. Has(QtestArgs(m), q) => IsQtest(m) /\ n = Name[m]
  BY DEF Has, Opt, Present, QtestArgs
<1>4. MonArgs(d) \o TypeArgs(m) \in Seq(LineOptions) /\ front \in Seq(LineOptions)
        /\ front \o QtestArgs(m) \in Seq(LineOptions)
  BY PartTypes
<1>5. Has((front \o QtestArgs(m)) \o OwnArgs(m), q)
  BY PartsOfLine
<1> HIDE DEF q
<1>6. ~Has(MonArgs(d) \o TypeArgs(m), q)
  BY <1>1, PartTypes, ConcatHas
<1>7. ~Has(front, q)
  BY <1>1, <1>4, <1>6, PartTypes, ConcatHas
<1> HIDE DEF front
<1>8. Has(front \o QtestArgs(m), q)
  BY <1>2, <1>4, <1>5, PartTypes, ConcatHas
<1>9. Has(QtestArgs(m), q)
  BY <1>4, <1>7, <1>8, PartTypes, ConcatHas
<1> QED
  BY <1>3, <1>9

-----------------------------------------------------------------------------
(* Types *)

\* Replacing one machine, QEMU, list or socket file (any method) keeps the types.
LEMMA UpdateTypes ==
  ASSUME TypeOK
  PROVE  /\ \A m \in Machines, v \in VMs : [vm EXCEPT ![m] = v] \in [Machines -> VMs]
         /\ \A r \in Runs, q \in QEMUs : [qemu EXCEPT ![r] = q] \in [Runs -> QEMUs]
         /\ \A m \in Machines, k \in Runs \cup {0} :
              [qfile EXCEPT ![Name[m]] = k] \in [Names -> Runs \cup {0}]
         /\ \A l \in Lists, s \in Seq(Arguments) :
              [lists EXCEPT ![l] = s] \in [Lists -> Seq(Arguments)]
         /\ \A m \in Machines, s \in Seq(Arguments) :
              [own EXCEPT ![m] = s] \in [Machines -> Seq(Arguments)]
BY DEF TypeOK

\* What happens to a QEMU while it runs (qtest.py:65-73) keeps its type.
LEMMA QEMUTypes ==
  ASSUME NEW q \in QEMUs
  PROVE  /\ q.lines \in Seq(Nat) /\ q.sent \in Nat /\ q.answered \in Nat /\ q.late \in Nat
         /\ [q EXCEPT !.sent = q.sent + 1] \in QEMUs
         /\ [q EXCEPT !.late = q.late + 1] \in QEMUs
         /\ [q EXCEPT !.lines = Append(q.lines, 0)] \in QEMUs
         /\ [q EXCEPT !.lines = Append(q.lines, q.answered + 1), !.answered = q.answered + 1]
              \in QEMUs
         /\ q.lines # <<>> =>
              \A k \in {q.late, q.late + 1} :
                [q EXCEPT !.lines = Tail(q.lines), !.late = k] \in QEMUs
<1>1. q.lines \in Seq(Nat) /\ q.sent \in Nat /\ q.answered \in Nat /\ q.late \in Nat
  BY DEF QEMUs
<1>2. \A s \in Seq(Nat), k \in Nat :
        /\ [q EXCEPT !.sent = k] \in QEMUs
        /\ [q EXCEPT !.late = k] \in QEMUs
        /\ [q EXCEPT !.lines = s] \in QEMUs
        /\ [q EXCEPT !.lines = s, !.late = k] \in QEMUs
        /\ [q EXCEPT !.lines = s, !.answered = k] \in QEMUs
  BY DEF QEMUs
<1>3. Append(q.lines, 0) \in Seq(Nat) /\ Append(q.lines, q.answered + 1) \in Seq(Nat)
  BY <1>1
<1>4. q.lines # <<>> => Tail(q.lines) \in Seq(Nat)
  BY <1>1
<1>5. q.sent + 1 \in Nat /\ q.late + 1 \in Nat /\ q.answered + 1 \in Nat
  BY <1>1
<1> QED
  BY <1>1, <1>2, <1>3, <1>4, <1>5

\* The teardown (machine.py:332-357) keeps the types.
LEMMA TearsDownTypes ==
  ASSUME TypeOK, NEW m \in Machines, TearsDown(m)
  PROVE  /\ vm' \in [Machines -> VMs] /\ qemu' \in [Runs -> QEMUs]
         /\ qfile' \in [Names -> Runs \cup {0}]
<1>1. vm[m] \in VMs /\ \A r \in Runs : qemu[r] \in QEMUs
  BY DEF TypeOK
<1>2. [CleanedUp(vm[m]) EXCEPT !.launched = FALSE] \in VMs
  BY <1>1 DEF CleanedUp, VMs
<1>3. vm' \in [Machines -> VMs]
  BY <1>2, UpdateTypes DEF TearsDown
<1>4. qemu' \in [Runs -> QEMUs]
  <2>1. \A r \in Runs : [qemu[r] EXCEPT !.state = "dead"] \in QEMUs
    BY <1>1 DEF QEMUs
  <2>2. vm[m].popen \in Runs \cup {0}
    BY <1>1 DEF VMs
  <2> QED
    BY <2>1, <2>2, UpdateTypes DEF TearsDown, Gone, TypeOK
<1>5. qfile' \in [Names -> Runs \cup {0}]
  BY UpdateTypes DEF TearsDown, RemovesSocket, TypeOK
<1> QED
  BY <1>3, <1>4, <1>5

\* The connection of a machine and its file object are those of one accept(), and
\* qtest() uses them only after it.
ReadInv ==
  /\ pc = "read" => vm[cur].peer \in Runs
  /\ \A m \in Machines : vm[m].reader = vm[m].peer

\* The types hold before anything is made, and every step keeps them.
THEOREM TypeCorrect == Spec => [](TypeOK /\ ReadInv)
<1>1. Init => TypeOK
  <2> SUFFICES ASSUME Init PROVE TypeOK
    OBVIOUS
  <2>1. NoMachine \in VMs
    BY DEF NoMachine, VMs, Lists
  <2>2. NoQEMU \in QEMUs
    BY DEF NoQEMU, QEMUs
  <2>3. <<>> \in Seq(Arguments)
    OBVIOUS
  <2> QED
    BY <2>1, <2>2, <2>3, MachinesAssumption DEF Init, TypeOK, Nothing
<1>2. TypeOK /\ ReadInv /\ [Next]_vars => TypeOK'
  <2> SUFFICES ASSUME TypeOK, ReadInv, [Next]_vars PROVE TypeOK'
    OBVIOUS
  <2> USE DEF counts
  <2>a. \A m \in Machines : vm[m] \in VMs
    BY DEF TypeOK
  <2>b. \A r \in Runs : qemu[r] \in QEMUs
    BY DEF TypeOK
  <2>c. \A l \in Lists : lists[l] \in Seq(Arguments)
    BY DEF TypeOK
  <2>d. \A m \in Machines : own[m] \in Seq(Arguments)
    BY DEF TypeOK
  <2>e. \A m \in Machines : m \in Lists /\ vm[m].args \in Lists
    BY <2>a DEF Lists, VMs
  <2>f. \A r \in Runs, q \in QEMUs : [qemu EXCEPT ![r] = q] \in [Runs -> QEMUs]
    BY UpdateTypes
  <2>g. \A m \in Machines, v \in VMs : [vm EXCEPT ![m] = v] \in [Machines -> VMs]
    BY UpdateTypes
  <2>1. ASSUME NEW m \in Machines, NEW c \in {"plain", "qtest"}, NEW a \in BOOLEAN, New(m, c, a)
        PROVE  TypeOK'
    <3>1. [vm[m] EXCEPT !.class = c, !.args = m] \in VMs
      BY <2>a, <2>e DEF VMs
    <3>2. vm' = [vm EXCEPT ![m] = [vm[m] EXCEPT !.class = c, !.args = m]]
      BY <2>1 DEF New, Initial, TypeOK
    <3>3. vm' \in [Machines -> VMs]
      BY <3>1, <3>2, <2>g
    <3>4. (IF a THEN lists[Caller] ELSE <<>>) \in Seq(Arguments)
      BY <2>c DEF Lists
    <3>5. lists' \in [Lists -> Seq(Arguments)] /\ own' \in [Machines -> Seq(Arguments)]
      BY <2>1, <2>e, <3>4, UpdateTypes DEF New, Initial
    <3> QED
      BY <2>1, <3>3, <3>5 DEF New, TypeOK
  <2>2. ASSUME NEW m \in Machines, NEW s \in Seq(Arguments), Extend(m, s)
        PROVE  TypeOK'
    <3>1. lists[vm[m].args] \o s \in Seq(Arguments) /\ own[m] \o s \in Seq(Arguments)
      BY <2>c, <2>d, <2>e
    <3>2. lists' \in [Lists -> Seq(Arguments)] /\ own' \in [Machines -> Seq(Arguments)]
      BY <2>2, <2>e, <3>1, UpdateTypes DEF Extend
    <3> QED
      BY <2>2, <3>2 DEF Extend, Changes, TypeOK
  <2>3. ASSUME NEW m \in Machines, NEW v \in VMs, Set(m, v)
        PROVE  TypeOK'
    BY <2>3, <2>g DEF Set, Changes, TypeOK
  <2>4. ASSUME NEW x \in Extra, CallerAppends(x)
        PROVE  TypeOK'
    <3>1. Append(lists[Caller], x) \in Seq(Arguments)
      BY <2>c DEF Lists, Arguments
    <3>2. lists' \in [Lists -> Seq(Arguments)]
      BY <2>4, <3>1, UpdateTypes DEF CallerAppends, Lists
    <3> QED
      BY <2>4, <3>2 DEF CallerAppends, Changes, TypeOK
  <2>5. ASSUME NEW m \in Machines, Launch(m)
        PROVE  TypeOK'
    <3> DEFINE r == nruns + 1
    <3>1. r \in Runs
      BY <2>5, MachinesAssumption DEF Launch, TypeOK, Runs
    <3>2. [qemu[r] EXCEPT !.state = "started", !.line = CommandLine(m, r)] \in QEMUs
      BY <2>b, <3>1, CommandLineType DEF QEMUs
    <3>3. qemu' = [qemu EXCEPT ![r] =
                   [qemu[r] EXCEPT !.state = "started", !.line = CommandLine(m, r)]]
      BY <2>5, <3>1 DEF Launch, TypeOK
    <3>4. qemu' \in [Runs -> QEMUs]
      BY <2>f, <3>1, <3>2, <3>3
    <3> DEFINE address == IF vm[m].console = "unset" THEN vm[m].address ELSE r
               qtest == IF IsQtest(m) THEN r ELSE 0
               v == [vm[m] EXCEPT !.dir = r, !.popen = r, !.address = address, !.qtest = qtest,
                                  !.knock = 0, !.peer = 0, !.reader = 0]
    <3>5. v \in VMs
      <4>1. address \in Runs \cup {0} /\ qtest \in Runs \cup {0}
        BY <2>a, <3>1 DEF VMs
      <4> HIDE DEF address, qtest, r
      <4> QED
        BY <2>a, <3>1, <4>1 DEF VMs
    <3>6. vm' \in [Machines -> VMs]
      <4>1. vm' = [vm EXCEPT ![m] = v]
        BY <2>5, <2>a DEF Launch, VMs
      <4> QED
        BY <2>g, <3>5, <4>1
    <3>7. qfile' \in [Names -> Runs \cup {0}]
      BY <2>5, <3>1, UpdateTypes DEF Launch, TypeOK
    <3>8. nruns' \in 0 .. MaxRuns
      BY <2>5, MachinesAssumption DEF Launch, TypeOK
    <3> QED
      BY <2>5, <3>4, <3>6, <3>7, <3>8 DEF Launch, TypeOK
  <2>6. ASSUME NEW m \in Machines, LaunchRefused(m) \/ Shutdown(m)
        PROVE  TypeOK'
    BY <2>6, TearsDownTypes DEF LaunchRefused, Shutdown, TypeOK
  <2>7. ASSUME NEW m \in Machines, Wait(m)
        PROVE  TypeOK'
    <3>1. CleanedUp(vm[m]) \in VMs
      BY <2>a DEF CleanedUp, VMs
    <3>2. vm' \in [Machines -> VMs]
      BY <2>7, <2>g, <3>1 DEF Wait
    <3>3. qfile' \in [Names -> Runs \cup {0}]
      BY <2>7, UpdateTypes DEF Wait, RemovesSocket, TypeOK
    <3> QED
      BY <2>7, <3>2, <3>3 DEF Wait, TypeOK
  <2>8. ASSUME NEW m \in Machines, ConsoleSocket(m)
        PROVE  TypeOK'
    <3>1. vm[m].address \in Runs \cup {0}
      BY <2>a DEF VMs
    <3>2. [vm[m] EXCEPT !.socket = IF Listens(m) THEN vm[m].address ELSE -1] \in VMs
      BY <2>a, <3>1 DEF VMs
    <3> QED
      BY <2>8, <2>g, <3>2 DEF ConsoleSocket, TypeOK
  <2>9. ASSUME NEW m \in Machines, Qtest(m)
        PROVE  TypeOK'
    <3>1. vm[m].peer \in Runs
      BY <2>9, <2>a DEF Qtest, VMs
    <3>2. [qemu[vm[m].peer] EXCEPT !.sent = qemu[vm[m].peer].sent + 1] \in QEMUs
      BY <2>b, <3>1, QEMUTypes
    <3>3. qemu' \in [Runs -> QEMUs]
      BY <2>9, <2>f, <3>1, <3>2 DEF Qtest
    <3> QED
      BY <2>9, <3>3 DEF Qtest, TypeOK
  <2>10. ASSUME AcceptMonitor PROVE TypeOK'
    <3>1. [vm[cur] EXCEPT !.launched = TRUE] \in VMs
      BY <2>a DEF VMs, TypeOK
    <3>2. vm' \in [Machines -> VMs]
      BY <2>10, <2>g, <3>1 DEF AcceptMonitor, Up, TypeOK
    <3> QED
      BY <2>10, <3>2 DEF AcceptMonitor, TypeOK
  <2>11. ASSUME AcceptQtest PROVE TypeOK'
    <3>1. \A v \in VMs, k \in Runs \cup {0} :
            [v EXCEPT !.peer = k, !.reader = k, !.launched = TRUE] \in VMs
      BY DEF VMs
    <3>2. cur \in Machines /\ vm[cur].knock \in Runs \cup {0}
      BY <2>a DEF VMs, TypeOK
    <3>3. vm' = [vm EXCEPT ![cur] = [vm[cur] EXCEPT !.peer = vm[cur].knock,
                                       !.reader = vm[cur].knock, !.launched = TRUE]]
      BY <2>11 DEF AcceptQtest
    <3>4. vm' \in [Machines -> VMs]
      BY <2>a, <2>g, <3>1, <3>2, <3>3
    <3> QED
      BY <2>11, <3>4 DEF AcceptQtest, TypeOK
  <2>12. ASSUME LaunchFails PROVE TypeOK'
    BY <2>12, TearsDownTypes DEF LaunchFails, TypeOK
  <2>13. ASSUME ReadLine PROVE TypeOK'
    <3> DEFINE r == vm[cur].reader
    <3>1. r \in Runs
      BY <2>a, <2>13 DEF ReadInv, ReadLine, TypeOK
    <3>a. qemu[r] \in QEMUs
      BY <2>b, <3>1
    <3>b. qemu[r].lines \in Seq(Nat)
      BY <3>a, QEMUTypes
    <3>c. qemu[r].lines # <<>> => Head(qemu[r].lines) \in Nat
      <4>1. \A s \in Seq(Nat) : s # <<>> => Head(s) \in Nat
        OBVIOUS
      <4> HIDE DEF r
      <4> QED
        BY <3>b, <4>1
    <3>2. qemu[r].lines # <<>> =>
            /\ Head(qemu[r].lines) \in Nat
            /\ \A k \in {qemu[r].late, qemu[r].late + 1} :
                 [qemu[r] EXCEPT !.lines = Tail(qemu[r].lines), !.late = k] \in QEMUs
      BY <3>a, <3>c, QEMUTypes
    <3>4. qemu' \in [Runs -> QEMUs] /\ got' \in (Runs \cup {0}) \X Nat
      <4>1. CASE qemu[r].lines # <<>>
        <5>1. qemu' = [qemu EXCEPT ![r] = [qemu[r] EXCEPT !.lines = Tail(qemu[r].lines),
                         !.late = IF Head(qemu[r].lines) = 0 THEN qemu[r].late + 1
                                  ELSE qemu[r].late]]
          BY <2>13, <4>1 DEF ReadLine
        <5>2. got' = <<r, Head(qemu[r].lines)>>
          BY <2>13, <4>1 DEF ReadLine
        <5> QED
          BY <2>f, <3>1, <3>2, <4>1, <5>1, <5>2
      <4>2. CASE qemu[r].lines = <<>>
        BY <2>13, <4>2 DEF ReadLine, Nothing, TypeOK
      <4> QED
        BY <4>1, <4>2
    <3> QED
      BY <2>13, <3>4 DEF ReadLine, TypeOK
  <2>14. ASSUME ReadRaises PROVE TypeOK'
    <3>1. vm[cur].peer \in Runs
      BY <2>14 DEF ReadInv, ReadRaises
    <3>2. [qemu[vm[cur].peer] EXCEPT !.late = qemu[vm[cur].peer].late + 1] \in QEMUs
      BY <2>b, <3>1, QEMUTypes
    <3>3. qemu' \in [Runs -> QEMUs]
      BY <2>14, <2>f, <3>1, <3>2 DEF ReadRaises
    <3> QED
      BY <2>14, <3>3 DEF ReadRaises, Nothing, TypeOK
  <2>15. ASSUME NEW r \in Runs, QemuDies(r) \/ MonitorConnects(r)
         PROVE  TypeOK'
    <3>1. \A st \in {"up", "dead"} : [qemu[r] EXCEPT !.state = st] \in QEMUs
      BY <2>b DEF QEMUs
    <3>2. qemu' \in [Runs -> QEMUs]
      BY <2>15, <2>f, <3>1 DEF QemuDies, MonitorConnects
    <3> QED
      BY <2>15, <3>2 DEF QemuDies, MonitorConnects, TypeOK
  <2>16. ASSUME NEW r \in Runs, NEW n \in Names, QtestConnects(r, n)
         PROVE  TypeOK'
    <3>1. \A st \in {"joined", "dead"} : [qemu[r] EXCEPT !.state = st] \in QEMUs
      BY <2>b DEF QEMUs
    <3>2. qemu' \in [Runs -> QEMUs]
      BY <2>16, <2>f, <3>1 DEF QtestConnects
    <3>3. \A m \in Machines : [vm[m] EXCEPT !.knock = r] \in VMs
      BY <2>a DEF VMs
    <3>4. vm' \in [Machines -> VMs]
      BY <2>16, <2>g, <3>3 DEF QtestConnects, TypeOK
    <3> QED
      BY <2>16, <3>2, <3>4 DEF QtestConnects, TypeOK
  <2>17. ASSUME NEW r \in Runs, QtestReplies(r)
         PROVE  TypeOK'
    <3>2. [qemu[r] EXCEPT !.lines = Append(qemu[r].lines, qemu[r].answered + 1),
                          !.answered = qemu[r].answered + 1] \in QEMUs
      BY <2>b, QEMUTypes
    <3>3. qemu' = [qemu EXCEPT ![r] = [qemu[r] EXCEPT
                     !.lines = Append(qemu[r].lines, qemu[r].answered + 1),
                     !.answered = qemu[r].answered + 1]]
      BY <2>17 DEF QtestReplies
    <3>4. qemu' \in [Runs -> QEMUs]
      BY <2>f, <3>2, <3>3
    <3> QED
      BY <2>17, <3>4 DEF QtestReplies, TypeOK
  <2>18. ASSUME NEW r \in Runs, QtestIrq(r)
         PROVE  TypeOK'
    <3>1. Append(qemu[r].lines, 0) \in Seq(Nat)
      BY <2>b DEF QEMUs
    <3>2. [qemu[r] EXCEPT !.lines = Append(@, 0)] \in QEMUs
      BY <2>b, <3>1 DEF QEMUs
    <3>3. qemu' \in [Runs -> QEMUs]
      BY <2>18, <2>f, <3>2 DEF QtestIrq
    <3> QED
      BY <2>18, <3>3 DEF QtestIrq, TypeOK
  <2>19. CASE UNCHANGED vars
    BY <2>19 DEF vars, TypeOK
  <2>20. ASSUME NEW m \in Machines,
                \/ \E x \in Extra : AddArgs(m, x)
                \/ AddMonitorNull(m) \/ AddFd(m)
         PROVE  TypeOK'
    <3>1. \A x \in Extra : <<x>> \in Seq(Arguments)
      BY DEF Arguments
    <3>2. <<"-monitor", "null">> \in Seq(Arguments) /\ <<"-add-fd", "fd">> \in Seq(Arguments)
      BY DEF Arguments
    <3> QED
      BY <2>2, <2>20, <3>1, <3>2 DEF AddArgs, AddMonitorNull, AddFd
  <2>21. ASSUME NEW m \in Machines, SetMachine(m) \/ \E d \in Devices : SetConsole(m, d)
         PROVE  TypeOK'
    <3>1. [vm[m] EXCEPT !.type = "machine"] \in VMs
      BY <2>a DEF VMs
    <3>2. \A d \in Devices : [vm[m] EXCEPT !.console = d] \in VMs
      BY <2>a DEF VMs
    <3> QED
      BY <2>3, <2>21, <3>1, <3>2 DEF SetMachine, SetConsole
  <2> QED
    BY <2>1, <2>4, <2>5, <2>6, <2>7, <2>8, <2>9, <2>10, <2>11, <2>12, <2>13, <2>14, <2>15,
       <2>16, <2>17, <2>18, <2>19, <2>20, <2>21 DEF Next
<1>3. Init => ReadInv
  BY DEF Init, ReadInv, NoMachine
<1>4. TypeOK /\ ReadInv /\ [Next]_vars => ReadInv'
  <2> SUFFICES ASSUME TypeOK, ReadInv, [Next]_vars PROVE ReadInv'
    OBVIOUS
  <2> USE DEF ReadInv, TypeOK
  <2>a. \A m \in Machines : vm[m] \in VMs
    BY DEF TypeOK
  <2>1. ASSUME NEW m \in Machines, NEW c \in {"plain", "qtest"}, NEW a \in BOOLEAN, New(m, c, a)
        PROVE  ReadInv'
    BY <2>1, <2>a DEF New, Initial, VMs
  <2>2. ASSUME NEW m \in Machines, Launch(m) PROVE ReadInv'
    BY <2>2, <2>a DEF Launch, VMs
  <2>3. ASSUME NEW m \in Machines, TearsDown(m), pc' = "idle" PROVE ReadInv'
    BY <2>3, <2>a DEF TearsDown, CleanedUp, VMs
  <2>4. ASSUME NEW m \in Machines, Wait(m) PROVE ReadInv'
    BY <2>4, <2>a DEF Wait, Idle, CleanedUp, VMs
  <2>5. ASSUME NEW m \in Machines, ConsoleSocket(m) PROVE ReadInv'
    BY <2>5, <2>a DEF ConsoleSocket, Idle, VMs
  <2>6. ASSUME NEW m \in Machines, Qtest(m) PROVE ReadInv'
    BY <2>6, <2>a DEF Qtest, VMs
  <2>7. ASSUME NEW m \in Machines, NEW v, Set(m, v), v.peer = vm[m].peer, v.reader = vm[m].reader
        PROVE  ReadInv'
    BY <2>7, <2>a DEF Set, Idle
  <2>8. CASE AcceptMonitor
    <3>1. pc = "monitor" /\ pc' \in {"qtest", "idle"} /\ cur' = cur
      BY <2>8 DEF AcceptMonitor
    <3>2. vm' = vm \/ vm' = [vm EXCEPT ![cur].launched = TRUE]
      BY <2>8 DEF AcceptMonitor, Up
    <3>3. ReadInv'
      <4>1. CASE vm' = vm
        BY <3>1, <4>1
      <4>2. CASE vm' = [vm EXCEPT ![cur].launched = TRUE]
        BY <3>1, <4>2, <2>a DEF VMs
      <4> QED
        BY <3>2, <4>1, <4>2
    <3> QED
      BY <3>3
  <2>9. CASE AcceptQtest
    BY <2>9, <2>a DEF AcceptQtest, VMs
  <2>10. ASSUME NEW r \in Runs, NEW n \in Names, QtestConnects(r, n) PROVE ReadInv'
    <3>1. pc' = pc /\ cur' = cur
      BY <2>10 DEF QtestConnects
    <3>2. vm' = vm \/ \E m \in Machines : vm' = [vm EXCEPT ![m].knock = r]
      BY <2>10 DEF QtestConnects
    <3>3. CASE vm' = vm
      BY <3>1, <3>3
    <3>4. ASSUME NEW m \in Machines, vm' = [vm EXCEPT ![m].knock = r] PROVE ReadInv'
      BY <3>1, <3>4, <2>a DEF VMs
    <3> QED
      BY <3>2, <3>3, <3>4
  <2>11. CASE UNCHANGED <<vm, pc, cur>>
    BY <2>11
  <2>12. CASE ReadLine \/ ReadRaises
    BY <2>12 DEF ReadLine, ReadRaises
  <2>13. ASSUME NEW m \in Machines, SetMachine(m) \/ \E d \in Devices : SetConsole(m, d)
         PROVE  ReadInv'
    BY <2>7, <2>13, <2>a DEF SetMachine, SetConsole, VMs
  <2>14. ASSUME NEW m \in Machines,
                \/ \E x \in Extra : AddArgs(m, x)
                \/ AddMonitorNull(m) \/ AddFd(m) \/ \E x \in Extra : CallerAppends(x)
         PROVE  ReadInv'
    BY <2>11, <2>14 DEF AddArgs, AddMonitorNull, AddFd, Extend, CallerAppends
  <2>15. ASSUME NEW r \in Runs,
                QemuDies(r) \/ MonitorConnects(r) \/ QtestReplies(r) \/ QtestIrq(r)
         PROVE  ReadInv'
    BY <2>11, <2>15 DEF QemuDies, MonitorConnects, QtestReplies, QtestIrq
  <2>16. ASSUME NEW m \in Machines, LaunchRefused(m) \/ Shutdown(m) PROVE ReadInv'
    BY <2>3, <2>16 DEF LaunchRefused, Shutdown, Idle
  <2>17. CASE LaunchFails
    BY <2>3, <2>17 DEF LaunchFails
  <2>18. CASE UNCHANGED vars
    BY <2>11, <2>18 DEF vars
  <2>19. Machines # {}
    OBVIOUS
  <2> HIDE DEF ReadInv, TypeOK
  <2> QED
    BY <2>1, <2>2, <2>4, <2>5, <2>6, <2>8, <2>9, <2>10, <2>12, <2>13, <2>14, <2>15, <2>16,
       <2>17, <2>18, <2>19 DEF Next
<1> QED
  BY <1>1, <1>2, <1>3, <1>4, PTL DEF Spec

-----------------------------------------------------------------------------
(* Arguments *)

\* The class and the list of a machine are those it was made with: only its __init__()
\* assigns them (machine.py:93-114, qtest.py:79-94).
LEMMA MadeOnce ==
  ASSUME TypeOK, [Next]_vars
  PROVE  \/ \E m \in Machines, c \in {"plain", "qtest"}, a \in BOOLEAN : New(m, c, a)
         \/ \A m \in Machines : vm'[m].class = vm[m].class /\ vm'[m].args = vm[m].args
<1> DEFINE Kept == \A m \in Machines : vm'[m].class = vm[m].class /\ vm'[m].args = vm[m].args
<1>a. vm \in [Machines -> VMs] /\ cur \in Machines
  BY DEF TypeOK
<1>1. ASSUME NEW m \in Machines, TearsDown(m) PROVE Kept
  BY <1>1, <1>a DEF TearsDown, CleanedUp, VMs
<1>2. ASSUME NEW m \in Machines, Launch(m) PROVE Kept
  BY <1>2, <1>a DEF Launch, VMs
<1>3. ASSUME NEW m \in Machines, Wait(m) PROVE Kept
  BY <1>3, <1>a DEF Wait, CleanedUp, VMs
<1>4. ASSUME NEW m \in Machines, ConsoleSocket(m) PROVE Kept
  BY <1>4, <1>a DEF ConsoleSocket, VMs
<1>5. ASSUME NEW m \in Machines, SetMachine(m) \/ \E d \in Devices : SetConsole(m, d) PROVE Kept
  BY <1>5, <1>a DEF SetMachine, SetConsole, Set, VMs
<1>6. CASE AcceptMonitor
  <2>1. vm' = vm \/ vm' = [vm EXCEPT ![cur].launched = TRUE]
    BY <1>6 DEF AcceptMonitor, Up
  <2> QED
    BY <2>1, <1>a DEF VMs
<1>7. CASE AcceptQtest
  BY <1>7, <1>a DEF AcceptQtest, VMs
<1>8. ASSUME NEW r \in Runs, NEW n \in Names, QtestConnects(r, n) PROVE Kept
  <2>1. vm' = vm \/ \E m \in Machines : vm' = [vm EXCEPT ![m].knock = r]
    BY <1>8 DEF QtestConnects
  <2> QED
    BY <2>1, <1>a DEF VMs
<1>9. CASE vm' = vm
  BY <1>9
<1> QED
  BY <1>1, <1>2, <1>3, <1>4, <1>5, <1>6, <1>7, <1>8, <1>9
     DEF Next, vars, LaunchRefused, Shutdown, LaunchFails, AddArgs, AddMonitorNull, AddFd,
         Extend, CallerAppends, Qtest, ReadLine, ReadRaises, QemuDies, MonitorConnects,
         QtestReplies, QtestIrq, TypeOK

\* The list of a machine is the one its __init__() made.
ListInv == \A m \in Machines : vm[m].class # "none" => vm[m].args = m /\ lists[m] = own[m]

\* Nothing that is done to the list of the program, or to another machine, is seen in
\* the arguments of a machine (machine.py:100).
THEOREM ArgumentsOwn == Spec => []ArgumentsAreOwn
<1>1. Init => ListInv
  BY DEF Init, ListInv, NoMachine
<1>2. TypeOK /\ ListInv /\ [Next]_vars => ListInv'
  <2> SUFFICES ASSUME TypeOK, ListInv, [Next]_vars PROVE ListInv'
    OBVIOUS
  <2>a. lists \in [Lists -> Seq(Arguments)] /\ own \in [Machines -> Seq(Arguments)]
          /\ vm \in [Machines -> VMs]
    BY DEF TypeOK
  <2>b. Machines \subseteq Lists /\ Caller \in Lists /\ Caller \notin Machines
    BY MachinesAssumption DEF Lists
  <2>1. ASSUME NEW m \in Machines, NEW c \in {"plain", "qtest"}, NEW a \in BOOLEAN, New(m, c, a)
        PROVE  ListInv'
    BY <2>1, <2>a, <2>b DEF New, Initial, ListInv, VMs
  <2>2. ASSUME \A m \in Machines : vm'[m].class = vm[m].class /\ vm'[m].args = vm[m].args
        PROVE  ListInv'
    <3>1. ASSUME NEW m \in Machines, NEW s, Extend(m, s) PROVE ListInv'
      BY <2>2, <2>a, <2>b, <3>1 DEF Extend, Idle, ListInv
    <3>2. ASSUME NEW x, CallerAppends(x) PROVE ListInv'
      BY <2>2, <2>a, <2>b, <3>2 DEF CallerAppends, ListInv
    <3>3. CASE UNCHANGED <<lists, own>>
      BY <2>2, <3>3 DEF ListInv
    <3>4. \/ \E m \in Machines, c \in {"plain", "qtest"}, a \in BOOLEAN : New(m, c, a)
          \/ \E m \in Machines : \E s : Extend(m, s)
          \/ \E x : CallerAppends(x)
          \/ UNCHANGED <<lists, own>>
      BY DEF Next, vars, LaunchRefused, Shutdown, LaunchFails, AddArgs, AddMonitorNull,
             AddFd, Qtest, ReadLine, ReadRaises, QemuDies, MonitorConnects, QtestReplies,
             QtestIrq, QtestConnects, Launch, Wait, ConsoleSocket, SetMachine, SetConsole,
             Set, AcceptMonitor, AcceptQtest
    <3> QED
      BY <2>1, <3>1, <3>2, <3>3, <3>4
  <2> QED
    BY <2>1, <2>2, MadeOnce
<1>3. ListInv => ArgumentsAreOwn
  BY DEF ListInv, ArgumentsAreOwn
<1> QED
  BY <1>1, <1>2, <1>3, TypeCorrect, PTL DEF Spec

-----------------------------------------------------------------------------
(* The life of a machine, its temporary directory and the socket file *)

\* A machine that is being launched, or is up, was made and has its own QEMU; the one
\* being launched is not yet up.
LifeInv ==
  /\ \A m \in Machines :
       /\ vm[m].class = "none" => vm[m].popen = 0 /\ vm[m].qtest = 0
       /\ vm[m].launched \/ Launching(m) => vm[m].popen # 0
       /\ Launching(m) => ~vm[m].launched
       /\ vm[m].qtest = IF IsQtest(m) THEN vm[m].popen ELSE 0
       /\ vm[m].popen <= nruns
  /\ pc = "qtest" => IsQtest(cur)

\* No two machines have the QEMU of one launch.
OwnerInv ==
  \A m, o \in Machines : vm[m].popen # 0 /\ vm[m].popen = vm[o].popen => m = o

\* A machine has a temporary directory only while it is up or being launched, that of
\* its last launch, and a connected console only in it.
DirInv ==
  \A m \in Machines :
    /\ vm[m].dir # 0 => vm[m].dir = vm[m].popen /\ (vm[m].launched \/ Launching(m))
    /\ vm[m].socket \in Runs => vm[m].socket = vm[m].dir

\* The file of a qtest socket belongs to a machine that is up or being launched.
FileInv ==
  \A n \in Names : qfile[n] # 0 =>
    \E m \in Machines :
      /\ Name[m] = n /\ IsQtest(m) /\ vm[m].popen = qfile[n]
      /\ vm[m].launched \/ Launching(m)

\* What an action does to the attributes that tell one launch from another: KeepsLife if
\* nothing.
KeepsLife ==
  \A m \in Machines :
    /\ vm'[m].class = vm[m].class /\ vm'[m].popen = vm[m].popen /\ vm'[m].qtest = vm[m].qtest
    /\ vm'[m].launched = vm[m].launched /\ vm'[m].dir = vm[m].dir

\* Every step is one of these: what the actions that leave the life of a machine alone
\* have in common is that they do not end or begin a launch.
LEMMA LifeSteps ==
  ASSUME TypeOK, [Next]_vars
  PROVE  \/ \E m \in Machines, c \in {"plain", "qtest"}, a \in BOOLEAN : New(m, c, a)
         \/ \E m \in Machines : Launch(m) \/ Wait(m) \/ ConsoleSocket(m)
         \/ \E m \in Machines :
              TearsDown(m) /\ pc' = "idle" /\ cur' = m /\ nruns' = nruns
                /\ (Idle(m) \/ Launching(m))
         \/ AcceptMonitor \/ AcceptQtest
         \/ /\ KeepsLife /\ UNCHANGED <<qfile, nruns>>
            /\ \A m \in Machines : vm'[m].socket = vm[m].socket
            /\ UNCHANGED <<pc, cur>> \/ (pc \in {"idle", "read"} /\ pc' \in {"idle", "read"})
<1> DEFINE Kept == /\ KeepsLife /\ UNCHANGED <<qfile, nruns>>
                   /\ \A m \in Machines : vm'[m].socket = vm[m].socket
                   /\ \/ UNCHANGED <<pc, cur>>
                      \/ pc \in {"idle", "read"} /\ pc' \in {"idle", "read"}
<1>a. vm \in [Machines -> VMs] /\ cur \in Machines
  BY DEF TypeOK
<1>1. ASSUME NEW m \in Machines, LaunchRefused(m) \/ Shutdown(m)
      PROVE  TearsDown(m) /\ pc' = "idle" /\ cur' = m /\ nruns' = nruns /\ Idle(m)
  BY <1>1 DEF LaunchRefused, Shutdown, Idle, counts
<1>2. CASE LaunchFails
  BY <1>2 DEF LaunchFails, Launching, counts, TypeOK
<1>3. ASSUME NEW m \in Machines, SetMachine(m) \/ \E d \in Devices : SetConsole(m, d) PROVE Kept
  BY <1>3, <1>a DEF SetMachine, SetConsole, Set, Changes, KeepsLife, VMs
<1>4. ASSUME NEW r \in Runs, NEW n \in Names, QtestConnects(r, n) PROVE Kept
  <2>1. vm' = vm \/ \E m \in Machines : vm' = [vm EXCEPT ![m].knock = r]
    BY <1>4 DEF QtestConnects
  <2>2. UNCHANGED <<qfile, nruns, pc, cur>>
    BY <1>4 DEF QtestConnects, counts
  <2> QED
    BY <2>1, <2>2, <1>a DEF KeepsLife, VMs
<1>5. ASSUME NEW m \in Machines, Qtest(m) PROVE Kept
  BY <1>5 DEF Qtest, Idle, KeepsLife
<1>6. CASE ReadLine \/ ReadRaises
  BY <1>6 DEF ReadLine, ReadRaises, KeepsLife, counts
<1>7. CASE UNCHANGED <<vm, qfile, pc, cur, nruns>>
  BY <1>7 DEF KeepsLife
<1>8. \/ \E m \in Machines, c \in {"plain", "qtest"}, a \in BOOLEAN : New(m, c, a)
      \/ \E m \in Machines :
           \/ Launch(m) \/ Wait(m) \/ ConsoleSocket(m) \/ LaunchRefused(m) \/ Shutdown(m)
           \/ SetMachine(m) \/ (\E d \in Devices : SetConsole(m, d)) \/ Qtest(m)
      \/ AcceptMonitor \/ AcceptQtest \/ LaunchFails \/ ReadLine \/ ReadRaises
      \/ \E r \in Runs, n \in Names : QtestConnects(r, n)
      \/ UNCHANGED <<vm, qfile, pc, cur, nruns>>
  BY DEF Next, vars, counts, AddArgs, AddMonitorNull, AddFd, Extend, CallerAppends, Changes,
         QemuDies, MonitorConnects, QtestReplies, QtestIrq
<1> QED
  BY <1>1, <1>2, <1>3, <1>4, <1>5, <1>6, <1>7, <1>8

Life == LifeInv /\ OwnerInv /\ DirInv /\ FileInv

\* Making a machine leaves the others alone, and it has no QEMU yet.
LEMMA LifeNew ==
  ASSUME TypeOK, Life, NEW m \in Machines, NEW c \in {"plain", "qtest"}, NEW a \in BOOLEAN,
         New(m, c, a)
  PROVE  Life'
<1>a. vm \in [Machines -> VMs]
  BY DEF TypeOK
<1>1. /\ vm[m].class = "none" /\ pc = "idle"
      /\ UNCHANGED <<qemu, qfile, pc, cur, nruns>>
      /\ vm' = [vm EXCEPT ![m].class = c, ![m].args = m]
  BY DEF New, Initial, counts
<1>2. vm[m].popen = 0 /\ vm[m].qtest = 0 /\ ~vm[m].launched
  BY <1>1 DEF Life, LifeInv
<1>3. \A o \in Machines :
        /\ vm'[o].popen = vm[o].popen /\ vm'[o].qtest = vm[o].qtest
        /\ vm'[o].launched = vm[o].launched /\ vm'[o].dir = vm[o].dir
        /\ vm'[o].socket = vm[o].socket
        /\ o # m => vm'[o].class = vm[o].class
  BY <1>1, <1>a DEF VMs
<1>4. \A o \in Machines : (Launching(o)' <=> Launching(o)) /\ ~Launching(o)
  BY <1>1 DEF Launching
<1>5. LifeInv'
  <2>1. ASSUME NEW o \in Machines
        PROVE  /\ vm'[o].class = "none" => vm'[o].popen = 0 /\ vm'[o].qtest = 0
               /\ vm'[o].launched => vm'[o].popen # 0
               /\ vm'[o].qtest = IF vm'[o].class = "qtest" THEN vm'[o].popen ELSE 0
               /\ vm'[o].popen <= nruns'
    <3>1. CASE o = m
      BY <1>1, <1>2, <1>3, <3>1 DEF Life, LifeInv
    <3>2. CASE o # m
      <4>1. /\ vm[o].class = "none" => vm[o].popen = 0 /\ vm[o].qtest = 0
            /\ vm[o].launched => vm[o].popen # 0
            /\ vm[o].qtest = IF vm[o].class = "qtest" THEN vm[o].popen ELSE 0
            /\ vm[o].popen <= nruns
        BY DEF Life, LifeInv, IsQtest
      <4>2. vm'[o].class = vm[o].class /\ vm'[o].popen = vm[o].popen
              /\ vm'[o].qtest = vm[o].qtest /\ vm'[o].launched = vm[o].launched
        BY <1>3, <3>2
      <4> QED
        BY <1>1, <4>1, <4>2
    <3> QED
      BY <3>1, <3>2
  <2>2. pc' # "qtest"
    BY <1>1
  <2> QED
    BY <1>4, <2>1, <2>2 DEF LifeInv, IsQtest
<1>6. OwnerInv'
  BY <1>3 DEF Life, OwnerInv
<1>7. DirInv'
  BY <1>3, <1>4 DEF Life, DirInv
<1>8. FileInv'
  <2> SUFFICES ASSUME NEW n \in Names, qfile[n] # 0
               PROVE  \E o \in Machines :
                        /\ Name[o] = n /\ IsQtest(o)' /\ vm'[o].popen = qfile[n]
                        /\ vm'[o].launched \/ Launching(o)'
    BY <1>1 DEF FileInv
  <2>1. PICK o \in Machines : Name[o] = n /\ IsQtest(o) /\ vm[o].popen = qfile[n]
                                /\ (vm[o].launched \/ Launching(o))
    BY DEF Life, FileInv
  <2>2. o # m
    BY <1>1, <2>1 DEF IsQtest
  <2> QED
    BY <1>3, <1>4, <2>1, <2>2 DEF IsQtest
<1> QED
  BY <1>5, <1>6, <1>7, <1>8 DEF Life

\* A launch is of a machine that is down and has no directory, so no console; its QEMU is
\* a new one, and the name of its socket file was free.
LEMMA LifeLaunch ==
  ASSUME TypeOK, Life, NEW m \in Machines, Launch(m)
  PROVE  Life'
<1>a. vm \in [Machines -> VMs] /\ nruns \in Nat /\ \A o \in Machines : vm[o].popen \in Nat
  BY MachinesAssumption DEF TypeOK, VMs, Runs
<1> DEFINE r == nruns + 1
<1>1. /\ pc = "idle" /\ vm[m].class # "none" /\ ~vm[m].launched
      /\ pc' = "monitor" /\ cur' = m /\ nruns' = r
      /\ qfile' = IF IsQtest(m) THEN [qfile EXCEPT ![Name[m]] = r] ELSE qfile
  BY DEF Launch, Idle
<1>2. /\ vm'[m].dir = r /\ vm'[m].popen = r /\ vm'[m].launched = vm[m].launched
      /\ vm'[m].class = vm[m].class /\ vm'[m].socket = vm[m].socket
      /\ vm'[m].qtest = IF IsQtest(m) THEN r ELSE 0
      /\ \A o \in Machines : o # m => vm'[o] = vm[o]
  BY <1>a DEF Launch, VMs
<1>3. r # 0 /\ \A o \in Machines : vm[o].popen <= nruns /\ vm[o].popen # r
  BY <1>a DEF Life, LifeInv
<1> HIDE DEF r
<1>4. nruns < r /\ r \in Nat
  BY <1>a DEF r
<1>5. LifeInv'
  BY <1>a, <1>1, <1>2, <1>3, <1>4 DEF Life, LifeInv, Launching, IsQtest
<1>6. OwnerInv'
  BY <1>2, <1>3 DEF Life, OwnerInv
<1>7. DirInv'
  <2>1. vm[m].dir = 0 /\ vm[m].socket \notin Runs
    BY <1>1 DEF Life, DirInv, Launching, Runs
  <2> QED
    BY <1>1, <1>2, <2>1 DEF Life, DirInv, Launching
<1>8. FileInv'
  <2> SUFFICES ASSUME NEW n \in Names, qfile'[n] # 0
               PROVE  \E o \in Machines :
                        /\ Name[o] = n /\ IsQtest(o)' /\ vm'[o].popen = qfile'[n]
                        /\ vm'[o].launched \/ Launching(o)'
    BY DEF FileInv
  <2>1. CASE IsQtest(m) /\ n = Name[m]
    BY <1>1, <1>2, <2>1 DEF IsQtest, Launching, TypeOK
  <2>2. CASE ~(IsQtest(m) /\ n = Name[m])
    <3>1. qfile'[n] = qfile[n]
      BY <1>1, <2>2 DEF TypeOK
    <3>2. PICK o \in Machines : Name[o] = n /\ IsQtest(o) /\ vm[o].popen = qfile[n]
                                  /\ (vm[o].launched \/ Launching(o))
      BY <3>1 DEF Life, FileInv
    <3>3. o # m /\ vm[o].launched
      BY <1>1, <2>2, <3>2 DEF Launching
    <3> QED
      BY <1>2, <3>1, <3>2, <3>3 DEF IsQtest
  <2> QED
    BY <2>1, <2>2
<1> QED
  BY <1>5, <1>6, <1>7, <1>8 DEF Life

\* The cleanup of a machine, after a shutdown, a failed launch or wait(), takes its own
\* directory, console and socket file with it and those of no other machine.
LEMMA LifeCleanup ==
  ASSUME TypeOK, Life, NEW m \in Machines, RemovesSocket(m),
         pc' = "idle", nruns' = nruns, Idle(m) \/ Launching(m),
         vm'[m].dir = 0, vm'[m].socket = 0, vm'[m].popen = vm[m].popen,
         vm'[m].class = vm[m].class, vm'[m].qtest = vm[m].qtest,
         vm'[m].launched \in {FALSE, vm[m].launched},
         \A o \in Machines : o # m => vm'[o] = vm[o]
  PROVE  Life'
<1>1. \A o \in Machines : o # m => ~Launching(o)
  BY DEF Idle, Launching
<1>2. vm'[m].launched => vm[m].popen # 0
  BY DEF Life, LifeInv
<1>3. LifeInv'
  BY <1>2 DEF Life, LifeInv, Launching, IsQtest
<1>4. OwnerInv'
  BY DEF Life, OwnerInv
<1>5. DirInv'
  BY <1>1 DEF Life, DirInv, Launching, Runs
<1>6. FileInv'
  <2> SUFFICES ASSUME NEW n \in Names, qfile'[n] # 0
               PROVE  \E o \in Machines :
                        /\ Name[o] = n /\ IsQtest(o)' /\ vm'[o].popen = qfile'[n]
                        /\ vm'[o].launched \/ Launching(o)'
    BY DEF FileInv
  <2>1. ~(IsQtest(m) /\ n = Name[m]) /\ qfile'[n] = qfile[n]
    BY DEF RemovesSocket, TypeOK
  <2>2. PICK o \in Machines : Name[o] = n /\ IsQtest(o) /\ vm[o].popen = qfile[n]
                                /\ (vm[o].launched \/ Launching(o))
    BY <2>1 DEF Life, FileInv
  <2>3. o # m
    BY <2>1, <2>2
  <2> QED
    BY <1>1, <2>1, <2>2, <2>3 DEF IsQtest
<1> QED
  BY <1>3, <1>4, <1>5, <1>6 DEF Life

\* The two accept()s of a launch go on with it or bring the machine up.
LEMMA LifeAccept ==
  ASSUME TypeOK, Life, AcceptMonitor \/ AcceptQtest
  PROVE  Life'
<1>a. vm \in [Machines -> VMs] /\ cur \in Machines
  BY DEF TypeOK
<1>1. pc \in {"monitor", "qtest"} /\ UNCHANGED <<qfile, cur, nruns>> /\ Launching(cur)
  BY DEF AcceptMonitor, AcceptQtest, Launching, counts
<1>2. \A m \in Machines :
        /\ vm'[m].class = vm[m].class /\ vm'[m].popen = vm[m].popen
        /\ vm'[m].qtest = vm[m].qtest /\ vm'[m].dir = vm[m].dir
        /\ vm'[m].socket = vm[m].socket
        /\ m # cur => vm'[m].launched = vm[m].launched
  <2>1. CASE AcceptQtest
    <3>1. vm' = [vm EXCEPT ![cur] = [vm[cur] EXCEPT !.peer = vm[cur].knock,
                                       !.reader = vm[cur].knock, !.launched = TRUE]]
      BY <2>1 DEF AcceptQtest
    <3>2. vm'[cur] = [vm[cur] EXCEPT !.peer = vm[cur].knock, !.reader = vm[cur].knock,
                                     !.launched = TRUE]
      BY <1>a, <3>1
    <3>3. \A m \in Machines : m # cur => vm'[m] = vm[m]
      BY <1>a, <3>1
    <3>4. vm[cur] \in VMs
      BY <1>a
    <3>5. /\ vm'[cur].class = vm[cur].class /\ vm'[cur].popen = vm[cur].popen
          /\ vm'[cur].qtest = vm[cur].qtest /\ vm'[cur].dir = vm[cur].dir
          /\ vm'[cur].socket = vm[cur].socket
      BY <3>2, <3>4 DEF VMs
    <3> QED
      BY <3>3, <3>5
  <2>2. CASE vm' = vm
    BY <2>2
  <2>3. CASE vm' = [vm EXCEPT ![cur].launched = TRUE]
    BY <1>a, <2>3 DEF VMs
  <2> QED
    BY <2>1, <2>2, <2>3 DEF AcceptMonitor, Up
<1>3. \/ pc' = "qtest" /\ vm'[cur].launched = vm[cur].launched /\ IsQtest(cur)
      \/ pc' = "idle" /\ vm'[cur].launched
  BY <1>a DEF AcceptMonitor, AcceptQtest, Up, VMs
<1>4. LifeInv'
  BY <1>a, <1>1, <1>2, <1>3 DEF Life, LifeInv, Launching, IsQtest
<1>5. OwnerInv'
  BY <1>2 DEF Life, OwnerInv
<1>6. DirInv'
  BY <1>a, <1>1, <1>2, <1>3 DEF Life, DirInv, Launching
<1>7. FileInv'
  BY <1>a, <1>1, <1>2, <1>3 DEF Life, FileInv, Launching, IsQtest
<1> QED
  BY <1>4, <1>5, <1>6, <1>7 DEF Life

\* Every other action keeps it, too.
LEMMA LifeInductive ==
  ASSUME TypeOK, Life, [Next]_vars
  PROVE  Life'
<1>a. vm \in [Machines -> VMs] /\ cur \in Machines
  BY DEF TypeOK
<1>1. ASSUME NEW m \in Machines, Wait(m) PROVE Life'
  <2>1. /\ RemovesSocket(m) /\ Idle(m) /\ pc' = "idle" /\ nruns' = nruns
        /\ vm' = [vm EXCEPT ![m] = CleanedUp(vm[m])]
    BY <1>1 DEF Wait, Idle, counts
  <2>2. /\ vm'[m].dir = 0 /\ vm'[m].socket = 0 /\ vm'[m].popen = vm[m].popen
        /\ vm'[m].class = vm[m].class /\ vm'[m].qtest = vm[m].qtest
        /\ vm'[m].launched = vm[m].launched
        /\ \A o \in Machines : o # m => vm'[o] = vm[o]
    BY <1>a, <2>1 DEF CleanedUp, VMs
  <2> QED
    BY <2>1, <2>2, LifeCleanup
<1>2. ASSUME NEW m \in Machines, TearsDown(m), pc' = "idle", cur' = m, nruns' = nruns,
             Idle(m) \/ Launching(m)
      PROVE  Life'
  <2>1. /\ RemovesSocket(m)
        /\ vm' = [vm EXCEPT ![m] = [CleanedUp(vm[m]) EXCEPT !.launched = FALSE]]
    BY <1>2 DEF TearsDown
  <2>2. /\ vm'[m].dir = 0 /\ vm'[m].socket = 0 /\ vm'[m].popen = vm[m].popen
        /\ vm'[m].class = vm[m].class /\ vm'[m].qtest = vm[m].qtest
        /\ vm'[m].launched = FALSE
        /\ \A o \in Machines : o # m => vm'[o] = vm[o]
    BY <1>a, <2>1 DEF CleanedUp, VMs
  <2> QED
    BY <1>2, <2>1, <2>2, LifeCleanup
<1>3. ASSUME NEW m \in Machines, ConsoleSocket(m) PROVE Life'
  <2>1. /\ UNCHANGED <<qfile, pc, cur, nruns>>
        /\ vm' = [vm EXCEPT ![m].socket = IF Listens(m) THEN vm[m].address ELSE -1]
    BY <1>3 DEF ConsoleSocket, counts
  <2>2. \A o \in Machines :
          /\ vm'[o].class = vm[o].class /\ vm'[o].popen = vm[o].popen
          /\ vm'[o].qtest = vm[o].qtest /\ vm'[o].dir = vm[o].dir
          /\ vm'[o].launched = vm[o].launched
          /\ o # m => vm'[o].socket = vm[o].socket
    BY <1>a, <2>1 DEF VMs
  <2>3. vm'[m].socket \in Runs => vm'[m].socket = vm[m].dir
    <3>1. vm'[m].socket = IF Listens(m) THEN vm[m].address ELSE -1
      BY <1>a, <2>1 DEF VMs
    <3> QED
      BY <3>1 DEF Listens, Runs
  <2>4. LifeInv' /\ OwnerInv' /\ FileInv'
    BY <2>1, <2>2 DEF Life, LifeInv, OwnerInv, FileInv, Launching, IsQtest
  <2>5. DirInv'
    BY <2>1, <2>2, <2>3 DEF Life, DirInv, Launching
  <2> QED
    BY <2>4, <2>5 DEF Life
<1>4. ASSUME KeepsLife, UNCHANGED <<qfile, nruns>>,
             \A m \in Machines : vm'[m].socket = vm[m].socket,
             UNCHANGED <<pc, cur>> \/ (pc \in {"idle", "read"} /\ pc' \in {"idle", "read"})
      PROVE  Life'
  <2>1. \A m \in Machines : Launching(m)' <=> Launching(m)
    BY <1>4 DEF Launching
  <2>2. pc' = "qtest" => pc = "qtest" /\ cur' = cur
    BY <1>4
  <2>3. LifeInv' /\ OwnerInv'
    BY <1>a, <1>4, <2>1, <2>2 DEF Life, LifeInv, OwnerInv, KeepsLife, IsQtest
  <2>4. DirInv' /\ FileInv'
    BY <1>4, <2>1 DEF Life, DirInv, FileInv, KeepsLife, IsQtest
  <2> QED
    BY <2>3, <2>4 DEF Life
<1> QED
  BY <1>1, <1>2, <1>3, <1>4, LifeSteps, LifeNew, LifeLaunch, LifeAccept

\* It holds in every state.
LEMMA LifeHolds == Spec => []Life
<1>1. Init => Life
  BY DEF Init, NoMachine, Life, LifeInv, OwnerInv, DirInv, FileInv, Launching, IsQtest, Runs
<1>2. TypeOK /\ Life /\ [Next]_vars => Life'
  BY LifeInductive
<1> QED
  BY <1>1, <1>2, TypeCorrect, PTL DEF Spec

\* A connected console is that of the running QEMU: the socket goes with the directory
\* (machine.py:269-271), and a launch starts without one.
THEOREM ConsoleRun == Spec => []ConsoleOfThisRun
<1>1. TypeOK /\ Life => ConsoleOfThisRun
  BY DEF Life, DirInv, ConsoleOfThisRun, Runs
<1> QED
  BY <1>1, TypeCorrect, LifeHolds, PTL

\* A file that stands in the way of a launch belongs to another machine that is up
\* (qtest.py:112-114 removes that of the machine itself).
THEOREM Refused == Spec => []RefusedByAnother
<1>1. TypeOK /\ Life => RefusedByAnother
  <2> SUFFICES ASSUME Life, NEW m \in Machines,
                      Idle(m), ~vm[m].launched, qfile[Name[m]] # 0
               PROVE  \E o \in Machines \ {m} :
                        Name[o] = Name[m] /\ vm[o].launched /\ vm[o].popen = qfile[Name[m]]
    BY DEF RefusedByAnother
  <2>1. Name[m] \in Names
    BY DEF Names
  <2>2. PICK o \in Machines : Name[o] = Name[m] /\ vm[o].popen = qfile[Name[m]]
                                /\ (vm[o].launched \/ Launching(o))
    BY <2>1 DEF Life, FileInv
  <2>3. vm[o].launched
    BY <2>2 DEF Idle, Launching
  <2> QED
    BY <2>2, <2>3
<1> QED
  BY <1>1, TypeCorrect, LifeHolds, PTL

-----------------------------------------------------------------------------
(* The qtest connection *)

HasQtest(r, n) == Opt("qtest", n, 0) \in Options(r)

\* A QEMU that may still connect to a qtest socket is the one being launched, and the
\* socket file is its machine's.
LineInv ==
  \A r \in Runs, n \in Names :
    HasQtest(r, n) /\ qemu[r].state \in {"started", "up"} =>
      /\ pc \in {"monitor", "qtest"} /\ IsQtest(cur)
      /\ vm[cur].popen = r /\ qfile[n] = r

\* Whoever waits to be accepted, or was, is the QEMU of the last launch.
KnockInv ==
  \A m \in Machines :
    /\ vm[m].knock # 0 =>
         vm[m].knock = vm[m].popen /\ qemu[vm[m].popen].state \in {"joined", "dead"}
    /\ vm[m].peer # 0 => vm[m].peer = vm[m].popen
    /\ vm[m].launched /\ IsQtest(m) => vm[m].peer = vm[m].popen

Connection == LineInv /\ KnockInv

\* QEMUs keep their command line; but for launch(), shutdown() and the connection to the
\* qtest socket they only come up or die.
CalmQEMUs ==
  \A r \in Runs :
    /\ qemu'[r].line = qemu[r].line
    /\ \/ qemu'[r].state = qemu[r].state \/ qemu'[r].state = "dead"
       \/ qemu[r].state = "started" /\ qemu'[r].state = "up"

CalmMachines ==
  \A m \in Machines :
    /\ vm'[m].popen = vm[m].popen /\ vm'[m].knock = vm[m].knock /\ vm'[m].peer = vm[m].peer
    /\ vm'[m].launched = vm[m].launched /\ vm'[m].class = vm[m].class

\* What other steps do to the connections of a machine: nothing.
LEMMA ConnectionSteps ==
  ASSUME TypeOK, [Next]_vars
  PROVE  \/ \E m \in Machines, c \in {"plain", "qtest"}, a \in BOOLEAN : New(m, c, a)
         \/ \E m \in Machines : Launch(m)
         \/ \E m \in Machines :
              TearsDown(m) /\ pc' = "idle" /\ (Idle(m) \/ Launching(m))
         \/ AcceptMonitor \/ AcceptQtest
         \/ \E r \in Runs, n \in Names : QtestConnects(r, n)
         \/ /\ CalmMachines /\ CalmQEMUs
            /\ \/ UNCHANGED <<pc, cur, qfile>>
               \/ pc \in {"idle", "read"} /\ pc' \in {"idle", "read"}
<1> DEFINE Calm == /\ CalmMachines /\ CalmQEMUs
                   /\ \/ UNCHANGED <<pc, cur, qfile>>
                      \/ pc \in {"idle", "read"} /\ pc' \in {"idle", "read"}
<1>a. vm \in [Machines -> VMs] /\ cur \in Machines /\ qemu \in [Runs -> QEMUs]
  BY DEF TypeOK
<1>b. vm' = vm => CalmMachines
  BY DEF CalmMachines
<1>c. qemu' = qemu => CalmQEMUs
  BY DEF CalmQEMUs
<1>1. ASSUME NEW m \in Machines, LaunchRefused(m) \/ Shutdown(m)
      PROVE  TearsDown(m) /\ pc' = "idle" /\ Idle(m)
  BY <1>1 DEF LaunchRefused, Shutdown, Idle
<1>2. CASE LaunchFails
  BY <1>2 DEF LaunchFails, Launching, TypeOK
<1>3. ASSUME NEW m \in Machines, SetMachine(m) \/ \E d \in Devices : SetConsole(m, d) PROVE Calm
  <2>1. CalmMachines
    BY <1>3, <1>a DEF SetMachine, SetConsole, Set, CalmMachines, VMs
  <2> QED
    BY <1>3, <1>c, <2>1 DEF SetMachine, SetConsole, Set
<1>4. ASSUME NEW m \in Machines, Wait(m) PROVE Calm
  <2>1. CalmMachines
    BY <1>4, <1>a DEF Wait, CleanedUp, CalmMachines, VMs
  <2> QED
    BY <1>4, <1>c, <2>1 DEF Wait, Idle
<1>5. ASSUME NEW m \in Machines, ConsoleSocket(m) PROVE Calm
  <2>1. CalmMachines
    BY <1>5, <1>a DEF ConsoleSocket, CalmMachines, VMs
  <2> QED
    BY <1>5, <1>c, <2>1 DEF ConsoleSocket
<1>6. ASSUME NEW m \in Machines, Qtest(m) PROVE Calm
  <2>1. CalmQEMUs
    BY <1>6, <1>a DEF Qtest, CalmQEMUs, QEMUs
  <2> QED
    BY <1>6, <1>b, <2>1 DEF Qtest, Idle
<1>7. CASE ReadLine
  <2> DEFINE r == vm[cur].reader
             k == IF Head(qemu[r].lines) = 0 THEN qemu[r].late + 1 ELSE qemu[r].late
  <2>1. \/ qemu' = qemu
        \/ qemu' = [qemu EXCEPT ![r] = [qemu[r] EXCEPT !.lines = Tail(qemu[r].lines),
                                                       !.late = k]]
    BY <1>7 DEF ReadLine
  <2>2. vm' = vm /\ pc = "read" /\ pc' = "idle"
    BY <1>7 DEF ReadLine
  <2> HIDE DEF r, k
  <2>3. CASE qemu' = qemu
    BY <1>b, <1>c, <2>2, <2>3
  <2>4. CASE qemu' = [qemu EXCEPT ![r] = [qemu[r] EXCEPT !.lines = Tail(qemu[r].lines),
                                                         !.late = k]]
    <3>1. CalmQEMUs
      BY <1>a, <2>4 DEF CalmQEMUs, QEMUs
    <3> QED
      BY <1>b, <2>2, <3>1
  <2> QED
    BY <2>1, <2>3, <2>4
<1>8. CASE ReadRaises
  <2>1. CalmQEMUs
    BY <1>8, <1>a DEF ReadRaises, CalmQEMUs, QEMUs
  <2> QED
    BY <1>8, <1>b, <2>1 DEF ReadRaises
<1>9. ASSUME NEW r \in Runs,
             QemuDies(r) \/ MonitorConnects(r) \/ QtestReplies(r) \/ QtestIrq(r)
      PROVE  Calm
  <2>1. CASE QemuDies(r)
    BY <2>1, <1>a, <1>b DEF QemuDies, CalmQEMUs, QEMUs
  <2>2. CASE MonitorConnects(r)
    BY <2>2, <1>a, <1>b DEF MonitorConnects, CalmQEMUs, QEMUs
  <2>3. CASE QtestReplies(r)
    BY <2>3, <1>a, <1>b DEF QtestReplies, CalmQEMUs, QEMUs
  <2>4. CASE QtestIrq(r)
    BY <2>4, <1>a, <1>b DEF QtestIrq, CalmQEMUs, QEMUs
  <2> QED
    BY <1>9, <2>1, <2>2, <2>3, <2>4
<1>10. CASE UNCHANGED <<vm, qemu, qfile, pc, cur>>
  BY <1>10, <1>b, <1>c
<1>11. \/ \E m \in Machines, c \in {"plain", "qtest"}, a \in BOOLEAN : New(m, c, a)
       \/ \E m \in Machines :
            \/ Launch(m) \/ Wait(m) \/ ConsoleSocket(m) \/ LaunchRefused(m) \/ Shutdown(m)
            \/ SetMachine(m) \/ (\E d \in Devices : SetConsole(m, d)) \/ Qtest(m)
       \/ AcceptMonitor \/ AcceptQtest \/ LaunchFails \/ ReadLine \/ ReadRaises
       \/ \E r \in Runs :
            \/ QemuDies(r) \/ MonitorConnects(r) \/ QtestReplies(r) \/ QtestIrq(r)
            \/ \E n \in Names : QtestConnects(r, n)
       \/ UNCHANGED <<vm, qemu, qfile, pc, cur>>
  BY DEF Next, vars, AddArgs, AddMonitorNull, AddFd, Extend, CallerAppends
<1> QED
  BY <1>1, <1>2, <1>3, <1>4, <1>5, <1>6, <1>7, <1>8, <1>9, <1>10, <1>11

\* A launch of a machine: only its QEMU may connect to its socket, and only if it is a
\* qtest machine (qtest.py:96-104).
LEMMA ConnectionLaunch ==
  ASSUME TypeOK, Life, Connection, NEW m \in Machines, Launch(m)
  PROVE  Connection'
<1>a. vm \in [Machines -> VMs] /\ nruns \in Nat /\ qemu \in [Runs -> QEMUs]
  BY MachinesAssumption DEF TypeOK
<1>b. \A o \in Machines : vm[o].popen <= nruns
  BY DEF Life, LifeInv
<1> DEFINE d == nruns + 1
<1>1. d \in Runs /\ d # 0 /\ \A o \in Machines : vm[o].popen # d
  <2>1. \A o \in Machines : vm[o].popen \in Nat
    BY <1>a DEF VMs, Runs
  <2> QED
    BY <1>a, <1>b, <2>1, MachinesAssumption DEF Launch, Runs
<1>2. /\ pc = "idle" /\ vm[m].class # "none" /\ ~vm[m].launched
      /\ pc' = "monitor" /\ cur' = m
      /\ qfile' = IF IsQtest(m) THEN [qfile EXCEPT ![Name[m]] = d] ELSE qfile
      /\ qemu' = [qemu EXCEPT ![d].state = "started", ![d].line = CommandLine(m, d)]
  BY DEF Launch, Idle
<1>3. /\ vm'[m].popen = d /\ vm'[m].launched = vm[m].launched
      /\ vm'[m].class = vm[m].class /\ vm'[m].knock = 0 /\ vm'[m].peer = 0
      /\ \A o \in Machines : o # m => vm'[o] = vm[o]
  BY <1>a DEF Launch, VMs
<1>4. /\ qemu'[d].line = CommandLine(m, d)
      /\ \A r \in Runs : r # d => qemu'[r] = qemu[r]
  BY <1>a, <1>1, <1>2 DEF QEMUs
<1> HIDE DEF d
<1>5. KnockInv'
  BY <1>1, <1>2, <1>3, <1>4, <1>a DEF Connection, KnockInv, IsQtest, VMs
<1>6. LineInv'
  <2> SUFFICES ASSUME NEW r \in Runs, NEW n \in Names,
                      HasQtest(r, n)', qemu'[r].state \in {"started", "up"}
               PROVE  /\ pc' \in {"monitor", "qtest"} /\ IsQtest(m)'
                      /\ vm'[m].popen = r /\ qfile'[n] = r
    BY <1>2 DEF LineInv
  <2>1. r = d
    <3>1. CASE r # d
      <4>1. HasQtest(r, n) /\ qemu[r].state \in {"started", "up"}
        BY <1>4, <3>1 DEF HasQtest, Options
      <4> QED
        BY <1>2, <4>1 DEF Connection, LineInv
    <3> QED
      BY <3>1
  <2>2. Has(CommandLine(m, d), Opt("qtest", n, 0))
    BY <1>4, <2>1 DEF HasQtest, Options, Has
  <2>3. IsQtest(m) /\ n = Name[m]
    BY <1>1, <2>2, QtestOption
  <2> QED
    BY <1>2, <1>3, <2>1, <2>3 DEF IsQtest, TypeOK
<1> QED
  BY <1>5, <1>6 DEF Connection

\* shutdown(), and a launch() that fails, leave no QEMU behind that may still connect.
LEMMA ConnectionTearsDown ==
  ASSUME TypeOK, Life, Connection, NEW m \in Machines, TearsDown(m), pc' = "idle",
         Idle(m) \/ Launching(m)
  PROVE  Connection'
<1>a. vm \in [Machines -> VMs] /\ qemu \in [Runs -> QEMUs] /\ vm[m].popen \in Runs \cup {0}
  BY DEF TypeOK, VMs
<1>1. /\ vm'[m].popen = vm[m].popen /\ vm'[m].class = vm[m].class
      /\ vm'[m].knock = vm[m].knock /\ vm'[m].peer = vm[m].peer
      /\ vm'[m].launched = FALSE
      /\ \A o \in Machines : o # m => vm'[o] = vm[o]
  BY <1>a DEF TearsDown, CleanedUp, VMs
<1>2. \A r \in Runs :
        /\ qemu'[r].line = qemu[r].line
        /\ r = vm[m].popen => qemu'[r].state = "dead"
        /\ qemu'[r].state = qemu[r].state \/ qemu'[r].state = "dead"
  BY <1>a DEF TearsDown, Gone, QEMUs, Runs
<1>3. KnockInv'
  <2>1. \A o \in Machines :
          vm[o].knock # 0 => vm[o].popen \in Runs
    BY <1>a DEF Connection, KnockInv, VMs
  <2> QED
    BY <1>1, <1>2, <2>1 DEF Connection, KnockInv, IsQtest
<1>4. LineInv'
  <2> SUFFICES ASSUME NEW r \in Runs, NEW n \in Names,
                      HasQtest(r, n)', qemu'[r].state \in {"started", "up"}
               PROVE  FALSE
    BY DEF LineInv
  <2>1. HasQtest(r, n) /\ qemu[r].state \in {"started", "up"} /\ r # vm[m].popen
    BY <1>2 DEF HasQtest, Options
  <2>2. pc \in {"monitor", "qtest"} /\ vm[cur].popen = r
    BY <2>1 DEF Connection, LineInv
  <2> QED
    BY <2>1, <2>2 DEF Idle, Launching
<1> QED
  BY <1>3, <1>4 DEF Connection

\* accept() of the qtest socket takes the machine's own QEMU; the monitor's, of a machine
\* that is not a qtest machine, ends the launch.
LEMMA ConnectionAccept ==
  ASSUME TypeOK, Life, Connection, AcceptMonitor \/ AcceptQtest
  PROVE  Connection'
<1>a. vm \in [Machines -> VMs] /\ cur \in Machines
  BY DEF TypeOK
<1>b. qemu' = qemu /\ qfile' = qfile /\ cur' = cur
  BY DEF AcceptMonitor, AcceptQtest
<1>1. CASE AcceptMonitor
  <2>1. \/ pc' = "qtest" /\ IsQtest(cur) /\ vm' = vm
        \/ pc' = "idle" /\ ~IsQtest(cur) /\ vm' = [vm EXCEPT ![cur].launched = TRUE]
    BY <1>1 DEF AcceptMonitor, Up
  <2>2. \A m \in Machines :
          /\ vm'[m].class = vm[m].class /\ vm'[m].popen = vm[m].popen
          /\ vm'[m].knock = vm[m].knock /\ vm'[m].peer = vm[m].peer
          /\ IsQtest(m) => vm'[m].launched = vm[m].launched
    BY <1>a, <2>1 DEF VMs
  <2>3. KnockInv'
    BY <1>b, <2>2 DEF Connection, KnockInv, IsQtest
  <2>4. LineInv'
    BY <1>a, <1>b, <2>1, <2>2 DEF Connection, LineInv, HasQtest, Options, IsQtest
  <2> QED
    BY <2>3, <2>4 DEF Connection
<1>2. CASE AcceptQtest
  <2>1. /\ pc = "qtest" /\ pc' = "idle" /\ vm[cur].knock # 0
        /\ vm' = [vm EXCEPT ![cur] = [vm[cur] EXCEPT !.peer = vm[cur].knock,
                                        !.reader = vm[cur].knock, !.launched = TRUE]]
    BY <1>2 DEF AcceptQtest
  <2>2. vm[cur] \in VMs /\ \A m \in Machines : m # cur => vm'[m] = vm[m]
    BY <1>a, <2>1
  <2>3. vm'[cur] = [vm[cur] EXCEPT !.peer = vm[cur].knock, !.reader = vm[cur].knock,
                                   !.launched = TRUE]
    BY <1>a, <2>1
  <2>4. /\ vm'[cur].class = vm[cur].class /\ vm'[cur].popen = vm[cur].popen
        /\ vm'[cur].knock = vm[cur].knock /\ vm'[cur].peer = vm[cur].knock
    BY <2>2, <2>3 DEF VMs
  <2>5. KnockInv'
    BY <1>b, <2>1, <2>2, <2>4 DEF Connection, KnockInv, IsQtest
  <2>6. LineInv'
    <3> SUFFICES ASSUME NEW r \in Runs, NEW n \in Names, HasQtest(r, n),
                        qemu[r].state \in {"started", "up"}
                 PROVE  FALSE
      BY <1>b DEF LineInv, HasQtest, Options
    <3>1. vm[cur].popen = r
      BY DEF Connection, LineInv
    <3>2. qemu[vm[cur].popen].state \in {"joined", "dead"}
      BY <1>a, <2>1 DEF Connection, KnockInv
    <3> QED
      BY <3>1, <3>2
  <2> QED
    BY <2>5, <2>6 DEF Connection
<1> QED
  BY <1>1, <1>2

\* A QEMU that connects to a qtest socket reaches the machine it was started for, although
\* the path is the same for all machines of a name.
LEMMA ConnectionQtest ==
  ASSUME TypeOK, Life, Connection, NEW r \in Runs, NEW n \in Names, QtestConnects(r, n)
  PROVE  Connection'
<1>a. vm \in [Machines -> VMs] /\ qemu \in [Runs -> QEMUs] /\ cur \in Machines
  BY DEF TypeOK
<1>b. UNCHANGED <<pc, cur, qfile>> /\ HasQtest(r, n) /\ qemu[r].state = "up"
  BY DEF QtestConnects, HasQtest
<1>c. \A m \in Machines : vm[m].qtest # 0 => vm[m].popen = vm[m].qtest
  BY DEF Life, LifeInv
<1>d. qfile[n] = r /\ r # 0
  BY <1>b DEF Connection, LineInv, Runs
<1>1. ASSUME NEW m \in Machines, vm[m].qtest = r,
             vm' = [vm EXCEPT ![m].knock = r], qemu' = [qemu EXCEPT ![r].state = "joined"]
      PROVE  Connection'
  <2>1. vm[m].popen = r
    BY <1>c, <1>d, <1>1
  <2>2. /\ vm'[m].class = vm[m].class /\ vm'[m].popen = vm[m].popen /\ vm'[m].knock = r
        /\ vm'[m].peer = vm[m].peer /\ vm'[m].launched = vm[m].launched
        /\ \A o \in Machines : o # m => vm'[o] = vm[o]
    BY <1>a, <1>1 DEF VMs
  <2>3. /\ qemu'[r].state = "joined" /\ qemu'[r].line = qemu[r].line
        /\ \A q \in Runs : q # r => qemu'[q] = qemu[q]
    BY <1>a, <1>1 DEF QEMUs
  <2>4. KnockInv'
    <3>1. \A o \in Machines : vm[o].knock # 0 => vm[o].popen \in Runs
      BY <1>a DEF Connection, KnockInv, VMs
    <3> QED
      BY <2>1, <2>2, <2>3, <3>1 DEF Connection, KnockInv, IsQtest
  <2>5. \A o \in Machines : vm'[o].class = vm[o].class /\ vm'[o].popen = vm[o].popen
    BY <2>2
  <2>6. \A q \in Runs : qemu'[q].line = qemu[q].line
                          /\ (qemu'[q].state \in {"started", "up"} => qemu'[q] = qemu[q])
    BY <2>3
  <2>7. LineInv'
    BY <1>a, <1>b, <2>5, <2>6 DEF Connection, LineInv, HasQtest, Options, IsQtest
  <2> QED
    BY <2>4, <2>7 DEF Connection
<1>2. ASSUME vm' = vm, qemu' = [qemu EXCEPT ![r].state = "dead"]
      PROVE  Connection'
  <2>1. /\ qemu'[r].state = "dead" /\ qemu'[r].line = qemu[r].line
        /\ \A q \in Runs : q # r => qemu'[q] = qemu[q]
    BY <1>a, <1>2 DEF QEMUs
  <2>2. KnockInv'
    <3>1. \A o \in Machines : vm[o].knock # 0 => vm[o].popen \in Runs
      BY <1>a DEF Connection, KnockInv, VMs
    <3> QED
      BY <1>2, <2>1, <3>1 DEF Connection, KnockInv, IsQtest
  <2>3. \A q \in Runs : qemu'[q].line = qemu[q].line
                          /\ (qemu'[q].state \in {"started", "up"} => qemu'[q] = qemu[q])
    BY <2>1
  <2>4. LineInv'
    BY <1>a, <1>b, <1>2, <2>3 DEF Connection, LineInv, HasQtest, Options, IsQtest
  <2> QED
    BY <2>2, <2>4 DEF Connection
<1> QED
  BY <1>1, <1>2, <1>d DEF QtestConnects

\* Every other action keeps it, too.
LEMMA ConnectionInductive ==
  ASSUME TypeOK, Life, Connection, [Next]_vars
  PROVE  Connection'
<1>a. vm \in [Machines -> VMs] /\ cur \in Machines
  BY DEF TypeOK
<1>1. ASSUME NEW m \in Machines, NEW c \in {"plain", "qtest"}, NEW a \in BOOLEAN, New(m, c, a)
      PROVE  Connection'
  <2>1. /\ vm[m].class = "none" /\ UNCHANGED <<qemu, qfile, pc, cur>> /\ pc = "idle"
        /\ vm' = [vm EXCEPT ![m].class = c, ![m].args = m]
    BY <1>1 DEF New, Initial
  <2>2. \A o \in Machines :
          /\ vm'[o].popen = vm[o].popen /\ vm'[o].knock = vm[o].knock
          /\ vm'[o].peer = vm[o].peer /\ vm'[o].launched = vm[o].launched
          /\ o # m => vm'[o].class = vm[o].class
    BY <1>a, <2>1 DEF VMs
  <2>3. ~vm[m].launched
    BY <2>1 DEF Life, LifeInv
  <2>4. KnockInv'
    <3>1. ASSUME NEW o \in Machines, o # m
          PROVE  vm'[o].launched /\ IsQtest(o)' => vm'[o].peer = vm'[o].popen
      <4>1. vm[o].launched /\ IsQtest(o) => vm[o].peer = vm[o].popen
        BY DEF Connection, KnockInv
      <4>2. vm'[o].launched = vm[o].launched /\ vm'[o].class = vm[o].class
              /\ vm'[o].peer = vm[o].peer /\ vm'[o].popen = vm[o].popen
        BY <2>2, <3>1
      <4> QED
        BY <4>1, <4>2 DEF IsQtest
    <3>2. ~vm'[m].launched
      BY <2>2, <2>3
    <3>3. \A o \in Machines :
            /\ vm'[o].knock # 0 =>
                 vm'[o].knock = vm'[o].popen /\ qemu'[vm'[o].popen].state \in {"joined", "dead"}
            /\ vm'[o].peer # 0 => vm'[o].peer = vm'[o].popen
      BY <2>1, <2>2 DEF Connection, KnockInv
    <3> QED
      BY <3>1, <3>2, <3>3 DEF KnockInv
  <2>5. LineInv'
    BY <2>1, <2>2 DEF Connection, LineInv, HasQtest, Options
  <2> QED
    BY <2>4, <2>5 DEF Connection
<1>2. ASSUME CalmMachines, CalmQEMUs,
             \/ UNCHANGED <<pc, cur, qfile>>
             \/ pc \in {"idle", "read"} /\ pc' \in {"idle", "read"}
      PROVE  Connection'
  <2>1. KnockInv'
    <3>1. \A o \in Machines : vm[o].knock # 0 => vm[o].popen \in Runs
      BY <1>a DEF Connection, KnockInv, VMs, TypeOK
    <3> QED
      BY <1>2, <3>1 DEF Connection, KnockInv, IsQtest, CalmMachines, CalmQEMUs
  <2>2. LineInv'
    <3> SUFFICES ASSUME NEW r \in Runs, NEW n \in Names,
                        HasQtest(r, n)', qemu'[r].state \in {"started", "up"}
                 PROVE  /\ pc' \in {"monitor", "qtest"} /\ IsQtest(cur)'
                        /\ vm'[cur'].popen = r /\ qfile'[n] = r
      BY DEF LineInv
    <3>1. HasQtest(r, n) /\ qemu[r].state \in {"started", "up"}
      BY <1>2 DEF HasQtest, Options, CalmQEMUs
    <3>2. pc \in {"monitor", "qtest"} /\ IsQtest(cur) /\ vm[cur].popen = r /\ qfile[n] = r
      BY <3>1 DEF Connection, LineInv
    <3> QED
      BY <1>2, <1>a, <3>2 DEF CalmMachines, IsQtest
  <2> QED
    BY <2>1, <2>2 DEF Connection
<1> QED
  BY <1>1, <1>2, ConnectionSteps, ConnectionLaunch, ConnectionTearsDown, ConnectionAccept,
     ConnectionQtest

\* It holds in every state.
LEMMA ConnectionHolds == Spec => []Connection
<1>1. Init => Connection
  BY DEF Init, NoMachine, NoQEMU, Connection, LineInv, KnockInv, HasQtest, Options
<1>2. TypeOK /\ Life /\ Connection /\ [Next]_vars => Connection'
  BY ConnectionInductive
<1> QED
  BY <1>1, <1>2, TypeCorrect, LifeHolds, PTL DEF Spec

\* A machine that is up talks qtest with its own QEMU of this launch, and reads from the
\* file of that connection (qtest.py:61-63, 102-104).
THEOREM QtestRun == Spec => []QtestOfThisRun
<1>1. TypeOK /\ ReadInv /\ Connection => QtestOfThisRun
  BY DEF ReadInv, Connection, KnockInv, QtestOfThisRun
<1> QED
  BY <1>1, TypeCorrect, ConnectionHolds, PTL

-----------------------------------------------------------------------------
(* Answers *)

\* The answers in a queue are those to the commands b + 1 .. a, in their order; 0 is the
\* line of an interrupt.
InOrder(q, b, a) ==
  /\ \A i \in DOMAIN q : q[i] # 0 => b < q[i] /\ q[i] <= a
  /\ \A i, j \in DOMAIN q : i < j /\ q[i] # 0 /\ q[j] # 0 => q[i] < q[j]
  /\ \A k \in b + 1 .. a : \E i \in DOMAIN q : q[i] = k

\* QEMU answers the next command (QtestReplies).
LEMMA OrderAnswer ==
  ASSUME NEW q \in Seq(Nat), NEW b \in Nat, NEW a \in Nat, InOrder(q, b, a), b <= a
  PROVE  InOrder(Append(q, a + 1), b, a + 1)
<1> DEFINE p == Append(q, a + 1)
<1>1. /\ DOMAIN p = 1 .. Len(q) + 1 /\ p[Len(q) + 1] = a + 1 /\ Len(q) \in Nat
      /\ DOMAIN q = 1 .. Len(q)
      /\ \A i \in DOMAIN q : p[i] = q[i] /\ q[i] \in Nat
  OBVIOUS
<1> HIDE DEF p
<1>2. \A i \in DOMAIN p : p[i] # 0 => b < p[i] /\ p[i] <= a + 1
  BY <1>1 DEF InOrder
<1>3. ASSUME NEW i \in DOMAIN p, NEW j \in DOMAIN p, i < j, p[i] # 0, p[j] # 0
      PROVE  p[i] < p[j]
  <2>1. i \in DOMAIN q
    BY <1>1, <1>3
  <2>2. CASE j \in DOMAIN q
    BY <1>1, <1>3, <2>1, <2>2 DEF InOrder
  <2>3. CASE j = Len(q) + 1
    <3>1. q[i] <= a /\ p[i] = q[i] /\ q[i] \in Nat
      BY <1>1, <1>3, <2>1 DEF InOrder
    <3> QED
      BY <1>1, <2>3, <3>1
  <2> QED
    BY <1>1, <2>2, <2>3
<1>4. ASSUME NEW k \in b + 1 .. a + 1 PROVE \E i \in DOMAIN p : p[i] = k
  <2>1. CASE k = a + 1
    BY <1>1, <2>1
  <2>2. CASE k \in b + 1 .. a
    BY <1>1, <2>2 DEF InOrder
  <2> QED
    BY <2>1, <2>2
<1>5. InOrder(p, b, a + 1)
  BY <1>2, <1>3, <1>4 DEF InOrder
<1> QED
  BY <1>5 DEF p

\* An interrupt is reported (QtestIrq).
LEMMA OrderIrq ==
  ASSUME NEW q \in Seq(Nat), NEW b \in Nat, NEW a \in Nat, InOrder(q, b, a)
  PROVE  InOrder(Append(q, 0), b, a)
<1> DEFINE p == Append(q, 0)
<1>1. /\ DOMAIN p = 1 .. Len(q) + 1 /\ p[Len(q) + 1] = 0 /\ Len(q) \in Nat
      /\ DOMAIN q = 1 .. Len(q)
      /\ \A i \in DOMAIN q : p[i] = q[i] /\ q[i] \in Nat
  OBVIOUS
<1> HIDE DEF p
<1>2. \A i \in DOMAIN p : p[i] # 0 => b < p[i] /\ p[i] <= a
  BY <1>1 DEF InOrder
<1>3. \A i, j \in DOMAIN p : i < j /\ p[i] # 0 /\ p[j] # 0 => p[i] < p[j]
  BY <1>1 DEF InOrder
<1>4. \A k \in b + 1 .. a : \E i \in DOMAIN p : p[i] = k
  BY <1>1 DEF InOrder
<1>5. InOrder(p, b, a)
  BY <1>2, <1>3, <1>4 DEF InOrder
<1> QED
  BY <1>5 DEF p

\* The line that is read (ReadLine) is that of an interrupt or the first answer.
LEMMA OrderRead ==
  ASSUME NEW q \in Seq(Nat), NEW b \in Nat, NEW a \in Nat, InOrder(q, b, a), q # <<>>
  PROVE  /\ Head(q) = 0 => InOrder(Tail(q), b, a)
         /\ Head(q) # 0 => Head(q) = b + 1 /\ b + 1 <= a /\ InOrder(Tail(q), b + 1, a)
<1> DEFINE t == Tail(q)
           h == q[1]
<1>1. /\ DOMAIN q = 1 .. Len(q) /\ Len(q) \in Nat /\ Len(q) >= 1 /\ Head(q) = h
      /\ DOMAIN t = 1 .. Len(q) - 1
      /\ \A i \in DOMAIN q : q[i] \in Nat
      /\ \A i \in DOMAIN t : t[i] = q[i + 1]
  OBVIOUS
<1>2. 1 \in DOMAIN q /\ h \in Nat
  BY <1>1
<1> HIDE DEF t
<1>3. \A i \in DOMAIN t : i + 1 \in DOMAIN q /\ t[i] = q[i + 1] /\ i \in Nat
  BY <1>1
<1>4. ASSUME NEW i \in DOMAIN q, i # 1 PROVE i - 1 \in DOMAIN t /\ t[i - 1] = q[i]
  <2>1. i - 1 \in DOMAIN t /\ (i - 1) + 1 = i
    BY <1>1, <1>4
  <2> QED
    BY <1>3, <2>1
<1>5. \A i, j \in DOMAIN t : i < j /\ t[i] # 0 /\ t[j] # 0 => t[i] < t[j]
  BY <1>3 DEF InOrder
<1>6. ASSUME h = 0 PROVE InOrder(t, b, a)
  <2>1. \A i \in DOMAIN t : t[i] # 0 => b < t[i] /\ t[i] <= a
    BY <1>3 DEF InOrder
  <2>2. ASSUME NEW k \in b + 1 .. a PROVE \E i \in DOMAIN t : t[i] = k
    <3>1. PICK i \in DOMAIN q : q[i] = k
      BY DEF InOrder
    <3>2. i # 1
      BY <1>6, <3>1
    <3> QED
      BY <1>4, <3>1, <3>2
  <2> QED
    BY <1>5, <2>1, <2>2 DEF InOrder
<1>7. ASSUME h # 0 PROVE h = b + 1 /\ b + 1 <= a /\ InOrder(t, b + 1, a)
  <2>1. b < h /\ h <= a
    BY <1>2, <1>7 DEF InOrder
  <2>2. PICK i \in DOMAIN q : q[i] = b + 1
    BY <1>2, <2>1 DEF InOrder
  <2>3. h = b + 1
    <3>1. CASE i = 1
      BY <2>2, <3>1
    <3>2. CASE i # 1
      <4>1. 1 < i
        BY <1>1, <3>2
      <4>2. h < b + 1
        BY <1>2, <1>7, <2>2, <3>2, <4>1 DEF InOrder
      <4> QED
        BY <1>2, <2>1, <4>2
    <3> QED
      BY <3>1, <3>2
  <2>4. \A j \in DOMAIN t : t[j] # 0 => b + 1 < t[j] /\ t[j] <= a
    <3> SUFFICES ASSUME NEW j \in DOMAIN t, t[j] # 0 PROVE b + 1 < t[j] /\ t[j] <= a
      OBVIOUS
    <3>1. j + 1 \in DOMAIN q /\ 1 < j + 1 /\ q[j + 1] = t[j]
      BY <1>1, <1>3
    <3> QED
      BY <1>2, <1>7, <2>3, <3>1 DEF InOrder
  <2>5. ASSUME NEW k \in b + 2 .. a PROVE \E j \in DOMAIN t : t[j] = k
    <3>1. PICK j \in DOMAIN q : q[j] = k
      BY DEF InOrder
    <3>2. j # 1
      BY <2>3, <3>1
    <3> QED
      BY <1>4, <3>1, <3>2
  <2>6. (b + 1) + 1 = b + 2
    OBVIOUS
  <2> QED
    BY <1>2, <1>5, <2>1, <2>3, <2>4, <2>5, <2>6 DEF InOrder
<1> QED
  BY <1>1, <1>6, <1>7 DEF t

\* The command whose line qtest() waits for.
Pending(r) == IF pc = "read" /\ vm[cur].reader = r THEN 1 ELSE 0

\* The commands that were answered in step, or at the end of file.
Base(r) == qemu[r].sent - qemu[r].late - Pending(r)

\* A QEMU that was not started has no queue; what is in a queue are the answers to the
\* commands that are still to be read.
AnswerInv ==
  \A r \in Runs :
    /\ Base(r) \in Nat
    /\ InOrder(qemu[r].lines, Base(r), qemu[r].answered)
    /\ qemu[r].state # "dead" => Base(r) <= qemu[r].answered
    /\ r > nruns <=> qemu[r].state = "none"

\* Steps that neither read nor write a qtest connection.
Quiet ==
  \A r \in Runs :
    /\ qemu'[r].lines = qemu[r].lines /\ qemu'[r].sent = qemu[r].sent
    /\ qemu'[r].late = qemu[r].late /\ qemu'[r].answered = qemu[r].answered
    /\ qemu[r].state = "dead" => qemu'[r].state = "dead"
    /\ r > nruns' <=> qemu'[r].state = "none"
    /\ Pending(r)' = Pending(r)

\* What other steps do to the lines of a connection: nothing.
LEMMA AnswerSteps ==
  ASSUME TypeOK, Life, AnswerInv, [Next]_vars
  PROVE  \/ \E m \in Machines : Qtest(m)
         \/ ReadLine \/ ReadRaises
         \/ \E r \in Runs : QtestReplies(r) \/ QtestIrq(r)
         \/ Quiet
<1>a. vm \in [Machines -> VMs] /\ cur \in Machines /\ qemu \in [Runs -> QEMUs] /\ nruns \in Nat
  BY MachinesAssumption DEF TypeOK
<1>b. \A r \in Runs : r > nruns <=> qemu[r].state = "none"
  BY DEF AnswerInv
<1>c. Runs \subseteq Nat
  BY DEF Runs
<1>1. ASSUME nruns' = nruns, qemu' = qemu,
             \A r \in Runs : Pending(r)' = Pending(r)
      PROVE  Quiet
  BY <1>1, <1>b DEF Quiet
<1>2. ASSUME pc # "read", pc' # "read"
      PROVE  \A r \in Runs : Pending(r)' = Pending(r)
  BY <1>2 DEF Pending
<1>3. ASSUME UNCHANGED <<pc, cur>>, vm'[cur].reader = vm[cur].reader
      PROVE  \A r \in Runs : Pending(r)' = Pending(r)
  BY <1>3 DEF Pending
<1>4. ASSUME NEW m \in Machines, Launch(m) PROVE Quiet
  <2>1. /\ pc = "idle" /\ pc' = "monitor" /\ nruns' = nruns + 1 /\ nruns < MaxRuns
        /\ qemu' = [qemu EXCEPT ![nruns + 1].state = "started",
                                ![nruns + 1].line = CommandLine(m, nruns + 1)]
    BY <1>4 DEF Launch, Idle
  <2>2. nruns + 1 \in Runs
    BY <1>a, <2>1, MachinesAssumption DEF Runs
  <2> DEFINE d == nruns + 1
             l == CommandLine(m, d)
  <2>3. d \in Runs /\ d > nruns /\ nruns' = d /\ d = nruns + 1
    BY <1>a, <2>1, <2>2
  <2>4. qemu' = [qemu EXCEPT ![d] = [qemu[d] EXCEPT !.state = "started", !.line = l]]
    BY <2>1
  <2> HIDE DEF d, l
  <2>5. \A r \in Runs :
          /\ qemu'[r].lines = qemu[r].lines /\ qemu'[r].sent = qemu[r].sent
          /\ qemu'[r].late = qemu[r].late /\ qemu'[r].answered = qemu[r].answered
          /\ r # d => qemu'[r].state = qemu[r].state
          /\ r = d => qemu'[r].state = "started"
    BY <1>a, <2>4 DEF QEMUs
  <2>6. qemu[d].state = "none"
    BY <1>b, <2>3
  <2>7. \A r \in Runs : r > nruns' <=> r > nruns /\ r # d
    BY <1>a, <1>c, <2>3
  <2> QED
    BY <1>2, <1>b, <2>1, <2>5, <2>6, <2>7 DEF Quiet
<1>5. ASSUME NEW m \in Machines, TearsDown(m), pc # "read", pc' = "idle", nruns' = nruns
      PROVE  Quiet
  <2>1. vm[m].popen \in Runs \cup {0} /\ vm[m].popen <= nruns
    BY <1>a DEF Life, LifeInv, VMs
  <2>2. \A r \in Runs :
          /\ qemu'[r].lines = qemu[r].lines /\ qemu'[r].sent = qemu[r].sent
          /\ qemu'[r].late = qemu[r].late /\ qemu'[r].answered = qemu[r].answered
          /\ qemu'[r].state = qemu[r].state \/ (qemu'[r].state = "dead" /\ r = vm[m].popen)
    BY <1>5, <1>a DEF TearsDown, Gone, QEMUs
  <2>3. \A r \in Runs : r > nruns => r # vm[m].popen
    BY <1>a, <1>c, <2>1
  <2> QED
    BY <1>2, <1>5, <1>b, <2>2, <2>3 DEF Quiet
<1>6. ASSUME NEW r \in Runs, NEW st \in {"up", "joined", "dead"}, qemu[r].state # "none",
             qemu[r].state # "dead", qemu' = [qemu EXCEPT ![r].state = st], nruns' = nruns,
             \A q \in Runs : Pending(q)' = Pending(q)
      PROVE  Quiet
  BY <1>6, <1>a, <1>b DEF Quiet, QEMUs
<1>7. ASSUME NEW r \in Runs, QemuDies(r) \/ MonitorConnects(r) PROVE Quiet
  BY <1>7, <1>3, <1>6 DEF QemuDies, MonitorConnects, Alive, counts
<1>8. ASSUME NEW r \in Runs, NEW n \in Names, QtestConnects(r, n) PROVE Quiet
  <2>1. UNCHANGED <<pc, cur, nruns>> /\ qemu[r].state = "up"
    BY <1>8 DEF QtestConnects, counts
  <2>2. vm' = vm \/ \E m \in Machines : vm' = [vm EXCEPT ![m].knock = r]
    BY <1>8 DEF QtestConnects
  <2>3. \A m \in Machines : vm'[m].reader = vm[m].reader
    <3>1. ASSUME NEW m \in Machines, vm' = [vm EXCEPT ![m].knock = r]
          PROVE  \A o \in Machines : vm'[o].reader = vm[o].reader
      BY <1>a, <3>1 DEF VMs
    <3> QED
      BY <2>2, <3>1
  <2>4. \E st \in {"joined", "dead"} : qemu' = [qemu EXCEPT ![r].state = st]
    BY <1>8 DEF QtestConnects
  <2> QED
    BY <1>3, <1>6, <1>a, <2>1, <2>3, <2>4
<1>9. CASE AcceptMonitor \/ AcceptQtest
  BY <1>9, <1>1, <1>2 DEF AcceptMonitor, AcceptQtest, counts
<1>10. ASSUME NEW m \in Machines,
              \/ \E c \in {"plain", "qtest"}, a \in BOOLEAN : New(m, c, a)
              \/ Wait(m) \/ SetMachine(m) \/ \E d \in Devices : SetConsole(m, d)
       PROVE  Quiet
  BY <1>10, <1>1, <1>2 DEF New, Wait, SetMachine, SetConsole, Set, Idle, Changes, counts
<1>11. ASSUME NEW m \in Machines, ConsoleSocket(m) PROVE Quiet
  BY <1>11, <1>1, <1>2 DEF ConsoleSocket, Idle, counts
<1>12. ASSUME UNCHANGED <<qemu, vm, pc, cur, nruns>> PROVE Quiet
  BY <1>12, <1>1, <1>3
<1>13. ASSUME NEW m \in Machines, LaunchRefused(m) \/ Shutdown(m) PROVE Quiet
  BY <1>13, <1>5 DEF LaunchRefused, Shutdown, Idle, counts
<1>14. CASE LaunchFails
  BY <1>14, <1>5, <1>a DEF LaunchFails, counts
<1>15. \/ \E m \in Machines :
            \/ \E c \in {"plain", "qtest"}, a \in BOOLEAN : New(m, c, a)
            \/ Launch(m) \/ Wait(m) \/ ConsoleSocket(m) \/ LaunchRefused(m) \/ Shutdown(m)
            \/ SetMachine(m) \/ (\E d \in Devices : SetConsole(m, d)) \/ Qtest(m)
       \/ AcceptMonitor \/ AcceptQtest \/ LaunchFails \/ ReadLine \/ ReadRaises
       \/ \E r \in Runs :
            \/ QemuDies(r) \/ MonitorConnects(r) \/ QtestReplies(r) \/ QtestIrq(r)
            \/ \E n \in Names : QtestConnects(r, n)
       \/ UNCHANGED <<qemu, vm, pc, cur, nruns>>
  BY DEF Next, vars, counts, AddArgs, AddMonitorNull, AddFd, Extend, CallerAppends, Changes
<1> QED
  BY <1>4, <1>7, <1>8, <1>9, <1>10, <1>11, <1>12, <1>13, <1>14, <1>15

\* Reading the next line keeps the queue in order, and an answer is that to the command.
LEMMA AnswerRead ==
  ASSUME TypeOK, AnswerInv, ReadLine, NEW r \in Runs, vm[cur].reader = r, r <= nruns
  PROVE  /\ AnswerInv'
         /\ got' # Nothing =>
              got'[1] = r /\ (got'[2] # 0 => got'[2] + qemu[r].late = qemu[r].sent)
<1>a. qemu \in [Runs -> QEMUs] /\ cur \in Machines
  BY DEF TypeOK
<1>b. pc = "read" /\ pc' = "idle" /\ vm' = vm /\ nruns' = nruns /\ cur' = cur
  BY DEF ReadLine, counts
<1>c. /\ Base(r) = qemu[r].sent - qemu[r].late - 1 /\ Base(r) \in Nat
      /\ InOrder(qemu[r].lines, Base(r), qemu[r].answered)
      /\ qemu[r].state # "dead" => Base(r) <= qemu[r].answered
      /\ qemu[r].state # "none"
  <2>1. ~(r > nruns)
    BY DEF TypeOK, Runs
  <2> QED
    BY <1>a, <1>b, <2>1 DEF AnswerInv, Base, Pending
<1>d. /\ qemu[r].lines \in Seq(Nat) /\ qemu[r].sent \in Nat /\ qemu[r].late \in Nat
      /\ qemu[r].answered \in Nat
  BY <1>a DEF QEMUs
<1>e. \A q \in Runs : Pending(q)' = 0 /\ (q # r => Pending(q) = 0)
  BY <1>b DEF Pending
<1>1. \/ /\ qemu[r].lines # <<>>
         /\ got' = <<r, Head(qemu[r].lines)>>
         /\ qemu' = [qemu EXCEPT ![r] =
              [qemu[r] EXCEPT !.lines = Tail(qemu[r].lines),
                 !.late = IF Head(qemu[r].lines) = 0 THEN qemu[r].late + 1 ELSE qemu[r].late]]
      \/ /\ qemu[r].lines = <<>> /\ ~Alive(r)
         /\ got' = Nothing
         /\ qemu' = qemu
  BY DEF ReadLine
<1>2. ASSUME qemu[r].lines # <<>>, got' = <<r, Head(qemu[r].lines)>>,
             qemu' = [qemu EXCEPT ![r] =
               [qemu[r] EXCEPT !.lines = Tail(qemu[r].lines),
                  !.late = IF Head(qemu[r].lines) = 0 THEN qemu[r].late + 1 ELSE qemu[r].late]]
      PROVE  /\ AnswerInv'
             /\ got'[1] = r
             /\ got'[2] # 0 => got'[2] + qemu[r].late = qemu[r].sent
  <2> DEFINE h == Head(qemu[r].lines)
  <2>1. /\ \A q \in Runs : q # r => qemu'[q] = qemu[q]
        /\ qemu'[r].lines = Tail(qemu[r].lines) /\ qemu'[r].sent = qemu[r].sent
        /\ qemu'[r].answered = qemu[r].answered /\ qemu'[r].state = qemu[r].state
        /\ qemu'[r].late = IF h = 0 THEN qemu[r].late + 1 ELSE qemu[r].late
    BY <1>2, <1>a DEF QEMUs
  <2>2. got'[1] = r /\ got'[2] = h
    BY <1>2
  <2>3. h = 0 => InOrder(Tail(qemu[r].lines), Base(r), qemu[r].answered)
    BY <1>2, <1>c, <1>d, OrderRead
  <2>4. h # 0 => /\ h = Base(r) + 1 /\ Base(r) + 1 <= qemu[r].answered
                 /\ InOrder(Tail(qemu[r].lines), Base(r) + 1, qemu[r].answered)
    BY <1>2, <1>c, <1>d, OrderRead
  <2> HIDE DEF h
  <2>5. Base(r)' = IF h = 0 THEN Base(r) ELSE Base(r) + 1
    <3>1. Base(r)' = qemu'[r].sent - qemu'[r].late - 0
      BY <1>a, <1>e DEF Base
    <3> QED
      BY <1>c, <1>d, <2>1, <3>1
  <2>6. \A q \in Runs : q # r => Base(q)' = Base(q)
    BY <1>e, <2>1 DEF Base
  <2>7. /\ Base(r)' \in Nat
        /\ InOrder(qemu'[r].lines, Base(r)', qemu'[r].answered)
        /\ qemu'[r].state # "dead" => Base(r)' <= qemu'[r].answered
        /\ r > nruns' <=> qemu'[r].state = "none"
    <3>1. ~(r > nruns')
      BY <1>b DEF TypeOK, Runs
    <3> QED
      BY <1>b, <1>c, <2>1, <2>3, <2>4, <2>5, <3>1
  <2>8. AnswerInv'
    BY <1>b, <2>1, <2>6, <2>7 DEF AnswerInv
  <2> QED
    BY <1>c, <1>d, <2>1, <2>2, <2>4, <2>8
<1>3. ASSUME qemu[r].lines = <<>>, ~Alive(r), got' = Nothing, qemu' = qemu
      PROVE  AnswerInv'
  <2>1. Base(r)' = Base(r) + 1
    <3>1. Base(r)' = qemu[r].sent - qemu[r].late - 0
      BY <1>3, <1>a, <1>e DEF Base
    <3> QED
      BY <1>c, <1>d, <3>1
  <2>2. \A q \in Runs : q # r => Base(q)' = Base(q)
    BY <1>e, <1>3 DEF Base
  <2>3. ~(Base(r) + 1 <= qemu[r].answered)
    BY <1>3, <1>c, <1>d DEF InOrder
  <2>4. InOrder(<<>>, Base(r) + 1, qemu[r].answered)
    BY <1>c, <1>d, <2>3 DEF InOrder
  <2>5. qemu[r].state = "dead" /\ ~(r > nruns)
    BY <1>3, <1>a, <1>c DEF Alive, QEMUs, TypeOK, Runs
  <2>6. /\ Base(r)' \in Nat
        /\ InOrder(qemu'[r].lines, Base(r)', qemu'[r].answered)
        /\ qemu'[r].state = "dead"
        /\ r > nruns' <=> qemu'[r].state = "none"
    BY <1>3, <1>b, <1>c, <2>1, <2>4, <2>5
  <2> QED
    BY <1>3, <1>b, <2>2, <2>6 DEF AnswerInv
<1> QED
  BY <1>1, <1>2, <1>3

\* A command is sent, or its line given up, and QEMU answers: the queue stays in order.
LEMMA AnswerCommands ==
  ASSUME TypeOK, ReadInv, AnswerInv,
         \/ \E m \in Machines : Qtest(m)
         \/ ReadRaises
         \/ \E r \in Runs : QtestReplies(r) \/ QtestIrq(r)
  PROVE  AnswerInv'
<1>a. qemu \in [Runs -> QEMUs] /\ cur \in Machines /\ \A m \in Machines : vm[m] \in VMs
  BY DEF TypeOK
<1>b. \A r \in Runs :
        /\ qemu[r].lines \in Seq(Nat) /\ qemu[r].sent \in Nat /\ qemu[r].late \in Nat
        /\ qemu[r].answered \in Nat
  BY <1>a DEF QEMUs
<1>1. ASSUME NEW m \in Machines, NEW r \in Runs, vm[m].peer = r, Qtest(m) PROVE AnswerInv'
  <2>1. /\ pc = "idle" /\ pc' = "read" /\ cur' = m /\ UNCHANGED <<vm, nruns>>
        /\ qemu' = [qemu EXCEPT ![r].sent = qemu[r].sent + 1] /\ vm[m].reader = r
    BY <1>1 DEF Qtest, Idle, ReadInv
  <2>2. \A q \in Runs :
          /\ qemu'[q].lines = qemu[q].lines /\ qemu'[q].late = qemu[q].late
          /\ qemu'[q].answered = qemu[q].answered /\ qemu'[q].state = qemu[q].state
          /\ qemu'[q].sent = IF q = r THEN qemu[q].sent + 1 ELSE qemu[q].sent
    BY <1>a, <2>1 DEF QEMUs
  <2>3. \A q \in Runs : Pending(q) = 0 /\ Pending(q)' = IF q = r THEN 1 ELSE 0
    BY <2>1 DEF Pending
  <2>4. \A q \in Runs : Base(q)' = Base(q)
    BY <1>b, <2>2, <2>3 DEF Base
  <2> QED
    BY <2>1, <2>2, <2>4 DEF AnswerInv
<1>2. ASSUME NEW r \in Runs, vm[cur].peer = r, ReadRaises PROVE AnswerInv'
  <2>1. /\ pc = "read" /\ pc' = "idle" /\ UNCHANGED <<vm, cur, nruns>> /\ vm[cur].reader = r
        /\ qemu' = [qemu EXCEPT ![r].late = qemu[r].late + 1]
    BY <1>a, <1>2 DEF ReadRaises, ReadInv, counts
  <2>2. \A q \in Runs :
          /\ qemu'[q].lines = qemu[q].lines /\ qemu'[q].sent = qemu[q].sent
          /\ qemu'[q].answered = qemu[q].answered /\ qemu'[q].state = qemu[q].state
          /\ qemu'[q].late = IF q = r THEN qemu[q].late + 1 ELSE qemu[q].late
    BY <1>a, <2>1 DEF QEMUs
  <2>3. \A q \in Runs : Pending(q)' = 0 /\ Pending(q) = IF q = r THEN 1 ELSE 0
    BY <2>1 DEF Pending
  <2>4. \A q \in Runs : Base(q)' = Base(q)
    <3>1. Base(r)' = Base(r)
      <4>1. Base(r)' = qemu[r].sent - (qemu[r].late + 1) - 0
        BY <2>2, <2>3 DEF Base
      <4>2. Base(r) = qemu[r].sent - qemu[r].late - 1
        BY <2>3 DEF Base
      <4> QED
        BY <1>b, <4>1, <4>2
    <3>2. \A q \in Runs : q # r => Base(q)' = Base(q)
      BY <2>2, <2>3 DEF Base
    <3> QED
      BY <3>1, <3>2
  <2> QED
    BY <2>1, <2>2, <2>4 DEF AnswerInv
<1>3. ASSUME NEW r \in Runs, NEW l, NEW n, UNCHANGED <<vm, pc, cur, nruns>>,
             qemu' = [qemu EXCEPT ![r] = [qemu[r] EXCEPT !.lines = l, !.answered = n]],
             InOrder(l, Base(r), n), n \in Nat, n >= qemu[r].answered
      PROVE  AnswerInv'
  <2>1. /\ \A q \in Runs :
             /\ qemu'[q].sent = qemu[q].sent /\ qemu'[q].late = qemu[q].late
             /\ qemu'[q].state = qemu[q].state
             /\ q # r => qemu'[q] = qemu[q]
        /\ qemu'[r].lines = l /\ qemu'[r].answered = n
    BY <1>a, <1>3 DEF QEMUs
  <2>2. \A q \in Runs : Base(q)' = Base(q)
    BY <1>3, <2>1 DEF Base, Pending
  <2>3. /\ Base(r) \in Nat
        /\ qemu[r].state # "dead" => Base(r) <= n
    BY <1>3, <1>b DEF AnswerInv
  <2> QED
    BY <1>3, <2>1, <2>2, <2>3 DEF AnswerInv
<1>4. ASSUME NEW r \in Runs, QtestReplies(r) PROVE AnswerInv'
  <2>1. /\ qemu[r].state = "joined" /\ UNCHANGED <<vm, pc, cur, nruns>>
        /\ qemu' = [qemu EXCEPT ![r] =
             [qemu[r] EXCEPT !.lines = Append(qemu[r].lines, qemu[r].answered + 1),
                             !.answered = qemu[r].answered + 1]]
    BY <1>4 DEF QtestReplies, counts
  <2>2. InOrder(qemu[r].lines, Base(r), qemu[r].answered) /\ Base(r) <= qemu[r].answered
          /\ Base(r) \in Nat
    BY <2>1 DEF AnswerInv
  <2>3. InOrder(Append(qemu[r].lines, qemu[r].answered + 1), Base(r), qemu[r].answered + 1)
    BY <1>b, <2>2, OrderAnswer
  <2>4. qemu[r].answered + 1 \in Nat /\ qemu[r].answered + 1 >= qemu[r].answered
    BY <1>b
  <2> QED
    BY <1>3, <2>1, <2>3, <2>4
<1>5. ASSUME NEW r \in Runs, QtestIrq(r) PROVE AnswerInv'
  <2>1. /\ UNCHANGED <<vm, pc, cur, nruns>>
        /\ qemu' = [qemu EXCEPT ![r].lines = Append(qemu[r].lines, 0)]
    BY <1>5 DEF QtestIrq
  <2>2. qemu' = [qemu EXCEPT ![r] = [qemu[r] EXCEPT !.lines = Append(qemu[r].lines, 0),
                                                    !.answered = qemu[r].answered]]
    <3>1. [qemu[r] EXCEPT !.lines = Append(qemu[r].lines, 0)]
            = [qemu[r] EXCEPT !.lines = Append(qemu[r].lines, 0), !.answered = qemu[r].answered]
      BY <1>a DEF QEMUs
    <3> QED
      BY <2>1, <3>1
  <2>3. InOrder(qemu[r].lines, Base(r), qemu[r].answered) /\ Base(r) \in Nat
    BY DEF AnswerInv
  <2>4. InOrder(Append(qemu[r].lines, 0), Base(r), qemu[r].answered)
    BY <1>b, <2>3, OrderIrq
  <2>5. qemu[r].answered \in Nat /\ qemu[r].answered >= qemu[r].answered
    BY <1>b
  <2> QED
    BY <1>3, <2>1, <2>2, <2>4, <2>5
<1>6. \A m \in Machines : Qtest(m) => vm[m].peer \in Runs
  BY <1>a DEF Qtest, VMs
<1>7. ReadRaises => vm[cur].peer \in Runs
  BY DEF ReadRaises, ReadInv
<1> QED
  BY <1>1, <1>2, <1>4, <1>5, <1>6, <1>7

\* The connection that is read is that of a QEMU that was started.
LEMMA ReaderStarted ==
  ASSUME TypeOK, ReadInv, Life, Connection, pc = "read"
  PROVE  /\ vm[cur].reader \in Runs /\ vm[cur].reader <= nruns
         /\ vm[cur].reader = vm[cur].popen
<1>1. cur \in Machines
  BY DEF TypeOK
<1>2. vm[cur].peer \in Runs /\ vm[cur].reader = vm[cur].peer
  BY <1>1 DEF ReadInv
<1>3. vm[cur].peer = vm[cur].popen
  BY <1>1, <1>2 DEF Connection, KnockInv, Runs
<1> QED
  BY <1>1, <1>2, <1>3 DEF Life, LifeInv

\* Every step keeps the queues in order.
LEMMA AnswerInductive ==
  ASSUME TypeOK, ReadInv, Life, Connection, AnswerInv, [Next]_vars
  PROVE  AnswerInv'
<1>1. ASSUME ReadLine PROVE AnswerInv'
  <2>1. pc = "read"
    BY <1>1 DEF ReadLine
  <2> QED
    BY <1>1, <2>1, ReaderStarted, AnswerRead
<1>2. ASSUME Quiet PROVE AnswerInv'
  <2>1. \A r \in Runs : Base(r)' = Base(r)
    BY <1>2 DEF Quiet, Base
  <2> QED
    BY <1>2, <2>1 DEF Quiet, AnswerInv
<1> QED
  BY <1>1, <1>2, AnswerSteps, AnswerCommands

\* It holds in every state.
LEMMA AnswerHolds == Spec => []AnswerInv
<1>1. Init => AnswerInv
  <2> SUFFICES ASSUME Init, NEW r \in Runs
               PROVE  /\ Base(r) = 0 /\ InOrder(qemu[r].lines, 0, 0)
                      /\ qemu[r].answered = 0 /\ qemu[r].state = "none" /\ r > nruns
    BY DEF AnswerInv
  <2>1. qemu[r] = NoQEMU /\ nruns = 0 /\ pc = "idle"
    BY DEF Init
  <2>2. InOrder(<<>>, 0, 0)
    BY DEF InOrder
  <2> QED
    BY <2>1, <2>2, MachinesAssumption DEF NoQEMU, Base, Pending, Runs
<1>2. TypeOK /\ ReadInv /\ Life /\ Connection /\ AnswerInv /\ [Next]_vars => AnswerInv'
  BY AnswerInductive
<1> QED
  BY <1>1, <1>2, TypeCorrect, LifeHolds, ConnectionHolds, PTL DEF Spec

\* An answer that qtest() returns comes from the QEMU that runs, and is that to the command
\* just sent but for the lines lost to interrupts and reads that raised (qtest.py:65-73).
THEOREM AnswersKeepStep == Spec => AnswersInStep
<1> DEFINE A == pc = "read" /\ pc' = "idle" /\ got' # Nothing =>
                  LET r == vm[cur].popen IN
                  /\ got'[1] = r
                  /\ got'[2] # 0 => got'[2] + qemu[r].late = qemu[r].sent
<1>1. TypeOK /\ ReadInv /\ Life /\ Connection /\ AnswerInv /\ [Next]_vars => A
  <2> SUFFICES ASSUME TypeOK, ReadInv, Life, Connection, AnswerInv, [Next]_vars,
                      pc = "read", pc' = "idle", got' # Nothing
               PROVE  A
    OBVIOUS
  <2>1. ReadLine
    BY DEF Next, vars, counts, New, AddArgs, AddMonitorNull, AddFd, Extend, SetMachine,
           SetConsole, Set, Launch, LaunchRefused, Shutdown, Wait, ConsoleSocket, Qtest,
           CallerAppends, AcceptMonitor, AcceptQtest, LaunchFails, ReadRaises, QemuDies,
           MonitorConnects, QtestReplies, QtestIrq, QtestConnects, Idle
  <2> QED
    BY <2>1, ReaderStarted, AnswerRead
<1> QED
  BY <1>1, TypeCorrect, LifeHolds, ConnectionHolds, AnswerHolds, PTL DEF Spec, AnswersInStep

=============================================================================
