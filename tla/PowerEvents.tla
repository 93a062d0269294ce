---------------------------- MODULE PowerEvents ----------------------------
(***************************************************************************)
(* What happens when the laptop is put on battery or on mains: the hooks   *)
(* etc/pm/power.d/intel-governor.sh and vm-cpus.sh, run one after the      *)
(* other, and sbin/intel-performance-state.sh and vm-cpu-hotplug.sh, which *)
(* they call.  The first sets the frequency governor of every CPU of the   *)
(* host; the second adds CPUs to a guest, or asks for them back, one       *)
(* qmp-shell at a time.  device_del only asks: the guest gives a CPU up    *)
(* when it likes.  Users may run the scripts, too, so that two may be at   *)
(* work at one time.                                                       *)
(***************************************************************************)
EXTENDS Integers, FiniteSets

CONSTANTS
  Shells,      \* those that may run a hook or a script at one time
  Nprocs,      \* CPUs the host may have
  Governors,   \* those a host may start with
  Calls,       \* what users call intel-performance-state.sh with: a state, or "toggle"
  Swept,       \* bound: the CPUs of the host whose governor is modelled
  MaxEvents,   \* bound: hooks and scripts started
  MaxStops     \* bound: times the guest's QEMU ends

ASSUME PowerAssumption ==
  /\ Nprocs \subseteq 2 .. 999
  /\ Swept \in Nat \ {0} /\ MaxEvents \in Nat /\ MaxStops \in Nat

VARIABLES
  nproc,      \* CPUs of the host
  governor,   \* that of each CPU
  up,         \* does the QEMU of the guest run?
  plugged,    \* CPUs added to the guest, by their number in the id
  leaving,    \* those of them that the guest was asked to give up
  pc,         \* of each shell: "idle", "governor", "enable", "disable"
  then,       \* what the shell does after "governor"
  state,      \* STATE of intel-performance-state.sh
  count,      \* the CPU it comes to next
  last,       \* history: what the last shell to start is about
  alone,      \* history: no other shell was at work from its start on
  excused,    \* history: CPUs it found leaving, all of them if QEMU was down or ended since
  nevents,    \* history: hooks and scripts so far
  nstops      \* history: times QEMU ended so far

host == <<nproc, governor>>
guest == <<up, plugged, leaving>>
shell == <<pc, then, state, count>>
history == <<last, alone, nevents>>
vars == <<host, guest, shell, history, excused, nstops>>

States == {"powersave", "performance"}

\* SMP of server.qemu: half of the CPUs at boot, and as many as the host has.
Boot == nproc \div 2

\* grep -o with a set of characters finds one digit of a number.
FirstDigit(n) == IF n < 10 THEN n ELSE CHOOSE d \in 1 .. 9 : \E k \in {10, 100} : n \div k = d

\* Mutant: half of the CPUs, rounded up.
CPUS_Rounded == FirstDigit((nproc + 1) \div 2)

CPUS == FirstDigit(Boot)
MAX_CPUS == FirstDigit(nproc)
Hot == CPUS .. (MAX_CPUS - 1)
Quiet == \A s \in Shells : pc[s] = "idle"

Init ==
  /\ nproc \in Nprocs
  /\ \E g \in Governors : governor = [c \in 0 .. (Swept - 1) |-> g]
  /\ up = TRUE /\ plugged = {} /\ leaving = {}
  /\ pc = [s \in Shells |-> "idle"] /\ then = [s \in Shells |-> "idle"]
  /\ state = [s \in Shells |-> "none"] /\ count = [s \in Shells |-> 0]
  /\ last = [state |-> "none", cpus |-> "idle"] /\ alone = TRUE /\ excused = {}
  /\ nevents = 0 /\ nstops = 0

-----------------------------------------------------------------------------
(* The scripts *)

\* The case of intel-performance-state.sh: "true", "false", the name of a governor,
\* or the one of the two that is not that of the first CPU.  A name that is not one
\* of the two is taken out of neither, and both together are no governor.
Chosen(arg) ==
  CASE arg = "true" -> "powersave"
    [] arg = "false" -> "performance"
    [] arg \in States -> arg
    [] OTHER -> IF governor[0] \in States THEN CHOOSE t \in States : t # governor[0]
                ELSE "none"

\* Mutant: disable_cpus() starts one below the last CPU.
First_Late(mode) ==
  IF mode = "disable" THEN MAX_CPUS - 2 ELSE IF mode = "enable" THEN CPUS ELSE 0

\* Where the loop of a mode starts.
First(mode) == IF mode = "disable" THEN MAX_CPUS - 1 ELSE IF mode = "enable" THEN CPUS ELSE 0

Starts(s, p, t, g) ==
  /\ pc[s] = "idle" /\ nevents < MaxEvents
  /\ pc' = [pc EXCEPT ![s] = p]
  /\ then' = [then EXCEPT ![s] = t]
  /\ state' = [state EXCEPT ![s] = g]
  /\ count' = [count EXCEPT ![s] = First(p)]
  /\ last' = [state |-> g, cpus |-> IF p = "governor" THEN t ELSE p]
  /\ alone' = Quiet
  /\ excused' = IF up THEN leaving ELSE Hot
  /\ nevents' = nevents + 1
  /\ UNCHANGED <<host, guest, nstops>>

\* The hooks get "true" on battery, "false" on mains.
PowerEvent(s, battery) ==
  Starts(s, "governor", IF battery = "true" THEN "disable" ELSE "enable", Chosen(battery))

\* A user calls one of the two scripts.
SetsGovernor(s, arg) == Starts(s, "governor", "idle", Chosen(arg))
Hotplugs(s, mode) == Starts(s, mode, "idle", "none")

Goes(s, c) ==
  /\ count' = [count EXCEPT ![s] = c]
  /\ UNCHANGED <<nproc, pc, then, state, history, excused, nstops>>

\* Mutant: CPUs are counted from one.
CpufreqSet_NextCpu(s) ==
  /\ pc[s] = "governor" /\ count[s] < Swept
  /\ governor' = IF state[s] \in States
                 THEN [c \in DOMAIN governor |->
                         IF c = count[s] + 1 THEN state[s] ELSE governor[c]]
                 ELSE governor
  /\ Goes(s, count[s] + 1)
  /\ UNCHANGED guest

\* One round of cpuset_gp(): cpufreq-set fails on a governor there is not.
CpufreqSet(s) ==
  /\ pc[s] = "governor" /\ count[s] < Swept
  /\ governor' = IF state[s] \in States THEN [governor EXCEPT ![count[s]] = state[s]] ELSE governor
  /\ Goes(s, count[s] + 1)
  /\ UNCHANGED guest

\* One round of enable_cpus(): QEMU refuses an id that is still in use.
EnableCpu(s) ==
  /\ pc[s] = "enable" /\ count[s] < MAX_CPUS
  /\ plugged' = IF up THEN plugged \cup {count[s]} ELSE plugged
  /\ Goes(s, count[s] + 1)
  /\ UNCHANGED <<governor, up, leaving>>

\* One round of disable_cpus().
DisableCpu(s) ==
  /\ pc[s] = "disable" /\ count[s] > CPUS - 1
  /\ leaving' = leaving \cup (plugged \cap {count[s]})
  /\ Goes(s, count[s] - 1)
  /\ UNCHANGED <<governor, up, plugged>>

\* Mutant: the loops over the CPUs of the guest may end one round early.
LoopEnds_Short(s) ==
  \/ pc[s] = "governor" /\ count[s] >= Swept
  \/ pc[s] = "enable" /\ count[s] >= MAX_CPUS - 1
  \/ pc[s] = "disable" /\ count[s] <= CPUS

\* The condition of the loop of each script.
LoopEnds(s) ==
  \/ pc[s] = "governor" /\ count[s] >= Swept
  \/ pc[s] = "enable" /\ count[s] >= MAX_CPUS
  \/ pc[s] = "disable" /\ count[s] <= CPUS - 1

\* The end of a script: the next hook, or the shell is gone.
NextHook(s) ==
  /\ LoopEnds(s)
  /\ LET p == IF pc[s] = "governor" THEN then[s] ELSE "idle" IN
     /\ pc' = [pc EXCEPT ![s] = p]
     /\ count' = [count EXCEPT ![s] = First(p)]
  /\ then' = [then EXCEPT ![s] = "idle"]
  /\ state' = [state EXCEPT ![s] = "none"]
  /\ UNCHANGED <<host, guest, history, excused, nstops>>

-----------------------------------------------------------------------------
(* The guest *)

GivesUp(c) ==
  /\ c \in leaving
  /\ plugged' = plugged \ {c} /\ leaving' = leaving \ {c}
  /\ UNCHANGED <<host, up, shell, history, excused, nstops>>

QemuEnds ==
  /\ up /\ nstops < MaxStops
  /\ up' = FALSE /\ plugged' = {} /\ leaving' = {}
  /\ excused' = Hot
  /\ nstops' = nstops + 1
  /\ UNCHANGED <<host, shell, history>>

QemuStarts ==
  /\ ~up /\ up' = TRUE
  /\ UNCHANGED <<host, plugged, leaving, shell, history, excused, nstops>>

-----------------------------------------------------------------------------

Next ==
  \/ \E s \in Shells :
       \/ \E b \in {"true", "false"} : PowerEvent(s, b)
       \/ \E a \in Calls : SetsGovernor(s, a)
       \/ \E m \in {"enable", "disable"} : Hotplugs(s, m)
       \/ CpufreqSet(s) \/ EnableCpu(s) \/ DisableCpu(s) \/ NextHook(s)
  \/ \E c \in Hot : GivesUp(c)
  \/ QemuEnds \/ QemuStarts

\* A script runs on, and a guest gives up a CPU some time after it was asked to.
Spec ==
  /\ Init /\ [][Next]_vars
  /\ \A s \in Shells : WF_vars(CpufreqSet(s) \/ EnableCpu(s) \/ DisableCpu(s) \/ NextHook(s))
  /\ \A c \in 0 .. 9 : WF_vars(GivesUp(c))

-----------------------------------------------------------------------------
(* Properties *)

\* Once the scripts have ended, and if none ran into the last one, the guest has the
\* CPUs that the last one is about: after "enable" all, but for those it was still
\* giving up at that time, whose id QEMU refused (vm-cpu-hotplug.sh:28); after
\* "disable" none but those it was asked for (34-40).
CpusFollow ==
  Quiet /\ alone =>
    /\ last.cpus = "enable" => Hot \ plugged \subseteq excused
    /\ last.cpus = "disable" => plugged = leaving

\* After "disable" a guest that gives up the CPUs it is asked for is down to those it
\* booted with, unless something is started again before it has done so.
DisableEmpties ==
  (Quiet /\ alone /\ last.cpus = "disable") ~> (plugged = {} \/ ~Quiet)

\* On a host with fewer than ten CPUs the guest has as many as the host after "enable",
\* if it had given up before what it was asked for; with more, the one digit that the
\* script reads (vm-cpu-hotplug.sh:10-11) never gives it more than the host has.
AllCpus ==
  /\ Boot + Cardinality(plugged) <= nproc
  /\ Quiet /\ alone /\ last.cpus = "enable" /\ excused = {} /\ nproc < 10 =>
       Boot + Cardinality(plugged) = nproc

\* Once the scripts have ended, and if none ran into the last one, all CPUs have the
\* governor that it chose: a mix that two scripts left behind is gone.
GovernorFollows ==
  Quiet /\ alone /\ last.state \in States => \A c \in DOMAIN governor : governor[c] = last.state

=============================================================================
