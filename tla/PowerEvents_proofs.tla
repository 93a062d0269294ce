------------------------- MODULE PowerEvents_proofs -------------------------
(***************************************************************************)
(* Proofs that what PowerEvents says of the CPUs of the guest and of the   *)
(* governors of the host holds for any number of shells, events and stops  *)
(* of QEMU, and on hosts with up to 999 CPUs.                              *)
(***************************************************************************)
EXTENDS PowerEvents, FiniteSetTheorems, TLAPS

-----------------------------------------------------------------------------
(* One digit of a number *)

\* What grep -o '[0-9]' | head -1 leaves of a number of up to three digits
\* (vm-cpu-hotplug.sh:10-11) is a digit and not 0; it is 1 for 10 to 19.
LEMMA Digit ==
  ASSUME NEW n \in 1 .. 999
  PROVE  /\ FirstDigit(n) \in 1 .. 9
         /\ n < 10 => FirstDigit(n) = n
         /\ 10 <= n /\ n < 20 => FirstDigit(n) = 1
<1>1. CASE n < 10
  BY <1>1 DEF FirstDigit
<1>2. CASE n >= 10
  <2>1. \E d \in 1 .. 9 : \E k \in {10, 100} : n \div k = d
    <3>1. CASE n < 100
      <4>1. n \div 10 \in 1 .. 9
        BY <1>2, <3>1
      <4> QED
        BY <4>1
    <3>2. CASE n >= 100
      <4>1. n \div 100 \in 1 .. 9
        BY <3>2
      <4> QED
        BY <4>1
    <3> QED
      BY <3>1, <3>2
  <2>2. FirstDigit(n) = CHOOSE d \in 1 .. 9 : \E k \in {10, 100} : n \div k = d
    BY <1>2 DEF FirstDigit
  <2>3. FirstDigit(n) \in 1 .. 9 /\ \E k \in {10, 100} : n \div k = FirstDigit(n)
    BY <2>1, <2>2
  <2>4. n < 20 => FirstDigit(n) = 1
    <3> SUFFICES ASSUME n < 20 PROVE FirstDigit(n) = 1
      OBVIOUS
    <3>1. n \div 10 = 1 /\ n \div 100 = 0
      BY <1>2
    <3> QED
      BY <2>3, <3>1
  <2> QED
    BY <1>2, <2>3, <2>4
<1> QED
  BY <1>1, <1>2

\* The CPUs that the script plugs and unplugs are no more than the host has left.
LEMMA HotBound ==
  ASSUME nproc \in Nprocs
  PROVE  /\ CPUS \in 1 .. 9 /\ MAX_CPUS \in 1 .. 9 /\ nproc \in Nat /\ Boot \in Nat
         /\ IsFiniteSet(Hot) /\ Cardinality(Hot) \in Nat
         /\ Boot + Cardinality(Hot) <= nproc
         /\ nproc < 10 => Boot + Cardinality(Hot) = nproc
<1>1. nproc \in 2 .. 999
  BY PowerAssumption
<1>2. Boot \in 1 .. 499 /\ 2 * Boot <= nproc
  BY <1>1 DEF Boot
<1>3. /\ CPUS \in 1 .. 9 /\ MAX_CPUS \in 1 .. 9
      /\ Boot < 10 => CPUS = Boot
      /\ nproc < 10 => MAX_CPUS = nproc
      /\ 10 <= nproc /\ nproc < 20 => MAX_CPUS = 1
  <2>1. Boot \in 1 .. 999 /\ nproc \in 1 .. 999
    BY <1>1, <1>2
  <2>2. CPUS \in 1 .. 9 /\ (Boot < 10 => CPUS = Boot)
    BY <2>1, Digit DEF CPUS
  <2>3. /\ MAX_CPUS \in 1 .. 9
        /\ nproc < 10 => MAX_CPUS = nproc
        /\ 10 <= nproc /\ nproc < 20 => MAX_CPUS = 1
    BY <2>1, Digit DEF MAX_CPUS
  <2> QED
    BY <2>2, <2>3
<1>4. /\ IsFiniteSet(Hot)
      /\ Cardinality(Hot) = IF CPUS > MAX_CPUS - 1 THEN 0 ELSE (MAX_CPUS - 1) - CPUS + 1
  <2>1. CPUS \in Int /\ MAX_CPUS - 1 \in Int
    BY <1>3
  <2> QED
    BY <2>1, FS_Interval DEF Hot
<1> QED
  BY <1>1, <1>2, <1>3, <1>4

-----------------------------------------------------------------------------
(* Types *)

Modes == {"idle", "enable", "disable"}
Cpus == 0 .. (Swept - 1)

\* The variables of the scripts and the CPUs of the guest keep their types; only a CPU
\* that is there can be leaving.
Types ==
  /\ nproc \in Nprocs
  /\ governor \in [Cpus -> Governors \cup States]
  /\ up \in BOOLEAN /\ plugged \subseteq Hot /\ leaving \subseteq plugged
  /\ pc \in [Shells -> Modes \cup {"governor"}] /\ then \in [Shells -> Modes]
  /\ state \in [Shells -> States \cup {"none"}]
  /\ count \in [Shells -> Int]
  /\ last \in [state : States \cup {"none"}, cpus : Modes] /\ alone \in BOOLEAN
  /\ ~up => excused = Hot

\* The script comes to a governor or to none (intel-performance-state.sh:18-27).
LEMMA ChosenType ==
  ASSUME NEW arg
  PROVE  Chosen(arg) \in States \cup {"none"}
<1>1. \E t \in States : t # governor[0]
  BY DEF States
<1>2. (CHOOSE t \in States : t # governor[0]) \in States
  BY <1>1
<1>3. "powersave" \in States /\ "performance" \in States
  BY DEF States
<1> QED
  BY <1>2, <1>3 DEF Chosen

\* A CPU of the loops that is plugged is one of the script's (vm-cpu-hotplug.sh:25-26).
CountInv ==
  \A s \in Shells :
    /\ pc[s] = "enable" => count[s] >= CPUS
    /\ pc[s] = "governor" => count[s] >= 0

\* Every step keeps the types.
THEOREM PowerTypes == Spec => [](Types /\ CountInv)
<1>1. Init => Types /\ CountInv
  BY PowerAssumption DEF Init, Types, CountInv, Modes, Cpus
<1>2. Types /\ CountInv /\ [Next]_vars => Types' /\ CountInv'
  <2> SUFFICES ASSUME Types, CountInv, [Next]_vars PROVE Types' /\ CountInv'
    OBVIOUS
  <2> USE DEF host, guest, shell, history
  <2>a. CPUS \in 1 .. 9 /\ MAX_CPUS \in 1 .. 9
    BY HotBound DEF Types
  <2>b. nproc' = nproc => CPUS' = CPUS /\ MAX_CPUS' = MAX_CPUS /\ Hot' = Hot
    BY DEF CPUS, MAX_CPUS, Boot, Hot
  <2>c. \A m \in Modes \cup {"governor"} :
          /\ First(m) \in Int
          /\ m = "enable" => First(m) = CPUS
          /\ m = "governor" => First(m) = 0
    BY <2>a DEF First, Modes
  <2>1. ASSUME NEW s \in Shells, NEW p \in Modes \cup {"governor"}, NEW t \in Modes,
               NEW g \in States \cup {"none"}, p # "governor" => t = "idle", Starts(s, p, t, g)
        PROVE  Types' /\ CountInv'
    <3>1. Types'
      <4>1. /\ pc' = [pc EXCEPT ![s] = p] /\ then' = [then EXCEPT ![s] = t]
            /\ state' = [state EXCEPT ![s] = g] /\ count' = [count EXCEPT ![s] = First(p)]
            /\ UNCHANGED <<nproc, governor, up, plugged, leaving>>
            /\ last' = [state |-> g, cpus |-> IF p = "governor" THEN t ELSE p]
            /\ alone' = Quiet /\ excused' = IF up THEN leaving ELSE Hot
        BY <2>1 DEF Starts
      <4>2. last' \in [state : States \cup {"none"}, cpus : Modes]
        BY <4>1
      <4>3. alone' \in BOOLEAN
        BY <4>1 DEF Quiet
      <4> QED
        BY <2>b, <2>c, <4>1, <4>2, <4>3 DEF Types
    <3>2. CountInv'
      BY <2>1, <2>b, <2>c DEF Starts, Types, CountInv
    <3> QED
      BY <3>1, <3>2
  <2>2. ASSUME NEW s \in Shells, CpufreqSet(s) PROVE Types' /\ CountInv'
    <3>1. Types'
      <4>1. count[s] \in Int /\ count[s] \in Cpus
        BY <2>2, PowerAssumption DEF CpufreqSet, CountInv, Types, Cpus
      <4>2. governor' \in [Cpus -> Governors \cup States]
        BY <2>2, <4>1 DEF CpufreqSet, Types
      <4>3. count' \in [Shells -> Int]
        BY <2>2, <4>1 DEF CpufreqSet, Goes, Types
      <4> QED
        BY <2>2, <2>b, <4>2, <4>3 DEF CpufreqSet, Goes, Types
    <3>2. CountInv'
      BY <2>2, <2>b DEF CpufreqSet, Goes, Types, CountInv
    <3> QED
      BY <3>1, <3>2
  <2>3. ASSUME NEW s \in Shells, EnableCpu(s) PROVE Types' /\ CountInv'
    <3>1. count[s] \in Hot
      BY <2>3, <2>a DEF EnableCpu, CountInv, Types, Hot
    <3>2. Types'
      BY <2>3, <2>b, <3>1 DEF EnableCpu, Goes, Types
    <3>3. CountInv'
      BY <2>3, <2>a, <2>b DEF EnableCpu, Goes, Types, CountInv
    <3> QED
      BY <3>2, <3>3
  <2>4. ASSUME NEW s \in Shells, DisableCpu(s) PROVE Types' /\ CountInv'
    <3>1. Types'
      BY <2>4, <2>b DEF DisableCpu, Goes, Types
    <3>2. CountInv'
      BY <2>4, <2>b DEF DisableCpu, Goes, Types, CountInv
    <3> QED
      BY <3>1, <3>2
  <2>5. ASSUME NEW s \in Shells, NextHook(s) PROVE Types' /\ CountInv'
    <3> DEFINE p == IF pc[s] = "governor" THEN then[s] ELSE "idle"
    <3>1. p \in Modes
      BY DEF Types, Modes
    <3>2. pc' = [pc EXCEPT ![s] = p] /\ count' = [count EXCEPT ![s] = First(p)]
      BY <2>5 DEF NextHook
    <3>3. then' = [then EXCEPT ![s] = "idle"] /\ state' = [state EXCEPT ![s] = "none"]
            /\ UNCHANGED <<nproc, governor, up, plugged, leaving, last, alone, excused>>
      BY <2>5 DEF NextHook
    <3> HIDE DEF p
    <3>4. Types'
      BY <2>b, <2>c, <3>1, <3>2, <3>3 DEF Types, Modes
    <3>5. CountInv'
      BY <2>b, <2>c, <3>1, <3>2, <3>3 DEF Types, CountInv, Modes
    <3> QED
      BY <3>4, <3>5
  <2>6. ASSUME NEW c, GivesUp(c) PROVE Types' /\ CountInv'
    BY <2>6, <2>b DEF GivesUp, Types, CountInv
  <2>7. ASSUME QemuEnds \/ QemuStarts PROVE Types' /\ CountInv'
    BY <2>7, <2>b DEF QemuEnds, QemuStarts, Types, CountInv
  <2>8. CASE UNCHANGED vars
    BY <2>8, <2>b DEF vars, Types, CountInv
  <2>9. ASSUME NEW s \in Shells,
               \/ \E b \in {"true", "false"} : PowerEvent(s, b)
               \/ \E a \in Calls : SetsGovernor(s, a)
               \/ \E m \in {"enable", "disable"} : Hotplugs(s, m)
        PROVE  Types' /\ CountInv'
    BY <2>1, <2>9, ChosenType DEF PowerEvent, SetsGovernor, Hotplugs, Modes
  <2> QED
    BY <2>2, <2>3, <2>4, <2>5, <2>6, <2>7, <2>8, <2>9 DEF Next
<1> QED
  BY <1>1, <1>2, PTL DEF Spec

-----------------------------------------------------------------------------
(* The last script *)

\* While nothing runs into the last script that was started, it is the one at work.
OneInv ==
  /\ \A s, t \in Shells : pc[s] # "idle" /\ pc[t] # "idle" => s = t
  /\ \A s \in Shells :
       /\ pc[s] = "governor" => state[s] = last.state /\ then[s] = last.cpus
       /\ pc[s] \in {"enable", "disable"} => last.cpus = pc[s]

\* The CPUs of the host it has come by have its governor, in the end all.
SweepInv ==
  last.state \in States =>
    /\ \A s \in Shells : pc[s] = "governor" =>
         \A c \in Cpus : c < count[s] => governor[c] = last.state
    /\ (\A s \in Shells : pc[s] # "governor") => \A c \in Cpus : governor[c] = last.state

\* The CPUs of the guest it has come by are plugged or were leaving, or are leaving; a CPU
\* that it is to plug can leave only if it was asked to before.
HotplugInv ==
  /\ last.cpus = "enable" => leaving \subseteq excused
  /\ \A s \in Shells :
       /\ pc[s] = "enable" => \A c \in Hot : c < count[s] => c \in plugged \cup excused
       /\ pc[s] = "disable" => \A c \in plugged : c > count[s] => c \in leaving
  /\ Quiet /\ last.cpus = "enable" => Hot \subseteq plugged \cup excused
  /\ Quiet /\ last.cpus = "disable" => plugged \subseteq leaving

FollowInv == alone => OneInv /\ SweepInv /\ HotplugInv

\* A script that is started finds nobody at work, or it is not alone.
LEMMA FollowStarts ==
  ASSUME Types, FollowInv, NEW s \in Shells, NEW p \in {"governor", "enable", "disable"},
         NEW t \in Modes, NEW g \in States \cup {"none"}, p # "governor" => g = "none",
         Starts(s, p, t, g)
  PROVE  FollowInv'
<1> SUFFICES ASSUME Quiet PROVE OneInv' /\ SweepInv' /\ HotplugInv'
  BY DEF Starts, FollowInv
<1>a. /\ pc \in [Shells -> Modes \cup {"governor"}] /\ then \in [Shells -> Modes]
      /\ state \in [Shells -> States \cup {"none"}] /\ count \in [Shells -> Int]
      /\ plugged \subseteq Hot /\ leaving \subseteq plugged
  BY DEF Types
<1>b. CPUS \in 1 .. 9 /\ MAX_CPUS \in 1 .. 9
  BY HotBound DEF Types
<1>1. /\ pc' = [pc EXCEPT ![s] = p] /\ then' = [then EXCEPT ![s] = t]
      /\ state' = [state EXCEPT ![s] = g] /\ count' = [count EXCEPT ![s] = First(p)]
      /\ UNCHANGED <<nproc, governor, up, plugged, leaving>>
      /\ last'.state = g /\ last'.cpus = IF p = "governor" THEN t ELSE p
      /\ excused' = IF up THEN leaving ELSE Hot
  BY DEF Starts, host, guest
<1>2. /\ pc'[s] = p /\ then'[s] = t /\ state'[s] = g /\ count'[s] = First(p)
      /\ \A o \in Shells : o # s => pc'[o] = "idle"
      /\ Hot' = Hot /\ p # "idle"
  BY <1>a, <1>1 DEF Quiet, Hot, CPUS, MAX_CPUS, Boot
<1>3. OneInv'
  BY <1>1, <1>2 DEF OneInv
<1>4. SweepInv'
  <2>1. p = "governor" => First(p) = 0
    BY DEF First
  <2> QED
    BY <1>1, <1>2, <2>1 DEF SweepInv, States, Cpus
<1>5. HotplugInv'
  <2>1. p = "enable" => \A c \in Hot : ~(c < First(p))
    BY <1>b DEF First, Hot
  <2>2. p = "disable" => \A c \in Hot : ~(c > First(p))
    BY <1>b DEF First, Hot
  <2>3. ~Quiet'
    BY <1>2 DEF Quiet
  <2>4. leaving' \subseteq excused'
    BY <1>a, <1>1
  <2> QED
    BY <1>a, <1>1, <1>2, <2>1, <2>2, <2>3, <2>4 DEF HotplugInv
<1> QED
  BY <1>3, <1>4, <1>5

\* A round of a script goes by one CPU.
LEMMA FollowRounds ==
  ASSUME Types, CountInv, FollowInv, NEW s \in Shells,
         CpufreqSet(s) \/ EnableCpu(s) \/ DisableCpu(s)
  PROVE  FollowInv'
<1> SUFFICES ASSUME alone, OneInv, SweepInv, HotplugInv
             PROVE  OneInv' /\ SweepInv' /\ HotplugInv'
  BY DEF CpufreqSet, EnableCpu, DisableCpu, Goes, history, FollowInv
<1>a. /\ pc \in [Shells -> Modes \cup {"governor"}] /\ count \in [Shells -> Int]
      /\ governor \in [Cpus -> Governors \cup States]
      /\ plugged \subseteq Hot /\ leaving \subseteq plugged
  BY DEF Types
<1>b. CPUS \in 1 .. 9 /\ MAX_CPUS \in 1 .. 9
  BY HotBound DEF Types
<1>1. UNCHANGED <<nproc, pc, then, state, last, alone, excused, up>>
  BY DEF CpufreqSet, EnableCpu, DisableCpu, Goes, history, guest
<1>2. Hot' = Hot /\ Quiet' = Quiet /\ Hot \subseteq Int /\ Cpus \subseteq Int
  BY <1>1, <1>b DEF Hot, Quiet, CPUS, MAX_CPUS, Boot, Cpus
<1>3. pc[s] # "idle" /\ ~Quiet /\ \A o \in Shells : o # s => pc[o] = "idle"
  BY DEF CpufreqSet, EnableCpu, DisableCpu, Quiet, OneInv
<1>4. OneInv'
  BY <1>1 DEF OneInv
<1>5. CASE CpufreqSet(s)
  <2>1. /\ pc[s] = "governor" /\ state[s] = last.state /\ UNCHANGED <<plugged, leaving>>
        /\ governor' = IF state[s] \in States THEN [governor EXCEPT ![count[s]] = state[s]]
                       ELSE governor
        /\ count' = [count EXCEPT ![s] = count[s] + 1]
    BY <1>5 DEF CpufreqSet, Goes, guest, OneInv
  <2>2. SweepInv'
    <3> SUFFICES ASSUME last.state \in States, NEW c \in Cpus, c < count[s] + 1
                 PROVE  governor'[c] = last.state
      BY <1>a, <1>1, <1>3, <2>1 DEF SweepInv
    <3>1. governor' = [governor EXCEPT ![count[s]] = last.state]
      BY <2>1
    <3>2. c = count[s] \/ c < count[s]
      BY <1>a, <1>2
    <3> QED
      BY <1>a, <2>1, <3>1, <3>2 DEF SweepInv
  <2>3. HotplugInv'
    BY <1>1, <1>2, <1>3, <2>1 DEF HotplugInv
  <2> QED
    BY <1>4, <2>2, <2>3
<1>6. CASE EnableCpu(s)
  <2>1. /\ pc[s] = "enable" /\ last.cpus = "enable" /\ UNCHANGED <<governor, leaving>>
        /\ plugged' = IF up THEN plugged \cup {count[s]} ELSE plugged
        /\ count' = [count EXCEPT ![s] = count[s] + 1]
    BY <1>6 DEF EnableCpu, Goes, OneInv
  <2>2. SweepInv'
    BY <1>1, <1>3, <2>1 DEF SweepInv
  <2>3. \A c \in Hot : c < count[s] + 1 => c \in plugged' \cup excused
    <3> SUFFICES ASSUME NEW c \in Hot, c < count[s] + 1 PROVE c \in plugged' \cup excused
      OBVIOUS
    <3>1. c = count[s] \/ c < count[s]
      BY <1>a, <1>2
    <3>2. ~up => excused = Hot
      BY DEF Types
    <3> QED
      BY <2>1, <3>1, <3>2 DEF HotplugInv
  <2>4. HotplugInv'
    BY <1>a, <1>1, <1>2, <1>3, <2>1, <2>3 DEF HotplugInv
  <2> QED
    BY <1>4, <2>2, <2>4
<1>7. CASE DisableCpu(s)
  <2>1. /\ pc[s] = "disable" /\ last.cpus = "disable" /\ UNCHANGED <<governor, plugged>>
        /\ leaving' = leaving \cup (plugged \cap {count[s]})
        /\ count' = [count EXCEPT ![s] = count[s] - 1]
    BY <1>7 DEF DisableCpu, Goes, OneInv
  <2>2. SweepInv'
    BY <1>1, <1>3, <2>1 DEF SweepInv
  <2>3. \A c \in plugged : c > count[s] - 1 => c \in leaving'
    <3> SUFFICES ASSUME NEW c \in plugged, c > count[s] - 1 PROVE c \in leaving'
      OBVIOUS
    <3>1. c = count[s] \/ c > count[s]
      BY <1>a, <1>2
    <3> QED
      BY <2>1, <3>1 DEF HotplugInv
  <2>4. HotplugInv'
    BY <1>a, <1>1, <1>2, <1>3, <2>1, <2>3 DEF HotplugInv
  <2> QED
    BY <1>4, <2>2, <2>4
<1> QED
  BY <1>5, <1>6, <1>7

\* The end of a script: the next hook begins, or what it was about is done.
LEMMA FollowNext ==
  ASSUME Types, CountInv, FollowInv, NEW s \in Shells, NextHook(s)
  PROVE  FollowInv'
<1> SUFFICES ASSUME alone, OneInv, SweepInv, HotplugInv
             PROVE  OneInv' /\ SweepInv' /\ HotplugInv'
  BY DEF NextHook, history, FollowInv
<1>a. /\ pc \in [Shells -> Modes \cup {"governor"}] /\ count \in [Shells -> Int]
      /\ then \in [Shells -> Modes] /\ plugged \subseteq Hot /\ leaving \subseteq plugged
      /\ last.cpus \in Modes
  BY DEF Types
<1>b. CPUS \in 1 .. 9 /\ MAX_CPUS \in 1 .. 9
  BY HotBound DEF Types
<1> DEFINE p == IF pc[s] = "governor" THEN then[s] ELSE "idle"
<1>1. /\ pc' = [pc EXCEPT ![s] = p] /\ count' = [count EXCEPT ![s] = First(p)]
      /\ UNCHANGED <<nproc, governor, plugged, leaving, last, alone, excused, up>>
  BY DEF NextHook, host, guest, history
<1>2. Hot' = Hot
  BY <1>1 DEF Hot, CPUS, MAX_CPUS, Boot
<1>3. pc[s] # "idle" /\ \A o \in Shells : o # s => pc[o] = "idle"
  BY DEF NextHook, LoopEnds, OneInv
<1>4. p \in Modes /\ (p # "idle" => p = last.cpus)
  BY <1>a DEF OneInv, Modes
<1>5. \A c \in Cpus : last.state \in States => governor[c] = last.state
  <2>1. CASE pc[s] = "governor"
    <3>1. count[s] >= Swept /\ count[s] \in Int
      BY <1>a, <2>1 DEF NextHook, LoopEnds
    <3>2. \A c \in Cpus : c < count[s]
      BY <3>1, PowerAssumption DEF Cpus
    <3> QED
      BY <2>1, <3>2 DEF SweepInv
  <2>2. CASE pc[s] # "governor"
    BY <1>3, <2>2 DEF SweepInv
  <2> QED
    BY <2>1, <2>2
<1>6. pc[s] = "enable" => Hot \subseteq plugged \cup excused
  <2> SUFFICES ASSUME pc[s] = "enable", NEW c \in Hot PROVE c \in plugged \cup excused
    OBVIOUS
  <2>1. c < count[s]
    BY <1>a, <1>b DEF NextHook, LoopEnds, Hot
  <2> QED
    BY <2>1 DEF HotplugInv
<1>7. pc[s] = "disable" => plugged \subseteq leaving
  <2> SUFFICES ASSUME pc[s] = "disable", NEW c \in plugged PROVE c \in leaving
    OBVIOUS
  <2>1. c > count[s]
    <3>1. c \in Hot
      BY <1>a
    <3> QED
      BY <1>a, <1>b, <3>1 DEF NextHook, LoopEnds, Hot
  <2> QED
    BY <2>1 DEF HotplugInv
<1>8. pc[s] = "governor" /\ p = "idle" => last.cpus = "idle"
  BY DEF OneInv
<1>9. pc[s] \in {"governor", "enable", "disable"} /\ (pc[s] # "governor" => last.cpus = pc[s])
  BY <1>3 DEF NextHook, LoopEnds, OneInv
<1>10. /\ p = "enable" => \A c \in Hot : ~(c < First(p))
       /\ p = "disable" => \A c \in Hot : ~(c > First(p))
  BY <1>b DEF First, Hot
<1> HIDE DEF p
<1>11. OneInv'
  BY <1>a, <1>1, <1>3, <1>4 DEF OneInv, Modes
<1>12. SweepInv'
  BY <1>a, <1>1, <1>4, <1>5, <1>3 DEF SweepInv, Modes
<1>13. HotplugInv'
  <2>1. last.cpus = "enable" => leaving \subseteq excused
    BY DEF HotplugInv
  <2>2. \A o \in Shells : pc'[o] # "idle" => o = s /\ pc'[o] = p /\ count'[o] = First(p)
    BY <1>a, <1>1, <1>3
  <2>3. Quiet' => p = "idle"
    BY <1>a, <1>1 DEF Quiet
  <2>4. p = "idle" /\ last.cpus = "enable" => Hot \subseteq plugged \cup excused
    BY <1>6, <1>8, <1>9
  <2>5. p = "idle" /\ last.cpus = "disable" => plugged \subseteq leaving
    BY <1>7, <1>8, <1>9
  <2> QED
    BY <1>a, <1>1, <1>2, <1>10, <2>1, <2>2, <2>3, <2>4, <2>5 DEF HotplugInv
<1> QED
  BY <1>11, <1>12, <1>13

\* The guest and its QEMU: a CPU that leaves was asked to, and one of a QEMU that ended is
\* excused.
LEMMA FollowGuest ==
  ASSUME Types, FollowInv, (\E c \in Hot : GivesUp(c)) \/ QemuEnds \/ QemuStarts
  PROVE  FollowInv'
<1> SUFFICES ASSUME alone, OneInv, SweepInv, HotplugInv
             PROVE  OneInv' /\ SweepInv' /\ HotplugInv'
  BY DEF GivesUp, QemuEnds, QemuStarts, history, FollowInv
<1>a. plugged \subseteq Hot /\ leaving \subseteq plugged
  BY DEF Types
<1>1. UNCHANGED <<nproc, governor, pc, then, state, count, last>>
  BY DEF GivesUp, QemuEnds, QemuStarts, host, shell, history
<1>2. Hot' = Hot /\ Quiet' = Quiet
  BY <1>1 DEF Hot, Quiet, CPUS, MAX_CPUS, Boot
<1>3. OneInv' /\ SweepInv'
  BY <1>1 DEF OneInv, SweepInv
<1>4. ASSUME NEW c \in Hot, GivesUp(c) PROVE HotplugInv'
  <2>1. c \in leaving /\ plugged' = plugged \ {c} /\ leaving' = leaving \ {c}
          /\ excused' = excused
    BY <1>4 DEF GivesUp
  <2>2. \A s \in Shells : pc[s] = "enable" => last.cpus = "enable"
    BY DEF OneInv
  <2> QED
    BY <1>1, <1>2, <2>1, <2>2 DEF HotplugInv
<1>5. CASE QemuEnds
  <2>1. plugged' = {} /\ leaving' = {} /\ excused' = Hot
    BY <1>5 DEF QemuEnds
  <2> QED
    BY <1>1, <1>2, <1>3, <2>1 DEF HotplugInv
<1>6. CASE QemuStarts
  <2>1. UNCHANGED <<plugged, leaving, excused>>
    BY <1>6 DEF QemuStarts
  <2> QED
    BY <1>1, <1>2, <1>3, <2>1 DEF HotplugInv
<1> QED
  BY <1>3, <1>4, <1>5, <1>6

\* Every step keeps it.
LEMMA FollowHolds == Spec => []FollowInv
<1>1. Init => FollowInv
  BY DEF Init, FollowInv, OneInv, SweepInv, HotplugInv, States
<1>2. Types /\ CountInv /\ FollowInv /\ [Next]_vars => FollowInv'
  <2> SUFFICES ASSUME Types, CountInv, FollowInv, [Next]_vars PROVE FollowInv'
    OBVIOUS
  <2>1. ASSUME NEW s \in Shells,
               \/ \E b \in {"true", "false"} : PowerEvent(s, b)
               \/ \E a \in Calls : SetsGovernor(s, a)
               \/ \E m \in {"enable", "disable"} : Hotplugs(s, m)
        PROVE  FollowInv'
    BY <2>1, FollowStarts, ChosenType DEF PowerEvent, SetsGovernor, Hotplugs, Modes
  <2>2. CASE UNCHANGED vars
    BY <2>2 DEF vars, host, guest, shell, history, FollowInv, OneInv, SweepInv, HotplugInv,
                Quiet, Hot, CPUS, MAX_CPUS, Boot
  <2> QED
    BY <2>1, <2>2, FollowRounds, FollowNext, FollowGuest DEF Next
<1> QED
  BY <1>1, <1>2, PowerTypes, PTL DEF Spec

\* The guest has the CPUs that the last script that ran alone is about, but for those
\* QEMU refused it (vm-cpu-hotplug.sh:28, 34-40).
THEOREM GuestFollows == Spec => []CpusFollow
<1>1. Types /\ FollowInv => CpusFollow
  BY DEF Types, FollowInv, HotplugInv, CpusFollow
<1> QED
  BY <1>1, PowerTypes, FollowHolds, PTL

\* All CPUs of the host have the governor it chose (intel-performance-state.sh:12-16).
THEOREM HostFollows == Spec => []GovernorFollows
<1>1. Types /\ FollowInv => GovernorFollows
  BY DEF Types, FollowInv, SweepInv, GovernorFollows, Quiet
<1> QED
  BY <1>1, PowerTypes, FollowHolds, PTL

\* The digits that the script reads never give the guest more CPUs than the host has, and
\* as many on a host with fewer than ten (vm-cpu-hotplug.sh:9-11).
THEOREM AsManyCpus == Spec => []AllCpus
<1>1. Types /\ FollowInv => AllCpus
  <2> SUFFICES ASSUME Types, FollowInv PROVE AllCpus
    OBVIOUS
  <2>1. /\ nproc \in Nat /\ Boot \in Nat /\ IsFiniteSet(Hot) /\ Cardinality(Hot) \in Nat
        /\ Boot + Cardinality(Hot) <= nproc
        /\ nproc < 10 => Boot + Cardinality(Hot) = nproc
    BY HotBound DEF Types
  <2>2. IsFiniteSet(plugged) /\ Cardinality(plugged) <= Cardinality(Hot)
    BY <2>1, FS_Subset DEF Types
  <2>3. Cardinality(plugged) \in Nat
    BY <2>2, FS_CardinalityType
  <2>4. Quiet /\ alone /\ last.cpus = "enable" /\ excused = {} => plugged = Hot
    BY DEF Types, FollowInv, HotplugInv
  <2> QED
    BY <2>1, <2>2, <2>3, <2>4 DEF AllCpus
<1> QED
  BY <1>1, PowerTypes, FollowHolds, PTL

-----------------------------------------------------------------------------
(* Every script comes to its end *)

\* A bound on the steps that a script has still to take, from where its loop is; a hook
\* has at most ten steps to follow its first script.
AtLeastZero(n) == IF n > 0 THEN n ELSE 0
StepsLeft(s) ==
  CASE pc[s] = "governor" -> 11 + AtLeastZero(Swept - count[s])
    [] pc[s] = "enable" -> 1 + AtLeastZero(MAX_CPUS - count[s])
    [] pc[s] = "disable" -> 1 + AtLeastZero(count[s] - (CPUS - 1))
    [] pc[s] = "idle" -> 0

Round(s) == CpufreqSet(s) \/ EnableCpu(s) \/ DisableCpu(s) \/ NextHook(s)

\* A script's own steps use the bound up, and nobody else's change it while it is at work.
ComesToItsEnd(s) ==
  /\ StepsLeft(s) \in Nat
  /\ Round(s) => StepsLeft(s)' < StepsLeft(s)
  /\ pc[s] # "idle" /\ ~Round(s) => StepsLeft(s)' = StepsLeft(s)

\* The bound goes down with each round of a loop, and from one script to the next.
LEMMA RoundsGoDown ==
  ASSUME Types, CountInv, NEW s \in Shells, Round(s)
  PROVE  StepsLeft(s)' < StepsLeft(s)
<1>a. CPUS \in 1 .. 9 /\ MAX_CPUS \in 1 .. 9 /\ Swept \in Nat
  BY HotBound, PowerAssumption DEF Types
<1>b. CPUS' = CPUS /\ MAX_CPUS' = MAX_CPUS
  BY DEF Round, CpufreqSet, EnableCpu, DisableCpu, NextHook, Goes, host, CPUS, MAX_CPUS, Boot
<1>c. count[s] \in Int
  BY DEF Types
<1> USE DEF StepsLeft, AtLeastZero
<1>1. CASE CpufreqSet(s)
  <2>1. pc[s] = "governor" /\ pc'[s] = "governor" /\ count[s] < Swept /\ count'[s] = count[s] + 1
    BY <1>1 DEF CpufreqSet, Goes, Types
  <2> QED
    BY <1>a, <1>c, <2>1
<1>2. CASE EnableCpu(s)
  <2>1. pc[s] = "enable" /\ pc'[s] = "enable" /\ count[s] < MAX_CPUS /\ count'[s] = count[s] + 1
    BY <1>2 DEF EnableCpu, Goes, Types
  <2> QED
    BY <1>a, <1>b, <1>c, <2>1
<1>3. CASE DisableCpu(s)
  <2>1. pc[s] = "disable" /\ pc'[s] = "disable" /\ count[s] > CPUS - 1 /\ count'[s] = count[s] - 1
    BY <1>3 DEF DisableCpu, Goes, Types
  <2> QED
    BY <1>a, <1>b, <1>c, <2>1
<1>4. CASE NextHook(s)
  <2> DEFINE p == IF pc[s] = "governor" THEN then[s] ELSE "idle"
  <2>1. p \in Modes /\ pc[s] \in {"governor", "enable", "disable"} /\ (pc[s] # "governor" => p = "idle")
    BY <1>4 DEF NextHook, LoopEnds, Types, Modes
  <2>2. pc'[s] = p /\ count'[s] = First(p)
    BY <1>4 DEF NextHook, Types
  <2> HIDE DEF p
  <2>3. pc[s] = "governor" => StepsLeft(s) >= 11
    BY <1>a, <1>c
  <2>4. pc[s] # "governor" => StepsLeft(s) >= 1
    BY <1>a, <1>c, <2>1
  <2>5. p = "idle" => StepsLeft(s)' = 0
    BY <2>2
  <2>6. p # "idle" => StepsLeft(s)' <= 10
    <3>1. p = "enable" => First(p) = CPUS
      BY DEF First
    <3>2. p = "disable" => First(p) = MAX_CPUS - 1
      BY DEF First
    <3> QED
      BY <1>a, <1>b, <2>1, <2>2, <3>1, <3>2 DEF Modes
  <2>7. StepsLeft(s) \in Nat /\ (p # "idle" => StepsLeft(s)' \in Nat)
    <3>1. p = "enable" => First(p) = CPUS
      BY DEF First
    <3>2. p = "disable" => First(p) = MAX_CPUS - 1
      BY DEF First
    <3> QED
      BY <1>a, <1>b, <1>c, <2>1, <2>2, <3>1, <3>2 DEF Modes
  <2> HIDE DEF StepsLeft
  <2> QED
    BY <2>1, <2>3, <2>4, <2>5, <2>6, <2>7
<1> QED
  BY <1>1, <1>2, <1>3, <1>4 DEF Round

\* What moves another shell, the guest or its QEMU does not move a script.
LEMMA OthersDoNotMove ==
  ASSUME Types, NEW s \in Shells, pc[s] # "idle", ~Round(s), [Next]_vars
  PROVE  UNCHANGED <<pc[s], count[s], nproc>>
<1> USE DEF host, guest, shell, history
<1>1. ASSUME NEW t \in Shells, NEW p, NEW h, NEW g, Starts(t, p, h, g)
      PROVE  UNCHANGED <<pc[s], count[s], nproc>>
  <2>1. t # s
    BY <1>1 DEF Starts
  <2> QED
    BY <1>1, <2>1 DEF Starts, Types
<1>2. ASSUME NEW t \in Shells, Round(t)
      PROVE  UNCHANGED <<pc[s], count[s], nproc>>
  <2>1. t # s
    BY <1>2
  <2>2. /\ pc' = pc \/ \E p : pc' = [pc EXCEPT ![t] = p]
        /\ \E c : count' = [count EXCEPT ![t] = c]
        /\ nproc' = nproc
    BY <1>2 DEF Round, CpufreqSet, EnableCpu, DisableCpu, NextHook, Goes
  <2> QED
    BY <2>1, <2>2 DEF Types
<1>3. CASE (\E c \in Hot : GivesUp(c)) \/ QemuEnds \/ QemuStarts \/ UNCHANGED vars
  BY <1>3 DEF GivesUp, QemuEnds, QemuStarts, vars
<1>4. ASSUME NEW t \in Shells,
             \/ \E b \in {"true", "false"} : PowerEvent(t, b)
             \/ \E a \in Calls : SetsGovernor(t, a)
             \/ \E m \in {"enable", "disable"} : Hotplugs(t, m)
      PROVE  UNCHANGED <<pc[s], count[s], nproc>>
  BY <1>1, <1>4 DEF PowerEvent, SetsGovernor, Hotplugs
<1> QED
  BY <1>2, <1>3, <1>4 DEF Next, Round

\* The loops of the scripts are bounded, whatever other scripts, the guest and its QEMU do
\* in between (intel-performance-state.sh:12-16, vm-cpu-hotplug.sh:24-42).
THEOREM ScriptsEnd == Spec => [][\A s \in Shells : ComesToItsEnd(s)]_vars
<1>1. Types /\ CountInv /\ [Next]_vars => [\A s \in Shells : ComesToItsEnd(s)]_vars
  <2> SUFFICES ASSUME Types, CountInv, [Next]_vars, NEW s \in Shells PROVE ComesToItsEnd(s)
    OBVIOUS
  <2>1. StepsLeft(s) \in Nat
    <3>1. /\ CPUS \in 1 .. 9 /\ MAX_CPUS \in 1 .. 9 /\ Swept \in Nat /\ count[s] \in Int
          /\ pc[s] \in {"idle", "enable", "disable", "governor"}
      BY HotBound, PowerAssumption DEF Types, Modes
    <3> QED
      BY <3>1 DEF StepsLeft, AtLeastZero
  <2>2. Round(s) => StepsLeft(s)' < StepsLeft(s)
    BY RoundsGoDown
  <2>3. ASSUME pc[s] # "idle", ~Round(s) PROVE StepsLeft(s)' = StepsLeft(s)
    <3>1. UNCHANGED <<pc[s], count[s], nproc>>
      BY <2>3, OthersDoNotMove
    <3> QED
      BY <3>1 DEF StepsLeft, CPUS, MAX_CPUS, Boot
  <2> QED
    BY <2>1, <2>2, <2>3 DEF ComesToItsEnd
<1> QED
  BY <1>1, PowerTypes, PTL DEF Spec

=============================================================================
