--------------------------- MODULE HostNet_proofs ---------------------------
(***************************************************************************)
(* Proofs that the rules follow starts and stops, and that the bridges     *)
(* settle, for any number of shells, of scripts run and of rules in each   *)
(* list.                                                                   *)
(***************************************************************************)
EXTENDS HostNet, TLAPS

-----------------------------------------------------------------------------
(* The lists and the commands *)

\* A list has no rule twice, and two lists have only the shared one in common, which two
\* of them have (iptables-lxc.sh:8-13, iptables-wlan0_ap.sh:4-26).
LEMMA ListRules ==
  ASSUME NEW p \in Parts
  PROVE  /\ Length[p] \in Nat /\ Length[p] # 0
         /\ \A i \in 1 .. Length[p] : Lists[p][i] \in RulesOf(p)
         /\ \A i, j \in 1 .. Length[p] : Lists[p][i] = Lists[p][j] => i = j
         /\ \A q \in Parts : \A r \in RulesOf(p) \cap RulesOf(q) : p = q \/ r = Shared
         /\ Shared \in RulesOf(p) <=> p \in {"lxc", "ap"}
         /\ RulesOf(p) \subseteq Rules
<1>1. Length[p] \in Nat /\ Length[p] # 0
  BY NetAssumption DEF Parts
<1>2. DOMAIN Place = {"lxc", "ap"}
  BY NetAssumption
<1>3. \A q \in Parts : \A i \in 1 .. Length[q] :
        Lists[q][i] = IF q \in {"lxc", "ap"} /\ Place[q] = i THEN Shared ELSE <<q, i>>
  BY <1>2 DEF Lists
<1>4. \A i \in 1 .. Length[p] : Lists[p][i] \in RulesOf(p)
  BY DEF RulesOf
<1>5. /\ \A q \in Parts, i \in Nat : <<q, i>> # Shared
      /\ \A q1, q2 \in Parts, i, j \in Nat : <<q1, i>> = <<q2, j>> => q1 = q2 /\ i = j
  BY DEF Parts, Shared
<1>6. \A i \in 1 .. Length[p] : i \in Nat
  BY <1>1
<1>7. ASSUME NEW i \in 1 .. Length[p], NEW j \in 1 .. Length[p], Lists[p][i] = Lists[p][j]
      PROVE  i = j
  <2>1. i \in Nat /\ j \in Nat
    BY <1>6
  <2>2. /\ Lists[p][i] = IF p \in {"lxc", "ap"} /\ Place[p] = i THEN Shared ELSE <<p, i>>
        /\ Lists[p][j] = IF p \in {"lxc", "ap"} /\ Place[p] = j THEN Shared ELSE <<p, j>>
    BY <1>3
  <2>3. CASE p \in {"lxc", "ap"} /\ Place[p] = i
    BY <1>5, <1>7, <2>1, <2>2, <2>3
  <2>4. CASE p \in {"lxc", "ap"} /\ Place[p] = j
    BY <1>5, <1>7, <2>1, <2>2, <2>4
  <2>5. CASE ~(p \in {"lxc", "ap"} /\ Place[p] = i) /\ ~(p \in {"lxc", "ap"} /\ Place[p] = j)
    <3>1. <<p, i>> = <<p, j>>
      BY <1>7, <2>2, <2>5
    <3> QED
      BY <1>5, <2>1, <3>1
  <2> QED
    BY <2>3, <2>4, <2>5
<1>8. ASSUME NEW q \in Parts, NEW r \in RulesOf(p) \cap RulesOf(q)
      PROVE  p = q \/ r = Shared
  <2>1. PICK i \in 1 .. Length[p] : r = Lists[p][i]
    BY DEF RulesOf
  <2>2. PICK j \in 1 .. Length[q] : r = Lists[q][j]
    BY DEF RulesOf
  <2>3. j \in Nat
    BY NetAssumption DEF Parts
  <2> QED
    <3>1. ASSUME r # Shared
          PROVE  <<p, i>> = <<q, j>>
      <4>1. r = <<p, i>>
        BY <1>3, <2>1, <3>1
      <4>2. r = <<q, j>>
        BY <1>3, <2>2, <3>1
      <4> QED
        BY <4>1, <4>2
    <3> QED
      BY <1>5, <1>6, <2>3, <3>1
<1>9. ASSUME Shared \in RulesOf(p)
      PROVE  p \in {"lxc", "ap"}
  <2>1. PICK i \in 1 .. Length[p] : Shared = Lists[p][i]
    BY <1>9 DEF RulesOf
  <2>2. <<p, i>> # Shared
    BY <1>5, <1>6
  <2> QED
    BY <1>3, <2>1, <2>2
<1>10. ASSUME p \in {"lxc", "ap"}
       PROVE  Shared \in RulesOf(p)
  <2>1. Place[p] \in 1 .. Length[p]
    BY <1>10, NetAssumption
  <2> QED
    BY <1>3, <1>4, <1>10, <2>1
<1>11. RulesOf(p) \subseteq Rules
  BY DEF Rules
<1> QED
  BY <1>1, <1>4, <1>7, <1>8, <1>9, <1>10, <1>11

\* The jobs of the scripts.
Jobs == [op : {"start", "stop"}, part : Parts \cup {"bridge"}]

\* How many commands a job has.
Size(job) == IF job.part = "bridge" THEN 8 ELSE Length[job.part]

\* The commands of start() and stop() (iptables-br.sh:29-47, rc.qemubridge:11-35).
LEMMA JobCommands ==
  ASSUME NEW job \in Jobs
  PROVE  /\ Size(job) \in Nat /\ Size(job) # 0 /\ Len(Commands(job)) = Size(job)
         /\ job.part \in Parts =>
              \A i \in 1 .. Size(job) :
                Commands(job)[i] = Do(IF job.op = "start" THEN "-A" ELSE "-D", Lists[job.part][i])
<1>1. CASE job.part = "bridge"
  <2>1. Len(BridgesUp) = 8 /\ Len(BridgesDown) = 8
    BY DEF BridgesUp, BridgesDown
  <2> QED
    BY <1>1, <2>1 DEF Commands, Size, Parts
<1>2. CASE job.part # "bridge"
  <2>1. job.part \in Parts
    BY <1>2 DEF Jobs
  <2>2. Length[job.part] \in Nat /\ Length[job.part] # 0
    BY <2>1, ListRules
  <2>3. Commands(job) = [i \in 1 .. Length[job.part] |->
          Do(IF job.op = "start" THEN "-A" ELSE "-D", Lists[job.part][i])]
    BY <1>2 DEF Commands
  <2> QED
    BY <1>2, <2>2, <2>3 DEF Size
<1> QED
  BY <1>1, <1>2

\* A script has at least one job (the case at the end of each script, rc.local-slackvirt:30-64).
LEMMA ScriptJobs ==
  ASSUME NEW script \in ScriptsRun
  PROVE  script \in Seq(Jobs) /\ script # <<>>
<1>1. \A p \in Parts \cup {"bridge"} : Start(p) \in Jobs /\ Stop(p) \in Jobs
  BY DEF Start, Stop, Jobs
<1>2. {"br", "lxc", "ap", "nat"} \subseteq Parts
  BY DEF Parts
<1>3. /\ \A p \in Parts \cup {"bridge"} : /\ <<Start(p)>> \in Seq(Jobs) \ {<<>>}
                                          /\ <<Stop(p)>> \in Seq(Jobs) \ {<<>>}
                                          /\ <<Stop(p), Start(p)>> \in Seq(Jobs) \ {<<>>}
  BY <1>1
<1>4. RestartAp \in Seq(Jobs) \ {<<>>}
  BY <1>1, <1>2 DEF RestartAp
<1>5. \A b \in Boots : b \in Seq(Jobs) \ {<<>>}
  <2> DEFINE d == Start("bridge")
             b == Start("br")
             l == Start("lxc")
             a == Start("ap")
  <2>1. d \in Jobs /\ b \in Jobs /\ l \in Jobs /\ a \in Jobs
    BY <1>1, <1>2
  <2> HIDE DEF d, b, l, a
  <2>2. <<d, b, l, a>> \in Seq(Jobs) \ {<<>>} /\ <<b, l, a>> \in Seq(Jobs) \ {<<>>}
    BY <2>1
  <2> QED
    BY <2>2 DEF Boots, d, b, l, a
<1> QED
  BY <1>2, <1>3, <1>4, <1>5 DEF ScriptsRun, Restart

-----------------------------------------------------------------------------
(* Types *)

Types ==
  /\ copies \in [Rules -> Nat]
  /\ nic \in {"none", "free", "member"}
  /\ bridge \in [Bridges -> {"none", "down", "up"}]
  /\ jobs \in [Shells -> Seq(Jobs)] /\ at \in [Shells -> Nat]
  /\ \A s \in Shells : at[s] # 0 => jobs[s] # <<>> /\ at[s] \in 1 .. Size(Job(s))
  /\ depth \in [Parts -> Nat] /\ taken \subseteq {Shared} /\ blurred \subseteq Rules
  /\ alone \in BOOLEAN /\ settled \in {"open", "up", "down"}
  /\ nruns \in Nat /\ nlocked \in Nat

\* The job that a shell is at, and the command of it (the functions start() and stop()).
LEMMA AtJob ==
  ASSUME Types, NEW s \in Shells, jobs[s] # <<>>
  PROVE  /\ Job(s) \in Jobs
         /\ Size(Job(s)) \in Nat /\ Size(Job(s)) # 0 /\ Len(Work(s)) = Size(Job(s))
         /\ at[s] \in Nat /\ Tail(jobs[s]) \in Seq(Jobs)
<1>1. jobs[s] \in Seq(Jobs)
  BY DEF Types
<1>2. Job(s) \in Jobs /\ Tail(jobs[s]) \in Seq(Jobs)
  BY <1>1 DEF Job
<1> QED
  BY <1>2, JobCommands DEF Work, Types

\* A command of iptables on the rule of its place (for rule in $RULES, iptables-br.sh:31-45).
LEMMA AtRule ==
  ASSUME Types, NEW s \in Shells, AtRules(s)
  PROVE  /\ Job(s) \in Jobs /\ Job(s).part \in Parts
         /\ Command(s).on = Lists[Job(s).part][at[s]]
         /\ Command(s).on \in RulesOf(Job(s).part) /\ Command(s).on \in Rules
         /\ Command(s).do = IF Job(s).op = "start" THEN "-A" ELSE "-D"
         /\ at[s] \in 1 .. Length[Job(s).part]
         /\ Pending(s) = {Lists[Job(s).part][i] : i \in at[s] .. Length[Job(s).part]}
<1>1. at[s] # 0 /\ Job(s).part \in Parts
  BY DEF AtRules
<1>2. jobs[s] # <<>> /\ at[s] \in 1 .. Size(Job(s))
  BY <1>1 DEF Types
<1>3. Job(s) \in Jobs /\ Len(Work(s)) = Size(Job(s))
  BY <1>2, AtJob
<1>4. Size(Job(s)) = Length[Job(s).part]
  BY <1>1 DEF Size, Parts
<1>5. \A i \in 1 .. Length[Job(s).part] :
        Work(s)[i] = Do(IF Job(s).op = "start" THEN "-A" ELSE "-D", Lists[Job(s).part][i])
  BY <1>1, <1>3, <1>4, JobCommands DEF Work
<1>6. Command(s) = Do(IF Job(s).op = "start" THEN "-A" ELSE "-D", Lists[Job(s).part][at[s]])
  BY <1>2, <1>4, <1>5 DEF Command
<1>7. /\ Command(s).on = Lists[Job(s).part][at[s]]
      /\ Command(s).do = IF Job(s).op = "start" THEN "-A" ELSE "-D"
  BY <1>6 DEF Do
<1>8. Command(s).on \in RulesOf(Job(s).part) /\ Command(s).on \in Rules
  BY <1>1, <1>2, <1>4, <1>7, ListRules
<1>9. Pending(s) = {Lists[Job(s).part][i] : i \in at[s] .. Length[Job(s).part]}
  <2>1. Pending(s) = {Work(s)[i].on : i \in at[s] .. Len(Work(s))}
    BY DEF Pending
  <2>2. \A i \in at[s] .. Length[Job(s).part] : Work(s)[i].on = Lists[Job(s).part][i]
    <3> SUFFICES ASSUME NEW i \in at[s] .. Length[Job(s).part]
                 PROVE  Work(s)[i].on = Lists[Job(s).part][i]
      OBVIOUS
    <3>1. i \in 1 .. Length[Job(s).part]
      BY <1>1, <1>2, <1>4, ListRules
    <3>2. Work(s)[i] = Do(IF Job(s).op = "start" THEN "-A" ELSE "-D", Lists[Job(s).part][i])
      BY <1>5, <3>1
    <3> QED
      BY <3>2 DEF Do
  <2> QED
    BY <1>3, <1>4, <2>1, <2>2
<1> QED
  BY <1>1, <1>2, <1>3, <1>4, <1>7, <1>8, <1>9

\* The end of a command: the shell is at the next one, or at the end of its job.
LEMMA DoneTypes ==
  ASSUME Types, NEW s \in Shells, at[s] # 0, Done(s)
  PROVE  /\ jobs' \in [Shells -> Seq(Jobs)] /\ at' \in [Shells -> Nat]
         /\ \A t \in Shells : at'[t] # 0 => jobs'[t] # <<>> /\ at'[t] \in 1 .. Size(Job(t)')
         /\ \A t \in Shells \ {s} : at'[t] = at[t] /\ jobs'[t] = jobs[t] /\ Job(t)' = Job(t)
         /\ LastOf(s) => at'[s] = 0 /\ at[s] = Size(Job(s))
         /\ ~LastOf(s) => /\ at'[s] = at[s] + 1 /\ Job(s)' = Job(s)
                          /\ at[s] < Size(Job(s))
<1>1. jobs[s] # <<>> /\ at[s] \in 1 .. Size(Job(s))
  BY DEF Types
<1>2. Size(Job(s)) \in Nat /\ Len(Work(s)) = Size(Job(s)) /\ Tail(jobs[s]) \in Seq(Jobs)
  BY <1>1, AtJob
<1>3. jobs \in [Shells -> Seq(Jobs)] /\ at \in [Shells -> Nat]
  BY DEF Types
<1>4. /\ at' = [at EXCEPT ![s] = IF LastOf(s) THEN 0 ELSE at[s] + 1]
      /\ jobs' = [jobs EXCEPT ![s] = IF LastOf(s) THEN Tail(jobs[s]) ELSE jobs[s]]
  BY DEF Done
<1>5. at[s] \in Nat /\ jobs[s] \in Seq(Jobs)
  BY <1>3
<1>6. jobs' \in [Shells -> Seq(Jobs)] /\ at' \in [Shells -> Nat]
  BY <1>2, <1>3, <1>4, <1>5
<1>7. \A t \in Shells \ {s} : at'[t] = at[t] /\ jobs'[t] = jobs[t] /\ Job(t)' = Job(t)
  BY <1>3, <1>4 DEF Job
<1>8. LastOf(s) => at'[s] = 0 /\ at[s] = Size(Job(s))
  BY <1>2, <1>3, <1>4 DEF LastOf
<1>9. ~LastOf(s) => /\ at'[s] = at[s] + 1 /\ jobs'[s] = jobs[s] /\ Job(s)' = Job(s)
                    /\ at[s] < Size(Job(s))
  BY <1>1, <1>2, <1>3, <1>4 DEF LastOf, Job
<1>10. ASSUME NEW t \in Shells, at'[t] # 0
       PROVE  jobs'[t] # <<>> /\ at'[t] \in 1 .. Size(Job(t)')
  <2>1. CASE t # s
    BY <1>7, <1>10, <2>1 DEF Types
  <2>2. CASE t = s
    BY <1>1, <1>2, <1>8, <1>9, <1>10, <2>2
  <2> QED
    BY <2>1, <2>2
<1> QED
  BY <1>6, <1>7, <1>8, <1>9, <1>10

\* A function that is called starts with its first command.
LEMMA NextJobTypes ==
  ASSUME Types, NEW s \in Shells, NextJob(s)
  PROVE  /\ at' \in [Shells -> Nat] /\ at'[s] = 1 /\ at[s] = 0 /\ jobs[s] # <<>>
         /\ Job(s) \in Jobs /\ Size(Job(s)) \in Nat /\ Size(Job(s)) # 0
         /\ \A t \in Shells : Job(t)' = Job(t)
         /\ \A t \in Shells \ {s} : at'[t] = at[t]
         /\ \A t \in Shells : at'[t] # 0 => jobs'[t] # <<>> /\ at'[t] \in 1 .. Size(Job(t)')
         /\ jobs' = jobs
<1>1. at[s] = 0 /\ jobs[s] # <<>> /\ at' = [at EXCEPT ![s] = 1] /\ jobs' = jobs
  BY DEF NextJob
<1>2. Job(s) \in Jobs /\ Size(Job(s)) \in Nat /\ Size(Job(s)) # 0
  BY <1>1, AtJob
<1>3. at \in [Shells -> Nat]
  BY DEF Types
<1>4. at' \in [Shells -> Nat] /\ at'[s] = 1 /\ \A t \in Shells \ {s} : at'[t] = at[t]
  BY <1>1, <1>3
<1>5. \A t \in Shells : Job(t)' = Job(t)
  BY <1>1 DEF Job
<1>6. \A t \in Shells : at'[t] # 0 => jobs'[t] # <<>> /\ at'[t] \in 1 .. Size(Job(t)')
  BY <1>1, <1>2, <1>4, <1>5 DEF Types
<1> QED
  BY <1>1, <1>2, <1>4, <1>5, <1>6

\* A shell begins a script only when the one before has ended.
LEMMA RunTypes ==
  ASSUME Types, NEW s \in Shells, RunScript(s)
  PROVE  /\ jobs' \in [Shells -> Seq(Jobs)] /\ at' = at /\ at[s] = 0
         /\ \A t \in Shells \ {s} : jobs'[t] = jobs[t] /\ Job(t)' = Job(t)
         /\ \A t \in Shells : at'[t] # 0 => jobs'[t] # <<>> /\ at'[t] \in 1 .. Size(Job(t)')
<1>1. PICK script \in ScriptsRun : jobs' = [jobs EXCEPT ![s] = script]
  BY DEF RunScript
<1>2. jobs[s] = <<>> /\ at' = at
  BY DEF RunScript
<1>3. at[s] = 0
  BY <1>2 DEF Types
<1>4. script \in Seq(Jobs)
  BY ScriptJobs
<1>5. jobs \in [Shells -> Seq(Jobs)]
  BY DEF Types
<1>6. /\ jobs' \in [Shells -> Seq(Jobs)]
      /\ \A t \in Shells \ {s} : jobs'[t] = jobs[t] /\ Job(t)' = Job(t)
  BY <1>1, <1>4, <1>5 DEF Job
<1>7. \A t \in Shells : at'[t] # 0 => jobs'[t] # <<>> /\ at'[t] \in 1 .. Size(Job(t)')
  BY <1>2, <1>3, <1>6 DEF Types
<1> QED
  BY <1>2, <1>3, <1>6, <1>7

\* The state that the machine starts in.
LEMMA TypesInit == Init => Types
<1> SUFFICES ASSUME Init PROVE Types
  OBVIOUS
<1>1. <<>> \in Seq(Jobs)
  OBVIOUS
<1>2. copies \in [Rules -> Nat] /\ bridge \in [Bridges -> {"none", "down", "up"}]
  BY DEF Init
<1>3. jobs \in [Shells -> Seq(Jobs)] /\ at \in [Shells -> Nat] /\ \A s \in Shells : at[s] = 0
  BY <1>1 DEF Init
<1> QED
  BY <1>2, <1>3 DEF Init, Types

\* The commands of rc.qemubridge name the veth or a bridge, and do what there is to do with
\* it (rc.qemubridge:11-35).
LEMMA BridgeCommands ==
  ASSUME Types, NEW s \in Shells, AtBridges(s)
  PROVE  /\ at[s] \in 1 .. 8 /\ Job(s) \in Jobs /\ jobs[s] # <<>> /\ Size(Job(s)) = 8
         /\ Command(s) = IF Job(s).op = "start" THEN BridgesUp[at[s]] ELSE BridgesDown[at[s]]
         /\ Command(s).on = "nic" =>
              Command(s).do \in {"link_add", "addif", "delif", "link_del"}
         /\ Command(s).on # "nic" =>
              Command(s).do \in {"addbr", "up", "down", "delbr"} /\ Command(s).on \in Bridges
<1>1. at[s] # 0 /\ Job(s).part = "bridge"
  BY DEF AtBridges, On
<1>2. jobs[s] # <<>> /\ at[s] \in 1 .. 8 /\ Size(Job(s)) = 8
  BY <1>1 DEF Types, Size
<1>3. Job(s) \in Jobs
  BY <1>2, AtJob
<1>4. Command(s) = IF Job(s).op = "start" THEN BridgesUp[at[s]] ELSE BridgesDown[at[s]]
  BY <1>1 DEF Command, Work, Commands
<1> DEFINE Fits(c) ==
      \/ c.on = "nic" /\ c.do \in {"link_add", "addif", "delif", "link_del"}
      \/ c.on # "nic" /\ c.on \in Bridges /\ c.do \in {"addbr", "up", "down", "delbr"}
<1>5. \A k \in 1 .. 8 : Fits(BridgesUp[k])
  <2> SUFFICES ASSUME NEW k \in 1 .. 8 PROVE Fits(BridgesUp[k])
    OBVIOUS
  <2>1. k = 1 \/ k = 2 \/ k = 3 \/ k = 4 \/ k = 5 \/ k = 6 \/ k = 7 \/ k = 8
    OBVIOUS
  <2>2. /\ Fits(BridgesUp[1]) /\ Fits(BridgesUp[2]) /\ Fits(BridgesUp[3])
        /\ Fits(BridgesUp[4]) /\ Fits(BridgesUp[5]) /\ Fits(BridgesUp[6])
        /\ Fits(BridgesUp[7]) /\ Fits(BridgesUp[8])
    BY DEF BridgesUp, Do, Bridges
  <2> HIDE DEF Fits
  <2> QED
    BY <2>1, <2>2
<1>6. \A k \in 1 .. 8 : Fits(BridgesDown[k])
  <2> SUFFICES ASSUME NEW k \in 1 .. 8 PROVE Fits(BridgesDown[k])
    OBVIOUS
  <2>1. k = 1 \/ k = 2 \/ k = 3 \/ k = 4 \/ k = 5 \/ k = 6 \/ k = 7 \/ k = 8
    OBVIOUS
  <2>2. /\ Fits(BridgesDown[1]) /\ Fits(BridgesDown[2]) /\ Fits(BridgesDown[3])
        /\ Fits(BridgesDown[4]) /\ Fits(BridgesDown[5]) /\ Fits(BridgesDown[6])
        /\ Fits(BridgesDown[7]) /\ Fits(BridgesDown[8])
    BY DEF BridgesDown, Do, Bridges
  <2> HIDE DEF Fits
  <2> QED
    BY <2>1, <2>2
<1>7. Fits(Command(s))
  BY <1>2, <1>4, <1>5, <1>6
<1> QED
  BY <1>2, <1>3, <1>4, <1>7

\* Every step keeps the types: each script and each command of it.
LEMMA TypesStep == Types /\ [Next]_vars => Types'
<1> SUFFICES ASSUME Types, [Next]_vars PROVE Types'
  OBVIOUS
<1>0. /\ copies \in [Rules -> Nat] /\ bridge \in [Bridges -> {"none", "down", "up"}]
      /\ depth \in [Parts -> Nat] /\ taken \subseteq {Shared} /\ blurred \subseteq Rules
      /\ nic \in {"none", "free", "member"}
      /\ nruns \in Nat /\ nlocked \in Nat
  BY DEF Types
<1>1. ASSUME NEW s \in Shells, RunScript(s)
      PROVE  Types'
  <2>1. nruns' = nruns + 1 /\ UNCHANGED <<copies, nic, bridge, at, history, nlocked>>
    BY <1>1 DEF RunScript
  <2>2. nruns' \in Nat
    BY <1>0, <2>1
  <2> QED
    BY <1>1, <2>1, <2>2, RunTypes DEF Types, history
<1>2. ASSUME NEW s \in Shells, NextJob(s)
      PROVE  Types'
  <2>1. UNCHANGED <<copies, nic, bridge, jobs, nruns, nlocked>>
    BY <1>2 DEF NextJob
  <2>2. Job(s) \in Jobs
    BY <1>2, NextJobTypes
  <2>3. CASE Job(s).part = "bridge"
    <3>1. BeginBridges(s)
      BY <1>2, <2>3 DEF NextJob
    <3> QED
      BY <1>2, <2>1, <3>1, NextJobTypes DEF Types, BeginBridges
  <2>4. CASE Job(s).part # "bridge"
    <3>1. BeginRules(s) /\ Job(s).part \in Parts
      BY <1>2, <2>2, <2>4 DEF NextJob, Jobs
    <3> DEFINE p == Job(s).part
               others == UNION {RulesOf(q) : q \in Parts \ {p}}
    <3>2. RulesOf(p) \cap others \subseteq {Shared}
      BY <3>1, ListRules
    <3>3. RulesOf(p) \subseteq Rules
      BY <3>1, ListRules
    <3>4. depth[p] \in Nat
      BY <1>0, <3>1
    <3>5. depth' \in [Parts -> Nat]
      BY <1>0, <3>1, <3>4 DEF BeginRules
    <3>6. taken' \subseteq {Shared}
      BY <1>0, <3>1, <3>2 DEF BeginRules
    <3>7. blurred' \subseteq Rules /\ UNCHANGED <<alone, settled>>
      BY <1>0, <3>1, <3>3 DEF BeginRules
    <3> QED
      BY <1>2, <2>1, <3>5, <3>6, <3>7, NextJobTypes DEF Types
  <2> QED
    BY <2>3, <2>4
<1>3. ASSUME NEW s \in Shells, Iptables(s)
      PROVE  Types'
  <2>1. AtRules(s) /\ Done(s) /\ UNCHANGED <<nic, bridge, history, nruns, nlocked>>
    BY <1>3 DEF Iptables
  <2>2. Command(s).on \in Rules
    BY <2>1, AtRule
  <2>3. copies[Command(s).on] \in Nat
    BY <1>0, <2>2
  <2>4. copies' \in [Rules -> Nat]
    BY <1>0, <1>3, <2>2, <2>3 DEF Iptables
  <2> QED
    BY <2>1, <2>4, DoneTypes DEF Types, history, AtRules
<1>4. ASSUME NEW s \in Shells, Locked(s)
      PROVE  Types'
  <2>1. /\ AtRules(s) /\ Done(s) /\ blurred' = blurred \cup {Command(s).on}
        /\ nlocked' = nlocked + 1
        /\ UNCHANGED <<copies, nic, bridge, depth, taken, alone, settled, nruns>>
    BY <1>4 DEF Locked
  <2>2. Command(s).on \in Rules
    BY <2>1, AtRule
  <2>3. blurred' \subseteq Rules /\ nlocked' \in Nat
    BY <1>0, <2>1, <2>2
  <2> QED
    BY <2>1, <2>3, DoneTypes DEF Types, AtRules
<1>5. ASSUME NEW s \in Shells, Nic(s)
      PROVE  Types'
  <2>1. /\ AtBridges(s) /\ Done(s) /\ Settles(s) /\ nic' = NicAfter(Command(s).do)
        /\ UNCHANGED <<copies, bridge, depth, taken, blurred, alone, nruns, nlocked>>
    BY <1>5 DEF Nic
  <2>2. at[s] # 0 /\ settled' \in {"open", "up", "down"}
    BY <2>1 DEF Settles, Types, AtBridges, On
  <2>3. Command(s).do \in {"link_add", "addif", "delif", "link_del"}
    BY <1>5, <2>1, BridgeCommands DEF Nic
  <2>4. nic' \in {"none", "free", "member"}
    BY <1>0, <2>1, <2>3 DEF NicAfter
  <2> QED
    BY <2>1, <2>2, <2>4, DoneTypes DEF Types
<1>6. ASSUME NEW s \in Shells, Bridge(s)
      PROVE  Types'
  <2>1. /\ AtBridges(s) /\ Done(s) /\ Settles(s)
        /\ UNCHANGED <<copies, depth, taken, blurred, alone, nruns, nlocked>>
    BY <1>6 DEF Bridge
  <2>2. at[s] # 0 /\ settled' \in {"open", "up", "down"}
    BY <2>1 DEF Settles, Types, AtBridges, On
  <2>3. Command(s).do \in {"addbr", "up", "down", "delbr"} /\ Command(s).on \in Bridges
    BY <1>6, <2>1, BridgeCommands DEF Bridge
  <2>4. BridgeAfter(Command(s).do, bridge[Command(s).on]) \in {"none", "down", "up"}
    BY <1>0, <2>3 DEF BridgeAfter
  <2>5. bridge' \in [Bridges -> {"none", "down", "up"}]
    BY <1>0, <1>6, <2>4 DEF Bridge
  <2>6. nic' \in {"none", "free", "member"}
    BY <1>0, <1>6 DEF Bridge
  <2> QED
    BY <2>1, <2>2, <2>5, <2>6, DoneTypes DEF Types
<1>7. CASE UNCHANGED vars
  BY <1>7 DEF Types, vars, history, Job
<1> QED
  BY <1>1, <1>2, <1>3, <1>4, <1>5, <1>6, <1>7 DEF Next

\* A shell at a job has one of its scripts, and is at one of the commands of the job.
THEOREM NetTypes == Spec => []Types
<1> QED
  BY TypesInit, TypesStep, PTL DEF Spec

-----------------------------------------------------------------------------
(* The bridges *)

\* How far a job that nothing meets has come with the veth and the bridges when it is at
\* its k-th command, or has ended them at the ninth.
Stage(op, k, n, b) ==
  IF op = "start"
  THEN /\ k > 1 => n # "none"
       /\ k > 2 => b["qemubr0"] # "none"
       /\ k > 3 => n = "member"
       /\ k > 4 => b["qemubr0"] = "up"
       /\ k > 5 => b["qemubr1"] # "none"
       /\ k > 6 => b["qemubr1"] = "up"
       /\ k > 7 => b["qemubr2"] # "none"
       /\ k > 8 => b["qemubr2"] = "up"
  ELSE /\ k > 1 => b["qemubr1"] # "up"
       /\ k > 2 => b["qemubr1"] = "none"
       /\ k > 3 => b["qemubr2"] # "up"
       /\ k > 4 => b["qemubr2"] = "none"
       /\ k > 5 => b["qemubr0"] # "up"
       /\ k > 6 => n # "member"
       /\ k > 7 => b["qemubr0"] = "none"
       /\ k > 8 => n = "none"

AloneInv ==
  /\ alone => /\ \A s, t \in Shells : AtBridges(s) /\ AtBridges(t) => s = t
              /\ \A s \in Shells : AtBridges(s) => Stage(Job(s).op, at[s], nic, bridge)
  /\ settled # "open" => \A s \in Shells : ~AtBridges(s)
  /\ settled = "up" => Stage("start", 9, nic, bridge)
  /\ settled = "down" => Stage("stop", 9, nic, bridge)

\* Each command brings a job that is alone one stage further (rc.qemubridge:11-35).
LEMMA NextStage ==
  ASSUME Types, NEW s \in Shells, Nic(s) \/ Bridge(s), Stage(Job(s).op, at[s], nic, bridge)
  PROVE  Stage(Job(s).op, at[s] + 1, nic', bridge')
<1>1. AtBridges(s)
  BY DEF Nic, Bridge
<1>2. /\ at[s] \in 1 .. 8 /\ Job(s).op \in {"start", "stop"}
      /\ Command(s) = IF Job(s).op = "start" THEN BridgesUp[at[s]] ELSE BridgesDown[at[s]]
  BY <1>1, BridgeCommands DEF Jobs
<1>3. /\ bridge \in [Bridges -> {"none", "down", "up"}] /\ nic \in {"none", "free", "member"}
      /\ "qemubr0" \in Bridges /\ "qemubr1" \in Bridges /\ "qemubr2" \in Bridges
  BY DEF Types, Bridges
<1>4. Command(s).on = "nic" => nic' = NicAfter(Command(s).do) /\ bridge' = bridge
  BY DEF Nic, Bridge
<1>5. Command(s).on # "nic" =>
        /\ bridge' = [bridge EXCEPT ![Command(s).on] =
                        BridgeAfter(Command(s).do, bridge[Command(s).on])]
        /\ nic' = IF nic = "member" /\ bridge'["qemubr0"] = "none" THEN "free" ELSE nic
  BY DEF Nic, Bridge
<1>6. \/ at[s] = 1 \/ at[s] = 2 \/ at[s] = 3 \/ at[s] = 4
      \/ at[s] = 5 \/ at[s] = 6 \/ at[s] = 7 \/ at[s] = 8
  BY <1>2
<1>7. CASE Job(s).op = "start" /\ at[s] = 1
  <2>1. Command(s).do = "link_add" /\ Command(s).on = "nic"
    BY <1>2, <1>7 DEF BridgesUp, Do
  <2> QED
    BY <1>4, <1>3, <1>7, <2>1 DEF Stage, NicAfter
<1>8. CASE Job(s).op = "start" /\ at[s] = 2
  <2>1. Command(s).do = "addbr" /\ Command(s).on = "qemubr0"
    BY <1>2, <1>8 DEF BridgesUp, Do
  <2> QED
    BY <1>5, <1>3, <1>8, <2>1 DEF Stage, BridgeAfter
<1>9. CASE Job(s).op = "start" /\ at[s] = 3
  <2>1. Command(s).do = "addif" /\ Command(s).on = "nic"
    BY <1>2, <1>9 DEF BridgesUp, Do
  <2> QED
    BY <1>4, <1>3, <1>9, <2>1 DEF Stage, NicAfter
<1>10. CASE Job(s).op = "start" /\ at[s] = 4
  <2>1. Command(s).do = "up" /\ Command(s).on = "qemubr0"
    BY <1>2, <1>10 DEF BridgesUp, Do
  <2> QED
    BY <1>5, <1>3, <1>10, <2>1 DEF Stage, BridgeAfter
<1>11. CASE Job(s).op = "start" /\ at[s] = 5
  <2>1. Command(s).do = "addbr" /\ Command(s).on = "qemubr1"
    BY <1>2, <1>11 DEF BridgesUp, Do
  <2> QED
    BY <1>5, <1>3, <1>11, <2>1 DEF Stage, BridgeAfter
<1>12. CASE Job(s).op = "start" /\ at[s] = 6
  <2>1. Command(s).do = "up" /\ Command(s).on = "qemubr1"
    BY <1>2, <1>12 DEF BridgesUp, Do
  <2> QED
    BY <1>5, <1>3, <1>12, <2>1 DEF Stage, BridgeAfter
<1>13. CASE Job(s).op = "start" /\ at[s] = 7
  <2>1. Command(s).do = "addbr" /\ Command(s).on = "qemubr2"
    BY <1>2, <1>13 DEF BridgesUp, Do
  <2> QED
    BY <1>5, <1>3, <1>13, <2>1 DEF Stage, BridgeAfter
<1>14. CASE Job(s).op = "start" /\ at[s] = 8
  <2>1. Command(s).do = "up" /\ Command(s).on = "qemubr2"
    BY <1>2, <1>14 DEF BridgesUp, Do
  <2> QED
    BY <1>5, <1>3, <1>14, <2>1 DEF Stage, BridgeAfter
<1>15. CASE Job(s).op = "stop" /\ at[s] = 1
  <2>1. Command(s).do = "down" /\ Command(s).on = "qemubr1"
    BY <1>2, <1>15 DEF BridgesDown, Do
  <2> QED
    BY <1>5, <1>3, <1>15, <2>1 DEF Stage, BridgeAfter
<1>16. CASE Job(s).op = "stop" /\ at[s] = 2
  <2>1. Command(s).do = "delbr" /\ Command(s).on = "qemubr1"
    BY <1>2, <1>16 DEF BridgesDown, Do
  <2> QED
    BY <1>5, <1>3, <1>16, <2>1 DEF Stage, BridgeAfter
<1>17. CASE Job(s).op = "stop" /\ at[s] = 3
  <2>1. Command(s).do = "down" /\ Command(s).on = "qemubr2"
    BY <1>2, <1>17 DEF BridgesDown, Do
  <2> QED
    BY <1>5, <1>3, <1>17, <2>1 DEF Stage, BridgeAfter
<1>18. CASE Job(s).op = "stop" /\ at[s] = 4
  <2>1. Command(s).do = "delbr" /\ Command(s).on = "qemubr2"
    BY <1>2, <1>18 DEF BridgesDown, Do
  <2> QED
    BY <1>5, <1>3, <1>18, <2>1 DEF Stage, BridgeAfter
<1>19. CASE Job(s).op = "stop" /\ at[s] = 5
  <2>1. Command(s).do = "down" /\ Command(s).on = "qemubr0"
    BY <1>2, <1>19 DEF BridgesDown, Do
  <2> QED
    BY <1>5, <1>3, <1>19, <2>1 DEF Stage, BridgeAfter
<1>20. CASE Job(s).op = "stop" /\ at[s] = 6
  <2>1. Command(s).do = "delif" /\ Command(s).on = "nic"
    BY <1>2, <1>20 DEF BridgesDown, Do
  <2> QED
    BY <1>4, <1>3, <1>20, <2>1 DEF Stage, NicAfter
<1>21. CASE Job(s).op = "stop" /\ at[s] = 7
  <2>1. Command(s).do = "delbr" /\ Command(s).on = "qemubr0"
    BY <1>2, <1>21 DEF BridgesDown, Do
  <2> QED
    BY <1>5, <1>3, <1>21, <2>1 DEF Stage, BridgeAfter
<1>22. CASE Job(s).op = "stop" /\ at[s] = 8
  <2>1. Command(s).do = "link_del" /\ Command(s).on = "nic"
    BY <1>2, <1>22 DEF BridgesDown, Do
  <2> QED
    BY <1>4, <1>3, <1>22, <2>1 DEF Stage, NicAfter
<1> QED
  BY <1>2, <1>6, <1>7, <1>8, <1>9, <1>10, <1>11, <1>12, <1>13, <1>14, <1>15,
     <1>16, <1>17, <1>18, <1>19, <1>20, <1>21, <1>22

\* A step of a shell that is not at a job on the bridges leaves who is at one, and how far
\* it has come.
LEMMA OthersAtBridges ==
  ASSUME NEW s \in Shells, ~AtBridges(s), ~AtBridges(s)',
         \A t \in Shells \ {s} : at'[t] = at[t] /\ Job(t)' = Job(t)
  PROVE  \A t \in Shells : /\ AtBridges(t)' <=> AtBridges(t)
                           /\ AtBridges(t) => at'[t] = at[t] /\ Job(t)' = Job(t)
BY DEF AtBridges, On

\* A job on the bridges that is alone leaves them as they are to be (rc.qemubridge:11-46).
LEMMA AloneStep == Types /\ AloneInv /\ [Next]_vars => AloneInv'
<1> SUFFICES ASSUME Types, AloneInv, [Next]_vars PROVE AloneInv'
  OBVIOUS
<1>0. ASSUME \A t \in Shells : /\ AtBridges(t)' <=> AtBridges(t)
                               /\ AtBridges(t) => at'[t] = at[t] /\ Job(t)' = Job(t),
             UNCHANGED <<nic, bridge, alone, settled>>
      PROVE  AloneInv'
  <2>1. alone' => \A s, t \in Shells : AtBridges(s)' /\ AtBridges(t)' => s = t
    BY <1>0 DEF AloneInv
  <2>2. ASSUME alone', NEW t \in Shells, AtBridges(t)'
        PROVE  Stage(Job(t).op, at[t], nic, bridge)'
    <3>1. Stage(Job(t).op, at[t], nic, bridge)
      BY <1>0, <2>2 DEF AloneInv
    <3>2. Job(t)' = Job(t) /\ at'[t] = at[t] /\ nic' = nic /\ bridge' = bridge
      BY <1>0, <2>2
    <3> QED
      BY <3>1, <3>2 DEF Stage
  <2>3. settled' # "open" => \A t \in Shells : ~AtBridges(t)'
    BY <1>0 DEF AloneInv
  <2>4. /\ settled' = "up" => Stage("start", 9, nic, bridge)'
        /\ settled' = "down" => Stage("stop", 9, nic, bridge)'
    BY <1>0 DEF AloneInv, Stage
  <2> QED
    BY <2>1, <2>2, <2>3, <2>4 DEF AloneInv
<1>1. ASSUME NEW s \in Shells, RunScript(s)
      PROVE  AloneInv'
  <2>1. ~AtBridges(s) /\ ~AtBridges(s)'
    BY <1>1, RunTypes DEF AtBridges, On
  <2>2. UNCHANGED <<nic, bridge, alone, settled>>
    BY <1>1 DEF RunScript, history
  <2> QED
    BY <1>0, <1>1, <2>1, <2>2, OthersAtBridges, RunTypes
<1>2. ASSUME NEW s \in Shells, NextJob(s)
      PROVE  AloneInv'
  <2>1. ~AtBridges(s) /\ UNCHANGED <<nic, bridge>>
    BY <1>2 DEF NextJob, AtBridges, On
  <2>2. CASE Job(s).part = "bridge"
    <3>1. alone' = ~Meets(s, "bridge") /\ settled' = "open"
      BY <1>2, <2>2 DEF NextJob, BeginBridges
    <3>2. \A t \in Shells \ {s} : AtBridges(t)' <=> AtBridges(t)
      BY <1>2, NextJobTypes DEF AtBridges, On
    <3>3. alone' => \A t \in Shells \ {s} : ~AtBridges(t)'
      BY <3>1, <3>2 DEF Meets, AtBridges
    <3>4. at'[s] = 1
      BY <1>2, NextJobTypes
    <3>5. Stage(Job(s).op, at[s], nic, bridge)'
      BY <3>4 DEF Stage
    <3> QED
      BY <3>1, <3>3, <3>5 DEF AloneInv
  <2>3. CASE Job(s).part # "bridge"
    <3>1. ~AtBridges(s)'
      BY <1>2, <2>3, NextJobTypes DEF AtBridges, On
    <3>2. UNCHANGED <<alone, settled>>
      BY <1>2, <2>3 DEF NextJob, BeginRules
    <3>3. \A t \in Shells \ {s} : at'[t] = at[t] /\ Job(t)' = Job(t)
      BY <1>2, NextJobTypes
    <3> QED
      BY <1>0, <2>1, <3>1, <3>2, <3>3, OthersAtBridges
  <2> QED
    BY <2>2, <2>3
<1>3. ASSUME NEW s \in Shells, Iptables(s) \/ Locked(s)
      PROVE  AloneInv'
  <2>1. AtRules(s) /\ Done(s) /\ UNCHANGED <<nic, bridge, alone, settled>>
    BY <1>3 DEF Iptables, Locked, history
  <2>2. at[s] # 0 /\ ~AtBridges(s)
    BY <2>1 DEF AtRules, AtBridges, On, Parts
  <2>3. /\ \A t \in Shells \ {s} : at'[t] = at[t] /\ Job(t)' = Job(t)
        /\ LastOf(s) => at'[s] = 0
        /\ ~LastOf(s) => Job(s)' = Job(s)
    BY <2>1, <2>2, DoneTypes
  <2>4. ~AtBridges(s)'
    BY <2>2, <2>3 DEF AtBridges, On
  <2> QED
    BY <1>0, <2>1, <2>2, <2>3, <2>4, OthersAtBridges
<1>4. ASSUME NEW s \in Shells, Nic(s) \/ Bridge(s)
      PROVE  AloneInv'
  <2>1. AtBridges(s) /\ Done(s) /\ Settles(s) /\ alone' = alone
    BY <1>4 DEF Nic, Bridge
  <2>2. at[s] # 0 /\ settled = "open"
    BY <2>1 DEF AloneInv, Types, AtBridges, On
  <2>3. /\ \A t \in Shells \ {s} : at'[t] = at[t] /\ Job(t)' = Job(t)
        /\ LastOf(s) => at'[s] = 0 /\ at[s] = Size(Job(s))
        /\ ~LastOf(s) => at'[s] = at[s] + 1 /\ Job(s)' = Job(s)
    BY <2>1, <2>2, DoneTypes
  <2>4. Size(Job(s)) = 8 /\ Job(s).op \in {"start", "stop"} /\ at[s] \in 1 .. 8
    BY <2>1, BridgeCommands DEF Jobs
  <2>5. \A t \in Shells \ {s} : AtBridges(t)' <=> AtBridges(t)
    BY <2>3 DEF AtBridges, On
  <2>6. CASE ~alone
    <3>1. settled' = "open"
      BY <2>1, <2>2, <2>6 DEF Settles
    <3> QED
      BY <2>1, <2>6, <3>1 DEF AloneInv
  <2>7. CASE alone
    <3>1. \A t \in Shells \ {s} : ~AtBridges(t)'
      BY <2>1, <2>5, <2>7 DEF AloneInv
    <3>2. Stage(Job(s).op, at[s], nic, bridge)
      BY <2>1, <2>7 DEF AloneInv
    <3>3. Stage(Job(s).op, at[s] + 1, nic', bridge')
      BY <1>4, <3>2, NextStage
    <3>4. CASE LastOf(s)
      <4>1. ~AtBridges(s)'
        BY <2>3, <3>4 DEF AtBridges, On
      <4>2. Stage(Job(s).op, 9, nic', bridge')
        BY <2>3, <2>4, <3>3, <3>4
      <4>3. settled' = IF Job(s).op = "stop" THEN "down" ELSE "up"
        BY <2>1, <2>7, <3>4 DEF Settles
      <4> QED
        BY <2>4, <3>1, <4>1, <4>2, <4>3 DEF AloneInv
    <3>5. CASE ~LastOf(s)
      <4>1. settled' = "open"
        BY <2>1, <2>2, <3>5 DEF Settles
      <4>2. Stage(Job(s).op, at[s], nic, bridge)'
        BY <2>3, <3>3, <3>5
      <4> QED
        BY <3>1, <4>1, <4>2 DEF AloneInv
    <3> QED
      BY <3>4, <3>5
  <2> QED
    BY <2>6, <2>7
<1>5. CASE UNCHANGED vars
  <2>1. \A t \in Shells : at'[t] = at[t] /\ Job(t)' = Job(t) /\ (AtBridges(t)' <=> AtBridges(t))
    BY <1>5 DEF vars, AtBridges, On, Job
  <2> QED
    BY <1>0, <1>5, <2>1 DEF vars, history
<1> QED
  BY <1>1, <1>2, <1>3, <1>4, <1>5 DEF Next

\* rc.qemubridge: a start that runs alone ends with the three bridges up and the nic in
\* qemubr0, a stop that runs alone with nothing of them, whatever ran before.
THEOREM BridgesEnd == Spec => []BridgesSettle
<1>1. Init => Types /\ AloneInv
  <2> SUFFICES ASSUME Init PROVE AloneInv
    BY TypesInit
  <2>1. \A s \in Shells : ~AtBridges(s)
    BY DEF Init, AtBridges, On
  <2>2. /\ alone = FALSE /\ settled = "down" /\ nic = "none"
        /\ \A b \in Bridges : bridge[b] = "none"
    BY DEF Init
  <2>3. "qemubr0" \in Bridges /\ "qemubr1" \in Bridges /\ "qemubr2" \in Bridges
    BY DEF Bridges
  <2> QED
    BY <2>1, <2>2, <2>3 DEF AloneInv, Stage
<1>2. Types /\ AloneInv /\ [Next]_vars => (Types /\ AloneInv)'
  BY TypesStep, AloneStep
<1>3. AloneInv => BridgesSettle
  BY DEF AloneInv, Stage, BridgesSettle, Bridges
<1> QED
  BY <1>1, <1>2, <1>3, PTL DEF Spec

-----------------------------------------------------------------------------
(* The rules *)

\* Is a job on the part still to append, or to delete, the rule?
Adding(r, p) == \E s \in Shells : On(s, p) /\ Job(s).op = "start" /\ r \in Pending(s)
Deleting(r, p) == \E s \in Shells : On(s, p) /\ Job(s).op = "stop" /\ r \in Pending(s)

One(b) == IF b THEN 1 ELSE 0
Add(r, p) == One(Adding(r, p))
Del(r, p) == One(Deleting(r, p))

\* Two jobs on one part have blurred its rules.
MeetInv ==
  \A p \in Parts : \A s, t \in Shells :
    s # t /\ On(s, p) /\ On(t, p) => RulesOf(p) \subseteq blurred

\* The copies of a rule, with those to be appended, are those due, with those to be deleted;
\* of the shared rule there may be fewer once a stop took one.
FollowInv ==
  /\ \A p \in Parts : \A r \in RulesOf(p) \ blurred :
       /\ Adding(r, p) => depth[p] # 0
       /\ r # Shared => \/ copies[r] + Add(r, p) = depth[p] + Del(r, p)
                        \/ copies[r] = 0 /\ depth[p] = 0
  /\ Shared \notin blurred =>
       LET have == copies[Shared] + Add(Shared, "lxc") + Add(Shared, "ap")
           due == depth["lxc"] + depth["ap"] + Del(Shared, "lxc") + Del(Shared, "ap") IN
       have <= due /\ (Shared \notin taken => have = due)

\* What a shell has left to do depends on its own job and place in it alone.
LEMMA SamePlace ==
  ASSUME NEW t \in Shells, at'[t] = at[t], Job(t)' = Job(t)
  PROVE  Pending(t)' = Pending(t) /\ \A p \in Parts : On(t, p)' <=> On(t, p)
BY DEF Pending, AtRules, Work, On

\* A step of a shell that has as much to do with a rule as before leaves who is to append or
\* delete it.
LEMMA SameWork ==
  ASSUME NEW s \in Shells, NEW p \in Parts, NEW r,
         \A t \in Shells \ {s} : at'[t] = at[t] /\ Job(t)' = Job(t),
         (On(s, p)' /\ r \in Pending(s)') <=> (On(s, p) /\ r \in Pending(s)),
         On(s, p) /\ r \in Pending(s) => Job(s)' = Job(s)
  PROVE  Add(r, p)' = Add(r, p) /\ Del(r, p)' = Del(r, p) /\ (Adding(r, p)' <=> Adding(r, p))
<1>1. \A t \in Shells \ {s} :
        Pending(t)' = Pending(t) /\ (On(t, p)' <=> On(t, p)) /\ Job(t)' = Job(t)
  BY SamePlace
<1>2. \A t \in Shells :
        /\ (On(t, p)' /\ r \in Pending(t)') <=> (On(t, p) /\ r \in Pending(t))
        /\ On(t, p) /\ r \in Pending(t) => Job(t)' = Job(t)
  BY <1>1
<1>3. Adding(r, p)' <=> Adding(r, p)
  BY <1>2 DEF Adding
<1>4. Deleting(r, p)' <=> Deleting(r, p)
  BY <1>2 DEF Deleting
<1> QED
  BY <1>3, <1>4 DEF Add, Del, One

\* The commands left after one: all that were left but its own (for rule in $RULES).
LEMMA PendingDone ==
  ASSUME Types, NEW s \in Shells, AtRules(s), Done(s)
  PROVE  /\ Command(s).on \in Pending(s)
         /\ \A p \in Parts : On(s, p) <=> p = Job(s).part
         /\ \A p \in Parts : \A r :
              (On(s, p)' /\ r \in Pending(s)') <=>
                (On(s, p) /\ r \in Pending(s) /\ r # Command(s).on)
         /\ \A r \in Pending(s) : r # Command(s).on => Job(s)' = Job(s)
         /\ \A t \in Shells \ {s} : at'[t] = at[t] /\ Job(t)' = Job(t)
         /\ \A t \in Shells : \A p \in Parts : On(t, p)' => On(t, p)
<1> DEFINE p0 == Job(s).part
           k == at[s]
<1>1. /\ p0 \in Parts /\ k \in 1 .. Length[p0]
      /\ Command(s).on = Lists[p0][k]
      /\ Pending(s) = {Lists[p0][i] : i \in k .. Length[p0]}
  BY AtRule
<1>2. at[s] # 0
  BY DEF AtRules
<1>3. /\ \A t \in Shells \ {s} : at'[t] = at[t] /\ Job(t)' = Job(t)
      /\ LastOf(s) => at'[s] = 0 /\ at[s] = Size(Job(s))
      /\ ~LastOf(s) => at'[s] = at[s] + 1 /\ Job(s)' = Job(s)
  BY <1>2, DoneTypes
<1>4. Size(Job(s)) = Length[p0] /\ Length[p0] \in Nat
  BY <1>1, ListRules DEF Size, Parts
<1>5. \A i, j \in 1 .. Length[p0] : Lists[p0][i] = Lists[p0][j] => i = j
  BY <1>1, ListRules
<1>6. Command(s).on \in Pending(s)
  BY <1>1, <1>4
<1>7. \A p \in Parts : On(s, p) <=> p = p0
  BY <1>2 DEF On
<1>8. /\ \A p \in Parts : \A r :
           (On(s, p)' /\ r \in Pending(s)') <=>
             (On(s, p) /\ r \in Pending(s) /\ r # Command(s).on)
      /\ \A r \in Pending(s) : r # Command(s).on => Job(s)' = Job(s)
      /\ \A p \in Parts : On(s, p)' => On(s, p)
  <2>1. CASE LastOf(s)
    <3>1. \A p \in Parts : ~On(s, p)'
      BY <1>3, <2>1 DEF On
    <3>2. k = Length[p0]
      BY <1>3, <1>4, <2>1
    <3>3. \A i \in k .. Length[p0] : i = k
      BY <1>1, <1>4, <3>2
    <3>4. \A r \in Pending(s) : r = Command(s).on
      BY <1>1, <3>3
    <3> QED
      BY <3>1, <3>4
  <2>2. CASE ~LastOf(s)
    <3>1. /\ at'[s] = k + 1 /\ Job(s)' = Job(s) /\ at'[s] # 0 /\ Work(s)' = Work(s)
          /\ Len(Work(s)) = Length[p0]
      <4>1. jobs[s] # <<>>
        BY <1>2 DEF Types
      <4>2. Len(Work(s)) = Length[p0]
        BY <1>4, <4>1, AtJob
      <4> QED
        BY <1>1, <1>3, <1>4, <2>2, <4>2 DEF Work
    <3>2. \A p \in Parts : On(s, p)' <=> On(s, p)
      BY <1>2, <3>1 DEF On
    <3>3. Pending(s)' = {Lists[p0][i] : i \in k + 1 .. Length[p0]}
      <4>1. AtRules(s)'
        BY <1>1, <3>1 DEF AtRules
      <4>2. Pending(s)' = {Work(s)[i].on : i \in k + 1 .. Length[p0]}
        BY <3>1, <4>1 DEF Pending
      <4>3. \A i \in k + 1 .. Length[p0] : Work(s)[i].on = Lists[p0][i]
        <5> SUFFICES ASSUME NEW i \in k + 1 .. Length[p0]
                     PROVE  Work(s)[i].on = Lists[p0][i]
          OBVIOUS
        <5>1. i \in 1 .. Length[p0]
          BY <1>1, <1>4
        <5>2. Job(s) \in Jobs
          BY AtRule
        <5>3. Work(s)[i] = Do(IF Job(s).op = "start" THEN "-A" ELSE "-D", Lists[p0][i])
          BY <1>1, <1>4, <5>1, <5>2, JobCommands DEF Work
        <5> QED
          BY <5>3 DEF Do
      <4> QED
        BY <4>2, <4>3
    <3>4. \A r : r \in Pending(s)' <=> r \in Pending(s) /\ r # Command(s).on
      <4>1. \A i : i \in k + 1 .. Length[p0] <=> i \in k .. Length[p0] /\ i # k
        BY <1>1, <1>4
      <4>2. \A i \in k .. Length[p0] : i \in 1 .. Length[p0]
        BY <1>1, <1>4
      <4>3. \A i \in k .. Length[p0] : Lists[p0][i] = Lists[p0][k] <=> i = k
        BY <1>1, <1>5, <4>2
      <4> QED
        BY <1>1, <3>3, <4>1, <4>3
    <3> QED
      BY <3>1, <3>2, <3>4
  <2> QED
    BY <2>1, <2>2
<1>9. \A t \in Shells : \A p \in Parts : On(t, p)' => On(t, p)
  BY <1>3, <1>8, SamePlace
<1> QED
  BY <1>3, <1>6, <1>7, <1>8, <1>9

\* A job that begins has all its rules to append or to delete, alone if none of them is
\* blurred (start() and stop(), iptables-lxc.sh:6-24).
LEMMA BeginWork ==
  ASSUME Types, NEW s \in Shells, NextJob(s), NEW p \in Parts, Job(s).part = p
  PROVE  /\ \A r \in RulesOf(p) \ blurred' :
              /\ ~Adding(r, p) /\ ~Deleting(r, p)
              /\ Adding(r, p)' <=> Job(s).op = "start"
              /\ Deleting(r, p)' <=> Job(s).op = "stop"
         /\ \A q \in Parts \ {p} : \A r :
              Add(r, q)' = Add(r, q) /\ Del(r, q)' = Del(r, q) /\ (Adding(r, q)' <=> Adding(r, q))
<1>1. /\ at'[s] = 1 /\ at[s] = 0 /\ Job(s)' = Job(s) /\ Job(s) \in Jobs
      /\ \A t \in Shells \ {s} : at'[t] = at[t] /\ Job(t)' = Job(t)
  BY NextJobTypes
<1>2. \A q \in Parts : ~On(s, q) /\ (On(s, q)' <=> q = p)
  BY <1>1 DEF On
<1>3. Pending(s)' = RulesOf(p)
  <2>1. AtRules(s)' /\ Work(s)' = Work(s)
    BY <1>1 DEF AtRules, Work
  <2>2. Pending(s)' = {Work(s)[i].on : i \in 1 .. Len(Work(s))}
    BY <1>1, <2>1 DEF Pending
  <2>3. Len(Work(s)) = Length[p]
    BY <1>1, JobCommands DEF Work, Size, Parts
  <2>4. \A i \in 1 .. Length[p] : Work(s)[i].on = Lists[p][i]
    <3> SUFFICES ASSUME NEW i \in 1 .. Length[p] PROVE Work(s)[i].on = Lists[p][i]
      OBVIOUS
    <3>1. Size(Job(s)) = Length[p]
      BY DEF Size, Parts
    <3>2. Work(s)[i] = Do(IF Job(s).op = "start" THEN "-A" ELSE "-D", Lists[p][i])
      BY <1>1, <3>1, JobCommands DEF Work
    <3> QED
      BY <3>2 DEF Do
  <2> QED
    BY <2>2, <2>3, <2>4 DEF RulesOf
<1>4. ASSUME NEW r \in RulesOf(p) \ blurred'
      PROVE  /\ ~Adding(r, p) /\ ~Deleting(r, p)
             /\ Adding(r, p)' <=> Job(s).op = "start"
             /\ Deleting(r, p)' <=> Job(s).op = "stop"
  <2>1. BeginRules(s)
    BY DEF NextJob, Parts
  <2>2. ~Meets(s, p)
    BY <1>4, <2>1 DEF BeginRules
  <2>3. \A t \in Shells \ {s} : ~On(t, p) /\ ~On(t, p)'
    BY <1>1, <2>2, SamePlace DEF Meets
  <2>4. \A t \in Shells : ~On(t, p) /\ (On(t, p)' <=> t = s)
    BY <1>2, <2>3
  <2> QED
    BY <1>1, <1>3, <1>4, <2>4 DEF Adding, Deleting
<1>5. ASSUME NEW q \in Parts \ {p}, NEW r
      PROVE  Add(r, q)' = Add(r, q) /\ Del(r, q)' = Del(r, q) /\ (Adding(r, q)' <=> Adding(r, q))
  BY <1>1, <1>2, SameWork
<1> QED
  BY <1>4, <1>5

\* A command leaves its own rule to nobody on its part, if that is not blurred, and changes
\* nothing of the others.
LEMMA CommandWork ==
  ASSUME Types, MeetInv, NEW s \in Shells, AtRules(s), Done(s),
         NEW p, Job(s).part = p, NEW r0, Command(s).on = r0
  PROVE  /\ p \in Parts /\ r0 \in RulesOf(p) /\ Job(s).op \in {"start", "stop"}
         /\ r0 \notin blurred => /\ Adding(r0, p) <=> Job(s).op = "start"
                                 /\ Deleting(r0, p) <=> Job(s).op = "stop"
                                 /\ ~Adding(r0, p)' /\ ~Deleting(r0, p)'
         /\ \A q \in Parts : \A r :
              q # p \/ r # r0 =>
                Add(r, q)' = Add(r, q) /\ Del(r, q)' = Del(r, q) /\ (Adding(r, q)' <=> Adding(r, q))
<1>1. p \in Parts /\ r0 \in RulesOf(p) /\ Job(s).op \in {"start", "stop"}
  BY AtRule DEF Jobs
<1>2. /\ r0 \in Pending(s)
      /\ \A q \in Parts : On(s, q) <=> q = p
      /\ \A q \in Parts : \A r :
           (On(s, q)' /\ r \in Pending(s)') <=> (On(s, q) /\ r \in Pending(s) /\ r # r0)
      /\ \A r \in Pending(s) : r # r0 => Job(s)' = Job(s)
      /\ \A t \in Shells \ {s} : at'[t] = at[t] /\ Job(t)' = Job(t)
      /\ \A t \in Shells : \A q \in Parts : On(t, q)' => On(t, q)
  BY PendingDone
<1>3. ASSUME r0 \notin blurred
      PROVE  /\ Adding(r0, p) <=> Job(s).op = "start"
             /\ Deleting(r0, p) <=> Job(s).op = "stop"
             /\ ~Adding(r0, p)' /\ ~Deleting(r0, p)'
  <2>1. \A t \in Shells \ {s} : ~On(t, p)
    BY <1>1, <1>2, <1>3 DEF MeetInv
  <2>2. \A t \in Shells : (On(t, p) <=> t = s) /\ (On(t, p)' => t = s)
    BY <1>1, <1>2, <2>1
  <2>3. ~(On(s, p)' /\ r0 \in Pending(s)')
    BY <1>1, <1>2
  <2> QED
    BY <1>2, <2>2, <2>3 DEF Adding, Deleting
<1>4. ASSUME NEW q \in Parts, NEW r, q # p \/ r # r0
      PROVE  Add(r, q)' = Add(r, q) /\ Del(r, q)' = Del(r, q) /\ (Adding(r, q)' <=> Adding(r, q))
  <2>1. (On(s, q)' /\ r \in Pending(s)') <=> (On(s, q) /\ r \in Pending(s))
    BY <1>2, <1>4
  <2>2. On(s, q) /\ r \in Pending(s) => Job(s)' = Job(s)
    BY <1>2, <1>4
  <2> QED
    BY <1>2, <2>1, <2>2, SameWork
<1> QED
  BY <1>1, <1>3, <1>4

\* Jobs that meet on a part blur its rules, which stay so.
LEMMA MeetStep == Types /\ MeetInv /\ [Next]_vars => MeetInv' /\ blurred \subseteq blurred'
<1> SUFFICES ASSUME Types, MeetInv, [Next]_vars PROVE MeetInv' /\ blurred \subseteq blurred'
  OBVIOUS
<1>0. ASSUME blurred \subseteq blurred',
             \A t \in Shells : \A q \in Parts : On(t, q)' => On(t, q)
      PROVE  MeetInv' /\ blurred \subseteq blurred'
  BY <1>0 DEF MeetInv
<1>1. ASSUME NEW s \in Shells, RunScript(s)
      PROVE  MeetInv' /\ blurred \subseteq blurred'
  <2>1. \A q \in Parts : ~On(s, q)'
    BY <1>1, RunTypes DEF On
  <2>2. \A t \in Shells \ {s} : \A q \in Parts : On(t, q)' => On(t, q)
    BY <1>1, RunTypes, SamePlace
  <2>3. blurred' = blurred
    BY <1>1 DEF RunScript, history
  <2> QED
    BY <1>0, <2>1, <2>2, <2>3
<1>2. ASSUME NEW s \in Shells, NextJob(s)
      PROVE  MeetInv' /\ blurred \subseteq blurred'
  <2>1. /\ \A t \in Shells \ {s} : \A q \in Parts : On(t, q)' <=> On(t, q)
        /\ Job(s) \in Jobs /\ Job(s)' = Job(s)
    BY <1>2, NextJobTypes, SamePlace
  <2>2. CASE Job(s).part \in Parts
    <3>1. BeginRules(s)
      BY <1>2, <2>2 DEF NextJob, Parts
    <3>2. /\ blurred \subseteq blurred'
          /\ Meets(s, Job(s).part) => RulesOf(Job(s).part) \subseteq blurred'
      BY <3>1 DEF BeginRules
    <3>3. \A q \in Parts : On(s, q)' => q = Job(s).part
      BY <2>1 DEF On
    <3>4. ASSUME NEW q \in Parts, NEW t \in Shells, NEW u \in Shells,
                 t # u, On(t, q)', On(u, q)'
          PROVE  RulesOf(q) \subseteq blurred'
      <4>1. CASE t # s /\ u # s
        BY <2>1, <3>2, <3>4, <4>1 DEF MeetInv
      <4>2. CASE t = s
        BY <2>1, <3>2, <3>3, <3>4, <4>2 DEF Meets
      <4>3. CASE u = s
        BY <2>1, <3>2, <3>3, <3>4, <4>3 DEF Meets
      <4> QED
        BY <4>1, <4>2, <4>3
    <3> QED
      BY <3>2, <3>4 DEF MeetInv
  <2>3. CASE Job(s).part \notin Parts
    <3>1. Job(s).part = "bridge"
      BY <2>1, <2>3 DEF Jobs
    <3>2. blurred' = blurred
      BY <1>2, <3>1 DEF NextJob, BeginBridges
    <3>3. \A q \in Parts : ~On(s, q)'
      BY <2>1, <2>3 DEF On
    <3> QED
      BY <1>0, <2>1, <3>2, <3>3
  <2> QED
    BY <2>2, <2>3
<1>3. ASSUME NEW s \in Shells, Iptables(s) \/ Locked(s)
      PROVE  MeetInv' /\ blurred \subseteq blurred'
  <2>1. AtRules(s) /\ Done(s) /\ blurred \subseteq blurred'
    BY <1>3 DEF Iptables, Locked, history
  <2> QED
    BY <1>0, <2>1, PendingDone
<1>4. ASSUME NEW s \in Shells, Nic(s) \/ Bridge(s)
      PROVE  MeetInv' /\ blurred \subseteq blurred'
  <2>1. AtBridges(s) /\ Done(s) /\ blurred' = blurred
    BY <1>4 DEF Nic, Bridge
  <2>2. at[s] # 0 /\ Job(s).part = "bridge"
    BY <2>1 DEF AtBridges, On
  <2>3. \A q \in Parts : ~On(s, q)'
    BY <2>1, <2>2, DoneTypes DEF On, Parts
  <2>4. \A t \in Shells \ {s} : \A q \in Parts : On(t, q)' => On(t, q)
    BY <2>1, <2>2, DoneTypes, SamePlace
  <2> QED
    BY <1>0, <2>1, <2>3, <2>4
<1>5. CASE UNCHANGED vars
  BY <1>0, <1>5 DEF vars, history, On, Job
<1> QED
  BY <1>1, <1>2, <1>3, <1>4, <1>5 DEF Next

\* What a step that changes neither copies nor depths, and leaves who is to append or delete
\* the rules that are not blurred, does to the rules.
LEMMA FollowSame ==
  ASSUME FollowInv, blurred \subseteq blurred', taken' = taken, depth' = depth, copies' = copies,
         \A q \in Parts : \A r \in RulesOf(q) \ blurred' :
           Add(r, q)' = Add(r, q) /\ Del(r, q)' = Del(r, q) /\ (Adding(r, q)' <=> Adding(r, q))
  PROVE  FollowInv'
<1>1. ASSUME NEW q \in Parts, NEW r \in RulesOf(q) \ blurred'
      PROVE  /\ Adding(r, q)' => depth'[q] # 0
             /\ r # Shared => \/ copies'[r] + Add(r, q)' = depth'[q] + Del(r, q)'
                              \/ copies'[r] = 0 /\ depth'[q] = 0
  BY DEF FollowInv
<1>2. "lxc" \in Parts /\ "ap" \in Parts /\ Shared \in RulesOf("lxc") /\ Shared \in RulesOf("ap")
  BY ListRules DEF Parts
<1>3. Shared \notin blurred' =>
        /\ Add(Shared, "lxc")' = Add(Shared, "lxc") /\ Add(Shared, "ap")' = Add(Shared, "ap")
        /\ Del(Shared, "lxc")' = Del(Shared, "lxc") /\ Del(Shared, "ap")' = Del(Shared, "ap")
  BY <1>2
<1> QED
  BY <1>1, <1>3 DEF FollowInv

\* A job that begins: its part is due once more or once less, and all its rules are to be
\* appended or deleted (start() and stop(), iptables-lxc.sh:6-24).
LEMMA FollowBegin ==
  ASSUME Types, MeetInv, FollowInv, NEW s \in Shells, NextJob(s), NEW p \in Parts,
         Job(s).part = p
  PROVE  FollowInv'
<1>1. /\ BeginRules(s) /\ copies' = copies /\ Job(s).op \in {"start", "stop"}
      /\ copies \in [Rules -> Nat] /\ depth \in [Parts -> Nat] /\ depth[p] \in Nat
      /\ p # "bridge"
  BY NextJobTypes DEF NextJob, Parts, Jobs, Types
<1>2. blurred \subseteq blurred'
  BY <1>1 DEF BeginRules
<1>3. /\ \A r \in RulesOf(p) \ blurred' :
           /\ ~Adding(r, p) /\ ~Deleting(r, p)
           /\ Adding(r, p)' <=> Job(s).op = "start"
           /\ Deleting(r, p)' <=> Job(s).op = "stop"
      /\ \A q \in Parts \ {p} : \A r :
           Add(r, q)' = Add(r, q) /\ Del(r, q)' = Del(r, q) /\ (Adding(r, q)' <=> Adding(r, q))
  BY BeginWork
<1>4. /\ \A q \in Parts \ {p} : depth'[q] = depth[q]
      /\ Job(s).op = "start" => depth'[p] = depth[p] + 1 /\ taken' = taken
      /\ Job(s).op = "stop" /\ depth[p] > 0 => depth'[p] = depth[p] - 1 /\ taken' = taken
      /\ Job(s).op = "stop" /\ depth[p] = 0 =>
           depth' = depth /\ taken' = taken \cup
             (RulesOf(p) \cap UNION {RulesOf(q) : q \in Parts \ {p}})
  BY <1>1 DEF BeginRules
<1>5. \A r \in RulesOf(p) \ blurred' :
        /\ Add(r, p) = 0 /\ Del(r, p) = 0
        /\ Add(r, p)' = IF Job(s).op = "start" THEN 1 ELSE 0
        /\ Del(r, p)' = IF Job(s).op = "start" THEN 0 ELSE 1
  BY <1>1, <1>3 DEF Add, Del, One
<1>6. ASSUME NEW q \in Parts, NEW r \in RulesOf(q) \ blurred'
      PROVE  /\ Adding(r, q)' => depth'[q] # 0
             /\ r # Shared => \/ copies'[r] + Add(r, q)' = depth'[q] + Del(r, q)'
                              \/ copies'[r] = 0 /\ depth'[q] = 0
  <2>1. CASE q # p
    BY <1>1, <1>2, <1>3, <1>4, <2>1 DEF FollowInv
  <2>2. CASE q = p
    <3>1. copies[r] \in Nat
      BY <1>1, ListRules
    <3>2. r # Shared => \/ copies[r] + Add(r, p) = depth[p] + Del(r, p)
                        \/ copies[r] = 0 /\ depth[p] = 0
      BY <1>2, <2>2 DEF FollowInv
    <3>3. r # Shared => copies[r] = depth[p]
      BY <1>1, <1>5, <2>2, <3>1, <3>2
    <3>4. Adding(r, p)' => Job(s).op = "start"
      BY <1>3, <2>2
    <3>5. CASE Job(s).op = "start"
      BY <1>1, <1>4, <1>5, <2>2, <3>1, <3>3, <3>5
    <3>6. CASE Job(s).op = "stop"
      BY <1>1, <1>4, <1>5, <2>2, <3>1, <3>3, <3>4, <3>6
    <3> QED
      BY <1>1, <3>5, <3>6
  <2> QED
    BY <2>1, <2>2
<1>7. ASSUME Shared \notin blurred'
      PROVE  LET have == copies'[Shared] + Add(Shared, "lxc")' + Add(Shared, "ap")'
                 due == depth'["lxc"] + depth'["ap"] + Del(Shared, "lxc")' + Del(Shared, "ap")' IN
             have <= due /\ (Shared \notin taken' => have = due)
  <2>1. /\ "lxc" \in Parts /\ "ap" \in Parts /\ Shared \in Rules
        /\ Shared \in RulesOf("lxc") /\ Shared \in RulesOf("ap")
    BY ListRules DEF Parts
  <2>2. /\ depth["lxc"] \in Nat /\ depth["ap"] \in Nat /\ copies[Shared] \in Nat
        /\ Add(Shared, "lxc") \in {0, 1} /\ Add(Shared, "ap") \in {0, 1}
        /\ Del(Shared, "lxc") \in {0, 1} /\ Del(Shared, "ap") \in {0, 1}
    BY <1>1, <2>1 DEF Add, Del, One
  <2> DEFINE have == copies[Shared] + Add(Shared, "lxc") + Add(Shared, "ap")
             due == depth["lxc"] + depth["ap"] + Del(Shared, "lxc") + Del(Shared, "ap")
  <2>3. have <= due /\ (Shared \notin taken => have = due)
    BY <1>2, <1>7 DEF FollowInv
  <2>4. CASE p \notin {"lxc", "ap"}
    <3>1. /\ Add(Shared, "lxc")' = Add(Shared, "lxc") /\ Add(Shared, "ap")' = Add(Shared, "ap")
          /\ Del(Shared, "lxc")' = Del(Shared, "lxc") /\ Del(Shared, "ap")' = Del(Shared, "ap")
          /\ depth'["lxc"] = depth["lxc"] /\ depth'["ap"] = depth["ap"]
      BY <1>3, <1>4, <2>1, <2>4
    <3>2. taken \subseteq taken'
      BY <1>1, <1>4
    <3> QED
      BY <1>1, <2>3, <3>1, <3>2
  <2>5. ASSUME NEW o \in Parts, (p = "lxc" /\ o = "ap") \/ (p = "ap" /\ o = "lxc")
        PROVE  LET h == copies'[Shared] + Add(Shared, "lxc")' + Add(Shared, "ap")'
                   d == depth'["lxc"] + depth'["ap"] + Del(Shared, "lxc")' + Del(Shared, "ap")' IN
               h <= d /\ (Shared \notin taken' => h = d)
    <3>1. /\ Add(Shared, o)' = Add(Shared, o) /\ Del(Shared, o)' = Del(Shared, o)
          /\ depth'[o] = depth[o]
      BY <1>3, <1>4, <2>5
    <3>2. /\ Add(Shared, p) = 0 /\ Del(Shared, p) = 0
          /\ Add(Shared, p)' = IF Job(s).op = "start" THEN 1 ELSE 0
          /\ Del(Shared, p)' = IF Job(s).op = "start" THEN 0 ELSE 1
      BY <1>5, <1>7, <2>1, <2>5
    <3>3. CASE Job(s).op = "start"
      BY <1>1, <1>4, <2>2, <2>3, <2>5, <3>1, <3>2, <3>3
    <3>4. CASE Job(s).op = "stop" /\ depth[p] > 0
      BY <1>1, <1>4, <2>2, <2>3, <2>5, <3>1, <3>2, <3>4
    <3>5. CASE Job(s).op = "stop" /\ depth[p] = 0
      <4>1. Shared \in taken'
        <5>1. Shared \in RulesOf(p) /\ Shared \in RulesOf(o) /\ o \in Parts \ {p}
          BY <2>1, <2>5
        <5> QED
          BY <1>4, <3>5, <5>1
      <4> QED
        BY <1>1, <1>4, <2>2, <2>3, <2>5, <3>1, <3>2, <3>5, <4>1
    <3> QED
      BY <1>1, <3>3, <3>4, <3>5
  <2>6. CASE p = "lxc"
    BY <2>1, <2>5, <2>6
  <2>7. CASE p = "ap"
    BY <2>1, <2>5, <2>7
  <2> QED
    BY <2>4, <2>6, <2>7
<1> QED
  BY <1>6, <1>7 DEF FollowInv

\* A command that is done: one copy more or one less, and its rule is its job's no more
\* (iptables-lxc.sh:8-23).
LEMMA FollowCommand ==
  ASSUME Types, MeetInv, FollowInv, NEW s \in Shells, Iptables(s)
  PROVE  FollowInv'
<1>1. PICK p, r0 : Job(s).part = p /\ Command(s).on = r0
  OBVIOUS
<1>2. /\ AtRules(s) /\ Done(s)
      /\ blurred' = blurred /\ taken' = taken /\ depth' = depth
      /\ copies' = [copies EXCEPT ![r0] = IF Command(s).do = "-A" THEN copies[r0] + 1
                                          ELSE IF copies[r0] > 0 THEN copies[r0] - 1 ELSE 0]
      /\ copies \in [Rules -> Nat] /\ depth \in [Parts -> Nat]
  BY <1>1 DEF Iptables, history, Types
<1>3. /\ p \in Parts /\ r0 \in RulesOf(p) /\ Job(s).op \in {"start", "stop"}
      /\ r0 \notin blurred => /\ Adding(r0, p) <=> Job(s).op = "start"
                              /\ Deleting(r0, p) <=> Job(s).op = "stop"
                              /\ ~Adding(r0, p)' /\ ~Deleting(r0, p)'
      /\ \A q \in Parts : \A r :
           q # p \/ r # r0 =>
             Add(r, q)' = Add(r, q) /\ Del(r, q)' = Del(r, q) /\ (Adding(r, q)' <=> Adding(r, q))
  BY <1>1, <1>2, CommandWork
<1>4. r0 \in Rules /\ Command(s).do = IF Job(s).op = "start" THEN "-A" ELSE "-D"
  BY <1>1, <1>2, AtRule
<1>5. copies[r0] \in Nat /\ depth[p] \in Nat
  BY <1>2, <1>3, <1>4
<1>6. /\ \A r \in Rules \ {r0} : copies'[r] = copies[r]
      /\ Job(s).op = "start" => copies'[r0] = copies[r0] + 1
      /\ Job(s).op = "stop" => copies'[r0] = IF copies[r0] > 0 THEN copies[r0] - 1 ELSE 0
  BY <1>2, <1>4
<1>7. r0 \notin blurred => /\ Add(r0, p) = IF Job(s).op = "start" THEN 1 ELSE 0
                           /\ Del(r0, p) = IF Job(s).op = "start" THEN 0 ELSE 1
                           /\ Add(r0, p)' = 0 /\ Del(r0, p)' = 0
  BY <1>3 DEF Add, Del, One
<1>8. ASSUME NEW q \in Parts, NEW r \in RulesOf(q) \ blurred'
      PROVE  /\ Adding(r, q)' => depth'[q] # 0
             /\ r # Shared => \/ copies'[r] + Add(r, q)' = depth'[q] + Del(r, q)'
                              \/ copies'[r] = 0 /\ depth'[q] = 0
  <2>1. /\ Adding(r, q) => depth[q] # 0
        /\ r # Shared => \/ copies[r] + Add(r, q) = depth[q] + Del(r, q)
                         \/ copies[r] = 0 /\ depth[q] = 0
    BY <1>2 DEF FollowInv
  <2>2. CASE r # r0
    <3>1. copies'[r] = copies[r]
      BY <1>6, <2>2, ListRules
    <3> QED
      BY <1>2, <1>3, <2>1, <2>2, <3>1
  <2>3. CASE r = r0 /\ q # p
    <3>1. r = Shared
      BY <1>3, <2>3, ListRules
    <3> QED
      BY <1>2, <1>3, <2>1, <2>3, <3>1
  <2>4. CASE r = r0 /\ q = p
    <3>1. ~Adding(r0, p)' /\ (Job(s).op = "start" => depth[p] # 0)
      BY <1>2, <1>3, <2>1, <2>4
    <3>2. CASE Job(s).op = "start"
      BY <1>2, <1>5, <1>6, <1>7, <2>1, <2>4, <3>1, <3>2
    <3>3. CASE Job(s).op = "stop"
      BY <1>2, <1>5, <1>6, <1>7, <2>1, <2>4, <3>1, <3>3
    <3> QED
      BY <1>3, <3>2, <3>3
  <2> QED
    BY <2>2, <2>3, <2>4
<1>9. ASSUME Shared \notin blurred'
      PROVE  LET have == copies'[Shared] + Add(Shared, "lxc")' + Add(Shared, "ap")'
                 due == depth'["lxc"] + depth'["ap"] + Del(Shared, "lxc")' + Del(Shared, "ap")' IN
             have <= due /\ (Shared \notin taken' => have = due)
  <2>1. /\ "lxc" \in Parts /\ "ap" \in Parts /\ Shared \in Rules
        /\ Shared \in RulesOf("lxc") /\ Shared \in RulesOf("ap")
    BY ListRules DEF Parts
  <2>2. /\ depth["lxc"] \in Nat /\ depth["ap"] \in Nat /\ copies[Shared] \in Nat
        /\ Add(Shared, "lxc") \in {0, 1} /\ Add(Shared, "ap") \in {0, 1}
        /\ Del(Shared, "lxc") \in {0, 1} /\ Del(Shared, "ap") \in {0, 1}
    BY <1>2, <2>1 DEF Add, Del, One
  <2> DEFINE have == copies[Shared] + Add(Shared, "lxc") + Add(Shared, "ap")
             due == depth["lxc"] + depth["ap"] + Del(Shared, "lxc") + Del(Shared, "ap")
  <2>3. have <= due /\ (Shared \notin taken => have = due)
    BY <1>2, <1>9 DEF FollowInv
  <2>4. CASE r0 # Shared
    BY <1>2, <1>3, <1>6, <2>1, <2>3, <2>4
  <2>5. ASSUME r0 = Shared, NEW o \in Parts, (p = "lxc" /\ o = "ap") \/ (p = "ap" /\ o = "lxc")
        PROVE  LET h == copies'[Shared] + Add(Shared, "lxc")' + Add(Shared, "ap")'
                   d == depth'["lxc"] + depth'["ap"] + Del(Shared, "lxc")' + Del(Shared, "ap")' IN
               h <= d /\ (Shared \notin taken' => h = d)
    <3>1. Add(Shared, o)' = Add(Shared, o) /\ Del(Shared, o)' = Del(Shared, o)
      BY <1>3, <2>5
    <3>2. /\ Add(Shared, p) = IF Job(s).op = "start" THEN 1 ELSE 0
          /\ Del(Shared, p) = IF Job(s).op = "start" THEN 0 ELSE 1
          /\ Add(Shared, p)' = 0 /\ Del(Shared, p)' = 0
      BY <1>2, <1>7, <1>9, <2>5
    <3>3. Add(Shared, o) <= depth[o]
      <4>1. Adding(Shared, o) => depth[o] # 0
        BY <1>2, <1>9, <2>1, <2>5 DEF FollowInv
      <4>2. depth[o] \in Nat
        BY <1>2
      <4> QED
        BY <4>1, <4>2 DEF Add, One
    <3>4. CASE Job(s).op = "start"
      BY <1>2, <1>6, <2>2, <2>3, <2>5, <3>1, <3>2, <3>4
    <3>5. CASE Job(s).op = "stop"
      BY <1>2, <1>6, <2>2, <2>3, <2>5, <3>1, <3>2, <3>3, <3>5
    <3> QED
      BY <1>3, <3>4, <3>5
  <2>6. r0 = Shared => p \in {"lxc", "ap"}
    BY <1>3, ListRules
  <2>7. CASE r0 = Shared /\ p = "lxc"
    BY <2>1, <2>5, <2>7
  <2>8. CASE r0 = Shared /\ p = "ap"
    BY <2>1, <2>5, <2>8
  <2> QED
    BY <2>4, <2>6, <2>7, <2>8
<1> QED
  BY <1>8, <1>9 DEF FollowInv

\* The copies follow the starts and stops at every step.
LEMMA FollowStep == Types /\ MeetInv /\ FollowInv /\ [Next]_vars => FollowInv'
<1> SUFFICES ASSUME Types, MeetInv, FollowInv, [Next]_vars PROVE FollowInv'
  OBVIOUS
<1>0. blurred \subseteq blurred'
  BY MeetStep
<1>1. ASSUME NEW s \in Shells, RunScript(s)
      PROVE  FollowInv'
  <2>1. UNCHANGED <<copies, history>> /\ at[s] = 0 /\ at'[s] = 0
    BY <1>1, RunTypes DEF RunScript
  <2>2. \A q \in Parts : ~On(s, q) /\ ~On(s, q)'
    BY <2>1 DEF On
  <2>3. \A t \in Shells \ {s} : at'[t] = at[t] /\ Job(t)' = Job(t)
    BY <1>1, RunTypes
  <2>4. \A q \in Parts : \A r :
          Add(r, q)' = Add(r, q) /\ Del(r, q)' = Del(r, q) /\ (Adding(r, q)' <=> Adding(r, q))
    BY <2>2, <2>3, SameWork
  <2> QED
    BY <1>0, <2>1, <2>4, FollowSame DEF history
<1>2. ASSUME NEW s \in Shells, NextJob(s)
      PROVE  FollowInv'
  <2>1. CASE Job(s).part \in Parts
    BY <1>2, <2>1, FollowBegin
  <2>2. CASE Job(s).part \notin Parts
    <3>1. Job(s).part = "bridge" /\ Job(s)' = Job(s)
      BY <1>2, <2>2, NextJobTypes DEF Jobs
    <3>2. UNCHANGED <<copies, depth, taken, blurred>>
      BY <1>2, <3>1 DEF NextJob, BeginBridges
    <3>3. \A q \in Parts : ~On(s, q) /\ ~On(s, q)'
      BY <2>2, <3>1 DEF On
    <3>4. \A q \in Parts : \A r :
            Add(r, q)' = Add(r, q) /\ Del(r, q)' = Del(r, q) /\ (Adding(r, q)' <=> Adding(r, q))
      BY <1>2, <3>3, NextJobTypes, SameWork
    <3> QED
      BY <1>0, <3>2, <3>4, FollowSame
  <2> QED
    BY <2>1, <2>2
<1>3. ASSUME NEW s \in Shells, Iptables(s)
      PROVE  FollowInv'
  BY <1>3, FollowCommand
<1>4. ASSUME NEW s \in Shells, Locked(s)
      PROVE  FollowInv'
  <2>1. /\ AtRules(s) /\ Done(s) /\ UNCHANGED <<copies, depth, taken>>
        /\ blurred' = blurred \cup {Command(s).on}
    BY <1>4 DEF Locked
  <2>2. \A q \in Parts : \A r \in RulesOf(q) \ blurred' :
          Add(r, q)' = Add(r, q) /\ Del(r, q)' = Del(r, q) /\ (Adding(r, q)' <=> Adding(r, q))
    BY <2>1, CommandWork
  <2> QED
    BY <1>0, <2>1, <2>2, FollowSame
<1>5. ASSUME NEW s \in Shells, Nic(s) \/ Bridge(s)
      PROVE  FollowInv'
  <2>1. AtBridges(s) /\ Done(s) /\ UNCHANGED <<copies, depth, taken, blurred>>
    BY <1>5 DEF Nic, Bridge
  <2>2. at[s] # 0 /\ Job(s).part = "bridge"
    BY <2>1 DEF AtBridges, On
  <2>3. \A q \in Parts : ~On(s, q) /\ ~On(s, q)'
    BY <2>1, <2>2, DoneTypes DEF On, Parts
  <2>4. \A q \in Parts : \A r :
          Add(r, q)' = Add(r, q) /\ Del(r, q)' = Del(r, q) /\ (Adding(r, q)' <=> Adding(r, q))
    BY <2>1, <2>2, <2>3, DoneTypes, SameWork
  <2> QED
    BY <1>0, <2>1, <2>4, FollowSame
<1>6. CASE UNCHANGED vars
  <2>1. /\ UNCHANGED <<copies, depth, taken, blurred>>
        /\ \A t \in Shells : at'[t] = at[t] /\ Job(t)' = Job(t)
    BY <1>6 DEF vars, history, Job
  <2>2. \A t \in Shells :
          Pending(t)' = Pending(t) /\ \A p \in Parts : On(t, p)' <=> On(t, p)
    BY <2>1, SamePlace
  <2>3. \A q \in Parts : \A r :
          Add(r, q)' = Add(r, q) /\ Del(r, q)' = Del(r, q) /\ (Adding(r, q)' <=> Adding(r, q))
    BY <2>1, <2>2 DEF Add, Del, One, Adding, Deleting
  <2> QED
    BY <1>0, <2>1, <2>3, FollowSame
<1> QED
  BY <1>1, <1>2, <1>3, <1>4, <1>5, <1>6 DEF Next

\* start() and stop() in sbin: each rule is there once for every start that no stop has
\* undone, those of another script that shares it included.
THEOREM RulesFollow == Spec => []CopiesFollow
<1>1. Init => Types /\ MeetInv /\ FollowInv
  <2> SUFFICES ASSUME Init PROVE MeetInv /\ FollowInv
    BY TypesInit
  <2>1. \A s \in Shells : \A p \in Parts : ~On(s, p)
    BY DEF Init, On
  <2>2. \A p \in Parts : \A r : Add(r, p) = 0 /\ Del(r, p) = 0 /\ ~Adding(r, p)
    BY <2>1 DEF Add, Del, One, Adding, Deleting
  <2>3. \A p \in Parts : depth[p] = 0 /\ \A r \in RulesOf(p) : copies[r] = 0
    BY ListRules DEF Init
  <2>4. /\ "lxc" \in Parts /\ "ap" \in Parts
        /\ Shared \in RulesOf("lxc") /\ Shared \in RulesOf("ap")
    BY ListRules DEF Parts
  <2>5. copies[Shared] = 0 /\ depth["lxc"] = 0 /\ depth["ap"] = 0
    BY <2>3, <2>4
  <2> QED
    BY <2>1, <2>2, <2>3, <2>4, <2>5 DEF MeetInv, FollowInv
<1>2. Types /\ MeetInv /\ FollowInv /\ [Next]_vars => (Types /\ MeetInv /\ FollowInv)'
  BY TypesStep, MeetStep, FollowStep
<1>3. Types /\ FollowInv => CopiesFollow
  <2> SUFFICES ASSUME Types, FollowInv, NEW r \in Rules \ blurred,
                      \A s \in Shells : r \notin Pending(s)
               PROVE  IF r \in taken THEN copies[r] <= Due(r) ELSE copies[r] = Due(r)
    BY DEF CopiesFollow
  <2>1. \A p \in Parts : Add(r, p) = 0 /\ Del(r, p) = 0
    BY DEF Add, Del, One, Adding, Deleting
  <2>2. /\ "br" \in Parts /\ "lxc" \in Parts /\ "ap" \in Parts /\ "nat" \in Parts
        /\ depth \in [Parts -> Nat] /\ copies[r] \in Nat /\ taken \subseteq {Shared}
    BY DEF Types, Parts
  <2>3. \A p \in Parts : depth[p] \in Nat
    BY <2>2
  <2>4. \A p \in Parts : Share(r, p) = IF r \in RulesOf(p) THEN depth[p] ELSE 0
    BY DEF Share
  <2>5. CASE r = Shared
    <3>1. /\ r \in RulesOf("lxc") /\ r \in RulesOf("ap")
          /\ r \notin RulesOf("br") /\ r \notin RulesOf("nat")
      BY <2>2, <2>5, ListRules
    <3>2. Due(r) = depth["lxc"] + depth["ap"]
      BY <2>2, <2>3, <2>4, <3>1 DEF Due
    <3>3. copies[r] <= depth["lxc"] + depth["ap"]
            /\ (r \notin taken => copies[r] = depth["lxc"] + depth["ap"])
      BY <2>1, <2>2, <2>3, <2>5 DEF FollowInv
    <3> QED
      BY <3>2, <3>3
  <2>6. CASE r # Shared
    <3>1. PICK p \in Parts : r \in RulesOf(p)
      BY DEF Rules
    <3>2. \A q \in Parts : r \in RulesOf(q) => q = p
      BY <2>6, <3>1, ListRules
    <3>3. copies[r] = depth[p]
      <4>1. \/ copies[r] + Add(r, p) = depth[p] + Del(r, p)
            \/ copies[r] = 0 /\ depth[p] = 0
        BY <2>6, <3>1 DEF FollowInv
      <4>2. depth[p] \in Nat
        BY <2>3
      <4> QED
        BY <2>1, <2>2, <4>1, <4>2
    <3>4. Due(r) = depth[p]
      <4>1. \A q \in Parts : Share(r, q) = IF q = p THEN depth[p] ELSE 0
        BY <2>4, <3>1, <3>2
      <4>2. p = "br" \/ p = "lxc" \/ p = "ap" \/ p = "nat"
        BY DEF Parts
      <4>3. depth[p] \in Nat
        BY <2>3
      <4> QED
        BY <2>2, <4>1, <4>2, <4>3 DEF Due
    <3> QED
      BY <2>2, <2>6, <3>3, <3>4
  <2> QED
    BY <2>5, <2>6
<1> QED
  BY <1>1, <1>2, <1>3, PTL DEF Spec

=============================================================================
