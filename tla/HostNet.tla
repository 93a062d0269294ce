------------------------------- MODULE HostNet -------------------------------
(***************************************************************************)
(* The network of the host: the rules of sbin/iptables-br.sh,              *)
(* iptables-lxc.sh and iptables-wlan0_ap.sh, the bridges of                *)
(* etc/rc.d/rc.qemubridge, and etc/rc.d/rc.local-slackvirt, which starts   *)
(* them all.                                                               *)
(*                                                                         *)
(* A script is a sequence of jobs, one for each function it calls, and a   *)
(* job a sequence of commands.  A command that fails changes nothing, and  *)
(* no script looks whether one did.  Scripts run at one time interleave    *)
(* command by command.                                                     *)
(***************************************************************************)
EXTENDS Integers, Sequences

CONSTANTS
  Shells,    \* who runs scripts: the boot, users
  Length,    \* of the list of rules of each part: 14, 5, 11, 3
  Place,     \* of the rule that two of the lists share: 1 and 9
  MaxRuns,   \* bound: scripts run
  MaxLocked  \* bound: commands that find the lock of iptables taken

ASSUME NetAssumption ==
  /\ Length \in [{"br", "lxc", "ap", "nat"} -> Nat \ {0}]
  /\ Place \in [{"lxc", "ap"} -> Nat \ {0}]
  /\ \A p \in {"lxc", "ap"} : Place[p] \in 1 .. Length[p]
  /\ MaxRuns \in Nat /\ MaxLocked \in Nat

VARIABLES
  copies,   \* how often each rule is in its chain
  nic,      \* qemubr0-nic: "none", "free", "member" of qemubr0
  bridge,   \* each bridge: "none", "down", "up"
  jobs,     \* of each shell: the jobs its script has still to end
  at,       \* the command that the first of them is at, 0 before it is begun
  depth,    \* history: starts of each part that no stop has undone
  taken,    \* history: rules of which a stop of a part that was not up took a copy
  blurred,  \* history: rules that jobs on one part have met on, or found locked
  alone,    \* history: is the last job on the bridges the only one since it began?
  settled,  \* history: what the bridges are to be since it ended, or "open"
  nruns, nlocked  \* history: scripts run, commands that found the lock taken

history == <<depth, taken, blurred, alone, settled>>
vars == <<copies, nic, bridge, jobs, at, history, nruns, nlocked>>

-----------------------------------------------------------------------------
(* The scripts *)

Parts == {"br", "lxc", "ap", "nat"}

\* A rule is known by its place in its list, but for one that is in two lists.
Shared == <<"shared", 0>>
Lists ==
  [p \in Parts |-> [i \in 1 .. Length[p] |->
     IF p \in DOMAIN Place /\ Place[p] = i THEN Shared ELSE <<p, i>>]]

RulesOf(p) == {Lists[p][i] : i \in 1 .. Length[p]}
Rules == UNION {RulesOf(p) : p \in Parts}

Bridges == {"qemubr0", "qemubr1", "qemubr2"}

Do(cmd, on) == [do |-> cmd, on |-> on]

BridgesUp ==
  <<Do("link_add", "nic"), Do("addbr", "qemubr0"), Do("addif", "nic"), Do("up", "qemubr0"),
    Do("addbr", "qemubr1"), Do("up", "qemubr1"), Do("addbr", "qemubr2"), Do("up", "qemubr2")>>

\* A mutant of BridgesDown: a bridge is deleted before it is down.
BridgesDown_Up ==
  <<Do("down", "qemubr1"), Do("delbr", "qemubr1"), Do("down", "qemubr2"), Do("delbr", "qemubr2"),
    Do("delif", "nic"), Do("delbr", "qemubr0"), Do("down", "qemubr0"), Do("link_del", "nic")>>

BridgesDown ==
  <<Do("down", "qemubr1"), Do("delbr", "qemubr1"), Do("down", "qemubr2"), Do("delbr", "qemubr2"),
    Do("down", "qemubr0"), Do("delif", "nic"), Do("delbr", "qemubr0"), Do("link_del", "nic")>>

Start(part) == [op |-> "start", part |-> part]
Stop(part) == [op |-> "stop", part |-> part]

\* A mutant of Commands: the stop of a list that is written out twice forgets its last rule.
Commands_StopForgets(job) ==
  IF job.part = "bridge" THEN IF job.op = "start" THEN BridgesUp ELSE BridgesDown
  ELSE LET list == Lists[job.part] IN
       IF job.op = "start" THEN [i \in 1 .. Len(list) |-> Do("-A", list[i])]
       ELSE [i \in 1 .. IF job.part = "lxc" THEN Len(list) - 1 ELSE Len(list) |-> Do("-D", list[i])]

\* for rule in $RULES
Commands(job) ==
  IF job.part = "bridge" THEN IF job.op = "start" THEN BridgesUp ELSE BridgesDown
  ELSE [i \in 1 .. Length[job.part] |->
          Do(IF job.op = "start" THEN "-A" ELSE "-D", Lists[job.part][i])]

RestartAp == <<Stop("ap"), Stop("nat"), Start("ap"), Start("nat")>>

Restart(part) == <<Stop(part), Start(part)>>

\* What of the network rc.local-slackvirt starts, in its order; the
\* bridges only if their script can be executed.
Boots ==
  {<<Start("bridge"), Start("br"), Start("lxc"), Start("ap")>>,
   <<Start("br"), Start("lxc"), Start("ap")>>}

ScriptsRun ==
  {<<Start(p)>> : p \in Parts \cup {"bridge"}} \cup {<<Stop(p)>> : p \in Parts \cup {"bridge"}}
    \cup {Restart(p) : p \in {"br", "lxc", "bridge"}} \cup {RestartAp} \cup Boots

-----------------------------------------------------------------------------

Init ==
  /\ copies = [r \in Rules |-> 0]
  /\ nic = "none" /\ bridge = [b \in Bridges |-> "none"]
  /\ jobs = [s \in Shells |-> <<>>] /\ at = [s \in Shells |-> 0]
  /\ depth = [p \in Parts |-> 0] /\ taken = {} /\ blurred = {}
  /\ alone = FALSE /\ settled = "down"
  /\ nruns = 0 /\ nlocked = 0

Job(s) == Head(jobs[s])
Work(s) == Commands(Job(s))
Command(s) == Work(s)[at[s]]

\* Is a shell at the job on a part?
On(s, part) == at[s] # 0 /\ Job(s).part = part
AtBridges(s) == On(s, "bridge")
AtRules(s) == at[s] # 0 /\ Job(s).part \in Parts

\* The rules that the job of a shell has commands left on.
Pending(s) == IF AtRules(s) THEN {Work(s)[i].on : i \in at[s] .. Len(Work(s))} ELSE {}

RunScript(s) ==
  /\ jobs[s] = <<>> /\ nruns < MaxRuns
  /\ nruns' = nruns + 1
  /\ \E script \in ScriptsRun : jobs' = [jobs EXCEPT ![s] = script]
  /\ UNCHANGED <<copies, nic, bridge, at, history, nlocked>>

\* Is another shell at a job on the part, too?
Meets(s, part) == \E t \in Shells \ {s} : On(t, part)

BeginRules(s) ==
  LET p == Job(s).part
      others == UNION {RulesOf(q) : q \in Parts \ {p}} IN
  /\ blurred' = IF Meets(s, p) THEN blurred \cup RulesOf(p) ELSE blurred
  /\ IF Job(s).op = "start"
     THEN depth' = [depth EXCEPT ![p] = @ + 1] /\ UNCHANGED taken
     ELSE IF depth[p] > 0
     THEN depth' = [depth EXCEPT ![p] = @ - 1] /\ UNCHANGED taken
     ELSE taken' = taken \cup (RulesOf(p) \cap others) /\ UNCHANGED depth
  /\ UNCHANGED <<alone, settled>>

BeginBridges(s) ==
  /\ alone' = ~Meets(s, "bridge")
  /\ settled' = "open"
  /\ UNCHANGED <<depth, taken, blurred>>

\* A function of the script is called.
NextJob(s) ==
  /\ at[s] = 0 /\ jobs[s] # <<>>
  /\ at' = [at EXCEPT ![s] = 1]
  /\ IF Job(s).part = "bridge" THEN BeginBridges(s) ELSE BeginRules(s)
  /\ UNCHANGED <<copies, nic, bridge, jobs, nruns, nlocked>>

LastOf(s) == at[s] = Len(Work(s))

\* On to the next command, or the function returns.
Done(s) ==
  /\ at' = [at EXCEPT ![s] = IF LastOf(s) THEN 0 ELSE @ + 1]
  /\ jobs' = [jobs EXCEPT ![s] = IF LastOf(s) THEN Tail(@) ELSE @]

\* iptables -A appends, -D deletes one copy or fails.
Iptables(s) ==
  /\ AtRules(s) /\ Done(s)
  /\ copies' = [copies EXCEPT ![Command(s).on] =
                  IF Command(s).do = "-A" THEN @ + 1 ELSE IF @ > 0 THEN @ - 1 ELSE 0]
  /\ UNCHANGED <<nic, bridge, history, nruns, nlocked>>

\* iptables does not wait for another iptables.
Locked(s) ==
  /\ AtRules(s) /\ Done(s) /\ nlocked < MaxLocked
  /\ \E t \in Shells \ {s} : AtRules(t)
  /\ blurred' = blurred \cup {Command(s).on}
  /\ nlocked' = nlocked + 1
  /\ UNCHANGED <<copies, nic, bridge, depth, taken, alone, settled, nruns>>

\* ip link and brctl addif, delif: the veth that is a port of qemubr0.
NicAfter(do) ==
  CASE do = "link_add" -> IF nic = "none" THEN "free" ELSE nic
    [] do = "addif" -> IF nic = "free" /\ bridge["qemubr0"] # "none" THEN "member" ELSE nic
    [] do = "delif" -> IF nic = "member" THEN "free" ELSE nic
    [] do = "link_del" -> "none"

\* brctl addbr, delbr, and ifconfig with an address or "down".  A bridge
\* that is up cannot be deleted.
BridgeAfter(do, state) ==
  CASE do = "addbr" -> IF state = "none" THEN "down" ELSE state
    [] do = "up" -> IF state = "none" THEN "none" ELSE "up"
    [] do = "down" -> IF state = "none" THEN "none" ELSE "down"
    [] do = "delbr" -> IF state = "down" THEN "none" ELSE state

\* A job on the bridges that nothing else met, and that has now ended.
Settles(s) ==
  settled' = IF alone /\ LastOf(s) THEN IF Job(s).op = "stop" THEN "down" ELSE "up"
             ELSE settled

Nic(s) ==
  /\ AtBridges(s) /\ Command(s).on = "nic" /\ Done(s)
  /\ nic' = NicAfter(Command(s).do)
  /\ Settles(s)
  /\ UNCHANGED <<copies, bridge, depth, taken, blurred, alone, nruns, nlocked>>

\* A bridge that is deleted lets go of its ports.
Bridge(s) ==
  LET b == Command(s).on IN
  /\ AtBridges(s) /\ b # "nic" /\ Done(s)
  /\ bridge' = [bridge EXCEPT ![b] = BridgeAfter(Command(s).do, @)]
  /\ nic' = IF nic = "member" /\ bridge'["qemubr0"] = "none" THEN "free" ELSE nic
  /\ Settles(s)
  /\ UNCHANGED <<copies, depth, taken, blurred, alone, nruns, nlocked>>

Next ==
  \E s \in Shells :
    RunScript(s) \/ NextJob(s) \/ Iptables(s) \/ Locked(s) \/ Nic(s) \/ Bridge(s)

Spec == Init /\ [][Next]_vars

-----------------------------------------------------------------------------
(* Properties *)

\* How often a rule should be there: once for each start not undone of
\* each list it is in.
Share(r, p) == IF r \in RulesOf(p) THEN depth[p] ELSE 0
Due(r) == Share(r, "br") + Share(r, "lxc") + Share(r, "ap") + Share(r, "nat")

\* start() and stop() of the scripts in sbin: each rule is there once for
\* every start that no stop has undone, those of other scripts that share
\* it included, in whatever order the commands of jobs on different parts
\* mix.  A stop of a part that is not up can take the copy of a rule that
\* another part shares, but never leaves one too many, and a command that
\* finds the lock of iptables taken loses its own rule and no other.
CopiesFollow ==
  \A r \in Rules \ blurred :
    (\A s \in Shells : r \notin Pending(s)) =>
      IF r \in taken THEN copies[r] <= Due(r) ELSE copies[r] = Due(r)

\* rc.qemubridge: whatever mixed starts and stops have left of them, a
\* start that runs alone ends with the three bridges up and the nic in
\* qemubr0, and a stop that runs alone with nothing of them.
BridgesSettle ==
  /\ settled = "up" => nic = "member" /\ \A b \in Bridges : bridge[b] = "up"
  /\ settled = "down" => nic = "none" /\ \A b \in Bridges : bridge[b] = "none"

=============================================================================
