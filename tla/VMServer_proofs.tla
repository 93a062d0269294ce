-------------------------- MODULE VMServer_proofs --------------------------
(***************************************************************************)
(* What holds of VMServer for any number of scripts, machines and QEMUs:   *)
(* its types, that stop stops, that a machine runs twice or is out of      *)
(* reach only if two starts of it met, and that every invocation is over   *)
(* after a bounded number of steps.                                        *)
(***************************************************************************)
EXTENDS VMServer, TLAPS

Steps == {"idle", "check", "fork", "send", "poll", "force", "kill"}
Words == [op : AllOps, name : Names]

\* The parts of TypeOK: what QEMU keeps, what the scripts keep, and the starts that met.
QemusOK ==
  /\ nqemus \in 0 .. MaxQemus
  /\ qname \in [Qemus -> Names]
  /\ qstate \in [Qemus -> Alive \cup {"unborn", "dead"}]
  /\ DOMAIN clients = Qemus
  /\ owner \in [Names -> 0 .. nqemus]
  /\ \A q \in Qemus : /\ qstate[q] = "unborn" <=> q > nqemus
                      /\ clients[q] # <<>> => qstate[q] \in Bound

ScriptsOK ==
  /\ shells \in [Names -> [Processes -> Nat]]
  /\ pc \in [Scripts -> Steps]
  /\ todo \in [Scripts -> Seq(Words)]
  /\ polls \in [Scripts -> 0 .. MaxPolls]
  /\ seen \in [Scripts -> SUBSET Qemus]
  /\ nruns \in 0 .. MaxRuns
  /\ \A s \in Scripts : pc[s] = "idle" <=> todo[s] = <<>>

RacedOK == raced \subseteq Names

\* A poll that goes on has not reached the limit.
PollsInv == \A s \in Scripts : pc[s] = "poll" => polls[s] < MaxPolls

\* What a stop has found is dead, or still found as long as the stop goes on.
Stopping(s) == pc[s] \in {"send", "poll", "force", "kill"} /\ Op(s) = "stop"
StopOf(s) ==
  /\ pc[s] \in {"poll", "force", "kill"} => Op(s) = "stop"
  /\ \A q \in seen[s] : qstate[q] = "dead" \/ (Stopping(s) /\ q \in Found(Name(s)))
StopInv == \A s \in Scripts : StopOf(s)

IInv == QemusOK /\ ScriptsOK /\ PollsInv /\ StopInv

\* A script that is about to fork the QEMU of n, and a QEMU that runs as n or will.
Forking(s, n) == pc[s] = "fork" /\ Name(s) = n
RunsAs(q, n) == qstate[q] \in Alive /\ qname[q] = n

\* No two of them at a time, be they scripts or QEMUs, and the monitor is reached.
OneOf(n) ==
  /\ \A s, t \in Scripts : Forking(s, n) /\ Forking(t, n) => s = t
  /\ \A p, q \in Qemus : RunsAs(p, n) /\ RunsAs(q, n) => p = q
  /\ \A s \in Scripts, q \in Qemus : ~(Forking(s, n) /\ RunsAs(q, n))
  /\ \A q \in Qemus : RunsAs(q, n) /\ qstate[q] \in Bound => owner[n] = q

UniqueInv == \A n \in Names \ raced : OneOf(n)

-----------------------------------------------------------------------------
(* Types *)

\* The parts are TypeOK (VMServer).
LEMMA Parts == TypeOK <=> QemusOK /\ ScriptsOK /\ RacedOK
BY DEF TypeOK, QemusOK, ScriptsOK, RacedOK, Words, Steps

\* The state before the first invocation: some machines may run already.
LEMMA Initially == Init => IInv
<1> SUFFICES ASSUME Init  PROVE IInv  OBVIOUS
<1> USE ServerAssumption
<1>1. QemusOK
  <2>1. nqemus \in 0 .. MaxQemus /\ owner \in [Names -> 0 .. nqemus]  BY DEF Init
  <2>2. qstate = [q \in Qemus |-> IF q <= nqemus THEN "running" ELSE "unborn"]  BY DEF Init
  <2>3. qname \in [Qemus -> Names] /\ clients = [q \in Qemus |-> <<>>]  BY DEF Init
  <2>4. qstate \in [Qemus -> Alive \cup {"unborn", "dead"}]
    BY <2>2 DEF Alive, Visible, Bound
  <2>5. ASSUME NEW q \in Qemus
        PROVE (qstate[q] = "unborn" <=> q > nqemus) /\ clients[q] = <<>>
    <3>1. q \in Nat /\ nqemus \in Nat  BY <2>1 DEF Qemus
    <3>2. q <= nqemus <=> ~(q > nqemus)  BY <3>1
    <3>3. (qstate[q] = "unborn" <=> ~(q <= nqemus)) /\ clients[q] = <<>>  BY <2>2, <2>3
    <3> QED  BY <3>2, <3>3
  <2> QED  BY <2>1, <2>3, <2>4, <2>5 DEF QemusOK
<1>2. ScriptsOK
  <2>1. shells \in [Names -> [Processes -> Nat]]  BY DEF Init
  <2>2. pc \in [Scripts -> Steps] /\ polls \in [Scripts -> 0 .. MaxPolls]  BY DEF Init, Steps
  <2>3. seen \in [Scripts -> SUBSET Qemus] /\ nruns \in 0 .. MaxRuns  BY DEF Init
  <2>4. todo \in [Scripts -> Seq(Words)]  BY DEF Init
  <2>5. \A s \in Scripts : pc[s] = "idle" <=> todo[s] = <<>>  BY DEF Init
  <2> QED  BY <2>1, <2>2, <2>3, <2>4, <2>5 DEF ScriptsOK
<1>3. PollsInv /\ StopInv  BY DEF Init, PollsInv, StopInv, StopOf
<1> QED  BY <1>1, <1>2, <1>3 DEF IInv

\* The invocation in progress has a first word (the case statement).
LEMMA FirstWord ==
  ASSUME ScriptsOK, NEW s \in Scripts, pc[s] # "idle"
  PROVE  /\ todo[s] \in Seq(Words) /\ todo[s] # <<>>
         /\ Op(s) \in AllOps /\ Name(s) \in Names
         /\ Tail(todo[s]) \in Seq(Words)
<1>1. todo[s] \in Seq(Words) /\ todo[s] # <<>>  BY DEF ScriptsOK
<1>2. Head(todo[s]) \in Words /\ Tail(todo[s]) \in Seq(Words)  BY <1>1
<1>3. Head(todo[s]).op \in AllOps /\ Head(todo[s]).name \in Names  BY <1>2 DEF Words
<1> QED  BY <1>1, <1>2, <1>3 DEF Op, Name

\* The end of one command (exit, or the end of the script).
LEMMA Finishes ==
  ASSUME ScriptsOK, NEW s \in Scripts, pc[s] # "idle", Finish(s)
  PROVE  /\ pc' \in [Scripts -> Steps] /\ todo' \in [Scripts -> Seq(Words)]
         /\ pc'[s] \in {"idle", "check"} /\ todo'[s] = Tail(todo[s])
         /\ \A t \in Scripts \ {s} : pc'[t] = pc[t] /\ todo'[t] = todo[t]
         /\ \A t \in Scripts : pc'[t] = "idle" <=> todo'[t] = <<>>
<1>1. Tail(todo[s]) \in Seq(Words)  BY FirstWord
<1>2. /\ todo' = [todo EXCEPT ![s] = Tail(todo[s])]
      /\ pc' = [pc EXCEPT ![s] = IF Tail(todo[s]) = <<>> THEN "idle" ELSE "check"]
  BY DEF Finish, Goto
<1>3. pc \in [Scripts -> Steps] /\ todo \in [Scripts -> Seq(Words)]  BY DEF ScriptsOK
<1>4. pc' \in [Scripts -> Steps] /\ todo' \in [Scripts -> Seq(Words)]
  BY <1>1, <1>2, <1>3 DEF Steps
<1>5. pc'[s] = (IF Tail(todo[s]) = <<>> THEN "idle" ELSE "check") /\ todo'[s] = Tail(todo[s])
  BY <1>2, <1>3
<1>6. \A t \in Scripts \ {s} : pc'[t] = pc[t] /\ todo'[t] = todo[t]  BY <1>2, <1>3
<1>7. \A t \in Scripts : pc'[t] = "idle" <=> todo'[t] = <<>>
  BY <1>5, <1>6 DEF ScriptsOK
<1> QED  BY <1>4, <1>5, <1>6, <1>7

\* A script that goes to another step of its command.
LEMMA GoesTo ==
  ASSUME ScriptsOK, NEW s \in Scripts, pc[s] # "idle", NEW p \in Steps \ {"idle"},
         Goto(s, p), todo' = todo
  PROVE  /\ pc' \in [Scripts -> Steps] /\ todo' \in [Scripts -> Seq(Words)]
         /\ pc'[s] = p /\ Op(s)' = Op(s) /\ Name(s)' = Name(s)
         /\ \A t \in Scripts \ {s} : pc'[t] = pc[t]
         /\ \A t \in Scripts : pc'[t] = "idle" <=> todo'[t] = <<>>
<1>1. pc \in [Scripts -> Steps] /\ todo \in [Scripts -> Seq(Words)]  BY DEF ScriptsOK
<1>2. pc' = [pc EXCEPT ![s] = p]  BY DEF Goto
<1>3. pc' \in [Scripts -> Steps]  BY <1>1, <1>2
<1>4. pc'[s] = p /\ \A t \in Scripts \ {s} : pc'[t] = pc[t]  BY <1>1, <1>2
<1>5. \A t \in Scripts : pc'[t] = "idle" <=> todo'[t] = <<>>  BY <1>4 DEF ScriptsOK
<1> QED  BY <1>1, <1>3, <1>4, <1>5 DEF Op, Name

\* What a run begins with: words, at least one (rc.slackvirt, the case statement).
LEMMA RunWords ==
  ASSUME NEW run \in RcRuns \cup OwnRuns
  PROVE  run \in Seq(Words) /\ run # <<>>
<1> USE ServerAssumption
<1>1. CASE run \in OwnRuns
  <2>1. PICK op \in Ops, n \in Names : run = <<Step(op, n)>>  BY <1>1 DEF OwnRuns
  <2>2. Step(op, n) \in Words  BY <2>1 DEF Step, Words
  <2> QED  BY <2>1, <2>2
<1>2. CASE run \in RcRuns
  <2>1. CASE run = <<Step("start", Server), Step("start", Desktop)>>
    <3>1. Step("start", Server) \in Words /\ Step("start", Desktop) \in Words
      BY DEF Step, Words, AllOps
    <3> QED  BY <2>1, <3>1
  <2>2. ASSUME NEW op \in {"stop", "pause", "resume"},
               run = <<Step(op, Desktop), Step(op, Server)>>
        PROVE  run \in Seq(Words) /\ run # <<>>
    <3>1. Step(op, Server) \in Words /\ Step(op, Desktop) \in Words
      BY <2>2 DEF Step, Words, AllOps
    <3> QED  BY <2>2, <3>1
  <2> QED  BY <1>2, <2>1, <2>2 DEF RcRuns
<1> QED  BY <1>1, <1>2

-----------------------------------------------------------------------------
(* QEMUs *)

\* What a step may do to the QEMUs there are: none comes back from the dead or
\* disappears from the sight of pgrep but by dying, and none changes its name.
Persists ==
  \A q \in Qemus : /\ qstate[q] = "dead" => qstate'[q] = "dead"
                   /\ qstate[q] \in Visible => /\ qstate'[q] \in Visible \cup {"dead"}
                                               /\ qname'[q] = qname[q]

\* The parts of QemusOK after a step.
LEMMA QemusLater ==
  ASSUME nqemus' \in 0 .. MaxQemus, qname' \in [Qemus -> Names],
         qstate' \in [Qemus -> Alive \cup {"unborn", "dead"}],
         owner' \in [Names -> 0 .. nqemus'],
         DOMAIN clients' = Qemus,
         \A p \in Qemus : /\ qstate'[p] = "unborn" <=> p > nqemus'
                          /\ clients'[p] # <<>> => qstate'[p] \in Bound
  PROVE  QemusOK'
BY DEF QemusOK

\* A step that leaves the QEMUs alone.
LEMMA QemusUnchanged ==
  ASSUME QemusOK, UNCHANGED qemus
  PROVE  QemusOK' /\ Persists
<1>1. UNCHANGED <<nqemus, qname, qstate, clients, owner>>  BY DEF qemus
<1>2. QemusOK'  BY <1>1 DEF QemusOK
<1>3. Persists  BY <1>1 DEF Persists
<1> QED  BY <1>2, <1>3

\* rc.slackvirt kills terminals.
LEMMA RcQemus ==
  ASSUME QemusOK, KillTerminals, UNCHANGED <<nqemus, qname, qstate, owner>>
  PROVE  QemusOK' /\ Persists
<1>1. UNCHANGED <<nqemus, qname, qstate, owner>>  OBVIOUS
<1>2. DOMAIN clients' = Qemus /\ \A q \in Qemus : qstate[q] \notin Bound => clients'[q] = <<>>
  BY DEF KillTerminals
<1>3. \A q \in Qemus : clients'[q] # <<>> => qstate'[q] \in Bound  BY <1>1, <1>2
<1>4. QemusOK'  BY <1>1, <1>2, <1>3 DEF QemusOK
<1>5. Persists  BY <1>1 DEF Persists
<1> QED  BY <1>4, <1>5

\* start_vm() forks a QEMU, or none.
LEMMA StartQemus ==
  ASSUME QemusOK, ScriptsOK, NEW s \in Scripts, StartVM(s)
  PROVE  QemusOK' /\ Persists
<1>1. CASE UNCHANGED <<nqemus, qname, qstate>>
  <2>1. UNCHANGED qemus  BY <1>1 DEF StartVM, qemus
  <2> QED  BY <2>1, QemusUnchanged
<1>2. CASE /\ nqemus < MaxQemus
           /\ nqemus' = nqemus + 1
           /\ qname' = [qname EXCEPT ![nqemus'] = Name(s)]
           /\ qstate' = [qstate EXCEPT ![nqemus'] = "forked"]
  <2>1. clients' = clients /\ owner' = owner /\ pc[s] = "fork"  BY DEF StartVM
  <2>2. Name(s) \in Names  BY <2>1, FirstWord
  <2>3. nqemus' \in Qemus /\ nqemus' \in 0 .. MaxQemus /\ nqemus \in Nat
    BY <1>2, ServerAssumption DEF QemusOK, Qemus
  <2>4. qname' \in [Qemus -> Names]  BY <1>2, <2>2, <2>3 DEF QemusOK
  <2>5. qstate' \in [Qemus -> Alive \cup {"unborn", "dead"}]
    BY <1>2, <2>3 DEF QemusOK, Alive
  <2>6. owner' \in [Names -> 0 .. nqemus']
    BY <1>2, <2>1, <2>3 DEF QemusOK
  <2>8. \A q \in Qemus : q # nqemus' => qstate'[q] = qstate[q] /\ qname'[q] = qname[q]
    BY <1>2 DEF QemusOK
  <2>9. qstate'[nqemus'] = "forked"  BY <1>2, <2>3 DEF QemusOK
  <2>10. qstate[nqemus'] = "unborn" /\ clients[nqemus'] = <<>>
    BY <1>2, <2>3 DEF QemusOK, Bound
  <2>11. ASSUME NEW q \in Qemus
         PROVE  /\ qstate'[q] = "unborn" <=> q > nqemus'
                /\ clients'[q] # <<>> => qstate'[q] \in Bound
    <3>1. CASE q = nqemus'  BY <3>1, <2>1, <2>3, <2>9, <2>10
    <3>2. CASE q # nqemus'
      <4>1. q \in Nat  BY DEF Qemus
      <4>2. q > nqemus <=> q > nqemus'  BY <3>2, <4>1, <2>3, <1>2
      <4> QED  BY <3>2, <4>2, <2>1, <2>8 DEF QemusOK
    <3> QED  BY <3>1, <3>2
  <2>12. QemusOK'
    <3>1. DOMAIN clients' = Qemus  BY <2>1 DEF QemusOK
    <3> QED  BY <3>1, <2>3, <2>4, <2>5, <2>6, <2>11 DEF QemusOK
  <2>13. Persists  BY <2>8, <2>10 DEF Persists, Visible, Bound
  <2> QED  BY <2>12, <2>13
<1> QED  BY <1>1, <1>2 DEF StartVM

\* kill -9 (stop_vm).
LEMMA KillQemus ==
  ASSUME QemusOK, NEW s \in Scripts, Kill(s)
  PROVE  /\ QemusOK' /\ Persists /\ UNCHANGED <<nqemus, qname, owner>>
         /\ \A q \in Qemus : qstate'[q] = IF q \in Found(Name(s)) THEN "dead" ELSE qstate[q]
<1>1. /\ qstate' = [q \in Qemus |-> IF q \in Found(Name(s)) THEN "dead" ELSE qstate[q]]
      /\ clients' = [q \in Qemus |-> IF q \in Found(Name(s)) THEN <<>> ELSE clients[q]]
      /\ UNCHANGED <<nqemus, qname, owner>>
  BY DEF Kill
<1> DEFINE F == Found(Name(s))
<1>2. \A q \in F : q \in Qemus /\ qstate[q] \in Visible  BY DEF Found
<1> HIDE DEF F
<1>3. /\ qstate' = [q \in Qemus |-> IF q \in F THEN "dead" ELSE qstate[q]]
      /\ clients' = [q \in Qemus |-> IF q \in F THEN <<>> ELSE clients[q]]
  BY <1>1 DEF F
<1>4. qstate' \in [Qemus -> Alive \cup {"unborn", "dead"}]  BY <1>3 DEF QemusOK
<1>5. ASSUME NEW q \in Qemus
      PROVE  /\ qstate'[q] = "unborn" <=> q > nqemus'
             /\ clients'[q] # <<>> => qstate'[q] \in Bound
  <2>1. nqemus' = nqemus  BY <1>1
  <2>2. CASE q \in F
    <3>1. qstate'[q] = "dead" /\ clients'[q] = <<>>  BY <2>2, <1>3
    <3>2. ~(q > nqemus)  BY <2>2, <1>2 DEF QemusOK, Visible, Bound
    <3> QED  BY <2>1, <3>1, <3>2
  <2>3. CASE q \notin F  BY <2>1, <2>3, <1>3 DEF QemusOK
  <2> QED  BY <2>2, <2>3
<1>6. QemusOK'
  <2>1. DOMAIN clients' = Qemus  BY <1>3
  <2> QED  BY <1>1, <1>4, <1>5, <2>1 DEF QemusOK
<1>7. Persists  BY <1>1, <1>2, <1>3 DEF Persists
<1> QED  BY <1>1, <1>3, <1>6, <1>7 DEF F

\* A QEMU ends (on its own, or by quit).
LEMMA EndsQemus ==
  ASSUME QemusOK, NEW q \in Qemus, qstate[q] \in Bound, Ends(q)
  PROVE  QemusOK' /\ Persists
<1>1. /\ qstate' = [qstate EXCEPT ![q] = "dead"] /\ clients' = [clients EXCEPT ![q] = <<>>]
      /\ owner' = [owner EXCEPT ![qname[q]] = 0] /\ UNCHANGED <<nqemus, qname>>
  BY DEF Ends
<1>2. qstate' \in [Qemus -> Alive \cup {"unborn", "dead"}]  BY <1>1 DEF QemusOK
<1>3. qstate'[q] = "dead" /\ clients'[q] = <<>>  BY <1>1 DEF QemusOK
<1>4. \A p \in Qemus : p # q => qstate'[p] = qstate[p] /\ clients'[p] = clients[p]
  BY <1>1 DEF QemusOK
<1>5. ~(q > nqemus)  BY DEF QemusOK, Bound
<1>6. \A p \in Qemus : /\ qstate'[p] = "unborn" <=> p > nqemus'
                       /\ clients'[p] # <<>> => qstate'[p] \in Bound
  BY <1>1, <1>3, <1>4, <1>5 DEF QemusOK
<1>7. nqemus \in Nat /\ owner' \in [Names -> 0 .. nqemus']
  <2>1. nqemus \in Nat /\ 0 \in 0 .. nqemus  BY ServerAssumption DEF QemusOK
  <2> QED  BY <2>1, <1>1 DEF QemusOK
<1>8. QemusOK'
  <2>1. DOMAIN clients' = Qemus  BY <1>1 DEF QemusOK
  <2>2. nqemus' \in 0 .. MaxQemus /\ qname' \in [Qemus -> Names]  BY <1>1 DEF QemusOK
  <2>3. owner' \in [Names -> 0 .. nqemus']  BY <1>7
  <2> QED  BY <2>1, <2>2, <2>3, <1>2, <1>6, QemusLater
<1>9. Persists  BY <1>1, <1>3, <1>4 DEF Persists, Bound
<1> QED  BY <1>8, <1>9

\* A QEMU that can be reached stays so, with the same clients or others.
LEMMA BoundQemus ==
  ASSUME QemusOK, NEW q \in Qemus, qstate[q] \in Bound,
         NEW v \in Bound, qstate' = [qstate EXCEPT ![q] = v],
         DOMAIN clients' = Qemus, \A p \in Qemus \ {q} : clients'[p] = clients[p],
         UNCHANGED <<nqemus, qname, owner>>
  PROVE  QemusOK' /\ Persists
<1>1. qstate' \in [Qemus -> Alive \cup {"unborn", "dead"}]  BY DEF QemusOK, Alive, Visible
<1>2. qstate'[q] = v /\ \A p \in Qemus \ {q} : qstate'[p] = qstate[p]  BY DEF QemusOK
<1>3. ~(q > nqemus) /\ v # "unborn"  BY DEF QemusOK, Bound
<1>4. \A p \in Qemus : /\ qstate'[p] = "unborn" <=> p > nqemus'
                       /\ clients'[p] # <<>> => qstate'[p] \in Bound
  BY <1>2, <1>3 DEF QemusOK
<1>5. QemusOK'
  <2>1. nqemus' \in 0 .. MaxQemus /\ qname' \in [Qemus -> Names]  BY DEF QemusOK
  <2>2. owner' \in [Names -> 0 .. nqemus']  BY DEF QemusOK
  <2> QED  BY <1>1, <1>4, <2>1, <2>2, QemusLater
<1>6. Persists  BY <1>2 DEF Persists, Visible, Bound
<1> QED  BY <1>5, <1>6

\* Every step of a QEMU.
LEMMA QemuSteps ==
  ASSUME QemusOK, NEW q \in Qemus, QemuStep(q)
  PROVE  QemusOK' /\ Persists
<1>d. DOMAIN clients = Qemus /\ qstate \in [Qemus -> Alive \cup {"unborn", "dead"}]
  BY DEF QemusOK
<1>c. clients[q] # <<>> => qstate[q] \in Bound  BY DEF QemusOK
<1>v. qstate' = qstate => qstate' = [qstate EXCEPT ![q] = qstate[q]]  BY <1>d
<1>n. qstate[q] # "unborn" => ~(q > nqemus) /\ q \in 0 .. nqemus
  <2>1. qstate[q] # "unborn" => ~(q > nqemus)  BY DEF QemusOK
  <2>2. q \in Nat /\ nqemus \in Nat  BY ServerAssumption DEF Qemus, QemusOK
  <2> QED  BY <2>1, <2>2
<1>1. ASSUME qstate[q] \in {"forked", "starting"}, NEW v \in {"starting", "running", "dead"},
             qstate' = [qstate EXCEPT ![q] = v], UNCHANGED <<nqemus, qname, clients>>,
             owner' = owner \/ owner' = [owner EXCEPT ![qname[q]] = q]
      PROVE  QemusOK' /\ Persists
  <2>1. qstate' \in [Qemus -> Alive \cup {"unborn", "dead"}]
    BY <1>d, <1>1 DEF Alive, Visible, Bound
  <2>2. qstate'[q] = v /\ \A p \in Qemus \ {q} : qstate'[p] = qstate[p]  BY <1>d, <1>1
  <2>3. ~(q > nqemus) /\ q \in 0 .. nqemus  BY <1>n, <1>1
  <2>4. clients[q] = <<>>  BY <1>1 DEF QemusOK, Bound
  <2>5. \A p \in Qemus : /\ qstate'[p] = "unborn" <=> p > nqemus'
                         /\ clients'[p] # <<>> => qstate'[p] \in Bound
    BY <1>1, <2>2, <2>3, <2>4 DEF QemusOK
  <2>6. owner' \in [Names -> 0 .. nqemus']  BY <1>1, <2>3 DEF QemusOK
  <2>7. QemusOK'  BY <1>1, <2>1, <2>5, <2>6 DEF QemusOK
  <2>8. Persists  BY <1>1, <2>2 DEF Persists, Visible, Bound
  <2> QED  BY <2>7, <2>8
<1>2. CASE QemuEnds(q)  BY <1>2, EndsQemus DEF QemuEnds
<1>3. CASE Exec(q) \/ BindMonitor(q) \/ ExecFails(q)
  BY <1>1, <1>3 DEF Exec, BindMonitor, ExecFails
<1>4. CASE GuestSleeps(q)
  <2>1. qstate' = [qstate EXCEPT ![q] = "suspended"] /\ qstate[q] \in Bound
        /\ UNCHANGED <<nqemus, qname, owner, clients>>
    BY <1>4 DEF GuestSleeps, Bound
  <2>2. "suspended" \in Bound  BY DEF Bound
  <2> QED  BY <2>1, <2>2, <1>d, BoundQemus
<1>5. CASE Serve(q)
  <2>1. qstate[q] \in Bound  BY <1>5, <1>c DEF Serve
  <2>2. CASE Head(clients[q]) = "quit"  BY <1>5, <2>1, <2>2, EndsQemus DEF Serve
  <2>3. CASE Head(clients[q]) # "quit"
    <3> DEFINE v == IF <<qstate[q], Head(clients[q])>> \in {<<"paused", "cont">>,
                                                           <<"suspended", "system_wakeup">>}
                    THEN "running" ELSE qstate[q]
    <3>1. qstate' = [qstate EXCEPT ![q] = v]  BY <1>5, <2>3 DEF Serve
    <3>2. v \in Bound  BY <2>1 DEF Bound
    <3> HIDE DEF v
    <3>3. clients' = [clients EXCEPT ![q] = Tail(@)] /\ UNCHANGED <<nqemus, qname, owner>>
      BY <1>5, <2>3 DEF Serve
    <3>4. DOMAIN clients' = Qemus /\ \A p \in Qemus \ {q} : clients'[p] = clients[p]
      BY <3>3, <1>d
    <3> QED  BY <2>1, <3>1, <3>2, <3>3, <3>4, BoundQemus
  <2> QED  BY <2>2, <2>3
<1>6. CASE OpenTerminal(q)
  <2>1. /\ qstate[q] \in Bound /\ clients' = [clients EXCEPT ![q] = Append(@, "terminal")]
        /\ UNCHANGED <<nqemus, qname, qstate, owner>>
    BY <1>6 DEF OpenTerminal
  <2>2. DOMAIN clients' = Qemus /\ \A p \in Qemus \ {q} : clients'[p] = clients[p]
    BY <2>1, <1>d
  <2> QED  BY <2>1, <2>2, <1>v, BoundQemus
<1>7. CASE UserPauses(q)
  <2>1. qstate' = [qstate EXCEPT ![q] = "paused"] /\ qstate[q] \in Bound
        /\ UNCHANGED <<nqemus, qname, owner, clients>>
    BY <1>7, <1>c DEF UserPauses
  <2>2. "paused" \in Bound  BY DEF Bound
  <2> QED  BY <2>1, <2>2, <1>d, BoundQemus
<1>8. CASE Leave(q)
  <2>1. /\ qstate[q] \in Bound /\ clients' = [clients EXCEPT ![q] = Tail(@)]
        /\ UNCHANGED <<nqemus, qname, qstate, owner>>
    BY <1>8, <1>c DEF Leave
  <2>2. DOMAIN clients' = Qemus /\ \A p \in Qemus \ {q} : clients'[p] = clients[p]
    BY <2>1, <1>d
  <2> QED  BY <2>1, <2>2, <1>v, BoundQemus
<1> QED  BY <1>2, <1>3, <1>4, <1>5, <1>6, <1>7, <1>8 DEF QemuStep

\* A process in the background connects, or ends.
LEMMA ConnectQemus ==
  ASSUME QemusOK, NEW n \in Names, NEW c \in Processes, Connect(n, c)
  PROVE  QemusOK' /\ Persists
<1>1. CASE Listens(n) /\ clients' = [clients EXCEPT ![owner[n]] = Append(@, c)]
  <2>1. owner[n] \in Qemus /\ qstate[owner[n]] \in Bound  BY <1>1 DEF Listens
  <2>2. UNCHANGED <<nqemus, qname, qstate, owner>>  BY DEF Connect
  <2>3. DOMAIN clients' = Qemus /\ \A p \in Qemus \ {owner[n]} : clients'[p] = clients[p]
    BY <1>1 DEF QemusOK
  <2>4. qstate' = [qstate EXCEPT ![owner[n]] = qstate[owner[n]]]  BY <2>2 DEF QemusOK
  <2> QED  BY <2>1, <2>2, <2>3, <2>4, BoundQemus
<1>2. CASE UNCHANGED clients
  <2>1. UNCHANGED qemus  BY <1>2 DEF Connect, qemus
  <2> QED  BY <2>1, QemusUnchanged
<1> QED  BY <1>1, <1>2 DEF Connect

-----------------------------------------------------------------------------
(* Scripts *)

\* The parts of ScriptsOK after a step.
LEMMA ScriptsLater ==
  ASSUME shells' \in [Names -> [Processes -> Nat]],
         pc' \in [Scripts -> Steps], todo' \in [Scripts -> Seq(Words)],
         polls' \in [Scripts -> 0 .. MaxPolls], seen' \in [Scripts -> SUBSET Qemus],
         nruns' \in 0 .. MaxRuns,
         \A t \in Scripts : pc'[t] = "idle" <=> todo'[t] = <<>>
  PROVE  ScriptsOK'
BY DEF ScriptsOK

\* A script that does not move while others do.
LEMMA StillStopping ==
  ASSUME ScriptsOK, Persists, NEW t \in Scripts, StopOf(t),
         pc'[t] = pc[t], todo'[t] = todo[t], seen'[t] = seen[t]
  PROVE  StopOf(t)'
<1>1. Op(t)' = Op(t) /\ Name(t)' = Name(t)  BY DEF Op, Name
<1>2. Stopping(t)' <=> Stopping(t)  BY <1>1 DEF Stopping
<1>3. pc'[t] \in {"poll", "force", "kill"} => Op(t)' = "stop"  BY <1>1 DEF StopOf
<1>4. ASSUME NEW q \in seen'[t]
      PROVE  qstate'[q] = "dead" \/ (Stopping(t)' /\ q \in Found(Name(t))')
  <2>1. q \in seen[t] /\ q \in Qemus  BY DEF ScriptsOK
  <2>2. CASE qstate[q] = "dead"  BY <2>1, <2>2 DEF Persists
  <2>3. CASE Stopping(t) /\ q \in Found(Name(t))
    <3>1. q \in Found(Name(t))' \/ qstate'[q] = "dead"
      <4>1. qstate[q] \in Visible /\ <<Name(t), qname[q]>> \in Covers  BY <2>3 DEF Found
      <4>2. qstate'[q] \in Visible \cup {"dead"} /\ qname'[q] = qname[q]
        BY <2>1, <4>1 DEF Persists
      <4> QED  BY <1>1, <2>1, <4>1, <4>2 DEF Found
    <3> QED  BY <1>2, <2>3, <3>1
  <2> QED  BY <2>1, <2>2, <2>3 DEF StopOf
<1> QED  BY <1>3, <1>4 DEF StopOf

\* A command that ends when what its script has found before is dead.
LEMMA FinishKeeps ==
  ASSUME IInv, Persists, NEW s \in Scripts, pc[s] # "idle", Finish(s),
         UNCHANGED <<polls, seen, nruns>>, shells' \in [Names -> [Processes -> Nat]],
         \A q \in seen[s] : qstate'[q] = "dead"
  PROVE  ScriptsOK' /\ PollsInv' /\ StopInv'
<1>0. ScriptsOK /\ PollsInv /\ StopInv  BY DEF IInv
<1>1. /\ pc' \in [Scripts -> Steps] /\ todo' \in [Scripts -> Seq(Words)]
      /\ pc'[s] \in {"idle", "check"}
      /\ \A t \in Scripts \ {s} : pc'[t] = pc[t] /\ todo'[t] = todo[t]
      /\ \A t \in Scripts : pc'[t] = "idle" <=> todo'[t] = <<>>
  BY <1>0, Finishes
<1>2. /\ polls' \in [Scripts -> 0 .. MaxPolls] /\ seen' \in [Scripts -> SUBSET Qemus]
      /\ nruns' \in 0 .. MaxRuns
  BY <1>0 DEF ScriptsOK
<1>3. ScriptsOK'  BY <1>1, <1>2, ScriptsLater
<1>4. PollsInv'  BY <1>0, <1>1 DEF PollsInv
<1>5. ASSUME NEW t \in Scripts  PROVE StopOf(t)'
  <2>1. CASE t = s  BY <1>1, <2>1 DEF StopOf
  <2>2. CASE t # s  BY <1>0, <1>1, <2>2, StillStopping DEF StopInv
  <2> QED  BY <2>1, <2>2
<1> QED  BY <1>3, <1>4, <1>5 DEF StopInv

\* A command that goes on to step p.
LEMMA GotoKeeps ==
  ASSUME IInv, Persists, NEW s \in Scripts, pc[s] # "idle", NEW p \in Steps \ {"idle"},
         Goto(s, p), UNCHANGED <<todo, nruns>>,
         shells' \in [Names -> [Processes -> Nat]],
         polls' \in [Scripts -> 0 .. MaxPolls], seen' \in [Scripts -> SUBSET Qemus],
         \A t \in Scripts \ {s} : polls'[t] = polls[t] /\ seen'[t] = seen[t],
         p = "poll" => polls'[s] < MaxPolls,
         StopOf(s)'
  PROVE  ScriptsOK' /\ PollsInv' /\ StopInv'
<1>0. ScriptsOK /\ PollsInv /\ StopInv  BY DEF IInv
<1>1. /\ pc' \in [Scripts -> Steps] /\ todo' \in [Scripts -> Seq(Words)]
      /\ pc'[s] = p /\ \A t \in Scripts \ {s} : pc'[t] = pc[t]
      /\ \A t \in Scripts : pc'[t] = "idle" <=> todo'[t] = <<>>
  BY <1>0, GoesTo
<1>2. nruns' \in 0 .. MaxRuns  BY <1>0 DEF ScriptsOK
<1>3. ScriptsOK'  BY <1>1, <1>2, ScriptsLater
<1>4. PollsInv'  BY <1>0, <1>1 DEF PollsInv
<1>5. ASSUME NEW t \in Scripts  PROVE StopOf(t)'
  <2>1. CASE t = s  BY <2>1
  <2>2. CASE t # s  BY <1>0, <1>1, <2>2, StillStopping DEF StopInv
  <2> QED  BY <2>1, <2>2
<1> QED  BY <1>3, <1>4, <1>5 DEF StopInv

\* The stop goes on: nothing that it found is lost.
LEMMA StopGoesOn ==
  ASSUME ScriptsOK, Persists, NEW s \in Scripts, StopOf(s), Op(s) = "stop",
         pc[s] \in {"send", "poll", "force", "kill"}, NEW p \in {"poll", "force", "kill"},
         Goto(s, p), todo' = todo, seen' = seen
  PROVE  StopOf(s)'
<1>1. pc'[s] = p /\ Op(s)' = Op(s) /\ Name(s)' = Name(s)  BY GoesTo DEF Steps
<1>2. Stopping(s)'  BY <1>1 DEF Stopping
<1>3. ASSUME NEW q \in seen'[s]  PROVE qstate'[q] = "dead" \/ q \in Found(Name(s))'
  <2>1. q \in seen[s] /\ q \in Qemus  BY DEF ScriptsOK
  <2>2. CASE qstate[q] = "dead"  BY <2>1, <2>2 DEF Persists
  <2>3. CASE q \in Found(Name(s))
    <3>1. qstate[q] \in Visible /\ <<Name(s), qname[q]>> \in Covers  BY <2>3 DEF Found
    <3>2. qstate'[q] \in Visible \cup {"dead"} /\ qname'[q] = qname[q]
      BY <2>1, <3>1 DEF Persists
    <3> QED  BY <1>1, <2>1, <3>1, <3>2 DEF Found
  <2> QED  BY <2>1, <2>2, <2>3 DEF StopOf
<1> QED  BY <1>1, <1>2, <1>3 DEF StopOf

\* Outside of a stop, what the last one found is dead.
LEMMA FoundDead ==
  ASSUME ScriptsOK, Persists, NEW s \in Scripts, StopOf(s), ~Stopping(s)
  PROVE  \A q \in seen[s] : qstate[q] = "dead" /\ qstate'[q] = "dead"
<1>1. \A q \in seen[s] : q \in Qemus  BY DEF ScriptsOK
<1> QED  BY <1>1 DEF StopOf, Persists

\* echo ... | qmp-shell & (the shells that are counted).
LEMMA BackgroundType ==
  ASSUME ScriptsOK, NEW n \in Names, NEW C, Background(n, C)
  PROVE  shells' \in [Names -> [Processes -> Nat]]
<1>1. shells[n] \in [Processes -> Nat]  BY DEF ScriptsOK
<1>2. ASSUME NEW c \in Processes  PROVE shells[n][c] + (IF c \in C THEN 1 ELSE 0) \in Nat
  BY <1>1
<1>3. [c \in Processes |-> shells[n][c] + (IF c \in C THEN 1 ELSE 0)] \in [Processes -> Nat]
  BY <1>2
<1> DEFINE f == [c \in Processes |-> shells[n][c] + (IF c \in C THEN 1 ELSE 0)]
<1>4. shells' = [shells EXCEPT ![n] = f]  BY DEF Background
<1> HIDE DEF f
<1>5. f \in [Processes -> Nat]  BY <1>3 DEF f
<1> QED  BY <1>4, <1>5 DEF ScriptsOK

\* A new invocation (rc.slackvirt, or the case statement).
LEMMA BeginKeeps ==
  ASSUME IInv, Persists, NEW s \in Scripts, NEW run \in RcRuns \cup OwnRuns, Begin(s, run)
  PROVE  ScriptsOK' /\ PollsInv' /\ StopInv'
<1>0. ScriptsOK /\ PollsInv /\ StopInv  BY DEF IInv
<1>1. /\ pc[s] = "idle" /\ nruns < MaxRuns /\ nruns' = nruns + 1
      /\ todo' = [todo EXCEPT ![s] = run] /\ pc' = [pc EXCEPT ![s] = "check"]
      /\ UNCHANGED <<shells, polls, seen>>
  BY DEF Begin, Goto
<1>2. run \in Seq(Words) /\ run # <<>>  BY RunWords
<1>3. pc \in [Scripts -> Steps] /\ todo \in [Scripts -> Seq(Words)]  BY <1>0 DEF ScriptsOK
<1>4. pc' \in [Scripts -> Steps] /\ todo' \in [Scripts -> Seq(Words)]
  BY <1>1, <1>2, <1>3 DEF Steps
<1>5. /\ pc'[s] = "check" /\ todo'[s] = run
      /\ \A t \in Scripts \ {s} : pc'[t] = pc[t] /\ todo'[t] = todo[t]
  BY <1>1, <1>3
<1>6. \A t \in Scripts : pc'[t] = "idle" <=> todo'[t] = <<>>
  BY <1>0, <1>2, <1>5 DEF ScriptsOK
<1>7. nruns' \in 0 .. MaxRuns  BY <1>0, <1>1, ServerAssumption DEF ScriptsOK
<1>8. ScriptsOK'
  <2>1. /\ shells' \in [Names -> [Processes -> Nat]] /\ polls' \in [Scripts -> 0 .. MaxPolls]
        /\ seen' \in [Scripts -> SUBSET Qemus]
    BY <1>0, <1>1 DEF ScriptsOK
  <2> QED  BY <1>4, <1>6, <1>7, <2>1, ScriptsLater
<1>9. PollsInv'  BY <1>0, <1>1, <1>5 DEF PollsInv
<1>10. ASSUME NEW t \in Scripts  PROVE StopOf(t)'
  <2>1. CASE t = s
    <3>1. StopOf(s) /\ ~Stopping(s)  BY <1>0, <1>1 DEF StopInv, Stopping
    <3>2. \A q \in seen'[s] : qstate'[q] = "dead"  BY <1>0, <1>1, <3>1, FoundDead
    <3> QED  BY <1>5, <2>1, <3>2 DEF StopOf
  <2>2. CASE t # s  BY <1>0, <1>1, <1>5, <2>2, StillStopping DEF StopInv
  <2> QED  BY <2>1, <2>2
<1> QED  BY <1>8, <1>9, <1>10 DEF StopInv

\* load_vm() becomes start_vm().
LEMMA LoadKeeps ==
  ASSUME IInv, Persists, NEW s \in Scripts, Load(s)
  PROVE  ScriptsOK' /\ PollsInv' /\ StopInv'
<1>0. ScriptsOK /\ PollsInv /\ StopInv  BY DEF IInv
<1> DEFINE left == <<Step("start", Name(s))>> \o Tail(todo[s])
<1>1. /\ pc[s] = "check" /\ todo' = [todo EXCEPT ![s] = left]
      /\ UNCHANGED <<shells, pc, polls, seen, nruns>>
  BY DEF Load
<1>2. left \in Seq(Words) /\ left # <<>>
  <2>1. Name(s) \in Names /\ Tail(todo[s]) \in Seq(Words)  BY <1>0, <1>1, FirstWord
  <2>2. Step("start", Name(s)) \in Words  BY <2>1 DEF Step, Words, AllOps
  <2>3. <<Step("start", Name(s))>> \in Seq(Words)  BY <2>2
  <2>4. Len(left) > 0  BY <2>1, <2>3
  <2> QED  BY <2>1, <2>3, <2>4
<1> HIDE DEF left
<1>3. todo \in [Scripts -> Seq(Words)]  BY <1>0 DEF ScriptsOK
<1>4. /\ todo' \in [Scripts -> Seq(Words)] /\ todo'[s] = left
      /\ \A t \in Scripts \ {s} : todo'[t] = todo[t]
  BY <1>1, <1>2, <1>3
<1>5. \A t \in Scripts : pc'[t] = "idle" <=> todo'[t] = <<>>
  BY <1>0, <1>1, <1>2, <1>4 DEF ScriptsOK
<1>6. ScriptsOK'
  <2>1. /\ shells' \in [Names -> [Processes -> Nat]] /\ polls' \in [Scripts -> 0 .. MaxPolls]
        /\ seen' \in [Scripts -> SUBSET Qemus] /\ pc' \in [Scripts -> Steps]
        /\ nruns' \in 0 .. MaxRuns
    BY <1>0, <1>1 DEF ScriptsOK
  <2> QED  BY <1>4, <1>5, <2>1, ScriptsLater
<1>7. PollsInv'  BY <1>0, <1>1 DEF PollsInv
<1>8. ASSUME NEW t \in Scripts  PROVE StopOf(t)'
  <2>1. CASE t = s
    <3>1. StopOf(s) /\ ~Stopping(s)  BY <1>0, <1>1 DEF StopInv, Stopping
    <3>2. \A q \in seen'[s] : qstate'[q] = "dead"  BY <1>0, <1>1, <3>1, FoundDead
    <3> QED  BY <1>1, <2>1, <3>2 DEF StopOf
  <2>2. CASE t # s  BY <1>0, <1>1, <1>4, <2>2, StillStopping DEF StopInv
  <2> QED  BY <2>1, <2>2
<1> QED  BY <1>6, <1>7, <1>8 DEF StopInv

\* The check of every command (pgrep).
LEMMA GoesOnKeeps ==
  ASSUME IInv, Persists, NEW s \in Scripts, GoesOn(s)
  PROVE  ScriptsOK' /\ PollsInv' /\ StopInv'
<1>0. ScriptsOK /\ PollsInv /\ StopInv  BY DEF IInv
<1>1. /\ pc[s] = "check" /\ UNCHANGED <<qemus, shells, todo, polls, nruns>>
      /\ seen' = IF Op(s) = "stop" THEN [seen EXCEPT ![s] = Found(Name(s))] ELSE seen
  BY DEF GoesOn
<1>2. UNCHANGED <<qname, qstate>>  BY <1>1 DEF qemus
<1>3. PICK p \in {"send", "fork"} :
        Goto(s, p) /\ (p = "fork" => Op(s) = "start")
  BY DEF GoesOn
<1>4. pc'[s] = p /\ Op(s)' = Op(s) /\ Name(s)' = Name(s)
  BY <1>0, <1>1, <1>3, GoesTo DEF Steps
<1>5. seen \in [Scripts -> SUBSET Qemus] /\ Found(Name(s)) \subseteq Qemus
  BY <1>0 DEF ScriptsOK, Found
<1>6. /\ seen' \in [Scripts -> SUBSET Qemus]
      /\ \A t \in Scripts \ {s} : polls'[t] = polls[t] /\ seen'[t] = seen[t]
  BY <1>1, <1>5
<1>7. StopOf(s)'
  <2>1. CASE Op(s) = "stop"
    <3>1. seen'[s] = Found(Name(s))  BY <1>1, <1>5, <2>1
    <3>2. Found(Name(s))' = Found(Name(s))  BY <1>2, <1>4 DEF Found
    <3>3. Stopping(s)'  BY <1>3, <1>4, <2>1 DEF Stopping
    <3> QED  BY <1>3, <1>4, <3>1, <3>2, <3>3 DEF StopOf
  <2>2. CASE Op(s) # "stop"
    <3>1. StopOf(s) /\ ~Stopping(s)  BY <1>0, <1>1 DEF StopInv, Stopping
    <3>2. \A q \in seen[s] : qstate'[q] = "dead"  BY <1>0, <3>1, FoundDead
    <3> QED  BY <1>1, <1>4, <2>2, <3>2 DEF StopOf
  <2> QED  BY <2>1, <2>2
<1>8. shells' \in [Names -> [Processes -> Nat]] /\ polls' \in [Scripts -> 0 .. MaxPolls]
  BY <1>0, <1>1 DEF ScriptsOK
<1>9. p \in Steps \ {"idle"} /\ p # "poll" /\ pc[s] # "idle"  BY <1>1 DEF Steps
<1>10. UNCHANGED <<todo, nruns>>  BY <1>1
<1> QED  BY <1>3, <1>6, <1>7, <1>8, <1>9, <1>10, GotoKeeps

\* What is sent (wakeup_vm, resume_vm, pause_vm, save_vm, stop_vm).
LEMMA SendKeeps ==
  ASSUME IInv, Persists, NEW s \in Scripts, Send(s)
  PROVE  ScriptsOK' /\ PollsInv' /\ StopInv'
<1>0. ScriptsOK /\ PollsInv /\ StopInv /\ StopOf(s)  BY DEF IInv, StopInv
<1>1. pc[s] = "send" /\ UNCHANGED <<seen, nruns>>  BY DEF Send
<1>2. Name(s) \in Names  BY <1>0, <1>1, FirstWord
<1>3. shells' \in [Names -> [Processes -> Nat]]  BY <1>0, <1>2, BackgroundType DEF Send
<1>4. CASE Op(s) = "stop"
  <2>1. Goto(s, "poll") /\ polls' = [polls EXCEPT ![s] = 0] /\ UNCHANGED todo
    BY <1>4 DEF Send
  <2>2. StopOf(s)'  BY <1>0, <1>1, <1>4, <2>1, StopGoesOn
  <2>3. /\ polls' \in [Scripts -> 0 .. MaxPolls] /\ polls'[s] < MaxPolls
        /\ \A t \in Scripts \ {s} : polls'[t] = polls[t]
    BY <1>0, <2>1, ServerAssumption DEF ScriptsOK
  <2>4. seen' \in [Scripts -> SUBSET Qemus]  BY <1>0, <1>1 DEF ScriptsOK
  <2> QED  BY <1>1, <1>3, <2>1, <2>2, <2>3, <2>4, GotoKeeps DEF Steps
<1>5. CASE Op(s) # "stop"
  <2>1. Finish(s) /\ UNCHANGED polls  BY <1>5 DEF Send
  <2>2. ~Stopping(s)  BY <1>5 DEF Stopping
  <2>3. \A q \in seen[s] : qstate'[q] = "dead"  BY <1>0, <2>2, FoundDead
  <2> QED  BY <1>1, <1>3, <2>1, <2>3, FinishKeeps
<1> QED  BY <1>4, <1>5

\* The loop of stop_vm() and what follows it.
LEMMA StopKeeps ==
  ASSUME IInv, Persists, NEW s \in Scripts, PollAgain(s) \/ ForceOff(s)
  PROVE  ScriptsOK' /\ PollsInv' /\ StopInv'
<1>0. ScriptsOK /\ PollsInv /\ StopInv /\ StopOf(s)  BY DEF IInv, StopInv
<1>1. CASE PollAgain(s)
  <2>1. /\ pc[s] = "poll" /\ polls' = [polls EXCEPT ![s] = @ + 1]
        /\ Goto(s, IF polls'[s] = MaxPolls THEN "force" ELSE "poll")
        /\ UNCHANGED <<shells, todo, seen, nruns>>
    BY <1>1 DEF PollAgain
  <2>2. polls[s] < MaxPolls /\ Op(s) = "stop"  BY <1>0, <2>1 DEF PollsInv, StopOf
  <2>3. polls \in [Scripts -> 0 .. MaxPolls]  BY <1>0 DEF ScriptsOK
  <2>4. polls'[s] = polls[s] + 1 /\ \A t \in Scripts \ {s} : polls'[t] = polls[t]
    BY <2>1, <2>3
  <2>5. polls[s] + 1 \in 0 .. MaxPolls  BY <2>2, <2>3, ServerAssumption
  <2>6. polls' \in [Scripts -> 0 .. MaxPolls]  BY <2>1, <2>3, <2>5
  <2>7. PICK p \in {"poll", "force"} :
          Goto(s, p) /\ (p = "poll" => polls'[s] # MaxPolls)
    BY <2>1
  <2>8. p = "poll" => polls'[s] < MaxPolls  BY <2>4, <2>5, <2>7, ServerAssumption
  <2>9. StopOf(s)'  BY <1>0, <2>1, <2>2, <2>7, StopGoesOn
  <2>10. seen' \in [Scripts -> SUBSET Qemus] /\ shells' \in [Names -> [Processes -> Nat]]
    BY <1>0, <2>1 DEF ScriptsOK
  <2>11. p \in Steps \ {"idle"} /\ pc[s] # "idle"  BY <2>1 DEF Steps
  <2> QED  BY <2>1, <2>4, <2>6, <2>7, <2>8, <2>9, <2>10, <2>11, GotoKeeps
<1>2. CASE ForceOff(s)
  <2>1. /\ pc[s] = "force" /\ Goto(s, "kill") /\ UNCHANGED <<todo, polls, seen, nruns>>
    BY <1>2 DEF ForceOff
  <2>2. Op(s) = "stop" /\ Name(s) \in Names  BY <1>0, <2>1, FirstWord DEF StopOf
  <2>3. shells' \in [Names -> [Processes -> Nat]]
    BY <1>0, <1>2, <2>2, BackgroundType DEF ForceOff
  <2>4. StopOf(s)'  BY <1>0, <2>1, <2>2, StopGoesOn
  <2>5. polls' \in [Scripts -> 0 .. MaxPolls] /\ seen' \in [Scripts -> SUBSET Qemus]
    BY <1>0, <2>1 DEF ScriptsOK
  <2>6. "kill" \in Steps \ {"idle"} /\ pc[s] # "idle"  BY <2>1 DEF Steps
  <2> QED  BY <2>1, <2>3, <2>4, <2>5, <2>6, GotoKeeps
<1> QED  BY <1>1, <1>2

\* The commands that end: one that is refused, start_vm(), the loop that finds nothing
\* any more, and kill -9.
LEMMA EndsKeep ==
  ASSUME IInv, Persists, NEW s \in Scripts,
         Exits(s) \/ StartVM(s) \/ PollEnds(s) \/ Kill(s)
  PROVE  ScriptsOK' /\ PollsInv' /\ StopInv'
<1>0. ScriptsOK /\ StopOf(s) /\ QemusOK  BY DEF IInv, StopInv
<1>1. pc[s] # "idle" /\ Finish(s) /\ UNCHANGED <<shells, polls, seen, nruns>>
  BY DEF Exits, StartVM, PollEnds, Kill
<1>2. shells' \in [Names -> [Processes -> Nat]]  BY <1>0, <1>1 DEF ScriptsOK
<1>3. \A q \in seen[s] : qstate'[q] = "dead"
  <2>1. CASE Exits(s) \/ StartVM(s)
    <3>1. ~Stopping(s)  BY <2>1 DEF Exits, StartVM, Stopping
    <3> QED  BY <1>0, <3>1, FoundDead
  <2>2. CASE PollEnds(s)
    <3>1. Found(Name(s)) = {}  BY <2>2 DEF PollEnds, Nothing
    <3>2. \A q \in seen[s] : q \in Qemus /\ qstate[q] = "dead"
      BY <1>0, <3>1 DEF StopOf, ScriptsOK
    <3> QED  BY <3>2 DEF Persists
  <2>3. CASE Kill(s)
    <3>1. \A q \in Qemus : qstate'[q] = IF q \in Found(Name(s)) THEN "dead" ELSE qstate[q]
      BY <1>0, <2>3, KillQemus
    <3>2. \A q \in seen[s] : q \in Qemus  BY <1>0 DEF ScriptsOK
    <3>3. \A q \in seen[s] : qstate[q] = "dead" \/ q \in Found(Name(s))
      BY <1>0 DEF StopOf
    <3> QED  BY <3>1, <3>2, <3>3
  <2> QED  BY <2>1, <2>2, <2>3
<1> QED  BY <1>1, <1>2, <1>3, FinishKeeps

\* Steps of QEMU and of processes in the background: no script moves.
LEMMA RestKeeps ==
  ASSUME IInv, Persists, UNCHANGED script, shells' \in [Names -> [Processes -> Nat]]
  PROVE  ScriptsOK' /\ PollsInv' /\ StopInv'
<1>0. ScriptsOK /\ PollsInv /\ StopInv  BY DEF IInv
<1>1. UNCHANGED <<pc, todo, polls, seen, nruns>>  BY DEF script
<1>2. /\ pc' \in [Scripts -> Steps] /\ todo' \in [Scripts -> Seq(Words)]
      /\ polls' \in [Scripts -> 0 .. MaxPolls] /\ seen' \in [Scripts -> SUBSET Qemus]
      /\ nruns' \in 0 .. MaxRuns /\ \A t \in Scripts : pc'[t] = "idle" <=> todo'[t] = <<>>
  BY <1>0, <1>1 DEF ScriptsOK
<1>3. ScriptsOK'  BY <1>2, ScriptsLater
<1>4. PollsInv'  BY <1>0, <1>1 DEF PollsInv
<1>5. \A t \in Scripts : StopOf(t)'  BY <1>0, <1>1, StillStopping DEF StopInv
<1> QED  BY <1>3, <1>4, <1>5 DEF StopInv

-----------------------------------------------------------------------------
(* The invariant *)

\* A script that begins, or goes on with its command.
LEMMA ScriptSteps ==
  ASSUME IInv, NEW s \in Scripts, BeginOwn(s) \/ BeginRc(s) \/ ScriptStep(s)
  PROVE  IInv' /\ Persists
<1>0. QemusOK /\ ScriptsOK  BY DEF IInv
<1>1. CASE BeginOwn(s)
  <2>1. PICK run \in OwnRuns : Begin(s, run)  BY <1>1 DEF BeginOwn
  <2>2. UNCHANGED qemus  BY <1>1, <2>1 DEF BeginOwn, Begin, qemus
  <2>3. QemusOK' /\ Persists  BY <1>0, <2>2, QemusUnchanged
  <2>4. ScriptsOK' /\ PollsInv' /\ StopInv'  BY <2>1, <2>3, BeginKeeps
  <2> QED  BY <2>3, <2>4 DEF IInv
<1>2. CASE BeginRc(s)
  <2>1. PICK run \in RcRuns : Begin(s, run)  BY <1>2 DEF BeginRc
  <2>2. QemusOK' /\ Persists  BY <1>0, <1>2, RcQemus DEF BeginRc, Begin
  <2>3. ScriptsOK' /\ PollsInv' /\ StopInv'  BY <2>1, <2>2, BeginKeeps
  <2> QED  BY <2>2, <2>3 DEF IInv
<1>3. CASE StartVM(s)
  <2>1. QemusOK' /\ Persists  BY <1>0, <1>3, StartQemus
  <2>2. ScriptsOK' /\ PollsInv' /\ StopInv'  BY <1>3, <2>1, EndsKeep
  <2> QED  BY <2>1, <2>2 DEF IInv
<1>4. CASE Kill(s)
  <2>1. QemusOK' /\ Persists  BY <1>0, <1>4, KillQemus
  <2>2. ScriptsOK' /\ PollsInv' /\ StopInv'  BY <1>4, <2>1, EndsKeep
  <2> QED  BY <2>1, <2>2 DEF IInv
<1>5. CASE Exits(s) \/ GoesOn(s) \/ Load(s) \/ Send(s) \/ PollEnds(s)
           \/ PollAgain(s) \/ ForceOff(s)
  <2>1. UNCHANGED qemus
    BY <1>5 DEF Exits, GoesOn, Load, Send, PollEnds, PollAgain, ForceOff, qemus
  <2>2. QemusOK' /\ Persists  BY <1>0, <2>1, QemusUnchanged
  <2>3. ScriptsOK' /\ PollsInv' /\ StopInv'
    BY <1>5, <2>2, EndsKeep, GoesOnKeeps, LoadKeeps, SendKeeps, StopKeeps
  <2> QED  BY <2>2, <2>3 DEF IInv
<1> QED  BY <1>1, <1>2, <1>3, <1>4, <1>5 DEF ScriptStep

\* A process in the background that connects is one less (qmp-shell, main).
LEMMA ConnectShells ==
  ASSUME ScriptsOK, NEW n \in Names, NEW c \in Processes, Connect(n, c)
  PROVE  shells' \in [Names -> [Processes -> Nat]]
<1>1. shells[n] \in [Processes -> Nat] /\ shells[n][c] > 0  BY DEF Connect, ScriptsOK
<1>2. shells[n][c] - 1 \in Nat  BY <1>1
<1> DEFINE f == [shells[n] EXCEPT ![c] = @ - 1]
<1>3. f \in [Processes -> Nat]  BY <1>1, <1>2
<1>4. shells' = [shells EXCEPT ![n] = f]  BY DEF Connect, ScriptsOK
<1> HIDE DEF f
<1> QED  BY <1>3, <1>4 DEF ScriptsOK

\* Every step of the scripts, the QEMUs and the processes in the background.
LEMMA Inductive == IInv /\ [Next]_vars => IInv' /\ Persists
<1> SUFFICES ASSUME IInv, [Next]_vars  PROVE IInv' /\ Persists  OBVIOUS
<1>0. QemusOK /\ ScriptsOK  BY DEF IInv
<1>1. ASSUME NEW s \in Scripts, BeginOwn(s) \/ BeginRc(s) \/ ScriptStep(s)
      PROVE  IInv' /\ Persists
  BY <1>1, ScriptSteps
<1>2. ASSUME NEW q \in Qemus, QemuStep(q)  PROVE IInv' /\ Persists
  <2>1. QemusOK' /\ Persists  BY <1>0, <1>2, QemuSteps
  <2>2. UNCHANGED <<shells, script>>
    BY <1>2 DEF QemuStep, Exec, BindMonitor, QemuEnds, Ends, ExecFails, GuestSleeps, Serve,
                OpenTerminal, UserPauses, Leave
  <2>3. shells' \in [Names -> [Processes -> Nat]]  BY <1>0, <2>2 DEF ScriptsOK
  <2>4. ScriptsOK' /\ PollsInv' /\ StopInv'  BY <2>1, <2>2, <2>3, RestKeeps
  <2> QED  BY <2>1, <2>4 DEF IInv
<1>3. ASSUME NEW n \in Names, NEW c \in Processes, Connect(n, c)  PROVE IInv' /\ Persists
  <2>1. QemusOK' /\ Persists  BY <1>0, <1>3, ConnectQemus
  <2>2. UNCHANGED script /\ shells' \in [Names -> [Processes -> Nat]]
    BY <1>0, <1>3, ConnectShells DEF Connect
  <2>3. ScriptsOK' /\ PollsInv' /\ StopInv'  BY <2>1, <2>2, RestKeeps
  <2> QED  BY <2>1, <2>3 DEF IInv
<1>4. CASE RcOnlyKills
  <2>1. QemusOK' /\ Persists  BY <1>0, <1>4, RcQemus DEF RcOnlyKills
  <2>2. UNCHANGED script /\ shells' \in [Names -> [Processes -> Nat]]
    BY <1>0, <1>4 DEF RcOnlyKills, ScriptsOK
  <2>3. ScriptsOK' /\ PollsInv' /\ StopInv'  BY <2>1, <2>2, RestKeeps
  <2> QED  BY <2>1, <2>3 DEF IInv
<1>5. CASE UNCHANGED vars
  <2>1. UNCHANGED <<qemus, shells, script>>  BY <1>5 DEF vars
  <2>2. QemusOK' /\ Persists  BY <1>0, <2>1, QemusUnchanged
  <2>3. shells' \in [Names -> [Processes -> Nat]]  BY <1>0, <2>1 DEF ScriptsOK
  <2>4. ScriptsOK' /\ PollsInv' /\ StopInv'  BY <2>1, <2>2, <2>3, RestKeeps
  <2> QED  BY <2>2, <2>4 DEF IInv
<1> QED  BY <1>1, <1>2, <1>3, <1>4, <1>5 DEF Next

\* Nothing but a check says whether starts have met.
LEMMA OnlyStartsRace ==
  ASSUME [Next]_vars
  PROVE  UNCHANGED raced \/ \E s \in Scripts : GoesOn(s)
<1>1. ASSUME NEW s \in Scripts, BeginOwn(s) \/ BeginRc(s) \/ ScriptStep(s)
      PROVE  UNCHANGED raced \/ GoesOn(s)
  BY <1>1 DEF BeginOwn, BeginRc, Begin, ScriptStep, Exits, Load, StartVM, Send, PollEnds,
              PollAgain, ForceOff, Kill
<1>2. ASSUME NEW q \in Qemus, QemuStep(q)  PROVE UNCHANGED raced
  BY <1>2 DEF QemuStep, Exec, BindMonitor, QemuEnds, Ends, ExecFails, GuestSleeps, Serve,
              OpenTerminal, UserPauses, Leave
<1>3. ASSUME NEW n \in Names, NEW c \in Processes, Connect(n, c)  PROVE UNCHANGED raced
  BY <1>3 DEF Connect
<1>4. UNCHANGED vars \/ RcOnlyKills => UNCHANGED raced
  BY DEF vars, RcOnlyKills
<1> QED  BY <1>1, <1>2, <1>3, <1>4 DEF Next

\* The invariant holds of every run of the scripts.
LEMMA Invariant == Spec => []IInv
<1>1. Init => IInv  BY Initially
<1>2. IInv /\ [Next]_vars => IInv'  BY Inductive
<1> QED  BY <1>1, <1>2, PTL DEF Spec

\* The scripts, the QEMUs and the background processes keep their types, and no more
\* polls are counted than stop_vm allows.
THEOREM ServerTypes == Spec => []TypeOK
<1>1. Init => RacedOK  BY DEF Init, RacedOK
<1>2. IInv /\ RacedOK /\ [Next]_vars => RacedOK'
  <2> SUFFICES ASSUME IInv, RacedOK, [Next]_vars  PROVE RacedOK'  OBVIOUS
  <2>1. ASSUME NEW s \in Scripts, GoesOn(s)  PROVE RacedOK'
    <3>1. Name(s) \in Names  BY <2>1, FirstWord DEF GoesOn, IInv
    <3> QED  BY <2>1, <3>1 DEF GoesOn, Races, RacedOK
  <2>2. UNCHANGED raced \/ \E s \in Scripts : GoesOn(s)  BY OnlyStartsRace
  <2> QED  BY <2>1, <2>2 DEF RacedOK
<1>3. IInv /\ RacedOK => TypeOK  BY Parts DEF IInv
<1> QED  BY <1>1, <1>2, <1>3, Invariant, PTL DEF Spec

\* A stop that has returned left none of the QEMUs it found alive (stop_vm).
THEOREM StopsStop == Spec => []StopStops
<1>1. IInv => StopStops
  BY DEF IInv, StopInv, StopOf, Stopping, StopStops
<1> QED  BY <1>1, Invariant, PTL

\* What no step of any script or guest does: bring back a QEMU that has ended, or hide
\* one that runs from the pgrep of the scripts.
THEOREM NoneComesBack == Spec => [][Persists]_vars
<1>1. IInv /\ [Next]_vars => [Persists]_vars  BY Inductive
<1> QED  BY <1>1, Invariant, PTL DEF Spec

-----------------------------------------------------------------------------
(* Starts that do not meet *)

\* A step after which no script and no QEMU is one of n that was not before it, and which
\* takes the monitor from none but another QEMU of n.
ForksOf(n) == \A s \in Scripts : Forking(s, n)' => Forking(s, n)
QemusOf(n) ==
  \A q \in Qemus : RunsAs(q, n)' =>
    /\ RunsAs(q, n)
    /\ qstate'[q] \in Bound => \/ owner'[n] = q
                               \/ qstate[q] \in Bound /\ owner'[n] = owner[n]
                               \/ \E p \in Qemus \ {q} : RunsAs(p, n)

\* The state before the first invocation.
LEMMA InitiallyUnique == Init => UniqueInv
BY DEF Init, UniqueInv, OneOf, Forking, RunsAs, Alive, Visible, Bound

\* No such step starts a machine twice or hides a monitor (start_vm).
LEMMA OneOfKeeps ==
  ASSUME NEW n \in Names, OneOf(n), ForksOf(n), QemusOf(n)
  PROVE  OneOf(n)'
<1>1. \A s, t \in Scripts : Forking(s, n)' /\ Forking(t, n)' => s = t
  BY DEF OneOf, ForksOf
<1>2. \A p, q \in Qemus : RunsAs(p, n)' /\ RunsAs(q, n)' => p = q
  BY DEF OneOf, QemusOf
<1>3. \A s \in Scripts, q \in Qemus : ~(Forking(s, n)' /\ RunsAs(q, n)')
  BY DEF OneOf, ForksOf, QemusOf
<1>4. ASSUME NEW q \in Qemus, RunsAs(q, n)', qstate'[q] \in Bound
      PROVE  owner'[n] = q
  <2>1. RunsAs(q, n) /\ \A p \in Qemus \ {q} : ~RunsAs(p, n)
    BY <1>4 DEF OneOf, QemusOf
  <2>2. owner'[n] = q \/ (qstate[q] \in Bound /\ owner'[n] = owner[n])
    BY <1>4, <2>1 DEF QemusOf
  <2> QED  BY <2>1, <2>2 DEF OneOf
<1> QED  BY <1>1, <1>2, <1>3, <1>4 DEF OneOf

\* And none of them does so for any name.
LEMMA UniqueKeeps ==
  ASSUME UniqueInv, raced' = raced, \A n \in Names : ForksOf(n) /\ QemusOf(n)
  PROVE  UniqueInv'
BY OneOfKeeps DEF UniqueInv

\* The QEMUs stay as they are.
LEMMA SameQemus ==
  ASSUME UNCHANGED <<qname, qstate, owner>>, NEW n \in Names
  PROVE  QemusOf(n)
BY DEF QemusOf, RunsAs

\* A script that is not about to fork after its step, while the others stay as they are.
LEMMA NoFork ==
  ASSUME NEW s \in Scripts, pc'[s] # "fork",
         \A t \in Scripts \ {s} : pc'[t] = pc[t] /\ todo'[t] = todo[t], NEW n \in Names
  PROVE  ForksOf(n)
<1>1. \A t \in Scripts \ {s} : Name(t)' = Name(t)  BY DEF Name
<1> QED  BY <1>1 DEF ForksOf, Forking

\* No script moves.
LEMMA SameScripts ==
  ASSUME UNCHANGED script, NEW n \in Names
  PROVE  ForksOf(n)
BY DEF script, ForksOf, Forking, Name

\* start_vm() after its check: the script that was about to fork is not any more, and its
\* QEMU, if there is one, is the only one instead.
LEMMA ForkUnique ==
  ASSUME QemusOK, ScriptsOK, UniqueInv, NEW s \in Scripts, StartVM(s)
  PROVE  UniqueInv'
<1>0. pc[s] = "fork" /\ Finish(s) /\ owner' = owner /\ raced' = raced  BY DEF StartVM
<1>1. /\ pc'[s] # "fork"
      /\ \A t \in Scripts \ {s} : pc'[t] = pc[t] /\ todo'[t] = todo[t]
  BY <1>0, Finishes
<1>2. \A n \in Names : ForksOf(n)  BY <1>1, NoFork
<1>3. CASE UNCHANGED <<nqemus, qname, qstate>>
  BY <1>0, <1>2, <1>3, SameQemus, UniqueKeeps
<1>4. CASE /\ nqemus < MaxQemus
           /\ nqemus' = nqemus + 1
           /\ qname' = [qname EXCEPT ![nqemus'] = Name(s)]
           /\ qstate' = [qstate EXCEPT ![nqemus'] = "forked"]
  <2> DEFINE k == nqemus + 1
  <2>1. k \in Qemus  BY <1>4, ServerAssumption DEF QemusOK, Qemus
  <2>2. qname' = [qname EXCEPT ![k] = Name(s)] /\ qstate' = [qstate EXCEPT ![k] = "forked"]
    BY <1>4
  <2> HIDE DEF k
  <2>3. /\ qname'[k] = Name(s) /\ qstate'[k] = "forked"
        /\ \A q \in Qemus \ {k} : qname'[q] = qname[q] /\ qstate'[q] = qstate[q]
    BY <2>1, <2>2 DEF QemusOK
  <2>4. ASSUME NEW n \in Names \ raced  PROVE OneOf(n)'
    <3>1. OneOf(n) /\ ForksOf(n)  BY <1>2 DEF UniqueInv
    <3>2. CASE n # Name(s)
      <4>1. QemusOf(n)  BY <1>0, <2>3, <3>2 DEF QemusOf, RunsAs
      <4> QED  BY <3>1, <4>1, OneOfKeeps
    <3>3. CASE n = Name(s)
      <4>1. Forking(s, n)  BY <1>0, <3>3 DEF Forking
      <4>2. \A t \in Scripts : ~Forking(t, n)'
        <5>1. \A t \in Scripts \ {s} : ~Forking(t, n)  BY <3>1, <4>1 DEF OneOf
        <5> QED  BY <1>1, <3>1, <5>1 DEF ForksOf, Forking
      <4>3. \A q \in Qemus : ~RunsAs(q, n)  BY <3>1, <4>1 DEF OneOf
      <4>4. \A q \in Qemus : RunsAs(q, n)' => q = k  BY <2>3, <4>3 DEF RunsAs
      <4>5. qstate'[k] \notin Bound  BY <2>3 DEF Bound
      <4> QED  BY <4>2, <4>4, <4>5 DEF OneOf
    <3> QED  BY <3>2, <3>3
  <2> QED  BY <1>0, <2>4 DEF UniqueInv
<1> QED  BY <1>3, <1>4 DEF StartVM

\* The check of start_vm() sees the machine if it runs, and another start that it does
\* not see is one that it meets.
LEMMA CheckUnique ==
  ASSUME QemusOK, ScriptsOK, UniqueInv, NEW s \in Scripts, GoesOn(s)
  PROVE  UniqueInv'
<1>1. pc[s] = "check" /\ todo' = todo /\ UNCHANGED <<qname, qstate, owner>> /\ Races(s)
  BY DEF GoesOn, qemus
<1>2. Name(s) \in Names  BY <1>1, FirstWord
<1>3. \A n \in Names : QemusOf(n)  BY <1>1, SameQemus
<1>4. CASE Op(s) # "start"
  <2>1. Goto(s, "send") /\ raced' = raced  BY <1>1, <1>4 DEF GoesOn, Races
  <2>2. pc'[s] = "send" /\ \A t \in Scripts \ {s} : pc'[t] = pc[t] /\ todo'[t] = todo[t]
    BY <1>1, <2>1, GoesTo DEF Steps
  <2>3. \A n \in Names : ForksOf(n)  BY <2>2, NoFork
  <2> QED  BY <1>3, <2>1, <2>3, UniqueKeeps
<1>5. CASE Op(s) = "start"
  <2>1. Nothing(s) /\ Goto(s, "fork")  BY <1>1, <1>5 DEF GoesOn
  <2>2. raced' = IF Rival(s) THEN raced \cup {Name(s)} ELSE raced \ {Name(s)}
    BY <1>1, <1>5 DEF Races
  <2>3. /\ pc'[s] = "fork" /\ Name(s)' = Name(s)
        /\ \A t \in Scripts \ {s} : pc'[t] = pc[t] /\ Name(t)' = Name(t)
    BY <1>1, <2>1, GoesTo DEF Steps, Name
  <2>4. ASSUME NEW n \in Names \ raced'  PROVE OneOf(n)'
    <3>1. CASE n # Name(s)
      <4>1. OneOf(n)  BY <2>2, <3>1 DEF UniqueInv
      <4>2. ForksOf(n)  BY <2>3, <3>1 DEF ForksOf, Forking
      <4> QED  BY <1>3, <4>1, <4>2, OneOfKeeps
    <3>2. CASE n = Name(s)
      <4>1. ~Rival(s)  BY <2>2, <3>2
      <4>2. \A t \in Scripts \ {s} : ~Forking(t, n)'
        BY <2>3, <3>2, <4>1 DEF Rival, Forking
      <4>3. \A q \in Qemus : ~RunsAs(q, n)'
        <5>1. \A q \in Qemus : qstate[q] \in Visible => qname[q] # n
          BY <1>2, <2>1, <3>2, ServerAssumption DEF Nothing, Found
        <5>2. \A q \in Qemus : qstate[q] = "forked" => qname[q] # n
          BY <3>2, <4>1 DEF Rival
        <5> QED  BY <1>1, <5>1, <5>2 DEF RunsAs, Alive
      <4> QED  BY <4>2, <4>3 DEF OneOf
    <3> QED  BY <3>1, <3>2
  <2> QED  BY <2>4 DEF UniqueInv
<1> QED  BY <1>4, <1>5

\* The other steps of the scripts: none gets ready to fork, or has a QEMU more.
LEMMA ScriptUnique ==
  ASSUME QemusOK, ScriptsOK, UniqueInv, NEW s \in Scripts,
         BeginOwn(s) \/ BeginRc(s) \/ ScriptStep(s)
  PROVE  UniqueInv'
<1>a. pc \in [Scripts -> Steps] /\ todo \in [Scripts -> Seq(Words)]  BY DEF ScriptsOK
<1>1. CASE GoesOn(s)  BY <1>1, CheckUnique
<1>2. CASE StartVM(s)  BY <1>2, ForkUnique
<1>3. ASSUME raced' = raced, pc'[s] # "fork",
             \A t \in Scripts \ {s} : pc'[t] = pc[t] /\ todo'[t] = todo[t],
             \A n \in Names : QemusOf(n)
      PROVE  UniqueInv'
  BY <1>3, NoFork, UniqueKeeps
<1>4. CASE BeginOwn(s) \/ BeginRc(s)
  <2>1. PICK run \in RcRuns \cup OwnRuns : Begin(s, run)  BY <1>4 DEF BeginOwn, BeginRc
  <2>2. /\ pc' = [pc EXCEPT ![s] = "check"] /\ todo' = [todo EXCEPT ![s] = run]
        /\ raced' = raced /\ UNCHANGED <<qname, qstate, owner>>
    BY <2>1 DEF Begin, Goto
  <2>3. pc'[s] = "check" /\ \A t \in Scripts \ {s} : pc'[t] = pc[t] /\ todo'[t] = todo[t]
    BY <1>a, <2>2
  <2> QED  BY <1>3, <2>2, <2>3, SameQemus
<1>5. CASE Load(s)
  <2>1. /\ pc[s] = "check" /\ pc' = pc /\ raced' = raced /\ UNCHANGED qemus
        /\ todo' = [todo EXCEPT ![s] = <<Step("start", Name(s))>> \o Tail(todo[s])]
    BY <1>5 DEF Load
  <2>2. \A t \in Scripts \ {s} : pc'[t] = pc[t] /\ todo'[t] = todo[t]  BY <1>a, <2>1
  <2>3. UNCHANGED <<qname, qstate, owner>>  BY <2>1 DEF qemus
  <2> QED  BY <1>3, <2>1, <2>2, <2>3, SameQemus
<1>6. CASE Exits(s) \/ PollEnds(s) \/ Kill(s) \/ Send(s) \/ PollAgain(s) \/ ForceOff(s)
  <2>1. raced' = raced /\ pc[s] # "idle"
    BY <1>6 DEF Exits, PollEnds, Kill, Send, PollAgain, ForceOff
  <2>2. \A n \in Names : QemusOf(n)
    <3>1. CASE Kill(s)
      <4>1. /\ UNCHANGED <<nqemus, qname, owner>>
            /\ \A q \in Qemus : qstate'[q] = IF q \in Found(Name(s)) THEN "dead" ELSE qstate[q]
        BY <3>1, KillQemus
      <4>2. "dead" \notin Alive /\ "dead" \notin Bound  BY DEF Alive, Visible, Bound
      <4> QED  BY <4>1, <4>2 DEF QemusOf, RunsAs
    <3>2. CASE ~Kill(s)
      <4>1. UNCHANGED <<qname, qstate, owner>>
        BY <1>6, <3>2 DEF Exits, PollEnds, Send, PollAgain, ForceOff, qemus
      <4> QED  BY <4>1, SameQemus
    <3> QED  BY <3>1, <3>2
  <2>3. Finish(s) \/ \E p \in {"poll", "force", "kill"} : Goto(s, p) /\ todo' = todo
    BY <1>6 DEF Exits, PollEnds, Kill, Send, PollAgain, ForceOff
  <2>4. pc'[s] # "fork" /\ \A t \in Scripts \ {s} : pc'[t] = pc[t] /\ todo'[t] = todo[t]
    <3>1. CASE Finish(s)  BY <2>1, <3>1, Finishes
    <3>2. ASSUME NEW p \in {"poll", "force", "kill"}, Goto(s, p), todo' = todo
          PROVE  pc'[s] # "fork" /\ \A t \in Scripts \ {s} : pc'[t] = pc[t] /\ todo'[t] = todo[t]
      BY <1>a, <3>2 DEF Goto
    <3> QED  BY <2>3, <3>1, <3>2
  <2> QED  BY <1>3, <2>1, <2>2, <2>4
<1> QED  BY <1>1, <1>2, <1>4, <1>5, <1>6 DEF ScriptStep

\* A QEMU that ends takes the path of its name with it, and one that starts takes it over:
\* from no other QEMU that still listens, unless that has the same name.
LEMMA PathOf ==
  ASSUME QemusOK, NEW q \in Qemus, NEW v, qstate[q] \in Alive, qname' = qname,
         qstate' = [qstate EXCEPT ![q] = v], v \in Bound => owner'[qname[q]] = q,
         \A m \in Names \ {qname[q]} : owner'[m] = owner[m], NEW n \in Names
  PROVE  QemusOf(n)
<1>1. SUFFICES ASSUME NEW p \in Qemus, RunsAs(p, n)'
               PROVE  /\ RunsAs(p, n)
                      /\ qstate'[p] \in Bound => \/ owner'[n] = p
                                                 \/ qstate[p] \in Bound /\ owner'[n] = owner[n]
                                                 \/ \E r \in Qemus \ {p} : RunsAs(r, n)
  BY DEF QemusOf
<1>2. qstate'[q] = v /\ \A r \in Qemus \ {q} : qstate'[r] = qstate[r]  BY DEF QemusOK
<1>3. CASE p = q  BY <1>1, <1>2, <1>3 DEF RunsAs
<1>4. CASE p # q
  <2>1. RunsAs(p, n) /\ qstate'[p] = qstate[p]  BY <1>1, <1>2, <1>4 DEF RunsAs
  <2>2. CASE qname[q] = n  BY <1>4, <2>1, <2>2 DEF RunsAs
  <2>3. CASE qname[q] # n  BY <2>1, <2>3
  <2> QED  BY <2>1, <2>2, <2>3
<1> QED  BY <1>3, <1>4

\* The steps of QEMU.
LEMMA QemuUnique ==
  ASSUME QemusOK, NEW q \in Qemus, QemuStep(q), NEW n \in Names
  PROVE  QemusOf(n)
<1>d. qstate \in [Qemus -> Alive \cup {"unborn", "dead"}] /\ owner \in [Names -> 0 .. nqemus]
  BY DEF QemusOK
<1>c. clients[q] # <<>> => qstate[q] \in Bound  BY DEF QemusOK
<1>b. \A v \in Bound : v \in Alive  BY DEF Alive, Visible
<1>1. CASE Exec(q) \/ ExecFails(q)
  <2>1. PICK v \in {"starting", "dead"} : qstate' = [qstate EXCEPT ![q] = v]
    BY <1>1 DEF Exec, ExecFails
  <2>2. qname' = qname /\ owner' = owner /\ qstate[q] \in Alive
    BY <1>1 DEF Exec, ExecFails, Alive, Visible
  <2>3. v \notin Bound  BY <2>1 DEF Bound
  <2> QED  BY <2>1, <2>2, <2>3, PathOf
<1>2. CASE BindMonitor(q)
  <2>1. /\ qstate' = [qstate EXCEPT ![q] = "running"] /\ qname' = qname
        /\ owner' = [owner EXCEPT ![qname[q]] = q] /\ qstate[q] \in Alive
    BY <1>2 DEF BindMonitor, Alive, Visible
  <2>2. qname[q] \in Names  BY DEF QemusOK
  <2>3. owner'[qname[q]] = q /\ \A m \in Names \ {qname[q]} : owner'[m] = owner[m]
    BY <1>d, <2>1, <2>2
  <2> QED  BY <2>1, <2>3, PathOf
<1>3. ASSUME Ends(q), qstate[q] \in Bound  PROVE QemusOf(n)
  <2>1. /\ qstate' = [qstate EXCEPT ![q] = "dead"] /\ qname' = qname
        /\ owner' = [owner EXCEPT ![qname[q]] = 0]
    BY <1>3 DEF Ends
  <2>2. "dead" \notin Bound  BY DEF Bound
  <2>3. \A m \in Names \ {qname[q]} : owner'[m] = owner[m]  BY <1>d, <2>1
  <2> QED  BY <1>3, <1>b, <2>1, <2>2, <2>3, PathOf
<1>4. ASSUME qstate[q] \in Bound, UNCHANGED <<qname, owner>>,
             NEW v \in Bound, qstate' = [qstate EXCEPT ![q] = v]
      PROVE  QemusOf(n)
  <2>1. \A p \in Qemus : qstate'[p] = IF p = q THEN v ELSE qstate[p]  BY <1>d, <1>4
  <2> QED  BY <1>4, <1>b, <2>1 DEF QemusOf, RunsAs
<1>5. CASE QemuEnds(q)  BY <1>3, <1>5 DEF QemuEnds
<1>6. CASE Serve(q)
  <2>1. qstate[q] \in Bound  BY <1>6, <1>c DEF Serve
  <2>2. CASE Head(clients[q]) = "quit"  BY <1>3, <1>6, <2>1, <2>2 DEF Serve
  <2>3. CASE Head(clients[q]) # "quit"
    <3> DEFINE w == IF <<qstate[q], Head(clients[q])>> \in {<<"paused", "cont">>,
                                                            <<"suspended", "system_wakeup">>}
                    THEN "running" ELSE qstate[q]
    <3>1. qstate' = [qstate EXCEPT ![q] = w] /\ UNCHANGED <<qname, owner>>
      BY <1>6, <2>3 DEF Serve
    <3>2. w \in Bound  BY <2>1 DEF Bound
    <3> HIDE DEF w
    <3> QED  BY <1>4, <2>1, <3>1, <3>2
  <2> QED  BY <2>2, <2>3
<1>7. CASE GuestSleeps(q) \/ UserPauses(q)
  <2>1. PICK v \in {"suspended", "paused"} : qstate' = [qstate EXCEPT ![q] = v]
    BY <1>7 DEF GuestSleeps, UserPauses
  <2>2. qstate[q] \in Bound /\ v \in Bound /\ UNCHANGED <<qname, owner>>
    BY <1>7 DEF GuestSleeps, UserPauses, Bound
  <2> QED  BY <1>4, <2>1, <2>2
<1>8. CASE OpenTerminal(q) \/ Leave(q)
  <2>1. UNCHANGED <<qname, qstate, owner>>  BY <1>8 DEF OpenTerminal, Leave
  <2> QED  BY <2>1, SameQemus
<1> QED  BY <1>1, <1>2, <1>5, <1>6, <1>7, <1>8 DEF QemuStep

\* Every step.
LEMMA InductiveUnique ==
  ASSUME IInv, UniqueInv, [Next]_vars
  PROVE  UniqueInv'
<1>0. QemusOK /\ ScriptsOK  BY DEF IInv
<1>1. ASSUME NEW s \in Scripts, BeginOwn(s) \/ BeginRc(s) \/ ScriptStep(s)
      PROVE  UniqueInv'
  BY <1>0, <1>1, ScriptUnique
<1>2. ASSUME NEW q \in Qemus, QemuStep(q)  PROVE UniqueInv'
  <2>1. UNCHANGED script /\ UNCHANGED raced
    BY <1>2 DEF QemuStep, Exec, BindMonitor, QemuEnds, Ends, ExecFails, GuestSleeps, Serve,
                OpenTerminal, UserPauses, Leave
  <2> QED  BY <1>0, <1>2, <2>1, QemuUnique, SameScripts, UniqueKeeps
<1>3. ASSUME UNCHANGED <<qname, qstate, owner>>, UNCHANGED script, UNCHANGED raced
      PROVE  UniqueInv'
  BY <1>3, SameQemus, SameScripts, UniqueKeeps
<1>4. ASSUME NEW n \in Names, NEW c \in Processes, Connect(n, c)  PROVE UniqueInv'
  BY <1>3, <1>4 DEF Connect
<1>5. CASE RcOnlyKills \/ UNCHANGED vars
  BY <1>3, <1>5 DEF RcOnlyKills, vars, qemus
<1> QED  BY <1>1, <1>2, <1>4, <1>5 DEF Next

\* Whatever the starts of a machine, it is one as soon as they do not meet (start_vm).
LEMMA Unique == Spec => [](IInv /\ UniqueInv)
<1>1. Init => UniqueInv  BY InitiallyUnique
<1>2. IInv /\ UniqueInv /\ [Next]_vars => UniqueInv'  BY InductiveUnique
<1> QED  BY <1>1, <1>2, Invariant, PTL DEF Spec

\* With any number of scripts that start, load, stop and kill machines, and QEMUs that come
\* up as slowly as they like, a machine runs twice only if one start of it was past its
\* check, with nothing for pgrep to see, when the last one checked (start_vm).
THEOREM MachineRunsOnce == Spec => []OneQEMUPerName
<1>1. IInv /\ UniqueInv => OneQEMUPerName
  BY DEF IInv, QemusOK, UniqueInv, OneOf, RunsAs, OneQEMUPerName
<1> QED  BY <1>1, Unique, PTL

\* And only then is the monitor of a machine that runs not found at its path (MONITOR of
\* start_vm), though a QEMU that ends removes the path without a look whose it is, one
\* that is killed leaves it, and one that starts takes it from whoever has it.
THEOREM MonitorsReachable == Spec => []MonitorReachable
<1>1. IInv /\ UniqueInv => MonitorReachable
  <2> SUFFICES ASSUME IInv, UniqueInv, NEW q \in Qemus, qstate[q] \in Bound,
                      qname[q] \notin raced
               PROVE  owner[qname[q]] = q
    BY DEF MonitorReachable
  <2>1. qname[q] \in Names  BY DEF IInv, QemusOK
  <2>2. RunsAs(q, qname[q])  BY DEF RunsAs, Alive, Visible
  <2> QED  BY <2>1, <2>2 DEF UniqueInv, OneOf
<1> QED  BY <1>1, Unique, PTL

-----------------------------------------------------------------------------
(* Every invocation comes to its end *)

\* A bound on the steps of the command in progress: a stop polls MaxPolls times at most,
\* then forces the machine off; a load begins a start.
StepsOfCommand(s) ==
  CASE pc[s] \in {"idle", "fork", "kill"} -> 1
    [] pc[s] = "force" -> 2
    [] pc[s] = "poll" -> MaxPolls - polls[s] + 2
    [] pc[s] = "send" -> MaxPolls + 3
    [] pc[s] = "check" -> IF Op(s) = "load" THEN MaxPolls + 5 ELSE MaxPolls + 4

\* And on those of the commands after it.
StepsOfOthers(s) == (Len(todo[s]) - 1) * (MaxPolls + 5)

\* What is left of the invocation.
StepsLeft(s) == IF pc[s] = "idle" THEN 0 ELSE StepsOfOthers(s) + StepsOfCommand(s)

\* A script's own steps use the bound up, and nobody else's change it while it is at work.
ComesToItsEnd(s) ==
  /\ StepsLeft(s) \in Nat
  /\ ScriptStep(s) => StepsLeft(s)' < StepsLeft(s)
  /\ pc[s] # "idle" /\ ~ScriptStep(s) => StepsLeft(s)' = StepsLeft(s)

\* A number of commands may take as many times what one of them may (the words of $@).
LEMMA TimesInNat ==
  ASSUME NEW m \in Nat, NEW k \in Nat
  PROVE  m * k \in Nat
OBVIOUS

\* One command less.
LEMMA OneLess ==
  ASSUME NEW m \in Nat, NEW k \in Nat
  PROVE  m * k = (m - 1) * k + k /\ (m - 1) * k \in Int
OBVIOUS

\* What a command may take (stop_vm).
LEMMA CommandBound ==
  ASSUME ScriptsOK, PollsInv, NEW s \in Scripts
  PROVE  StepsOfCommand(s) \in 1 .. MaxPolls + 5
<1>1. /\ MaxPolls \in Nat /\ polls[s] \in 0 .. MaxPolls
      /\ pc[s] = "poll" => polls[s] < MaxPolls
      /\ pc[s] \in Steps
  BY ServerAssumption DEF ScriptsOK, PollsInv
<1> QED
  BY <1>1 DEF StepsOfCommand, Steps

\* And those after it.
LEMMA OthersBound ==
  ASSUME ScriptsOK, NEW s \in Scripts, pc[s] # "idle"
  PROVE  StepsOfOthers(s) \in Nat
<1> DEFINE m == Len(todo[s]) - 1
           k == MaxPolls + 5
<1>1. m \in Nat /\ k \in Nat
  BY FirstWord, ServerAssumption
<1>2. StepsOfOthers(s) = m * k
  BY DEF StepsOfOthers
<1> HIDE DEF m, k
<1> QED
  BY <1>1, <1>2, TimesInNat

\* The same after a step.
LEMMA CommandBoundLater ==
  ASSUME ScriptsOK', PollsInv', NEW s \in Scripts
  PROVE  StepsOfCommand(s)' \in 1 .. MaxPolls + 5
<1>1. /\ MaxPolls \in Nat /\ polls'[s] \in 0 .. MaxPolls
      /\ pc'[s] = "poll" => polls'[s] < MaxPolls
      /\ pc'[s] \in Steps
  BY ServerAssumption DEF ScriptsOK, PollsInv
<1> QED
  BY <1>1 DEF StepsOfCommand, Steps

\* A command that goes on, or becomes another one.
LEMMA CommandGoesOn ==
  ASSUME ScriptsOK, PollsInv, NEW s \in Scripts, pc[s] # "idle", pc'[s] # "idle",
         Len(todo'[s]) = Len(todo[s]), StepsOfCommand(s)' \in Nat,
         StepsOfCommand(s)' < StepsOfCommand(s)
  PROVE  StepsLeft(s)' < StepsLeft(s)
<1>1. StepsOfOthers(s)' = StepsOfOthers(s)
  BY DEF StepsOfOthers
<1>2. /\ StepsLeft(s) = StepsOfOthers(s) + StepsOfCommand(s)
      /\ StepsLeft(s)' = StepsOfOthers(s) + StepsOfCommand(s)'
  BY <1>1 DEF StepsLeft
<1>3. StepsOfCommand(s) \in Nat /\ StepsOfOthers(s) \in Nat
  BY CommandBound, OthersBound, ServerAssumption
<1> QED
  BY <1>2, <1>3

\* A command that ends: those that are left cannot take as many steps as there are.
LEMMA CommandEnds ==
  ASSUME ScriptsOK, PollsInv, NEW s \in Scripts, pc[s] # "idle", Finish(s),
         ScriptsOK', PollsInv'
  PROVE  StepsLeft(s)' < StepsLeft(s)
<1>1. /\ todo'[s] = Tail(todo[s]) /\ pc'[s] \in {"idle", "check"}
      /\ pc'[s] = "idle" <=> todo'[s] = <<>>
  BY Finishes
<1>2. todo[s] \in Seq(Words) /\ todo[s] # <<>>
  BY FirstWord
<1> DEFINE m == Len(todo[s]) - 1
           k == MaxPolls + 5
<1>3. m \in Nat /\ k \in Nat /\ Len(todo'[s]) = m
  BY <1>1, <1>2, ServerAssumption
<1>4. StepsOfCommand(s) \in 1 .. k /\ StepsOfCommand(s)' \in 1 .. k
  BY CommandBound, CommandBoundLater
<1>5. StepsLeft(s) = StepsOfOthers(s) + StepsOfCommand(s) /\ StepsOfOthers(s) \in Nat
  BY OthersBound DEF StepsLeft
<1>6. CASE pc'[s] = "idle"
  <2>1. StepsLeft(s)' = 0
    BY <1>6 DEF StepsLeft
  <2> HIDE DEF m, k
  <2> QED
    BY <1>3, <1>4, <1>5, <2>1
<1>7. CASE pc'[s] # "idle"
  <2>1. StepsOfOthers(s) = m * k /\ StepsOfOthers(s)' = (Len(todo'[s]) - 1) * k
    BY DEF StepsOfOthers
  <2>2. StepsLeft(s)' = StepsOfOthers(s)' + StepsOfCommand(s)'
    BY <1>7 DEF StepsLeft
  <2> HIDE DEF m, k
  <2>3. StepsOfOthers(s)' = (m - 1) * k
    BY <1>3, <2>1
  <2>4. StepsOfOthers(s) = StepsOfOthers(s)' + k /\ StepsOfOthers(s)' \in Int
    BY <1>3, <2>1, <2>3, OneLess
  <2> QED
    BY <1>3, <1>4, <1>5, <2>2, <2>4
<1> QED
  BY <1>6, <1>7

\* Each step of a script is one less.
LEMMA StepsGoDown ==
  ASSUME IInv, IInv', NEW s \in Scripts, ScriptStep(s)
  PROVE  StepsLeft(s)' < StepsLeft(s)
<1>0. ScriptsOK /\ PollsInv /\ ScriptsOK' /\ PollsInv'
  BY DEF IInv
<1>a. MaxPolls \in Nat \ {0} /\ polls[s] \in 0 .. MaxPolls /\ polls \in [Scripts -> 0 .. MaxPolls]
      /\ pc \in [Scripts -> Steps] /\ todo \in [Scripts -> Seq(Words)]
  BY <1>0, ServerAssumption DEF ScriptsOK
<1>1. CASE Finish(s) /\ pc[s] # "idle"
  BY <1>0, <1>1, CommandEnds
<1>2. ASSUME NEW p \in Steps \ {"idle"}, pc[s] # "idle", Goto(s, p), todo' = todo,
             StepsOfCommand(s)' < StepsOfCommand(s)
      PROVE  StepsLeft(s)' < StepsLeft(s)
  <2>1. pc'[s] = p /\ Len(todo'[s]) = Len(todo[s])
    BY <1>a, <1>2 DEF Goto
  <2>2. StepsOfCommand(s)' \in Nat
    BY <1>0, CommandBoundLater, <1>a
  <2> QED
    BY <1>0, <1>2, <2>1, <2>2, CommandGoesOn
<1>3. CASE GoesOn(s)
  <2>1. PICK p \in {"send", "fork"} : Goto(s, p)
    BY <1>3 DEF GoesOn
  <2>2. pc[s] = "check" /\ todo' = todo /\ pc'[s] = p /\ Op(s) # "load"
    BY <1>3, <1>a, <2>1 DEF GoesOn, Goto
  <2>3. StepsOfCommand(s)' < StepsOfCommand(s)
    BY <1>a, <2>1, <2>2 DEF StepsOfCommand
  <2> QED
    BY <1>2, <2>1, <2>2, <2>3 DEF Steps
<1>4. CASE Load(s)
  <2>1. /\ pc[s] = "check" /\ Op(s) = "load" /\ pc' = pc
        /\ todo' = [todo EXCEPT ![s] = <<Step("start", Name(s))>> \o Tail(todo[s])]
    BY <1>4 DEF Load
  <2>2. todo[s] \in Seq(Words) /\ todo[s] # <<>> /\ Name(s) \in Names
    BY <1>0, <2>1, FirstWord
  <2>3. todo'[s] = <<Step("start", Name(s))>> \o Tail(todo[s])
    BY <1>a, <2>1
  <2>4. Len(todo'[s]) = Len(todo[s]) /\ Head(todo'[s]) = Step("start", Name(s))
    <3>1. Step("start", Name(s)) \in Words
      BY <2>2 DEF Step, Words, AllOps
    <3>2. Tail(todo[s]) \in Seq(Words) /\ Len(Tail(todo[s])) = Len(todo[s]) - 1 /\ Len(todo[s]) \in Nat
      BY <2>2
    <3> QED
      BY <2>3, <3>1, <3>2
  <2>5. Op(s)' = "start"
    BY <2>4 DEF Op, Step
  <2>6. StepsOfCommand(s)' = MaxPolls + 4 /\ StepsOfCommand(s) = MaxPolls + 5
    BY <2>1, <2>5 DEF StepsOfCommand
  <2>7. StepsOfCommand(s)' \in Nat /\ StepsOfCommand(s)' < StepsOfCommand(s)
    BY <1>a, <2>6
  <2> QED
    BY <1>0, <2>1, <2>4, <2>7, CommandGoesOn
<1>5. CASE Send(s) /\ Op(s) = "stop"
  <2>1. pc[s] = "send" /\ Goto(s, "poll") /\ todo' = todo /\ polls'[s] = 0 /\ pc'[s] = "poll"
    BY <1>5, <1>a DEF Send, Goto
  <2>2. StepsOfCommand(s)' < StepsOfCommand(s)
    BY <1>a, <2>1 DEF StepsOfCommand
  <2> QED
    BY <1>2, <2>1, <2>2 DEF Steps
<1>6. CASE PollAgain(s)
  <2>1. /\ pc[s] = "poll" /\ todo' = todo /\ polls'[s] = polls[s] + 1
        /\ Goto(s, IF polls'[s] = MaxPolls THEN "force" ELSE "poll")
    BY <1>6, <1>a DEF PollAgain
  <2>2. pc'[s] = IF polls'[s] = MaxPolls THEN "force" ELSE "poll"
    BY <1>a, <2>1 DEF Goto
  <2>3. polls[s] < MaxPolls
    BY <1>0, <2>1 DEF PollsInv
  <2>4. StepsOfCommand(s)' < StepsOfCommand(s)
    BY <1>a, <2>1, <2>2, <2>3 DEF StepsOfCommand
  <2> QED
    BY <1>2, <2>1, <2>4 DEF Steps
<1>7. CASE ForceOff(s)
  <2>1. pc[s] = "force" /\ Goto(s, "kill") /\ todo' = todo /\ pc'[s] = "kill"
    BY <1>7, <1>a DEF ForceOff, Goto
  <2>2. StepsOfCommand(s)' < StepsOfCommand(s)
    BY <2>1 DEF StepsOfCommand
  <2> QED
    BY <1>2, <2>1, <2>2 DEF Steps
<1>8. CASE Exits(s) \/ StartVM(s) \/ (Send(s) /\ Op(s) # "stop") \/ PollEnds(s) \/ Kill(s)
  <2>1. Finish(s) /\ pc[s] # "idle"
    BY <1>8 DEF Exits, StartVM, Send, PollEnds, Kill
  <2> QED
    BY <1>1, <2>1
<1> QED
  BY <1>3, <1>4, <1>5, <1>6, <1>7, <1>8 DEF ScriptStep

\* What other scripts, QEMU and the processes in the background do does not move a script.
LEMMA OthersDoNotMove ==
  ASSUME ScriptsOK, NEW s \in Scripts, pc[s] # "idle", ~ScriptStep(s), [Next]_vars
  PROVE  UNCHANGED <<pc[s], todo[s], polls[s]>>
<1>a. /\ pc \in [Scripts -> Steps] /\ todo \in [Scripts -> Seq(Words)]
      /\ polls \in [Scripts -> 0 .. MaxPolls]
  BY DEF ScriptsOK
<1>1. ASSUME NEW t \in Scripts, BeginOwn(t) \/ BeginRc(t) \/ ScriptStep(t)
      PROVE  UNCHANGED <<pc[s], todo[s], polls[s]>>
  <2>1. t # s
    BY <1>1 DEF BeginOwn, BeginRc, Begin
  <2>2. /\ \A u \in Scripts \ {t} : pc'[u] = pc[u] /\ todo'[u] = todo[u] /\ polls'[u] = polls[u]
    BY <1>1, <1>a
       DEF BeginOwn, BeginRc, Begin, ScriptStep, Exits, GoesOn, Load, StartVM, Send, PollEnds,
           PollAgain, ForceOff, Kill, Finish, Goto
  <2> QED
    BY <2>1, <2>2
<1>2. ASSUME NEW q \in Qemus, QemuStep(q)
      PROVE  UNCHANGED script
  BY <1>2 DEF QemuStep, Exec, BindMonitor, QemuEnds, Ends, ExecFails, GuestSleeps, Serve,
              OpenTerminal, UserPauses, Leave
<1>3. ASSUME NEW n \in Names, NEW c \in Processes, Connect(n, c)
      PROVE  UNCHANGED script
  BY <1>3 DEF Connect
<1>4. UNCHANGED vars \/ RcOnlyKills => UNCHANGED script
  BY DEF vars, RcOnlyKills
<1>5. UNCHANGED script => UNCHANGED <<pc[s], todo[s], polls[s]>>
  BY DEF script
<1> QED
  BY <1>1, <1>2, <1>3, <1>4, <1>5 DEF Next

\* No wait in a script is unbounded, whatever guests, monitors and other scripts do: an
\* invocation is over after as many steps of its own as StepsLeft says (stop_vm).
THEOREM RunsAreBounded == Spec => [][\A s \in Scripts : ComesToItsEnd(s)]_vars
<1>1. IInv /\ [Next]_vars => [\A s \in Scripts : ComesToItsEnd(s)]_vars
  <2> SUFFICES ASSUME IInv, [Next]_vars, NEW s \in Scripts PROVE ComesToItsEnd(s)
    OBVIOUS
  <2>0. ScriptsOK /\ PollsInv /\ IInv'
    BY Inductive DEF IInv
  <2>1. StepsLeft(s) \in Nat
    BY <2>0, CommandBound, OthersBound, ServerAssumption DEF StepsLeft
  <2>2. ScriptStep(s) => StepsLeft(s)' < StepsLeft(s)
    BY <2>0, StepsGoDown
  <2>3. ASSUME pc[s] # "idle", ~ScriptStep(s) PROVE StepsLeft(s)' = StepsLeft(s)
    <3>1. UNCHANGED <<pc[s], todo[s], polls[s]>>
      BY <2>0, <2>3, OthersDoNotMove
    <3> QED
      BY <3>1 DEF StepsLeft, StepsOfOthers, StepsOfCommand, Op
  <2> QED
    BY <2>1, <2>2, <2>3 DEF ComesToItsEnd
<1> QED
  BY <1>1, Invariant, PTL DEF Spec

=============================================================================
