--------------------------- MODULE QMPShell_proofs ---------------------------
(* The properties of QMPShell, and what __cli_expr() builds out of any line. *)
EXTENDS QMPShell, SequenceTheorems, WellFoundedInduction, TLAPS

\* A sequence, whatever its elements are.
IsSeq(s) == s \in Seq({s[i] : i \in DOMAIN s})

\* The inductive invariant: beside the types, what connects the phase of the
\* shell with its mode and the CPU it has selected.
IInv ==
  /\ TypeOK
  /\ IsSeq(accepted) /\ IsSeq(delivered) /\ IsSeq(actions)
  /\ ActionsConserved /\ TransactionWhole
  /\ (~lost => cpu = confirmed) /\ CpuConfirmed
  /\ phase = "probing" => hmp
  /\ LinesDoNotCrash

-----------------------------------------------------------------------------
(* Sequences *)

\* Used wherever the builder (__build_cmd) grows a list: its elements are of one set.
LEMMA SameSet ==
  ASSUME NEW s, NEW t, NEW u, IsSeq(s), IsSeq(t), IsSeq(u), NEW a
  PROVE  \E S : s \in Seq(S) /\ t \in Seq(S) /\ u \in Seq(S) /\ a \in S
<1> DEFINE T == {s[i] : i \in DOMAIN s} \cup {t[i] : i \in DOMAIN t}
                \cup {u[i] : i \in DOMAIN u} \cup {a}
<1>1. s \in Seq(T)  BY DEF IsSeq
<1>2. t \in Seq(T)  BY DEF IsSeq
<1>3. u \in Seq(T)  BY DEF IsSeq
<1> HIDE DEF T
<1>4. a \in T  BY DEF T
<1> QED  BY <1>1, <1>2, <1>3, <1>4

\* What is a sequence over some set is one over its own elements.
LEMMA OwnElements ==
  ASSUME NEW S, NEW s \in Seq(S)
  PROVE  IsSeq(s)
BY DEF IsSeq

\* The list is empty again after a transaction was sent (__build_cmd).
LEMMA EmptyAfter ==
  ASSUME NEW s, IsSeq(s)
  PROVE  s = s \o <<>> /\ IsSeq(<<>>)
BY DEF IsSeq

\* The actions of the transaction in progress (__build_cmd), when one is added ...
LEMMA AppendToSuffix ==
  ASSUME NEW S, NEW s \in Seq(S), NEW a \in S, NEW n \in 0 .. Len(s)
  PROVE  SubSeq(Append(s, a), n + 1, Len(Append(s, a))) =
           Append(SubSeq(s, n + 1, Len(s)), a)
<1> DEFINE l == SubSeq(Append(s, a), n + 1, Len(Append(s, a)))
           r == Append(SubSeq(s, n + 1, Len(s)), a)
<1>1. Append(s, a) \in Seq(S) /\ Len(Append(s, a)) = Len(s) + 1  OBVIOUS
<1>2. SubSeq(s, n + 1, Len(s)) \in Seq(S) /\ Len(SubSeq(s, n + 1, Len(s))) = Len(s) - n
  OBVIOUS
<1>3. l \in Seq(S) /\ Len(l) = Len(s) + 1 - n  BY <1>1
<1>4. r \in Seq(S) /\ Len(r) = Len(s) - n + 1  BY <1>2
<1>5. ASSUME NEW i \in 1 .. Len(l)  PROVE  l[i] = r[i]
  <2>1. l[i] = Append(s, a)[n + i]  BY <1>1, <1>3
  <2>2. CASE i = Len(s) - n + 1  BY <2>1, <2>2, <1>1, <1>2, <1>4
  <2>3. CASE i # Len(s) - n + 1
    <3>1. n + i \in 1 .. Len(s)  BY <2>3, <1>3
    <3>2. Append(s, a)[n + i] = s[n + i]  BY <3>1
    <3>3. r[i] = SubSeq(s, n + 1, Len(s))[i]  BY <2>3, <1>2, <1>3
    <3>4. i \in 1 .. Len(s) - n  BY <2>3, <1>3
    <3>5. SubSeq(s, n + 1, Len(s))[i] = s[n + i]  BY <3>4
    <3> QED  BY <2>1, <3>2, <3>3, <3>5
  <2> QED  BY <2>2, <2>3
<1>6. Len(l) = Len(r)  BY <1>3, <1>4
<1> HIDE DEF l, r
<1>7. l = r  BY <1>3, <1>4, <1>5, <1>6
<1> QED  BY <1>7 DEF l, r

\* ... and when none was yet.
LEMMA EmptySuffix ==
  ASSUME NEW s, IsSeq(s)
  PROVE  SubSeq(s, Len(s) + 1, Len(s)) = <<>> /\ Len(s) \in Nat
BY DEF IsSeq

-----------------------------------------------------------------------------
(* The inductive invariant *)

\* The shell as main() starts it.
LEMMA Initially == Init => IInv
<1> SUFFICES ASSUME Init  PROVE IInv  OBVIOUS
<1> USE ShellAssumption
<1>1. TypeOK
  <2>1. qemu \in SUBSET Cpus  BY DEF Init
  <2>2. Len(accepted) = 0 /\ opened = 0 /\ nlines = 0  BY DEF Init
  <2>3. opened \in 0 .. Len(accepted) /\ nlines \in 0 .. MaxLines  BY <2>2
  <2>4. cpu \in Cpus /\ confirmed \in Cpus  BY DEF Init
  <2> QED  BY <2>1, <2>3, <2>4 DEF Init, TypeOK
<1>2. IsSeq(accepted) /\ IsSeq(delivered) /\ IsSeq(actions)  BY DEF Init, IsSeq
<1>3. ActionsConserved /\ TransactionWhole  BY DEF Init, ActionsConserved, TransactionWhole
<1>4. (~lost => cpu = confirmed) /\ CpuConfirmed /\ (phase = "probing" => hmp) /\ LinesDoNotCrash
  BY DEF Init, CpuConfirmed, LinesDoNotCrash
<1> QED  BY <1>1, <1>2, <1>3, <1>4 DEF IInv

\* What any line typed leaves of the types (read_exec_command).
LEMMA TypedLine ==
  ASSUME IInv, NEW l, Type(l)
  PROVE  /\ phase = "prompt" /\ nlines' \in 0 .. MaxLines
         /\ hmp' = hmp /\ hmp' \in BOOLEAN /\ qemu' = qemu /\ qemu' \in SUBSET Cpus
         /\ line' = l
BY ShellAssumption DEF IInv, TypeOK, Type

\* A step that leaves the builder alone (HMPShell, connect(), the answers) keeps
\* everything the invariant says of it.
LEMMA BuilderUnchanged ==
  ASSUME IInv, UNCHANGED builder, phase # "crashed" \/ phase' = phase
  PROVE  /\ transmode' \in BOOLEAN /\ stale' \in BOOLEAN
         /\ opened' \in 0 .. Len(accepted')
         /\ stale' => actions' # <<>>
         /\ IsSeq(accepted') /\ IsSeq(delivered') /\ IsSeq(actions')
         /\ ActionsConserved' /\ TransactionWhole'
BY DEF IInv, TypeOK, builder, history, ActionsConserved, TransactionWhole

\* A step that is no line of QMPShell: what is left to show of it.
LEMMA RestOfInvariant ==
  ASSUME IInv, UNCHANGED builder, phase # "crashed" \/ phase' = phase,
         hmp' = hmp, lost' \in BOOLEAN, nlines' \in 0 .. MaxLines, qemu' \in SUBSET Cpus,
         phase' \in {"new", "completing", "prompt", "probing", "waiting", "closed", "crashed"},
         confirmed' \in Cpus, lost' \/ cpu' \in Cpus,
         ~lost' => cpu' = confirmed', CpuConfirmed',
         phase' = "probing" => hmp, LinesDoNotCrash'
  PROVE  IInv'
<1>1. hmp \in BOOLEAN /\ (hmp => ~transmode /\ accepted = <<>>)  BY DEF IInv, TypeOK
<1>2. hmp' => ~transmode' /\ accepted' = <<>>  BY <1>1 DEF builder, history
<1>3. TypeOK'  BY <1>1, <1>2, BuilderUnchanged DEF TypeOK
<1> QED  BY <1>3, BuilderUnchanged DEF IInv

\* json.dumps() refuses a transaction only for one of its actions (cmd_obj).
LEMMA TransactionEncodes ==
  ASSUME NEW acts, \A i \in DOMAIN acts : ActionEncodes(acts[i])
  PROVE  Encodes(Transaction(acts))
<1>1. /\ Transaction(acts).execute = "transaction"
      /\ Transaction(acts).arguments = EmptyDict
      /\ Transaction(acts).actions = acts
  BY DEF Transaction, NoCommand
<1>2. DOMAIN EmptyDict = {<<>>} /\ EmptyDict[<<>>] = ADict  BY DEF EmptyDict
<1>3. ToSet(<<>>) = {}  BY DEF ToSet
<1>4. DictEncodes(EmptyDict)
  BY <1>2, <1>3, ShellAssumption DEF DictEncodes
<1>5. "transaction" \notin BadKeys  BY ShellAssumption
<1> QED  BY <1>1, <1>4, <1>5 DEF Encodes

\* __build_cmd() of a transaction's actions acts, to the answer or the exception.
LEMMA Sends ==
  ASSUME IInv, NEW acts, SendTransaction(acts), IsSeq(accepted'),
         accepted' = delivered \o acts, IsSeq(delivered \o acts), IsSeq(acts)
  PROVE  /\ transmode' = FALSE /\ stale' = FALSE /\ actions' = <<>>
         /\ IsSeq(delivered') /\ IsSeq(actions') /\ ActionsConserved'
         /\ TransactionWhole'
         /\ \/ phase' = "waiting"
            \/ phase' = "crashed" /\ \E i \in DOMAIN accepted' : ~ActionEncodes(accepted'[i])
<1>1. transmode' = FALSE /\ stale' = FALSE /\ actions' = <<>>
      /\ delivered' = delivered \o Delivers(acts)
      /\ Send(Transaction(acts))
  BY DEF SendTransaction
<1>2. IsSeq(delivered)  BY DEF IInv
<1>3. PICK S : delivered \in Seq(S) /\ acts \in Seq(S)  BY <1>2, SameSet
<1>4. TransactionWhole'  BY <1>1 DEF TransactionWhole
<1>5. IsSeq(<<>>)  BY DEF IsSeq
<1>6. CASE Encodes(Transaction(acts))
  <2>1. phase' = "waiting" /\ delivered' = delivered \o acts
    BY <1>1, <1>6 DEF Send, Delivers
  <2>2. delivered' = delivered' \o <<>> /\ IsSeq(delivered')  BY <2>1, EmptyAfter
  <2>3. ActionsConserved'  BY <1>1, <2>1, <2>2 DEF ActionsConserved
  <2> QED  BY <1>1, <1>4, <1>5, <2>1, <2>2, <2>3
<1>7. CASE ~Encodes(Transaction(acts))
  <2>1. phase' = "crashed" /\ delivered' = delivered \o <<>>
    BY <1>1, <1>7 DEF Send, Delivers
  <2>2. IsSeq(delivered')  BY <1>2, <2>1, EmptyAfter
  <2>3. ActionsConserved'  BY <2>1 DEF ActionsConserved
  <2>4. PICK i \in DOMAIN acts : ~ActionEncodes(acts[i])  BY <1>7, TransactionEncodes
  <2>5. /\ Len(delivered) + i \in DOMAIN (delivered \o acts)
        /\ (delivered \o acts)[Len(delivered) + i] = acts[i]
    BY <1>3
  <2> QED  BY <1>1, <1>4, <1>5, <2>1, <2>2, <2>3, <2>4, <2>5
<1> QED  BY <1>6, <1>7

\* A line of QMPShell: what is left to show of it.
LEMMA RestOfLine ==
  ASSUME IInv, NEW l, TypeQMP(l),
         phase' \in {"prompt", "waiting", "crashed"}, phase' = "waiting" => ~transmode',
         phase' = "crashed" => \/ l # <<>> /\ ~Encodes(Command(l))
                              \/ \E i \in DOMAIN accepted' : ~ActionEncodes(accepted'[i]),
         transmode' \in BOOLEAN, stale' \in BOOLEAN,
         opened' \in 0 .. Len(accepted'), stale' => actions' # <<>>,
         IsSeq(accepted'), IsSeq(delivered'), IsSeq(actions'),
         ActionsConserved', TransactionWhole'
  PROVE  IInv'
<1>1. ~hmp /\ Type(l) /\ cpu' = cpu /\ confirmed' = confirmed /\ lost' = lost  BY DEF TypeQMP
<1>2. /\ phase = "prompt" /\ nlines' \in 0 .. MaxLines
      /\ hmp' = hmp /\ hmp' \in BOOLEAN /\ qemu' = qemu /\ qemu' \in SUBSET Cpus
      /\ line' = l
  BY <1>1, TypedLine
<1>3. /\ lost \in BOOLEAN /\ confirmed \in Cpus
      /\ (lost \/ cpu \in Cpus) /\ (~lost => cpu = confirmed)
  BY DEF IInv, TypeOK
<1>4. TypeOK'  BY <1>1, <1>2, <1>3 DEF TypeOK
<1>5. CpuConfirmed'  BY <1>1, <1>2 DEF CpuConfirmed
<1>6. LinesDoNotCrash'
  <2>1. ~Encodes(Command(l)) => ~Encodes(Command(line'))  BY <1>2
  <2> QED  BY <1>1, <1>2, <2>1 DEF LinesDoNotCrash
<1> QED  BY <1>1, <1>2, <1>3, <1>4, <1>5, <1>6 DEF IInv

\* __build_cmd() caches an action, and sends the transaction if the line ends it.
LEMMA Caches ==
  ASSUME IInv, NEW l, CacheAction(l)
  PROVE  IInv'
<1> DEFINE data == CliExpr(ActionArgs(l))
           action == [type |-> Name(Rest(l)[1]), data |-> data.dict]
<1>1. /\ TypeQMP(l) /\ Enter(l)
      /\ IF data.ok
         THEN /\ accepted' = Append(accepted, action)
              /\ IF Last(l) = Close
                 THEN SendTransaction(Append(actions, action))
                 ELSE /\ actions' = Append(actions, action)
                      /\ transmode' = TRUE
                      /\ Complain /\ UNCHANGED <<delivered, stale>>
         ELSE /\ transmode' = TRUE
              /\ Complain /\ UNCHANGED <<actions, accepted, delivered, stale>>
  BY DEF CacheAction
<1> HIDE DEF data, action
<1>3. phase = "prompt"  BY <1>1, TypedLine DEF TypeQMP
<1>2. /\ IsSeq(accepted) /\ IsSeq(delivered) /\ IsSeq(actions)
      /\ accepted = delivered \o actions /\ TransactionWhole
      /\ transmode \in BOOLEAN /\ stale \in BOOLEAN /\ opened \in 0 .. Len(accepted)
      /\ stale => actions # <<>>
  BY <1>3 DEF IInv, TypeOK, ActionsConserved
<1>4. PICK S : accepted \in Seq(S) /\ delivered \in Seq(S) /\ actions \in Seq(S) /\ action \in S
  BY <1>2, SameSet
<1>5. /\ Append(accepted, action) = delivered \o Append(actions, action)
      /\ IsSeq(Append(actions, action)) /\ IsSeq(Append(accepted, action))
  <2>1. /\ Append(delivered \o actions, action) = delivered \o Append(actions, action)
        /\ IsSeq(Append(actions, action)) /\ IsSeq(Append(delivered \o actions, action))
    <3>1. delivered \in Seq(S) /\ actions \in Seq(S) /\ action \in S  BY <1>4
    <3>2. Append(delivered \o actions, action) = delivered \o Append(actions, action)  BY <3>1
    <3>3. Append(actions, action) \in Seq(S) /\ delivered \o actions \in Seq(S)  BY <3>1
    <3>4. Append(delivered \o actions, action) \in Seq(S)  BY <3>1, <3>3
    <3>5. IsSeq(Append(actions, action))  BY <3>3, OwnElements
    <3>6. IsSeq(Append(delivered \o actions, action))  BY <3>4, OwnElements
    <3> QED  BY <3>2, <3>5, <3>6
  <2> QED  BY <1>2, <2>1
<1>6. /\ Len(Append(accepted, action)) = Len(accepted) + 1 /\ Len(accepted) \in Nat
      /\ Append(actions, action) # <<>>
  <2>1. Len(Append(accepted, action)) = Len(accepted) + 1 /\ Len(accepted) \in Nat  BY <1>4
  <2>2. Len(Append(actions, action)) = Len(actions) + 1 /\ Len(actions) \in Nat  BY <1>4
  <2>3. Len(<<>>) = 0  OBVIOUS
  <2> QED  BY <2>1, <2>2, <2>3
<1>7. opened' \in 0 .. Len(accepted) /\ opened' = (IF transmode THEN opened ELSE Len(accepted))
  BY <1>1, <1>2, <1>6 DEF Enter
<1>8. ~stale => actions = SubSeq(accepted, opened' + 1, Len(accepted))
  <2>1. CASE transmode  BY <2>1, <1>2, <1>7 DEF TransactionWhole
  <2>2. CASE ~transmode
    <3>1. SubSeq(accepted, Len(accepted) + 1, Len(accepted)) = <<>>  BY <1>2, EmptySuffix
    <3> QED  BY <2>2, <3>1, <1>2, <1>7 DEF TransactionWhole
  <2> QED  BY <2>1, <2>2
<1>9. CASE data.ok /\ Last(l) = Close
  <2>1. accepted' = Append(accepted, action) /\ SendTransaction(Append(actions, action))
    BY <1>1, <1>9
  <2>2. /\ transmode' = FALSE /\ stale' = FALSE /\ actions' = <<>>
        /\ IsSeq(delivered') /\ IsSeq(actions') /\ ActionsConserved'
        /\ TransactionWhole'
        /\ \/ phase' = "waiting"
           \/ phase' = "crashed" /\ \E i \in DOMAIN accepted' : ~ActionEncodes(accepted'[i])
    BY <2>1, <1>5, Sends
  <2>3. IsSeq(accepted')  BY <2>1, <1>5
  <2>4. opened' \in 0 .. Len(accepted')  BY <2>1, <1>6, <1>7
  <2> QED  BY <1>1, <2>2, <2>3, <2>4, RestOfLine
<1>10. CASE data.ok /\ Last(l) # Close
  <2>1. /\ accepted' = Append(accepted, action) /\ actions' = Append(actions, action)
        /\ transmode' = TRUE /\ phase' = phase /\ delivered' = delivered /\ stale' = stale
    BY <1>1, <1>10 DEF Complain
  <2>2. IsSeq(accepted') /\ IsSeq(delivered') /\ IsSeq(actions')  BY <2>1, <1>2, <1>5
  <2>3. ActionsConserved'  BY <2>1, <1>5 DEF ActionsConserved
  <2>4. opened' \in 0 .. Len(accepted')  BY <2>1, <1>6, <1>7
  <2>5. SubSeq(accepted', opened' + 1, Len(accepted'))
          = Append(SubSeq(accepted, opened' + 1, Len(accepted)), action)
    BY <2>1, <1>4, <1>7, AppendToSuffix
  <2>6. TransactionWhole'  BY <2>1, <2>5, <1>8 DEF TransactionWhole
  <2>7. stale' => actions' # <<>>  BY <2>1, <1>6
  <2> QED  BY <1>1, <1>2, <1>3, <2>1, <2>2, <2>3, <2>4, <2>6, <2>7, RestOfLine
<1>11. CASE ~data.ok
  <2>1. /\ transmode' = TRUE /\ phase' = phase
        /\ accepted' = accepted /\ actions' = actions
        /\ delivered' = delivered /\ stale' = stale
    BY <1>1, <1>11 DEF Complain
  <2>2. ActionsConserved'  BY <2>1, <1>2 DEF ActionsConserved
  <2>3. TransactionWhole'  BY <2>1, <1>8 DEF TransactionWhole
  <2> QED  BY <1>1, <1>2, <1>3, <1>7, <2>1, <2>2, <2>3, RestOfLine
<1> QED  BY <1>9, <1>10, <1>11

\* __cmd_passthrough() of a line goes to the CPU it is given, if it goes.
LEMMA PassedOn ==
  ASSUME NEW l, NEW index, PassOnLine(l, index)
  PROVE  phase' = "crashed" \/ (phase' = "waiting" /\ sent'.index = index)
<1>1. Passthrough(index).index = index  BY DEF Passthrough, NoCommand
<1>2. Send(Passthrough(index)) \/ phase' = "crashed"  BY Zenon DEF PassOnLine
<1>3. Send(Passthrough(index)) =>
        phase' = "crashed" \/ (phase' = "waiting" /\ sent' = Passthrough(index))
  BY DEF Send
<1> QED  BY <1>1, <1>2, <1>3

\* Every step of the shells and of QEMU (Next) keeps the invariant.
LEMMA Inductive == IInv /\ [Next]_vars => IInv'
<1> SUFFICES ASSUME IInv, [Next]_vars  PROVE IInv'  OBVIOUS
<1> DEFINE Phases == {"new", "completing", "prompt", "probing", "waiting", "closed", "crashed"}
<1>t. /\ phase \in Phases
      /\ hmp \in BOOLEAN /\ transmode \in BOOLEAN /\ stale \in BOOLEAN
      /\ lost \in BOOLEAN /\ (lost \/ cpu \in Cpus) /\ confirmed \in Cpus
      /\ (~lost => cpu = confirmed) /\ qemu \in SUBSET Cpus
      /\ nlines \in 0 .. MaxLines /\ opened \in 0 .. Len(accepted)
      /\ stale => actions # <<>>
      /\ IsSeq(accepted) /\ IsSeq(delivered) /\ IsSeq(actions)
      /\ ActionsConserved /\ TransactionWhole
      /\ CpuConfirmed /\ (phase = "probing" => hmp) /\ LinesDoNotCrash
  BY DEF IInv, TypeOK
<1>u. ASSUME UNCHANGED vars  PROVE IInv'
  <2>1. UNCHANGED builder  BY <1>u DEF vars
  <2>2. UNCHANGED <<hmp, phase, line, cpu, sent, qemu, lost, confirmed, nlines>>  BY <1>u DEF vars
  <2>3. CpuConfirmed' /\ LinesDoNotCrash'
    BY <1>t, <2>1, <2>2 DEF CpuConfirmed, LinesDoNotCrash, builder, history
  <2> QED  BY <1>t, <2>1, <2>2, <2>3, RestOfInvariant
<1>s. ASSUME NEW p \in Phases, Step(p), p = "crashed" => hmp \/ qemu = {} \/ lost,
             phase # "crashed", p \notin {"probing", "waiting"}
      PROVE  IInv'
  <2>1. UNCHANGED builder  BY <1>s DEF Step
  <2>2. phase' = p /\ UNCHANGED <<hmp, cpu, sent, qemu, lost, confirmed, nlines>>  BY <1>s DEF Step
  <2>3. CpuConfirmed' /\ LinesDoNotCrash'
    BY <1>s, <2>2 DEF CpuConfirmed, LinesDoNotCrash
  <2> QED  BY <1>s, <1>t, <2>1, <2>2, <2>3, RestOfInvariant
<1>1. CASE Connect  BY <1>1, <1>s DEF Connect
<1>2. CASE Completed  BY <1>2, <1>s DEF Completed
<1>3. CASE Answered  BY <1>3, <1>s DEF Answered
<1>4. CASE Disconnected  BY <1>4, <1>s DEF Disconnected
<1>5. CASE EndOfInput  BY <1>5, <1>s DEF EndOfInput
<1>i. CASE Interrupted  BY <1>i, <1>s DEF Interrupted
<1>6. CASE QemuChanges
  <2>1. UNCHANGED builder  BY <1>6 DEF QemuChanges
  <2>2. UNCHANGED <<hmp, phase, cpu, sent, lost, confirmed, nlines>> /\ phase # "crashed"
    BY <1>6 DEF QemuChanges
  <2>3. qemu' \in SUBSET Cpus  BY <1>6 DEF QemuChanges
  <2>4. CpuConfirmed' /\ LinesDoNotCrash'
    BY <1>t, <2>1, <2>2 DEF CpuConfirmed, LinesDoNotCrash, builder
  <2> QED  BY <1>t, <2>1, <2>2, <2>3, <2>4, RestOfInvariant
<1>7. CASE BlankLine
  <2>1. TypeQMP(<<>>) /\ UNCHANGED phase /\ UNCHANGED builder  BY <1>7 DEF BlankLine, Complain
  <2>2. phase = "prompt"  BY <2>1, TypedLine DEF TypeQMP
  <2> QED  BY <2>1, <2>2, <1>t, BuilderUnchanged, RestOfLine
<1>8. CASE EmptyLine
  <2>1. /\ Type(<<>>) /\ UNCHANGED <<cpu, confirmed>> /\ UNCHANGED builder
        /\ phase' \in {"prompt"} \cup (IF lost \/ qemu = {} THEN {"crashed"} ELSE {})
    BY <1>8 DEF EmptyLine
  <2>2. phase = "prompt" /\ nlines' \in 0 .. MaxLines /\ hmp' = hmp /\ qemu' \in SUBSET Cpus
    BY <2>1, TypedLine
  <2>3. qemu' = qemu  BY <2>1, TypedLine
  <2>4. lost' \in BOOLEAN /\ (lost => lost')  BY <1>8, <1>t DEF EmptyLine
  <2>5. phase' = "prompt" \/ (phase' = "crashed" /\ (lost \/ qemu = {}))
    BY <2>1
  <2>6. CpuConfirmed' /\ LinesDoNotCrash'
    BY <2>2, <2>3, <2>4, <2>5 DEF CpuConfirmed, LinesDoNotCrash
  <2> QED  BY <1>t, <2>1, <2>2, <2>4, <2>5, <2>6, RestOfInvariant
<1>9. CASE Probed
  <2>1. UNCHANGED builder /\ UNCHANGED <<hmp, qemu, lost, nlines>> /\ hmp /\ phase = "probing"
    BY <1>9, <1>t DEF Probed
  <2>2. CASE /\ lost \/ sent.index \in qemu
             /\ cpu' = sent.index
             /\ confirmed' = IF lost THEN confirmed ELSE sent.index
             /\ PassOnLine(line, cpu')
    <3>1. phase' = "crashed" \/ (phase' = "waiting" /\ sent'.index = cpu')
      BY <2>2, PassedOn
    <3>2. confirmed' \in Cpus /\ (lost \/ cpu' \in Cpus) /\ (~lost => cpu' = confirmed')
      BY <2>2, <1>t
    <3>3. CpuConfirmed' /\ LinesDoNotCrash'
      BY <2>1, <3>1, <3>2 DEF CpuConfirmed, LinesDoNotCrash
    <3> QED  BY <1>t, <2>1, <3>1, <3>2, <3>3, RestOfInvariant
  <2>3. CASE phase' = "prompt" /\ UNCHANGED <<cpu, confirmed>>
    <3>1. CpuConfirmed' /\ LinesDoNotCrash'  BY <2>1, <2>3 DEF CpuConfirmed, LinesDoNotCrash
    <3> QED  BY <1>t, <2>1, <2>3, <3>1, RestOfInvariant
  <2> QED  BY <1>9, <2>2, <2>3 DEF Probed
<1>10. ASSUME NEW l \in Lines, CloseTransaction(l)  PROVE IInv'
  <2>1. TypeQMP(l) /\ SendTransaction(actions) /\ UNCHANGED <<accepted, opened>>
    BY <1>10 DEF CloseTransaction
  <2>2. accepted' = delivered \o actions /\ IsSeq(accepted') /\ IsSeq(delivered \o actions)
    <3>1. phase = "prompt"  BY <2>1, TypedLine DEF TypeQMP
    <3> QED  BY <2>1, <3>1, <1>t DEF ActionsConserved
  <2>3. /\ transmode' = FALSE /\ stale' = FALSE /\ actions' = <<>>
        /\ IsSeq(delivered') /\ IsSeq(actions') /\ ActionsConserved'
        /\ TransactionWhole'
        /\ \/ phase' = "waiting"
           \/ phase' = "crashed" /\ \E i \in DOMAIN accepted' : ~ActionEncodes(accepted'[i])
    BY <1>t, <2>1, <2>2, Sends
  <2> QED  BY <2>1, <2>2, <2>3, <1>t, RestOfLine
<1>11. ASSUME NEW l \in Lines, CloseWithJunk(l)  PROVE IInv'
  <2>1. /\ TypeQMP(l) /\ phase' = phase /\ transmode' = FALSE /\ stale' = (actions # <<>>)
        /\ UNCHANGED <<actions, accepted, delivered, opened>>
    BY <1>11 DEF CloseWithJunk, Complain
  <2>2. phase = "prompt"  BY <2>1, TypedLine DEF TypeQMP
  <2>3. ActionsConserved' /\ TransactionWhole'
    BY <2>1, <1>t DEF ActionsConserved, TransactionWhole
  <2>4. stale' \in BOOLEAN  BY <2>1
  <2>5. stale' => actions' # <<>>  BY <2>1
  <2> QED  BY <2>1, <2>2, <2>3, <2>4, <2>5, <1>t, RestOfLine
<1>12. ASSUME NEW l \in Lines, OpenTransaction(l)  PROVE IInv'
  <2>1. /\ TypeQMP(l) /\ phase' = phase /\ transmode' = TRUE /\ Enter(l)
        /\ UNCHANGED <<actions, accepted, delivered, stale>>
    BY <1>12 DEF OpenTransaction, Complain
  <2>2. phase = "prompt"  BY <2>1, TypedLine DEF TypeQMP
  <2>3. SubSeq(accepted, Len(accepted) + 1, Len(accepted)) = <<>> /\ Len(accepted) \in Nat
    BY <1>t, EmptySuffix
  <2>4. opened' = (IF transmode THEN opened ELSE Len(accepted))  BY <2>1 DEF Enter
  <2>5. opened' \in 0 .. Len(accepted')  BY <2>1, <2>3, <2>4, <1>t
  <2>6. ActionsConserved'  BY <2>1, <1>t DEF ActionsConserved
  <2>7. TransactionWhole'
    <3>1. CASE transmode  BY <3>1, <2>1, <2>4, <1>t DEF TransactionWhole
    <3>2. CASE ~transmode  BY <3>2, <2>1, <2>3, <2>4, <1>t DEF TransactionWhole
    <3> QED  BY <3>1, <3>2, <1>t
  <2> QED  BY <2>1, <2>2, <2>5, <2>6, <2>7, <1>t, RestOfLine
<1>13. ASSUME NEW l \in Lines, CacheAction(l)  PROVE IInv'  BY <1>13, Caches
<1>14. ASSUME NEW l \in Lines, l # <<>>, StandardCommand(l)  PROVE IInv'
  <2>1. /\ TypeQMP(l) /\ UNCHANGED builder /\ ~transmode
        /\ \/ phase' \in {"waiting", phase}
           \/ phase' = "crashed" /\ ~Encodes(Command(l))
    BY <1>14 DEF StandardCommand, Send, Complain
  <2>2. phase = "prompt"  BY <2>1, TypedLine DEF TypeQMP
  <2>3. ~transmode'  BY <2>1 DEF builder
  <2> QED  BY <1>14, <2>1, <2>2, <2>3, <1>t, BuilderUnchanged, RestOfLine
<1>h. ASSUME NEW l \in Lines, TypeHMP(l), cpu' = cpu, confirmed' = confirmed,
             phase' \in Phases, phase' = "waiting" => sent'.index = cpu
      PROVE  IInv'
  <2>1. hmp /\ Type(l) /\ UNCHANGED builder /\ lost' = lost  BY <1>h DEF TypeHMP
  <2>2. phase = "prompt" /\ nlines' \in 0 .. MaxLines /\ hmp' = hmp /\ qemu' \in SUBSET Cpus
    BY <2>1, TypedLine
  <2>3. CpuConfirmed' /\ LinesDoNotCrash'
    BY <1>h, <1>t, <2>1, <2>2 DEF CpuConfirmed, LinesDoNotCrash
  <2> QED  BY <1>h, <1>t, <2>1, <2>2, <2>3, RestOfInvariant
<1>15. ASSUME NEW l \in Lines, SelectCpu(l)  PROVE IInv'
  <2>1. TypeHMP(l) /\ UNCHANGED <<cpu, confirmed>> /\ phase' \in {"probing", phase}
    BY <1>15 DEF SelectCpu, Complain
  <2>2. phase = "prompt"  BY <2>1, TypedLine DEF TypeHMP
  <2> QED  BY <2>1, <2>2, <1>h
<1>16. ASSUME NEW l \in Lines, PassOn(l)  PROVE IInv'
  <2>1. TypeHMP(l) /\ UNCHANGED <<cpu, confirmed>> /\ PassOnLine(l, cpu)
    BY <1>16 DEF PassOn
  <2>2. phase' = "crashed" \/ (phase' = "waiting" /\ sent'.index = cpu)  BY <2>1, PassedOn
  <2> QED  BY <2>1, <2>2, <1>h
<1>17. ASSUME NEW l \in Lines, MissingWord(l)  PROVE IInv'
  <2>1. TypeHMP(l) /\ UNCHANGED <<cpu, confirmed>> /\ phase' = "crashed"
    BY <1>17 DEF MissingWord
  <2> QED  BY <2>1, <1>h
<1> QED
  BY <1>u, <1>1, <1>2, <1>3, <1>4, <1>5, <1>6, <1>7, <1>8, <1>9, <1>10, <1>11, <1>12, <1>13,
     <1>14, <1>15, <1>16, <1>17, <1>i DEF Next

\* The invariant holds throughout (QMPShell, HMPShell).
THEOREM ShellInvariance == Spec => []IInv
BY Initially, Inductive, PTL DEF Spec

\* Type correctness of the shells (__init__, main).
THEOREM ShellTypes == Spec => []TypeOK
<1>1. IInv => TypeOK  BY DEF IInv
<1> QED  BY <1>1, ShellInvariance, PTL

\* No action of a transaction is lost, repeated or moved (__build_cmd).
THEOREM ActionsAreConserved == Spec => []ActionsConserved
<1>1. IInv => ActionsConserved  BY DEF IInv
<1> QED  BY <1>1, ShellInvariance, PTL

\* Without a stray word after ")", the actions of a transaction are those typed
\* since it was opened (__build_cmd).
THEOREM TransactionsAreWhole == Spec => []TransactionWhole
<1>1. IInv => TransactionWhole  BY DEF IInv
<1> QED  BY <1>1, ShellInvariance, PTL

\* A line of HMPShell goes to the CPU that QEMU confirmed last (_execute_cmd).
THEOREM CpuIsConfirmed == Spec => []CpuConfirmed
<1>1. IInv => CpuConfirmed  BY DEF IInv
<1> QED  BY <1>1, ShellInvariance, PTL

\* QMPShell ends with an exception only when QEMU is gone, a poll has torn a line, or
\* json.dumps() refuses what was typed (_execute_cmd, cmd_obj).
THEOREM LinesAreHandled == Spec => []LinesDoNotCrash
<1>1. IInv => LinesDoNotCrash  BY DEF IInv
<1> QED  BY <1>1, ShellInvariance, PTL

-----------------------------------------------------------------------------
(* Folds, one element at a time *)

\* A set of numbers has a least one.
LEMMA LeastOf ==
  ASSUME NEW S \in SUBSET Nat, S # {}
  PROVE  \E i \in S : \A j \in S : i <= j
<1> DEFINE R == {r \in Nat \X Nat : r[1] < r[2]}
<1>1. IsWellFoundedOn(R, Nat)
  BY NatLessThanWellFounded DEF OpToRel
<1>2. \E i \in S : \A j \in S : ~(<<j, i>> \in R)
  <2> HIDE DEF R
  <2> QED
    BY <1>1, WFMin
<1>3. \A i, j \in Nat : ~(<<j, i>> \in R) => i <= j
  OBVIOUS
<1> QED
  BY <1>2, <1>3

\* Max, with which a fold finds the place it is at.
LEMMA MaxOf ==
  ASSUME NEW n \in Nat, NEW t \in SUBSET (1 .. n), t # {}
  PROVE  Max(t) \in t /\ \A i \in t : Max(t) >= i
<1> DEFINE T == {m \in 0 .. n : \A i \in t : m >= i}
<1>1. n \in T /\ T \in SUBSET Nat
  OBVIOUS
<1>2. PICK m \in T : \A j \in T : m <= j
  <2> HIDE DEF T
  <2> QED
    BY <1>1, LeastOf
<1>3. m \in t
  <2> SUFFICES ASSUME m \notin t PROVE FALSE
    OBVIOUS
  <2>1. m \in 0 .. n /\ \A i \in t : i \in 1 .. n /\ i <= m /\ i # m
    OBVIOUS
  <2> HIDE DEF T
  <2>2. m - 1 \in 0 .. n /\ \A i \in t : m - 1 >= i
    <3>1. PICK i \in t : i \in 1 .. n
      OBVIOUS
    <3>2. \A j \in t : j <= m - 1
      BY <2>1
    <3> QED
      BY <2>1, <3>1, <3>2
  <2>3. m - 1 \in T
    BY <2>2 DEF T
  <2> QED
    BY <1>2, <2>1, <2>3
<1> QED
  BY <1>3 DEF Max

\* The numbers up to k but k itself.
LEMMA WithoutMax ==
  ASSUME NEW n \in Nat \ {0}, NEW t \in SUBSET (1 .. n), t # {}
  PROVE  t \ {Max(t)} \in SUBSET (1 .. (n - 1))
<1>1. Max(t) \in t /\ \A i \in t : Max(t) >= i
  BY MaxOf
<1>2. ASSUME NEW i \in t, i # Max(t) PROVE i \in 1 .. (n - 1)
  <2>1. i \in 1 .. n /\ Max(t) \in 1 .. n /\ Max(t) >= i
    BY <1>1
  <2> QED
    BY <1>2, <2>1
<1> QED
  BY <1>2

\* The last place of a list is the greatest one.
LEMMA MaxOfRange ==
  ASSUME NEW n \in Nat \ {0}
  PROVE  Max(1 .. n) = n /\ (1 .. n) \ {n} = 1 .. (n - 1) /\ 1 .. n # {}
<1>1. 1 .. n \in SUBSET (1 .. n) /\ 1 .. n # {}
  OBVIOUS
<1>2. Max(1 .. n) \in 1 .. n /\ \A i \in 1 .. n : Max(1 .. n) >= i
  BY <1>1, MaxOf
<1> QED
  BY <1>2

\* The loop over the components of a dotted key (qmp-shell:207-213), component by
\* component.
LEMMA DescendUnfolds ==
  ASSUME NEW start, NEW s \in Seq(STRING)
  PROVE  \E f : /\ f[0] = start /\ f[Len(s)] = DescendAll(start, s)
                /\ \A k \in 1 .. Len(s) : f[k] = Descend(f[k - 1], s[k])
<1> DEFINE N == Len(s)
           Next1(g, t) == IF t = {} THEN start ELSE Descend(g[t \ {Max(t)}], s[Max(t)])
           Defined(k) == \E g : g = [t \in SUBSET (1 .. k) |-> Next1(g, t)]
           Bad == {k \in 0 .. N : ~Defined(k)}
           iter == CHOOSE g : g = [t \in SUBSET (1 .. N) |-> Next1(g, t)]
<1>1. N \in Nat /\ DOMAIN s = 1 .. N
  OBVIOUS
<1>2. Defined(0)
  <2> DEFINE g == [t \in SUBSET (1 .. 0) |-> start]
  <2>1. \A t \in SUBSET (1 .. 0) : t = {}
    OBVIOUS
  <2>2. g = [t \in SUBSET (1 .. 0) |-> Next1(g, t)]
    BY <2>1
  <2> QED
    BY <2>2
<1>3. ASSUME NEW k \in 1 .. N, Defined(k - 1)
      PROVE  Defined(k)
  <2>1. PICK g : g = [t \in SUBSET (1 .. (k - 1)) |-> Next1(g, t)]
    BY <1>3
  <2> DEFINE h == [t \in SUBSET (1 .. k) |-> Next1(g, t)]
  <2>2. ASSUME NEW t \in SUBSET (1 .. k), t # {}
        PROVE  h[t \ {Max(t)}] = g[t \ {Max(t)}]
    <3>0. k \in Nat \ {0}
      BY <1>1
    <3>1. t \ {Max(t)} \in SUBSET (1 .. (k - 1))
      BY <2>2, <3>0, WithoutMax
    <3> HIDE DEF Next1
    <3>2. g[t \ {Max(t)}] = Next1(g, t \ {Max(t)})
      BY <2>1, <3>1
    <3>3. t \ {Max(t)} \in SUBSET (1 .. k)
      OBVIOUS
    <3> QED
      BY <3>2, <3>3
  <2>3. \A t \in SUBSET (1 .. k) : Next1(h, t) = Next1(g, t)
    <3> HIDE DEF h
    <3> QED
      BY <2>2
  <2>4. h = [t \in SUBSET (1 .. k) |-> Next1(h, t)]
    <3> HIDE DEF Next1
    <3> QED
      BY <2>3
  <2> QED
    BY <2>4
<1>4. Defined(N)
  <2> SUFFICES ASSUME ~Defined(N) PROVE FALSE
    OBVIOUS
  <2> HIDE DEF Defined
  <2>1. N \in Bad /\ Bad \in SUBSET Nat
    BY <1>1
  <2>2. PICK k \in Bad : \A j \in Bad : k <= j
    <3> HIDE DEF Bad
    <3> QED
      BY <2>1, LeastOf
  <2>3. k \in 0 .. N /\ ~Defined(k)
    OBVIOUS
  <2>4. k # 0
    BY <1>2, <2>3
  <2>5. k \in 1 .. N /\ k - 1 \in 0 .. N /\ k - 1 \notin Bad
    BY <1>1, <2>2, <2>3, <2>4
  <2> QED
    BY <1>3, <2>3, <2>5
<1>5. iter = [t \in SUBSET (1 .. N) |-> Next1(iter, t)]
  BY <1>4
<1>6. DescendAll(start, s) = iter[1 .. N]
  BY <1>1 DEF DescendAll, FoldLeft, MapThenFoldSet
<1> HIDE DEF iter
<1> DEFINE f == [k \in 0 .. N |-> iter[1 .. k]]
<1>7. f[0] = start
  <2>1. iter[{}] = start
    BY <1>5
  <2>2. 1 .. 0 = {}
    OBVIOUS
  <2> QED
    BY <1>1, <2>1, <2>2
<1>8. ASSUME NEW k \in 1 .. N
      PROVE  f[k] = Descend(f[k - 1], s[k])
  <2>0. k \in Nat \ {0}
    BY <1>1
  <2>1. Max(1 .. k) = k /\ (1 .. k) \ {k} = 1 .. (k - 1) /\ 1 .. k # {}
    BY <2>0, MaxOfRange
  <2>2. iter[1 .. k] = Next1(iter, 1 .. k)
    <3> HIDE DEF Next1
    <3>1. 1 .. k \in SUBSET (1 .. N)
      BY <1>1
    <3> QED
      BY <1>5, <3>1
  <2>3. iter[1 .. k] = Descend(iter[1 .. (k - 1)], s[k])
    BY <2>1, <2>2
  <2>4. f[k] = iter[1 .. k] /\ f[k - 1] = iter[1 .. (k - 1)]
    BY <1>1
  <2> QED
    BY <2>3, <2>4
<1>9. f[Len(s)] = DescendAll(start, s)
  BY <1>1, <1>6
<1> HIDE DEF f
<1> QED
  BY <1>7, <1>8, <1>9

\* The loop of __cli_expr() over the arguments (qmp-shell:200), argument by argument.
LEMMA SetArgUnfolds ==
  ASSUME NEW s \in Seq([path : Seq(STRING) \ {<<>>}, val : STRING])
  PROVE  \E f : /\ f[0] = Start /\ f[Len(s)] = CliExpr(s)
                /\ \A k \in 1 .. Len(s) : f[k] = SetArg(f[k - 1], s[k])
<1> DEFINE N == Len(s)
           Next1(g, t) == IF t = {} THEN Start ELSE SetArg(g[t \ {Max(t)}], s[Max(t)])
           Defined(k) == \E g : g = [t \in SUBSET (1 .. k) |-> Next1(g, t)]
           Bad == {k \in 0 .. N : ~Defined(k)}
           iter == CHOOSE g : g = [t \in SUBSET (1 .. N) |-> Next1(g, t)]
<1>1. N \in Nat /\ DOMAIN s = 1 .. N
  OBVIOUS
<1>2. Defined(0)
  <2> DEFINE g == [t \in SUBSET (1 .. 0) |-> Start]
  <2>1. \A t \in SUBSET (1 .. 0) : t = {}
    OBVIOUS
  <2>2. g = [t \in SUBSET (1 .. 0) |-> Next1(g, t)]
    BY <2>1
  <2> QED
    BY <2>2
<1>3. ASSUME NEW k \in 1 .. N, Defined(k - 1)
      PROVE  Defined(k)
  <2>1. PICK g : g = [t \in SUBSET (1 .. (k - 1)) |-> Next1(g, t)]
    BY <1>3
  <2> DEFINE h == [t \in SUBSET (1 .. k) |-> Next1(g, t)]
  <2>2. ASSUME NEW t \in SUBSET (1 .. k), t # {}
        PROVE  h[t \ {Max(t)}] = g[t \ {Max(t)}]
    <3>0. k \in Nat \ {0}
      BY <1>1
    <3>1. t \ {Max(t)} \in SUBSET (1 .. (k - 1))
      BY <2>2, <3>0, WithoutMax
    <3> HIDE DEF Next1
    <3>2. g[t \ {Max(t)}] = Next1(g, t \ {Max(t)})
      BY <2>1, <3>1
    <3>3. t \ {Max(t)} \in SUBSET (1 .. k)
      OBVIOUS
    <3> QED
      BY <3>2, <3>3
  <2>3. \A t \in SUBSET (1 .. k) : Next1(h, t) = Next1(g, t)
    <3> HIDE DEF h
    <3> QED
      BY <2>2
  <2>4. h = [t \in SUBSET (1 .. k) |-> Next1(h, t)]
    <3> HIDE DEF Next1
    <3> QED
      BY <2>3
  <2> QED
    BY <2>4
<1>4. Defined(N)
  <2> SUFFICES ASSUME ~Defined(N) PROVE FALSE
    OBVIOUS
  <2> HIDE DEF Defined
  <2>1. N \in Bad /\ Bad \in SUBSET Nat
    BY <1>1
  <2>2. PICK k \in Bad : \A j \in Bad : k <= j
    <3> HIDE DEF Bad
    <3> QED
      BY <2>1, LeastOf
  <2>3. k \in 0 .. N /\ ~Defined(k)
    OBVIOUS
  <2>4. k # 0
    BY <1>2, <2>3
  <2>5. k \in 1 .. N /\ k - 1 \in 0 .. N /\ k - 1 \notin Bad
    BY <1>1, <2>2, <2>3, <2>4
  <2> QED
    BY <1>3, <2>3, <2>5
<1>5. iter = [t \in SUBSET (1 .. N) |-> Next1(iter, t)]
  BY <1>4
<1>6. CliExpr(s) = iter[1 .. N]
  BY <1>1 DEF CliExpr, FoldLeft, MapThenFoldSet
<1> HIDE DEF iter
<1> DEFINE f == [k \in 0 .. N |-> iter[1 .. k]]
<1>7. f[0] = Start
  <2>1. iter[{}] = Start
    BY <1>5
  <2>2. 1 .. 0 = {}
    OBVIOUS
  <2> QED
    BY <1>1, <2>1, <2>2
<1>8. ASSUME NEW k \in 1 .. N
      PROVE  f[k] = SetArg(f[k - 1], s[k])
  <2>0. k \in Nat \ {0}
    BY <1>1
  <2>1. Max(1 .. k) = k /\ (1 .. k) \ {k} = 1 .. (k - 1) /\ 1 .. k # {}
    BY <2>0, MaxOfRange
  <2>2. iter[1 .. k] = Next1(iter, 1 .. k)
    <3> HIDE DEF Next1
    <3>1. 1 .. k \in SUBSET (1 .. N)
      BY <1>1
    <3> QED
      BY <1>5, <3>1
  <2>3. iter[1 .. k] = SetArg(iter[1 .. (k - 1)], s[k])
    BY <2>1, <2>2
  <2>4. f[k] = iter[1 .. k] /\ f[k - 1] = iter[1 .. (k - 1)]
    BY <1>1
  <2> QED
    BY <2>3, <2>4
<1>9. f[Len(s)] = CliExpr(s)
  BY <1>1, <1>6
<1> HIDE DEF f
<1> QED
  BY <1>7, <1>8, <1>9

-----------------------------------------------------------------------------
(* Paths *)

\* A path, cut: the parts that __cli_expr() goes through (qmp-shell:205-219).
LEMMA FrontOf ==
  ASSUME NEW S, NEW s \in Seq(S), s # <<>>
  PROVE  /\ Front(s) \in Seq(S) /\ Len(Front(s)) = Len(s) - 1
         /\ Last(s) \in S /\ Len(s) \in Nat \ {0}
         /\ \A i \in 1 .. Len(s) - 1 : Front(s)[i] = s[i]
         /\ Append(Front(s), Last(s)) = s
<1>1. Len(s) \in Nat \ {0} /\ \A i \in 1 .. Len(s) : s[i] \in S
  BY EmptySeq, LenProperties, ElementOfSeq
<1>2. Front(s) \in Seq(S) /\ Len(Front(s)) = Len(s) - 1
  BY <1>1, SubSeqProperties DEF Front
<1>3. ASSUME NEW i \in 1 .. Len(s) - 1 PROVE Front(s)[i] = s[i]
  BY <1>1, SubSeqProperties DEF Front
<1>4. Last(s) \in S
  BY <1>1 DEF Last
<1>5. Append(Front(s), Last(s)) = s
  <2>1. /\ Append(Front(s), Last(s)) \in Seq(S)
        /\ Len(Append(Front(s), Last(s))) = Len(s)
    BY <1>1, <1>2, <1>4, AppendProperties
  <2>2. ASSUME NEW i \in 1 .. Len(s) PROVE Append(Front(s), Last(s))[i] = s[i]
    <3>1. CASE i = Len(s)
      BY <1>1, <1>2, <1>4, <3>1, AppendProperties DEF Last
    <3>2. CASE i # Len(s)
      BY <1>1, <1>2, <1>3, <1>4, <3>2, AppendProperties
    <3> QED
      BY <3>1, <3>2
  <2> QED
    BY <2>1, <2>2, SeqEqual
<1> QED
  BY <1>1, <1>2, <1>3, <1>4, <1>5

\* Appending a component (qmp-shell:207), and the part above it.
LEMMA FrontOfAppend ==
  ASSUME NEW S, NEW s \in Seq(S), NEW p \in S
  PROVE  Front(Append(s, p)) = s /\ Append(s, p) \in Seq(S) /\ Append(s, p) # <<>>
<1>1. Append(s, p) \in Seq(S) /\ Append(s, p) # <<>>
  BY AppendProperties
<1> DEFINE a == Append(s, p)
<1>2. Append(Front(a), Last(a)) = a /\ Front(a) \in Seq(S) /\ Last(a) \in S
  BY <1>1, FrontOf
<1> QED
  BY <1>1, <1>2, AppendInjective

\* A path at which a dict is put, and a path in that dict.
LEMMA Concatenated ==
  ASSUME NEW S, NEW s \in Seq(S), NEW t \in Seq(S)
  PROVE  /\ s \o t \in Seq(S)
         /\ SubSeq(s \o t, Len(s) + 1, Len(s \o t)) = t
         /\ t # <<>> => /\ s \o t # <<>>
                        /\ Front(s \o t) = s \o Front(t)
                        /\ Append(s \o Front(t), Last(t)) = s \o t
<1>1. /\ s \o t \in Seq(S) /\ Len(s) \in Nat /\ Len(t) \in Nat
      /\ Len(s \o t) = Len(s) + Len(t)
  BY ConcatProperties, LenProperties
<1>2. SubSeq(s \o t, Len(s) + 1, Len(s \o t)) = t
  <2>1. CASE t = <<>>
    BY <1>1, <2>1, SubSeqEmpty, EmptySeq
  <2>2. CASE t # <<>>
    <3>1. Len(t) \in Nat \ {0}
      BY <2>2, EmptySeq
    <3>2. SubSeq(s \o t, Len(s) + 1, Len(s) + Len(t)) = SubSeq(t, 1, Len(t))
      <4>1. /\ Len(s) + 1 \in Len(s) + 1 .. Len(s) + Len(t)
            /\ Len(s) + Len(t) \in Len(s) + 1 .. Len(s) + Len(t)
        BY <1>1, <3>1
      <4>2. SubSeq(s \o t, Len(s) + 1, Len(s) + Len(t))
              = SubSeq(t, Len(s) + 1 - Len(s), Len(s) + Len(t) - Len(s))
        BY <4>1, SubSeqOfConcat2
      <4> QED
        BY <1>1, <4>2
    <3> QED
      BY <1>1, <3>2, SubSeqFull
  <2> QED
    BY <2>1, <2>2
<1>3. ASSUME t # <<>>
      PROVE  /\ s \o t # <<>>
             /\ Front(s \o t) = s \o Front(t)
             /\ Append(s \o Front(t), Last(t)) = s \o t
  <2>1. /\ Front(t) \in Seq(S) /\ Last(t) \in S /\ Append(Front(t), Last(t)) = t
    BY <1>3, FrontOf
  <2>2. <<Last(t)>> \in Seq(S) /\ t = Front(t) \o <<Last(t)>>
    <3>1. Append(Front(t), Last(t)) = Front(t) \o <<Last(t)>>
      BY <2>1, AppendIsConcat
    <3>2. \A e \in S : <<e>> \in Seq(S)
      OBVIOUS
    <3> QED
      BY <2>1, <3>1, <3>2
  <2>3. s \o Front(t) \in Seq(S)
    BY <2>1, ConcatProperties
  <2>4. s \o t = (s \o Front(t)) \o <<Last(t)>>
    <3>1. s \o (Front(t) \o <<Last(t)>>) = (s \o Front(t)) \o <<Last(t)>>
      BY <2>1, <2>2, ConcatAssociative
    <3> QED
      BY <2>2, <3>1
  <2>5. Append(s \o Front(t), Last(t)) = s \o t
    BY <2>1, <2>3, <2>4, AppendIsConcat
  <2>6. Front(Append(s \o Front(t), Last(t))) = s \o Front(t)
    BY <2>1, <2>3, FrontOfAppend
  <2>7. Append(s \o Front(t), Last(t)) # <<>>
    BY <2>1, <2>3, AppendProperties
  <2> QED
    BY <2>5, <2>6, <2>7
<1> QED
  BY <1>1, <1>2, <1>3

\* The first components of a path, one more at a time.
LEMMA FirstComponents ==
  ASSUME NEW S, NEW s \in Seq(S), NEW k \in 1 .. Len(s)
  PROVE  /\ SubSeq(s, 1, k) \in Seq(S) /\ SubSeq(s, 1, k) # <<>>
         /\ SubSeq(s, 1, k - 1) \in Seq(S) /\ s[k] \in S
         /\ Append(SubSeq(s, 1, k - 1), s[k]) = SubSeq(s, 1, k)
         /\ Front(SubSeq(s, 1, k)) = SubSeq(s, 1, k - 1)
<1>1. Len(s) \in Nat /\ \A i \in 1 .. Len(s) : s[i] \in S
  BY LenProperties, ElementOfSeq
<1>2. SubSeq(s, 1, k) \in Seq(S) /\ SubSeq(s, 1, k - 1) \in Seq(S)
  BY <1>1, SubSeqProperties
<1>3. SubSeq(s, 1, k) = SubSeq(s, 1, k - 1) \o <<s[k]>>
  <2>1. 1 \in 1 .. Len(s) /\ k \in 1 .. Len(s)
    BY <1>1
  <2> QED
    BY <2>1, SubSeqRecursiveSecond
<1>4. Append(SubSeq(s, 1, k - 1), s[k]) = SubSeq(s, 1, k)
  BY <1>1, <1>2, <1>3, AppendIsConcat
<1>5. s[k] \in S
  BY <1>1
<1>6. /\ Front(Append(SubSeq(s, 1, k - 1), s[k])) = SubSeq(s, 1, k - 1)
      /\ Append(SubSeq(s, 1, k - 1), s[k]) # <<>>
  BY <1>2, <1>5, FrontOfAppend
<1>7. Front(SubSeq(s, 1, k)) = SubSeq(s, 1, k - 1) /\ SubSeq(s, 1, k) # <<>>
  BY <1>4, <1>6, Zenon
<1> QED
  BY <1>2, <1>4, <1>5, <1>7, Zenon

\* A path at which a dict is put is a prefix of the paths of its entries.
LEMMA PrefixOfConcat ==
  ASSUME NEW S, NEW s \in Seq(S), NEW t \in Seq(S), s # <<>>
  PROVE  Len(s) \in 1 .. Len(s \o t) /\ SubSeq(s \o t, 1, Len(s)) = s
<1>1. Len(s) \in Nat \ {0} /\ Len(t) \in Nat /\ Len(s \o t) = Len(s) + Len(t)
  BY EmptySeq, LenProperties, ConcatProperties
<1>2. SubSeq(s \o t, 1, Len(s)) = SubSeq(s, 1, Len(s))
  <2>1. 1 \in 1 .. Len(s) /\ Len(s) \in 1 .. Len(s)
    BY <1>1
  <2> QED
    BY <2>1, SubSeqOfConcat1
<1> QED
  BY <1>1, <1>2, SubSeqFull

-----------------------------------------------------------------------------
(* The dict that __cli_expr() builds *)

\* A dict, or the value of an entry.
Tree(d) ==
  /\ d = [p \in DOMAIN d |-> d[p]]
  /\ DOMAIN d \subseteq Seq(STRING) /\ <<>> \in DOMAIN d
  /\ WellFormed(d)

\* e has all that is in d.
Extends(d, e) == DOMAIN d \subseteq DOMAIN e /\ \A p \in DOMAIN d : e[p] = d[p]

\* What __parse_value() returns.
LEMMA ParsedIsTree ==
  ASSUME NEW val
  PROVE  Tree(ParseValue(val))
<1>1. CASE val \in DOMAIN Literals
  BY <1>1, LiteralAssumption DEF ParseValue, Tree
<1>2. CASE val \notin DOMAIN Literals
  <2> DEFINE d == [p \in {<<>>} |-> val]
  <2>1. d = [p \in DOMAIN d |-> d[p]] /\ DOMAIN d = {<<>>}
    OBVIOUS
  <2>2. <<>> \in Seq(STRING)
    OBVIOUS
  <2> HIDE DEF d
  <2>3. Tree(d)
    BY <2>1, <2>2 DEF Tree, WellFormed
  <2> QED
    BY <1>2, <2>3 DEF ParseValue, d
<1> QED
  BY <1>1, <1>2

\* The empty dict that __cli_expr() starts with (qmp-shell:209, 259).
LEMMA EmptyIsTree == Tree(EmptyDict) /\ EmptyDict[<<>>] = ADict
<1>1. EmptyDict = [p \in DOMAIN EmptyDict |-> EmptyDict[p]] /\ DOMAIN EmptyDict = {<<>>}
  BY DEF EmptyDict
<1>2. <<>> \in Seq(STRING) /\ EmptyDict[<<>>] = ADict
  BY DEF EmptyDict
<1> QED
  BY <1>1, <1>2 DEF Tree, WellFormed

\* Nothing is in what is not there.
LEMMA NothingBelow ==
  ASSUME NEW d, Tree(d), NEW at \in Seq(STRING), at # <<>>, at \notin DOMAIN d,
         NEW q \in Seq(STRING)
  PROVE  at \o q \notin DOMAIN d
<1> DEFINE p == at \o q
<1> SUFFICES ASSUME p \in DOMAIN d PROVE FALSE
  OBVIOUS
<1>0. p \in DOMAIN d
  OBVIOUS
<1>1. p \in Seq(STRING) /\ Len(p) \in Nat
  BY ConcatProperties, LenProperties
<1>2. Len(at) \in 1 .. Len(p) /\ SubSeq(p, 1, Len(at)) = at
  BY PrefixOfConcat
<1>3. SubSeq(p, 1, Len(p)) = p
  BY <1>1, SubSeqFull
<1> HIDE DEF p
<1> DEFINE T == {k \in Len(at) .. Len(p) : SubSeq(p, 1, k) \in DOMAIN d}
<1>4. T \in SUBSET Nat /\ Len(p) \in T
  <2>1. Len(at) \in Nat /\ Len(p) \in Len(at) .. Len(p)
    BY <1>1, <1>2
  <2>2. SubSeq(p, 1, Len(p)) \in DOMAIN d
    BY <1>0, <1>3
  <2>3. T \subseteq Nat
    BY <1>1, <2>1
  <2> QED
    BY <2>1, <2>2, <2>3
<1>5. PICK k \in T : \A j \in T : k <= j
  <2> HIDE DEF T
  <2> QED
    BY <1>4, LeastOf
<1>6. k \in 1 .. Len(p) /\ k \in Len(at) .. Len(p) /\ SubSeq(p, 1, k) \in DOMAIN d
  BY <1>1, <1>2
<1>7. SubSeq(p, 1, k - 1) \in DOMAIN d
  <2>1. SubSeq(p, 1, k) # <<>> /\ Front(SubSeq(p, 1, k)) = SubSeq(p, 1, k - 1)
    BY <1>1, <1>6, FirstComponents
  <2>2. Front(SubSeq(p, 1, k)) \in DOMAIN d
    BY <1>6, <2>1 DEF Tree, WellFormed
  <2> QED
    BY <2>1, <2>2, Zenon
<1>8. CASE k = Len(at)
  BY <1>2, <1>6, <1>8
<1>9. CASE k # Len(at)
  <2>0. Len(at) \in Nat /\ Len(p) \in Nat /\ k \in Nat
    BY <1>1, <1>2, <1>6
  <2>1. k - 1 \in Len(at) .. Len(p)
    BY <1>6, <1>9, <2>0
  <2>2. k - 1 \in T
    BY <1>7, <2>1
  <2> QED
    BY <1>5, <1>6, <2>2
<1> QED
  BY <1>8, <1>9

\* A new entry of a dict is there with all that is in it, and nothing else has changed
\* (qmp-shell:212, 219).
LEMMA GraftKeeps ==
  ASSUME NEW d, Tree(d), NEW at \in Seq(STRING), at # <<>>, at \notin DOMAIN d,
         Front(at) \in DOMAIN d, d[Front(at)] = ADict,
         NEW v, Tree(v)
  PROVE  LET g == Graft(d, at, v) IN
         /\ Tree(g) /\ Extends(d, g)
         /\ \A q \in DOMAIN v : at \o q \in DOMAIN g /\ g[at \o q] = v[q]
         /\ at \in DOMAIN g /\ g[at] = v[<<>>]
<1> DEFINE g == Graft(d, at, v)
           below == {at \o q : q \in DOMAIN v}
<1>1. DOMAIN d \subseteq Seq(STRING) /\ DOMAIN v \subseteq Seq(STRING)
  BY DEF Tree
<1>2. DOMAIN g = DOMAIN d \cup below /\ g = [p \in DOMAIN g |-> g[p]]
  BY DEF Graft
<1>3. \A p \in DOMAIN d : p \in DOMAIN g /\ g[p] = d[p]
  BY DEF Graft
<1>4. ASSUME NEW q \in DOMAIN v
      PROVE  at \o q \in DOMAIN g /\ at \o q \notin DOMAIN d /\ g[at \o q] = v[q]
  <2>1. at \o q \notin DOMAIN d
    BY <1>1, NothingBelow
  <2>2. SubSeq(at \o q, Len(at) + 1, Len(at \o q)) = q
    BY <1>1, Concatenated
  <2>3. at \o q \in DOMAIN d \cup below
    OBVIOUS
  <2> QED
    BY <2>1, <2>2, <2>3 DEF Graft
<1>5. at \in DOMAIN g /\ g[at] = v[<<>>]
  <2>1. <<>> \in DOMAIN v /\ at \o <<>> = at
    BY ConcatEmptySeq DEF Tree
  <2> QED
    BY <1>4, <2>1
<1>6. DOMAIN g \subseteq Seq(STRING)
  BY <1>1, <1>2, ConcatProperties
<1>7. WellFormed(g)
  <2> SUFFICES ASSUME NEW p \in DOMAIN g, p # <<>>
               PROVE  Front(p) \in DOMAIN g /\ g[Front(p)] = ADict
    BY DEF WellFormed
  <2>1. CASE p \in DOMAIN d
    BY <1>3, <2>1 DEF Tree, WellFormed
  <2>2. CASE p \notin DOMAIN d
    <3>1. PICK q \in DOMAIN v : p = at \o q
      BY <1>2, <2>2
    <3>2. CASE q = <<>>
      BY <1>3, <3>1, <3>2, ConcatEmptySeq
    <3>3. CASE q # <<>>
      <4>1. Front(p) = at \o Front(q)
        BY <1>1, <3>1, <3>3, Concatenated
      <4>2. Front(q) \in DOMAIN v /\ v[Front(q)] = ADict
        BY <3>3 DEF Tree, WellFormed
      <4> QED
        BY <1>4, <4>1, <4>2
    <3> QED
      BY <3>2, <3>3
  <2> QED
    BY <2>1, <2>2
<1> HIDE DEF g
<1>8. Tree(g) /\ Extends(d, g)
  BY <1>2, <1>3, <1>6, <1>7 DEF Tree, Extends
<1> QED
  BY <1>4, <1>5, <1>8 DEF g

-----------------------------------------------------------------------------

\* A state of __cli_expr(): what it has built is a dict, and so is the parent.
Built(st) ==
  /\ st = [dict |-> st.dict, parent |-> st.parent, ok |-> st.ok]
  /\ st.ok \in BOOLEAN
  /\ st.ok => /\ Tree(st.dict) /\ st.parent \in DOMAIN st.dict
              /\ st.dict[st.parent] = ADict

\* One component of a dotted key (qmp-shell:207-213).
LEMMA DescendKeeps ==
  ASSUME NEW st, Built(st), NEW p \in STRING
  PROVE  LET e == Descend(st, p) IN
         /\ Built(e)
         /\ e.ok => /\ st.ok /\ Extends(st.dict, e.dict)
                    /\ e.parent = Append(st.parent, p)
<1> DEFINE e == Descend(st, p)
           q == Append(st.parent, p)
<1>1. CASE ~st.ok
  BY <1>1 DEF Descend, Built
<1>2. CASE st.ok /\ q \notin DOMAIN st.dict
  <2>1. st.parent \in Seq(STRING) /\ Tree(st.dict) /\ st.dict[st.parent] = ADict
    BY <1>2 DEF Built, Tree
  <2>2. q \in Seq(STRING) /\ q # <<>> /\ Front(q) = st.parent
    BY <2>1, FrontOfAppend
  <2> DEFINE g == Graft(st.dict, q, EmptyDict)
  <2>3. Tree(g) /\ Extends(st.dict, g) /\ q \in DOMAIN g /\ g[q] = ADict
    <3>1. Front(q) \in DOMAIN st.dict /\ st.dict[Front(q)] = ADict
      BY <1>2, <2>2 DEF Built
    <3> HIDE DEF q
    <3> QED
      BY <1>2, <2>1, <2>2, <3>1, EmptyIsTree, GraftKeeps
  <2>4. e = [dict |-> g, parent |-> q, ok |-> TRUE]
    BY <1>2 DEF Descend
  <2> HIDE DEF g, e
  <2> QED
    BY <1>2, <2>3, <2>4 DEF Built, e
<1>3. CASE st.ok /\ q \in DOMAIN st.dict
  <2>1. e = [dict |-> st.dict, parent |-> q, ok |-> (st.dict[q] = ADict)]
    BY <1>3 DEF Descend, Built
  <2> HIDE DEF e
  <2>2. Extends(st.dict, st.dict)
    BY DEF Extends
  <2>3. Tree(st.dict) /\ q \in DOMAIN st.dict
    BY <1>3 DEF Built
  <2>4. Built(e)
    <3> HIDE DEF q
    <3> QED
      BY <2>1, <2>3 DEF Built
  <2> QED
    BY <1>3, <2>1, <2>2, <2>4 DEF e
<1> QED
  BY <1>1, <1>2, <1>3

\* What is kept twice is kept.
LEMMA ExtendsFurther ==
  ASSUME NEW a, NEW b, NEW c, Extends(a, b), Extends(b, c)
  PROVE  Extends(a, c)
BY DEF Extends

\* All the components of a dotted key but the last.
LEMMA PathKeeps ==
  ASSUME NEW st, Built(st), NEW path \in Seq(STRING)
  PROVE  LET e == DescendAll(st, path) IN
         /\ Built(e)
         /\ e.ok => /\ st.ok /\ Extends(st.dict, e.dict)
                    /\ e.parent = st.parent \o path
<1> DEFINE n == Len(path)
<1>1. PICK f : /\ f[0] = st /\ f[n] = DescendAll(st, path)
               /\ \A k \in 1 .. n : f[k] = Descend(f[k - 1], path[k])
  BY DescendUnfolds
<1>2. n \in Nat /\ \A k \in 1 .. n : path[k] \in STRING
  BY LenProperties, ElementOfSeq
<1> DEFINE Kept(k) == /\ Built(f[k])
                      /\ f[k].ok => /\ st.ok /\ Extends(st.dict, f[k].dict)
                                    /\ f[k].parent = st.parent \o SubSeq(path, 1, k)
           Bad == {k \in 0 .. n : ~Kept(k)}
<1>3. Kept(0)
  <2>1. SubSeq(path, 1, 0) = <<>>
    BY SubSeqEmpty
  <2>2. st.ok => st.parent \o <<>> = st.parent
    BY ConcatEmptySeq DEF Built, Tree
  <2>3. Extends(st.dict, st.dict)
    BY DEF Extends
  <2> QED
    BY <1>1, <2>1, <2>2, <2>3
<1>4. ASSUME NEW k \in 1 .. n, Kept(k - 1)
      PROVE  Kept(k)
  <2>1. Built(f[k - 1]) /\ f[k] = Descend(f[k - 1], path[k]) /\ path[k] \in STRING
    BY <1>1, <1>2, <1>4
  <2>2. /\ Built(f[k])
        /\ f[k].ok => /\ f[k - 1].ok /\ Extends(f[k - 1].dict, f[k].dict)
                      /\ f[k].parent = Append(f[k - 1].parent, path[k])
    BY <2>1, DescendKeeps
  <2>3. ASSUME f[k].ok
        PROVE  /\ st.ok /\ Extends(st.dict, f[k].dict)
               /\ f[k].parent = st.parent \o SubSeq(path, 1, k)
    <3>1. st.ok /\ Extends(st.dict, f[k].dict)
      BY <1>4, <2>2, <2>3, ExtendsFurther
    <3>2. f[k].parent = Append(st.parent \o SubSeq(path, 1, k - 1), path[k])
      BY <1>4, <2>2, <2>3
    <3>3. st.parent \in Seq(STRING)
      BY <3>1 DEF Built, Tree
    <3> DEFINE t == SubSeq(path, 1, k)
    <3>4. t \in Seq(STRING) /\ t # <<>> /\ Front(t) = SubSeq(path, 1, k - 1)
      BY FirstComponents
    <3>5. Last(t) = path[k]
      <4>1. /\ Append(SubSeq(path, 1, k - 1), path[k]) = t
            /\ SubSeq(path, 1, k - 1) \in Seq(STRING)
        BY FirstComponents
      <4>2. Append(Front(t), Last(t)) = t /\ Last(t) \in STRING
        BY <3>4, FrontOf
      <4> HIDE DEF t
      <4> QED
        BY <2>1, <3>4, <4>1, <4>2, AppendInjective
    <3>6. Append(st.parent \o Front(t), Last(t)) = st.parent \o t
      BY <3>3, <3>4, Concatenated
    <3> QED
      BY <3>1, <3>2, <3>4, <3>5, <3>6
  <2> QED
    BY <2>2, <2>3
<1>5. Kept(n)
  <2> HIDE DEF Kept
  <2> SUFFICES ASSUME ~Kept(n) PROVE FALSE
    OBVIOUS
  <2>1. n \in Bad /\ Bad \in SUBSET Nat
    BY <1>2
  <2>2. PICK k \in Bad : \A j \in Bad : k <= j
    <3> HIDE DEF Bad
    <3> QED
      BY <2>1, LeastOf
  <2>3. k \in 0 .. n /\ ~Kept(k) /\ k # 0
    BY <1>3
  <2>4. k \in 1 .. n /\ k - 1 \in 0 .. n /\ k - 1 \notin Bad
    BY <1>2, <2>2, <2>3
  <2> QED
    BY <1>4, <2>3, <2>4
<1>6. SubSeq(path, 1, n) = path
  BY SubSeqFull
<1> QED
  BY <1>1, <1>5, <1>6

Words == [path : Seq(STRING) \ {<<>>}, val : STRING]

\* One argument is put where its key says, and leaves all others (qmp-shell:200-219).
LEMMA SetArgKeeps ==
  ASSUME NEW st, Built(st), NEW arg \in Words
  PROVE  LET e == SetArg(st, arg) IN
         /\ Built(e)
         /\ e.ok => /\ st.ok /\ Extends(st.dict, e.dict)
                    /\ At(e.dict, st.parent \o arg.path, arg.val)
                    /\ e.parent = st.parent \o Front(arg.path)
<1> DEFINE e == SetArg(st, arg)
           d == DescendAll(st, Front(arg.path))
           q == Append(d.parent, Last(arg.path))
<1>1. /\ arg.path \in Seq(STRING) /\ arg.path # <<>>
      /\ Front(arg.path) \in Seq(STRING) /\ Last(arg.path) \in STRING
  <2>1. arg.path \in Seq(STRING) /\ arg.path # <<>>
    BY DEF Words
  <2> QED
    BY <2>1, FrontOf
<1>2. /\ Built(d)
      /\ d.ok => /\ st.ok /\ Extends(st.dict, d.dict)
                 /\ d.parent = st.parent \o Front(arg.path)
  BY <1>1, PathKeeps
<1> HIDE DEF d
<1>3. CASE arg.val = NoValue \/ ~d.ok \/ q \in DOMAIN d.dict
  <2>1. e = [st EXCEPT !.ok = FALSE]
    BY <1>3 DEF SetArg, d
  <2>2. e = [dict |-> st.dict, parent |-> st.parent, ok |-> FALSE]
    BY <2>1 DEF Built
  <2> HIDE DEF e
  <2> QED
    BY <2>2 DEF Built, e
<1>4. CASE ~(arg.val = NoValue \/ ~d.ok \/ q \in DOMAIN d.dict)
  <2> DEFINE v == ParseValue(arg.val)
             g == Graft(d.dict, q, v)
  <2>1. /\ Tree(d.dict) /\ d.parent \in Seq(STRING) /\ d.parent \in DOMAIN d.dict
        /\ d.dict[d.parent] = ADict
    BY <1>2, <1>4 DEF Built, Tree
  <2>2. q \in Seq(STRING) /\ q # <<>> /\ Front(q) = d.parent
    BY <1>1, <2>1, FrontOfAppend
  <2>3. st.parent \in Seq(STRING)
    BY <1>2, <1>4 DEF Built, Tree
  <2>4. q = st.parent \o arg.path
    <3>1. d.parent = st.parent \o Front(arg.path)
      BY <1>2, <1>4
    <3>2. Append(st.parent \o Front(arg.path), Last(arg.path)) = st.parent \o arg.path
      BY <1>1, <2>3, Concatenated
    <3> QED
      BY <3>1, <3>2
  <2>5. Tree(v)
    BY ParsedIsTree
  <2>6. e = [d EXCEPT !.dict = g]
    BY <1>4 DEF SetArg, d
  <2>7. e = [dict |-> g, parent |-> d.parent, ok |-> TRUE]
    BY <1>2, <1>4, <2>6 DEF Built
  <2>8. /\ Tree(g) /\ Extends(d.dict, g)
        /\ \A r \in DOMAIN v : q \o r \in DOMAIN g /\ g[q \o r] = v[r]
    <3>1. q \notin DOMAIN d.dict /\ Front(q) \in DOMAIN d.dict /\ d.dict[Front(q)] = ADict
      BY <1>4, <2>1, <2>2
    <3> HIDE DEF v, q
    <3> QED
      BY <2>1, <2>2, <2>5, <3>1, GraftKeeps
  <2> HIDE DEF v, q, g, e
  <2>9. At(g, st.parent \o arg.path, arg.val)
    BY <2>4, <2>8 DEF At, v
  <2>10. Extends(st.dict, g)
    BY <1>2, <1>4, <2>8, ExtendsFurther
  <2>11. d.parent \in DOMAIN g /\ g[d.parent] = ADict
    BY <2>1, <2>8 DEF Extends
  <2>12. Built(e)
    BY <2>7, <2>8, <2>11 DEF Built
  <2>13. st.ok /\ d.parent = st.parent \o Front(arg.path)
    BY <1>2, <1>4
  <2>14. e.dict = g /\ e.parent = d.parent
    BY <2>7
  <2>15. /\ Built(e)
         /\ e.ok => /\ st.ok /\ Extends(st.dict, e.dict)
                    /\ At(e.dict, st.parent \o arg.path, arg.val)
                    /\ e.parent = st.parent \o Front(arg.path)
    BY <2>9, <2>10, <2>12, <2>13, <2>14, Zenon
  <2> QED
    BY <2>15 DEF e
<1> QED
  BY <1>3, <1>4

\* What grows keeps an argument where it is (qmp-shell:212, 219).
LEMMA StillKept ==
  ASSUME NEW d, NEW e, Extends(d, e), NEW args, NEW i, IsKept(d, args, i)
  PROVE  IsKept(e, args, i)
BY DEF Extends, IsKept, Above, At

\* Of any words, of a command or an action: no argument is dropped, or overwritten by
\* a later one (qmp-shell:198-219).
THEOREM CliKeeps ==
  ASSUME NEW args \in Seq(Words), CliExpr(args).ok
  PROVE  /\ WellFormed(CliExpr(args).dict)
         /\ \A i \in 1 .. Len(args) : IsKept(CliExpr(args).dict, args, i)
<1> DEFINE n == Len(args)
<1>1. PICK f : /\ f[0] = Start /\ f[n] = CliExpr(args)
               /\ \A k \in 1 .. n : f[k] = SetArg(f[k - 1], args[k])
  BY SetArgUnfolds DEF Words
<1>2. n \in Nat /\ \A k \in 1 .. n : args[k] \in Words
  BY LenProperties, ElementOfSeq
<1> DEFINE Plain(k) == \A j \in 1 .. k : Len(args[j].path) = 1
           Kept(k) == /\ Built(f[k])
                      /\ f[k].ok => \A i \in 1 .. k : IsKept(f[k].dict, args, i)
                      /\ f[k].ok /\ Plain(k) => f[k].parent = <<>>
           Bad == {k \in 0 .. n : ~Kept(k)}
<1>3. Kept(0)
  <2>1. Built(Start)
    <3>1. <<>> \in DOMAIN EmptyDict
      BY EmptyIsTree DEF Tree
    <3> QED
      BY <3>1, EmptyIsTree DEF Start, Built
  <2>2. Start.parent = <<>>
    BY DEF Start
  <2> QED
    BY <1>1, <2>1, <2>2
<1>4. ASSUME NEW k \in 1 .. n, Kept(k - 1)
      PROVE  Kept(k)
  <2>1. Built(f[k - 1]) /\ f[k] = SetArg(f[k - 1], args[k]) /\ args[k] \in Words
    BY <1>1, <1>2, <1>4
  <2>2. /\ Built(f[k])
        /\ f[k].ok => /\ f[k - 1].ok /\ Extends(f[k - 1].dict, f[k].dict)
                      /\ At(f[k].dict, f[k - 1].parent \o args[k].path, args[k].val)
                      /\ f[k].parent = f[k - 1].parent \o Front(args[k].path)
    BY <2>1, SetArgKeeps
  <2>3. ASSUME f[k].ok, NEW i \in 1 .. k
        PROVE  IsKept(f[k].dict, args, i)
    <3>1. CASE i # k
      <4>1. i \in 1 .. (k - 1)
        BY <1>2, <3>1
      <4>2. IsKept(f[k - 1].dict, args, i)
        BY <1>4, <2>2, <2>3, <4>1
      <4> QED
        BY <2>2, <2>3, <4>2, StillKept
    <3>2. CASE i = k
      <4>1. f[k - 1].parent \in Above(f[k].dict, args, k)
        <5>1. CASE Plain(k - 1)
          BY <1>4, <2>2, <2>3, <5>1 DEF Above
        <5>2. CASE ~Plain(k - 1)
          BY <2>1, <2>2, <2>3, <5>2 DEF Above, Built, Extends
        <5> QED
          BY <5>1, <5>2
      <4> QED
        BY <2>2, <2>3, <3>2, <4>1 DEF IsKept
    <3> QED
      BY <3>1, <3>2
  <2>4. ASSUME f[k].ok, Plain(k)
        PROVE  f[k].parent = <<>>
    <3>1. Plain(k - 1) /\ Len(args[k].path) = 1
      BY <1>2, <2>4
    <3>2. f[k - 1].parent = <<>>
      BY <1>4, <2>2, <2>4, <3>1
    <3>3. Front(args[k].path) = <<>>
      BY <3>1, SubSeqEmpty DEF Front
    <3> QED
      BY <2>2, <2>4, <3>2, <3>3
  <2> HIDE DEF Plain
  <2> QED
    BY <2>2, <2>3, <2>4
<1>5. Kept(n)
  <2> HIDE DEF Kept
  <2> SUFFICES ASSUME ~Kept(n) PROVE FALSE
    OBVIOUS
  <2>1. n \in Bad /\ Bad \in SUBSET Nat
    BY <1>2
  <2>2. PICK k \in Bad : \A j \in Bad : k <= j
    <3> HIDE DEF Bad
    <3> QED
      BY <2>1, LeastOf
  <2>3. k \in 0 .. n /\ ~Kept(k) /\ k # 0
    BY <1>3
  <2>4. k \in 1 .. n /\ k - 1 \in 0 .. n /\ k - 1 \notin Bad
    BY <1>2, <2>2, <2>3
  <2> QED
    BY <1>4, <2>3, <2>4
<1> HIDE DEF Plain
<1> QED
  BY <1>1, <1>5 DEF Built, Tree

-----------------------------------------------------------------------------
(* The command in flight *)

\* What connects the command in flight with the line it was built from.
SentInv ==
  InFlight => /\ line \in Lines /\ line # <<>>
              /\ CliExpr(Args).ok /\ sent.arguments = CliExpr(Args).dict

\* The words after the name of a command (__build_cmd, qmp-shell:258).
LEMMA ArgsAreWords ==
  ASSUME NEW l \in Lines, l # <<>>
  PROVE  Tail(l) \in Seq(Words)
<1>1. l \in Seq(Words)
  BY ShellAssumption DEF Words
<1> QED
  BY <1>1, HeadTailProperties

\* A step after which no command of QMPShell is in flight, or still the same.
LEMMA NothingSent ==
  ASSUME SentInv,
         \/ phase' # "waiting" \/ hmp'
         \/ UNCHANGED <<phase, hmp, sent, line>>
  PROVE  SentInv'
<1>1. CASE phase' # "waiting" \/ hmp'
  BY <1>1 DEF SentInv, InFlight
<1>2. CASE UNCHANGED <<phase, hmp, sent, line>>
  BY <1>2 DEF SentInv, InFlight, Args
<1> QED
  BY <1>1, <1>2

\* A transaction is no command (__build_cmd, qmp-shell:239-256).
LEMMA CacheSends ==
  ASSUME IInv, SentInv, NEW l, CacheAction(l)
  PROVE  SentInv'
<1> DEFINE data == CliExpr(ActionArgs(l))
           action == [type |-> Name(Rest(l)[1]), data |-> data.dict]
<1>1. /\ TypeQMP(l)
      /\ \/ phase' = phase
         \/ SendTransaction(Append(actions, action))
  <2> HIDE DEF data, action
  <2> QED
    BY DEF CacheAction, Complain, data, action
<1>2. phase = "prompt"
  BY <1>1, TypedLine DEF TypeQMP
<1>3. CASE phase' = phase
  BY <1>2, <1>3, NothingSent
<1>4. CASE SendTransaction(Append(actions, action))
  <2> HIDE DEF action
  <2>1. phase' = "waiting" => sent'.actions = Append(actions, action)
    BY <1>4 DEF SendTransaction, Send, Transaction, NoCommand
  <2>2. PICK S : actions \in Seq(S) /\ action \in S
    BY SameSet DEF IInv
  <2>3. Append(actions, action) # <<>>
    BY <2>2, AppendProperties
  <2> QED
    BY <2>1, <2>3 DEF SentInv, InFlight
<1> QED
  BY <1>1, <1>3, <1>4

\* Every step of the shell keeps what connects a command with its line.
LEMMA SentInductive == IInv /\ SentInv /\ [Next]_vars => SentInv'
<1> SUFFICES ASSUME IInv, SentInv, [Next]_vars PROVE SentInv'
  OBVIOUS
<1>t. hmp \in BOOLEAN /\ (phase = "probing" => hmp)
  BY DEF IInv, TypeOK
<1>u. CASE UNCHANGED vars
  BY <1>u, NothingSent DEF vars
<1>1. CASE Connect \/ Completed \/ Answered \/ Disconnected \/ EndOfInput \/ Interrupted
  <2>1. PICK p : Step(p) /\ p # "waiting"
    BY <1>1 DEF Connect, Completed, Answered, Disconnected, EndOfInput, Interrupted
  <2> QED
    BY <2>1, NothingSent DEF Step
<1>2. CASE QemuChanges
  BY <1>2, NothingSent DEF QemuChanges
<1>3. CASE BlankLine \/ EmptyLine
  <2>1. phase' \in {"prompt", "crashed"}
    BY <1>3, TypedLine DEF BlankLine, EmptyLine, TypeQMP, Complain
  <2> QED
    BY <2>1, NothingSent
<1>4. CASE Probed
  <2>1. hmp'
    BY <1>4, <1>t DEF Probed
  <2> QED
    BY <2>1, NothingSent
<1>5. ASSUME NEW l \in Lines, l # <<>>, CloseTransaction(l)
      PROVE  SentInv'
  <2>1. l \in Seq(Words) /\ Len(l) = 1 /\ l[1] = Close /\ line' = l
    BY <1>5, ShellAssumption DEF CloseTransaction, Closing, TypeQMP, Type, Words
  <2>2. l = <<Close>>
    <3> HIDE DEF Close
    <3> QED
      BY <2>1
  <2> QED
    BY <2>1, <2>2 DEF SentInv, InFlight, Close
<1>6. ASSUME NEW l \in Lines, CloseWithJunk(l) \/ OpenTransaction(l)
      PROVE  SentInv'
  <2>1. phase' = "prompt"
    BY <1>6, TypedLine DEF CloseWithJunk, OpenTransaction, TypeQMP, Complain
  <2> QED
    BY <2>1, NothingSent
<1>7. ASSUME NEW l \in Lines, CacheAction(l)
      PROVE  SentInv'
  BY <1>7, CacheSends
<1>8. ASSUME NEW l \in Lines, l # <<>>, StandardCommand(l)
      PROVE  SentInv'
  <2>1. TypeQMP(l) /\ line' = l
    BY <1>8 DEF StandardCommand, TypeQMP, Type
  <2>2. \/ CliExpr(Tail(l)).ok /\ Send(Command(l))
        \/ Complain
    BY <1>8 DEF StandardCommand
  <2>3. CASE Complain
    BY <2>1, <2>3, TypedLine, NothingSent DEF Complain, TypeQMP
  <2>4. CASE CliExpr(Tail(l)).ok /\ Send(Command(l))
    <3>1. Command(l).arguments = CliExpr(Tail(l)).dict
      BY DEF Command, NoCommand
    <3>2. phase' = "waiting" => sent'.arguments = CliExpr(Tail(l)).dict
      BY <2>4, <3>1 DEF Send
    <3> QED
      BY <1>8, <2>1, <2>4, <3>2 DEF SentInv, InFlight, Args
  <2> QED
    BY <2>2, <2>3, <2>4
<1>9. ASSUME NEW l \in Lines, SelectCpu(l) \/ PassOn(l) \/ MissingWord(l)
      PROVE  SentInv'
  <2>1. hmp'
    BY <1>9 DEF SelectCpu, PassOn, MissingWord, TypeHMP, Type
  <2> QED
    BY <2>1, NothingSent
<1> QED
  BY <1>u, <1>1, <1>2, <1>3, <1>4, <1>5, <1>6, <1>7, <1>8, <1>9 DEF Next

\* No argument of a command is lost or overwritten (__cli_expr, qmp-shell:198-219).
THEOREM ArgumentsAreKept == Spec => []ArgumentsKept
<1>1. Init => SentInv
  BY DEF Init, SentInv, InFlight
<1>2. IInv /\ SentInv => ArgumentsKept
  <2> SUFFICES ASSUME SentInv, InFlight
               PROVE  /\ WellFormed(sent.arguments)
                      /\ \A i \in DOMAIN Args : IsKept(sent.arguments, Args, i)
    BY DEF ArgumentsKept, IsKept, Above
  <2>1. /\ line \in Lines /\ line # <<>>
        /\ CliExpr(Args).ok /\ sent.arguments = CliExpr(Args).dict
    BY DEF SentInv
  <2>2. Args \in Seq(Words)
    BY <2>1, ArgsAreWords DEF Args
  <2>3. DOMAIN Args = 1 .. Len(Args)
    BY <2>2, LenProperties
  <2> QED
    BY <2>1, <2>2, <2>3, CliKeeps
<1> QED
  BY <1>1, <1>2, SentInductive, ShellInvariance, PTL DEF Spec

=============================================================================
