------------------------------ MODULE QMPShell ------------------------------
(***************************************************************************)
(* The interactive shells of share/qemu/qmp/qmp-shell: QMPShell, which     *)
(* builds a command out of a line and collects the actions of a            *)
(* transaction over several lines, and HMPShell (-H), which passes lines   *)
(* on to the human monitor for the CPU selected last.                      *)
(*                                                                         *)
(* A line is the sequence of its words.  A word is a record [path, val]:   *)
(* a word key=value has the components of the dotted key as its path, any  *)
(* other word, and one whose value __parse_value() does not survive, has   *)
(* itself as path and NoValue as val.                                      *)
(* A dict is a function from the paths of its entries, and <<>> for        *)
(* itself, to ADict or the text of the value.                              *)
(***************************************************************************)
EXTENDS Integers, SequencesExt

CONSTANTS
  Lines,     \* what the user may type, as sequences of words
  Literals,  \* the texts that __parse_value() reads as a dict, with that dict
  Index,     \* the texts that int() accepts, with their value
  BadKeys,   \* what json.dumps() refuses as a key or a name: a text that is no UTF-8,
             \* and a key of a literal that is no text, as that of {(1, 2): 3}
  BadValues, \* the texts of values that it refuses, as [1j]
  Cpus,      \* the CPUs QEMU may have
  Fails,     \* may QEMU go away?
  MaxLines   \* bound: lines typed

\* Not the texts of a value, in which a blank is quoted.
NoValue == "no value"
ADict == "a dict"

Word(w) == [path |-> <<w>>, val |-> NoValue]

ASSUME ShellAssumption ==
  /\ Lines \subseteq Seq([path : Seq(STRING) \ {<<>>}, val : STRING])
  /\ BadKeys \cap {"none", "transaction", "human-monitor-command"} = {}
  /\ ADict \notin BadValues
  /\ Cpus \subseteq Nat /\ 0 \in Cpus
  /\ Fails \in BOOLEAN
  /\ MaxLines \in Nat

\* Every entry of d is in a dict.
WellFormed(d) == \A p \in DOMAIN d : p # <<>> => /\ Front(p) \in DOMAIN d
                                                 /\ d[Front(p)] = ADict

ASSUME LiteralAssumption ==
  \A t \in DOMAIN Literals : LET d == Literals[t] IN
    /\ DOMAIN d \subseteq Seq(STRING) /\ <<>> \in DOMAIN d
    /\ d \in [DOMAIN d -> STRING]
    /\ WellFormed(d)

VARIABLES
  hmp,        \* was the shell started with -H?
  phase,      \* "new", "completing" (connect() asks for the commands), "prompt",
              \* "probing" (cpu asks for 'info version'), "waiting" (for an answer),
              \* "closed" (left, by Ctrl-C too), "crashed" (any other exception that
              \* main() does not catch)
  line,       \* cmdline
  transmode,  \* _transmode
  actions,    \* _actions
  cpu,        \* __cpu_index
  sent,       \* the command sent last
  qemu,       \* the CPUs of QEMU, {} when it is gone
  lost,       \* has a poll lost the beginning of a line?  The next read finds the rest.
  accepted,   \* history: the actions added to _actions, in order
  delivered,  \* history: the actions of the transactions sent, in order
  opened,     \* history: number of actions accepted before the transaction in progress
  stale,      \* history: are there actions of an older transaction in _actions?
  confirmed,  \* history: the CPU QEMU has confirmed last
  nlines      \* history: number of lines typed

history == <<accepted, delivered, opened, stale>>
builder == <<transmode, actions, history>>
vars == <<hmp, phase, line, builder, cpu, sent, qemu, lost, confirmed, nlines>>

EmptyDict == [p \in {<<>>} |-> ADict]
NoCommand == [execute |-> "none", arguments |-> EmptyDict, actions |-> <<>>, index |-> 0]

Init ==
  /\ hmp \in BOOLEAN
  /\ phase = "new" /\ line = <<>>
  /\ transmode = FALSE /\ actions = <<>>
  /\ cpu = 0 /\ confirmed = 0
  /\ sent = NoCommand
  /\ qemu \in {C \in SUBSET Cpus : 0 \in C} /\ lost = FALSE
  /\ accepted = <<>> /\ delivered = <<>> /\ opened = 0 /\ stale = FALSE
  /\ nlines = 0

-----------------------------------------------------------------------------
(* __parse_value() and __cli_expr() *)

\* A number, a Boolean, a list or a string is a leaf with its text for a value.
ParseValue(val) ==
  IF val \in DOMAIN Literals THEN Literals[val] ELSE [p \in {<<>>} |-> val]

\* dict, with sub as its entry at path at.
Graft(dict, at, sub) ==
  [p \in DOMAIN dict \cup {at \o q : q \in DOMAIN sub} |->
     IF p \in DOMAIN dict THEN dict[p] ELSE sub[SubSeq(p, Len(at) + 1, Len(p))]]

\* One component of a dotted key: parent moves down to the dict of that name.
Descend(st, p) ==
  LET q == Append(st.parent, p) IN
  IF ~st.ok THEN st
  ELSE IF q \notin DOMAIN st.dict
       THEN [dict |-> Graft(st.dict, q, EmptyDict), parent |-> q, ok |-> TRUE]
       ELSE [st EXCEPT !.parent = q, !.ok = (st.dict[q] = ADict)]

DescendAll(st, path) == FoldLeft(Descend, st, path)

\* A mutant of SetArg: a key that is there already gets the new value.
SetArg_Overwrites(st, arg) ==
  LET d == DescendAll(st, Front(arg.path))
      q == Append(d.parent, Last(arg.path))
  IN IF arg.val = NoValue \/ ~d.ok
     THEN [st EXCEPT !.ok = FALSE]
     ELSE [d EXCEPT !.dict = [p \in DOMAIN d.dict \cup {q} |->
                                IF p = q THEN arg.val ELSE d.dict[p]]]

\* One argument.  parent stays where the last argument has left it.
SetArg(st, arg) ==
  LET d == DescendAll(st, Front(arg.path))
      q == Append(d.parent, Last(arg.path))
  IN IF arg.val = NoValue \/ ~d.ok \/ q \in DOMAIN d.dict
     THEN [st EXCEPT !.ok = FALSE]
     ELSE [d EXCEPT !.dict = Graft(d.dict, q, ParseValue(arg.val))]

Start == [dict |-> EmptyDict, parent |-> <<>>, ok |-> TRUE]
CliExpr(args) == FoldLeft(SetArg, Start, args)

-----------------------------------------------------------------------------
(* __build_cmd() and _execute_cmd() of QMPShell *)

Open == Word("transaction(")
Close == Word(")")

\* The name of a command is the text of a word, be it key=value.
Name(word) == word.path[1]

\* Can json.dumps() write it?
DictEncodes(dict) ==
  \A p \in DOMAIN dict : dict[p] \notin BadValues /\ ToSet(p) \cap BadKeys = {}
ActionEncodes(action) == action.type \notin BadKeys /\ DictEncodes(action.data)
Encodes(cmd) ==
  /\ cmd.execute \notin BadKeys /\ DictEncodes(cmd.arguments)
  /\ \A i \in DOMAIN cmd.actions : ActionEncodes(cmd.actions[i])

\* cmd_obj() catches no exception of json.dumps(), and neither do its callers here.
Send(cmd) ==
  IF Encodes(cmd)
  THEN sent' = cmd /\ phase' = "waiting"
  ELSE phase' = "crashed" /\ UNCHANGED sent

Transaction(acts) == [NoCommand EXCEPT !.execute = "transaction", !.actions = acts]

\* The actions that go out with it.
Delivers(acts) == IF Encodes(Transaction(acts)) THEN acts ELSE <<>>

\* A mutant of SendTransaction: the actions that were sent are kept.
SendTransaction_Keeps(acts) ==
  /\ Send(Transaction(acts))
  /\ delivered' = delivered \o Delivers(acts)
  /\ actions' = acts
  /\ transmode' = FALSE
  /\ stale' = FALSE

\* A mutant of SendTransaction: the mode is not left.
SendTransaction_Stays(acts) ==
  /\ Send(Transaction(acts))
  /\ delivered' = delivered \o Delivers(acts)
  /\ actions' = <<>>
  /\ transmode' = TRUE
  /\ stale' = FALSE

SendTransaction(acts) ==
  /\ Send(Transaction(acts))
  /\ delivered' = delivered \o Delivers(acts)
  /\ actions' = <<>>
  /\ transmode' = FALSE
  /\ stale' = FALSE

\* 'Error while parsing command line': back to the prompt.
Complain == UNCHANGED <<phase, sent>>

Type(l) ==
  /\ phase = "prompt" /\ nlines < MaxLines
  /\ line' = l
  /\ nlines' = nlines + 1
  /\ UNCHANGED <<hmp, qemu>>

TypeQMP(l) == ~hmp /\ Type(l) /\ UNCHANGED <<lost, cpu, confirmed>>

\* cmdargs[0] of a line of blanks is an IndexError, which _execute_cmd() reports.
BlankLine ==
  /\ TypeQMP(<<>>) /\ <<>> \in Lines
  /\ Complain /\ UNCHANGED builder

\* An empty line polls for events and goes nowhere near the builder.  readline()
\* drops the part of a line that it has when there is no more yet; what is left of a
\* line is no JSON, be it the end of one or all that a dying QEMU has written.
EmptyLine ==
  /\ Type(<<>>)
  /\ lost' \in {lost, lost \/ qemu # {}}
  /\ phase' \in {"prompt"} \cup (IF lost \/ qemu = {} THEN {"crashed"} ELSE {})
  /\ UNCHANGED <<sent, builder, cpu, confirmed>>

Closing(l) == transmode /\ Head(l) = Close

CloseTransaction(l) ==
  /\ Closing(l) /\ Len(l) = 1
  /\ TypeQMP(l)
  /\ SendTransaction(actions)
  /\ UNCHANGED <<accepted, opened>>

\* "Unexpected input after close": the mode is left, the actions stay.
CloseWithJunk(l) ==
  /\ Closing(l) /\ Len(l) > 1
  /\ TypeQMP(l) /\ Complain
  /\ transmode' = FALSE
  /\ stale' = (actions # <<>>)
  /\ UNCHANGED <<actions, accepted, delivered, opened>>

Opening(l) == Head(l) = Open
Enter(l) == opened' = IF transmode THEN opened ELSE Len(accepted)

OpenTransaction(l) ==
  /\ l = <<Open>>
  /\ TypeQMP(l) /\ Complain
  /\ transmode' = TRUE
  /\ Enter(l)
  /\ UNCHANGED <<actions, accepted, delivered, stale>>

\* The words of an action, after "transaction(" and without a final ")".
Rest(l) == IF Opening(l) THEN Tail(l) ELSE l
ActionArgs(l) ==
  LET words == IF Last(l) = Close THEN Front(Rest(l)) ELSE Rest(l)
  IN IF words = <<>> THEN <<>> ELSE Tail(words)

CacheAction(l) ==
  LET data == CliExpr(ActionArgs(l))
      action == [type |-> Name(Rest(l)[1]), data |-> data.dict]
  IN /\ (transmode /\ ~Closing(l)) \/ Opening(l)
     /\ Rest(l) # <<>>
     /\ TypeQMP(l)
     /\ Enter(l)
     /\ IF data.ok
        THEN /\ accepted' = Append(accepted, action)
             /\ IF Last(l) = Close
                THEN SendTransaction(Append(actions, action))
                ELSE /\ actions' = Append(actions, action)
                     /\ transmode' = TRUE
                     /\ Complain /\ UNCHANGED <<delivered, stale>>
        ELSE /\ transmode' = TRUE
             /\ Complain /\ UNCHANGED <<actions, accepted, delivered, stale>>

Command(l) ==
  [NoCommand EXCEPT !.execute = Name(l[1]), !.arguments = CliExpr(Tail(l)).dict]

StandardCommand(l) ==
  /\ ~transmode /\ ~Opening(l)
  /\ TypeQMP(l)
  /\ IF CliExpr(Tail(l)).ok THEN Send(Command(l)) ELSE Complain
  /\ UNCHANGED builder

-----------------------------------------------------------------------------
(* _execute_cmd() of HMPShell *)

Passthrough(index) == [NoCommand EXCEPT !.execute = "human-monitor-command", !.index = index]

\* The line itself is an argument of what is sent.
PassOnLine(l, index) ==
  IF \A i \in DOMAIN l : (ToSet(l[i].path) \cup {l[i].val}) \cap BadKeys = {}
  THEN Send(Passthrough(index))
  ELSE phase' = "crashed" /\ UNCHANGED sent

TypeHMP(l) == hmp /\ Type(l) /\ UNCHANGED <<builder, lost>>

\* A line of blanks has no first word, and cpu may have no second one: IndexError.
MissingWord(l) ==
  /\ l = <<>> \/ l = <<Word("cpu")>>
  /\ TypeHMP(l)
  /\ phase' = "crashed" /\ UNCHANGED <<sent, cpu, confirmed>>

\* A mutant of SelectCpu: the CPU is selected before QEMU has confirmed it.
SelectCpu_AtOnce(l) ==
  /\ Len(l) > 1 /\ l[1] = Word("cpu")
  /\ TypeHMP(l)
  /\ IF Name(l[2]) \in DOMAIN Index
     THEN /\ sent' = Passthrough(Index[Name(l[2])]) /\ phase' = "probing"
          /\ cpu' = Index[Name(l[2])]
     ELSE Complain /\ UNCHANGED cpu
  /\ UNCHANGED confirmed

SelectCpu(l) ==
  /\ Len(l) > 1 /\ l[1] = Word("cpu")
  /\ TypeHMP(l)
  /\ IF Name(l[2]) \in DOMAIN Index
     THEN sent' = Passthrough(Index[Name(l[2])]) /\ phase' = "probing"
     ELSE Complain        \* 'cpu command takes an integer argument'
  /\ UNCHANGED <<cpu, confirmed>>

PassOn(l) ==
  /\ l # <<>> /\ l[1] # Word("cpu")
  /\ TypeHMP(l)
  /\ PassOnLine(l, cpu)
  /\ UNCHANGED <<cpu, confirmed>>

\* 'info version' was answered: an unknown CPU is reported; a known one is
\* selected, and the line is passed on as any other.  After a tear the read fails
\* with the ValueError that is caught here, and leaves an answer that a later probe
\* takes for its own.
Probed ==
  /\ phase = "probing" /\ qemu # {}
  /\ \E known \in IF lost THEN BOOLEAN ELSE {sent.index \in qemu} :
       IF known
       THEN /\ cpu' = sent.index
            /\ confirmed' = IF lost THEN confirmed ELSE sent.index
            /\ PassOnLine(line, cpu')
       ELSE phase' = "prompt" /\ UNCHANGED <<cpu, confirmed, sent>>
  /\ UNCHANGED <<hmp, line, builder, qemu, lost, nlines>>

-----------------------------------------------------------------------------
(* connect(), the answers, and the end of the shell *)

Step(p) ==
  /\ phase' = p
  /\ UNCHANGED <<hmp, line, builder, cpu, sent, qemu, lost, confirmed, nlines>>

\* super.connect(); a failure ends in die(), but for the TypeError of a
\* connection that is lost in the negotiation.
Connect ==
  /\ phase = "new"
  /\ \/ qemu # {} /\ Step("completing")
     \/ Step("closed")
     \/ qemu = {} /\ Step("crashed")

\* query-commands, or help and info of the human monitor, was answered.  Only
\* QMPShell looks whether the answer is an error.
Completed ==
  /\ phase = "completing" /\ qemu # {}
  /\ \E p \in {"prompt"} \cup (IF hmp THEN {"crashed"} ELSE {}) : Step(p)

\* What is left of a torn line is no JSON; HMPShell may have got over it in Probed.
Answered ==
  /\ phase = "waiting" /\ qemu # {}
  /\ \/ (lost => hmp) /\ Step("prompt")
     \/ lost /\ Step("crashed")

\* cmd_obj() returns None, for which _execute_cmd() says 'Disconnected' and
\* the other callers do not look, or raises socket.error.
Disconnected ==
  /\ qemu = {}
  /\ \/ phase = "waiting" /\ Step("closed")
     \/ phase \in {"waiting", "probing", "completing"} /\ Step("crashed")

EndOfInput == phase = "prompt" /\ Step("closed")

\* Ctrl-C.
Interrupted == phase \notin {"closed", "crashed"} /\ Step("closed")

\* External: CPUs come and go (device_add, device_del), and so does QEMU.
QemuChanges ==
  /\ qemu # {} /\ phase \notin {"closed", "crashed"}
  /\ qemu' \in {C \in SUBSET Cpus : 0 \in C} \cup (IF Fails THEN {{}} ELSE {})
  /\ UNCHANGED <<hmp, phase, line, builder, cpu, sent, lost, confirmed, nlines>>

Next ==
  \/ Connect \/ Completed \/ Answered \/ Disconnected \/ EndOfInput \/ Interrupted
  \/ QemuChanges
  \/ BlankLine \/ EmptyLine \/ Probed
  \/ \E l \in Lines : l # <<>> /\
        \/ CloseTransaction(l) \/ CloseWithJunk(l) \/ OpenTransaction(l)
        \/ CacheAction(l) \/ StandardCommand(l)
        \/ SelectCpu(l) \/ PassOn(l)
  \/ \E l \in Lines : MissingWord(l)

Spec == Init /\ [][Next]_vars

-----------------------------------------------------------------------------
(* Properties *)

\* Type correctness of the shells (__init__, main): where they are, that the CPU
\* selected is one QEMU can have unless a poll has torn a line, and that HMPShell has
\* no transactions.
TypeOK ==
  /\ hmp \in BOOLEAN /\ transmode \in BOOLEAN /\ stale \in BOOLEAN /\ lost \in BOOLEAN
  /\ phase \in {"new", "completing", "prompt", "probing", "waiting", "closed", "crashed"}
  /\ lost \/ cpu \in Cpus
  /\ confirmed \in Cpus /\ qemu \in SUBSET Cpus
  /\ nlines \in 0 .. MaxLines
  /\ opened \in 0 .. Len(accepted)
  /\ stale => actions # <<>>
  /\ hmp => ~transmode /\ accepted = <<>>

\* Every action that was accepted is sent in exactly one transaction, in the order
\* typed, or still waits in _actions (__build_cmd): lines refused in between, one
\* line transactions and transactions left by ") junk" lose and repeat none; only a
\* transaction that json.dumps() refuses is lost, and the shell with it.
ActionsConserved == phase # "crashed" => accepted = delivered \o actions

\* The actions collected in a transaction (__build_cmd) are those accepted since it
\* was opened, unless an older transaction was left with junk after its ")".
TransactionWhole ==
  ~stale => actions = IF transmode THEN SubSeq(accepted, opened + 1, Len(accepted))
                                   ELSE <<>>

\* The arguments of the command in flight, and what they say.
InFlight == phase = "waiting" /\ ~hmp /\ sent.actions = <<>> /\ line # <<Close>>
Args == Tail(line)
At(dict, path, val) ==
  \A p \in DOMAIN ParseValue(val) :
     path \o p \in DOMAIN dict /\ dict[path \o p] = ParseValue(val)[p]

\* Where in dict the i-th argument may be.
Above(dict, args, i) ==
  IF \A j \in 1 .. i - 1 : Len(args[j].path) = 1 THEN {<<>>}
  ELSE {p \in DOMAIN dict : dict[p] = ADict}
IsKept(dict, args, i) ==
  \E p \in Above(dict, args, i) : At(dict, p \o args[i].path, args[i].val)

\* No argument of a command that is sent has been dropped or overwritten by another
\* (__cli_expr): each is in the dict with its value under a path that ends as its
\* key, and at the very path of its key if no dotted key came before it; and what
\* contains an entry is a dict.
ArgumentsKept ==
  InFlight => /\ WellFormed(sent.arguments)
              /\ \A i \in DOMAIN Args : IsKept(sent.arguments, Args, i)

\* What HMPShell passes on goes to a CPU that QEMU has confirmed, and to the last
\* one it did, whatever refused selections came after it (_execute_cmd), unless an
\* empty line's poll has torn a line.
CpuConfirmed == hmp /\ phase = "waiting" /\ ~lost => sent.index = confirmed

\* What QMPShell may crash of: QEMU is gone, an empty line's poll has torn a line, or
\* json.dumps() refuses the command of the last line or an action that was accepted.
\* All else that a line can be is reported (_execute_cmd), and in transaction mode
\* nothing is in flight.
LinesDoNotCrash ==
  ~hmp =>
    /\ phase = "crashed" => \/ qemu = {} \/ lost
                            \/ line # <<>> /\ ~Encodes(Command(line))
                            \/ \E i \in DOMAIN accepted : ~ActionEncodes(accepted[i])
    /\ phase = "waiting" => ~transmode

=============================================================================
