---------------------- MODULE QEMUMonitorProtocol_proofs ----------------------
(***************************************************************************)
(* Proofs about the QMP client for every value of its constants: any       *)
(* names, timeouts, numbers of commands and events.                        *)
(***************************************************************************)
EXTENDS QEMUMonitorProtocol, SequenceTheorems, WellFoundedInduction, TLAPS

-----------------------------------------------------------------------------
(* What the operators the actions are built from return *)

\* A call that ends sets pc, out and clean to values of their types (every return
\* and raise of qmp.py).
LEMMA ReturnType ==
  ASSUME clean \in BOOLEAN, NEW o \in Outcomes, Return(o)
  PROVE  pc' \in Pcs /\ out' \in Outcomes /\ clean' \in BOOLEAN
<1>1. pc' \in Pcs /\ out' \in Outcomes
  BY DEF Return, Pcs
<1>2. clean' \in BOOLEAN
  BY DEF Return
<1> QED
  BY <1>1, <1>2

\* The result of the negotiation is an outcome, like every other (qmp.py:70-78).
LEMMA OutcomeType ==
  ASSUME NEW name, NEW o \in Answers \cup {"greeting", "closed", "socket_error"}
  PROVE  Outcome(name, o) \in Outcomes
BY DEF Outcome, Outcomes, Answers, Failures

\* A line that can be read is a line, and what follows it as well (qmp.py:82).
LEMMA LineType ==
  ASSUME inbox \in Seq(Lines), HasLine
  PROVE  inbox # <<>> /\ Next1 \in Lines /\ Tail(inbox) \in Seq(Lines)
BY HeadTailProperties DEF HasLine, Next1

\* An exception in readline() leaves lines on the socket (qmp.py:82, 106-112).
LEMMA DropPrefixType ==
  ASSUME inbox \in Seq(Lines), DropPrefix
  PROVE  inbox' \in Seq(Lines)
<1>1. Junk \in Lines
  BY DEF Junk, Lines, Kinds
<1> QED
  BY <1>1 DEF DropPrefix

\* A search in a sequence (machine.py:461-465) has a first match if it has one.
LEMMA FirstOfSome ==
  ASSUME NEW S \in SUBSET Nat, S # {}
  PROVE  \E i \in S : \A j \in S : i <= j
<1> DEFINE R == {r \in Nat \X Nat : r[1] < r[2]}
<1>1. IsWellFoundedOn(R, Nat)
  BY NatLessThanWellFounded DEF OpToRel
<1>2. \E i \in S : \A j \in S : ~(<<j, i>> \in R)
  <2> HIDE DEF R
  <2> QED
    BY <1>1, WFMin
<1>3. \A i, j \in Nat : ~(<<j, i>> \in R) => i <= j
  OBVIOUS
<1> QED
  BY <1>2, <1>3

\* The first match of a search is a match (machine.py:461-465).
LEMMA FirstMatchIsMatch ==
  ASSUME NEW seq \in Seq(Nat), NEW ns, Matches(seq, ns) # {}
  PROVE  FirstMatch(seq, ns) \in Matches(seq, ns)
<1>1. Matches(seq, ns) \in SUBSET Nat
  BY LenProperties DEF Matches
<1>2. PICK i \in Matches(seq, ns) : \A j \in Matches(seq, ns) : i <= j
  BY <1>1, FirstOfSome
<1> QED
  BY <1>2 DEF FirstMatch

\* _events.remove(event) (machine.py:464) leaves a sequence of events.
LEMMA WithoutType ==
  ASSUME NEW seq \in Seq(Nat), NEW i \in DOMAIN seq
  PROVE  Without(seq, i) \in Seq(Nat)
<1>1. Len(seq) \in Nat /\ i \in 1 .. Len(seq) /\ \A j \in 1 .. Len(seq) : seq[j] \in Nat
  BY LenProperties, ElementOfSeq
<1>2. SubSeq(seq, 1, i - 1) \in Seq(Nat)
  BY <1>1, SubSeqProperties
<1>3. SubSeq(seq, i + 1, Len(seq)) \in Seq(Nat)
  BY <1>1, SubSeqProperties
<1> QED
  BY <1>2, <1>3, ConcatProperties DEF Without

\* sendall() of a command (qmp.py:169-176).
LEMMA SendType ==
  ASSUME TypeOK, Send
  PROVE  /\ outbox' \in Seq(Nat) /\ ncmds' \in Nat
         /\ pc' \in Pcs /\ out' \in Outcomes /\ clean' \in BOOLEAN
<1>1. CASE peer # "down"
  <2>1. ncmds' = ncmds + 1 /\ outbox' = Append(outbox, ncmds') /\ pc' = "cmd" /\ out' = "pending"
    BY <1>1 DEF Send
  <2>2. clean' \in BOOLEAN
    BY <1>1 DEF Send, TypeOK
  <2> QED
    BY <2>1, <2>2, AppendProperties DEF TypeOK, Pcs, Outcomes
<1>2. CASE peer = "down"
  <2>1. UNCHANGED <<ncmds, outbox>>
    BY <1>2 DEF Send
  <2>2. PICK o \in {"closed", "socket_error"} : Return(Outcome(api', o))
    BY <1>2 DEF Send
  <2> QED
    BY <2>1, <2>2, OutcomeType, ReturnType DEF TypeOK
<1> QED
  BY <1>1, <1>2

\* A call that needs the socket (qmp.py:106-107).
LEMMA PullType ==
  ASSUME TypeOK, Pull
  PROVE  /\ events' \in Seq(Nat) /\ cache' \in Seq(Nat) /\ delivered' \in Seq(Nat)
         /\ mode' \in {"blocking", "nonblocking", "timed"}
         /\ pc' \in Pcs /\ out' \in Outcomes /\ clean' \in BOOLEAN
<1>1. events' \in Seq(Nat) /\ cache' \in Seq(Nat) /\ delivered' \in Seq(Nat)
  BY DEF Pull, buffers, TypeOK
<1>2. CASE Poll
  <2>1. clean' \in BOOLEAN
    BY <1>2 DEF Poll, TypeOK
  <2> QED
    BY <1>1, <1>2, <2>1 DEF Poll, Pcs, Outcomes
<1>3. CASE Return("socket_error") /\ UNCHANGED mode
  BY <1>1, <1>3, ReturnType DEF TypeOK, Outcomes, Failures
<1> QED
  BY <1>2, <1>3 DEF Pull

\* What the callers of __get_events() do with the events it kept (qmp.py:216-220,
\* machine.py:397-401, 455-472).
LEMMA FinishType ==
  ASSUME TypeOK, NEW buf \in Seq(Nat), NEW m \in {"blocking", "nonblocking", "timed"},
         Finish(buf, m)
  PROVE  /\ events' \in Seq(Nat) /\ cache' \in Seq(Nat) /\ delivered' \in Seq(Nat)
         /\ mode' \in {"blocking", "nonblocking", "timed"}
         /\ pc' \in Pcs /\ out' \in Outcomes /\ clean' \in BOOLEAN
<1> USE DEF TypeOK
<1>a. {"none", "event", "list", "type_error"} \subseteq Outcomes
  BY DEF Outcomes
<1>b. buf # <<>> => /\ Head(buf) \in Nat /\ Tail(buf) \in Seq(Nat)
                    /\ Append(delivered, Head(buf)) \in Seq(Nat)
                    /\ Append(cache, Head(buf)) \in Seq(Nat)
  BY HeadTailProperties, AppendProperties
<1>c. (delivered \o buf) \o cache \in Seq(Nat) /\ <<>> \in Seq(Nat)
  BY ConcatProperties, EmptySeq
<1>1. CASE FinishEvent(buf, m)
  <2>1. pc' \in Pcs /\ out' \in Outcomes /\ clean' \in BOOLEAN
    BY <1>1, <1>a, ReturnType DEF FinishEvent
  <2> QED
    BY <1>1, <1>b, <2>1 DEF FinishEvent
<1>2. CASE FinishEvents(buf, m)
  <2>1. pc' \in Pcs /\ out' \in Outcomes /\ clean' \in BOOLEAN
    BY <1>2, <1>a, ReturnType DEF FinishEvents
  <2> QED
    BY <1>2, <1>c, <2>1 DEF FinishEvents
<1>3. CASE FinishWait(buf, m)
  <2>1. CASE buf = <<>> \/ emitted[Head(buf)] \in names
    <3>1. pc' \in Pcs /\ out' \in Outcomes /\ clean' \in BOOLEAN
      BY <1>3, <2>1, <1>a, ReturnType DEF FinishWait
    <3> QED
      BY <1>3, <1>b, <2>1, <3>1 DEF FinishWait
  <2>2. CASE buf # <<>> /\ emitted[Head(buf)] \notin names
    <3>1. FinishWaitOther(buf)
      BY <1>3, <2>2 DEF FinishWait
    <3>2. clean' \in BOOLEAN
      BY <3>1 DEF FinishWaitOther, Poll
    <3> QED
      BY <1>b, <2>2, <3>1, <3>2 DEF FinishWaitOther, Poll, Pcs, Outcomes
  <2> QED
    BY <2>1, <2>2
<1> QED
  BY <1>1, <1>2, <1>3 DEF Finish

-----------------------------------------------------------------------------
(* Types *)

\* A fresh connection (qmp.py:42-68) has the types.
LEMMA InitTypeOK == Init => TypeOK
<1> SUFFICES ASSUME Init PROVE TypeOK
  OBVIOUS
<1>1. torn \in BOOLEAN /\ clean \in BOOLEAN
  BY DEF Init
<1>2. \A S : <<>> \in Seq(S)
  BY EmptySeq
<1> QED
  BY <1>1, <1>2 DEF Init, TypeOK, Pcs, Apis, Outcomes

\* Every step of a call, of a caller and of QEMU keeps the types.
LEMMA NextTypeOK == TypeOK /\ [Next]_vars => TypeOK'
<1> SUFFICES ASSUME TypeOK, [Next]_vars PROVE TypeOK'
  OBVIOUS
<1> USE MonitorAssumption DEF TypeOK, conn, wire, buffers
<1>a. \A o \in Outcomes : Return(o) => pc' \in Pcs /\ out' \in Outcomes /\ clean' \in BOOLEAN
  BY ReturnType
<1>b. /\ Answers \subseteq Outcomes /\ Failures \subseteq Outcomes
      /\ {"none", "pending", "event"} \subseteq Outcomes
  BY DEF Outcomes
<1>c. HasLine => /\ inbox # <<>> /\ Next1 \in Lines /\ Next1.id \in Nat
                 /\ Tail(inbox) \in Seq(Lines) /\ Append(events, Next1.id) \in Seq(Nat)
  BY LineType, AppendProperties DEF Lines
<1>d. Consume => UNCHANGED <<torn, outbox, peer>> /\ (HasLine => inbox' \in Seq(Lines))
  BY <1>c DEF Consume
<1>e. DropPrefix => UNCHANGED <<torn, outbox, peer>> /\ inbox' \in Seq(Lines)
  BY DropPrefixType DEF DropPrefix
<1>1. ASSUME NEW negotiate \in BOOLEAN, Open(negotiate)
      PROVE  TypeOK'
  <2>1. torn' \in BOOLEAN
    BY <1>1 DEF Open
  <2>2. pc' \in Pcs /\ out' \in Outcomes /\ clean' \in BOOLEAN
    <3>1. CASE negotiate
      <4>1. clean' \in BOOLEAN
        BY <1>1, <3>1 DEF Open
      <4> QED
        BY <1>1, <3>1, <4>1 DEF Open, Pcs, Outcomes
    <3>2. CASE ~negotiate
      BY <1>1, <3>2, <1>a, <1>b DEF Open
    <3> QED
      BY <3>1, <3>2
  <2> QED
    BY <1>1, <2>1, <2>2 DEF Open, Call, Apis
<1>2. CASE OpenFails
  <2>1. torn' \in BOOLEAN
    BY <1>2 DEF OpenFails
  <2>2. pc' \in Pcs /\ out' \in Outcomes /\ clean' \in BOOLEAN
    BY <1>2, <1>a, <1>b DEF OpenFails, Failures
  <2> QED
    BY <1>2, <2>1, <2>2 DEF OpenFails, Call, Apis
<1>3. CASE GreetingRead
  <2>1. torn' \in BOOLEAN
    BY <1>3 DEF GreetingRead
  <2>2. inbox' \in Seq(Lines)
    BY <1>3, <1>c DEF GreetingRead
  <2>3. /\ outbox' \in Seq(Nat) /\ ncmds' \in Nat
        /\ pc' \in Pcs /\ out' \in Outcomes /\ clean' \in BOOLEAN
    BY <1>3, SendType DEF GreetingRead
  <2> QED
    BY <1>3, <2>1, <2>2, <2>3 DEF GreetingRead
<1>4. CASE GreetingFails
  <2>1. inbox' \in Seq(Lines) /\ UNCHANGED <<torn, outbox, peer>>
    BY <1>4, <1>d DEF GreetingFails
  <2>2. torn' \in BOOLEAN
    BY <2>1
  <2>3. pc' \in Pcs /\ out' \in Outcomes /\ clean' \in BOOLEAN
    BY <1>4, <1>a, <1>b DEF GreetingFails, Failures
  <2> QED
    BY <1>4, <2>1, <2>2, <2>3 DEF GreetingFails
<1>5. CASE CmdSend
  <2>1. torn' \in BOOLEAN
    BY <1>5 DEF CmdSend
  <2>2. /\ outbox' \in Seq(Nat) /\ ncmds' \in Nat
        /\ pc' \in Pcs /\ out' \in Outcomes /\ clean' \in BOOLEAN
    BY <1>5, SendType, <1>a, <1>b DEF CmdSend, Failures
  <2> QED
    BY <1>5, <2>1, <2>2 DEF CmdSend, Call, Apis
<1>6. CASE CmdRead
  <2>1. inbox' \in Seq(Lines) /\ UNCHANGED <<torn, outbox, peer>>
    BY <1>6, <1>d DEF CmdRead
  <2>2. torn' \in BOOLEAN
    BY <2>1
  <2>3. pc' \in Pcs /\ out' \in Outcomes /\ clean' \in BOOLEAN
    BY <1>6, <1>a, OutcomeType DEF CmdRead
  <2> QED
    BY <1>6, <1>c, <2>1, <2>2, <2>3 DEF CmdRead
<1>7. CASE CmdEOF
  <2>1. torn' \in BOOLEAN
    BY <1>7 DEF CmdEOF
  <2>2. pc' \in Pcs /\ out' \in Outcomes /\ clean' \in BOOLEAN
    BY <1>7, <1>a, OutcomeType DEF CmdEOF
  <2> QED
    BY <1>7, <2>1, <2>2 DEF CmdEOF
<1>8. CASE ReadRaises
  <2>1. inbox' \in Seq(Lines) /\ UNCHANGED <<torn, outbox, peer>>
    BY <1>8, <1>e DEF ReadRaises
  <2>2. torn' \in BOOLEAN
    BY <2>1
  <2>3. pc' \in Pcs /\ out' \in Outcomes /\ clean' \in BOOLEAN
    BY <1>8, <1>a, <1>b DEF ReadRaises, Failures
  <2> QED
    BY <1>8, <2>1, <2>2, <2>3 DEF ReadRaises
<1>9. CASE BufferEvent
  <2>1. inbox' \in Seq(Lines) /\ UNCHANGED <<torn, outbox, peer>>
    BY <1>9, <1>d DEF BufferEvent
  <2>2. torn' \in BOOLEAN /\ clean' \in BOOLEAN
    BY <1>9, <2>1 DEF BufferEvent, call
  <2> QED
    BY <1>9, <1>c, <2>1, <2>2 DEF BufferEvent, call
<1>10. CASE ReadJunk
  <2>1. inbox' \in Seq(Lines) /\ UNCHANGED <<torn, outbox, peer>>
    BY <1>10, <1>d DEF ReadJunk
  <2>2. torn' \in BOOLEAN
    BY <2>1
  <2>3. pc' \in Pcs /\ out' \in Outcomes /\ clean' \in BOOLEAN
    BY <1>10, <1>a, <1>b DEF ReadJunk, Failures
  <2> QED
    BY <1>10, <2>1, <2>2, <2>3 DEF ReadJunk
<1>11. CASE PollEnds
  <2>1. inbox' \in Seq(Lines) /\ UNCHANGED <<torn, outbox, peer>>
    BY <1>11, <1>d, <1>e DEF PollEnds
  <2>2. torn' \in BOOLEAN
    BY <2>1
  <2>3. /\ events' \in Seq(Nat) /\ cache' \in Seq(Nat) /\ delivered' \in Seq(Nat)
        /\ mode' \in {"blocking", "nonblocking", "timed"}
        /\ pc' \in Pcs /\ out' \in Outcomes /\ clean' \in BOOLEAN
    <3>1. CASE Block
      <4>1. clean' \in BOOLEAN
        BY <3>1 DEF Block
      <4> QED
        BY <3>1, <4>1 DEF Block, Pcs
    <3>2. CASE Finish(events, "blocking")
      BY <3>2, FinishType
    <3> QED
      BY <1>11, <3>1, <3>2 DEF PollEnds
  <2> QED
    BY <1>11, <2>1, <2>2, <2>3 DEF PollEnds
<1>12. CASE BlockRead
  <2> DEFINE buf == IF Next1.kind = "event" THEN Append(events, Next1.id) ELSE events
  <2>1. inbox' \in Seq(Lines) /\ UNCHANGED <<torn, outbox, peer>>
    BY <1>12, <1>d DEF BlockRead
  <2>2. torn' \in BOOLEAN
    BY <2>1
  <2>3. buf \in Seq(Nat) /\ Finish(buf, "blocking")
    BY <1>12, <1>c DEF BlockRead
  <2>4. /\ events' \in Seq(Nat) /\ cache' \in Seq(Nat) /\ delivered' \in Seq(Nat)
        /\ mode' \in {"blocking", "nonblocking", "timed"}
        /\ pc' \in Pcs /\ out' \in Outcomes /\ clean' \in BOOLEAN
    BY <2>3, FinishType
  <2> QED
    BY <1>12, <2>1, <2>2, <2>4 DEF BlockRead
<1>13. CASE BlockFails
  <2>1. inbox' \in Seq(Lines) /\ UNCHANGED <<torn, outbox, peer>>
    BY <1>13, <1>d, <1>e DEF BlockFails
  <2>2. torn' \in BOOLEAN
    BY <2>1
  <2>3. pc' \in Pcs /\ out' \in Outcomes /\ clean' \in BOOLEAN
    BY <1>13, <1>a, <1>b DEF BlockFails, Failures
  <2> QED
    BY <1>13, <2>1, <2>2, <2>3 DEF BlockFails
<1>14. ASSUME NEW w \in Waits, GetQmpEvent(w)
       PROVE  TypeOK'
  <2>1. torn' \in BOOLEAN
    BY <1>14 DEF GetQmpEvent
  <2>2. /\ events' \in Seq(Nat) /\ cache' \in Seq(Nat) /\ delivered' \in Seq(Nat)
        /\ mode' \in {"blocking", "nonblocking", "timed"}
        /\ pc' \in Pcs /\ out' \in Outcomes /\ clean' \in BOOLEAN
    <3>1. CASE cache # <<>>
      <4>1. pc' \in Pcs /\ out' \in Outcomes /\ clean' \in BOOLEAN
        BY <1>14, <3>1, <1>a, <1>b DEF GetQmpEvent
      <4>2. Tail(cache) \in Seq(Nat) /\ Append(delivered, Head(cache)) \in Seq(Nat)
        BY <3>1, HeadTailProperties, AppendProperties
      <4> QED
        BY <1>14, <3>1, <4>1, <4>2 DEF GetQmpEvent
    <3>2. CASE Pull
      BY <3>2, PullType
    <3> QED
      BY <1>14, <3>1, <3>2 DEF GetQmpEvent
  <2> QED
    BY <1>14, <2>1, <2>2 DEF GetQmpEvent, Call, Apis
<1>15. ASSUME NEW w \in Waits, GetQmpEvents(w)
       PROVE  TypeOK'
  <2>1. torn' \in BOOLEAN
    BY <1>15 DEF GetQmpEvents
  <2>2. /\ events' \in Seq(Nat) /\ cache' \in Seq(Nat) /\ delivered' \in Seq(Nat)
        /\ mode' \in {"blocking", "nonblocking", "timed"}
        /\ pc' \in Pcs /\ out' \in Outcomes /\ clean' \in BOOLEAN
    BY <1>15, PullType DEF GetQmpEvents
  <2> QED
    BY <1>15, <2>1, <2>2 DEF GetQmpEvents, Call, Apis
<1>16. ASSUME NEW ns \in SUBSET Names \ {{}}, NEW w \in Waits, EventsWait(ns, w)
       PROVE  TypeOK'
  <2>1. torn' \in BOOLEAN
    BY <1>16 DEF EventsWait
  <2>2. /\ events' \in Seq(Nat) /\ cache' \in Seq(Nat) /\ delivered' \in Seq(Nat)
        /\ mode' \in {"blocking", "nonblocking", "timed"}
        /\ pc' \in Pcs /\ out' \in Outcomes /\ clean' \in BOOLEAN
    <3>1. CASE Matches(cache, ns) # {}
      <4> DEFINE i == FirstMatch(cache, ns)
      <4>1. pc' \in Pcs /\ out' \in Outcomes /\ clean' \in BOOLEAN
        BY <1>16, <3>1, <1>a, <1>b DEF EventsWait
      <4>2. i \in DOMAIN cache
        BY <3>1, FirstMatchIsMatch DEF Matches
      <4>3. Without(cache, i) \in Seq(Nat)
        BY <4>2, WithoutType
      <4>4. Append(delivered, cache[i]) \in Seq(Nat)
        BY <4>2, ElementOfSeq, LenProperties, AppendProperties
      <4> QED
        BY <1>16, <3>1, <4>1, <4>3, <4>4 DEF EventsWait
    <3>2. CASE Pull
      BY <3>2, PullType
    <3> QED
      BY <1>16, <3>1, <3>2 DEF EventsWait
  <2> QED
    BY <1>16, <2>1, <2>2 DEF EventsWait, Call, Apis
<1>17. ASSUME NEW t \in Timeouts, SetTimeout(t)
       PROVE  TypeOK'
  <2>1. torn' \in BOOLEAN
    BY <1>17 DEF SetTimeout
  <2>2. pc' \in Pcs /\ out' \in Outcomes /\ clean' \in BOOLEAN
    BY <1>17, <1>a, <1>b DEF SetTimeout
  <2> QED
    BY <1>17, <2>1, <2>2 DEF SetTimeout, Call, Apis
<1>18. CASE Close
  <2>1. torn' \in BOOLEAN
    BY <1>18 DEF Close
  <2>2. pc' \in Pcs /\ out' \in Outcomes /\ clean' \in BOOLEAN
    BY <1>18, <1>a, <1>b DEF Close
  <2>3. \A S : <<>> \in Seq(S)
    BY EmptySeq
  <2> QED
    BY <1>18, <2>1, <2>2, <2>3 DEF Close, Call, Apis
<1>19. CASE PeerGreet
  <2>1. torn' \in BOOLEAN /\ clean' \in BOOLEAN
    BY <1>19 DEF PeerGreet, Write, call
  <2>2. inbox' \in Seq(Lines)
    BY <1>19, AppendProperties DEF PeerGreet, Write, Lines, Kinds
  <2> QED
    BY <1>19, <2>1, <2>2 DEF PeerGreet, call
<1>20. ASSUME NEW a \in Answers, PeerReply(a)
       PROVE  TypeOK'
  <2>1. torn' \in BOOLEAN /\ clean' \in BOOLEAN
    BY <1>20 DEF PeerReply, Write, call
  <2>2. Head(outbox) \in Nat /\ outbox' \in Seq(Nat)
    BY <1>20, HeadTailProperties DEF PeerReply
  <2>3. inbox' \in Seq(Lines)
    BY <1>20, <2>2, AppendProperties DEF PeerReply, Write, Lines, Kinds
  <2> QED
    BY <1>20, <2>1, <2>2, <2>3 DEF PeerReply, call
<1>21. ASSUME NEW n \in Names, PeerEmit(n)
       PROVE  TypeOK'
  <2>1. torn' \in BOOLEAN /\ clean' \in BOOLEAN
    BY <1>21 DEF PeerEmit, Write, call
  <2>2. emitted' \in Seq(Names) /\ Len(emitted') \in Nat
    BY <1>21, AppendProperties, LenProperties DEF PeerEmit
  <2>3. inbox' \in Seq(Lines)
    BY <1>21, <2>2, AppendProperties DEF PeerEmit, Write, Lines, Kinds
  <2> QED
    BY <1>21, <2>1, <2>2, <2>3 DEF PeerEmit, call
<1>22. CASE PeerRest
  <2>1. torn' \in BOOLEAN /\ clean' \in BOOLEAN
    BY <1>22 DEF PeerRest, call
  <2> QED
    BY <1>22, <2>1 DEF PeerRest, call
<1>23. CASE PeerExit
  <2> DEFINE whole == SubSeq(inbox, 1, Len(inbox) - 1)
  <2>1. torn' \in BOOLEAN /\ clean' \in BOOLEAN
    BY <1>23 DEF PeerExit, call
  <2>2. whole \in Seq(Lines)
    BY LenProperties, ElementOfSeq, SubSeqProperties
  <2>3. Append(whole, Junk) \in Seq(Lines)
    BY <2>2, AppendProperties DEF Junk, Lines, Kinds
  <2>4. inbox' \in Seq(Lines)
    BY <1>23, <2>2, <2>3 DEF PeerExit
  <2>5. outbox' \in Seq(Nat)
    BY <1>23, EmptySeq DEF PeerExit
  <2> QED
    BY <1>23, <2>1, <2>4, <2>5 DEF PeerExit, call
<1>24. CASE UNCHANGED vars
  <2>1. torn' \in BOOLEAN /\ clean' \in BOOLEAN
    BY <1>24 DEF vars, call
  <2> QED
    BY <1>24, <2>1 DEF vars, call
<1> QED
  BY <1>1, <1>2, <1>3, <1>4, <1>5, <1>6, <1>7, <1>8, <1>9, <1>10, <1>11, <1>12, <1>13,
     <1>14, <1>15, <1>16, <1>17, <1>18, <1>19, <1>20, <1>21, <1>22, <1>23, <1>24
     DEF Next, ClientStep, CallerStep, PeerStep

\* Every variable of the client keeps its type (every method of qmp.py, and the event
\* calls of machine.py).
THEOREM MonitorTypes == Spec => []TypeOK
<1>1. Init => TypeOK
  BY InitTypeOK
<1>2. TypeOK /\ [Next]_vars => TypeOK'
  BY NextTypeOK
<1> QED
  BY <1>1, <1>2, PTL DEF Spec

-----------------------------------------------------------------------------
(* Lines on the socket *)

\* What is on the socket was there before, in the same order, but for junk.
Shrunk ==
  /\ inbox' \in Seq(Lines)
  /\ \E d \in Nat : \A i \in DOMAIN inbox' :
       inbox'[i] = Junk \/ (i + d \in DOMAIN inbox /\ inbox'[i] = inbox[i + d])

\* No line but junk appears on a socket that shrinks, and order is kept.
LEMMA ShrunkKeeps ==
  ASSUME inbox \in Seq(Lines), Shrunk, NEW kinds, "junk" \notin kinds
  PROVE  /\ OnSocket(kinds)' \subseteq OnSocket(kinds)
         /\ IncreasingOnSocket(kinds) => IncreasingOnSocket(kinds)'
<1>1. PICK d \in Nat : \A i \in DOMAIN inbox' :
        inbox'[i] = Junk \/ (i + d \in DOMAIN inbox /\ inbox'[i] = inbox[i + d])
  BY DEF Shrunk
<1>2. \A i \in Positions(kinds)' : i + d \in Positions(kinds) /\ inbox'[i] = inbox[i + d]
  BY <1>1 DEF Positions, Junk
<1>3. \A i \in Positions(kinds)' : i \in Nat
  BY LenProperties DEF Shrunk, Positions
<1>4. OnSocket(kinds)' \subseteq OnSocket(kinds)
  BY <1>2 DEF OnSocket
<1>5. IncreasingOnSocket(kinds) => IncreasingOnSocket(kinds)'
  BY <1>2, <1>3 DEF IncreasingOnSocket
<1> QED
  BY <1>4, <1>5

\* Nothing happened to the socket.
LEMMA SameShrinks ==
  ASSUME inbox \in Seq(Lines), inbox' = inbox
  PROVE  Shrunk
<1>1. DOMAIN inbox = 1 .. Len(inbox)
  BY LenProperties
<1>2. 0 \in Nat /\ \A i \in DOMAIN inbox' : i + 0 \in DOMAIN inbox /\ inbox'[i] = inbox[i + 0]
  BY <1>1
<1> QED
  BY <1>2 DEF Shrunk

\* The socket was closed, or emptied.
LEMMA EmptyShrinks ==
  ASSUME inbox' = <<>>
  PROVE  Shrunk
<1>1. inbox' \in Seq(Lines) /\ DOMAIN inbox' = {}
  BY EmptySeq
<1> QED
  BY <1>1 DEF Shrunk

\* readline() took the first line.
LEMMA ConsumeShrinks ==
  ASSUME inbox \in Seq(Lines), HasLine, inbox' = Tail(inbox)
  PROVE  Shrunk
<1>1. inbox # <<>> /\ inbox' \in Seq(Lines)
  BY LineType
<1>2. \A i \in DOMAIN inbox' : i + 1 \in DOMAIN inbox /\ inbox'[i] = inbox[i + 1]
  BY <1>1, HeadTailProperties, LenProperties
<1> QED
  BY <1>1, <1>2 DEF Shrunk

\* readline() raised, and lost the beginning of a line.
LEMMA DropPrefixShrinks ==
  ASSUME inbox \in Seq(Lines), DropPrefix
  PROVE  Shrunk
<1>1. CASE inbox = <<>>
  BY <1>1, EmptyShrinks DEF DropPrefix
<1>2. CASE inbox # <<>>
  <2>1. inbox' = <<Junk>> /\ inbox' \in Seq(Lines)
    BY <1>2, DropPrefixType DEF DropPrefix
  <2>2. \A i \in DOMAIN inbox' : inbox'[i] = Junk
    BY <2>1
  <2> QED
    BY <2>1, <2>2 DEF Shrunk
<1> QED
  BY <1>1, <1>2

\* QEMU died in the middle of a line.
LEMMA ExitShrinks ==
  ASSUME inbox \in Seq(Lines), PeerExit
  PROVE  Shrunk
<1> DEFINE whole == SubSeq(inbox, 1, Len(inbox) - 1)
<1>0. Len(inbox) \in Nat /\ DOMAIN inbox = 1 .. Len(inbox)
  BY LenProperties
<1>1. /\ whole \in Seq(Lines)
      /\ \A i \in DOMAIN whole : i \in Nat /\ i \in DOMAIN inbox /\ whole[i] = inbox[i]
  <2>1. \A i \in 1 .. Len(inbox) - 1 : inbox[i] \in Lines
    BY <1>0, ElementOfSeq
  <2>2. whole \in Seq(Lines)
    BY <1>0, <2>1, SubSeqProperties
  <2>3. Len(whole) = IF 1 <= Len(inbox) - 1 THEN Len(inbox) - 1 ELSE 0
    BY <1>0, <2>1, SubSeqProperties
  <2>4. \A i \in 1 .. Len(inbox) - 1 : whole[i] = inbox[1 + i - 1]
    BY <1>0, <2>1, SubSeqProperties
  <2>5. DOMAIN whole = 1 .. Len(whole)
    BY <2>2, LenProperties
  <2> HIDE DEF whole
  <2>6. DOMAIN whole \subseteq 1 .. Len(inbox) - 1
    <3>1. CASE 1 <= Len(inbox) - 1
      BY <2>3, <2>5, <3>1
    <3>2. CASE ~(1 <= Len(inbox) - 1)
      <4>1. Len(whole) = 0
        BY <2>3, <3>2
      <4> QED
        BY <2>5, <4>1
    <3> QED
      BY <3>1, <3>2
  <2>7. \A i \in 1 .. Len(inbox) - 1 : 1 + i - 1 = i /\ i \in Nat /\ i \in DOMAIN inbox
    BY <1>0
  <2> QED
    BY <2>2, <2>4, <2>6, <2>7
<1>2. /\ Append(whole, Junk) \in Seq(Lines)
      /\ \A i \in DOMAIN Append(whole, Junk) :
           Append(whole, Junk)[i] = Junk \/ (i \in DOMAIN whole /\ Append(whole, Junk)[i] = whole[i])
  <2>1. Junk \in Lines
    BY DEF Junk, Lines, Kinds
  <2> HIDE DEF whole
  <2> QED
    BY <1>1, <2>1, AppendProperties, LenProperties
<1>3. CASE inbox' = inbox
  BY <1>3, SameShrinks
<1>4. CASE inbox' = whole
  <2>1. \A i \in DOMAIN inbox' : i + 0 \in DOMAIN inbox /\ inbox'[i] = inbox[i + 0]
    BY <1>1, <1>4
  <2> QED
    BY <1>1, <1>4, <2>1 DEF Shrunk
<1>5. CASE inbox' = Append(whole, Junk)
  <2>1. \A i \in DOMAIN inbox' :
          inbox'[i] = Junk \/ (i + 0 \in DOMAIN inbox /\ inbox'[i] = inbox[i + 0])
    BY <1>1, <1>2, <1>5
  <2> QED
    BY <1>2, <1>5, <2>1 DEF Shrunk
<1> QED
  BY <1>3, <1>4, <1>5 DEF PeerExit

\* The line that readline() takes is the first of its kind.
LEMMA ConsumeIsFirst ==
  ASSUME inbox \in Seq(Lines), HasLine, inbox' = Tail(inbox), NEW kinds,
         Next1.kind \in kinds, IncreasingOnSocket(kinds)
  PROVE  Next1.id \in OnSocket(kinds) /\ Before({Next1.id}, OnSocket(kinds)')
<1>1. inbox # <<>> /\ 1 \in DOMAIN inbox /\ Next1 = inbox[1]
  BY LineType, LenProperties, EmptySeq DEF Next1
<1>2. 1 \in Positions(kinds)
  BY <1>1 DEF Positions
<1>3. \A i \in DOMAIN inbox' : i + 1 \in DOMAIN inbox /\ inbox'[i] = inbox[i + 1] /\ 1 < i + 1
  BY <1>1, HeadTailProperties, LenProperties
<1>4. \A i \in Positions(kinds)' : i + 1 \in Positions(kinds) /\ inbox'[i] = inbox[i + 1] /\ 1 < i + 1
  BY <1>3 DEF Positions
<1>5. \A i \in Positions(kinds)' : Next1.id < inbox'[i].id
  BY <1>1, <1>2, <1>4 DEF IncreasingOnSocket
<1> QED
  BY <1>1, <1>2, <1>5 DEF OnSocket, Before

\* A line that QEMU writes comes last.
LEMMA AppendIsLast ==
  ASSUME inbox \in Seq(Lines), NEW l \in Lines, inbox' = Append(inbox, l), NEW kinds
  PROVE  /\ l.kind \in kinds => OnSocket(kinds)' = OnSocket(kinds) \cup {l.id}
         /\ l.kind \notin kinds => OnSocket(kinds)' = OnSocket(kinds)
         /\ /\ IncreasingOnSocket(kinds)
            /\ l.kind \in kinds => Before(OnSocket(kinds), {l.id})
            => IncreasingOnSocket(kinds)'
<1> DEFINE n == Len(inbox) + 1
<1>1. Len(inbox) \in Nat /\ DOMAIN inbox = 1 .. Len(inbox)
  BY LenProperties
<1>2. /\ inbox' \in Seq(Lines) /\ Len(inbox') = n
      /\ inbox'[n] = l /\ \A i \in DOMAIN inbox : inbox'[i] = inbox[i]
  BY <1>1, AppendProperties
<1>3. DOMAIN inbox' = 1 .. n
  BY <1>2, LenProperties
<1>4. DOMAIN inbox' = DOMAIN inbox \cup {n} /\ \A i \in DOMAIN inbox : i < n
  BY <1>1, <1>3
<1>5. CASE l.kind \in kinds
  <2>1. Positions(kinds)' = Positions(kinds) \cup {n}
    BY <1>2, <1>4, <1>5 DEF Positions
  <2>2. OnSocket(kinds)' = OnSocket(kinds) \cup {l.id}
    BY <1>2, <2>1 DEF OnSocket, Positions
  <2>3. ASSUME IncreasingOnSocket(kinds), Before(OnSocket(kinds), {l.id})
        PROVE  IncreasingOnSocket(kinds)'
    <3> SUFFICES ASSUME NEW i \in Positions(kinds)', NEW j \in Positions(kinds)', i < j
                 PROVE  inbox'[i].id < inbox'[j].id
      BY DEF IncreasingOnSocket
    <3>1. i \in Positions(kinds) /\ inbox'[i] = inbox[i]
      BY <1>1, <1>2, <1>4, <2>1 DEF Positions
    <3>2. CASE j = n
      BY <1>2, <2>3, <3>1, <3>2 DEF Before, OnSocket
    <3>3. CASE j # n
      BY <1>2, <2>1, <2>3, <3>1, <3>3 DEF Positions, IncreasingOnSocket
    <3> QED
      BY <3>2, <3>3
  <2> QED
    BY <1>5, <2>2, <2>3
<1>6. CASE l.kind \notin kinds
  <2>1. Positions(kinds)' = Positions(kinds) /\ \A i \in Positions(kinds) : inbox'[i] = inbox[i]
    BY <1>2, <1>4, <1>6 DEF Positions
  <2> QED
    BY <1>6, <2>1 DEF OnSocket, IncreasingOnSocket
<1> QED
  BY <1>5, <1>6

-----------------------------------------------------------------------------
(* Answers *)

\* A sequence that grows at its end: the commands sent, the events kept.
LEMMA AppendElements ==
  ASSUME NEW seq \in Seq(Nat), NEW e \in Nat
  PROVE  /\ Elements(Append(seq, e)) = Elements(seq) \cup {e}
         /\ Increasing(seq) /\ Before(Elements(seq), {e}) => Increasing(Append(seq, e))
<1> DEFINE n == Len(seq) + 1
           app == Append(seq, e)
<1>1. Len(seq) \in Nat /\ DOMAIN seq = 1 .. Len(seq)
  BY LenProperties
<1>2. app \in Seq(Nat) /\ Len(app) = n /\ app[n] = e /\ \A i \in DOMAIN seq : app[i] = seq[i]
  BY <1>1, AppendProperties
<1>3. DOMAIN app = DOMAIN seq \cup {n} /\ \A i \in DOMAIN seq : i < n
  <2>1. DOMAIN app = 1 .. n
    BY <1>2, LenProperties
  <2> QED
    BY <1>1, <2>1
<1> HIDE DEF app
<1>4. Elements(app) = Elements(seq) \cup {e}
  BY <1>2, <1>3 DEF Elements
<1>5. ASSUME Increasing(seq), Before(Elements(seq), {e})
      PROVE  Increasing(app)
  <2>1. ASSUME NEW i \in DOMAIN app, NEW j \in DOMAIN app, i < j
        PROVE  app[i] < app[j]
    <3>1. i \in DOMAIN seq
      BY <1>1, <1>3, <2>1
    <3>2. CASE j = n
      BY <1>2, <1>5, <3>1, <3>2 DEF Before, Elements
    <3>3. CASE j \in DOMAIN seq
      BY <1>2, <1>5, <2>1, <3>1, <3>3 DEF Increasing
    <3> QED
      BY <1>3, <3>2, <3>3
  <2> QED
    BY <2>1 DEF Increasing
<1> QED
  BY <1>4, <1>5 DEF app

\* A sequence that loses its head: the commands not answered yet, the events kept.
LEMMA TailElements ==
  ASSUME NEW seq \in Seq(Nat), seq # <<>>
  PROVE  /\ Head(seq) \in Elements(seq)
         /\ Elements(seq) = Elements(Tail(seq)) \cup {Head(seq)}
         /\ Increasing(seq) => /\ Increasing(Tail(seq))
                               /\ Before({Head(seq)}, Elements(Tail(seq)))
<1> DEFINE rest == Tail(seq)
<1>1. Len(seq) \in Nat \ {0} /\ DOMAIN seq = 1 .. Len(seq) /\ Head(seq) = seq[1]
  BY LenProperties, EmptySeq
<1>2. rest \in Seq(Nat) /\ Len(rest) = Len(seq) - 1 /\ \A i \in 1 .. Len(rest) : rest[i] = seq[i + 1]
  BY HeadTailProperties
<1>3. DOMAIN rest = 1 .. Len(seq) - 1
  BY <1>2, LenProperties
<1> HIDE DEF rest
<1>4. /\ 1 \in DOMAIN seq
      /\ \A i \in DOMAIN rest : i \in Nat /\ i + 1 \in DOMAIN seq /\ 1 < i + 1 /\ rest[i] = seq[i + 1]
      /\ \A i \in DOMAIN seq : i = 1 \/ \E j \in DOMAIN rest : seq[i] = rest[j]
  <2>1. /\ 1 \in DOMAIN seq
        /\ \A i \in DOMAIN rest : i \in Nat /\ i + 1 \in DOMAIN seq /\ 1 < i + 1 /\ rest[i] = seq[i + 1]
    BY <1>1, <1>2, <1>3
  <2>2. ASSUME NEW i \in DOMAIN seq, i # 1
        PROVE  i - 1 \in DOMAIN rest /\ (i - 1) + 1 = i
    BY <1>1, <1>3, <2>2
  <2>3. ASSUME NEW i \in DOMAIN seq, i # 1
        PROVE  \E j \in DOMAIN rest : seq[i] = rest[j]
    <3>1. i - 1 \in DOMAIN rest /\ seq[i] = rest[i - 1]
      BY <2>1, <2>2, <2>3
    <3> QED
      BY <3>1
  <2> QED
    BY <2>1, <2>3
<1>5. Elements(seq) = Elements(rest) \cup {Head(seq)}
  <2>1. Elements(rest) \cup {Head(seq)} \subseteq Elements(seq)
    BY <1>1, <1>4 DEF Elements
  <2>2. Elements(seq) \subseteq Elements(rest) \cup {Head(seq)}
    BY <1>1, <1>4 DEF Elements
  <2> QED
    BY <2>1, <2>2
<1>6. ASSUME Increasing(seq)
      PROVE  Increasing(rest) /\ Before({Head(seq)}, Elements(rest))
  <2>1. Increasing(rest)
    BY <1>4, <1>6 DEF Increasing
  <2>2. \A i \in DOMAIN rest : seq[1] < rest[i]
    BY <1>4, <1>6 DEF Increasing
  <2>3. Before({Head(seq)}, Elements(rest))
    BY <1>1, <2>2 DEF Before, Elements
  <2> QED
    BY <2>1, <2>3
<1> QED
  BY <1>5, <1>6 DEF rest

\* A sequence with nothing in it.
LEMMA EmptyElements ==
  /\ Elements(<<>>) = {} /\ Increasing(<<>>)
  /\ \A seq \in Seq(Nat) : Elements(seq) = {} => seq = <<>>
<1>1. Elements(<<>>) = {} /\ Increasing(<<>>)
  BY DEF Elements, Increasing
<1>2. ASSUME NEW seq \in Seq(Nat), seq # <<>>
      PROVE  Elements(seq) # {}
  BY <1>2, TailElements
<1> QED
  BY <1>1, <1>2

\* Where answers and greetings are: the answers handed out, those on the socket and the
\* commands not answered yet are in the order of the commands (qmp.py:169-176).
OrderInv ==
  /\ AnswersInOrder
  /\ got <= ncmds
  /\ OnSocket(Answers) \cup Elements(outbox) \subseteq 1 .. ncmds
  /\ OnSocket({"greeting"}) \subseteq {0} /\ IncreasingOnSocket({"greeting"})
  /\ peer = "waiting" => OnSocket({"greeting"}) = {}

\* A step that only takes lines from the socket, or none.
LEMMA QuietOrder ==
  ASSUME TypeOK, OrderInv, Shrunk, outbox' \in {outbox, <<>>}, UNCHANGED <<got, ncmds>>,
         peer' = "waiting" => peer = "waiting"
  PROVE  OrderInv'
<1>1. /\ OnSocket(Answers)' \subseteq OnSocket(Answers) /\ IncreasingOnSocket(Answers)'
      /\ OnSocket({"greeting"})' \subseteq OnSocket({"greeting"})
      /\ IncreasingOnSocket({"greeting"})'
  BY ShrunkKeeps DEF OrderInv, AnswersInOrder, TypeOK, Answers
<1>2. Elements(outbox)' \subseteq Elements(outbox) /\ Increasing(outbox')
  BY EmptyElements DEF OrderInv, AnswersInOrder, Elements
<1> QED
  BY <1>1, <1>2 DEF OrderInv, AnswersInOrder, Before

\* A command is sent (qmp.py:169).
LEMMA SendOrder ==
  ASSUME TypeOK, OrderInv, Shrunk, Send, UNCHANGED <<got, peer>>
  PROVE  OrderInv'
<1>1. CASE UNCHANGED <<ncmds, outbox>>
  BY <1>1, QuietOrder
<1>2. CASE ncmds' = ncmds + 1 /\ outbox' = Append(outbox, ncmds')
  <2>1. /\ OnSocket(Answers)' \subseteq OnSocket(Answers) /\ IncreasingOnSocket(Answers)'
        /\ OnSocket({"greeting"})' \subseteq OnSocket({"greeting"})
        /\ IncreasingOnSocket({"greeting"})'
    BY ShrunkKeeps DEF OrderInv, AnswersInOrder, TypeOK, Answers
  <2>2. ncmds \in Nat /\ got \in Nat /\ ncmds' \in Nat
    BY <1>2 DEF TypeOK
  <2>3. /\ \A x \in OnSocket(Answers) \cup Elements(outbox) : x \in 1 .. ncmds
        /\ Before(Elements(outbox), {ncmds'}) /\ Before(OnSocket(Answers), {ncmds'})
        /\ Before({got}, {ncmds'})
    BY <1>2, <2>2 DEF OrderInv, Before
  <2>4. Elements(outbox') = Elements(outbox) \cup {ncmds'} /\ Increasing(outbox')
    BY <1>2, <2>2, <2>3, AppendElements DEF OrderInv, AnswersInOrder, TypeOK
  <2>5. AnswersInOrder'
    BY <2>1, <2>3, <2>4 DEF OrderInv, AnswersInOrder, Before, Elements
  <2>6. OnSocket(Answers)' \cup Elements(outbox') \subseteq 1 .. ncmds'
    BY <1>2, <2>1, <2>2, <2>3, <2>4
  <2>7. got' <= ncmds'
    BY <1>2, <2>2 DEF OrderInv
  <2> QED
    BY <2>1, <2>5, <2>6, <2>7 DEF OrderInv, Elements
<1> QED
  BY <1>1, <1>2 DEF Send

\* A line that is read or written leaves the others in order.
LEMMA NextOrder ==
  ASSUME TypeOK, OrderInv, Next
  PROVE  OrderInv'
<1> USE DEF TypeOK, conn, wire
<1>a. inbox' = inbox => Shrunk
  BY SameShrinks
<1>b. HasLine /\ Consume => Shrunk /\ UNCHANGED <<outbox, peer>>
  BY ConsumeShrinks DEF Consume
<1>c. DropPrefix => Shrunk /\ UNCHANGED <<outbox, peer>>
  BY DropPrefixShrinks DEF DropPrefix
<1>1. CASE GreetingRead
  <2>1. Shrunk
    BY <1>1, ConsumeShrinks DEF GreetingRead
  <2> QED
    BY <1>1, <2>1, SendOrder DEF GreetingRead
<1>2. CASE CmdSend
  BY <1>2, <1>a, SendOrder, QuietOrder DEF CmdSend
<1>3. CASE CmdRead
  <2>1. /\ HasLine /\ inbox' = Tail(inbox) /\ UNCHANGED <<outbox, peer, ncmds>>
        /\ got' = Next1.id /\ Shrunk
    BY <1>3, <1>b DEF CmdRead, Consume
  <2>2. /\ OnSocket(Answers)' \subseteq OnSocket(Answers) /\ IncreasingOnSocket(Answers)'
        /\ OnSocket({"greeting"})' \subseteq OnSocket({"greeting"})
        /\ IncreasingOnSocket({"greeting"})'
    BY <2>1, ShrunkKeeps DEF OrderInv, AnswersInOrder, Answers
  <2>3. CASE Next1.kind \in Answers
    <3>1. Next1.id \in OnSocket(Answers) /\ Before({Next1.id}, OnSocket(Answers)')
      BY <2>1, <2>3, ConsumeIsFirst DEF OrderInv, AnswersInOrder
    <3>2. AnswersInOrder'
      BY <2>1, <2>2, <3>1 DEF OrderInv, AnswersInOrder, Before, Elements
    <3>3. got' <= ncmds'
      BY <2>1, <3>1 DEF OrderInv
    <3> QED
      BY <2>1, <2>2, <3>2, <3>3 DEF OrderInv, Elements
  <2>4. CASE Next1.kind = "greeting"
    <3>1. Next1.id = 0
      <4>1. Next1.id \in OnSocket({"greeting"})
        BY <2>1, <2>4, ConsumeIsFirst DEF OrderInv
      <4> QED
        BY <4>1 DEF OrderInv
    <3>2. \A x \in OnSocket(Answers) \cup Elements(outbox) : 0 < x
      BY DEF OrderInv
    <3>3. AnswersInOrder'
      BY <2>1, <2>2, <3>1, <3>2 DEF OrderInv, AnswersInOrder, Before, Elements
    <3>4. got' <= ncmds'
      BY <2>1, <3>1
    <3> QED
      BY <2>1, <2>2, <3>3, <3>4 DEF OrderInv, Elements
  <2> QED
    BY <1>3, <2>3, <2>4 DEF CmdRead
<1>4. ASSUME NEW a \in Answers, PeerReply(a)
      PROVE  OrderInv'
  <2> DEFINE l == [kind |-> a, id |-> Head(outbox)]
  <2>1. /\ outbox # <<>> /\ outbox' = Tail(outbox) /\ inbox' = Append(inbox, l)
        /\ UNCHANGED <<got, ncmds>> /\ (peer' = "waiting" => peer = "waiting")
    BY <1>4 DEF PeerReply, Write
  <2>2. /\ Head(outbox) \in Elements(outbox) /\ Elements(outbox') \subseteq Elements(outbox)
        /\ Increasing(outbox') /\ Before({Head(outbox)}, Elements(outbox'))
    BY <2>1, TailElements DEF OrderInv, AnswersInOrder
  <2>3. l \in Lines /\ l.kind = a /\ l.id = Head(outbox)
    BY <2>1, HeadTailProperties DEF Lines, Kinds, Answers
  <2>4. Before(OnSocket(Answers), {Head(outbox)})
    BY <2>2 DEF OrderInv, AnswersInOrder, Before
  <2> HIDE DEF l
  <2>5. /\ OnSocket(Answers)' = OnSocket(Answers) \cup {Head(outbox)}
        /\ IncreasingOnSocket(Answers)'
    BY <2>1, <2>3, <2>4, AppendIsLast DEF OrderInv, AnswersInOrder
  <2>6. /\ OnSocket({"greeting"})' = OnSocket({"greeting"})
        /\ IncreasingOnSocket({"greeting"})'
    BY <2>1, <2>3, AppendIsLast DEF OrderInv, Answers
  <2>7. AnswersInOrder'
    BY <2>1, <2>2, <2>5 DEF OrderInv, AnswersInOrder, Before, Elements
  <2> QED
    BY <2>1, <2>2, <2>5, <2>6, <2>7 DEF OrderInv, Elements
<1>5. CASE PeerGreet
  <2> DEFINE l == [kind |-> "greeting", id |-> 0]
  <2>1. /\ inbox' = Append(inbox, l) /\ l \in Lines /\ l.kind = "greeting" /\ l.id = 0
        /\ peer = "waiting" /\ peer' = "greeted" /\ UNCHANGED <<outbox, got, ncmds>>
    BY <1>5 DEF PeerGreet, Write, Lines, Kinds
  <2> HIDE DEF l
  <2>2. OnSocket(Answers)' = OnSocket(Answers) /\ IncreasingOnSocket(Answers)'
    BY <2>1, AppendIsLast DEF OrderInv, AnswersInOrder, Answers
  <2>3. OnSocket({"greeting"})' = {0} /\ IncreasingOnSocket({"greeting"})'
    BY <2>1, AppendIsLast DEF OrderInv, Before
  <2> QED
    BY <2>1, <2>2, <2>3 DEF OrderInv, AnswersInOrder, Before, Elements, Increasing
<1>6. ASSUME NEW n \in Names, PeerEmit(n)
      PROVE  OrderInv'
  <2> DEFINE l == [kind |-> "event", id |-> Len(emitted')]
  <2>1. inbox' = Append(inbox, l) /\ l.kind = "event" /\ UNCHANGED <<outbox, peer, got, ncmds>>
    BY <1>6 DEF PeerEmit, Write
  <2>2. l \in Lines
    BY <1>6, AppendProperties, LenProperties DEF PeerEmit, Lines, Kinds
  <2> HIDE DEF l
  <2>3. OnSocket(Answers)' = OnSocket(Answers) /\ IncreasingOnSocket(Answers)'
    BY <2>1, <2>2, AppendIsLast DEF OrderInv, AnswersInOrder, Answers
  <2>4. OnSocket({"greeting"})' = OnSocket({"greeting"}) /\ IncreasingOnSocket({"greeting"})'
    BY <2>1, <2>2, AppendIsLast DEF OrderInv
  <2> QED
    BY <2>1, <2>3, <2>4 DEF OrderInv, AnswersInOrder, Before, Elements, Increasing
<1>7. CASE \E negotiate \in BOOLEAN : Open(negotiate)
  BY <1>7, <1>a, QuietOrder DEF Open
<1>8. CASE GreetingFails
  BY <1>8, <1>a, <1>b, QuietOrder DEF GreetingFails
<1>9. CASE CmdEOF \/ PollEnds \/ BlockFails
  BY <1>9, <1>a, <1>b, <1>c, QuietOrder DEF CmdEOF, PollEnds, BlockFails
<1>10. CASE ReadRaises \/ BufferEvent \/ ReadJunk \/ BlockRead
  BY <1>10, <1>b, <1>c, QuietOrder DEF ReadRaises, BufferEvent, ReadJunk, BlockRead
<1>11. CASE OpenFails \/ PeerRest \/ \E t \in Timeouts : SetTimeout(t)
  BY <1>11, <1>a, QuietOrder DEF OpenFails, PeerRest, SetTimeout
<1>12. CASE \/ \E w \in Waits : GetQmpEvent(w) \/ GetQmpEvents(w)
            \/ \E ns \in SUBSET Names \ {{}} : \E w \in Waits : EventsWait(ns, w)
  BY <1>12, <1>a, QuietOrder DEF GetQmpEvent, GetQmpEvents, EventsWait
<1>13. CASE Close
  BY <1>13, EmptyShrinks, QuietOrder DEF Close
<1>14. CASE PeerExit
  BY <1>14, ExitShrinks, QuietOrder DEF PeerExit
<1> QED
  BY <1>1, <1>2, <1>3, <1>4, <1>5, <1>6, <1>7, <1>8, <1>9, <1>10, <1>11, <1>12, <1>13, <1>14
     DEF Next, ClientStep, CallerStep, PeerStep


\* A fresh connection is in order (qmp.py:42-68).
LEMMA InitOrder == Init => OrderInv
<1>1. Init => Positions(Answers) = {} /\ Positions({"greeting"}) = {}
  BY DEF Init, Positions
<1>2. Init => outbox = <<>> /\ got = 0 /\ ncmds = 0
  BY DEF Init
<1> QED
  BY <1>1, <1>2, EmptyElements
     DEF OrderInv, AnswersInOrder, OnSocket, IncreasingOnSocket, Before

\* As long as nothing is read or sent, the order stays.
LEMMA StutterOrder ==
  ASSUME OrderInv, UNCHANGED vars
  PROVE  OrderInv'
BY DEF vars, conn, wire, OrderInv, AnswersInOrder, OnSocket, Positions,
       IncreasingOnSocket, Increasing, Before, Elements

-----------------------------------------------------------------------------
(* Whose answer it is *)

\* No float is passed as a timeout anywhere, and no line arrives in two pieces.
NoTimeouts == "timed" \notin Waits /\ "timed" \notin Timeouts /\ ~TornLines

\* Then every read but those of the poll blocks, and every line is whole.
ModeInv ==
  /\ torn = FALSE /\ OnSocket({"junk"}) = {}
  /\ mode = "blocking" \/ (mode = "nonblocking" /\ pc = "poll")

\* The command in progress, and no other, has its answer before it; a greeting is
\* on its way only while connect() or accept() waits for it.
InStep ==
  /\ pc # "cmd" => outbox = <<>> /\ OnSocket(Answers) = {}
  /\ pc = "cmd" => OnSocket(Answers) \cup Elements(outbox) \subseteq {ncmds}
  /\ pc # "greeting" => OnSocket({"greeting"}) = {} /\ (sock = "open" => peer # "waiting")
  /\ OwnReply

\* What relates the answers to the commands: QEMU that is gone answers nothing, and
\* as long as no call failed, or none can, client and QEMU are in step.
OwnInv ==
  /\ peer = "down" => outbox = <<>>
  /\ NoTimeouts => ModeInv
  /\ clean \/ NoTimeouts => InStep

\* Whatever readline() returns or loses, no junk appears among whole lines.
LEMMA NoJunk ==
  ASSUME TypeOK, torn = FALSE, OnSocket({"junk"}) = {},
         \/ inbox' \in {inbox, <<>>}
         \/ HasLine /\ inbox' = Tail(inbox)
         \/ ~HasLine /\ DropPrefix
         \/ \E l \in Lines : l.kind # "junk" /\ inbox' = Append(inbox, l)
  PROVE  OnSocket({"junk"})' = {}
<1>1. CASE inbox' = inbox
  BY <1>1 DEF OnSocket, Positions
<1>2. CASE inbox' = <<>>
  BY <1>2 DEF OnSocket, Positions
<1>3. CASE HasLine /\ inbox' = Tail(inbox)
  <2>1. \A i \in DOMAIN inbox' : i + 1 \in DOMAIN inbox /\ inbox'[i] = inbox[i + 1]
    BY <1>3, LineType, HeadTailProperties, LenProperties DEF TypeOK
  <2>2. \A i \in Positions({"junk"})' : i + 1 \in Positions({"junk"})
    BY <2>1 DEF Positions
  <2>3. Positions({"junk"}) = {}
    BY DEF OnSocket
  <2> QED
    BY <2>2, <2>3 DEF OnSocket
<1>4. CASE ~HasLine /\ DropPrefix
  BY <1>2, <1>4 DEF HasLine, DropPrefix
<1>5. CASE \E l \in Lines : l.kind # "junk" /\ inbox' = Append(inbox, l)
  <2>1. PICK l \in Lines : l.kind # "junk" /\ inbox' = Append(inbox, l)
    BY <1>5
  <2>2. l.kind \notin {"junk"}
    BY <2>1
  <2> QED
    BY <2>1, <2>2, AppendIsLast DEF TypeOK
<1> QED
  BY <1>1, <1>2, <1>3, <1>4, <1>5

\* Whole lines can be read, and none of them is junk (qmp.py:82-86).
LEMMA WholeLines ==
  ASSUME TypeOK, ModeInv
  PROVE  /\ ~HasLine => inbox = <<>>
         /\ HasLine => Next1.kind # "junk"
         /\ RunsDry => pc = "poll"
<1>1. ~HasLine => inbox = <<>>
  BY DEF ModeInv, HasLine
<1>2. ASSUME HasLine, Next1.kind = "junk" PROVE FALSE
  <2>1. 1 \in DOMAIN inbox /\ Next1 = inbox[1]
    BY <1>2, LineType, LenProperties, EmptySeq DEF Next1, TypeOK
  <2> QED
    BY <1>2, <2>1 DEF ModeInv, OnSocket, Positions
<1> QED
  BY <1>1, <1>2 DEF ModeInv, RunsDry

\* Without timeouts the socket is blocking again when __get_events() returns
\* (qmp.py:106-128).
LEMMA NextMode ==
  ASSUME NoTimeouts, TypeOK, ModeInv, Next
  PROVE  ModeInv'
<1> USE DEF conn, wire
<1>a. /\ TornLines = FALSE /\ wait # "timed"
      /\ \A t \in Timeouts : t = "blocking"
  BY MonitorAssumption DEF NoTimeouts, TypeOK
<1>b. \A buf : Finish(buf, "blocking") =>
        mode' = "blocking" \/ (mode' = "nonblocking" /\ pc' = "poll")
  BY DEF Finish, FinishEvent, FinishEvents, FinishWait, FinishWaitOther, Poll
<1>c. Consume \/ DropPrefix => torn' = torn
  BY DEF Consume, DropPrefix
<1>d. /\ HasLine /\ Consume => OnSocket({"junk"})' = {}
      /\ ~HasLine /\ DropPrefix => OnSocket({"junk"})' = {}
      /\ inbox' = inbox => OnSocket({"junk"})' = {}
  BY NoJunk DEF Consume, ModeInv
<1>e. ASSUME NEW l \in Lines, Write(l), l.kind # "junk"
      PROVE  torn' = FALSE /\ OnSocket({"junk"})' = {}
  <2>1. torn' = FALSE
    BY <1>a, <1>e DEF Write
  <2> QED
    BY <1>e, <2>1, NoJunk DEF Write, ModeInv
<1>1. CASE PollEnds
  <2>1. torn' = FALSE /\ OnSocket({"junk"})' = {}
    BY <1>1, <1>c, <1>d DEF PollEnds, RunsDry, ModeInv
  <2>2. mode' = "blocking" \/ (mode' = "nonblocking" /\ pc' = "poll")
    BY <1>1, <1>a, <1>b DEF PollEnds, Block
  <2> QED
    BY <2>1, <2>2 DEF ModeInv
<1>2. CASE BlockRead
  <2>1. torn' = FALSE /\ OnSocket({"junk"})' = {}
    BY <1>2, <1>c, <1>d DEF BlockRead, ModeInv
  <2>2. mode' = "blocking" \/ (mode' = "nonblocking" /\ pc' = "poll")
    BY <1>2, <1>b DEF BlockRead
  <2> QED
    BY <2>1, <2>2 DEF ModeInv
<1>3. CASE BlockFails
  BY <1>3, <1>c, <1>d, WholeLines DEF BlockFails, ModeInv
<1>4. CASE ReadRaises \/ ReadJunk
  BY <1>4, WholeLines DEF ReadRaises, ReadJunk
<1>5. CASE BufferEvent
  BY <1>5, <1>c, <1>d DEF BufferEvent, ModeInv, call
<1>6. CASE GreetingRead
  <2>1. HasLine /\ inbox' = Tail(inbox) /\ UNCHANGED <<torn, mode>> /\ pc = "greeting"
    BY <1>6 DEF GreetingRead
  <2>2. OnSocket({"junk"})' = {}
    BY <2>1, NoJunk DEF ModeInv
  <2> QED
    BY <2>1, <2>2 DEF ModeInv
<1>7. CASE GreetingFails \/ CmdRead \/ CmdEOF
  BY <1>7, <1>c, <1>d DEF GreetingFails, CmdRead, CmdEOF, ModeInv
<1>8. CASE (\E negotiate \in BOOLEAN : Open(negotiate)) \/ OpenFails \/ CmdSend
  BY <1>8, <1>d DEF Open, OpenFails, CmdSend, Call, ModeInv
<1>9. CASE \/ \E w \in Waits : GetQmpEvent(w) \/ GetQmpEvents(w)
           \/ \E ns \in SUBSET Names \ {{}} : \E w \in Waits : EventsWait(ns, w)
  <2>1. pc = "idle" /\ UNCHANGED <<inbox, torn>>
    BY <1>9 DEF GetQmpEvent, GetQmpEvents, EventsWait, Call
  <2>2. mode' = mode \/ (mode' = "nonblocking" /\ pc' = "poll")
    BY <1>9 DEF GetQmpEvent, GetQmpEvents, EventsWait, Pull, Poll
  <2> QED
    BY <1>d, <2>1, <2>2 DEF ModeInv
<1>10. CASE \E t \in Timeouts : SetTimeout(t)
  BY <1>10, <1>a, <1>d DEF SetTimeout, ModeInv
<1>11. CASE Close
  BY <1>11, NoJunk DEF Close, Call, ModeInv
<1>12. CASE PeerGreet
  <2>1. [kind |-> "greeting", id |-> 0] \in Lines
    BY DEF Lines, Kinds
  <2> QED
    BY <1>12, <1>e, <2>1 DEF PeerGreet, ModeInv, call
<1>13. ASSUME NEW a \in Answers, PeerReply(a)
       PROVE  ModeInv'
  <2> DEFINE l == [kind |-> a, id |-> Head(outbox)]
  <2>1. l \in Lines /\ l.kind # "junk"
    BY <1>13, HeadTailProperties DEF PeerReply, Lines, Kinds, Answers, TypeOK
  <2>2. Write(l) /\ UNCHANGED <<mode, pc>>
    BY <1>13 DEF PeerReply, call
  <2> HIDE DEF l
  <2> QED
    BY <1>e, <2>1, <2>2 DEF ModeInv
<1>14. ASSUME NEW n \in Names, PeerEmit(n)
       PROVE  ModeInv'
  <2> DEFINE l == [kind |-> "event", id |-> Len(emitted')]
  <2>1. l \in Lines /\ l.kind # "junk"
    BY <1>14, AppendProperties, LenProperties DEF PeerEmit, Lines, Kinds, TypeOK
  <2>2. Write(l) /\ UNCHANGED <<mode, pc>>
    BY <1>14 DEF PeerEmit, call
  <2> HIDE DEF l
  <2> QED
    BY <1>e, <2>1, <2>2 DEF ModeInv
<1>15. CASE PeerRest
  BY <1>15 DEF PeerRest, ModeInv
<1>16. CASE PeerExit
  BY <1>16, <1>d DEF PeerExit, ModeInv, call
<1> QED
  BY <1>1, <1>2, <1>3, <1>4, <1>5, <1>6, <1>7, <1>8, <1>9, <1>10, <1>11, <1>12, <1>13,
     <1>14, <1>15, <1>16 DEF Next, ClientStep, CallerStep, PeerStep

\* A step that takes lines from the socket, or none, and answers no command.
LEMMA QuietInStep ==
  ASSUME TypeOK, InStep, Shrunk, outbox' \in {outbox, <<>>}, ncmds' = ncmds,
         \/ pc' = pc
         \/ pc \notin {"greeting", "cmd"} /\ pc' \notin {"greeting", "cmd"},
         UNCHANGED <<sock, peer>> \/ peer' = "down",
         UNCHANGED <<api, out, got>> \/ api' # "cmd" \/ out' \notin Answers
  PROVE  InStep'
<1>1. /\ OnSocket(Answers)' \subseteq OnSocket(Answers)
      /\ OnSocket({"greeting"})' \subseteq OnSocket({"greeting"})
  BY ShrunkKeeps DEF TypeOK, Answers
<1>2. Elements(outbox)' \subseteq Elements(outbox) /\ (outbox = <<>> => outbox' = <<>>)
  BY EmptyElements DEF Elements
<1>3. OwnReply'
  BY DEF OwnReply, InStep
<1> QED
  BY <1>1, <1>2, <1>3 DEF InStep

\* The connection ended: what was not read is gone, and no call waits for it.
LEMMA EndInStep ==
  ASSUME inbox' = <<>>, outbox' = <<>>, peer' = "down", pc' # "cmd",
         api' # "cmd" \/ out' \notin Answers
  PROVE  InStep'
<1>1. OnSocket(Answers)' = {} /\ OnSocket({"greeting"})' = {}
  BY DEF OnSocket, Positions
<1> QED
  BY <1>1 DEF InStep, OwnReply

\* A command is sent only when none is waiting for its answer (qmp.py:169).
LEMMA SendInStep ==
  ASSUME TypeOK, outbox = <<>>, OnSocket(Answers)' = {}, OnSocket({"greeting"})' = {},
         sock' = "open" => peer # "waiting", peer' = peer, Send
  PROVE  InStep'
<1>1. CASE ncmds' = ncmds + 1 /\ outbox' = Append(outbox, ncmds') /\ pc' = "cmd" /\ out' = "pending"
  <2>1. Elements(outbox') = {ncmds'}
    <3>1. ncmds' \in Nat
      BY <1>1 DEF TypeOK
    <3>2. Elements(Append(outbox, ncmds')) = Elements(outbox) \cup {ncmds'}
      BY <3>1, AppendElements DEF TypeOK
    <3> QED
      BY <1>1, <3>2, EmptyElements
  <2>2. OwnReply'
    BY <1>1 DEF OwnReply, Answers
  <2> QED
    BY <1>1, <2>1, <2>2 DEF InStep, Elements
<1>2. CASE UNCHANGED <<ncmds, outbox>> /\ \E o \in {"closed", "socket_error"} : Return(Outcome(api', o))
  <2>1. pc' = "idle" /\ out' \notin Answers
    BY <1>2 DEF Return, Outcome, Answers
  <2> QED
    BY <1>2, <2>1 DEF InStep, OwnReply
<1> QED
  BY <1>1, <1>2 DEF Send

\* QEMU that is gone has forgotten the commands it did not answer.
LEMMA NextDown ==
  ASSUME peer = "down" => outbox = <<>>, Next
  PROVE  peer' = "down" => outbox' = <<>>
<1> USE DEF conn, wire
<1>1. Consume \/ DropPrefix => UNCHANGED <<outbox, peer>>
  BY DEF Consume, DropPrefix
<1>2. Send => outbox' = outbox \/ peer # "down"
  BY DEF Send
<1>3. CASE ClientStep
  BY <1>1, <1>2, <1>3 DEF ClientStep, GreetingRead, GreetingFails, CmdRead, CmdEOF, ReadRaises,
     BufferEvent, ReadJunk, PollEnds, BlockRead, BlockFails
<1>4. CASE CallerStep
  BY <1>2, <1>4 DEF CallerStep, Open, OpenFails, CmdSend, GetQmpEvent, GetQmpEvents, EventsWait,
     SetTimeout, Close
<1>5. CASE PeerStep
  BY <1>5 DEF PeerStep, PeerGreet, PeerReply, PeerEmit, PeerRest, PeerExit
<1> QED
  BY <1>3, <1>4, <1>5 DEF Next

\* A call that failed stays in the history of the connection.
LEMMA NextClean ==
  ASSUME TypeOK, Next, clean'
  PROVE  clean
<1> USE DEF conn, wire, call, buffers
<1>1. Pull \/ Send \/ Poll \/ Block \/ (\E o : Return(o)) => clean
  BY DEF Pull, Send, Poll, Block, Return
<1>2. (\E buf, m : Finish(buf, m)) => clean
  BY <1>1 DEF Finish, FinishEvent, FinishEvents, FinishWait, FinishWaitOther
<1>3. CASE ClientStep
  BY <1>1, <1>2, <1>3 DEF ClientStep, GreetingRead, GreetingFails, CmdRead, CmdEOF, ReadRaises,
     BufferEvent, ReadJunk, PollEnds, BlockRead, BlockFails
<1>4. CASE CallerStep
  BY <1>1, <1>4 DEF CallerStep, Open, OpenFails, CmdSend, GetQmpEvent, GetQmpEvents, EventsWait,
     SetTimeout, Close
<1>5. CASE PeerStep
  BY <1>5 DEF PeerStep, PeerGreet, PeerReply, PeerEmit, PeerRest, PeerExit
<1> QED
  BY <1>3, <1>4, <1>5 DEF Next

\* The answer that cmd() reads is the answer to the command it sent (qmp.py:169-176).
LEMMA ReadInStep ==
  ASSUME TypeOK, OrderInv, InStep, CmdRead
  PROVE  InStep'
<1>1. /\ pc = "cmd" /\ HasLine /\ inbox' = Tail(inbox) /\ UNCHANGED <<sock, peer, outbox, ncmds>>
      /\ pc' = "idle" /\ got' = Next1.id /\ Shrunk /\ inbox \in Seq(Lines)
      /\ Next1.kind \in Answers \cup {"greeting"}
  BY ConsumeShrinks DEF CmdRead, Consume, Return, conn, TypeOK
<1>2. /\ OnSocket(Answers)' \subseteq OnSocket(Answers)
      /\ OnSocket({"greeting"})' = {} /\ (sock' = "open" => peer' # "waiting")
  BY <1>1, ShrunkKeeps DEF InStep, Answers
<1>3. Next1.kind # "greeting"
  <2>1. Next1.kind = "greeting" => Next1.id \in OnSocket({"greeting"})
    BY <1>1, ConsumeIsFirst DEF OrderInv
  <2> QED
    BY <1>1, <2>1 DEF InStep
<1>4. Next1.id \in OnSocket(Answers) /\ Before({Next1.id}, OnSocket(Answers)')
  BY <1>1, <1>3, ConsumeIsFirst DEF OrderInv, AnswersInOrder
<1>5. ncmds \in Nat /\ Next1.id = ncmds /\ Before(OnSocket(Answers), Elements(outbox))
  BY <1>1, <1>4 DEF InStep, OrderInv, AnswersInOrder, TypeOK
<1>6. OnSocket(Answers)' = {}
  BY <1>1, <1>2, <1>4, <1>5 DEF Before, InStep
<1>7. outbox' = <<>>
  <2>1. Elements(outbox) = {}
    BY <1>1, <1>4, <1>5 DEF Before, InStep
  <2> QED
    BY <1>1, <2>1, EmptyElements DEF TypeOK
<1> QED
  BY <1>1, <1>2, <1>5, <1>6, <1>7 DEF InStep, OwnReply

\* Greeting, capabilities and the first command of a connection (qmp.py:70-78).
LEMMA GreetingInStep ==
  ASSUME TypeOK, OrderInv, InStep, GreetingRead
  PROVE  InStep'
<1>1. /\ pc = "greeting" /\ HasLine /\ inbox' = Tail(inbox) /\ inbox \in Seq(Lines)
      /\ Next1.kind \in {"greeting"} /\ UNCHANGED <<sock, peer>> /\ Send
  BY DEF GreetingRead, conn, TypeOK
<1>2. Shrunk
  BY <1>1, ConsumeShrinks
<1>3. OnSocket(Answers)' = {} /\ outbox = <<>>
  BY <1>1, <1>2, ShrunkKeeps DEF InStep, Answers
<1>4. Next1.id \in OnSocket({"greeting"}) /\ Before({Next1.id}, OnSocket({"greeting"})')
  BY <1>1, ConsumeIsFirst DEF OrderInv
<1>5. OnSocket({"greeting"})' = {} /\ peer # "waiting"
  <2>1. OnSocket({"greeting"})' \subseteq {0} /\ Next1.id = 0
    BY <1>1, <1>2, <1>4, ShrunkKeeps DEF OrderInv
  <2> QED
    BY <1>4, <2>1 DEF Before, OrderInv
<1> QED
  BY <1>1, <1>3, <1>5, SendInStep

\* As long as no call failed, or none can, every step leaves client and QEMU in step.
LEMMA NextInStep ==
  ASSUME TypeOK, OrderInv, InStep, peer = "down" => outbox = <<>>, NoTimeouts => ModeInv,
         Next, clean' \/ NoTimeouts
  PROVE  InStep'
<1> USE DEF conn, wire
<1>a. /\ inbox' = inbox => Shrunk
      /\ HasLine /\ Consume => Shrunk /\ UNCHANGED <<outbox, peer>>
      /\ DropPrefix => Shrunk /\ UNCHANGED <<outbox, peer>>
  BY SameShrinks, ConsumeShrinks, DropPrefixShrinks DEF Consume, DropPrefix, TypeOK
<1>b. \A o : Return(o) => pc' = "idle" /\ out' = o /\ (o \in Failures => ~clean')
  BY DEF Return
<1>c. \A buf, m : Finish(buf, m) =>
        pc' \in {"idle", "poll"} /\ out' \notin Answers
  BY DEF Finish, FinishEvent, FinishEvents, FinishWait, FinishWaitOther, Poll, Return, Answers
<1>1. CASE GreetingRead
  BY <1>1, GreetingInStep
<1>2. CASE CmdRead
  BY <1>2, ReadInStep
<1>3. CASE GreetingFails
  <2>1. CASE HasLine /\ Next1.kind \in Answers
    <3>1. inbox # <<>> /\ 1 \in DOMAIN inbox /\ Next1 = inbox[1]
      BY <2>1, LineType, LenProperties, EmptySeq DEF Next1, TypeOK
    <3> QED
      BY <1>3, <2>1, <3>1 DEF GreetingFails, InStep, OnSocket, Positions
  <2>2. CASE AtEOF /\ UNCHANGED wire /\ \E o \in {"connect_error", "socket_error"} : Return(o)
    BY <2>2, <1>b, EndInStep DEF AtEOF, Answers
  <2> QED
    BY <1>3, <2>1, <2>2 DEF GreetingFails
<1>4. CASE CmdEOF
  <2>1. inbox' = <<>> /\ outbox' = <<>> /\ peer' = "down" /\ api' = api
    BY <1>4 DEF CmdEOF, AtEOF
  <2>2. pc' = "idle" /\ out' \notin Answers
    BY <1>4, <1>b DEF CmdEOF, Outcome, Answers
  <2> QED
    BY <2>1, <2>2, EndInStep
<1>5. CASE ReadRaises
  <2>1. ~NoTimeouts
    BY <1>5, WholeLines DEF ReadRaises
  <2>2. ~clean'
    BY <1>5, <1>b DEF ReadRaises, Failures
  <2> QED
    BY <2>1, <2>2
<1>6. CASE ReadJunk
  <2>1. ~NoTimeouts
    BY <1>6, WholeLines DEF ReadJunk
  <2>2. ~clean'
    BY <1>6, <1>b DEF ReadJunk, Failures
  <2> QED
    BY <2>1, <2>2
<1>7. CASE BufferEvent
  BY <1>7, <1>a, QuietInStep DEF BufferEvent, call
<1>8. CASE PollEnds
  <2>1. /\ Shrunk /\ UNCHANGED <<sock, peer, outbox, ncmds, api, got>> /\ pc = "poll"
    BY <1>8, <1>a DEF PollEnds
  <2>2. \/ pc' = "block" /\ UNCHANGED out
        \/ pc' \in {"idle", "poll"} /\ out' \notin Answers
    BY <1>8, <1>c DEF PollEnds, Block
  <2> QED
    BY <2>1, <2>2, QuietInStep
<1>9. CASE BlockRead
  <2>1. /\ Shrunk /\ UNCHANGED <<sock, peer, outbox, ncmds, api, got>> /\ pc = "block"
    BY <1>9, <1>a DEF BlockRead
  <2>2. pc' \in {"idle", "poll"} /\ out' \notin Answers
    BY <1>9, <1>c DEF BlockRead
  <2> QED
    BY <2>1, <2>2, QuietInStep
<1>10. CASE BlockFails
  <2>1. /\ Shrunk /\ UNCHANGED <<sock, peer, outbox, ncmds, api, got>> /\ pc = "block"
    BY <1>10, <1>a DEF BlockFails
  <2>2. pc' = "idle" /\ out' \notin Answers
    BY <1>10, <1>b DEF BlockFails, Answers
  <2> QED
    BY <2>1, <2>2, QuietInStep
<1>11. ASSUME NEW negotiate \in BOOLEAN, Open(negotiate)
       PROVE  InStep'
  <2>1. /\ pc = "idle" /\ api' = "connect" /\ UNCHANGED <<inbox, outbox, ncmds>>
    BY <1>11 DEF Open, Call
  <2>2. \/ pc' = "greeting"
        \/ pc' = "idle" /\ peer' = "agent"
    BY <1>11, <1>b DEF Open
  <2>3. UNCHANGED <<OnSocket(Answers), OnSocket({"greeting"})>>
    BY <2>1 DEF OnSocket, Positions
  <2> QED
    BY <2>1, <2>2, <2>3 DEF InStep, OwnReply
<1>12. CASE OpenFails \/ \E t \in Timeouts : SetTimeout(t)
  BY <1>12, <1>a, <1>b, QuietInStep DEF OpenFails, SetTimeout, Call
<1>13. CASE CmdSend
  <2>1. pc = "idle" /\ UNCHANGED <<sock, inbox, peer>> /\ outbox = <<>>
    BY <1>13 DEF CmdSend, Call, InStep
  <2>2. OnSocket(Answers)' = {} /\ OnSocket({"greeting"})' = {} /\ (sock = "open" => peer # "waiting")
    BY <2>1 DEF OnSocket, Positions, InStep
  <2>3. CASE Send
    BY <2>1, <2>2, <2>3, SendInStep
  <2>4. CASE Return("socket_error") /\ UNCHANGED <<ncmds, outbox>>
    BY <2>1, <2>4, <1>13, <1>a, <1>b, QuietInStep DEF Answers
  <2> QED
    BY <1>13, <2>3, <2>4 DEF CmdSend
<1>14. CASE \/ \E w \in Waits : GetQmpEvent(w) \/ GetQmpEvents(w)
            \/ \E ns \in SUBSET Names \ {{}} : \E w \in Waits : EventsWait(ns, w)
  <2>1. /\ pc = "idle" /\ UNCHANGED <<sock, wire, ncmds, got>> /\ api' # "cmd"
    BY <1>14 DEF GetQmpEvent, GetQmpEvents, EventsWait, Call
  <2>2. pc' \in {"idle", "poll"}
    BY <1>14, <1>b DEF GetQmpEvent, GetQmpEvents, EventsWait, Pull, Poll
  <2> QED
    BY <2>1, <2>2, <1>a, QuietInStep
<1>15. CASE Close
  BY <1>15, <1>b, EndInStep DEF Close, Call, Answers
<1>16. CASE PeerGreet
  <2> DEFINE l == [kind |-> "greeting", id |-> 0]
  <2>1. /\ inbox' = Append(inbox, l) /\ l \in Lines /\ l.kind \notin Answers /\ sock = "open"
        /\ peer = "waiting" /\ UNCHANGED <<outbox, pc, api, out, ncmds, got, sock>>
    BY <1>16 DEF PeerGreet, Write, Lines, Kinds, Answers, call
  <2>2. pc = "greeting"
    BY <2>1 DEF InStep
  <2> HIDE DEF l
  <2>3. OnSocket(Answers)' = OnSocket(Answers)
    BY <2>1, AppendIsLast DEF TypeOK
  <2> QED
    BY <2>1, <2>2, <2>3 DEF InStep, OwnReply
<1>17. ASSUME NEW a \in Answers, PeerReply(a)
       PROVE  InStep'
  <2> DEFINE l == [kind |-> a, id |-> Head(outbox)]
  <2>1. /\ outbox # <<>> /\ outbox' = Tail(outbox) /\ inbox' = Append(inbox, l)
        /\ UNCHANGED <<got, ncmds, pc, api, out, sock>> /\ (peer' = "waiting" => peer = "waiting")
    BY <1>17 DEF PeerReply, Write, call
  <2>2. l \in Lines /\ l.kind \in Answers /\ l.kind \notin {"greeting"} /\ l.id = Head(outbox)
    BY <2>1, HeadTailProperties DEF Lines, Kinds, Answers, TypeOK
  <2>3. Elements(outbox') \cup {Head(outbox)} = Elements(outbox)
    BY <2>1, TailElements DEF TypeOK
  <2> HIDE DEF l
  <2>4. /\ OnSocket(Answers)' = OnSocket(Answers) \cup {Head(outbox)}
        /\ OnSocket({"greeting"})' = OnSocket({"greeting"})
    BY <2>1, <2>2, AppendIsLast DEF TypeOK
  <2>5. OnSocket(Answers)' \cup Elements(outbox') \subseteq {ncmds'}
    BY <2>1, <2>3, <2>4 DEF InStep
  <2> QED
    BY <2>1, <2>4, <2>5 DEF InStep, OwnReply, Elements
<1>18. ASSUME NEW n \in Names, PeerEmit(n)
       PROVE  InStep'
  <2> DEFINE l == [kind |-> "event", id |-> Len(emitted')]
  <2>1. /\ inbox' = Append(inbox, l) /\ l.kind \notin Answers /\ l.kind \notin {"greeting"}
        /\ UNCHANGED <<sock, outbox, peer, got, ncmds, pc, api, out>>
    BY <1>18 DEF PeerEmit, Write, Answers, call
  <2>2. l \in Lines
    BY <1>18, AppendProperties, LenProperties DEF PeerEmit, Lines, Kinds, TypeOK
  <2> HIDE DEF l
  <2>3. /\ OnSocket(Answers)' = OnSocket(Answers)
        /\ OnSocket({"greeting"})' = OnSocket({"greeting"})
    BY <2>1, <2>2, AppendIsLast DEF TypeOK
  <2> QED
    BY <2>1, <2>3 DEF InStep, OwnReply, Elements
<1>19. CASE PeerRest
  BY <1>19, <1>a, QuietInStep DEF PeerRest, call
<1>20. CASE PeerExit
  BY <1>20, ExitShrinks, QuietInStep DEF PeerExit, call, TypeOK
<1> QED
  BY <1>1, <1>2, <1>3, <1>4, <1>5, <1>6, <1>7, <1>8, <1>9, <1>10, <1>11, <1>12, <1>13,
     <1>14, <1>15, <1>16, <1>17, <1>18, <1>19, <1>20 DEF Next, ClientStep, CallerStep, PeerStep

\* The invariants together, of every connection.
THEOREM Synchronised == Spec => [](TypeOK /\ OrderInv /\ OwnInv)
<1>1. Init => TypeOK /\ OrderInv /\ OwnInv
  <2>1. Init => OwnInv
    <3>1. Init => \A kinds : OnSocket(kinds) = {}
      BY DEF Init, OnSocket, Positions
    <3> QED
      BY <3>1 DEF Init, OwnInv, ModeInv, InStep, OwnReply, NoTimeouts
  <2> QED
    BY <2>1, InitTypeOK, InitOrder
<1>2. TypeOK /\ OrderInv /\ OwnInv /\ [Next]_vars => TypeOK' /\ OrderInv' /\ OwnInv'
  <2> SUFFICES ASSUME TypeOK, OrderInv, OwnInv, [Next]_vars
               PROVE  TypeOK' /\ OrderInv' /\ OwnInv'
    OBVIOUS
  <2>1. TypeOK'
    BY NextTypeOK
  <2>2. CASE Next
    <3>1. NoTimeouts => ModeInv'
      BY <2>2, NextMode DEF OwnInv
    <3>2. peer' = "down" => outbox' = <<>>
      BY <2>2, NextDown DEF OwnInv
    <3>3. clean' \/ NoTimeouts => InStep'
      BY <2>2, NextInStep, NextClean DEF OwnInv
    <3>4. OwnInv'
      BY <3>1, <3>2, <3>3 DEF OwnInv, NoTimeouts
    <3> QED
      BY <2>1, <2>2, <3>4, NextOrder
  <2>3. CASE UNCHANGED vars
    <3>1. UNCHANGED <<sock, mode, inbox, torn, outbox, peer, pc, api, out, clean, got, ncmds>>
      BY <2>3 DEF vars, conn, wire, call
    <3>2. \A kinds : OnSocket(kinds)' = OnSocket(kinds)
      BY <3>1 DEF OnSocket, Positions
    <3>3. InStep => InStep'
      BY <3>1, <3>2 DEF InStep, OwnReply, Elements
    <3>4. ModeInv => ModeInv'
      BY <3>1, <3>2 DEF ModeInv
    <3>5. OwnInv'
      BY <3>1, <3>3, <3>4 DEF OwnInv, NoTimeouts
    <3> QED
      BY <2>1, <2>3, <3>5, StutterOrder
  <2> QED
    BY <2>2, <2>3
<1> QED
  BY <1>1, <1>2, PTL DEF Spec

\* Answers reach callers in the order of their commands whatever times out
\* (qmp.py:169-176), for every number of commands and events.
THEOREM AnswersOrdered == Spec => []AnswersInOrder
<1>1. OrderInv => AnswersInOrder
  BY DEF OrderInv
<1> QED
  BY <1>1, Synchronised, PTL

\* As long as no call has failed, cmd() returns the answer to the command it sent
\* (qmp.py:169-176), whatever times out and however lines are cut.
THEOREM OwnRepliesWhileClean == Spec => []OwnReplyWhileClean
<1>1. OwnInv => OwnReplyWhileClean
  BY DEF OwnInv, InStep, OwnReplyWhileClean
<1> QED
  BY <1>1, Synchronised, PTL

\* If no float is ever passed as a timeout and lines are whole, it does so always,
\* after failed calls and negotiations too.
THEOREM OwnReplies ==
  ASSUME NoTimeouts
  PROVE  Spec => []OwnReply
<1>1. OwnInv => OwnReply
  BY DEF OwnInv, InStep
<1> QED
  BY <1>1, Synchronised, PTL

-----------------------------------------------------------------------------
(* Events *)

\* No event twice.
Distinct(seq) == \A i, j \in DOMAIN seq : i # j => seq[i] # seq[j]

\* Events in increasing order are different events.
LEMMA IncreasingDistinct ==
  ASSUME NEW seq \in Seq(Nat), Increasing(seq)
  PROVE  Distinct(seq)
<1>1. DOMAIN seq \subseteq Nat /\ \A i \in DOMAIN seq : seq[i] \in Nat
  BY LenProperties, ElementOfSeq
<1>2. ASSUME NEW i \in DOMAIN seq, NEW j \in DOMAIN seq, i # j
      PROVE  seq[i] # seq[j]
  <2>1. seq[i] \in Nat /\ seq[j] \in Nat /\ (i < j \/ j < i)
    BY <1>1, <1>2
  <2>2. seq[i] < seq[j] \/ seq[j] < seq[i]
    BY <2>1 DEF Increasing
  <2> QED
    BY <2>1, <2>2
<1> QED
  BY <1>2 DEF Distinct

\* get_qmp_events() returns one list after the other (machine.py:397-401).
LEMMA ConcatElements ==
  ASSUME NEW s \in Seq(Nat), NEW t \in Seq(Nat)
  PROVE  /\ Elements(s \o t) = Elements(s) \cup Elements(t)
         /\ Distinct(s) /\ Distinct(t) /\ Elements(s) \cap Elements(t) = {}
              => Distinct(s \o t)
<1> DEFINE st == s \o t
           m == Len(s)
<1>1. /\ m \in Nat /\ DOMAIN s = 1 .. m /\ Len(t) \in Nat /\ DOMAIN t = 1 .. Len(t)
  BY LenProperties
<1>2. /\ DOMAIN st = 1 .. m + Len(t)
      /\ \A i \in 1 .. m + Len(t) : st[i] = IF i <= m THEN s[i] ELSE t[i - m]
  BY <1>1, ConcatProperties, LenProperties
<1> HIDE DEF st, m
<1>3. \A i \in DOMAIN s : i \in DOMAIN st /\ st[i] = s[i]
  BY <1>1, <1>2
<1>4. \A i \in DOMAIN t : i + m \in DOMAIN st /\ st[i + m] = t[i]
  <2> SUFFICES ASSUME NEW i \in DOMAIN t PROVE i + m \in DOMAIN st /\ st[i + m] = t[i]
    OBVIOUS
  <2>1. i + m \in 1 .. m + Len(t) /\ ~(i + m <= m) /\ (i + m) - m = i
    BY <1>1
  <2> QED
    BY <1>2, <2>1
<1>5. \A i \in DOMAIN st : \/ i \in DOMAIN s /\ st[i] = s[i]
                           \/ i \notin DOMAIN s /\ i - m \in DOMAIN t /\ st[i] = t[i - m]
  BY <1>1, <1>2
<1>6. Elements(st) = Elements(s) \cup Elements(t)
  <2>1. Elements(st) \subseteq Elements(s) \cup Elements(t)
    BY <1>5 DEF Elements
  <2>2. Elements(s) \subseteq Elements(st) /\ Elements(t) \subseteq Elements(st)
    BY <1>3, <1>4 DEF Elements
  <2> QED
    BY <2>1, <2>2
<1>7. ASSUME Distinct(s), Distinct(t), Elements(s) \cap Elements(t) = {}
      PROVE  Distinct(st)
  <2> SUFFICES ASSUME NEW i \in DOMAIN st, NEW j \in DOMAIN st, i # j
               PROVE  st[i] # st[j]
    BY DEF Distinct
  <2>1. i \in Nat /\ j \in Nat
    BY <1>1, <1>2
  <2>2. CASE i \in DOMAIN s /\ j \in DOMAIN s
    BY <1>5, <1>7, <2>2 DEF Distinct
  <2>3. CASE i \in DOMAIN s /\ j \notin DOMAIN s
    <3>1. st[i] \in Elements(s) /\ st[j] \in Elements(t)
      BY <1>5, <2>3 DEF Elements
    <3> QED
      BY <1>7, <3>1
  <2>4. CASE i \notin DOMAIN s /\ j \in DOMAIN s
    <3>1. st[j] \in Elements(s) /\ st[i] \in Elements(t)
      BY <1>5, <2>4 DEF Elements
    <3> QED
      BY <1>7, <3>1
  <2>5. CASE i \notin DOMAIN s /\ j \notin DOMAIN s
    <3>1. i - m # j - m
      BY <1>1, <2>1
    <3>2. i - m \in DOMAIN t /\ st[i] = t[i - m] /\ j - m \in DOMAIN t /\ st[j] = t[j - m]
      BY <1>5, <2>5
    <3> QED
      BY <1>7, <3>1, <3>2 DEF Distinct
  <2> QED
    BY <2>2, <2>3, <2>4, <2>5
<1> QED
  BY <1>6, <1>7 DEF st

\* An event is handed out that was not before.
LEMMA AppendDistinct ==
  ASSUME NEW seq \in Seq(Nat), NEW e \in Nat, Distinct(seq), e \notin Elements(seq)
  PROVE  Distinct(Append(seq, e))
<1> DEFINE n == Len(seq) + 1
           app == Append(seq, e)
<1>1. Len(seq) \in Nat /\ DOMAIN seq = 1 .. Len(seq)
  BY LenProperties
<1>2. app \in Seq(Nat) /\ Len(app) = n /\ app[n] = e /\ \A i \in DOMAIN seq : app[i] = seq[i]
  BY <1>1, AppendProperties
<1>3. DOMAIN app = DOMAIN seq \cup {n}
  <2>1. DOMAIN app = 1 .. n
    BY <1>2, LenProperties
  <2> QED
    BY <1>1, <2>1
<1> HIDE DEF app, n
<1>4. \A i \in DOMAIN seq : app[i] # e
  BY <1>2 DEF Elements
<1> QED
  BY <1>2, <1>3, <1>4 DEF Distinct, app

\* _events.remove(event) (machine.py:464) takes one event out and keeps the order.
LEMMA WithoutElements ==
  ASSUME NEW seq \in Seq(Nat), NEW i \in DOMAIN seq, Increasing(seq)
  PROVE  /\ Elements(seq) = Elements(Without(seq, i)) \cup {seq[i]}
         /\ seq[i] \notin Elements(Without(seq, i))
         /\ Increasing(Without(seq, i))
<1> DEFINE n == Len(seq)
           w == Without(seq, i)
           a == SubSeq(seq, 1, i - 1)
           b == SubSeq(seq, i + 1, n)
<1>1. n \in Nat /\ DOMAIN seq = 1 .. n /\ i \in 1 .. n /\ \A j \in 1 .. n : seq[j] \in Nat
  BY LenProperties, ElementOfSeq
<1>2. /\ a \in Seq(Nat) /\ Len(a) = i - 1 /\ \A j \in 1 .. i - 1 : a[j] = seq[j]
  <2>1. \A j \in 1 .. i - 1 : seq[j] \in Nat
    BY <1>1
  <2>2. /\ a \in Seq(Nat) /\ Len(a) = (IF 1 <= i - 1 THEN (i - 1) - 1 + 1 ELSE 0)
        /\ \A j \in 1 .. (i - 1) - 1 + 1 : a[j] = seq[1 + j - 1]
    <3>1. 1 \in Int /\ i - 1 \in Int
      BY <1>1
    <3> QED
      BY <2>1, <3>1, SubSeqProperties
  <2>4. Len(a) = i - 1
    BY <1>1, <2>2
  <2>5. \A j \in 1 .. i - 1 : j \in 1 .. (i - 1) - 1 + 1 /\ 1 + j - 1 = j
    BY <1>1
  <2> HIDE DEF a
  <2> QED
    BY <2>2, <2>4, <2>5
<1>3. /\ b \in Seq(Nat) /\ Len(b) = n - i /\ \A j \in 1 .. n - i : b[j] = seq[i + j]
  <2> DEFINE m == i + 1
  <2>1. m \in Int /\ n \in Int /\ \A j \in m .. n : seq[j] \in Nat
    BY <1>1
  <2> HIDE DEF m, n
  <2>2. /\ SubSeq(seq, m, n) \in Seq(Nat)
        /\ Len(SubSeq(seq, m, n)) = IF m <= n THEN n - m + 1 ELSE 0
        /\ \A j \in 1 .. n - m + 1 : SubSeq(seq, m, n)[j] = seq[m + j - 1]
    BY <2>1, SubSeqProperties
  <2>3. b = SubSeq(seq, m, n) /\ m = i + 1
    BY DEF m
  <2>4. Len(b) = n - i
    <3>1. CASE i + 1 <= n
      BY <1>1, <2>1, <2>2, <2>3, <3>1
    <3>2. CASE ~(i + 1 <= n)
      <4>1. i = n /\ Len(b) = 0
        BY <1>1, <2>1, <2>2, <2>3, <3>2
      <4> QED
        BY <1>1, <4>1
    <3> QED
      BY <3>1, <3>2
  <2>5. \A j \in 1 .. n - i : j \in 1 .. n - m + 1 /\ m + j - 1 = i + j
    <3>1. n \in Int /\ i \in Int
      BY <1>1
    <3>2. \A x, y, z \in Int : \A k \in 1 .. x - y :
            z = y + 1 => k \in 1 .. x - z + 1 /\ z + k - 1 = y + k
      OBVIOUS
    <3> QED
      BY <2>1, <2>3, <3>1, <3>2
  <2> HIDE DEF b
  <2> QED
    BY <2>2, <2>3, <2>4, <2>5
<1> HIDE DEF a, b
<1>4. w = a \o b
  BY DEF Without, a, b
<1> HIDE DEF w
<1>5. /\ w \in Seq(Nat) /\ Len(w) = n - 1
      /\ \A j \in 1 .. Len(a) + Len(b) : w[j] = IF j <= Len(a) THEN a[j] ELSE b[j - Len(a)]
  <2>1. /\ w \in Seq(Nat) /\ Len(w) = Len(a) + Len(b)
        /\ \A j \in 1 .. Len(a) + Len(b) : w[j] = IF j <= Len(a) THEN a[j] ELSE b[j - Len(a)]
    BY <1>2, <1>3, <1>4, ConcatProperties
  <2>2. Len(w) = n - 1
    BY <1>1, <1>2, <1>3, <2>1
  <2> QED
    BY <2>1, <2>2
<1>6. DOMAIN w = 1 .. n - 1
  BY <1>5, LenProperties
<1> HIDE DEF n
<1>7. \A j \in DOMAIN w : /\ j < i => j \in DOMAIN seq /\ w[j] = seq[j]
                          /\ i <= j => j + 1 \in DOMAIN seq /\ w[j] = seq[j + 1]
  <2> SUFFICES ASSUME NEW j \in DOMAIN w
               PROVE  /\ j < i => j \in DOMAIN seq /\ w[j] = seq[j]
                      /\ i <= j => j + 1 \in DOMAIN seq /\ w[j] = seq[j + 1]
    OBVIOUS
  <2>1. j \in 1 .. n - 1 /\ j \in 1 .. Len(a) + Len(b)
    BY <1>1, <1>2, <1>3, <1>6
  <2>2. CASE j < i
    <3>0. j <= Len(a) /\ j \in 1 .. i - 1
      BY <1>1, <1>2, <2>1, <2>2
    <3>1. w[j] = a[j] /\ a[j] = seq[j]
      BY <1>2, <1>5, <2>1, <3>0
    <3> QED
      BY <1>1, <2>1, <2>2, <3>1
  <2>3. CASE i <= j
    <3>0. ~(j <= Len(a)) /\ j - Len(a) = j - (i - 1)
      BY <1>1, <1>2, <2>1, <2>3
    <3>1. w[j] = b[j - (i - 1)]
      BY <1>5, <2>1, <3>0
    <3>2. j - (i - 1) \in 1 .. n - i /\ i + (j - (i - 1)) = j + 1
      <4>1. n \in Int /\ i \in Int /\ j \in Int /\ i <= j /\ j <= n - 1
        BY <1>1, <2>1, <2>3
      <4> QED
        BY <4>1
    <3>3. w[j] = seq[j + 1]
      BY <1>3, <3>1, <3>2
    <3> QED
      BY <1>1, <2>1, <2>3, <3>3
  <2> QED
    BY <1>1, <2>1, <2>2, <2>3
<1>8. \A j \in DOMAIN seq : /\ j < i => j \in DOMAIN w
                            /\ i < j => j - 1 \in DOMAIN w /\ i <= j - 1 /\ (j - 1) + 1 = j
  BY <1>1, <1>6
<1>9. \A j \in DOMAIN w : j \in Nat /\ i \in Nat
  BY <1>1, <1>6
<1>10. seq[i] \notin Elements(w)
  <2> SUFFICES ASSUME NEW j \in DOMAIN w, w[j] = seq[i] PROVE FALSE
    BY DEF Elements
  <2>1. CASE j < i
    <3>1. seq[j] < seq[i] /\ seq[j] \in Nat
      BY <1>1, <1>7, <2>1 DEF Increasing
    <3> QED
      BY <1>1, <1>7, <2>1, <3>1
  <2>2. CASE i <= j
    <3>1. i < j + 1 /\ j + 1 \in DOMAIN seq /\ w[j] = seq[j + 1]
      BY <1>7, <1>9, <2>2
    <3>2. seq[i] < seq[j + 1] /\ seq[i] \in Nat
      BY <1>1, <3>1 DEF Increasing
    <3> QED
      BY <3>1, <3>2
  <2> QED
    BY <1>9, <2>1, <2>2
<1>11. Elements(seq) = Elements(w) \cup {seq[i]}
  <2>1. \A j \in DOMAIN w : w[j] \in Elements(seq)
    BY <1>7, <1>9 DEF Elements
  <2>2. \A j \in DOMAIN seq : j # i => seq[j] \in Elements(w)
    <3> SUFFICES ASSUME NEW j \in DOMAIN seq, j # i PROVE seq[j] \in Elements(w)
      OBVIOUS
    <3>1. CASE j < i
      BY <1>7, <1>8, <3>1 DEF Elements
    <3>2. CASE i < j
      <4>1. j - 1 \in DOMAIN w /\ w[j - 1] = seq[(j - 1) + 1] /\ (j - 1) + 1 = j
        BY <1>7, <1>8, <3>2
      <4> QED
        BY <4>1 DEF Elements
    <3> QED
      BY <1>1, <3>1, <3>2
  <2> QED
    BY <2>1, <2>2 DEF Elements
<1>12. Increasing(w)
  <2> SUFFICES ASSUME NEW j \in DOMAIN w, NEW k \in DOMAIN w, j < k PROVE w[j] < w[k]
    BY DEF Increasing
  <2>1. CASE k < i
    <3>1. j < i
      BY <1>9, <2>1
    <3> QED
      BY <1>7, <2>1, <3>1 DEF Increasing
  <2>2. CASE j < i /\ i <= k
    <3>1. /\ j \in DOMAIN seq /\ w[j] = seq[j] /\ k + 1 \in DOMAIN seq /\ w[k] = seq[k + 1]
          /\ j < k + 1
      BY <1>7, <1>9, <2>2
    <3> QED
      BY <3>1 DEF Increasing
  <2>3. CASE i <= j
    <3>1. i <= k /\ j + 1 < k + 1
      BY <1>9, <2>3
    <3>2. j + 1 \in DOMAIN seq /\ w[j] = seq[j + 1] /\ k + 1 \in DOMAIN seq /\ w[k] = seq[k + 1]
      BY <1>7, <2>3, <3>1
    <3> QED
      BY <3>1, <3>2 DEF Increasing
  <2> QED
    BY <1>9, <2>1, <2>2, <2>3
<1> QED
  BY <1>10, <1>11, <1>12 DEF w

\* The events in the hands of the client, in a list each: those handed out are
\* different, and none of them is kept; those kept are in order, and before those in S.
Held(d, c, b, S) ==
  /\ Distinct(d)
  /\ Increasing(c) /\ Increasing(b)
  /\ Before(Elements(c), Elements(b) \cup S) /\ Before(Elements(b), S)
  /\ Elements(d) \cap (Elements(c) \cup Elements(b) \cup S) = {}

\* The events that are kept or were handed out.
AllOf(d, c, b) == Elements(d) \cup Elements(c) \cup Elements(b)

\* The head of a list is handed out (qmp.py:218-219, machine.py:387-389, 471-472).
LEMMA HandOut ==
  ASSUME NEW d \in Seq(Nat), NEW c \in Seq(Nat), NEW b \in Seq(Nat), NEW S,
         Held(d, c, b, S)
  PROVE  /\ b # <<>> => /\ Held(Append(d, Head(b)), c, Tail(b), S)
                        /\ AllOf(Append(d, Head(b)), c, Tail(b)) = AllOf(d, c, b)
         /\ c # <<>> => /\ Held(Append(d, Head(c)), Tail(c), b, S)
                        /\ AllOf(Append(d, Head(c)), Tail(c), b) = AllOf(d, c, b)
<1>1. ASSUME b # <<>>
      PROVE  /\ Held(Append(d, Head(b)), c, Tail(b), S)
             /\ AllOf(Append(d, Head(b)), c, Tail(b)) = AllOf(d, c, b)
  <2> DEFINE h == Head(b)
             t == Tail(b)
             dh == Append(d, h)
  <2>1. /\ h \in Nat /\ Elements(b) = Elements(t) \cup {h}
        /\ Increasing(t) /\ Before({h}, Elements(t))
    BY <1>1, HeadTailProperties, TailElements DEF Held
  <2> HIDE DEF t
  <2>2. h \notin Elements(d)
    BY <2>1 DEF Held
  <2>3. Elements(dh) = Elements(d) \cup {h} /\ Distinct(dh)
    BY <2>1, <2>2, AppendElements, AppendDistinct DEF Held
  <2> HIDE DEF h, dh
  <2>4. /\ Before(Elements(c), Elements(t) \cup S) /\ Before(Elements(t), S)
        /\ Before(Elements(c), {h}) /\ Before({h}, S)
    BY <2>1 DEF Held, Before
  <2>5. h \notin Elements(c) \cup Elements(t) \cup S
    BY <2>1, <2>4 DEF Before
  <2>6. Held(dh, c, t, S)
    BY <2>1, <2>3, <2>4, <2>5 DEF Held
  <2>7. AllOf(dh, c, t) = AllOf(d, c, b)
    BY <2>1, <2>3 DEF AllOf
  <2> QED
    BY <2>6, <2>7 DEF h, t, dh
<1>2. ASSUME c # <<>>
      PROVE  /\ Held(Append(d, Head(c)), Tail(c), b, S)
             /\ AllOf(Append(d, Head(c)), Tail(c), b) = AllOf(d, c, b)
  <2> DEFINE h == Head(c)
             t == Tail(c)
             dh == Append(d, h)
  <2>1. /\ h \in Nat /\ Elements(c) = Elements(t) \cup {h}
        /\ Increasing(t) /\ Before({h}, Elements(t))
    BY <1>2, HeadTailProperties, TailElements DEF Held
  <2> HIDE DEF t
  <2>2. h \notin Elements(d)
    BY <2>1 DEF Held
  <2>3. Elements(dh) = Elements(d) \cup {h} /\ Distinct(dh)
    BY <2>1, <2>2, AppendElements, AppendDistinct DEF Held
  <2> HIDE DEF h, dh
  <2>4. /\ Before(Elements(t), Elements(b) \cup S) /\ Before(Elements(b), S)
        /\ Before({h}, Elements(b) \cup S)
    BY <2>1 DEF Held, Before
  <2>5. h \notin Elements(t) \cup Elements(b) \cup S
    BY <2>1, <2>4 DEF Before
  <2>6. Held(dh, t, b, S)
    BY <2>1, <2>3, <2>4, <2>5 DEF Held
  <2>7. AllOf(dh, t, b) = AllOf(d, c, b)
    BY <2>1, <2>3 DEF AllOf
  <2> QED
    BY <2>6, <2>7 DEF h, t, dh
<1> QED
  BY <1>1, <1>2

\* An event out of the middle of the queue is handed out (machine.py:461-465).
LEMMA HandOutMatch ==
  ASSUME NEW d \in Seq(Nat), NEW c \in Seq(Nat), NEW b \in Seq(Nat), NEW S,
         Held(d, c, b, S), NEW i \in DOMAIN c
  PROVE  /\ Held(Append(d, c[i]), Without(c, i), b, S)
         /\ AllOf(Append(d, c[i]), Without(c, i), b) = AllOf(d, c, b)
<1> DEFINE h == c[i]
           t == Without(c, i)
           dh == Append(d, h)
<1>1. /\ h \in Nat /\ Elements(c) = Elements(t) \cup {h}
      /\ Increasing(t) /\ h \notin Elements(t)
  BY ElementOfSeq, LenProperties, WithoutElements DEF Held
<1> HIDE DEF t
<1>2. h \notin Elements(d)
  BY <1>1 DEF Held
<1>3. Elements(dh) = Elements(d) \cup {h} /\ Distinct(dh)
  BY <1>1, <1>2, AppendElements, AppendDistinct DEF Held
<1> HIDE DEF h, dh
<1>4. /\ Before(Elements(t), Elements(b) \cup S) /\ Before(Elements(b), S)
      /\ Before({h}, Elements(b) \cup S)
  BY <1>1 DEF Held, Before
<1>5. h \notin Elements(b) \cup S
  BY <1>1, <1>4 DEF Before
<1>6. Held(dh, t, b, S)
  BY <1>1, <1>3, <1>4, <1>5 DEF Held
<1>7. AllOf(dh, t, b) = AllOf(d, c, b)
  BY <1>1, <1>3 DEF AllOf
<1> QED
  BY <1>6, <1>7 DEF h, t, dh

\* An event that events_wait() does not look for goes to the queue (machine.py:470).
LEMMA PutOff ==
  ASSUME NEW d \in Seq(Nat), NEW c \in Seq(Nat), NEW b \in Seq(Nat), NEW S,
         Held(d, c, b, S), b # <<>>
  PROVE  /\ Held(d, Append(c, Head(b)), Tail(b), S)
         /\ AllOf(d, Append(c, Head(b)), Tail(b)) = AllOf(d, c, b)
<1> DEFINE h == Head(b)
           t == Tail(b)
           ch == Append(c, h)
<1>1. /\ h \in Nat /\ Elements(b) = Elements(t) \cup {h}
      /\ Increasing(t) /\ Before({h}, Elements(t))
  BY HeadTailProperties, TailElements DEF Held
<1> HIDE DEF t
<1>2. Before(Elements(c), {h}) /\ Before({h}, Elements(t) \cup S)
  BY <1>1 DEF Held, Before
<1>3. Elements(ch) = Elements(c) \cup {h} /\ Increasing(ch)
  BY <1>1, <1>2, AppendElements DEF Held
<1> HIDE DEF h, ch
<1>4. /\ Before(Elements(ch), Elements(t) \cup S) /\ Before(Elements(t), S)
      /\ Elements(d) \cap (Elements(ch) \cup Elements(t) \cup S) = {}
  BY <1>1, <1>2, <1>3 DEF Held, Before
<1>5. Held(d, ch, t, S)
  BY <1>1, <1>3, <1>4 DEF Held
<1>6. AllOf(d, ch, t) = AllOf(d, c, b)
  BY <1>1, <1>3 DEF AllOf
<1> QED
  BY <1>5, <1>6 DEF h, t, ch

\* get_qmp_events() hands out both lists (machine.py:397-401).
LEMMA HandOutAll ==
  ASSUME NEW d \in Seq(Nat), NEW c \in Seq(Nat), NEW b \in Seq(Nat), NEW S,
         Held(d, c, b, S)
  PROVE  /\ Held((d \o b) \o c, <<>>, <<>>, S)
         /\ AllOf((d \o b) \o c, <<>>, <<>>) = AllOf(d, c, b)
<1> DEFINE db == d \o b
           all == db \o c
<1>0. Distinct(b) /\ Distinct(c)
  BY IncreasingDistinct DEF Held
<1>1. db \in Seq(Nat) /\ Elements(db) = Elements(d) \cup Elements(b) /\ Distinct(db)
  BY <1>0, ConcatProperties, ConcatElements DEF Held
<1> HIDE DEF db
<1>2. Elements(b) \cap Elements(c) = {} /\ (Elements(b) \cup Elements(c)) \cap S = {}
  <2>1. \A x \in Elements(b) \cup Elements(c) \cup Elements(d) : x \in Nat
    BY LenProperties, ElementOfSeq DEF Elements
  <2> QED
    BY <2>1 DEF Held, Before
<1>3. Elements(all) = Elements(db) \cup Elements(c) /\ Distinct(all)
  BY <1>0, <1>1, <1>2, ConcatElements DEF Held
<1> HIDE DEF all
<1>4. Elements(all) \cap S = {}
  BY <1>1, <1>2, <1>3 DEF Held
<1>5. Held(all, <<>>, <<>>, S)
  BY <1>3, <1>4, EmptyElements DEF Held, Before
<1>6. AllOf(all, <<>>, <<>>) = AllOf(d, c, b)
  BY <1>1, <1>3, EmptyElements DEF AllOf
<1> QED
  BY <1>5, <1>6 DEF all, db

\* Whatever the caller of __get_events() does with the events it kept, none is lost.
LEMMA FinishKeeps ==
  ASSUME TypeOK, NEW buf \in Seq(Nat), NEW m, NEW S, Finish(buf, m),
         Held(delivered, cache, buf, S)
  PROVE  /\ Held(delivered', cache', events', S)
         /\ AllOf(delivered', cache', events') = AllOf(delivered, cache, buf)
<1> USE DEF TypeOK
<1>1. CASE delivered' = delivered /\ cache' = cache /\ events' = buf
  BY <1>1
<1>2. CASE /\ buf # <<>> /\ delivered' = Append(delivered, Head(buf))
           /\ events' = Tail(buf) /\ cache' = cache
  BY <1>2, HandOut
<1>3. CASE delivered' = (delivered \o buf) \o cache /\ events' = <<>> /\ cache' = <<>>
  BY <1>3, HandOutAll
<1>4. CASE /\ buf # <<>> /\ cache' = Append(cache, Head(buf))
           /\ events' = Tail(buf) /\ delivered' = delivered
  BY <1>4, PutOff
<1> QED
  BY <1>1, <1>2, <1>3, <1>4
     DEF Finish, FinishEvent, FinishEvents, FinishWait, FinishWaitOther

\* Fewer lines on the socket disturb nothing.
LEMMA FewerHeld ==
  ASSUME NEW d, NEW c, NEW b, NEW S, NEW T \in SUBSET S, Held(d, c, b, S)
  PROVE  Held(d, c, b, T)
BY DEF Held, Before

\* Whatever is delivered or kept or on its way was emitted; it is in one place, and
\* in order (qmp.py:80-91, 106-129; machine.py:385-472).
EventInv ==
  /\ Held(delivered, cache, events, OnSocket({"event"}))
  /\ IncreasingOnSocket({"event"})
  /\ AllOf(delivered, cache, events) \cup OnSocket({"event"}) \subseteq 1 .. Len(emitted)

\* What readline() takes from the socket is what it returns.
LEMMA ConsumeElements ==
  ASSUME inbox \in Seq(Lines), HasLine, inbox' = Tail(inbox), NEW kinds
  PROVE  /\ Next1.kind \in kinds => OnSocket(kinds) = OnSocket(kinds)' \cup {Next1.id}
         /\ Next1.kind \notin kinds => OnSocket(kinds) = OnSocket(kinds)'
<1>1. /\ Len(inbox) \in Nat \ {0} /\ DOMAIN inbox = 1 .. Len(inbox) /\ Next1 = inbox[1]
      /\ inbox' \in Seq(Lines)
  BY LineType, LenProperties, EmptySeq DEF Next1
<1>2. Len(inbox') = Len(inbox) - 1 /\ \A i \in 1 .. Len(inbox') : inbox'[i] = inbox[i + 1]
  BY <1>1, LineType, HeadTailProperties
<1>3. DOMAIN inbox' = 1 .. Len(inbox) - 1
  BY <1>1, <1>2, LenProperties
<1>4. /\ 1 \in DOMAIN inbox
      /\ \A i \in DOMAIN inbox' : i + 1 \in DOMAIN inbox /\ inbox'[i] = inbox[i + 1]
  BY <1>1, <1>2, <1>3
<1>5. \A i \in DOMAIN inbox : i = 1 \/ \E j \in DOMAIN inbox' : inbox[i] = inbox'[j]
  <2> SUFFICES ASSUME NEW i \in DOMAIN inbox, i # 1
               PROVE  \E j \in DOMAIN inbox' : inbox[i] = inbox'[j]
    OBVIOUS
  <2>1. i - 1 \in DOMAIN inbox' /\ (i - 1) + 1 = i
    BY <1>1, <1>3
  <2>2. inbox'[i - 1] = inbox[i]
    BY <1>4, <2>1
  <2> QED
    BY <2>1, <2>2
<1>6. \A x \in OnSocket(kinds)' : x \in OnSocket(kinds)
  BY <1>4 DEF OnSocket, Positions
<1>7. \A x \in OnSocket(kinds) : x \in OnSocket(kinds)' \/ (Next1.kind \in kinds /\ x = Next1.id)
  BY <1>1, <1>5 DEF OnSocket, Positions
<1>8. Next1.kind \in kinds => Next1.id \in OnSocket(kinds)
  BY <1>1, <1>4 DEF OnSocket, Positions
<1> QED
  BY <1>6, <1>7, <1>8

\* A step that leaves the events alone, and adds none to the socket.
LEMMA QuietEvents ==
  ASSUME TypeOK, EventInv, UNCHANGED <<events, cache, delivered, emitted>>, Shrunk
  PROVE  EventInv'
<1>1. OnSocket({"event"})' \subseteq OnSocket({"event"}) /\ IncreasingOnSocket({"event"})'
  BY ShrunkKeeps DEF EventInv, TypeOK
<1>2. Held(delivered, cache, events, OnSocket({"event"})')
  BY <1>1, FewerHeld DEF EventInv
<1> QED
  BY <1>1, <1>2 DEF EventInv

\* QEMU writes a line that is no event.
LEMMA OtherLine ==
  ASSUME TypeOK, EventInv, UNCHANGED <<events, cache, delivered, emitted>>,
         NEW l \in Lines, l.kind # "event", inbox' = Append(inbox, l)
  PROVE  EventInv' /\ OnSocket({"event"})' = OnSocket({"event"})
<1>1. OnSocket({"event"})' = OnSocket({"event"}) /\ IncreasingOnSocket({"event"})'
  BY AppendIsLast DEF EventInv, TypeOK
<1> QED
  BY <1>1 DEF EventInv

\* An event goes from the socket to the cache of the protocol (qmp.py:87-91).
LEMMA KeepRead ==
  ASSUME TypeOK, EventInv, HasLine, inbox' = Tail(inbox), Next1.kind = "event"
  PROVE  /\ Append(events, Next1.id) \in Seq(Nat)
         /\ Held(delivered, cache, Append(events, Next1.id), OnSocket({"event"})')
         /\ IncreasingOnSocket({"event"})'
         /\ AllOf(delivered, cache, Append(events, Next1.id)) \cup OnSocket({"event"})'
              = AllOf(delivered, cache, events) \cup OnSocket({"event"})
<1> DEFINE S == OnSocket({"event"})
           T == OnSocket({"event"})'
           e == Next1.id
           b == Append(events, e)
<1>1. /\ S = T \cup {e} /\ Before({e}, T)
      /\ T \subseteq S /\ IncreasingOnSocket({"event"})'
  BY ConsumeElements, ConsumeIsFirst, ConsumeShrinks, ShrunkKeeps DEF EventInv, TypeOK
<1>2. e \in Nat /\ events \in Seq(Nat)
  BY LineType DEF TypeOK, Lines
<1> HIDE DEF S, T, e
<1>3. Held(delivered, cache, events, S)
  BY DEF EventInv, S
<1>4. Before(Elements(events), {e}) /\ Before(Elements(cache), {e})
  BY <1>1, <1>3 DEF Held, Before
<1>5. b \in Seq(Nat) /\ Elements(b) = Elements(events) \cup {e} /\ Increasing(b)
  BY <1>2, <1>3, <1>4, AppendElements, AppendProperties DEF Held
<1> HIDE DEF b
<1>6. Before(Elements(cache), Elements(b) \cup T) /\ Before(Elements(b), T)
  BY <1>1, <1>3, <1>4, <1>5 DEF Held, Before
<1>7. Elements(delivered) \cap (Elements(cache) \cup Elements(b) \cup T) = {}
  BY <1>1, <1>3, <1>5 DEF Held
<1>8. Held(delivered, cache, b, T)
  BY <1>3, <1>5, <1>6, <1>7 DEF Held
<1>9. AllOf(delivered, cache, b) \cup T = AllOf(delivered, cache, events) \cup S
  BY <1>1, <1>5 DEF AllOf
<1> QED
  BY <1>1, <1>5, <1>8, <1>9 DEF S, T, e, b

\* The end of a call of the event API with what readline() left on the socket.
LEMMA FinishInOrder ==
  ASSUME TypeOK, NEW buf \in Seq(Nat), NEW m, Finish(buf, m), emitted' = emitted,
         Held(delivered, cache, buf, OnSocket({"event"})'), IncreasingOnSocket({"event"})',
         AllOf(delivered, cache, buf) \cup OnSocket({"event"})' \subseteq 1 .. Len(emitted)
  PROVE  /\ EventInv'
         /\ AllOf(delivered, cache, events)' = AllOf(delivered, cache, buf)
<1> DEFINE S == OnSocket({"event"})'
<1> HIDE DEF S
<1>1. Held(delivered, cache, buf, S)
  BY DEF S
<1>2. /\ Held(delivered', cache', events', S)
      /\ AllOf(delivered', cache', events') = AllOf(delivered, cache, buf)
  BY <1>1, FinishKeeps
<1>3. AllOf(delivered, cache, events)' = AllOf(delivered', cache', events')
  BY DEF AllOf, Elements
<1>4. Held(delivered, cache, events, OnSocket({"event"}))'
  BY <1>2 DEF S, Held, Distinct, Increasing, Before, Elements
<1> QED
  BY <1>2, <1>3, <1>4 DEF EventInv, S

\* The part of a step that decides what becomes of the events: a step either leaves
\* them alone, or moves them, and says where from and where to.
LEMMA NextEvent ==
  ASSUME TypeOK, EventInv, Next
  PROVE  EventInv'
<1> USE DEF TypeOK, conn, wire, buffers
<1>a. /\ inbox' = inbox => Shrunk
      /\ HasLine /\ Consume => Shrunk
      /\ DropPrefix => Shrunk
  BY SameShrinks, ConsumeShrinks, DropPrefixShrinks DEF Consume
<1>b. /\ Held(delivered, cache, events, OnSocket({"event"})) /\ IncreasingOnSocket({"event"})
      /\ AllOf(delivered, cache, events) \cup OnSocket({"event"}) \subseteq 1 .. Len(emitted)
  BY DEF EventInv
<1>c. ASSUME Shrunk, emitted' = emitted, NEW m, Finish(events, m)
      PROVE  EventInv'
  <2>1. OnSocket({"event"})' \subseteq OnSocket({"event"}) /\ IncreasingOnSocket({"event"})'
    BY <1>b, <1>c, ShrunkKeeps
  <2>2. Held(delivered, cache, events, OnSocket({"event"})')
    BY <1>b, <2>1, FewerHeld
  <2> QED
    BY <1>b, <1>c, <2>1, <2>2, FinishInOrder
<1>d. ASSUME inbox' = inbox, emitted' = emitted,
             Held(delivered', cache', events', OnSocket({"event"})),
             AllOf(delivered', cache', events') = AllOf(delivered, cache, events)
      PROVE  EventInv'
  <2>1. OnSocket({"event"})' = OnSocket({"event"}) /\ IncreasingOnSocket({"event"})'
    BY <1>b, <1>d DEF OnSocket, IncreasingOnSocket, Positions
  <2>2. AllOf(delivered, cache, events)' = AllOf(delivered', cache', events')
    BY DEF AllOf, Elements
  <2>3. Held(delivered, cache, events, OnSocket({"event"}))'
    BY <1>d, <2>1 DEF Held, Distinct, Increasing, Before, Elements
  <2> QED
    BY <1>b, <1>d, <2>1, <2>2, <2>3 DEF EventInv
<1>1. CASE PollEnds
  <2>1. Shrunk /\ emitted' = emitted
    BY <1>1, <1>a DEF PollEnds
  <2>2. CASE Block
    BY <2>1, <2>2, <1>1, QuietEvents DEF Block, PollEnds
  <2>3. CASE Finish(events, "blocking")
    BY <1>c, <2>1, <2>3
  <2> QED
    BY <1>1, <2>2, <2>3 DEF PollEnds
<1>2. CASE BlockRead
  <2>1. HasLine /\ Consume /\ inbox' = Tail(inbox) /\ emitted' = emitted
    BY <1>2 DEF BlockRead, Consume
  <2>2. CASE Next1.kind = "event"
    BY <1>2, <1>b, <2>1, <2>2, KeepRead, FinishInOrder DEF BlockRead
  <2>3. CASE Next1.kind # "event"
    BY <1>2, <1>a, <1>c, <2>1, <2>3 DEF BlockRead
  <2> QED
    BY <2>2, <2>3
<1>3. CASE BufferEvent
  <2> DEFINE b == Append(events, Next1.id)
             S == OnSocket({"event"})'
  <2>1. /\ HasLine /\ inbox' = Tail(inbox) /\ Next1.kind = "event" /\ events' = b
        /\ UNCHANGED <<cache, delivered, emitted>>
    BY <1>3 DEF BufferEvent, Consume
  <2>2. /\ Held(delivered, cache, b, S) /\ IncreasingOnSocket({"event"})'
        /\ AllOf(delivered, cache, b) \cup S \subseteq 1 .. Len(emitted)
    BY <1>b, <2>1, KeepRead
  <2> HIDE DEF b, S
  <2>3. Held(delivered, cache, events, OnSocket({"event"}))'
    <3>1. Held(delivered', cache', events', S)
      BY <2>1, <2>2
    <3> QED
      BY <3>1 DEF S, Held, Distinct, Increasing, Before, Elements
  <2>4. AllOf(delivered, cache, events)' = AllOf(delivered, cache, b)
    BY <2>1 DEF AllOf, Elements
  <2> QED
    BY <2>1, <2>2, <2>3, <2>4 DEF EventInv, S
<1>4. ASSUME NEW w \in Waits, GetQmpEvent(w)
      PROVE  EventInv'
  <2>1. inbox' = inbox /\ emitted' = emitted
    BY <1>4 DEF GetQmpEvent
  <2>2. CASE cache # <<>> /\ delivered' = Append(delivered, Head(cache)) /\ cache' = Tail(cache)
             /\ events' = events
    BY <1>b, <1>d, <2>1, <2>2, HandOut
  <2>3. CASE Pull
    BY <1>a, <2>1, <2>3, QuietEvents DEF Pull
  <2> QED
    BY <1>4, <2>2, <2>3 DEF GetQmpEvent
<1>5. ASSUME NEW ns, NEW w \in Waits, EventsWait(ns, w)
      PROVE  EventInv'
  <2>1. inbox' = inbox /\ emitted' = emitted
    BY <1>5 DEF EventsWait
  <2>2. CASE Matches(cache, ns) # {} /\ events' = events
             /\ delivered' = Append(delivered, cache[FirstMatch(cache, ns)])
             /\ cache' = Without(cache, FirstMatch(cache, ns))
    <3>1. FirstMatch(cache, ns) \in DOMAIN cache
      BY <2>2, FirstMatchIsMatch DEF Matches
    <3> QED
      BY <1>b, <1>d, <2>1, <2>2, <3>1, HandOutMatch
  <2>3. CASE Pull
    BY <1>a, <2>1, <2>3, QuietEvents DEF Pull
  <2> QED
    BY <1>5, <2>2, <2>3 DEF EventsWait
<1>6. CASE GreetingRead \/ CmdRead
  <2>1. HasLine /\ inbox' = Tail(inbox) /\ UNCHANGED <<events, cache, delivered, emitted>>
    BY <1>6 DEF GreetingRead, CmdRead, Consume
  <2> QED
    BY <2>1, ConsumeShrinks, QuietEvents
<1>7. CASE GreetingFails \/ CmdEOF \/ ReadRaises \/ ReadJunk \/ BlockFails
  BY <1>7, <1>a, QuietEvents DEF GreetingFails, CmdEOF, ReadRaises, ReadJunk, BlockFails
<1>8. CASE \/ \E negotiate \in BOOLEAN : Open(negotiate)
           \/ OpenFails \/ CmdSend \/ \E t \in Timeouts : SetTimeout(t)
           \/ \E w \in Waits : GetQmpEvents(w)
           \/ PeerRest
  BY <1>8, <1>a, QuietEvents DEF Open, OpenFails, CmdSend, SetTimeout, GetQmpEvents, Pull, PeerRest
<1>9. CASE Close
  BY <1>9, EmptyShrinks, QuietEvents DEF Close
<1>10. CASE PeerExit
  BY <1>10, ExitShrinks, QuietEvents DEF PeerExit
<1>11. CASE PeerGreet
  <2>1. [kind |-> "greeting", id |-> 0] \in Lines
    BY DEF Lines, Kinds
  <2> QED
    BY <1>11, <2>1, OtherLine DEF PeerGreet, Write
<1>12. ASSUME NEW a \in Answers, PeerReply(a)
       PROVE  EventInv'
  <2>1. [kind |-> a, id |-> Head(outbox)] \in Lines /\ a # "event"
    BY <1>12, HeadTailProperties DEF PeerReply, Lines, Kinds, Answers
  <2> QED
    BY <1>12, <2>1, OtherLine DEF PeerReply, Write
<1>13. ASSUME NEW n \in Names, PeerEmit(n)
       PROVE  EventInv'
  <2> DEFINE k == Len(emitted) + 1
             l == [kind |-> "event", id |-> k]
             S == OnSocket({"event"})
  <2>1. Len(emitted) \in Nat /\ emitted' = Append(emitted, n) /\ Len(emitted') = k
    BY <1>13, LenProperties, AppendProperties DEF PeerEmit
  <2>2. inbox' = Append(inbox, l) /\ l \in Lines /\ UNCHANGED <<events, cache, delivered>>
    BY <1>13, <2>1 DEF PeerEmit, Write, Lines, Kinds
  <2>3. \A x \in AllOf(delivered, cache, events) \cup S : x < k /\ x \in 1 .. k
    BY <1>b, <2>1
  <2>4. l.kind = "event" /\ l.id = k /\ Before(S, {k})
    BY <2>3 DEF Before
  <2> HIDE DEF l, k, S
  <2>5. OnSocket({"event"})' = S \cup {k} /\ IncreasingOnSocket({"event"})'
    BY <1>b, <2>2, <2>4, AppendIsLast DEF S
  <2>6. Held(delivered, cache, events, S \cup {k})
    <3>1. /\ Before(Elements(cache), {k}) /\ Before(Elements(events), {k})
          /\ k \notin Elements(delivered)
      <4>1. k \in Nat
        BY <2>1 DEF k
      <4> QED
        BY <2>3, <4>1 DEF Before, AllOf
    <3> QED
      BY <1>b, <3>1 DEF S, Held, Before
  <2>7. AllOf(delivered, cache, events) \cup (S \cup {k}) \subseteq 1 .. k
    <3>1. k \in 1 .. k
      BY <2>1 DEF k
    <3> QED
      BY <2>3, <3>1
  <2> QED
    BY <2>1, <2>2, <2>5, <2>6, <2>7 DEF EventInv
<1> QED
  BY <1>1, <1>2, <1>3, <1>4, <1>5, <1>6, <1>7, <1>8, <1>9, <1>10, <1>11, <1>12, <1>13
     DEF Next, ClientStep, CallerStep, PeerStep

\* Every event there was is there.
Complete == AllOf(delivered, cache, events) \cup OnSocket({"event"}) = 1 .. Len(emitted)

\* With whole lines nothing loses an event but close().
KeptInv ==
  /\ torn = FALSE
  /\ sock = "new" => emitted = <<>>
  /\ sock = "open" => Complete

\* A line can be lost only in part (qmp.py:82): if all are whole, all are kept.
LEMMA NextKept ==
  ASSUME ~TornLines, TypeOK, EventInv, KeptInv, Next
  PROVE  KeptInv'
<1> USE DEF TypeOK, conn, wire, buffers
<1> DEFINE S == OnSocket({"event"})
<1>0. TornLines = FALSE
  BY MonitorAssumption
<1>a. ASSUME inbox' = inbox \/ (DropPrefix /\ ~HasLine)
             \/ (HasLine /\ inbox' = Tail(inbox) /\ Next1.kind # "event")
      PROVE  OnSocket({"event"})' = S
  <2>1. CASE inbox' = inbox
    BY <2>1 DEF OnSocket, Positions
  <2>2. CASE DropPrefix /\ ~HasLine
    BY <2>1, <2>2 DEF DropPrefix, HasLine, KeptInv
  <2>3. CASE HasLine /\ inbox' = Tail(inbox) /\ Next1.kind # "event"
    BY <2>3, ConsumeElements
  <2> QED
    BY <1>a, <2>1, <2>2, <2>3
<1>b. Consume \/ DropPrefix => torn' = torn /\ (Consume => inbox' = Tail(inbox))
  BY DEF Consume, DropPrefix
<1>c. ASSUME torn' = FALSE, UNCHANGED <<sock, emitted, events, cache, delivered>>,
             OnSocket({"event"})' = S
      PROVE  KeptInv'
  BY <1>c DEF KeptInv, Complete, AllOf, Elements
<1>d. ASSUME torn' = FALSE, UNCHANGED <<sock, emitted>>,
             AllOf(delivered', cache', events') \cup OnSocket({"event"})'
               = AllOf(delivered, cache, events) \cup S
      PROVE  KeptInv'
  BY <1>d DEF KeptInv, Complete, AllOf, Elements
<1>e. \A l : Write(l) => torn' = FALSE
  BY <1>0 DEF Write
<1>f. \A m : Finish(events, m) =>
        AllOf(delivered', cache', events') = AllOf(delivered, cache, events)
  <2>1. ASSUME NEW m, Finish(events, m)
        PROVE  AllOf(delivered', cache', events') = AllOf(delivered, cache, events)
    BY <2>1, FinishKeeps DEF EventInv
  <2> QED
    BY <2>1
<1> HIDE DEF S
<1>1. CASE PollEnds
  <2>1. torn' = FALSE /\ OnSocket({"event"})' = S /\ UNCHANGED <<sock, emitted>>
    BY <1>1, <1>a, <1>b DEF PollEnds, RunsDry, KeptInv, Answers
  <2>2. CASE Block
    BY <1>c, <2>1, <2>2 DEF Block
  <2>3. CASE Finish(events, "blocking")
    BY <1>d, <1>f, <2>1, <2>3
  <2> QED
    BY <1>1, <2>2, <2>3 DEF PollEnds
<1>2. CASE BlockRead
  <2>1. /\ HasLine /\ inbox' = Tail(inbox) /\ torn' = FALSE /\ UNCHANGED <<sock, emitted>>
    BY <1>2, <1>b DEF BlockRead, KeptInv
  <2>2. CASE Next1.kind = "event"
    <3> DEFINE b == Append(events, Next1.id)
    <3>1. /\ b \in Seq(Nat) /\ Held(delivered, cache, b, OnSocket({"event"})')
          /\ AllOf(delivered, cache, b) \cup OnSocket({"event"})'
               = AllOf(delivered, cache, events) \cup S
      BY <2>1, <2>2, KeepRead DEF S
    <3>2. Finish(b, "blocking")
      BY <1>2, <2>2 DEF BlockRead
    <3> HIDE DEF b
    <3>3. AllOf(delivered', cache', events') = AllOf(delivered, cache, b)
      BY <3>1, <3>2, FinishKeeps
    <3> QED
      BY <1>d, <2>1, <3>1, <3>3
  <2>3. CASE Next1.kind # "event"
    <3>1. OnSocket({"event"})' = S /\ Finish(events, "blocking")
      BY <1>2, <1>a, <2>1, <2>3 DEF BlockRead
    <3> QED
      BY <1>d, <1>f, <2>1, <3>1
  <2> QED
    BY <2>2, <2>3
<1>3. CASE BufferEvent
  <2> DEFINE b == Append(events, Next1.id)
  <2>1. /\ HasLine /\ inbox' = Tail(inbox) /\ Next1.kind = "event" /\ events' = b
        /\ torn' = FALSE /\ UNCHANGED <<sock, emitted, cache, delivered>>
    BY <1>3, <1>b DEF BufferEvent, KeptInv
  <2>2. AllOf(delivered, cache, b) \cup OnSocket({"event"})'
          = AllOf(delivered, cache, events) \cup S
    BY <2>1, KeepRead DEF S
  <2> HIDE DEF b
  <2> QED
    BY <1>d, <2>1, <2>2
<1>4. ASSUME NEW w \in Waits, GetQmpEvent(w)
      PROVE  KeptInv'
  <2>1. torn' = FALSE /\ OnSocket({"event"})' = S /\ UNCHANGED <<sock, emitted>>
    BY <1>4, <1>a DEF GetQmpEvent, KeptInv
  <2>2. CASE cache # <<>> /\ delivered' = Append(delivered, Head(cache)) /\ cache' = Tail(cache)
             /\ events' = events
    <3>1. AllOf(delivered', cache', events') = AllOf(delivered, cache, events)
      BY <2>2, HandOut DEF EventInv
    <3> QED
      BY <1>d, <2>1, <3>1
  <2>3. CASE Pull
    BY <1>c, <2>1, <2>3 DEF Pull
  <2> QED
    BY <1>4, <2>2, <2>3 DEF GetQmpEvent
<1>5. ASSUME NEW ns, NEW w \in Waits, EventsWait(ns, w)
      PROVE  KeptInv'
  <2>1. torn' = FALSE /\ OnSocket({"event"})' = S /\ UNCHANGED <<sock, emitted>>
    BY <1>5, <1>a DEF EventsWait, KeptInv
  <2>2. CASE Matches(cache, ns) # {} /\ events' = events
             /\ delivered' = Append(delivered, cache[FirstMatch(cache, ns)])
             /\ cache' = Without(cache, FirstMatch(cache, ns))
    <3>1. FirstMatch(cache, ns) \in DOMAIN cache
      BY <2>2, FirstMatchIsMatch DEF Matches
    <3>2. AllOf(delivered', cache', events') = AllOf(delivered, cache, events)
      BY <2>2, <3>1, HandOutMatch DEF EventInv
    <3> QED
      BY <1>d, <2>1, <3>2
  <2>3. CASE Pull
    BY <1>c, <2>1, <2>3 DEF Pull
  <2> QED
    BY <1>5, <2>2, <2>3 DEF EventsWait
<1>6. CASE GreetingRead \/ CmdRead
  <2>1. /\ HasLine /\ inbox' = Tail(inbox) /\ Next1.kind # "event" /\ torn' = FALSE
        /\ UNCHANGED <<sock, events, cache, delivered, emitted>>
    BY <1>6 DEF GreetingRead, CmdRead, Consume, KeptInv, Answers
  <2> QED
    BY <1>a, <1>c, <2>1
<1>7. CASE GreetingFails \/ CmdEOF \/ ReadRaises \/ ReadJunk \/ BlockFails
  <2>1. torn' = FALSE /\ UNCHANGED <<sock, events, cache, delivered, emitted>>
    BY <1>7, <1>b DEF GreetingFails, CmdEOF, ReadRaises, ReadJunk, BlockFails, KeptInv
  <2>2. OnSocket({"event"})' = S
    BY <1>7, <1>a, <1>b
       DEF GreetingFails, CmdEOF, ReadRaises, ReadJunk, BlockFails, RunsDry, Answers
  <2> QED
    BY <1>c, <2>1, <2>2
<1>8. CASE \E negotiate \in BOOLEAN : Open(negotiate)
  <2>1. /\ emitted = <<>> /\ torn' = FALSE /\ sock' = "open" /\ inbox' = inbox
        /\ UNCHANGED <<events, cache, delivered, emitted>>
    BY <1>8 DEF Open, KeptInv
  <2>2. AllOf(delivered, cache, events) \cup S = {} /\ 1 .. Len(emitted) = {}
    BY <2>1 DEF EventInv, S
  <2>3. OnSocket({"event"})' = S
    BY <1>a, <2>1
  <2> QED
    BY <2>1, <2>2, <2>3 DEF KeptInv, Complete, AllOf, Elements
<1>9. CASE \/ OpenFails \/ CmdSend \/ \E t \in Timeouts : SetTimeout(t)
           \/ \E w \in Waits : GetQmpEvents(w)
           \/ PeerRest
  <2>1. /\ torn' = FALSE /\ inbox' = inbox
        /\ UNCHANGED <<sock, events, cache, delivered, emitted>>
    BY <1>9 DEF OpenFails, CmdSend, SetTimeout, GetQmpEvents, Pull, PeerRest, KeptInv
  <2> QED
    BY <1>a, <1>c, <2>1
<1>10. CASE Close
  BY <1>10 DEF Close, KeptInv
<1>11. CASE PeerExit
  <2>1. /\ torn' = FALSE /\ inbox' = inbox
        /\ UNCHANGED <<sock, events, cache, delivered, emitted>>
    BY <1>11 DEF PeerExit, KeptInv
  <2> QED
    BY <1>a, <1>c, <2>1
<1>12. CASE PeerGreet
  <2>1. [kind |-> "greeting", id |-> 0] \in Lines
    BY DEF Lines, Kinds
  <2>2. OnSocket({"event"})' = S
    BY <1>12, <2>1, OtherLine DEF PeerGreet, Write, S
  <2> QED
    BY <1>12, <1>c, <1>e, <2>2 DEF PeerGreet
<1>13. ASSUME NEW a \in Answers, PeerReply(a)
       PROVE  KeptInv'
  <2>1. [kind |-> a, id |-> Head(outbox)] \in Lines /\ a # "event"
    BY <1>13, HeadTailProperties DEF PeerReply, Lines, Kinds, Answers
  <2>2. OnSocket({"event"})' = S
    BY <1>13, <2>1, OtherLine DEF PeerReply, Write, S
  <2> QED
    BY <1>13, <1>c, <1>e, <2>2 DEF PeerReply
<1>14. ASSUME NEW n \in Names, PeerEmit(n)
       PROVE  KeptInv'
  <2> DEFINE k == Len(emitted) + 1
             l == [kind |-> "event", id |-> k]
  <2>1. Len(emitted) \in Nat /\ emitted' = Append(emitted, n) /\ Len(emitted') = k
    BY <1>14, LenProperties, AppendProperties DEF PeerEmit
  <2>2. /\ inbox' = Append(inbox, l) /\ l \in Lines /\ sock = "open" /\ torn' = FALSE
        /\ UNCHANGED <<sock, events, cache, delivered>>
    <3>1. l \in Lines
      BY <2>1 DEF Lines, Kinds
    <3>2. Write(l) /\ UNCHANGED <<sock, events, cache, delivered>>
      BY <1>14, <2>1 DEF PeerEmit
    <3> HIDE DEF l
    <3> QED
      BY <1>e, <3>1, <3>2 DEF Write
  <2>3. l.kind = "event" /\ l.id = k
    OBVIOUS
  <2>4. 1 .. k = (1 .. Len(emitted)) \cup {k}
    BY <2>1
  <2> HIDE DEF l, k
  <2>5. OnSocket({"event"})' = S \cup {k}
    BY <2>2, <2>3, AppendIsLast DEF S
  <2>6. AllOf(delivered, cache, events) \cup (S \cup {k}) = 1 .. Len(emitted')
    BY <2>1, <2>2, <2>4 DEF KeptInv, Complete, S
  <2>7. Complete'
    BY <2>2, <2>5, <2>6 DEF Complete, AllOf, Elements
  <2> QED
    BY <2>2, <2>7 DEF KeptInv
<1> QED
  BY <1>1, <1>2, <1>3, <1>4, <1>5, <1>6, <1>7, <1>8, <1>9, <1>10, <1>11, <1>12, <1>13, <1>14
     DEF Next, ClientStep, CallerStep, PeerStep

\* The invariants of the events together.
HeldInv == TypeOK /\ EventInv /\ (~TornLines => KeptInv)

\* What is delivered, kept and on its way, in every connection.
THEOREM EventsHeld == Spec => []HeldInv
<1>1. Init => HeldInv
  <2>1. Init => OnSocket({"event"}) = {} /\ IncreasingOnSocket({"event"})
    BY DEF Init, OnSocket, IncreasingOnSocket, Positions
  <2>2. Init => AllOf(delivered, cache, events) = {}
    BY EmptyElements DEF Init, AllOf
  <2>3. Init => Held(delivered, cache, events, {})
    <3>1. Distinct(<<>>)
      BY DEF Distinct
    <3> QED
      BY <3>1, EmptyElements DEF Init, Held, Before
  <2>4. Init => torn = FALSE /\ sock = "new" /\ emitted = <<>>
    BY DEF Init
  <2> QED
    BY <2>1, <2>2, <2>3, <2>4, InitTypeOK DEF HeldInv, EventInv, KeptInv
<1>2. HeldInv /\ [Next]_vars => HeldInv'
  <2> SUFFICES ASSUME TypeOK, EventInv, ~TornLines => KeptInv, [Next]_vars
               PROVE  TypeOK' /\ EventInv' /\ (~TornLines => KeptInv')
    BY DEF HeldInv
  <2>1. CASE Next
    BY <2>1, NextTypeOK, NextEvent, NextKept
  <2>2. CASE UNCHANGED vars
    <3>1. UNCHANGED <<sock, torn, inbox, events, cache, delivered, emitted>>
      BY <2>2 DEF vars, conn, wire, buffers
    <3>2. EventInv'
      <4>1. Shrunk
        BY <3>1, SameShrinks DEF TypeOK
      <4> QED
        BY <3>1, <4>1, QuietEvents
    <3>3. KeptInv => KeptInv'
      BY <3>1 DEF KeptInv, Complete, AllOf, Elements, OnSocket, Positions
    <3> QED
      BY <3>2, <3>3, NextTypeOK
  <2> QED
    BY <2>1, <2>2
<1> QED
  BY <1>1, <1>2, PTL DEF Spec

\* The queue of the machine, the cache of the protocol and the socket hold events in
\* order (machine.py:455-472), for any number of events and whatever times out.
THEOREM EventsInOrder == Spec => []PendingInOrder
<1>1. HeldInv => PendingInOrder
  BY DEF HeldInv, EventInv, Held, PendingInOrder
<1> QED
  BY <1>1, EventsHeld, PTL

\* If lines are whole, no event is lost or copied while the connection is open
\* (qmp.py:80-91, machine.py:462-472), timeouts or not.
THEOREM EventsKept ==
  ASSUME ~TornLines
  PROVE  Spec => []EventsConserved
<1>1. HeldInv => EventsConserved
  BY DEF HeldInv, EventInv, KeptInv, Complete, Held, AllOf, Distinct, EventsConserved, Pending
<1> QED
  BY <1>1, EventsHeld, PTL

-----------------------------------------------------------------------------
(* Which event a call returns *)

\* A call that reads from the socket has found nothing in the queue of the machine
\* (machine.py:387-391, 461-465).
SearchInv ==
  pc \in {"poll", "block"} =>
    /\ api = "event" => cache = <<>>
    /\ api = "wait" => \A i \in DOMAIN cache : emitted[cache[i]] \notin names

\* The head of a list is the oldest of it and of what comes after it.
LEMMA HeadIsOldest ==
  ASSUME NEW seq \in Seq(Nat), seq # <<>>, Increasing(seq), NEW S,
         Before(Elements(seq), S), NEW x \in Elements(seq) \cup S
  PROVE  Head(seq) <= x \/ Head(seq) < x
<1>1. Head(seq) \in Nat /\ Head(seq) \in Elements(seq) /\ Before({Head(seq)}, Elements(Tail(seq)))
      /\ Elements(seq) = Elements(Tail(seq)) \cup {Head(seq)}
  BY HeadTailProperties, TailElements
<1> QED
  BY <1>1 DEF Before

\* The first match of a search is before all others (machine.py:461-465).
LEMMA FirstMatchIsFirst ==
  ASSUME NEW seq \in Seq(Nat), NEW ns, NEW j \in Matches(seq, ns)
  PROVE  FirstMatch(seq, ns) <= j
<1>1. Matches(seq, ns) \in SUBSET Nat
  BY LenProperties DEF Matches
<1>2. PICK i \in Matches(seq, ns) : \A k \in Matches(seq, ns) : i <= k
  BY <1>1, FirstOfSome
<1> QED
  BY <1>2 DEF FirstMatch

\* A search goes on with what it has found already (machine.py:455-472).
LEMMA NextSearch ==
  ASSUME TypeOK, EventInv, SearchInv, Next
  PROVE  SearchInv'
<1> USE DEF TypeOK, conn, wire, buffers, call
<1>a. \A o : Return(o) => pc' = "idle"
  BY DEF Return
<1>b. \A w \in Waits : GetQmpEvent(w) => SearchInv'
  BY <1>a DEF GetQmpEvent, Call, Pull, SearchInv
<1>c. ASSUME NEW buf \in Seq(Nat), Finish(buf, "blocking"),
             pc \in {"poll", "block"}, UNCHANGED <<api, names, emitted>>
      PROVE  SearchInv'
  <2>1. CASE pc' = "idle"
    BY <2>1 DEF SearchInv
  <2>2. CASE api = "wait" /\ buf # <<>> /\ emitted[Head(buf)] \notin names /\ FinishWaitOther(buf)
    <3> DEFINE e == Head(buf)
               n == Len(cache) + 1
    <3>1. e \in Nat /\ cache' = Append(cache, e) /\ emitted[e] \notin names
      BY <2>2, HeadTailProperties DEF FinishWaitOther
    <3> HIDE DEF e
    <3>2. Len(cache) \in Nat /\ DOMAIN cache = 1 .. Len(cache)
      BY LenProperties
    <3>3. /\ cache' \in Seq(Nat) /\ Len(cache') = n /\ cache'[n] = e
          /\ \A i \in DOMAIN cache : cache'[i] = cache[i]
      BY <3>1, <3>2, AppendProperties
    <3>4. DOMAIN cache' = DOMAIN cache \cup {n}
      <4>1. DOMAIN cache' = 1 .. n
        BY <3>3, LenProperties
      <4>2. \A k \in Nat : 1 .. k + 1 = (1 .. k) \cup {k + 1}
        OBVIOUS
      <4> QED
        BY <3>2, <4>1, <4>2
    <3>5. \A i \in DOMAIN cache : emitted[cache[i]] \notin names
      BY <1>c, <2>2 DEF SearchInv
    <3> HIDE DEF n
    <3>6. \A i \in DOMAIN cache' : emitted[cache'[i]] \notin names
      BY <3>1, <3>3, <3>4, <3>5
    <3> QED
      BY <1>c, <2>2, <3>6 DEF SearchInv
  <2> QED
    BY <1>a, <1>c, <2>1, <2>2 DEF Finish, FinishEvent, FinishEvents, FinishWait
<1>d. UNCHANGED <<api, names, cache, emitted>> /\ (pc' \in {"poll", "block"} => pc \in {"poll", "block"})
        => SearchInv'
  BY DEF SearchInv
<1>1. CASE PollEnds
  <2>1. pc = "poll" /\ UNCHANGED <<api, names, emitted>>
    BY <1>1 DEF PollEnds
  <2>2. CASE Block
    BY <1>d, <2>1, <2>2 DEF Block
  <2>3. CASE Finish(events, "blocking")
    BY <1>c, <2>1, <2>3
  <2> QED
    BY <1>1, <2>2, <2>3 DEF PollEnds
<1>2. CASE BlockRead
  <2>1. pc = "block" /\ HasLine /\ UNCHANGED <<api, names, emitted>>
    BY <1>2 DEF BlockRead
  <2>2. Append(events, Next1.id) \in Seq(Nat)
    <3>1. Next1.id \in Nat
      BY <2>1, LineType DEF Lines
    <3> QED
      BY <3>1, AppendProperties
  <2> QED
    BY <1>2, <1>c, <2>1, <2>2 DEF BlockRead
<1>3. ASSUME NEW ns, NEW w \in Waits, EventsWait(ns, w)
      PROVE  SearchInv'
  <2>1. api' = "wait" /\ names' = ns /\ emitted' = emitted
    BY <1>3 DEF EventsWait, Call
  <2>2. CASE Return("event")
    BY <1>a, <2>2 DEF SearchInv
  <2>3. CASE Matches(cache, ns) = {} /\ Pull
    <3>1. \A i \in DOMAIN cache : emitted[cache[i]] \notin ns
      BY <2>3 DEF Matches
    <3> QED
      BY <2>1, <2>3, <3>1 DEF Pull, SearchInv
  <2> QED
    BY <1>3, <2>2, <2>3 DEF EventsWait
<1>4. CASE \E w \in Waits : GetQmpEvents(w)
  BY <1>4 DEF GetQmpEvents, Call, SearchInv
<1>5. CASE GreetingRead
  <2>1. pc' \in {"cmd", "idle"}
    BY <1>5, <1>a DEF GreetingRead, Send
  <2> QED
    BY <2>1 DEF SearchInv
<1>6. CASE CmdSend
  <2>1. pc' \in {"cmd", "idle"}
    BY <1>6, <1>a DEF CmdSend, Send
  <2> QED
    BY <2>1 DEF SearchInv
<1>7. CASE \E negotiate \in BOOLEAN : Open(negotiate)
  <2>1. pc' \in {"greeting", "idle"}
    BY <1>7, <1>a DEF Open
  <2> QED
    BY <2>1 DEF SearchInv
<1>8. CASE GreetingFails \/ CmdRead \/ CmdEOF \/ ReadRaises \/ ReadJunk \/ BlockFails
  BY <1>8, <1>a DEF GreetingFails, CmdRead, CmdEOF, ReadRaises, ReadJunk, BlockFails, SearchInv
<1>9. CASE OpenFails \/ (\E t \in Timeouts : SetTimeout(t)) \/ Close
  BY <1>9, <1>a DEF OpenFails, SetTimeout, Close, SearchInv
<1>10. CASE BufferEvent \/ PeerRest \/ PeerExit \/ PeerGreet \/ \E a \in Answers : PeerReply(a)
  BY <1>10, <1>d DEF BufferEvent, PeerRest, PeerExit, PeerGreet, PeerReply
<1>11. ASSUME NEW n \in Names, PeerEmit(n)
       PROVE  SearchInv'
  <2>1. emitted' = Append(emitted, n) /\ UNCHANGED <<api, names, cache, pc>>
    BY <1>11 DEF PeerEmit
  <2>2. \A i \in DOMAIN cache : cache[i] \in 1 .. Len(emitted)
    BY DEF EventInv, AllOf, Elements
  <2>3. \A i \in DOMAIN cache : emitted'[cache[i]] = emitted[cache[i]]
    BY <2>1, <2>2, AppendProperties, LenProperties
  <2> QED
    BY <2>1, <2>3 DEF SearchInv
<1> QED
  BY <1>b, <1>1, <1>2, <1>3, <1>4, <1>5, <1>6, <1>7, <1>8, <1>9, <1>10, <1>11
     DEF Next, ClientStep, CallerStep, PeerStep

\* The step of OldestFirst.
TakesOldest ==
  api' \in {"event", "wait"} /\ delivered' # delivered =>
    LET new == delivered'[Len(delivered')] IN
    \A e \in Pending : api' = "event" \/ emitted[e] \in names' => new <= e

\* One event is handed out: the last of delivered'.
LEMMA LastDelivered ==
  ASSUME delivered \in Seq(Nat), NEW e \in Nat, delivered' = Append(delivered, e)
  PROVE  delivered'[Len(delivered')] = e
BY AppendProperties, LenProperties

\* The end of a call of the event API hands out the oldest (qmp.py:218-219,
\* machine.py:467-472).
LEMMA FinishOldest ==
  ASSUME TypeOK, SearchInv, NEW buf \in Seq(Nat), NEW S, Finish(buf, "blocking"),
         Held(delivered, cache, buf, S), UNCHANGED <<api, names>>, pc \in {"poll", "block"},
         Pending \subseteq Elements(cache) \cup Elements(buf) \cup S,
         S \subseteq Nat
  PROVE  TakesOldest
<1> SUFFICES ASSUME api \in {"event", "wait"}, delivered' # delivered,
                    NEW x \in Pending, api = "event" \/ emitted[x] \in names
             PROVE  delivered'[Len(delivered')] <= x
  BY DEF TakesOldest
<1>1. /\ buf # <<>> /\ delivered' = Append(delivered, Head(buf))
      /\ api = "event" \/ (api = "wait" /\ emitted[Head(buf)] \in names)
  BY DEF Finish, FinishEvent, FinishEvents, FinishWait, FinishWaitOther
<1>2. x \notin Elements(cache)
  BY DEF SearchInv, Elements
<1>3. Head(buf) \in Nat /\ \A y \in Elements(buf) : y \in Nat
  BY <1>1, HeadTailProperties, LenProperties, ElementOfSeq DEF Elements
<1>4. Head(buf) <= x
  <2>1. x \in Elements(buf) \cup S
    BY <1>2
  <2>2. Head(buf) <= x \/ Head(buf) < x
    BY <1>1, <2>1, HeadIsOldest DEF Held
  <2>3. x \in Nat
    BY <1>3, <2>1
  <2> QED
    BY <1>3, <2>2, <2>3
<1> QED
  BY <1>1, <1>3, <1>4, LastDelivered DEF TypeOK

\* Every step hands out the oldest event that its call looks for.
LEMMA NextOldest ==
  ASSUME TypeOK, EventInv, SearchInv, Next
  PROVE  TakesOldest
<1> USE DEF TypeOK, conn, wire, buffers, call
<1> DEFINE S == OnSocket({"event"})
<1>a. delivered' = delivered => TakesOldest
  BY DEF TakesOldest
<1>b. Held(delivered, cache, events, S) /\ S \subseteq Nat
  <2>1. 1 .. Len(emitted) \subseteq Nat
    BY LenProperties
  <2> QED
    BY <2>1 DEF EventInv
<1>c. \A x \in Elements(cache) \cup Elements(events) : x \in Nat
  BY LenProperties, ElementOfSeq DEF Elements
<1>1. CASE PollEnds
  <2>1. CASE Block
    BY <1>a, <2>1 DEF Block
  <2>2. CASE Finish(events, "blocking")
    <3>1. pc \in {"poll", "block"} /\ UNCHANGED <<api, names>>
      BY <1>1 DEF PollEnds
    <3>2. Pending \subseteq Elements(cache) \cup Elements(events) \cup S
      BY DEF Pending
    <3> HIDE DEF S
    <3> QED
      BY <1>b, <2>2, <3>1, <3>2, FinishOldest
  <2> QED
    BY <1>1, <2>1, <2>2 DEF PollEnds
<1>2. CASE BlockRead
  <2>1. /\ pc \in {"poll", "block"} /\ UNCHANGED <<api, names>>
        /\ HasLine /\ inbox' = Tail(inbox)
    BY <1>2 DEF BlockRead, Consume
  <2>2. CASE Next1.kind = "event"
    <3> DEFINE b == Append(events, Next1.id)
               T == OnSocket({"event"})'
    <3>1. b \in Seq(Nat) /\ Held(delivered, cache, b, T)
      BY <2>1, <2>2, KeepRead
    <3>2. S = T \cup {Next1.id} /\ Elements(b) = Elements(events) \cup {Next1.id}
      BY <2>1, <2>2, ConsumeElements, AppendElements, LineType DEF Lines
    <3>3. Finish(b, "blocking")
      BY <1>2, <2>2 DEF BlockRead
    <3>4. Pending \subseteq Elements(cache) \cup Elements(b) \cup T /\ T \subseteq Nat
      BY <1>b, <3>2 DEF Pending
    <3> HIDE DEF S, T, b
    <3> QED
      BY <2>1, <3>1, <3>3, <3>4, FinishOldest
  <2>3. CASE Next1.kind # "event"
    <3>1. Finish(events, "blocking")
      BY <1>2, <2>3 DEF BlockRead
    <3>2. Pending \subseteq Elements(cache) \cup Elements(events) \cup S
      BY DEF Pending
    <3> HIDE DEF S
    <3> QED
      BY <1>b, <2>1, <3>1, <3>2, FinishOldest
  <2> QED
    BY <2>2, <2>3
<1>3. ASSUME NEW w \in Waits, GetQmpEvent(w)
      PROVE  TakesOldest
  <2>1. CASE cache # <<>> /\ delivered' = Append(delivered, Head(cache))
    <3>1. Head(cache) \in Nat /\ delivered'[Len(delivered')] = Head(cache)
      BY <2>1, HeadTailProperties, LastDelivered
    <3>2. ASSUME NEW x \in Pending
          PROVE  Head(cache) <= x
      <4>1. x \in Elements(cache) \cup (Elements(events) \cup S) /\ x \in Nat
        BY <1>b, <1>c, <3>2 DEF Pending
      <4>2. Head(cache) <= x \/ Head(cache) < x
        BY <1>b, <2>1, <4>1, HeadIsOldest DEF Held
      <4> QED
        BY <3>1, <4>1, <4>2
    <3> QED
      BY <3>1, <3>2 DEF TakesOldest
  <2>2. CASE Pull
    BY <1>a, <2>2 DEF Pull
  <2> QED
    BY <1>3, <2>1, <2>2 DEF GetQmpEvent
<1>4. ASSUME NEW ns, NEW w \in Waits, EventsWait(ns, w)
      PROVE  TakesOldest
  <2> DEFINE i == FirstMatch(cache, ns)
  <2>1. CASE Matches(cache, ns) # {} /\ delivered' = Append(delivered, cache[i])
    <3>1. i \in Matches(cache, ns) /\ i \in DOMAIN cache
      BY <2>1, FirstMatchIsMatch DEF Matches
    <3>2. i \in Nat /\ cache[i] \in Nat /\ cache[i] \in Elements(cache)
      BY <3>1, LenProperties, ElementOfSeq DEF Elements
    <3>3. \A j \in Matches(cache, ns) : i <= j
      BY FirstMatchIsFirst
    <3> HIDE DEF i
    <3>4. delivered'[Len(delivered')] = cache[i]
      BY <2>1, <3>2, LastDelivered
    <3>5. ASSUME NEW x \in Pending, emitted[x] \in ns
          PROVE  cache[i] <= x
      <4>1. CASE x \in Elements(cache)
        <5>1. PICK j \in DOMAIN cache : x = cache[j]
          BY <4>1 DEF Elements
        <5>2. i <= j /\ j \in Nat /\ cache[j] \in Nat
          BY <3>3, <3>5, <5>1, LenProperties, ElementOfSeq DEF Matches
        <5>3. i = j \/ i < j
          BY <3>2, <5>2
        <5>4. cache[i] = cache[j] \/ cache[i] < cache[j]
          BY <1>b, <3>1, <5>1, <5>3 DEF Held, Increasing
        <5> QED
          BY <3>2, <5>1, <5>2, <5>4
      <4>2. CASE x \in Elements(events) \cup S
        <5>1. cache[i] < x /\ x \in Nat
          BY <1>b, <1>c, <3>2, <4>2 DEF Held, Before
        <5> QED
          BY <3>2, <5>1
      <4> QED
        BY <3>5, <4>1, <4>2 DEF Pending
    <3>6. api' = "wait" /\ names' = ns
      BY <1>4 DEF EventsWait, Call
    <3> QED
      BY <3>4, <3>5, <3>6 DEF TakesOldest
  <2>2. CASE Pull
    BY <1>a, <2>2 DEF Pull
  <2> QED
    BY <1>4, <2>1, <2>2 DEF EventsWait
<1>5. CASE \/ GreetingRead \/ GreetingFails \/ CmdRead \/ CmdEOF \/ ReadRaises
           \/ BufferEvent \/ ReadJunk \/ BlockFails
  BY <1>5, <1>a DEF GreetingRead, GreetingFails, CmdRead, CmdEOF, ReadRaises, BufferEvent,
     ReadJunk, BlockFails
<1>6. CASE \/ \E negotiate \in BOOLEAN : Open(negotiate)
           \/ OpenFails \/ CmdSend \/ \E w \in Waits : GetQmpEvents(w)
           \/ \E t \in Timeouts : SetTimeout(t)
           \/ Close
  BY <1>6, <1>a DEF Open, OpenFails, CmdSend, GetQmpEvents, Pull, SetTimeout, Close
<1>7. CASE PeerStep
  BY <1>7, <1>a DEF PeerStep, PeerGreet, PeerReply, PeerEmit, PeerRest, PeerExit
<1> QED
  BY <1>1, <1>2, <1>3, <1>4, <1>5, <1>6, <1>7 DEF Next, ClientStep, CallerStep

\* What a search has found stays so until the call ends (machine.py:455-472).
LEMMA SearchHolds == Spec => []SearchInv
<1>1. Init => SearchInv
  BY DEF Init, SearchInv
<1>2. HeldInv /\ SearchInv /\ [Next]_vars => SearchInv'
  <2> SUFFICES ASSUME TypeOK, EventInv, SearchInv, [Next]_vars
               PROVE  SearchInv'
    BY DEF HeldInv
  <2>1. UNCHANGED vars => SearchInv'
    BY DEF vars, call, buffers, SearchInv
  <2> QED
    BY <2>1, NextSearch
<1> QED
  BY <1>1, <1>2, EventsHeld, PTL DEF Spec

\* get_qmp_event() and events_wait() (machine.py:385-391, 434-472) return the oldest
\* event they look for, in whichever of the three places it is.
THEOREM OldestIsFirst == Spec => OldestFirst
<1>1. HeldInv /\ SearchInv /\ [Next]_vars => [TakesOldest]_vars
  <2> SUFFICES ASSUME TypeOK, EventInv, SearchInv, Next
               PROVE  TakesOldest
    BY DEF HeldInv
  <2> QED
    BY NextOldest
<1>2. Spec => [][TakesOldest]_vars
  BY <1>1, SearchHolds, EventsHeld, PTL DEF Spec
<1> QED
  BY <1>2 DEF OldestFirst, TakesOldest

-----------------------------------------------------------------------------
(* The client implements MonitorService *)

\* A call is in progress only on an open connection, and no command precedes it
\* (qmp.py:131-151).
OpenInv ==
  /\ pc # "idle" => sock = "open"
  /\ sock = "new" => ncmds = 0

\* connect() and accept() open, close() closes, and neither while a call is running.
LEMMA NextOpen ==
  ASSUME OpenInv, Next
  PROVE  OpenInv'
<1> USE DEF OpenInv, conn, wire, call, buffers
<1>1. CASE ClientStep
  <2>1. sock = "open" /\ sock' = sock
    BY <1>1 DEF ClientStep, GreetingRead, GreetingFails, CmdRead, CmdEOF, ReadRaises,
       BufferEvent, ReadJunk, PollEnds, BlockRead, BlockFails
  <2> QED
    BY <2>1
<1>2. CASE CallerStep
  <2>1. CASE \E negotiate \in BOOLEAN : Open(negotiate)
    BY <2>1 DEF Open
  <2>2. CASE Close
    BY <2>2 DEF Close, Return
  <2>3. CASE CmdSend
    BY <2>3 DEF CmdSend, Send, Return
  <2>4. CASE \/ \E w \in Waits : GetQmpEvent(w) \/ GetQmpEvents(w)
             \/ \E ns \in SUBSET Names \ {{}} : \E w \in Waits : EventsWait(ns, w)
    BY <2>4 DEF GetQmpEvent, GetQmpEvents, EventsWait, Pull, Return
  <2>5. CASE OpenFails \/ \E t \in Timeouts : SetTimeout(t)
    BY <2>5 DEF OpenFails, SetTimeout, Return
  <2> QED
    BY <1>2, <2>1, <2>2, <2>3, <2>4, <2>5 DEF CallerStep
<1>3. CASE PeerStep
  BY <1>3 DEF PeerStep, PeerGreet, PeerReply, PeerEmit, PeerRest, PeerExit
<1> QED
  BY <1>1, <1>2, <1>3 DEF Next

\* What is handed out stays so (qmp.py:210-219, machine.py:385-472).
LEMMA DeliveredGrows ==
  ASSUME TypeOK, Next
  PROVE  Elements(delivered) \subseteq Elements(delivered')
<1> USE DEF TypeOK, buffers
<1>1. CASE delivered' = delivered
  BY <1>1
<1>2. CASE \E e \in Nat : delivered' = Append(delivered, e)
  <2>1. PICK e \in Nat : delivered' = Append(delivered, e)
    BY <1>2
  <2>2. Elements(Append(delivered, e)) = Elements(delivered) \cup {e}
    BY AppendElements
  <2> QED
    BY <2>1, <2>2
<1>a. \A seq \in Seq(Nat) : seq # <<>> => Head(seq) \in Nat
  BY HeadTailProperties
<1>b. ASSUME NEW buf \in Seq(Nat), NEW m, Finish(buf, m)
      PROVE  Elements(delivered) \subseteq Elements(delivered')
  <2>1. CASE delivered' = (delivered \o buf) \o cache
    <3>1. /\ delivered \o buf \in Seq(Nat)
          /\ Elements(delivered \o buf) = Elements(delivered) \cup Elements(buf)
      BY ConcatProperties, ConcatElements
    <3>2. Elements((delivered \o buf) \o cache) = Elements(delivered \o buf) \cup Elements(cache)
      BY <3>1, ConcatElements
    <3> QED
      BY <2>1, <3>1, <3>2
  <2>2. CASE delivered' # (delivered \o buf) \o cache
    <3>1. delivered' = delivered \/ (buf # <<>> /\ delivered' = Append(delivered, Head(buf)))
      BY <1>b, <2>2 DEF Finish, FinishEvent, FinishEvents, FinishWait, FinishWaitOther
    <3> QED
      BY <1>1, <1>2, <1>a, <3>1
  <2> QED
    BY <2>1, <2>2
<1>3. CASE PollEnds
  BY <1>3, <1>1, <1>b DEF PollEnds, Block
<1>4. CASE BlockRead
  <2>1. HasLine => Append(events, Next1.id) \in Seq(Nat)
    BY LineType, AppendProperties DEF Lines
  <2> QED
    BY <1>4, <1>b, <2>1 DEF BlockRead
<1>5. ASSUME NEW w \in Waits, GetQmpEvent(w)
      PROVE  Elements(delivered) \subseteq Elements(delivered')
  BY <1>5, <1>1, <1>2, <1>a DEF GetQmpEvent, Pull
<1>6. ASSUME NEW ns, NEW w \in Waits, EventsWait(ns, w)
      PROVE  Elements(delivered) \subseteq Elements(delivered')
  <2>1. CASE Matches(cache, ns) # {} /\ delivered' = Append(delivered, cache[FirstMatch(cache, ns)])
    <3>1. FirstMatch(cache, ns) \in DOMAIN cache
      BY <2>1, FirstMatchIsMatch DEF Matches
    <3>2. cache[FirstMatch(cache, ns)] \in Nat
      BY <3>1, LenProperties, ElementOfSeq
    <3> QED
      BY <2>1, <3>2, <1>2
  <2> QED
    BY <1>6, <1>1, <2>1 DEF EventsWait, Pull
<1>7. CASE \/ GreetingRead \/ GreetingFails \/ CmdRead \/ CmdEOF \/ ReadRaises
           \/ BufferEvent \/ ReadJunk \/ BlockFails
  BY <1>7, <1>1 DEF GreetingRead, GreetingFails, CmdRead, CmdEOF, ReadRaises,
     BufferEvent, ReadJunk, BlockFails
<1>8. CASE \/ \E negotiate \in BOOLEAN : Open(negotiate)
           \/ OpenFails \/ CmdSend \/ Close \/ \E t \in Timeouts : SetTimeout(t)
           \/ \E w \in Waits : GetQmpEvents(w)
  BY <1>8, <1>1 DEF Open, OpenFails, CmdSend, Close, SetTimeout, GetQmpEvents, Pull
<1>9. CASE PeerStep
  BY <1>9, <1>1 DEF PeerStep, PeerGreet, PeerReply, PeerEmit, PeerRest, PeerExit
<1> QED
  BY <1>3, <1>4, <1>5, <1>6, <1>7, <1>8, <1>9 DEF Next, ClientStep, CallerStep

\* What a step does to the events, told to the abstract service: it takes some.
Takes(S) ==
  /\ S \in SUBSET Pending
  /\ Pending' = Pending \ S
  /\ Elements(delivered') = Elements(delivered) \cup S

\* Events that are neither lost nor emitted are where they were, or taken.
LEMMA EventsMove ==
  ASSUME NEW D, NEW P, NEW DD, NEW PP, D \cap P = {}, DD \cap PP = {},
         D \cup P = DD \cup PP, D \subseteq DD
  PROVE  DD \ D \in SUBSET P /\ PP = P \ (DD \ D) /\ DD = D \cup (DD \ D)
OBVIOUS

\* Where the events are is known before and after a step.
LEMMA WhereEventsAre ==
  ASSUME EventInv
  PROVE  /\ Elements(delivered) \cap Pending = {}
         /\ AllOf(delivered, cache, events) \cup OnSocket({"event"}) = Elements(delivered) \cup Pending
BY DEF EventInv, Held, AllOf, Pending

\* A step that emits no event, on an open connection or one that stays as it is, hands
\* out some of the events or none (qmp.py:80-129, machine.py:385-472).
LEMMA NextTakes ==
  ASSUME ~TornLines, HeldInv, HeldInv', Next, emitted' = emitted,
         \/ sock' = "open"
         \/ inbox' = inbox /\ AllOf(delivered', cache', events') = AllOf(delivered, cache, events),
         sock' = sock
  PROVE  \E S : Takes(S)
<1> DEFINE D == Elements(delivered)
           DD == Elements(delivered')
           PP == Pending'
<1>1. D \cap Pending = {}
  BY WhereEventsAre DEF HeldInv
<1>2. DD \cap PP = {}
  BY DEF HeldInv, EventInv, Held, Pending, Elements
<1>3. D \subseteq DD
  BY DeliveredGrows DEF HeldInv
<1>4. D \cup Pending = DD \cup PP
  <2>1. CASE sock' = "open"
    <3>1. D \cup Pending = 1 .. Len(emitted)
      BY <2>1, WhereEventsAre DEF HeldInv, KeptInv, Complete
    <3>2. DD \cup PP = 1 .. Len(emitted')
      BY <2>1 DEF HeldInv, KeptInv, Complete, AllOf, Pending, Elements
    <3> QED
      BY <3>1, <3>2
  <2>2. CASE inbox' = inbox /\ AllOf(delivered', cache', events') = AllOf(delivered, cache, events)
    <3>1. OnSocket({"event"})' = OnSocket({"event"})
      BY <2>2 DEF OnSocket, Positions
    <3>2. D \cup Pending = AllOf(delivered, cache, events) \cup OnSocket({"event"})
      BY DEF AllOf, Pending
    <3>3. DD \cup PP = AllOf(delivered', cache', events') \cup OnSocket({"event"})'
      BY DEF AllOf, Pending, Elements
    <3> QED
      BY <2>2, <3>1, <3>2, <3>3
  <2> QED
    BY <2>1, <2>2
<1> HIDE DEF D, DD, PP
<1>5. /\ DD \ D \in SUBSET Pending /\ PP = Pending \ (DD \ D)
      /\ DD = D \cup (DD \ D)
  BY <1>1, <1>2, <1>3, <1>4, EventsMove
<1> QED
  BY <1>5 DEF Takes, D, DD, PP

\* Taking events is a step of the service, as long as no command is sent or answered.
LEMMA TakesIsAllowed ==
  ASSUME \E S : Takes(S), UNCHANGED <<sock, ncmds, got, emitted>>,
         pc = "cmd" <=> pc' = "cmd"
  PROVE  [Service!Next]_Service!vars
<1>1. PICK S : Takes(S)
  OBVIOUS
<1>2. /\ (sock' = "open") = (sock = "open") /\ (pc' = "cmd") = (pc = "cmd")
      /\ Len(emitted') = Len(emitted)
  OBVIOUS
<1>3. CASE S = {}
  <2>1. Pending' = Pending /\ Elements(delivered') = Elements(delivered)
    BY <1>1, <1>3 DEF Takes
  <2>2. UNCHANGED Service!vars
    BY <1>2, <2>1 DEF Service!vars, Elements
  <2> QED
    BY <2>2
<1>4. CASE S # {}
  <2>1. Service!Take(S) /\ S \in SUBSET Pending
    BY <1>1, <1>2, <1>4 DEF Takes, Service!Take, Elements
  <2> QED
    BY <2>1 DEF Service!Next
<1> QED
  BY <1>3, <1>4

\* If nothing is handed out, nothing is taken.
LEMMA NothingTaken ==
  ASSUME \E S : Takes(S), delivered' = delivered, EventInv
  PROVE  Pending' = Pending /\ Elements(delivered)' = Elements(delivered)
<1>1. PICK S : Takes(S)
  OBVIOUS
<1>2. S = {}
  BY <1>1, WhereEventsAre DEF Takes
<1> QED
  BY <1>1, <1>2 DEF Takes, Elements

\* Each step of the client and of QEMU is a step of the service or changes nothing
\* that its users see.
LEMMA NextMaps ==
  ASSUME NoTimeouts, TypeOK, OrderInv, OwnInv, HeldInv, HeldInv', OpenInv, Next
  PROVE  [Service!Next]_Service!vars
<1> USE DEF conn, wire, call, buffers
<1>a. ~TornLines /\ ModeInv /\ InStep /\ EventInv
  BY DEF NoTimeouts, OwnInv, HeldInv
<1>b. ASSUME sock = "open", UNCHANGED <<sock, emitted>>
      PROVE  \E S : Takes(S)
  BY <1>a, <1>b, NextTakes
<1>c. ASSUME inbox' = inbox, UNCHANGED <<sock, emitted>>,
             AllOf(delivered', cache', events') = AllOf(delivered, cache, events)
      PROVE  \E S : Takes(S)
  BY <1>a, <1>c, NextTakes
<1>d. \A o : Return(o) => pc' = "idle"
  BY DEF Return
<1>1. CASE CmdRead
  <2>1. /\ pc = "cmd" /\ pc' = "idle" /\ HasLine /\ inbox' = Tail(inbox) /\ got' = Next1.id
        /\ UNCHANGED <<sock, ncmds, emitted, delivered>> /\ sock = "open"
        /\ Next1.kind \in Answers \cup {"greeting"}
    BY <1>1, <1>d DEF CmdRead, Consume, OpenInv
  <2>2. Pending' = Pending /\ Elements(delivered)' = Elements(delivered)
    BY <1>a, <1>b, <2>1, NothingTaken
  <2>3. got' = ncmds
    <3>1. Next1.kind \notin {"greeting"}
      <4>1. Next1.kind \in {"greeting"} => OnSocket({"greeting"}) # {}
        BY <2>1, ConsumeElements DEF TypeOK
      <4> QED
        BY <1>a, <2>1, <4>1 DEF InStep
    <3>2. Next1.kind \in Answers
      BY <2>1, <3>1
    <3>3. Next1.id \in OnSocket(Answers)
      BY <2>1, <3>2, ConsumeElements DEF TypeOK
    <3> QED
      BY <1>a, <2>1, <3>3 DEF InStep
  <2>4. Service!Answer
    BY <2>1, <2>2, <2>3 DEF Service!Answer
  <2> QED
    BY <2>4 DEF Service!Next
<1>2. CASE CmdEOF
  <2>1. /\ pc = "cmd" /\ pc' = "idle" /\ UNCHANGED <<sock, ncmds, got, emitted, delivered>>
        /\ sock = "open"
    BY <1>2, <1>d DEF CmdEOF, OpenInv
  <2>2. Pending' = Pending /\ Elements(delivered)' = Elements(delivered)
    BY <1>a, <1>b, <2>1, NothingTaken
  <2>3. Service!NoAnswer
    BY <2>1, <2>2 DEF Service!NoAnswer
  <2> QED
    BY <2>3 DEF Service!Next
<1>3. CASE ReadRaises \/ ReadJunk
  BY <1>3, <1>a, WholeLines DEF ReadRaises, ReadJunk
<1>e. ASSUME Send, sock = "open", pc # "cmd", UNCHANGED <<sock, got, emitted, delivered>>
      PROVE  [Service!Next]_Service!vars
  <2>1. CASE pc' = "cmd" /\ ncmds < MaxCmds /\ ncmds' = ncmds + 1
    <3>1. Pending' = Pending /\ Elements(delivered)' = Elements(delivered)
      BY <1>a, <1>b, <1>e, NothingTaken
    <3>2. Service!Issue
      BY <1>e, <2>1, <3>1 DEF Service!Issue
    <3> QED
      BY <3>2 DEF Service!Next
  <2>2. CASE pc' = "idle" /\ ncmds' = ncmds
    BY <1>b, <1>e, <2>2, TakesIsAllowed
  <2> QED
    BY <1>d, <1>e, <2>1, <2>2 DEF Send
<1>4. CASE GreetingRead
  BY <1>4, <1>e DEF GreetingRead, OpenInv
<1>5. CASE CmdSend
  <2>1. pc = "idle" /\ UNCHANGED <<sock, got, emitted, inbox, events, cache, delivered>>
    BY <1>5 DEF CmdSend, Call
  <2>2. CASE sock = "open" /\ Send
    BY <1>e, <2>1, <2>2
  <2>3. CASE Return("socket_error") /\ UNCHANGED <<ncmds, outbox>>
    <3>1. \E S : Takes(S)
      BY <1>c, <2>1
    <3> QED
      BY <1>d, <2>1, <2>3, <3>1, TakesIsAllowed
  <2> QED
    BY <1>5, <2>2, <2>3 DEF CmdSend
<1>6. CASE \/ GreetingFails \/ BufferEvent \/ PollEnds \/ BlockRead \/ BlockFails
  <2>1. sock = "open" /\ UNCHANGED <<sock, ncmds, got, emitted>>
    BY <1>6 DEF GreetingFails, BufferEvent, PollEnds, BlockRead, BlockFails, OpenInv
  <2>2. pc = "cmd" <=> pc' = "cmd"
    BY <1>6, <1>d DEF GreetingFails, BufferEvent, PollEnds, BlockRead, BlockFails, Block,
       Finish, FinishEvent, FinishEvents, FinishWait, FinishWaitOther, Poll
  <2> QED
    BY <1>b, <2>1, <2>2, TakesIsAllowed
<1>7. CASE \/ OpenFails \/ \E t \in Timeouts : SetTimeout(t)
           \/ \E w \in Waits : GetQmpEvents(w)
  <2>1. /\ pc = "idle" /\ UNCHANGED <<sock, ncmds, got, emitted, inbox, events, cache, delivered>>
    BY <1>7 DEF OpenFails, SetTimeout, GetQmpEvents, Call, Pull
  <2>2. pc' # "cmd"
    BY <1>7, <1>d DEF OpenFails, SetTimeout, GetQmpEvents, Pull, Poll
  <2>3. \E S : Takes(S)
    BY <1>c, <2>1
  <2> QED
    BY <2>1, <2>2, <2>3, TakesIsAllowed
<1>8. ASSUME NEW w \in Waits, GetQmpEvent(w)
      PROVE  [Service!Next]_Service!vars
  <2>1. pc = "idle" /\ pc' # "cmd" /\ UNCHANGED <<sock, ncmds, got, emitted, inbox>>
    BY <1>8, <1>d DEF GetQmpEvent, Call, Pull, Poll
  <2>2. AllOf(delivered', cache', events') = AllOf(delivered, cache, events)
    <3>1. CASE cache # <<>> /\ delivered' = Append(delivered, Head(cache))
               /\ cache' = Tail(cache) /\ events' = events
      BY <1>a, <3>1, HandOut DEF EventInv, TypeOK
    <3> QED
      BY <1>8, <3>1 DEF GetQmpEvent, Pull
  <2> QED
    BY <1>c, <2>1, <2>2, TakesIsAllowed
<1>9. ASSUME NEW ns, NEW w \in Waits, EventsWait(ns, w)
      PROVE  [Service!Next]_Service!vars
  <2>1. pc = "idle" /\ pc' # "cmd" /\ UNCHANGED <<sock, ncmds, got, emitted, inbox>>
    BY <1>9, <1>d DEF EventsWait, Call, Pull, Poll
  <2>2. AllOf(delivered', cache', events') = AllOf(delivered, cache, events)
    <3>1. CASE Matches(cache, ns) # {} /\ events' = events
               /\ delivered' = Append(delivered, cache[FirstMatch(cache, ns)])
               /\ cache' = Without(cache, FirstMatch(cache, ns))
      <4>1. FirstMatch(cache, ns) \in DOMAIN cache
        BY <3>1, FirstMatchIsMatch DEF Matches, TypeOK
      <4> QED
        BY <1>a, <3>1, <4>1, HandOutMatch DEF EventInv, TypeOK
    <3> QED
      BY <1>9, <3>1 DEF EventsWait, Pull
  <2> QED
    BY <1>c, <2>1, <2>2, TakesIsAllowed
<1>10. ASSUME NEW negotiate \in BOOLEAN, Open(negotiate)
       PROVE  [Service!Next]_Service!vars
  <2>1. /\ pc = "idle" /\ pc' # "cmd" /\ sock = "new" /\ sock' = "open" /\ ncmds = 0
        /\ UNCHANGED <<inbox, events, cache, delivered, ncmds, got, emitted>>
    BY <1>10, <1>d DEF Open, Call, OpenInv
  <2>2. Pending' = Pending /\ Elements(delivered)' = Elements(delivered)
    BY <2>1 DEF Pending, Elements, OnSocket, Positions
  <2>3. Service!Connect
    BY <2>1, <2>2 DEF Service!Connect
  <2> QED
    BY <2>3 DEF Service!Next
<1>11. CASE Close
  <2>1. /\ pc = "idle" /\ pc' = "idle" /\ sock = "open" /\ sock' = "closed" /\ inbox' = <<>>
        /\ UNCHANGED <<events, cache, delivered, ncmds, got, emitted>>
    BY <1>11, <1>d DEF Close, Call
  <2>2. Pending' \in SUBSET Pending /\ Elements(delivered)' = Elements(delivered)
    <3>1. OnSocket({"event"})' = {}
      BY <2>1 DEF OnSocket, Positions
    <3> QED
      BY <2>1, <3>1 DEF Pending, Elements
  <2>3. Service!Disconnect
    BY <2>1, <2>2 DEF Service!Disconnect
  <2> QED
    BY <2>3 DEF Service!Next
<1>12. ASSUME NEW n \in Names, PeerEmit(n)
       PROVE  [Service!Next]_Service!vars
  <2> DEFINE k == Len(emitted) + 1
             l == [kind |-> "event", id |-> k]
  <2>1. /\ Len(emitted) \in Nat /\ Len(emitted) < MaxEvents /\ Len(emitted') = k
        /\ sock = "open" /\ UNCHANGED <<sock, pc, ncmds, got, events, cache, delivered>>
    BY <1>12, LenProperties, AppendProperties DEF PeerEmit, Write, TypeOK
  <2>2. inbox' = Append(inbox, l) /\ l \in Lines /\ l.kind = "event" /\ l.id = k
    BY <1>12, <2>1 DEF PeerEmit, Write, Lines, Kinds
  <2> HIDE DEF l, k
  <2>3. OnSocket({"event"})' = OnSocket({"event"}) \cup {k}
    BY <2>2, AppendIsLast DEF TypeOK
  <2>4. Pending' = Pending \cup {k} /\ Elements(delivered)' = Elements(delivered)
    BY <2>1, <2>3 DEF Pending, Elements
  <2>5. Service!Happen
    BY <2>1, <2>4 DEF Service!Happen, k
  <2> QED
    BY <2>5 DEF Service!Next
<1>13. CASE PeerGreet \/ (\E a \in Answers : PeerReply(a)) \/ PeerExit
  <2>1. sock = "open" /\ UNCHANGED <<sock, pc, ncmds, got, emitted>>
    BY <1>13 DEF PeerGreet, PeerReply, PeerExit, Write
  <2> QED
    BY <1>b, <2>1, TakesIsAllowed
<1>14. CASE PeerRest
  BY <1>14, <1>a DEF PeerRest, ModeInv
<1> QED
  BY <1>1, <1>2, <1>3, <1>4, <1>5, <1>6, <1>7, <1>8, <1>9, <1>10, <1>11, <1>12, <1>13, <1>14
     DEF Next, ClientStep, CallerStep, PeerStep

\* Whoever passes no float as a timeout gets the service: one answer to each command
\* before the next is sent, and each event once (qmp.py, machine.py:347-474), however
\* QEMU interleaves events, answers and its end.
THEOREM ServiceImplemented ==
  ASSUME NoTimeouts
  PROVE  Spec => ImplementsService
<1> DEFINE Inv == /\ TypeOK /\ OrderInv /\ OwnInv
                  /\ HeldInv /\ OpenInv
<1>1. Init => Service!Init
  <2>1. Init => Pending = {} /\ Elements(delivered) = {}
    BY EmptyElements DEF Init, Pending, OnSocket, Positions
  <2>2. Init => Len(emitted) = 0
    BY EmptySeq DEF Init
  <2>3. Init => sock # "open" /\ ncmds = 0 /\ pc # "cmd" /\ got = 0
    BY DEF Init
  <2> QED
    BY <2>1, <2>2, <2>3 DEF Service!Init
<1>2. Spec => []OpenInv
  <2>1. Init => OpenInv
    BY DEF Init, OpenInv
  <2>2. OpenInv /\ [Next]_vars => OpenInv'
    BY NextOpen DEF OpenInv, vars, conn, call
  <2> QED
    BY <2>1, <2>2, PTL DEF Spec
<1>3. Inv /\ Inv' /\ [Next]_vars => [Service!Next]_Service!vars
  <2> SUFFICES ASSUME Inv, Inv', [Next]_vars
               PROVE  [Service!Next]_Service!vars
    OBVIOUS
  <2>1. CASE Next
    BY <2>1, NextMaps
  <2>2. CASE UNCHANGED vars
    <3>1. UNCHANGED <<sock, pc, inbox, events, cache, delivered, ncmds, got, emitted>>
      BY <2>2 DEF vars, conn, wire, call, buffers
    <3>2. Pending' = Pending /\ Elements(delivered)' = Elements(delivered)
      BY <3>1 DEF Pending, OnSocket, Positions, Elements
    <3> QED
      BY <3>1, <3>2 DEF Service!vars
  <2> QED
    BY <2>1, <2>2
<1>4. Spec => []Inv
  BY <1>2, Synchronised, EventsHeld, PTL
<1> QED
  BY <1>1, <1>3, <1>4, PTL DEF Spec, ImplementsService, Service!Spec

-----------------------------------------------------------------------------
(* How calls end *)

\* A wait without a timeout reads nothing but events, for no answer is on its way.
LEMMA NextWaitEnds ==
  ASSUME NoTimeouts, TypeOK, OwnInv, WaitEndsWithEvent, Next
  PROVE  WaitEndsWithEvent'
<1> USE DEF WaitEndsWithEvent
<1>a. ModeInv /\ InStep
  BY DEF OwnInv
<1>b. \A o : Return(o) => out' = o
  BY DEF Return
<1>c. ASSUME NEW buf, buf # <<>> \/ wait = "no", NEW m, Finish(buf, m), UNCHANGED <<api, wait>>
      PROVE  WaitEndsWithEvent'
  BY <1>b, <1>c DEF Finish, FinishEvent, FinishEvents, FinishWait, FinishWaitOther, Poll
<1>1. CASE PollEnds
  BY <1>1, <1>c DEF PollEnds, Block
<1>2. CASE BlockRead
  <2>1. HasLine /\ pc = "block" /\ inbox' = Tail(inbox) /\ Next1 \in Lines
    BY <1>2, LineType DEF BlockRead, Consume, TypeOK
  <2>2. \A kinds : OnSocket(kinds) = {} => Next1.kind \notin kinds
    BY <2>1, ConsumeElements DEF TypeOK
  <2>3. OnSocket(Answers) = {} /\ OnSocket({"greeting"}) = {} /\ OnSocket({"junk"}) = {}
    BY <1>a, <2>1 DEF InStep, ModeInv
  <2>4. Next1.kind = "event"
    <3>1. Next1.kind \notin Answers /\ Next1.kind \notin {"greeting"} /\ Next1.kind \notin {"junk"}
      BY <2>2, <2>3
    <3> QED
      BY <2>1, <3>1 DEF Lines, Kinds
  <2>5. Append(events, Next1.id) # <<>>
    <3>1. Next1.id \in Nat /\ events \in Seq(Nat)
      BY <2>1 DEF Lines, TypeOK
    <3>2. Next1.id \in Elements(Append(events, Next1.id))
      BY <3>1, AppendElements
    <3>3. Elements(<<>>) = {}
      BY EmptyElements
    <3> QED
      BY <3>2, <3>3
  <2>6. Finish(Append(events, Next1.id), "blocking") /\ UNCHANGED <<api, wait>>
    BY <1>2, <2>4 DEF BlockRead
  <2> QED
    BY <1>c, <2>5, <2>6
<1>3. CASE BlockFails
  BY <1>3, <1>b DEF BlockFails
<1>4. CASE GreetingRead \/ CmdRead
  <2>1. api' = api /\ (pc = "greeting" \/ pc = "cmd") /\ UNCHANGED wait
    BY <1>4 DEF GreetingRead, CmdRead
  <2>2. \A name \in {"event"} : \A o \in Answers \cup {"greeting", "closed", "socket_error"} :
          Outcome(name, o) # "none"
    BY DEF Outcome, Answers
  <2>3. api' = "event" => out' # "none"
    BY <1>4, <1>b, <2>2 DEF GreetingRead, CmdRead, Send
  <2> QED
    BY <2>1, <2>3
<1>5. CASE CmdEOF
  BY <1>5, <1>b DEF CmdEOF, Outcome
<1>6. CASE GreetingFails \/ ReadRaises \/ ReadJunk
  BY <1>6, <1>b DEF GreetingFails, ReadRaises, ReadJunk
<1>7. CASE BufferEvent \/ PeerStep
  BY <1>7 DEF BufferEvent, PeerStep, PeerGreet, PeerReply, PeerEmit, PeerRest, PeerExit, call
<1>8. CASE \E w \in Waits : GetQmpEvent(w)
  BY <1>8, <1>b DEF GetQmpEvent, Pull, Poll
<1>9. CASE \/ \E negotiate \in BOOLEAN : Open(negotiate)
           \/ OpenFails \/ CmdSend \/ Close \/ \E t \in Timeouts : SetTimeout(t)
           \/ \E w \in Waits : GetQmpEvents(w)
           \/ \E ns \in SUBSET Names \ {{}} : \E w \in Waits : EventsWait(ns, w)
  <2>1. api' # "event"
    BY <1>9 DEF Open, OpenFails, CmdSend, Close, SetTimeout, GetQmpEvents, EventsWait, Call
  <2> QED
    BY <2>1
<1> QED
  BY <1>1, <1>2, <1>3, <1>4, <1>5, <1>6, <1>7, <1>8, <1>9 DEF Next, ClientStep, CallerStep

\* pull_event() with a wait and no timeout returns an event or raises (qmp.py:210-219).
THEOREM WaitsEndWithEvent ==
  ASSUME NoTimeouts
  PROVE  Spec => []WaitEndsWithEvent
<1>1. Init => WaitEndsWithEvent
  BY DEF Init, WaitEndsWithEvent
<1>2. TypeOK /\ OwnInv /\ WaitEndsWithEvent /\ [Next]_vars => WaitEndsWithEvent'
  <2>1. ASSUME WaitEndsWithEvent, UNCHANGED vars
        PROVE  WaitEndsWithEvent'
    BY <2>1 DEF vars, call, WaitEndsWithEvent
  <2> QED
    BY <2>1, NextWaitEnds
<1> QED
  BY <1>1, <1>2, Synchronised, PTL DEF Spec

\* If only blocking mode is asked for with settimeout(), a socket is blocking between
\* calls until one has failed, and a command that is running has not ended.
BlockingInv ==
  /\ clean => mode = "blocking" \/ pc \in {"poll", "block"}
  /\ pc = "cmd" => out = "pending"

\* Every call that succeeds restores the blocking mode (qmp.py:107-128).
LEMMA NextBlocking ==
  ASSUME Timeouts \subseteq {"blocking"}, TypeOK, BlockingInv, Next
  PROVE  BlockingInv'
<1> USE DEF BlockingInv, conn, wire, call, buffers
<1>a. \A o : Return(o) => pc' = "idle" /\ (o \in Failures => ~clean') /\ (clean' => clean)
  BY DEF Return
<1>b. \A buf : Finish(buf, "blocking") =>
        \/ pc' = "idle" /\ mode' = "blocking"
        \/ pc' = "poll"
  BY DEF Finish, FinishEvent, FinishEvents, FinishWait, FinishWaitOther, Poll, Return
<1>1. CASE PollEnds \/ BlockRead
  BY <1>1, <1>b DEF PollEnds, BlockRead, Block
<1>2. CASE BlockFails \/ ReadRaises \/ ReadJunk
  BY <1>2, <1>a DEF BlockFails, ReadRaises, ReadJunk, Failures
<1>3. CASE GreetingFails \/ CmdRead \/ CmdEOF
  BY <1>3, <1>a DEF GreetingFails, CmdRead, CmdEOF
<1>c. Send => (pc' = "cmd" /\ out' = "pending" /\ clean' = clean) \/ (pc' = "idle" /\ (clean' => clean))
  BY <1>a DEF Send
<1>4. CASE GreetingRead
  BY <1>4, <1>c DEF GreetingRead
<1>5. CASE CmdSend
  BY <1>5, <1>a, <1>c DEF CmdSend, Call
<1>6. CASE BufferEvent \/ PeerStep
  <2>1. UNCHANGED <<clean, mode, pc, out>>
    BY <1>6 DEF BufferEvent, PeerStep, PeerGreet, PeerReply, PeerEmit, PeerRest, PeerExit
  <2> QED
    BY <2>1
<1>7. CASE \/ \E w \in Waits : GetQmpEvent(w) \/ GetQmpEvents(w)
           \/ \E ns \in SUBSET Names \ {{}} : \E w \in Waits : EventsWait(ns, w)
  <2>1. pc = "idle" /\ \/ pc' = "poll"
                       \/ pc' = "idle" /\ mode' = mode /\ (clean' => clean)
    BY <1>7, <1>a DEF GetQmpEvent, GetQmpEvents, EventsWait, Pull, Poll, Call
  <2> QED
    BY <2>1
<1>8. CASE (\E negotiate \in BOOLEAN : Open(negotiate)) \/ OpenFails \/ Close
  BY <1>8, <1>a DEF Open, OpenFails, Close, Call
<1>9. CASE \E t \in Timeouts : SetTimeout(t)
  BY <1>9, <1>a DEF SetTimeout
<1> QED
  BY <1>1, <1>2, <1>3, <1>4, <1>5, <1>6, <1>7, <1>8, <1>9 DEF Next, ClientStep, CallerStep

\* Whatever events are waited for and how long: a command to a QEMU that lives raises a
\* timeout or EAGAIN only after an earlier call has failed (qmp.py:107-128, 169-176).
THEOREM CommandsDoNotTimeOut ==
  ASSUME Timeouts \subseteq {"blocking"}
  PROVE  Spec => CmdRaisesOnlyAfterFailure
<1>1. Init => BlockingInv
  BY DEF Init, BlockingInv
<1>2. TypeOK /\ BlockingInv /\ [Next]_vars => BlockingInv'
  <2>1. ASSUME BlockingInv, UNCHANGED vars
        PROVE  BlockingInv'
    BY <2>1 DEF vars, conn, call, BlockingInv
  <2> QED
    BY <2>1, NextBlocking
<1>3. BlockingInv /\ [Next]_vars =>
        (pc = "cmd" /\ peer # "down" /\ out' \in {"timeout", "socket_error"} => ~clean)
  <2> SUFFICES ASSUME BlockingInv, [Next]_vars, pc = "cmd", peer # "down",
                      out' \in {"timeout", "socket_error"}, clean
               PROVE  FALSE
    OBVIOUS
  <2>1. mode = "blocking" /\ out = "pending"
    BY DEF BlockingInv
  <2>2. CASE CmdRead
    BY <2>2 DEF CmdRead, Return, Outcome, Answers
  <2>3. CASE ReadRaises \/ CmdEOF
    BY <2>1, <2>3 DEF ReadRaises, RunsDry, CmdEOF, AtEOF
  <2>4. CASE ReadJunk
    BY <2>4 DEF ReadJunk, Return
  <2>5. CASE BufferEvent \/ PeerStep \/ UNCHANGED vars
    BY <2>1, <2>5 DEF BufferEvent, PeerStep, PeerGreet, PeerReply, PeerEmit, PeerRest, PeerExit,
       vars, call
  <2>6. CASE CallerStep
    BY <2>6 DEF CallerStep, Open, OpenFails, CmdSend, GetQmpEvent, GetQmpEvents, EventsWait,
       SetTimeout, Close, Call
  <2>7. CASE GreetingRead \/ GreetingFails \/ PollEnds \/ BlockRead \/ BlockFails
    BY <2>7 DEF GreetingRead, GreetingFails, PollEnds, BlockRead, BlockFails
  <2> QED
    BY <2>2, <2>3, <2>4, <2>5, <2>6, <2>7 DEF Next, ClientStep
<1> QED
  BY <1>1, <1>2, <1>3, MonitorTypes, PTL DEF Spec, CmdRaisesOnlyAfterFailure

-----------------------------------------------------------------------------
(* What a call may wait for *)

\* A connection that nobody has greeted has its greeting before it; a command that has no
\* answer yet is with QEMU, or its answer on the way.
OwedInv ==
  /\ sock = "new" => peer = "waiting"
  /\ pc = "greeting" => peer \in {"waiting", "down"} \/ OnSocket({"greeting"}) # {}
  /\ pc = "cmd" => peer = "down" \/ ncmds \in Elements(outbox) \cup OnSocket(Answers)

\* A line that is an event is neither a greeting nor an answer (qmp.py:87-91).
LEMMA EventOwes ==
  ASSUME TypeOK, HasLine, inbox' = Tail(inbox), Next1.kind = "event"
  PROVE  /\ OnSocket({"greeting"})' = OnSocket({"greeting"})
         /\ OnSocket(Answers)' = OnSocket(Answers)
BY ConsumeElements DEF TypeOK, Answers

\* QEMU writes a line.
LEMMA LineOwes ==
  ASSUME TypeOK, NEW l \in Lines, inbox' = Append(inbox, l)
  PROVE  /\ OnSocket({"greeting"})' = OnSocket({"greeting"}) \cup
                                      (IF l.kind = "greeting" THEN {l.id} ELSE {})
         /\ OnSocket(Answers)' = OnSocket(Answers) \cup
                                 (IF l.kind \in Answers THEN {l.id} ELSE {})
BY AppendIsLast DEF TypeOK

\* The command just sent is with QEMU (qmp.py:160-168).
LEMMA SendOwes ==
  ASSUME TypeOK, Send
  PROVE  pc' = "cmd" => peer = "down" \/ ncmds' \in Elements(outbox)'
<1>1. pc' = "cmd" => outbox' = Append(outbox, ncmds') /\ ncmds' = ncmds + 1
  BY DEF Send, Return
<1>2. outbox \in Seq(Nat) /\ ncmds + 1 \in Nat
  BY DEF TypeOK
<1> QED
  BY <1>1, <1>2, AppendElements

\* Every step keeps it.
LEMMA NextOwed ==
  ASSUME TypeOK, OpenInv, OwedInv, Next
  PROVE  OwedInv'
<1> USE DEF conn, wire, call, buffers
<1>a. \A o : Return(o) => pc' = "idle"
  BY DEF Return
<1>b. UNCHANGED <<inbox>> => OnSocket({"greeting"})' = OnSocket({"greeting"})
                             /\ OnSocket(Answers)' = OnSocket(Answers)
  BY DEF OnSocket, Positions
<1>c. outbox' = outbox => Elements(outbox)' = Elements(outbox)
  BY DEF Elements
<1>1. CASE GreetingRead
  <2>1. sock' = sock /\ sock # "new" /\ peer' = peer /\ Send /\ pc' \in {"cmd", "idle"}
    BY <1>1, <1>a DEF GreetingRead, OpenInv, Send
  <2> QED
    BY <2>1, SendOwes DEF OwedInv
<1>2. CASE CmdSend
  <2>1. sock' = sock /\ sock # "new" /\ peer' = peer /\ (Send \/ pc' = "idle")
    BY <1>2, <1>a DEF CmdSend
  <2>2. pc' # "greeting"
    BY <2>1, <1>a DEF Send
  <2> QED
    BY <2>1, <2>2, SendOwes DEF OwedInv
<1>3. CASE GreetingFails \/ CmdRead \/ CmdEOF \/ ReadRaises \/ ReadJunk \/ BlockFails
  <2>1. sock' = sock /\ sock # "new" /\ pc' = "idle"
    BY <1>3, <1>a DEF GreetingFails, CmdRead, CmdEOF, ReadRaises, ReadJunk, BlockFails, OpenInv
  <2> QED
    BY <2>1 DEF OwedInv
<1>4. CASE BufferEvent
  <2>1. UNCHANGED <<sock, pc, peer, outbox, ncmds>> /\ Consume
    BY <1>4 DEF BufferEvent, Consume
  <2> QED
    BY <1>4, <1>c, <2>1, EventOwes DEF BufferEvent, Consume, OwedInv
<1>5. CASE PollEnds \/ BlockRead
  <2>1. sock' = sock /\ sock # "new" /\ pc' \in {"idle", "poll", "block"}
    BY <1>5, <1>a
       DEF PollEnds, BlockRead, OpenInv, Block, Finish, FinishEvent, FinishEvents, FinishWait,
           FinishWaitOther, Poll
  <2> QED
    BY <2>1 DEF OwedInv
<1>6. CASE \E negotiate \in BOOLEAN : Open(negotiate)
  <2>1. sock = "new" /\ sock' = "open" /\ pc' \in {"greeting", "idle"} /\ (pc' = "greeting" => peer' = peer)
    BY <1>6, <1>a DEF Open
  <2> QED
    BY <2>1 DEF OwedInv
<1>7. CASE OpenFails \/ (\E t \in Timeouts : SetTimeout(t)) \/ Close
  <2>1. pc' = "idle" /\ (sock' = "new" => sock = "new" /\ peer' = peer)
    BY <1>7, <1>a DEF OpenFails, SetTimeout, Close
  <2> QED
    BY <2>1 DEF OwedInv
<1>8. CASE \/ \E w \in Waits : GetQmpEvent(w) \/ GetQmpEvents(w)
           \/ \E ns \in SUBSET Names \ {{}} : \E w \in Waits : EventsWait(ns, w)
  <2>1. sock' = sock /\ sock # "new" /\ pc' \in {"idle", "poll"}
    BY <1>8, <1>a DEF GetQmpEvent, GetQmpEvents, EventsWait, Pull, Poll
  <2> QED
    BY <2>1 DEF OwedInv
<1>9. CASE PeerGreet
  <2>1. /\ UNCHANGED <<sock, pc, outbox, ncmds>> /\ peer = "waiting" /\ sock = "open"
        /\ inbox' = Append(inbox, [kind |-> "greeting", id |-> 0])
    BY <1>9 DEF PeerGreet, Write
  <2>2. [kind |-> "greeting", id |-> 0] \in Lines
    BY DEF Lines, Kinds
  <2>3. OnSocket({"greeting"})' # {} /\ OnSocket(Answers)' = OnSocket(Answers)
    BY <2>1, <2>2, LineOwes DEF Answers
  <2> QED
    BY <1>c, <2>1, <2>3 DEF OwedInv
<1>10. ASSUME NEW a \in Answers, PeerReply(a)
       PROVE  OwedInv'
  <2>1. /\ UNCHANGED <<sock, pc, ncmds>> /\ sock = "open" /\ outbox # <<>> /\ outbox' = Tail(outbox)
        /\ peer # "down" /\ (peer = "waiting" => peer' = "waiting")
        /\ inbox' = Append(inbox, [kind |-> a, id |-> Head(outbox)])
    BY <1>10 DEF PeerReply, Write
  <2>2. outbox \in Seq(Nat) /\ Head(outbox) \in Nat
    BY <2>1 DEF TypeOK
  <2>3. [kind |-> a, id |-> Head(outbox)] \in Lines
    BY <2>2 DEF Lines, Kinds
  <2>4. /\ OnSocket(Answers)' = OnSocket(Answers) \cup {Head(outbox)}
        /\ OnSocket({"greeting"}) \subseteq OnSocket({"greeting"})'
    BY <2>1, <2>3, LineOwes
  <2>5. Elements(outbox) = Elements(outbox') \cup {Head(outbox)}
    BY <2>1, <2>2, TailElements
  <2> QED
    BY <2>1, <2>4, <2>5 DEF OwedInv
<1>11. ASSUME NEW n \in Names, PeerEmit(n)
       PROVE  OwedInv'
  <2>1. /\ UNCHANGED <<sock, pc, outbox, ncmds, peer>> /\ emitted' = Append(emitted, n)
        /\ inbox' = Append(inbox, [kind |-> "event", id |-> Len(emitted')])
    BY <1>11 DEF PeerEmit, Write
  <2>2. [kind |-> "event", id |-> Len(emitted')] \in Lines
    BY <2>1, AppendProperties, LenProperties DEF Lines, Kinds, TypeOK
  <2> QED
    BY <1>c, <2>1, <2>2, LineOwes DEF OwedInv
<1>12. CASE PeerRest
  BY <1>12, <1>b, <1>c DEF PeerRest, OwedInv
<1>13. CASE PeerExit
  BY <1>13 DEF PeerExit, OwedInv
<1> QED
  BY <1>1, <1>2, <1>3, <1>4, <1>5, <1>6, <1>7, <1>8, <1>9, <1>10, <1>11, <1>12, <1>13
     DEF Next, ClientStep, CallerStep, PeerStep

\* pull_event() blocks only with nothing buffered by the client (qmp.py:118-129).
SleepInv == pc = "block" => events = <<>>

\* Every step keeps it.
LEMMA NextSleep ==
  ASSUME SleepInv, Next
  PROVE  SleepInv'
<1> USE DEF conn, wire, call, buffers
<1>a. \A o : Return(o) => pc' = "idle"
  BY DEF Return
<1>1. CASE PollEnds
  <2>1. Block => events' = events
    BY DEF Block
  <2>2. Finish(events, "blocking") => pc' # "block"
    BY <1>a DEF Finish, FinishEvent, FinishEvents, FinishWait, FinishWaitOther, Poll
  <2> QED
    BY <1>1, <2>1, <2>2 DEF PollEnds, SleepInv
<1>2. CASE BlockRead
  <2>1. pc' # "block"
    BY <1>2, <1>a
       DEF BlockRead, Finish, FinishEvent, FinishEvents, FinishWait, FinishWaitOther, Poll
  <2> QED
    BY <2>1 DEF SleepInv
<1>3. CASE GreetingRead \/ GreetingFails \/ CmdRead \/ CmdEOF \/ ReadRaises \/ ReadJunk \/ BlockFails
  <2>1. pc' # "block"
    BY <1>3, <1>a
       DEF GreetingRead, GreetingFails, CmdRead, CmdEOF, ReadRaises, ReadJunk, BlockFails, Send
  <2> QED
    BY <2>1 DEF SleepInv
<1>4. CASE BufferEvent
  BY <1>4 DEF BufferEvent, SleepInv
<1>5. CASE CallerStep
  <2>1. pc' # "block"
    BY <1>5, <1>a
       DEF CallerStep, Open, OpenFails, CmdSend, Send, GetQmpEvent, GetQmpEvents, EventsWait, Pull,
           Poll, SetTimeout, Close
  <2> QED
    BY <2>1 DEF SleepInv
<1>6. CASE PeerStep
  BY <1>6 DEF PeerStep, PeerGreet, PeerReply, PeerEmit, PeerRest, PeerExit, SleepInv
<1> QED
  BY <1>1, <1>2, <1>3, <1>4, <1>5, <1>6 DEF Next, ClientStep

\* Nobody waits for what does not come: a command without an answer is one that QEMU has
\* to answer, or has answered, or it is gone; a client that waits for a greeting has one
\* to come; and a call that sleeps has not been given an event it is for.  get_qmp_events()
\* is the exception, which looks at the queue of the machine last (machine.py:397).
NeverWaitsInVain ==
  /\ pc = "cmd" => peer = "down" \/ ncmds \in Elements(outbox) \cup OnSocket(Answers)
  /\ pc = "greeting" => peer \in {"waiting", "down"} \/ OnSocket({"greeting"}) # {}
  /\ pc = "block" /\ api \in {"event", "wait"} =>
       \A e \in Elements(cache) \cup Elements(events) : api = "wait" /\ emitted[e] \notin names

\* Whatever timed out before, and however lines are torn: a call that reads from the socket
\* has an answer or a greeting to come, and one that sleeps has no event that would do in
\* either cache (qmp.py:104-129, 160-176, machine.py:385-391, 434-472).
THEOREM WaitsAreOwed == Spec => []NeverWaitsInVain
<1> DEFINE IInv == OpenInv /\ OwedInv /\ SleepInv
<1>1. Init => IInv
  BY DEF Init, OpenInv, OwedInv, SleepInv
<1>2. TypeOK /\ IInv /\ [Next]_vars => IInv'
  <2>1. ASSUME IInv, UNCHANGED vars
        PROVE  IInv'
    BY <2>1
       DEF vars, conn, wire, call, buffers, OpenInv, OwedInv, SleepInv, OnSocket, Positions, Elements
  <2> QED
    BY <2>1, NextOpen, NextOwed, NextSleep
<1>3. TypeOK /\ IInv /\ SearchInv => NeverWaitsInVain
  <2> SUFFICES ASSUME TypeOK, OwedInv, SleepInv, SearchInv
               PROVE  NeverWaitsInVain
    OBVIOUS
  <2>1. Elements(<<>>) = {}
    BY DEF Elements
  <2>2. ASSUME pc = "block", api = "event", NEW e \in Elements(cache) \cup Elements(events)
        PROVE  FALSE
    BY <2>1, <2>2 DEF SleepInv, SearchInv
  <2>3. ASSUME pc = "block", api = "wait", NEW e \in Elements(cache) \cup Elements(events)
        PROVE  emitted[e] \notin names
    <3>1. e \in Elements(cache)
      BY <2>1, <2>3 DEF SleepInv
    <3> QED
      BY <2>3, <3>1 DEF SearchInv, Elements
  <2> QED
    BY <2>2, <2>3 DEF OwedInv, NeverWaitsInVain
<1> HIDE DEF IInv
<1>4. Spec => []IInv
  BY <1>1, <1>2, MonitorTypes, PTL DEF Spec
<1> QED
  BY <1>3, <1>4, SearchHolds, MonitorTypes, PTL

=============================================================================
