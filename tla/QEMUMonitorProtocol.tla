------------------------- MODULE QEMUMonitorProtocol -------------------------
(***************************************************************************)
(* The QMP client of share/python/qemu/qmp.py together with the event API  *)
(* that share/python/qemu/machine.py puts on top of it.  One caller uses   *)
(* the connection, so one call is in progress at a time; QEMU at the other *)
(* end writes and dies whenever it likes, and every read of one line from  *)
(* the socket is a step of its own.                                        *)
(*                                                                         *)
(* A line is a record [kind, id].  The id of an answer is the number of    *)
(* the command it answers, the id of an event its place in the order QEMU  *)
(* emitted them (emitted[id] is the name of the event).                    *)
(***************************************************************************)
EXTENDS Integers, Sequences

CONSTANTS
  Names,      \* names of events
  Waits,      \* what callers pass as wait: "no", "block" (True), "timed" (a float)
  Timeouts,   \* what callers pass to settimeout(): "blocking", "timed"
  TornLines,  \* may a line arrive in two pieces?
  MaxCmds,    \* bound: commands sent
  MaxEvents   \* bound: events emitted

ASSUME MonitorAssumption ==
  /\ Waits \subseteq {"no", "block", "timed"}
  /\ Timeouts \subseteq {"blocking", "timed"}
  /\ TornLines \in BOOLEAN
  /\ MaxCmds \in Nat
  /\ MaxEvents \in Nat

VARIABLES
  sock,       \* __sock: "new", "open" (connected or accepted), "closed"
  mode,       \* its timeout: "blocking", "nonblocking", "timed"
  inbox,      \* lines QEMU wrote that no readline() has returned yet
  torn,       \* is the last line of inbox only partly written?
  outbox,     \* commands sent that QEMU has not answered yet
  peer,       \* QEMU: "waiting", "greeted", "ready", "agent" (qemu-ga), "down"
  events,     \* QEMUMonitorProtocol.__events
  cache,      \* QEMUMachine._events
  pc,         \* where the call is: "idle", "greeting", "cmd", "poll", "block"
  api,        \* the call in progress, or the last one made
  wait,       \* its wait argument
  names,      \* the event names events_wait() looks for
  out,        \* what the call returned or raised, "pending" while it runs
  got,        \* history: the command whose answer cmd() handed out last
  clean,      \* history: no call has failed so far
  ncmds,      \* history: number of commands sent
  emitted,    \* history: names of the events QEMU emitted, in order
  delivered   \* history: events handed to the caller, in order

conn == <<sock, mode>>
wire == <<inbox, torn, outbox, peer>>
buffers == <<events, cache, delivered>>
call == <<pc, api, wait, names, out, clean>>
vars == <<conn, wire, buffers, call, got, ncmds, emitted>>

Answers == {"return", "error"}
Kinds == Answers \cup {"greeting", "event", "junk"}
Lines == [kind : Kinds, id : Nat]
Junk == [kind |-> "junk", id |-> 0]

\* What a call can end with.  "value_error" is json.loads() refusing a line and
\* "type_error" the code indexing a None; "none" and "closed" are a None result.
Failures == {"socket_error", "timeout", "connect_error", "value_error"}
Outcomes == Answers \cup Failures \cup {"pending", "none", "closed", "connected",
              "greeting", "capabilities_error", "type_error", "event", "list"}
Apis == {"none", "connect", "cmd", "event", "events", "wait", "settimeout", "close"}

Init ==
  /\ sock = "new" /\ mode = "blocking"
  /\ inbox = <<>> /\ torn = FALSE /\ outbox = <<>> /\ peer = "waiting"
  /\ events = <<>> /\ cache = <<>> /\ delivered = <<>>
  /\ pc = "idle" /\ api = "none" /\ wait = "no" /\ names = {} /\ out = "none"
  /\ clean = TRUE /\ got = 0 /\ ncmds = 0 /\ emitted = <<>>

-----------------------------------------------------------------------------
(* One readline() of the Python 2 socket file. *)

\* A whole line can be read.
HasLine == inbox # <<>> /\ ~(torn /\ Len(inbox) = 1)

\* readline() returns '' or raises ECONNRESET.
AtEOF == inbox = <<>> /\ peer = "down"

\* recv() raises EAGAIN or socket.timeout before a line is complete.
RunsDry == ~HasLine /\ ~AtEOF /\ mode # "blocking"

Next1 == Head(inbox)

Consume == inbox' = Tail(inbox) /\ UNCHANGED <<torn, outbox, peer>>

\* readline() keeps what it had read in a local variable when recv() raises, so
\* the beginning of a torn line is lost and its rest is a line that is no JSON.
DropPrefix ==
  /\ inbox' = IF inbox = <<>> THEN <<>> ELSE <<Junk>>
  /\ UNCHANGED <<torn, outbox, peer>>

Return(o) ==
  /\ pc' = "idle"
  /\ out' = o
  /\ clean' = (clean /\ o \notin Failures)

\* The caller makes a call; pc' and out' are left to the action.
Call(name) == pc = "idle" /\ api' = name

-----------------------------------------------------------------------------
(* connect() and accept() *)

Open(negotiate) ==
  /\ Call("connect") /\ sock = "new"
  /\ sock' = "open"
  /\ IF negotiate
     THEN pc' = "greeting" /\ out' = "pending" /\ UNCHANGED <<clean, peer>>
     ELSE peer' = "agent" /\ Return("none")
  /\ UNCHANGED <<mode, inbox, torn, outbox, buffers, wait, names, got, ncmds, emitted>>

\* Nobody listens (connect) or nobody calls within 15 seconds (accept).
OpenFails ==
  /\ Call("connect") /\ sock = "new"
  /\ Return("socket_error")
  /\ UNCHANGED <<conn, wire, buffers, wait, names, got, ncmds, emitted>>

\* What the caller of cmd() makes of its result: __negotiate_capabilities()
\* looks for "return" in it, every other caller passes it on.
Outcome(name, o) ==
  CASE name # "connect" -> o
    [] o = "return" -> "connected"
    [] o \in {"error", "greeting"} -> "capabilities_error"
    [] o = "closed" -> "type_error"
    [] OTHER -> o

\* sendall(), and on to the read of the answer.
Send ==
  \/ /\ peer # "down" /\ ncmds < MaxCmds
     /\ ncmds' = ncmds + 1
     /\ outbox' = Append(outbox, ncmds')
     /\ pc' = "cmd" /\ out' = "pending"
     /\ UNCHANGED clean
  \/ /\ peer = "down"
     /\ \E o \in {"closed", "socket_error"} : Return(Outcome(api', o))
     /\ UNCHANGED <<ncmds, outbox>>

GreetingRead ==
  /\ pc = "greeting" /\ HasLine /\ Next1.kind = "greeting"
  /\ inbox' = Tail(inbox)
  /\ api' = api
  /\ Send
  /\ UNCHANGED <<conn, torn, peer, buffers, wait, names, got, emitted>>

\* The first line is no greeting, or the connection ends before it came.
GreetingFails ==
  /\ pc = "greeting"
  /\ \/ /\ HasLine /\ Next1.kind \in Answers
        /\ Consume /\ Return("connect_error")
     \/ /\ AtEOF /\ UNCHANGED wire
        /\ \E o \in {"connect_error", "socket_error"} : Return(o)
  /\ UNCHANGED <<conn, buffers, api, wait, names, got, ncmds, emitted>>

-----------------------------------------------------------------------------
(* cmd_obj(), cmd() *)

CmdSend ==
  /\ Call("cmd") /\ sock # "new"
  /\ \/ sock = "open" /\ Send
     \/ sock = "closed" /\ Return("socket_error") /\ UNCHANGED <<ncmds, outbox>>
  /\ UNCHANGED <<conn, inbox, torn, peer, buffers, wait, names, got, emitted>>

\* The first line that is no event is taken for the answer.
CmdRead ==
  /\ pc = "cmd" /\ HasLine /\ Next1.kind \in Answers \cup {"greeting"}
  /\ Consume
  /\ got' = Next1.id
  /\ Return(Outcome(api, Next1.kind))
  /\ UNCHANGED <<conn, buffers, api, wait, names, ncmds, emitted>>

\* Mutant: __json_read() goes on reading at the end of the stream.
CmdEOF_ReadsOn == pc = "cmd" /\ AtEOF /\ UNCHANGED vars

CmdEOF ==
  /\ pc = "cmd" /\ AtEOF
  /\ \E o \in {"closed", "socket_error"} : Return(Outcome(api, o))
  /\ UNCHANGED <<conn, wire, buffers, api, wait, names, got, ncmds, emitted>>

\* Mutant: a command that timed out is sent once more.
ReadRaises_Resends ==
  /\ pc \in {"greeting", "cmd"} /\ RunsDry
  /\ IF pc = "cmd" THEN outbox' = Append(outbox, ncmds) ELSE outbox' = outbox
  /\ Return(IF mode = "timed" THEN "timeout" ELSE "socket_error")
  /\ UNCHANGED <<conn, inbox, torn, peer, buffers, api, wait, names, got, ncmds, emitted>>

\* socket.timeout, or EAGAIN on a socket left nonblocking.
ReadRaises ==
  /\ pc \in {"greeting", "cmd"} /\ RunsDry
  /\ DropPrefix
  /\ Return(IF mode = "timed" THEN "timeout" ELSE "socket_error")
  /\ UNCHANGED <<conn, buffers, api, wait, names, got, ncmds, emitted>>

\* Mutant: "continue" is missing and the event returned for the answer.
BufferEvent_Returns ==
  /\ pc \in {"greeting", "cmd", "poll"} /\ HasLine /\ Next1.kind = "event"
  /\ Consume
  /\ events' = Append(events, Next1.id)
  /\ IF pc = "cmd" THEN Return("event") ELSE UNCHANGED <<pc, out, clean>>
  /\ UNCHANGED <<conn, cache, delivered, api, wait, names, got, ncmds, emitted>>

\* __json_read() keeps an event for later and reads on.
BufferEvent ==
  /\ pc \in {"greeting", "cmd", "poll"} /\ HasLine /\ Next1.kind = "event"
  /\ Consume
  /\ events' = Append(events, Next1.id)
  /\ UNCHANGED <<conn, cache, delivered, call, got, ncmds, emitted>>

\* json.loads() raises ValueError.  Out of the poll of __get_events() it skips
\* setblocking(1).
ReadJunk ==
  /\ pc \in {"greeting", "cmd", "poll"} /\ HasLine /\ Next1.kind = "junk"
  /\ Consume
  /\ Return("value_error")
  /\ UNCHANGED <<conn, buffers, api, wait, names, got, ncmds, emitted>>

-----------------------------------------------------------------------------
(* __get_events(), pull_event(), and the event API of QEMUMachine *)

\* First occurrence in a sequence of events of one that events_wait() looks for.
Matches(seq, ns) == {i \in DOMAIN seq : emitted[seq[i]] \in ns}
FirstMatch(seq, ns) == CHOOSE i \in Matches(seq, ns) : \A j \in Matches(seq, ns) : i <= j
Without(seq, i) == SubSeq(seq, 1, i - 1) \o SubSeq(seq, i + 1, Len(seq))

\* __get_events() enters its poll, setblocking(0).
Poll ==
  /\ mode' = "nonblocking" /\ pc' = "poll" /\ out' = "pending"
  /\ UNCHANGED clean

\* A call that needs the socket: on a closed one setblocking() raises.
Pull ==
  /\ UNCHANGED buffers
  /\ \/ sock = "open" /\ Poll
     \/ sock = "closed" /\ Return("socket_error") /\ UNCHANGED mode

\* Mutant: the queue of the machine is not looked at.
GetQmpEvent_SkipsQueue(w) ==
  /\ Call("event") /\ sock # "new"
  /\ wait' = w
  /\ Pull
  /\ UNCHANGED <<sock, wire, names, got, ncmds, emitted>>

GetQmpEvent(w) ==
  /\ Call("event") /\ sock # "new"
  /\ wait' = w
  /\ \/ /\ cache # <<>>
        /\ delivered' = Append(delivered, Head(cache))
        /\ cache' = Tail(cache)
        /\ Return("event")
        /\ UNCHANGED <<events, mode>>
     \/ cache = <<>> /\ Pull
  /\ UNCHANGED <<sock, wire, names, got, ncmds, emitted>>

GetQmpEvents(w) ==
  /\ Call("events") /\ sock # "new"
  /\ wait' = w
  /\ Pull
  /\ UNCHANGED <<sock, wire, names, got, ncmds, emitted>>

\* Mutant: the queue of the machine is not searched.
EventsWait_SkipsQueue(ns, w) ==
  /\ Call("wait") /\ sock # "new"
  /\ wait' = w /\ names' = ns
  /\ Pull
  /\ UNCHANGED <<sock, wire, got, ncmds, emitted>>

EventsWait(ns, w) ==
  /\ Call("wait") /\ sock # "new"
  /\ wait' = w /\ names' = ns
  /\ \/ /\ Matches(cache, ns) # {}
        /\ LET i == FirstMatch(cache, ns) IN
             /\ delivered' = Append(delivered, cache[i])
             /\ cache' = Without(cache, i)
        /\ Return("event")
        /\ UNCHANGED <<events, mode>>
     \/ Matches(cache, ns) = {} /\ Pull
  /\ UNCHANGED <<sock, wire, got, ncmds, emitted>>

(* What each call does once __get_events() has returned, with buf in __events *)
(* and the socket in mode m.                                                 *)

FinishEvent(buf, m) ==
  /\ api = "event"
  /\ IF buf = <<>>
     THEN Return("none") /\ events' = buf /\ UNCHANGED delivered
     ELSE /\ Return("event")
          /\ delivered' = Append(delivered, Head(buf))
          /\ events' = Tail(buf)
  /\ mode' = m /\ UNCHANGED cache

\* Mutant: without clear_events().
FinishEvents_Unclear(buf, m) ==
  /\ api = "events"
  /\ Return("list")
  /\ delivered' = delivered \o buf \o cache
  /\ events' = buf /\ cache' = <<>> /\ mode' = m

FinishEvents(buf, m) ==
  /\ api = "events"
  /\ Return("list")
  /\ delivered' = delivered \o buf \o cache
  /\ events' = <<>> /\ cache' = <<>> /\ mode' = m

\* Mutant: the event that does not match is put at the front of the queue.
FinishWaitOther_Front(buf) ==
  /\ cache' = <<Head(buf)>> \o cache
  /\ events' = Tail(buf) /\ UNCHANGED delivered
  /\ Poll

\* An event that does not match is kept, and pull_event() called again.
FinishWaitOther(buf) ==
  /\ cache' = Append(cache, Head(buf))
  /\ events' = Tail(buf) /\ UNCHANGED delivered
  /\ Poll

FinishWait(buf, m) ==
  /\ api = "wait"
  /\ \/ /\ buf = <<>>                   \* event['event'] of None
        /\ Return("type_error")
        /\ events' = buf /\ mode' = m /\ UNCHANGED <<cache, delivered>>
     \/ /\ buf # <<>> /\ emitted[Head(buf)] \in names
        /\ Return("event")
        /\ delivered' = Append(delivered, Head(buf))
        /\ events' = Tail(buf) /\ mode' = m /\ UNCHANGED cache
     \/ /\ buf # <<>> /\ emitted[Head(buf)] \notin names
        /\ FinishWaitOther(buf)

Finish(buf, m) == FinishEvent(buf, m) \/ FinishEvents(buf, m) \/ FinishWait(buf, m)

\* The socket is blocking again, with a timeout if wait is a float.
Block ==
  /\ pc' = "block"
  /\ mode' = IF wait = "timed" THEN "timed" ELSE "blocking"
  /\ UNCHANGED <<buffers, out, clean>>

\* The poll is over: nothing more can be read, the peer is gone (whatever
\* socket.error says, it is ignored), or an answer was read, and is dropped.
PollEnds ==
  /\ pc = "poll"
  /\ \/ RunsDry /\ DropPrefix
     \/ AtEOF /\ UNCHANGED wire
     \/ HasLine /\ Next1.kind \in Answers \cup {"greeting"} /\ Consume
  /\ \/ events = <<>> /\ wait # "no" /\ Block
     \/ (events # <<>> \/ wait = "no") /\ Finish(events, "blocking")
  /\ UNCHANGED <<sock, api, wait, names, got, ncmds, emitted>>

\* Mutant: settimeout(None) is missing.
BlockRead_KeepsTimeout ==
  /\ pc = "block" /\ HasLine /\ Next1.kind # "junk"
  /\ Consume
  /\ Finish(IF Next1.kind = "event" THEN Append(events, Next1.id) ELSE events, mode)
  /\ UNCHANGED <<sock, api, wait, names, got, ncmds, emitted>>

\* Mutant: with only_event the event is returned and not kept.
BlockRead_Unkept ==
  /\ pc = "block" /\ HasLine /\ Next1.kind # "junk"
  /\ Consume
  /\ Finish(events, "blocking")
  /\ UNCHANGED <<sock, api, wait, names, got, ncmds, emitted>>

\* The blocking read of one line with only_event=True returns: an event is kept,
\* an answer is dropped, and settimeout(None) follows in both cases.
BlockRead ==
  /\ pc = "block" /\ HasLine /\ Next1.kind # "junk"
  /\ Consume
  /\ Finish(IF Next1.kind = "event" THEN Append(events, Next1.id) ELSE events, "blocking")
  /\ UNCHANGED <<sock, api, wait, names, got, ncmds, emitted>>

\* It raises, or finds the end of the stream; settimeout(None) is skipped.
BlockFails ==
  /\ pc = "block"
  /\ \/ RunsDry /\ DropPrefix /\ Return("timeout")
     \/ AtEOF /\ UNCHANGED wire /\ Return("connect_error")
     \/ HasLine /\ Next1.kind = "junk" /\ Consume /\ Return("connect_error")
  /\ UNCHANGED <<conn, buffers, api, wait, names, got, ncmds, emitted>>

SetTimeout(t) ==
  /\ Call("settimeout") /\ sock = "open"
  /\ mode' = t
  /\ Return("none")
  /\ UNCHANGED <<sock, wire, buffers, wait, names, got, ncmds, emitted>>

\* What was on the wire is gone with the socket; what was cached is not.
Close ==
  /\ Call("close") /\ sock = "open"
  /\ sock' = "closed"
  /\ inbox' = <<>> /\ torn' = FALSE /\ outbox' = <<>> /\ peer' = "down"
  /\ Return("none")
  /\ UNCHANGED <<mode, buffers, wait, names, got, ncmds, emitted>>

-----------------------------------------------------------------------------
(* QEMU.  It talks to one client, answers commands in order and, once       *)
(* qmp_capabilities succeeded, emits events between the answers.            *)

Write(line) ==
  /\ sock = "open" /\ ~torn
  /\ inbox' = Append(inbox, line)
  /\ torn' \in {FALSE, TornLines}

PeerGreet ==
  /\ peer = "waiting" /\ peer' = "greeted"
  /\ Write([kind |-> "greeting", id |-> 0])
  /\ UNCHANGED <<conn, outbox, buffers, call, got, ncmds, emitted>>

PeerReply(a) ==
  /\ outbox # <<>> /\ peer # "down"
  /\ outbox' = Tail(outbox)
  /\ Write([kind |-> a, id |-> Head(outbox)])
  /\ peer' = IF peer = "greeted" /\ a = "return" THEN "ready" ELSE peer
  /\ UNCHANGED <<conn, buffers, call, got, ncmds, emitted>>

PeerEmit(n) ==
  /\ peer = "ready" /\ Len(emitted) < MaxEvents
  /\ emitted' = Append(emitted, n)
  /\ Write([kind |-> "event", id |-> Len(emitted')])
  /\ UNCHANGED <<conn, outbox, peer, buffers, call, got, ncmds>>

\* The rest of a torn line arrives.
PeerRest ==
  /\ torn
  /\ torn' = FALSE
  /\ UNCHANGED <<conn, inbox, outbox, peer, buffers, call, got, ncmds, emitted>>

\* QEMU exits or crashes.  A torn line stays torn for ever; if its beginning was
\* lost already, there may be nothing left of it.
PeerExit ==
  /\ sock = "open" /\ peer # "down"
  /\ peer' = "down" /\ outbox' = <<>> /\ torn' = FALSE
  /\ IF torn
     THEN LET whole == SubSeq(inbox, 1, Len(inbox) - 1) IN
          \/ inbox' = Append(whole, Junk)
          \/ inbox[Len(inbox)] = Junk /\ inbox' = whole
     ELSE inbox' = inbox
  /\ UNCHANGED <<conn, buffers, call, got, ncmds, emitted>>

-----------------------------------------------------------------------------

\* The steps of a call in progress.
ClientStep ==
  \/ GreetingRead \/ GreetingFails
  \/ CmdRead \/ CmdEOF \/ ReadRaises
  \/ BufferEvent \/ ReadJunk
  \/ PollEnds \/ BlockRead \/ BlockFails

\* The calls a caller can make.
CallerStep ==
  \/ \E negotiate \in BOOLEAN : Open(negotiate)
  \/ OpenFails
  \/ CmdSend
  \/ \E w \in Waits : GetQmpEvent(w)
  \/ \E w \in Waits : GetQmpEvents(w)
  \/ \E ns \in SUBSET Names \ {{}} : \E w \in Waits : EventsWait(ns, w)
  \/ \E t \in Timeouts : SetTimeout(t)
  \/ Close

PeerStep ==
  \/ PeerGreet
  \/ \E a \in Answers : PeerReply(a)
  \/ \E n \in Names : PeerEmit(n)
  \/ PeerRest
  \/ PeerExit

Next == ClientStep \/ CallerStep \/ PeerStep

Spec == Init /\ [][Next]_vars

\* The interpreter runs a call on; a QEMU that lives greets its client, answers
\* commands and completes the lines it began.  It need not emit an event or exit.
Fairness ==
  /\ WF_vars(ClientStep)
  /\ WF_vars(PeerGreet)
  /\ WF_vars(\E a \in Answers : PeerReply(a))
  /\ WF_vars(PeerRest)

FairSpec == Spec /\ Fairness

-----------------------------------------------------------------------------
(* Properties *)

Pcs == {"idle", "greeting", "cmd", "poll", "block"}

\* Every variable has its type.
TypeOK ==
  /\ sock \in {"new", "open", "closed"}
  /\ mode \in {"blocking", "nonblocking", "timed"}
  /\ inbox \in Seq(Lines) /\ torn \in BOOLEAN /\ outbox \in Seq(Nat)
  /\ peer \in {"waiting", "greeted", "ready", "agent", "down"}
  /\ events \in Seq(Nat) /\ cache \in Seq(Nat) /\ delivered \in Seq(Nat)
  /\ pc \in Pcs /\ api \in Apis /\ wait \in Waits \cup {"no"} /\ names \subseteq Names
  /\ out \in Outcomes /\ clean \in BOOLEAN
  /\ got \in Nat /\ ncmds \in Nat /\ emitted \in Seq(Names)

Elements(seq) == {seq[i] : i \in DOMAIN seq}
Increasing(seq) == \A i, j \in DOMAIN seq : i < j => seq[i] < seq[j]
Before(S, T) == \A s \in S, t \in T : s < t

\* The numbers of the lines of some kinds that are on the socket.
Positions(kinds) == {i \in DOMAIN inbox : inbox[i].kind \in kinds}
OnSocket(kinds) == {inbox[i].id : i \in Positions(kinds)}
IncreasingOnSocket(kinds) ==
  \A i, j \in Positions(kinds) : i < j => inbox[i].id < inbox[j].id

\* Events that were emitted and not handed to the caller yet.
Pending == Elements(cache) \cup Elements(events) \cup OnSocket({"event"})

\* cmd() returns the answer to the command it sent, not an older one.  It holds
\* as long as no read has a timeout; qmp.py:120-129 and 169-176 are what could
\* break it.
OwnReply == api = "cmd" /\ out \in Answers => got = ncmds

\* With timeouts and torn lines, answers and commands go out of step only after
\* a call has raised: the caller that drops the connection at the first exception
\* never sees the answer to another command.
OwnReplyWhileClean == clean => OwnReply

\* Whatever timed out: answers reach callers in the order of the commands, none
\* twice, and those still on the way come after all that were handed out.
AnswersInOrder ==
  /\ IncreasingOnSocket(Answers) /\ Increasing(outbox)
  /\ Before({got}, OnSocket(Answers) \cup Elements(outbox))
  /\ Before(OnSocket(Answers), Elements(outbox))

\* While the connection is open an event was delivered once or is waiting in a cache
\* or on the socket (in one of them only, by PendingInOrder): reading answers
\* (qmp.py:80-91), waiting for a name (machine.py:462-472) and timeouts lose none and
\* copy none.
EventsConserved ==
  /\ sock = "open" => Elements(delivered) \cup Pending = 1 .. Len(emitted)
  /\ Elements(delivered) \cap Pending = {}
  /\ \A i, j \in DOMAIN delivered : i # j => delivered[i] # delivered[j]

\* _events of the machine, __events of the protocol and the socket hold the
\* undelivered events oldest first, in this order, though events_wait() moves
\* events between them: that is why _events may be searched first.
PendingInOrder ==
  /\ Increasing(cache) /\ Increasing(events) /\ IncreasingOnSocket({"event"})
  /\ Before(Elements(cache), Elements(events) \cup OnSocket({"event"}))
  /\ Before(Elements(events), OnSocket({"event"}))

\* get_qmp_event() returns the oldest event there is, and events_wait() the oldest
\* one with a name it looks for, wherever they are kept.
OldestFirst ==
  [][ api' \in {"event", "wait"} /\ delivered' # delivered =>
        LET new == delivered'[Len(delivered')] IN
        \A e \in Pending :
           api' = "event" \/ emitted[e] \in names' => new <= e ]_vars

\* pull_event() with a wait ends with an event or an exception (qmp.py:210-212).
\* Holds without timeouts; an answer that arrives late ends the wait with None.
WaitEndsWithEvent == api = "event" /\ wait # "no" => out # "none"

\* A cmd() to a QEMU that lives raises socket.timeout or EAGAIN only if an
\* earlier call failed: every call that succeeds leaves the socket blocking.
CmdRaisesOnlyAfterFailure ==
  [][ pc = "cmd" /\ peer # "down" /\ out' \in {"timeout", "socket_error"} => ~clean ]_vars

\* A command gets an answer, or the end of the connection.
CmdReturns == pc = "cmd" ~> pc = "idle"

\* events_wait() does not sleep on an event it looks for, in whichever of the
\* places it sits when the call starts or arrives later.
WaitFindsMatch ==
  (api = "wait" /\ pc # "idle" /\ \E e \in Pending : emitted[e] \in names)
     ~> pc = "idle"

\* The abstract service: each command is answered once, before the next is sent,
\* and each event is taken once and lost only with the connection.
Service == INSTANCE MonitorService WITH
  maxCalls <- MaxCmds,
  maxEvents <- MaxEvents,
  up <- sock = "open",
  calls <- ncmds,
  outstanding <- pc = "cmd",
  answered <- got,
  known <- Len(emitted),
  pending <- Pending,
  taken <- Elements(delivered)

\* Without timeouts the client implements that service, negotiation included.
ImplementsService == Service!Spec

=============================================================================
