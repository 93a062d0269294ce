----------------------------- MODULE EventMatch -----------------------------
(***************************************************************************)
(* The match criteria of QEMUMachine.events_wait() in                      *)
(* share/python/qemu/machine.py.  In QEMUMonitorProtocol an event matches  *)
(* or does not; here event_match() decides it, on JSON values and as       *)
(* Python evaluates it: by going over the criteria, with "in" and with     *)
(* subscripts that may raise.                                              *)
(*                                                                         *)
(* A value is a record with one field that tells what it is.  A string is  *)
(* a sequence of characters, a dict a function from strings.               *)
(***************************************************************************)
EXTENDS Integers, SequencesExt

CONSTANTS
  Values,    \* JSON values
  Size,      \* of each, more than that of any value in it
  Datas,     \* what the data of an event may be
  Criteria,  \* what callers ask of the data
  MaxEvents  \* bound: events emitted

VARIABLES
  cache,    \* QEMUMachine._events
  wire,     \* the events that pull_event() has yet to return
  pc,       \* of events_wait(): "idle", "scan", "poll"
  match,    \* its criteria
  out,      \* what the last one returned: <<event>>, or <<>> if it raised
  taken,    \* history: events returned
  lost,     \* history: events pulled by a wait that raised, each with the criteria
  nevents   \* history: events emitted so far

vars == <<cache, wire, pc, match, out, taken, lost, nevents>>

-----------------------------------------------------------------------------
(* Python on JSON values *)

None == [none |-> TRUE]
Num(n) == [num |-> n]
Str(s) == [str |-> s]
List(l) == [list |-> l]
Dict(d) == [dict |-> d]

Is(v, kind) == kind \in DOMAIN v

Smaller(v, w) == v \in Values /\ Size[v] < Size[w]

\* A value is of one kind, and holds only values, one level less deep.
IsValue(v) ==
  \/ v = None
  \/ Is(v, "num") /\ v = Num(v.num) /\ v.num \in Int
  \/ Is(v, "str") /\ v = Str(v.str) /\ v.str \in Seq(STRING)
  \/ /\ Is(v, "list") /\ v = List(v.list) /\ v.list \in Seq(Values)
     /\ \A i \in DOMAIN v.list : Smaller(v.list[i], v)
  \/ /\ Is(v, "dict") /\ v = Dict(v.dict) /\ v.dict \in [DOMAIN v.dict -> Values]
     /\ DOMAIN v.dict \subseteq Seq(STRING)
     /\ \A k \in DOMAIN v.dict : Smaller(v.dict[k], v)

ASSUME MatchAssumption ==
  /\ Size \in [Values -> Nat] /\ \A v \in Values : IsValue(v)
  /\ Datas \subseteq Values /\ Criteria \subseteq Values
  /\ MaxEvents \in Nat

\* The result of a comparison.
Truth(b) == IF b THEN "true" ELSE "false"

Within(s, t) == \E i \in 0 .. (Len(t) - Len(s)) : SubSeq(t, i + 1, i + Len(s)) = s

\* key in v
In(key, v) ==
  CASE Is(v, "dict") /\ ~Is(key, "list") /\ ~Is(key, "dict") ->
         Truth(Is(key, "str") /\ key.str \in DOMAIN v.dict)
    [] Is(v, "list") -> Truth(key \in ToSet(v.list))
    [] Is(v, "str") /\ Is(key, "str") -> Truth(Within(key.str, v.str))
    [] OTHER -> "TypeError"

\* v[key], where key is in v if v is a dict.  A list counts from 0, and from its end
\* with negative numbers.
Raises(v, key) ==
  CASE Is(v, "dict") -> "nothing"
    [] Is(v, "list") /\ Is(key, "num") ->
         IF key.num \in -Len(v.list) .. (Len(v.list) - 1) THEN "nothing" ELSE "IndexError"
    [] OTHER -> "TypeError"
Item(v, key) ==
  IF Is(v, "dict") THEN v.dict[key.str]
  ELSE v.list[IF key.num < 0 THEN key.num + Len(v.list) + 1 ELSE key.num + 1]

\* What "for key in v" goes through, by place; the keys of a dict have no order.
Keys(v) ==
  CASE Is(v, "dict") -> [k \in DOMAIN v.dict |-> Str(k)]
    [] Is(v, "list") -> v.list
    [] Is(v, "str") -> [i \in DOMAIN v.str |-> Str(<<v.str[i]>>)]

-----------------------------------------------------------------------------
(* event_match() *)

\* Mutant: a key that is not there is no mismatch.
Round_AnyKey(em, event, m, key) ==
  IF In(key, event) = "TypeError" THEN {"TypeError"}
  ELSE IF In(key, event) = "false" THEN {"true"}
  ELSE IF Raises(event, key) # "nothing" THEN {Raises(event, key)}
  ELSE IF Raises(m, key) # "nothing" THEN {Raises(m, key)}
  ELSE em[Item(m, key)][Item(event, key)]

\* How one round of the loop may end; with "true" the loop goes on.  em is the function
\* itself, which is called for what the key stands for.
Round(em, event, m, key) ==
  IF In(key, event) # "true" THEN {In(key, event)}
  ELSE IF Raises(event, key) # "nothing" THEN {Raises(event, key)}
  ELSE IF Raises(m, key) # "nothing" THEN {Raises(m, key)}
  ELSE em[Item(m, key)][Item(event, key)]

\* How the loop may end: in several ways if the order of a dict decides.
Loop(em, event, m) ==
  LET keys == Keys(m)
      round == [i \in DOMAIN keys |-> Round(em, event, m, keys[i])]
      comesTo(i) == Is(m, "dict") \/ \A j \in 1 .. (i - 1) : "true" \in round[j]
  IN (UNION {round[i] \ {"true"} : i \in {j \in DOMAIN keys : comesTo(j)}})
       \cup (IF \A i \in DOMAIN keys : "true" \in round[i] THEN {"true"} ELSE {})

\* The results event_match() may have.
Results(em, event, m) ==
  CASE Is(m, "none") -> {"true"}
    [] Is(m, "num") -> {Truth(m = event)}
    [] OTHER -> {IF r = "TypeError" THEN Truth(m = event) ELSE r : r \in Loop(em, event, m)}

EventMatch[m \in Values] == [event \in Values |-> Results(EventMatch, event, m)]

-----------------------------------------------------------------------------
(* events_wait() *)

Init ==
  /\ cache = <<>> /\ wire = <<>>
  /\ pc = "idle" /\ match = None /\ out = <<>>
  /\ taken = {} /\ lost = {} /\ nevents = 0

\* QEMU emits an event.
Emit(d) ==
  /\ nevents < MaxEvents /\ nevents' = nevents + 1
  /\ wire' = Append(wire, [id |-> nevents + 1, data |-> d])
  /\ UNCHANGED <<cache, pc, match, out, taken, lost>>

EventsWait(m) ==
  /\ pc = "idle" /\ pc' = "scan" /\ match' = m
  /\ UNCHANGED <<cache, wire, out, taken, lost, nevents>>

Returns(e) == pc' = "idle" /\ out' = <<e>> /\ taken' = taken \cup {e}
Raised == pc' = "idle" /\ out' = <<>> /\ UNCHANGED taken

\* The cached events, up to the first that matches or makes event_match() raise.
Scan ==
  /\ pc = "scan"
  /\ \E i \in 1 .. (Len(cache) + 1) :
       /\ \A j \in 1 .. (i - 1) : "false" \in EventMatch[match][cache[j].data]
       /\ IF i > Len(cache)
          THEN pc' = "poll" /\ UNCHANGED <<cache, out, taken>>
          ELSE \/ /\ "true" \in EventMatch[match][cache[i].data]
                  /\ cache' = RemoveAt(cache, i)
                  /\ Returns(cache[i])
               \/ /\ "IndexError" \in EventMatch[match][cache[i].data]
                  /\ Raised /\ UNCHANGED cache
  /\ UNCHANGED <<wire, match, lost, nevents>>

\* Mutant: an event that does not match is not cached.
Poll_Drops ==
  /\ pc = "poll" /\ wire # <<>> /\ wire' = Tail(wire)
  /\ \/ /\ "true" \in EventMatch[match][Head(wire).data]
        /\ Returns(Head(wire)) /\ UNCHANGED <<cache, lost>>
     \/ /\ "IndexError" \in EventMatch[match][Head(wire).data]
        /\ lost' = lost \cup {[event |-> Head(wire), match |-> match]}
        /\ Raised /\ UNCHANGED cache
     \/ /\ "false" \in EventMatch[match][Head(wire).data]
        /\ UNCHANGED <<cache, pc, out, taken, lost>>
  /\ UNCHANGED <<match, nevents>>

\* The next event that comes in.
Poll ==
  /\ pc = "poll" /\ wire # <<>> /\ wire' = Tail(wire)
  /\ \/ /\ "true" \in EventMatch[match][Head(wire).data]
        /\ Returns(Head(wire)) /\ UNCHANGED <<cache, lost>>
     \/ /\ "IndexError" \in EventMatch[match][Head(wire).data]
        /\ lost' = lost \cup {[event |-> Head(wire), match |-> match]}
        /\ Raised /\ UNCHANGED cache
     \/ /\ "false" \in EventMatch[match][Head(wire).data]
        /\ cache' = Append(cache, Head(wire))
        /\ UNCHANGED <<pc, out, taken, lost>>
  /\ UNCHANGED <<match, nevents>>

Next ==
  \/ \E d \in Datas : Emit(d)
  \/ \E m \in Criteria : EventsWait(m)
  \/ Scan \/ Poll

Spec == Init /\ [][Next]_vars

-----------------------------------------------------------------------------
(* Properties *)

\* What the comment of event_match() says (machine.py:408-412): the event is a
\* superset of the criteria, recursively, None standing for any value.
Includes(superset, event, m) ==
  CASE Is(m, "none") -> TRUE
    [] Is(m, "dict") ->
         /\ Is(event, "dict") /\ DOMAIN m.dict \subseteq DOMAIN event.dict
         /\ \A k \in DOMAIN m.dict : superset[m.dict[k]][event.dict[k]]
    [] OTHER -> m = event
Superset[m \in Values] == [event \in Values |-> Includes(Superset, event, m)]

\* Criteria that Python's "in" and subscripts do not lead astray: nothing empty, for
\* which the loop has no round, and no list that begins with a number, which is taken
\* for a place in the list of the event.
IsPlain(plain, m) ==
  CASE Is(m, "dict") -> DOMAIN m.dict # {} /\ \A k \in DOMAIN m.dict : plain[m.dict[k]]
    [] Is(m, "list") -> m.list # <<>> /\ ~Is(m.list[1], "num")
    [] Is(m, "str") -> m.str # <<>>
    [] OTHER -> TRUE
Plain[m \in Values] == IsPlain(Plain, m)

\* A wait for plain criteria returns the oldest event, of those cached and those on
\* the way, that is a superset of them (machine.py:450-474).
TakesOldestMatch ==
  [][ pc # "idle" /\ pc' = "idle" /\ Plain[match] =>
        /\ out' # <<>> /\ Superset[match][out'[1].data]
        /\ \A e \in ToSet(cache) \cup ToSet(wire) :
             Superset[match][e.data] => out'[1].id <= e.id ]_vars

\* An event that came in is returned or cached, but for those on which event_match()
\* raised, with criteria that are not plain (machine.py:468-472).
EventsKept ==
  /\ {e.id : e \in ToSet(cache) \cup ToSet(wire) \cup taken \cup {l.event : l \in lost}}
       = 1 .. nevents
  /\ \A l \in lost : ~Plain[l.match]

=============================================================================
