--------------------------- MODULE EventMatch_proofs --------------------------
(***************************************************************************)
(* The properties of EventMatch.  event_match() calls itself on the values *)
(* in its arguments: first, that such a function is defined at all; then   *)
(* what it computes for criteria that are plain, on any values; then what  *)
(* events_wait() makes of it.                                              *)
(***************************************************************************)
EXTENDS EventMatch, SequenceTheorems, WellFoundedInduction, TLAPS

-----------------------------------------------------------------------------
(* Functions that call themselves *)

\* A set of numbers has a least one.
LEMMA LeastOf ==
  ASSUME NEW S \in SUBSET Nat, S # {}
  PROVE  \E i \in S : \A j \in S : i <= j
<1> DEFINE R == {r \in Nat \X Nat : r[1] < r[2]}
<1>1. IsWellFoundedOn(R, Nat)
  BY NatLessThanWellFounded DEF OpToRel
<1>2. \E i \in S : \A j \in S : ~(<<j, i>> \in R)
  <2> HIDE DEF R
  <2> QED
    BY <1>1, WFMin
<1>3. \A i, j \in Nat : ~(<<j, i>> \in R) => i <= j
  OBVIOUS
<1> QED
  BY <1>2, <1>3

\* F makes a function on S, with values in T, out of such a function.
StepOf(F, S, T) == F \in [S -> [[S -> T] -> T]]

\* There is a function that F makes out of itself.
CallsItself(F, S, T) == \E f \in [S -> T] : \A p \in S : f[p] = F[p][f]

\* g is what F says up to size k.
Upto(g, k, F, S, T, size) ==
  g \in [S -> T] /\ \A p \in S : size[p] < k => g[p] = F[p][g]

\* F needs a function on what is smaller only.
LooksDown(F, S, T, size) ==
  \A p \in S : \A g, h \in [S -> T] :
    (\A q \in S : size[q] < size[p] => g[q] = h[q]) => F[p][g] = F[p][h]

\* Two functions that are what F says are the same.
LEMMA SameUpto ==
  ASSUME NEW S, NEW T, NEW size \in [S -> Nat], NEW F, LooksDown(F, S, T, size),
         NEW k \in Nat, NEW l \in Nat, k <= l,
         NEW g, Upto(g, k, F, S, T, size), NEW h, Upto(h, l, F, S, T, size),
         NEW p \in S, size[p] < k
  PROVE  g[p] = h[p]
<1> DEFINE Bad == {n \in Nat : \E q \in S : size[q] = n /\ n < k /\ g[q] # h[q]}
<1> SUFFICES ASSUME g[p] # h[p] PROVE FALSE
  OBVIOUS
<1>1. Bad \in SUBSET Nat /\ size[p] \in Bad
  OBVIOUS
<1>2. PICK n \in Bad : \A j \in Bad : n <= j
  <2> HIDE DEF Bad
  <2> QED
    BY <1>1, LeastOf
<1>3. PICK q \in S : size[q] = n /\ n < k /\ g[q] # h[q]
  BY <1>2
<1>4. ASSUME NEW r \in S, size[r] < size[q]
      PROVE  g[r] = h[r]
  <2>1. size[r] \in Nat /\ n \in Nat /\ size[r] < n /\ size[r] < k
    BY <1>3, <1>4
  <2>2. size[r] \notin Bad
    BY <1>2, <2>1
  <2> QED
    BY <2>1, <2>2
<1> HIDE DEF Bad
<1>5. F[q][g] = F[q][h]
  BY <1>4 DEF LooksDown, Upto
<1>6. size[q] \in Nat /\ size[q] < k /\ size[q] < l
  BY <1>3
<1>7. g[q] = F[q][g] /\ h[q] = F[q][h]
  BY <1>6 DEF Upto
<1> QED
  BY <1>3, <1>5, <1>7

\* There is a function that is what F says up to any size.
LEMMA ExistsUpto ==
  ASSUME NEW S, NEW T, T # {}, NEW size \in [S -> Nat],
         NEW F, StepOf(F, S, T), LooksDown(F, S, T, size), NEW n \in Nat
  PROVE  \E g : Upto(g, n, F, S, T, size)
<1> DEFINE Bad == {k \in Nat : ~\E g : Upto(g, k, F, S, T, size)}
<1> SUFFICES ASSUME n \in Bad PROVE FALSE
  OBVIOUS
<1>1. PICK k \in Bad : \A j \in Bad : k <= j
  <2>1. Bad \in SUBSET Nat
    OBVIOUS
  <2> HIDE DEF Bad
  <2> QED
    BY <2>1, LeastOf
<1>2. k \in Nat /\ ~\E g : Upto(g, k, F, S, T, size)
  OBVIOUS
<1>3. k # 0
  <2> PICK t \in T : TRUE
    OBVIOUS
  <2> DEFINE g == [p \in S |-> t]
  <2>1. g \in [S -> T]
    OBVIOUS
  <2>2. \A p \in S : ~(size[p] < 0)
    OBVIOUS
  <2> HIDE DEF g
  <2>3. Upto(g, 0, F, S, T, size)
    BY <2>1, <2>2 DEF Upto
  <2> QED
    BY <1>2, <2>3
<1>4. k - 1 \in Nat /\ k - 1 \notin Bad
  <2>1. k - 1 \in Nat /\ ~(k <= k - 1)
    BY <1>2, <1>3
  <2> HIDE DEF Bad
  <2> QED
    BY <1>1, <2>1
<1>5. PICK g : Upto(g, k - 1, F, S, T, size)
  BY <1>4
<1> HIDE DEF Bad
<1> DEFINE h == [p \in S |-> F[p][g]]
<1>6. g \in [S -> T] /\ h \in [S -> T]
  BY <1>5 DEF Upto, StepOf
<1>7. ASSUME NEW p \in S, size[p] < k
      PROVE  h[p] = F[p][h]
  <2>1. ASSUME NEW q \in S, size[q] < size[p]
        PROVE  g[q] = h[q]
    <3>1. size[q] \in Nat /\ size[p] \in Nat /\ size[q] < k - 1
      BY <1>2, <1>7, <2>1
    <3> QED
      BY <1>5, <3>1 DEF Upto
  <2> HIDE DEF h
  <2>2. F[p][g] = F[p][h]
    BY <1>6, <2>1 DEF LooksDown
  <2> QED
    BY <2>2 DEF h
<1> HIDE DEF h
<1>8. Upto(h, k, F, S, T, size)
  BY <1>6, <1>7 DEF Upto
<1> QED
  BY <1>2, <1>8

\* A function that calls itself on what is smaller than its argument is defined
\* (event_match() on the values in the criteria, machine.py:427).
LEMMA Recursion ==
  ASSUME NEW S, NEW T, T # {}, NEW size \in [S -> Nat],
         NEW F, StepOf(F, S, T), LooksDown(F, S, T, size)
  PROVE  CallsItself(F, S, T)
<1> DEFINE G(k) == CHOOSE g : Upto(g, k, F, S, T, size)
           f == [p \in S |-> G(size[p] + 1)[p]]
<1>1. \A k \in Nat : Upto(G(k), k, F, S, T, size)
  <2> SUFFICES ASSUME NEW k \in Nat PROVE Upto(G(k), k, F, S, T, size)
    OBVIOUS
  <2>1. \E g : Upto(g, k, F, S, T, size)
    BY ExistsUpto
  <2> QED
    BY <2>1, Zenon
<1> HIDE DEF G
<1>2. \A p \in S : size[p] \in Nat /\ size[p] + 1 \in Nat /\ size[p] < size[p] + 1
  OBVIOUS
<1>3. f \in [S -> T]
  BY <1>1, <1>2 DEF Upto
<1>4. ASSUME NEW p \in S
      PROVE  f[p] = F[p][f]
  <2> DEFINE g == G(size[p] + 1)
  <2>1. Upto(g, size[p] + 1, F, S, T, size) /\ g \in [S -> T]
    BY <1>1, <1>2 DEF Upto
  <2> HIDE DEF g
  <2>2. ASSUME NEW q \in S, size[q] < size[p]
        PROVE  f[q] = g[q]
    <3>1. size[q] + 1 <= size[p] + 1
      BY <1>2, <2>2
    <3>2. Upto(G(size[q] + 1), size[q] + 1, F, S, T, size)
      BY <1>1, <1>2
    <3>3. G(size[q] + 1)[q] = g[q]
      BY <1>2, <2>1, <3>1, <3>2, SameUpto
    <3> QED
      BY <3>3
  <2>3. f[p] = g[p]
    BY DEF g
  <2> HIDE DEF f
  <2>4. F[p][f] = F[p][g]
    BY <1>3, <2>1, <2>2 DEF LooksDown
  <2>5. g[p] = F[p][g]
    BY <1>2, <2>1 DEF Upto
  <2> QED
    BY <2>3, <2>4, <2>5
<1> HIDE DEF f
<1> QED
  BY <1>3, <1>4 DEF CallsItself

-----------------------------------------------------------------------------
(* event_match() as a function *)

\* A value is of one kind.
LEMMA KindOf ==
  ASSUME NEW v \in Values
  PROVE  \/ DOMAIN v = {"none"} /\ v = None
         \/ DOMAIN v = {"num"} /\ v = Num(v.num) /\ v.num \in Int
         \/ DOMAIN v = {"str"} /\ v = Str(v.str) /\ v.str \in Seq(STRING)
         \/ /\ DOMAIN v = {"list"} /\ v = List(v.list) /\ v.list \in Seq(Values)
            /\ \A i \in DOMAIN v.list : Smaller(v.list[i], v)
         \/ /\ DOMAIN v = {"dict"} /\ v = Dict(v.dict)
            /\ DOMAIN v.dict \subseteq Seq(STRING)
            /\ \A k \in DOMAIN v.dict : Smaller(v.dict[k], v)
<1>1. IsValue(v)
  BY MatchAssumption
<1>2. DOMAIN None = {"none"}
  BY DEF None
<1>3. \A x : DOMAIN Num(x) = {"num"} /\ DOMAIN Str(x) = {"str"}
             /\ DOMAIN List(x) = {"list"} /\ DOMAIN Dict(x) = {"dict"}
  BY DEF Num, Str, List, Dict
<1>4. \/ v = None
      \/ v = Num(v.num) /\ v.num \in Int
      \/ v = Str(v.str) /\ v.str \in Seq(STRING)
      \/ /\ v = List(v.list) /\ v.list \in Seq(Values)
         /\ \A i \in DOMAIN v.list : Smaller(v.list[i], v)
      \/ /\ v = Dict(v.dict) /\ DOMAIN v.dict \subseteq Seq(STRING)
         /\ \A k \in DOMAIN v.dict : Smaller(v.dict[k], v)
  BY <1>1, Zenon DEF IsValue
<1> QED
  BY <1>2, <1>3, <1>4, Zenon

\* What a criterion is a loop over (machine.py:425).
LEMMA KeysOf ==
  ASSUME NEW m \in Values, NEW i \in DOMAIN Keys(m)
  PROVE  /\ Is(m, "dict") => i \in DOMAIN m.dict /\ Keys(m)[i] = Str(i)
         /\ Is(m, "list") => i \in DOMAIN m.list /\ Keys(m)[i] = m.list[i]
         /\ Is(m, "str") => i \in DOMAIN m.str /\ Keys(m)[i] = Str(<<m.str[i]>>)
<1>1. CASE Is(m, "dict")
  <2>1. DOMAIN m = {"dict"}
    BY <1>1, KindOf DEF Is
  <2>2. Keys(m) = [k \in DOMAIN m.dict |-> Str(k)]
    BY <2>1 DEF Keys, Is
  <2> QED
    BY <2>1, <2>2 DEF Is
<1>2. CASE Is(m, "list")
  <2>1. DOMAIN m = {"list"}
    BY <1>2, KindOf DEF Is
  <2>2. Keys(m) = m.list
    BY <2>1 DEF Keys, Is
  <2> QED
    BY <2>1, <2>2 DEF Is
<1>3. CASE Is(m, "str")
  <2>1. DOMAIN m = {"str"}
    BY <1>3, KindOf DEF Is
  <2>2. Keys(m) = [j \in DOMAIN m.str |-> Str(<<m.str[j]>>)]
    BY <2>1 DEF Keys, Is
  <2> QED
    BY <2>1, <2>2 DEF Is
<1> QED
  BY <1>1, <1>2, <1>3

\* A subscript that does not raise is a value one level down (machine.py:427).
LEMMA ItemIsSmaller ==
  ASSUME NEW v \in Values, NEW key, Raises(v, key) = "nothing",
         Is(v, "dict") => key.str \in DOMAIN v.dict
  PROVE  Smaller(Item(v, key), v)
<1>1. CASE Is(v, "dict")
  <2>1. \A k \in DOMAIN v.dict : Smaller(v.dict[k], v)
    BY <1>1, KindOf DEF Is
  <2>2. Item(v, key) = v.dict[key.str]
    BY <1>1 DEF Item
  <2> QED
    BY <1>1, <2>1, <2>2
<1>2. CASE ~Is(v, "dict")
  <2>1. Is(v, "list") /\ Is(key, "num") /\ key.num \in -Len(v.list) .. (Len(v.list) - 1)
    BY <1>2 DEF Raises
  <2>2. v.list \in Seq(Values) /\ \A i \in DOMAIN v.list : Smaller(v.list[i], v)
    BY <2>1, KindOf DEF Is
  <2> DEFINE j == IF key.num < 0 THEN key.num + Len(v.list) + 1 ELSE key.num + 1
  <2>3. Len(v.list) \in Nat /\ DOMAIN v.list = 1 .. Len(v.list)
    BY <2>2, LenProperties
  <2>4. j \in DOMAIN v.list
    BY <2>1, <2>3
  <2>5. Item(v, key) = v.list[j]
    BY <1>2 DEF Item
  <2> QED
    BY <2>2, <2>4, <2>5
<1> QED
  BY <1>1, <1>2

Ends == {"true", "false", "TypeError", "IndexError"}
Matchers == [Values -> [Values -> SUBSET Ends]]

\* Two functions that are the same for what is smaller than the criteria m.
SameBelow(em, en, m) == \A q \in Values : Size[q] < Size[m] => em[q] = en[q]

\* One round (machine.py:426-430) asks the function for something smaller.
LEMMA RoundLooksDown ==
  ASSUME NEW event \in Values, NEW m \in Values, NEW i \in DOMAIN Keys(m),
         ~Is(m, "none"), ~Is(m, "num"),
         NEW em \in Matchers, NEW en, SameBelow(em, en, m)
  PROVE  /\ Round(em, event, m, Keys(m)[i]) \in SUBSET Ends
         /\ Round(em, event, m, Keys(m)[i]) = Round(en, event, m, Keys(m)[i])
<1> DEFINE key == Keys(m)[i]
<1>1. Is(m, "dict") => key.str \in DOMAIN m.dict
  BY KeysOf DEF Str
<1> HIDE DEF key
<1>2. In(key, event) \in Ends
  BY DEF In, Ends, Truth
<1>3. In(key, event) = "true" /\ Is(event, "dict") => key.str \in DOMAIN event.dict
  <2> SUFFICES ASSUME In(key, event) = "true", Is(event, "dict")
               PROVE  key.str \in DOMAIN event.dict
    OBVIOUS
  <2>1. ~Is(event, "list") /\ ~Is(event, "str")
    BY KindOf DEF Is
  <2> QED
    BY <2>1 DEF In, Truth
<1>4. Raises(event, key) \in Ends \cup {"nothing"} /\ Raises(m, key) \in Ends \cup {"nothing"}
  BY DEF Raises, Ends
<1>5. CASE In(key, event) # "true"
  BY <1>2, <1>5 DEF Round, key
<1>6. CASE In(key, event) = "true" /\ Raises(event, key) # "nothing"
  BY <1>4, <1>6 DEF Round, key
<1>7. CASE In(key, event) = "true" /\ Raises(event, key) = "nothing" /\ Raises(m, key) # "nothing"
  BY <1>4, <1>7 DEF Round, key
<1>8. CASE In(key, event) = "true" /\ Raises(event, key) = "nothing" /\ Raises(m, key) = "nothing"
  <2>1. Item(event, key) \in Values
    BY <1>3, <1>8, ItemIsSmaller DEF Smaller
  <2>2. Item(m, key) \in Values /\ Size[Item(m, key)] < Size[m]
    BY <1>1, <1>8, ItemIsSmaller DEF Smaller
  <2>3. em[Item(m, key)] = en[Item(m, key)]
    BY <2>2 DEF SameBelow
  <2>4. em[Item(m, key)][Item(event, key)] \in SUBSET Ends
    BY <2>1, <2>2 DEF Matchers
  <2>5. /\ Round(em, event, m, key) = em[Item(m, key)][Item(event, key)]
        /\ Round(en, event, m, key) = en[Item(m, key)][Item(event, key)]
    BY <1>8 DEF Round
  <2> QED
    BY <2>3, <2>4, <2>5 DEF key
<1> QED
  BY <1>2, <1>4, <1>5, <1>6, <1>7, <1>8

\* A union that stays within E.
LEMMA UnionBound ==
  ASSUME NEW U, NEW E, \A u \in U : u \in SUBSET E, NEW t \in SUBSET E
  PROVE  (UNION U) \cup t \in SUBSET E
<1> SUFFICES ASSUME NEW x \in (UNION U) \cup t PROVE x \in E
  OBVIOUS
<1> QED
  OBVIOUS

\* event_match() asks itself for something smaller only (machine.py:427).
LEMMA ResultsLookDown ==
  ASSUME NEW event \in Values, NEW m \in Values,
         NEW em \in Matchers, NEW en, SameBelow(em, en, m)
  PROVE  /\ Results(em, event, m) \in SUBSET Ends
         /\ Results(em, event, m) = Results(en, event, m)
<1>1. CASE Is(m, "none") \/ Is(m, "num")
  <2>1. Truth(m = event) \in Ends
    BY DEF Truth, Ends
  <2>2. Results(em, event, m) \in {{"true"}, {Truth(m = event)}}
    BY <1>1, KindOf DEF Results, Is
  <2> QED
    BY <1>1, <2>1, <2>2, KindOf DEF Results, Is, Ends
<1>2. CASE ~(Is(m, "none") \/ Is(m, "num"))
  <2> DEFINE keys == Keys(m)
             round == [i \in DOMAIN keys |-> Round(em, event, m, keys[i])]
             other == [i \in DOMAIN keys |-> Round(en, event, m, keys[i])]
  <2>1. round = other /\ \A i \in DOMAIN keys : round[i] \in SUBSET Ends
    BY <1>2, RoundLooksDown
  <2>2. Loop(em, event, m) \in SUBSET Ends
    <3> DEFINE comesTo(i) == Is(m, "dict") \/ \A j \in 1 .. (i - 1) : "true" \in round[j]
    <3>1. Loop(em, event, m) =
            (UNION {round[i] \ {"true"} : i \in {j \in DOMAIN keys : comesTo(j)}})
              \cup (IF \A i \in DOMAIN keys : "true" \in round[i] THEN {"true"} ELSE {})
      BY DEF Loop
    <3> DEFINE U == {round[i] \ {"true"} : i \in {j \in DOMAIN keys : comesTo(j)}}
               t == IF \A i \in DOMAIN keys : "true" \in round[i] THEN {"true"} ELSE {}
    <3>2. t \in SUBSET Ends
      BY DEF Ends
    <3>3. \A u \in U : u \in SUBSET Ends
      <4> HIDE DEF round, keys, comesTo
      <4> QED
        BY <2>1
    <3>4. Loop(em, event, m) = (UNION U) \cup t
      BY <3>1
    <3> HIDE DEF U, t
    <3>5. (UNION U) \cup t \in SUBSET Ends
      BY <3>2, <3>3, UnionBound
    <3> QED
      BY <3>4, <3>5
  <2>3. Loop(em, event, m) = Loop(en, event, m)
    BY <2>1, Zenon DEF Loop
  <2>4. Truth(m = event) \in Ends
    BY DEF Truth, Ends
  <2>5. \A rec \in {em, en} : Results(rec, event, m) =
          {IF r = "TypeError" THEN Truth(m = event) ELSE r : r \in Loop(rec, event, m)}
    BY <1>2 DEF Results
  <2> QED
    BY <2>2, <2>3, <2>4, <2>5
<1> QED
  BY <1>1, <1>2

\* event_match() is what its body says, with any values (machine.py:403-434).
THEOREM EventMatchUnfolds ==
  \A m \in Values : \A event \in Values :
    EventMatch[m][event] = Results(EventMatch, event, m)
<1> DEFINE T == [Values -> SUBSET Ends]
           F == [m \in Values |-> [em \in [Values -> T] |->
                   [event \in Values |-> Results(em, event, m)]]]
           Body(em) == [m \in Values |-> [event \in Values |-> Results(em, event, m)]]
<1>1. T # {} /\ Size \in [Values -> Nat]
  <2>1. [v \in Values |-> {}] \in T
    OBVIOUS
  <2> QED
    BY <2>1, MatchAssumption
<1>2. \A em \in [Values -> T] : \A m \in Values : [event \in Values |-> Results(em, event, m)] \in T
  <2> SUFFICES ASSUME NEW em \in [Values -> T], NEW m \in Values, NEW event \in Values
               PROVE  Results(em, event, m) \in SUBSET Ends
    OBVIOUS
  <2>1. em \in Matchers /\ SameBelow(em, em, m)
    BY DEF Matchers, SameBelow
  <2> QED
    BY <2>1, ResultsLookDown
<1>3. F \in [Values -> [[Values -> T] -> T]]
  <2> HIDE DEF T
  <2> QED
    BY <1>2
<1>4. LooksDown(F, Values, T, Size)
  <2> SUFFICES ASSUME NEW m \in Values, NEW em \in [Values -> T], NEW en \in [Values -> T],
                      \A q \in Values : Size[q] < Size[m] => em[q] = en[q]
               PROVE  F[m][em] = F[m][en]
    <3> HIDE DEF F, T
    <3> QED
      BY DEF LooksDown
  <2>1. em \in Matchers /\ en \in Matchers /\ SameBelow(em, en, m)
    BY DEF Matchers, SameBelow
  <2>2. \A event \in Values : Results(em, event, m) = Results(en, event, m)
    BY <2>1, ResultsLookDown
  <2>3. [event \in Values |-> Results(em, event, m)] = [event \in Values |-> Results(en, event, m)]
    BY <2>2
  <2> HIDE DEF T
  <2> QED
    BY <2>3
<1>5. PICK f \in [Values -> T] : \A m \in Values : f[m] = F[m][f]
  <2> HIDE DEF F, T
  <2>1. T # {} /\ Size \in [Values -> Nat] /\ StepOf(F, Values, T)
    BY <1>1, <1>3 DEF StepOf
  <2>2. CallsItself(F, Values, T)
    BY <1>4, <2>1, Recursion
  <2> QED
    BY <2>2 DEF CallsItself
<1>6. f = Body(f)
  <2>1. f = [m \in Values |-> f[m]]
    BY <1>5
  <2>2. \A m \in Values : f[m] = [event \in Values |-> Results(f, event, m)]
    <3> HIDE DEF T
    <3> QED
      BY <1>5
  <2> QED
    BY <2>1, <2>2
<1>7. EventMatch = Body(EventMatch)
  BY <1>6, Zenon DEF EventMatch
<1> QED
  BY <1>7

\* So is Superset (the comment of event_match(), machine.py:408-412).
LEMMA SupersetUnfolds ==
  \A m \in Values : \A event \in Values :
    Superset[m][event] = Includes(Superset, event, m)
<1> DEFINE T == [Values -> BOOLEAN]
           F == [m \in Values |-> [em \in [Values -> T] |->
                   [event \in Values |-> Includes(em, event, m)]]]
           Body(em) == [m \in Values |-> [event \in Values |-> Includes(em, event, m)]]
<1>1. T # {} /\ Size \in [Values -> Nat]
  <2>1. [v \in Values |-> TRUE] \in T
    OBVIOUS
  <2> QED
    BY <2>1, MatchAssumption
<1>2. \A em \in [Values -> T] : \A m \in Values : [event \in Values |-> Includes(em, event, m)] \in T
  <2>1. \A em, event, m : Includes(em, event, m) \in BOOLEAN
    BY DEF Includes
  <2> QED
    BY <2>1
<1>3. F \in [Values -> [[Values -> T] -> T]]
  <2> HIDE DEF T
  <2> QED
    BY <1>2
<1>4. LooksDown(F, Values, T, Size)
  <2> SUFFICES ASSUME NEW m \in Values, NEW em \in [Values -> T], NEW en \in [Values -> T],
                      \A q \in Values : Size[q] < Size[m] => em[q] = en[q]
               PROVE  F[m][em] = F[m][en]
    <3> HIDE DEF F, T
    <3> QED
      BY DEF LooksDown
  <2>1. ASSUME NEW event \in Values
        PROVE  Includes(em, event, m) = Includes(en, event, m)
    <3>1. CASE Is(m, "dict")
      <4>1. \A k \in DOMAIN m.dict : em[m.dict[k]] = en[m.dict[k]]
        BY <3>1, KindOf DEF Is, Smaller
      <4>2. ~Is(m, "none")
        BY <3>1, KindOf DEF Is
      <4> QED
        BY <3>1, <4>1, <4>2 DEF Includes
    <3>2. CASE ~Is(m, "dict")
      BY <3>2 DEF Includes
    <3> QED
      BY <3>1, <3>2
  <2>2. \A event \in Values : Includes(em, event, m) = Includes(en, event, m)
    BY <2>1
  <2>3. [event \in Values |-> Includes(em, event, m)] = [event \in Values |-> Includes(en, event, m)]
    BY <2>2
  <2> HIDE DEF T
  <2> QED
    BY <2>3
<1>5. PICK f \in [Values -> T] : \A m \in Values : f[m] = F[m][f]
  <2> HIDE DEF F, T
  <2>1. T # {} /\ Size \in [Values -> Nat] /\ StepOf(F, Values, T)
    BY <1>1, <1>3 DEF StepOf
  <2>2. CallsItself(F, Values, T)
    BY <1>4, <2>1, Recursion
  <2> QED
    BY <2>2 DEF CallsItself
<1>6. f = Body(f)
  <2>1. f = [m \in Values |-> f[m]]
    BY <1>5
  <2>2. \A m \in Values : f[m] = [event \in Values |-> Includes(f, event, m)]
    <3> HIDE DEF T
    <3> QED
      BY <1>5
  <2> QED
    BY <2>1, <2>2
<1>7. Superset = Body(Superset)
  BY <1>6, Zenon DEF Superset
<1> QED
  BY <1>7

\* And so is Plain.
LEMMA PlainUnfolds == \A m \in Values : Plain[m] = IsPlain(Plain, m)
<1> DEFINE F == [m \in Values |-> [plain \in [Values -> BOOLEAN] |-> IsPlain(plain, m)]]
           Body(plain) == [m \in Values |-> IsPlain(plain, m)]
<1>1. BOOLEAN # {} /\ Size \in [Values -> Nat]
  BY MatchAssumption
<1>2. \A plain : \A m \in Values : IsPlain(plain, m) \in BOOLEAN
  <2> SUFFICES ASSUME NEW plain, NEW m \in Values
               PROVE  IsPlain(plain, m) \in BOOLEAN
    OBVIOUS
  <2> QED
    BY KindOf DEF IsPlain, Is
<1>3. StepOf(F, Values, BOOLEAN)
  BY <1>2 DEF StepOf
<1>4. LooksDown(F, Values, BOOLEAN, Size)
  <2> SUFFICES ASSUME NEW m \in Values, NEW p \in [Values -> BOOLEAN], NEW q \in [Values -> BOOLEAN],
                      \A v \in Values : Size[v] < Size[m] => p[v] = q[v]
               PROVE  F[m][p] = F[m][q]
    <3> HIDE DEF F
    <3> QED
      BY DEF LooksDown
  <2>1. IsPlain(p, m) = IsPlain(q, m)
    <3>1. CASE Is(m, "dict")
      <4>1. \A k \in DOMAIN m.dict : p[m.dict[k]] = q[m.dict[k]]
        BY <3>1, KindOf DEF Is, Smaller
      <4>2. ~Is(m, "list") /\ ~Is(m, "str")
        BY <3>1, KindOf DEF Is
      <4> QED
        BY <3>1, <4>1, <4>2 DEF IsPlain
    <3>2. CASE ~Is(m, "dict")
      BY <3>2 DEF IsPlain
    <3> QED
      BY <3>1, <3>2
  <2> QED
    BY <2>1
<1>5. PICK f \in [Values -> BOOLEAN] : \A m \in Values : f[m] = F[m][f]
  <2> HIDE DEF F
  <2>1. CallsItself(F, Values, BOOLEAN)
    BY <1>1, <1>3, <1>4, Recursion
  <2> QED
    BY <2>1 DEF CallsItself
<1>6. f = Body(f)
  <2>1. f = [m \in Values |-> f[m]]
    BY <1>5
  <2>2. \A m \in Values : f[m] = IsPlain(f, m)
    BY <1>5
  <2> QED
    BY <2>1, <2>2
<1>7. Plain = Body(Plain)
  BY <1>6, Zenon DEF Plain
<1> QED
  BY <1>7

-----------------------------------------------------------------------------

\* The loop over a string or a list (machine.py:425) ends in its first round, if that
\* is not "true".
LEMMA FirstRoundDecides ==
  ASSUME NEW em, NEW event, NEW m \in Values, Is(m, "str") \/ Is(m, "list"),
         1 \in DOMAIN Keys(m), NEW r, r # "true",
         Round(em, event, m, Keys(m)[1]) = {r}
  PROVE  Loop(em, event, m) = {r}
<1> DEFINE keys == Keys(m)
           round == [i \in DOMAIN keys |-> Round(em, event, m, keys[i])]
           comesTo(i) == Is(m, "dict") \/ \A j \in 1 .. (i - 1) : "true" \in round[j]
<1>1. ~Is(m, "dict")
  BY KindOf DEF Is
<1>2. DOMAIN keys \subseteq Nat \ {0}
  <2>1. CASE Is(m, "str")
    <3>1. m.str \in Seq(STRING) /\ DOMAIN m = {"str"}
      BY <2>1, KindOf DEF Is
    <3>2. DOMAIN keys = 1 .. Len(m.str) /\ Len(m.str) \in Nat
      BY <3>1, LenProperties DEF Keys, Is
    <3> QED
      BY <3>2
  <2>2. CASE Is(m, "list")
    <3>1. m.list \in Seq(Values) /\ DOMAIN m = {"list"}
      BY <2>2, KindOf DEF Is
    <3>2. DOMAIN keys = 1 .. Len(m.list) /\ Len(m.list) \in Nat
      BY <3>1, LenProperties DEF Keys, Is
    <3> QED
      BY <3>2
  <2> QED
    BY <2>1, <2>2
<1>3. round[1] = {r} /\ "true" \notin round[1]
  OBVIOUS
<1>4. \A i \in DOMAIN keys : comesTo(i) <=> i = 1
  <2> SUFFICES ASSUME NEW i \in DOMAIN keys
               PROVE  comesTo(i) <=> i = 1
    OBVIOUS
  <2> HIDE DEF round
  <2>1. CASE i = 1
    BY <2>1
  <2>2. CASE i # 1
    <3>1. 1 \in 1 .. (i - 1)
      <4>1. i \in Nat \ {0}
        BY <1>2
      <4> QED
        BY <2>2, <4>1
    <3> QED
      BY <1>1, <1>3, <2>2, <3>1
  <2> QED
    BY <2>1, <2>2
<1>5. Loop(em, event, m) =
        (UNION {round[i] \ {"true"} : i \in {j \in DOMAIN keys : comesTo(j)}})
          \cup (IF \A i \in DOMAIN keys : "true" \in round[i] THEN {"true"} ELSE {})
  BY DEF Loop
<1> HIDE DEF round, comesTo
<1>6. {j \in DOMAIN keys : comesTo(j)} = {1}
  BY <1>4
<1>7. UNION {round[i] \ {"true"} : i \in {1}} = round[1] \ {"true"}
  OBVIOUS
<1>8. round[1] \ {"true"} = {r}
  BY <1>3
<1>9. ~\A i \in DOMAIN keys : "true" \in round[i]
  BY <1>3
<1> QED
  BY <1>5, <1>6, <1>7, <1>8, <1>9

\* The loop over the keys of a dict, which come in any order.
LEMMA LoopOverDict ==
  ASSUME NEW em, NEW event, NEW m \in Values, Is(m, "dict")
  PROVE  LET round(k) == Round(em, event, m, Str(k)) IN
         /\ (\A k \in DOMAIN m.dict : round(k) = {"true"}) => Loop(em, event, m) = {"true"}
         /\ /\ \A k \in DOMAIN m.dict : round(k) \in {{"true"}, {"false"}}
            /\ \E k \in DOMAIN m.dict : round(k) = {"false"}
            => Loop(em, event, m) = {"false"}
         /\ /\ \A k \in DOMAIN m.dict : round(k) \in {{"TypeError"}, {"false"}}
            /\ DOMAIN m.dict # {}
            => Loop(em, event, m) # {} /\ Loop(em, event, m) \subseteq {"TypeError", "false"}
<1> DEFINE keys == Keys(m)
           round == [i \in DOMAIN keys |-> Round(em, event, m, keys[i])]
           rest == UNION {round[i] \ {"true"} : i \in DOMAIN keys}
           last == IF \A i \in DOMAIN keys : "true" \in round[i] THEN {"true"} ELSE {}
<1>1. DOMAIN m = {"dict"}
  BY KindOf DEF Is
<1>2. keys = [k \in DOMAIN m.dict |-> Str(k)]
  BY <1>1 DEF Keys, Is
<1>3. DOMAIN keys = DOMAIN m.dict /\ \A k \in DOMAIN m.dict : round[k] = Round(em, event, m, Str(k))
  BY <1>2
<1>4. Loop(em, event, m) = rest \cup last
  <2> DEFINE comesTo(i) == Is(m, "dict") \/ \A j \in 1 .. (i - 1) : "true" \in round[j]
  <2>1. Loop(em, event, m) =
          (UNION {round[i] \ {"true"} : i \in {j \in DOMAIN keys : comesTo(j)}}) \cup last
    BY DEF Loop
  <2>2. {j \in DOMAIN keys : comesTo(j)} = DOMAIN keys
    OBVIOUS
  <2> HIDE DEF round, comesTo, last, keys
  <2> QED
    BY <2>1, <2>2
<1>5. \A r : r \in rest <=> r # "true" /\ \E i \in DOMAIN keys : r \in round[i]
  <2> HIDE DEF round, keys
  <2> QED
    OBVIOUS
<1> HIDE DEF round, keys, rest
<1>6. ASSUME \A k \in DOMAIN m.dict : round[k] = {"true"}
      PROVE  rest \cup last = {"true"}
  BY <1>3, <1>5, <1>6
<1>7. ASSUME \A k \in DOMAIN m.dict : round[k] \in {{"true"}, {"false"}},
             NEW k \in DOMAIN m.dict, round[k] = {"false"}
      PROVE  rest \cup last = {"false"}
  BY <1>3, <1>5, <1>7
<1>8. ASSUME \A k \in DOMAIN m.dict : round[k] \in {{"TypeError"}, {"false"}}, DOMAIN m.dict # {}
      PROVE  rest \cup last # {} /\ rest \cup last \subseteq {"TypeError", "false"}
  BY <1>3, <1>5, <1>8
<1> QED
  BY <1>3, <1>4, <1>6, <1>7, <1>8

-----------------------------------------------------------------------------
(* Plain criteria *)

\* A string has its first character in it.
LEMMA FirstWithin ==
  ASSUME NEW s \in Seq(STRING), s # <<>>
  PROVE  Within(<<s[1]>>, s)
<1>1. Len(s) \in Nat /\ Len(s) # 0 /\ s[1] \in STRING
  BY LenProperties, EmptySeq, ElementOfSeq
<1>2. SubSeq(s, 1, 1) = <<s[1]>>
  <2> DEFINE t == SubSeq(s, 1, 1)
  <2>1. 1 \in 1 .. Len(s) + 1 /\ 1 \in 1 - 1 .. Len(s)
    BY <1>1
  <2>2. t \in Seq(STRING) /\ Len(t) = 1 /\ t[1] = s[1]
    BY <2>1, SubSeqProperties
  <2> HIDE DEF t
  <2>3. t = <<t[1]>>
    BY <2>2
  <2> QED
    BY <2>2, <2>3 DEF t
<1>3. Len(<<s[1]>>) = 1
  OBVIOUS
<1>4. 0 \in 0 .. (Len(s) - 1) /\ 0 + 1 = 1
  BY <1>1
<1> QED
  BY <1>2, <1>3, <1>4 DEF Within

\* The first character of a string, or the first item of a list that is no number, ends
\* event_match() with a comparison or with the right answer (machine.py:426-434).
LEMMA FirstKey ==
  ASSUME NEW em, NEW event \in Values, NEW m \in Values, IsPlain(Plain, m),
         Is(m, "str") \/ Is(m, "list")
  PROVE  /\ 1 \in DOMAIN Keys(m)
         /\ \/ Round(em, event, m, Keys(m)[1]) = {"TypeError"}
            \/ Round(em, event, m, Keys(m)[1]) = {"false"} /\ m # event
<1> DEFINE key == Keys(m)[1]
<1>1. \/ DOMAIN m = {"str"} /\ m.str \in Seq(STRING) /\ m.str # <<>>
      \/ DOMAIN m = {"list"} /\ m.list \in Seq(Values) /\ m.list # <<>> /\ ~Is(m.list[1], "num")
  <2>1. CASE Is(m, "str")
    BY <2>1, KindOf DEF IsPlain, Is
  <2>2. CASE Is(m, "list")
    <3>1. DOMAIN m = {"list"} /\ m.list \in Seq(Values)
      BY <2>2, KindOf DEF Is
    <3>2. m.list # <<>> /\ ~Is(m.list[1], "num")
      <4>1. ~Is(m, "dict") /\ Is(m, "list") /\ ~Is(m, "str")
        BY <3>1 DEF Is
      <4> QED
        BY <4>1 DEF IsPlain
    <3> QED
      BY <3>1, <3>2
  <2> QED
    BY <2>1, <2>2
<1>2. 1 \in DOMAIN Keys(m)
  <2>1. CASE DOMAIN m = {"str"}
    <3>1. DOMAIN Keys(m) = DOMAIN m.str
      BY <2>1 DEF Keys, Is
    <3>2. 1 \in DOMAIN m.str
      BY <1>1, <2>1, LenProperties, EmptySeq
    <3> QED
      BY <3>1, <3>2
  <2>2. CASE DOMAIN m = {"list"}
    <3>1. DOMAIN Keys(m) = DOMAIN m.list
      BY <2>2 DEF Keys, Is
    <3>2. 1 \in DOMAIN m.list
      BY <1>1, <2>2, LenProperties, EmptySeq
    <3> QED
      BY <3>1, <3>2
  <2> QED
    BY <1>1, <2>1, <2>2
<1>3. /\ DOMAIN m = {"str"} => key = Str(<<m.str[1]>>)
      /\ DOMAIN m = {"list"} => key = m.list[1] /\ m.list[1] \in ToSet(m.list)
  <2>1. DOMAIN m = {"list"} => 1 \in DOMAIN m.list /\ key = m.list[1]
    BY <1>2, KeysOf DEF Is
  <2> QED
    BY <1>2, <2>1, KeysOf DEF Is, ToSet
<1>4. ~Is(key, "num")
  BY <1>1, <1>3 DEF Is, Str
<1>5. m = event => In(key, event) # "false"
  <2> SUFFICES ASSUME m = event PROVE In(key, m) # "false"
    OBVIOUS
  <2>1. CASE DOMAIN m = {"str"}
    <3>1. Is(key, "str") /\ key.str = <<m.str[1]>>
      BY <1>3, <2>1 DEF Is, Str
    <3>2. Within(key.str, m.str)
      BY <1>1, <2>1, <3>1, FirstWithin
    <3> HIDE DEF key
    <3>3. In(key, m) = Truth(Within(key.str, m.str))
      BY <2>1, <3>1 DEF In, Is
    <3> QED
      BY <3>2, <3>3 DEF Truth
  <2>2. CASE DOMAIN m = {"list"}
    <3>1. key \in ToSet(m.list)
      BY <1>3, <2>2
    <3> HIDE DEF key
    <3>2. In(key, m) = Truth(key \in ToSet(m.list))
      BY <2>2 DEF In, Is
    <3> QED
      BY <3>1, <3>2 DEF Truth
  <2> QED
    BY <1>1, <2>1, <2>2
<1> HIDE DEF key
<1>6. In(key, event) \in {"true", "false", "TypeError"}
  BY DEF In, Truth
<1>7. Raises(event, key) \in {"nothing", "TypeError"}
  BY <1>4 DEF Raises
<1>8. Raises(m, key) = "TypeError"
  BY <1>1, <1>4 DEF Raises, Is
<1>9. \/ Round(em, event, m, key) = {"TypeError"}
      \/ Round(em, event, m, key) = {"false"} /\ m # event
  <2>1. CASE In(key, event) # "true"
    BY <1>5, <1>6, <2>1 DEF Round
  <2>2. CASE In(key, event) = "true" /\ Raises(event, key) = "TypeError"
    BY <2>2 DEF Round
  <2>3. CASE In(key, event) = "true" /\ Raises(event, key) = "nothing"
    BY <1>8, <2>3 DEF Round
  <2> QED
    BY <1>7, <2>1, <2>2, <2>3
<1> QED
  BY <1>2, <1>9 DEF key

\* A key of a dict, in an event that is none (machine.py:426-434).
LEMMA KeyOfOther ==
  ASSUME NEW em, NEW event \in Values, ~Is(event, "dict"), NEW m, NEW k
  PROVE  Round(em, event, m, Str(k)) \in {{"TypeError"}, {"false"}}
<1> DEFINE key == Str(k)
<1>1. ~Is(key, "num")
  BY DEF Str, Is
<1> HIDE DEF key
<1>2. In(key, event) \in {"true", "false", "TypeError"}
  BY DEF In, Truth
<1>3. Raises(event, key) = "TypeError"
  BY <1>1 DEF Raises
<1>4. Round(em, event, m, key) \in {{"TypeError"}, {"false"}}
  BY <1>2, <1>3 DEF Round
<1> QED
  BY <1>4 DEF key

\* A key of a dict, in a dict (machine.py:426-430).
LEMMA KeyOfDict ==
  ASSUME NEW em, NEW event, DOMAIN event = {"dict"}, NEW m, DOMAIN m = {"dict"},
         NEW k \in DOMAIN m.dict
  PROVE  Round(em, event, m, Str(k)) =
           IF k \in DOMAIN event.dict THEN em[m.dict[k]][event.dict[k]] ELSE {"false"}
<1> DEFINE key == Str(k)
<1>1. ~Is(key, "list") /\ ~Is(key, "dict") /\ Is(key, "str") /\ key.str = k
  BY DEF Str, Is
<1> HIDE DEF key
<1>2. In(key, event) = Truth(k \in DOMAIN event.dict)
  BY <1>1 DEF In, Is
<1>3. Raises(event, key) = "nothing" /\ Raises(m, key) = "nothing"
  BY DEF Raises, Is
<1>4. Item(event, key) = event.dict[k] /\ Item(m, key) = m.dict[k]
  BY <1>1 DEF Item, Is
<1>5. Round(em, event, m, key) =
        IF k \in DOMAIN event.dict THEN em[m.dict[k]][event.dict[k]] ELSE {"false"}
  BY <1>2, <1>3, <1>4 DEF Round, Truth
<1> QED
  BY <1>5 DEF key

\* With criteria that are plain, event_match() is what the comment above it says: the
\* event is a superset of them (machine.py:403-434, of any values).
THEOREM PlainMatches ==
  \A m \in Values : Plain[m] =>
    \A event \in Values : EventMatch[m][event] = {Truth(Superset[m][event])}
<1> DEFINE Right(m) == \A event \in Values : EventMatch[m][event] = {Truth(Superset[m][event])}
           Bad == {n \in Nat : \E q \in Values : Size[q] = n /\ Plain[q] /\ ~Right(q)}
<1>1. Size \in [Values -> Nat]
  BY MatchAssumption
<1>2. SUFFICES ASSUME Bad # {} PROVE FALSE
  BY <1>1
<1>3. PICK n \in Bad : \A j \in Bad : n <= j
  <2>1. Bad \in SUBSET Nat
    OBVIOUS
  <2> HIDE DEF Bad
  <2> QED
    BY <1>2, <2>1, LeastOf
<1>4. PICK m \in Values : Size[m] = n /\ Plain[m] /\ ~Right(m)
  OBVIOUS
<1>5. \A q \in Values : Size[q] < Size[m] /\ Plain[q] => Right(q)
  <2> SUFFICES ASSUME NEW q \in Values, Size[q] < Size[m], Plain[q], ~Right(q)
               PROVE  FALSE
    OBVIOUS
  <2>1. Size[q] \in Nat /\ Size[q] \in Bad
    BY <1>1
  <2>2. n \in Nat /\ ~(n <= Size[q])
    BY <1>1, <1>4, <2>1
  <2> HIDE DEF Bad
  <2> QED
    BY <1>3, <2>1, <2>2
<1> HIDE DEF Bad
<1>6. IsPlain(Plain, m)
  BY <1>4, PlainUnfolds
<1>7. ASSUME NEW event \in Values
      PROVE  Results(EventMatch, event, m) = {Truth(Includes(Superset, event, m))}
  <2>1. CASE DOMAIN m = {"none"}
    <3>1. Results(EventMatch, event, m) = {"true"}
      BY <2>1 DEF Results, Is
    <3>2. Includes(Superset, event, m)
      BY <2>1 DEF Includes, Is
    <3> QED
      BY <3>1, <3>2 DEF Truth
  <2>2. CASE DOMAIN m = {"num"}
    <3>1. Results(EventMatch, event, m) = {Truth(m = event)}
      BY <2>2 DEF Results, Is
    <3>2. Includes(Superset, event, m) <=> m = event
      BY <2>2 DEF Includes, Is
    <3> QED
      BY <3>1, <3>2 DEF Truth
  <2>3. CASE Is(m, "str") \/ Is(m, "list")
    <3>0. DOMAIN m = {"str"} \/ DOMAIN m = {"list"}
      BY <2>3, KindOf DEF Is
    <3>1. PICK r : /\ Loop(EventMatch, event, m) = {r}
                   /\ r = "TypeError" \/ (r = "false" /\ m # event)
      <4>1. 1 \in DOMAIN Keys(m)
        BY <1>6, <2>3, FirstKey
      <4>2. PICK r : /\ Round(EventMatch, event, m, Keys(m)[1]) = {r}
                     /\ r = "TypeError" \/ (r = "false" /\ m # event)
        BY <1>6, <2>3, FirstKey
      <4>3. r # "true"
        BY <4>2
      <4>4. Loop(EventMatch, event, m) = {r}
        BY <2>3, <4>1, <4>2, <4>3, FirstRoundDecides
      <4> QED
        BY <4>2, <4>4
    <3>2. Results(EventMatch, event, m) =
            {IF s = "TypeError" THEN Truth(m = event) ELSE s : s \in Loop(EventMatch, event, m)}
      BY <3>0 DEF Results, Is
    <3>3. Results(EventMatch, event, m) = {IF r = "TypeError" THEN Truth(m = event) ELSE r}
      BY <3>1, <3>2
    <3>4. Results(EventMatch, event, m) = {Truth(m = event)}
      BY <3>1, <3>3 DEF Truth
    <3>5. Includes(Superset, event, m) <=> m = event
      BY <3>0 DEF Includes, Is
    <3> QED
      BY <3>4, <3>5 DEF Truth
  <2>4. CASE DOMAIN m = {"dict"}
    <3> DEFINE L == Loop(EventMatch, event, m)
               round(k) == Round(EventMatch, event, m, Str(k))
    <3>1. Results(EventMatch, event, m) = {IF s = "TypeError" THEN Truth(m = event) ELSE s : s \in L}
      BY <2>4 DEF Results, Is
    <3>2. /\ DOMAIN m.dict # {} /\ \A k \in DOMAIN m.dict : Plain[m.dict[k]]
          /\ \A k \in DOMAIN m.dict : m.dict[k] \in Values /\ Size[m.dict[k]] < Size[m]
      <4>1. \A k \in DOMAIN m.dict : m.dict[k] \in Values /\ Size[m.dict[k]] < Size[m]
        BY <2>4, KindOf DEF Smaller
      <4>2. DOMAIN m.dict # {} /\ \A k \in DOMAIN m.dict : Plain[m.dict[k]]
        BY <1>6, <2>4 DEF IsPlain, Is
      <4> QED
        BY <4>1, <4>2
    <3>3. Includes(Superset, event, m) <=>
            /\ Is(event, "dict") /\ DOMAIN m.dict \subseteq DOMAIN event.dict
            /\ \A k \in DOMAIN m.dict : Superset[m.dict[k]][event.dict[k]]
      BY <2>4 DEF Includes, Is
    <3>4. CASE ~Is(event, "dict")
      <4>1. \A k \in DOMAIN m.dict : round(k) \in {{"TypeError"}, {"false"}}
        BY <3>4, KeyOfOther
      <4>2. Is(m, "dict")
        BY <2>4 DEF Is
      <4>3. L # {} /\ L \subseteq {"TypeError", "false"}
        <5> HIDE DEF round
        <5> QED
          BY <3>2, <4>1, <4>2, LoopOverDict DEF round
      <4>4. Truth(m = event) = "false"
        BY <3>4, <4>2 DEF Truth
      <4> HIDE DEF L
      <4>5. Results(EventMatch, event, m) = {"false"}
        <5>1. \A s \in L : (IF s = "TypeError" THEN Truth(m = event) ELSE s) = "false"
          BY <4>3, <4>4
        <5>2. PICK s \in L : TRUE
          BY <4>3
        <5> QED
          BY <3>1, <5>1, <5>2, Zenon
      <4> QED
        BY <3>3, <3>4, <4>5 DEF Truth
    <3>5. CASE Is(event, "dict")
      <4> DEFINE Has(k) == k \in DOMAIN event.dict /\ Superset[m.dict[k]][event.dict[k]]
      <4>1. DOMAIN event = {"dict"} /\ \A k \in DOMAIN event.dict : event.dict[k] \in Values
        BY <3>5, KindOf DEF Is, Smaller
      <4>2. ASSUME NEW k \in DOMAIN m.dict
            PROVE  round(k) = {Truth(Has(k))}
        <5>1. round(k) = IF k \in DOMAIN event.dict
                         THEN EventMatch[m.dict[k]][event.dict[k]] ELSE {"false"}
          BY <2>4, <4>1, KeyOfDict
        <5>2. Right(m.dict[k])
          BY <1>5, <3>2
        <5> HIDE DEF round
        <5>3. CASE k \in DOMAIN event.dict
          <6>1. round(k) = {Truth(Superset[m.dict[k]][event.dict[k]])}
            BY <4>1, <5>1, <5>2, <5>3
          <6> QED
            BY <5>3, <6>1 DEF Truth
        <5>4. CASE k \notin DOMAIN event.dict
          BY <5>1, <5>4 DEF Truth
        <5> QED
          BY <5>3, <5>4
      <4>3. Is(m, "dict")
        BY <2>4 DEF Is
      <4> HIDE DEF L, round
      <4>4. Includes(Superset, event, m) <=> \A k \in DOMAIN m.dict : Has(k)
        BY <3>3, <3>5
      <4> HIDE DEF Has
      <4>5. CASE \A k \in DOMAIN m.dict : Has(k)
        <5>1. \A k \in DOMAIN m.dict : round(k) = {"true"}
          BY <4>2, <4>5 DEF Truth
        <5>2. L = {"true"}
          BY <4>3, <5>1, LoopOverDict DEF L, round
        <5>3. Results(EventMatch, event, m) = {"true"}
          BY <3>1, <5>2
        <5> QED
          BY <4>4, <4>5, <5>3 DEF Truth
      <4>6. CASE ~\A k \in DOMAIN m.dict : Has(k)
        <5>1. \A k \in DOMAIN m.dict : round(k) \in {{"true"}, {"false"}}
          BY <4>2 DEF Truth
        <5>2. \E k \in DOMAIN m.dict : round(k) = {"false"}
          BY <4>2, <4>6 DEF Truth
        <5>3. L = {"false"}
          BY <4>3, <5>1, <5>2, LoopOverDict DEF L, round
        <5>4. Results(EventMatch, event, m) = {"false"}
          BY <3>1, <5>3
        <5> QED
          BY <4>4, <4>6, <5>4 DEF Truth
      <4> QED
        BY <4>5, <4>6
    <3> QED
      BY <3>4, <3>5
  <2> QED
    BY <2>1, <2>2, <2>3, <2>4, KindOf DEF Is
<1>8. Right(m)
  BY <1>7, EventMatchUnfolds, SupersetUnfolds
<1> QED
  BY <1>4, <1>8

-----------------------------------------------------------------------------
(* The inductive invariant of events_wait() *)

Events == [id : Nat, data : Datas]

\* Type correctness of events_wait() and the events around it (machine.py:446-474).
TypeOK ==
  /\ cache \in Seq(Events) /\ wire \in Seq(Events)
  /\ pc \in {"idle", "scan", "poll"} /\ (pc # "idle" => match \in Criteria)
  /\ taken \subseteq Events
  /\ lost \subseteq [event : Events, match : Criteria]
  /\ nevents \in 0 .. MaxEvents

Ascending(s) == \A i, j \in DOMAIN s : i < j => s[i].id < s[j].id

\* The events are cached in the order in which they came, and before those to come.
Ordered ==
  /\ Ascending(cache) /\ Ascending(wire)
  /\ \A e \in ToSet(cache), f \in ToSet(wire) : e.id < f.id

\* While events_wait() polls, no cached event has matched, those it has cached itself
\* included.
Rejected ==
  pc = "poll" => \A e \in ToSet(cache) : "false" \in EventMatch[match][e.data]

\* Where an event may be.
All == ToSet(cache) \cup ToSet(wire) \cup taken \cup {l.event : l \in lost}

IInv == TypeOK /\ Ordered /\ Rejected /\ EventsKept

-----------------------------------------------------------------------------

\* _events.remove(), of a list (machine.py:464).
LEMMA Removed ==
  ASSUME NEW E, NEW s \in Seq(E), NEW i \in 1 .. Len(s)
  PROVE  /\ RemoveAt(s, i) \in Seq(E)
         /\ Len(s) \in Nat \ {0} /\ Len(RemoveAt(s, i)) = Len(s) - 1
         /\ \A j \in 1 .. Len(s) - 1 : RemoveAt(s, i)[j] = s[IF j < i THEN j ELSE j + 1]
<1> DEFINE a == SubSeq(s, 1, i - 1)
           b == SubSeq(s, i + 1, Len(s))
<1>1. /\ Len(s) \in Nat \ {0} /\ i \in Nat /\ i >= 1 /\ i <= Len(s)
      /\ \A j \in 1 .. Len(s) : s[j] \in E
  BY LenProperties, ElementOfSeq
<1>2. a \in Seq(E) /\ Len(a) = i - 1 /\ \A j \in 1 .. i - 1 : a[j] = s[j]
  <2>1. \A j \in 1 .. (i - 1) : s[j] \in E
    BY <1>1
  <2> QED
    BY <1>1, <2>1, SubSeqProperties
<1>3. b \in Seq(E) /\ Len(b) = Len(s) - i /\ \A j \in 1 .. Len(s) - i : b[j] = s[j + i]
  <2>1. \A j \in (i + 1) .. Len(s) : s[j] \in E
    BY <1>1
  <2> QED
    BY <1>1, <2>1, SubSeqProperties
<1>4. RemoveAt(s, i) = a \o b
  BY DEF RemoveAt
<1> HIDE DEF a, b
<1>5. a \o b \in Seq(E) /\ Len(a \o b) = Len(s) - 1
  <2>1. a \o b \in Seq(E) /\ Len(a \o b) = Len(a) + Len(b)
    BY <1>2, <1>3, ConcatProperties
  <2>2. Len(a) + Len(b) = Len(s) - 1
    BY <1>1, <1>2, <1>3
  <2> QED
    BY <2>1, <2>2
<1>6. ASSUME NEW j \in 1 .. Len(s) - 1
      PROVE  (a \o b)[j] = s[IF j < i THEN j ELSE j + 1]
  <2>1. (a \o b)[j] = IF j <= Len(a) THEN a[j] ELSE b[j - Len(a)]
    BY <1>1, <1>2, <1>3, ConcatProperties
  <2>2. CASE j < i
    <3>1. j <= Len(a) /\ j \in 1 .. i - 1
      BY <1>1, <1>2, <2>2
    <3> QED
      BY <1>2, <2>1, <2>2, <3>1
  <2>3. CASE ~(j < i)
    <3>1. ~(j <= Len(a)) /\ j - Len(a) \in 1 .. Len(s) - i /\ (j - Len(a)) + i = j + 1
      BY <1>1, <1>2, <2>3
    <3> QED
      BY <1>3, <2>1, <2>3, <3>1
  <2> QED
    BY <2>2, <2>3
<1> QED
  BY <1>1, <1>4, <1>5, <1>6

\* What a list has after remove() (machine.py:464).
LEMMA AfterRemoval ==
  ASSUME NEW E, NEW s \in Seq(E), NEW i \in 1 .. Len(s)
  PROVE  /\ RemoveAt(s, i) \in Seq(E) /\ s[i] \in E /\ s[i] \in ToSet(s)
         /\ ToSet(s) = ToSet(RemoveAt(s, i)) \cup {s[i]}
         /\ Ascending(s) => Ascending(RemoveAt(s, i))
<1> DEFINE r == RemoveAt(s, i)
<1>1. /\ r \in Seq(E) /\ Len(s) \in Nat \ {0} /\ Len(r) = Len(s) - 1
      /\ \A j \in 1 .. Len(s) - 1 : r[j] = s[IF j < i THEN j ELSE j + 1]
  BY Removed
<1>2. DOMAIN s = 1 .. Len(s) /\ s[i] \in E
  BY LenProperties, ElementOfSeq
<1>3. DOMAIN r = 1 .. Len(s) - 1
  BY <1>1, LenProperties
<1> HIDE DEF r
<1>4. ToSet(r) \subseteq ToSet(s)
  <2>1. \A j \in DOMAIN r : (IF j < i THEN j ELSE j + 1) \in DOMAIN s
    BY <1>1, <1>2, <1>3
  <2> QED
    BY <1>1, <1>3, <2>1 DEF ToSet
<1>5. ASSUME NEW x \in ToSet(s), x # s[i]
      PROVE  x \in ToSet(r)
  <2>1. PICK k \in DOMAIN s : x = s[k]
    BY DEF ToSet
  <2> DEFINE j == IF k < i THEN k ELSE k - 1
  <2>2. k \in 1 .. Len(s) /\ k # i /\ Len(s) \in Nat /\ i \in 1 .. Len(s)
    BY <1>1, <1>2, <1>5, <2>1
  <2>3. j \in 1 .. Len(s) - 1 /\ (IF j < i THEN j ELSE j + 1) = k
    BY <2>2
  <2> HIDE DEF j
  <2>4. r[j] = x
    BY <1>1, <2>1, <2>3
  <2> QED
    BY <1>3, <2>3, <2>4 DEF ToSet
<1>6. s[i] \in ToSet(s)
  BY <1>2 DEF ToSet
<1>7. Ascending(s) => Ascending(r)
  <2> SUFFICES ASSUME Ascending(s), NEW j \in DOMAIN r, NEW k \in DOMAIN r, j < k
               PROVE  r[j].id < r[k].id
    BY DEF Ascending
  <2> DEFINE up(n) == IF n < i THEN n ELSE n + 1
  <2>1. up(j) \in DOMAIN s /\ up(k) \in DOMAIN s /\ up(j) < up(k)
    BY <1>1, <1>2, <1>3
  <2>2. r[j] = s[up(j)] /\ r[k] = s[up(k)]
    BY <1>1, <1>3
  <2> HIDE DEF up
  <2> QED
    BY <2>1, <2>2 DEF Ascending
<1> QED
  BY <1>1, <1>2, <1>4, <1>5, <1>6, <1>7 DEF r

\* What is to come after pull_event() (machine.py:469).
LEMMA AfterPull ==
  ASSUME NEW E, NEW s \in Seq(E), s # <<>>
  PROVE  /\ Tail(s) \in Seq(E) /\ Head(s) \in E /\ Head(s) \in ToSet(s)
         /\ ToSet(s) = ToSet(Tail(s)) \cup {Head(s)}
         /\ Ascending(s) => Ascending(Tail(s)) /\ \A e \in ToSet(Tail(s)) : Head(s).id < e.id
<1> DEFINE t == Tail(s)
<1>1. /\ t \in Seq(E) /\ Len(s) \in Nat \ {0} /\ Len(t) = Len(s) - 1
      /\ \A j \in 1 .. Len(s) - 1 : t[j] = s[j + 1]
  <2>1. Len(s) \in Nat /\ Len(s) # 0
    BY LenProperties, EmptySeq
  <2>2. t \in Seq(E) /\ Len(t) = Len(s) - 1 /\ \A j \in 1 .. Len(t) : t[j] = s[j + 1]
    BY HeadTailProperties
  <2> QED
    BY <2>1, <2>2
<1>2. DOMAIN s = 1 .. Len(s) /\ Head(s) = s[1] /\ Head(s) \in E
  BY LenProperties, HeadTailProperties
<1>3. DOMAIN t = 1 .. Len(s) - 1
  BY <1>1, LenProperties
<1> HIDE DEF t
<1>4. \A j \in DOMAIN t : j + 1 \in DOMAIN s /\ 1 < j + 1
  BY <1>1, <1>2, <1>3
<1>5. ToSet(t) \subseteq ToSet(s)
  BY <1>1, <1>3, <1>4 DEF ToSet
<1>6. Head(s) \in ToSet(s)
  BY <1>1, <1>2 DEF ToSet
<1>7. ASSUME NEW x \in ToSet(s), x # s[1]
      PROVE  x \in ToSet(t)
  <2>1. PICK k \in DOMAIN s : x = s[k]
    BY DEF ToSet
  <2>2. k - 1 \in 1 .. Len(s) - 1 /\ (k - 1) + 1 = k
    BY <1>1, <1>2, <1>7, <2>1
  <2>3. t[k - 1] = x
    BY <1>1, <2>1, <2>2
  <2> QED
    BY <1>3, <2>2, <2>3 DEF ToSet
<1>8. ASSUME Ascending(s)
      PROVE  Ascending(t) /\ \A e \in ToSet(t) : Head(s).id < e.id
  <2>1. ASSUME NEW j \in DOMAIN t, NEW k \in DOMAIN t, j < k
        PROVE  t[j].id < t[k].id
    <3>1. j + 1 < k + 1
      BY <1>1, <1>3, <2>1
    <3> QED
      BY <1>1, <1>3, <1>4, <1>8, <3>1 DEF Ascending
  <2>2. ASSUME NEW j \in DOMAIN t
        PROVE  Head(s).id < t[j].id
    <3>1. 1 \in DOMAIN s
      BY <1>1, <1>2
    <3> QED
      BY <1>1, <1>2, <1>3, <1>4, <1>8, <3>1 DEF Ascending
  <2> QED
    BY <2>1, <2>2 DEF Ascending, ToSet
<1> QED
  BY <1>1, <1>2, <1>5, <1>6, <1>7, <1>8 DEF t

\* What a list has after append() (machine.py:472).
LEMMA AfterAppend ==
  ASSUME NEW E, NEW s \in Seq(E), NEW e \in E
  PROVE  /\ Append(s, e) \in Seq(E)
         /\ ToSet(Append(s, e)) = ToSet(s) \cup {e}
         /\ Ascending(s) /\ (\A f \in ToSet(s) : f.id < e.id) => Ascending(Append(s, e))
<1> DEFINE t == Append(s, e)
<1>1. /\ t \in Seq(E) /\ Len(s) \in Nat /\ Len(t) = Len(s) + 1 /\ t[Len(s) + 1] = e
      /\ \A j \in 1 .. Len(s) : t[j] = s[j]
  BY AppendProperties, LenProperties
<1>2. DOMAIN s = 1 .. Len(s)
  BY LenProperties
<1>3. DOMAIN t = 1 .. Len(s) + 1
  BY <1>1, LenProperties
<1> HIDE DEF t
<1>4. /\ DOMAIN t = DOMAIN s \cup {Len(s) + 1}
      /\ \A j \in DOMAIN s : j < Len(s) + 1 /\ j # Len(s) + 1 /\ ~(Len(s) + 1 < j)
      /\ ~(Len(s) + 1 < Len(s) + 1)
  BY <1>1, <1>2, <1>3
<1>5. ToSet(t) = ToSet(s) \cup {e}
  BY <1>1, <1>2, <1>4 DEF ToSet
<1>6. ASSUME Ascending(s), \A f \in ToSet(s) : f.id < e.id
      PROVE  Ascending(t)
  BY <1>1, <1>2, <1>4, <1>6 DEF Ascending, ToSet
<1> QED
  BY <1>1, <1>5, <1>6 DEF t

\* The events of the histories, in EventsKept.
Ids(events) == {e.id : e \in events}

\* EventsKept, by the places of the events (machine.py:461-472).
LEMMA KeptIs ==
  EventsKept <=> Ids(All) = 1 .. nevents /\ \A l \in lost : ~Plain[l.match]
BY DEF EventsKept, Ids, All

\* A QEMUMachine with no event yet (machine.py:102).
LEMMA Initially == Init => IInv
<1> SUFFICES ASSUME Init PROVE IInv
  OBVIOUS
<1>1. cache = <<>> /\ wire = <<>> /\ pc = "idle" /\ taken = {} /\ lost = {} /\ nevents = 0
  BY DEF Init
<1>2. ToSet(<<>>) = {} /\ Ascending(<<>>)
  BY DEF ToSet, Ascending
<1>3. TypeOK
  BY <1>1, MatchAssumption DEF TypeOK
<1>4. Ordered /\ Rejected
  BY <1>1, <1>2 DEF Ordered, Rejected
<1>5. All = {}
  BY <1>1, <1>2 DEF All
<1>6. Ids(All) = 1 .. nevents
  BY <1>1, <1>5 DEF Ids
<1> QED
  BY <1>1, <1>3, <1>4, <1>6, KeptIs DEF IInv

\* QEMU emits an event, for pull_event() to return.
LEMMA EmitKeeps ==
  ASSUME IInv, NEW d \in Datas, Emit(d)
  PROVE  IInv'
<1> DEFINE e == [id |-> nevents + 1, data |-> d]
<1>1. /\ nevents < MaxEvents /\ nevents' = nevents + 1 /\ wire' = Append(wire, e)
      /\ UNCHANGED <<cache, pc, match, out, taken, lost>>
  BY DEF Emit
<1>2. e \in Events /\ e.id = nevents + 1 /\ nevents \in Nat
  <2>1. nevents \in Nat
    BY DEF IInv, TypeOK
  <2> QED
    BY <2>1 DEF Events
<1> HIDE DEF e
<1>3. /\ wire' \in Seq(Events) /\ ToSet(wire') = ToSet(wire) \cup {e}
      /\ Ascending(wire) /\ (\A f \in ToSet(wire) : f.id < e.id) => Ascending(wire')
  BY <1>1, <1>2, AfterAppend DEF IInv, TypeOK
<1>4. \A f \in ToSet(cache) \cup ToSet(wire) : f.id < e.id
  <2>1. \A f \in All : f.id \in 1 .. nevents
    BY KeptIs DEF IInv, Ids
  <2>2. \A f \in ToSet(cache) \cup ToSet(wire) : f.id \in 1 .. nevents
    BY <2>1 DEF All
  <2> QED
    BY <1>2, <2>2
<1>5. TypeOK'
  <2>1. nevents' \in 0 .. MaxEvents
    BY <1>1, MatchAssumption DEF IInv, TypeOK
  <2> QED
    BY <1>1, <1>3, <2>1 DEF IInv, TypeOK
<1>6. Ordered'
  BY <1>1, <1>3, <1>4 DEF IInv, Ordered
<1>7. Rejected'
  BY <1>1 DEF IInv, Rejected
<1>8. EventsKept'
  <2>1. All' = All \cup {e}
    BY <1>1, <1>3 DEF All
  <2>2. Ids(All) = 1 .. nevents /\ \A l \in lost : ~Plain[l.match]
    BY KeptIs DEF IInv
  <2>3. Ids(All') = 1 .. nevents'
    <3>1. Ids(All') = Ids(All) \cup {nevents + 1}
      BY <1>2, <2>1 DEF Ids
    <3>2. (1 .. nevents) \cup {nevents + 1} = 1 .. (nevents + 1)
      BY <1>2
    <3> QED
      BY <1>1, <2>2, <3>1, <3>2
  <2> QED
    BY <1>1, <2>2, <2>3 DEF EventsKept, Ids, All
<1> QED
  BY <1>5, <1>6, <1>7, <1>8 DEF IInv

\* What is plain does not make event_match() raise (machine.py:427).
LEMMA RaisesNotPlain ==
  ASSUME NEW m \in Values, NEW d \in Values, "IndexError" \in EventMatch[m][d]
  PROVE  ~Plain[m]
<1> SUFFICES ASSUME Plain[m] PROVE FALSE
  OBVIOUS
<1>1. EventMatch[m][d] = {Truth(Superset[m][d])}
  BY PlainMatches
<1> QED
  BY <1>1 DEF Truth

\* An event that leaves the queues is returned, or raised.
LEMMA SameEvents ==
  ASSUME EventsKept, All' = All, nevents' = nevents, \A l \in lost' : ~Plain[l.match]
  PROVE  EventsKept'
<1>1. Ids(All) = 1 .. nevents
  BY KeptIs
<1>2. Ids(All') = 1 .. nevents'
  BY <1>1
<1> QED
  BY <1>2 DEF EventsKept, Ids, All

\* The search of the cached events (machine.py:461-465).
LEMMA ScanKeeps ==
  ASSUME IInv, Scan
  PROVE  IInv'
<1>1. /\ pc = "scan" /\ match \in Criteria /\ cache \in Seq(Events) /\ Len(cache) \in Nat
      /\ DOMAIN cache = 1 .. Len(cache)
      /\ UNCHANGED <<wire, match, lost, nevents>>
  BY LenProperties DEF Scan, IInv, TypeOK
<1>2. PICK i \in 1 .. (Len(cache) + 1) :
       /\ \A j \in 1 .. (i - 1) : "false" \in EventMatch[match][cache[j].data]
       /\ \/ i > Len(cache) /\ pc' = "poll" /\ UNCHANGED <<cache, out, taken>>
          \/ i <= Len(cache) /\ cache' = RemoveAt(cache, i) /\ Returns(cache[i])
          \/ i <= Len(cache) /\ Raised /\ UNCHANGED cache
  BY <1>1 DEF Scan
<1>3. CASE i > Len(cache) /\ pc' = "poll" /\ UNCHANGED <<cache, out, taken>>
  <2>1. \A e \in ToSet(cache) : "false" \in EventMatch[match][e.data]
    <3>1. i - 1 = Len(cache)
      BY <1>1, <1>3
    <3> QED
      BY <1>1, <1>2, <3>1 DEF ToSet
  <2>2. Rejected'
    BY <1>1, <1>3, <2>1 DEF Rejected
  <2>3. TypeOK' /\ Ordered'
    BY <1>1, <1>3 DEF IInv, TypeOK, Ordered
  <2>4. All' = All
    BY <1>1, <1>3 DEF All
  <2> QED
    BY <1>1, <2>2, <2>3, <2>4, KeptIs, SameEvents DEF IInv
<1>4. CASE i <= Len(cache) /\ cache' = RemoveAt(cache, i) /\ Returns(cache[i])
  <2>1. i \in 1 .. Len(cache)
    BY <1>1, <1>4
  <2>2. /\ cache' \in Seq(Events) /\ cache[i] \in Events /\ cache[i] \in ToSet(cache)
        /\ ToSet(cache) = ToSet(cache') \cup {cache[i]}
        /\ Ascending(cache) => Ascending(cache')
    BY <1>1, <1>4, <2>1, AfterRemoval
  <2>3. pc' = "idle" /\ taken' = taken \cup {cache[i]}
    BY <1>4 DEF Returns
  <2>4. TypeOK'
    BY <1>1, <2>2, <2>3 DEF IInv, TypeOK
  <2>5. Ordered'
    BY <1>1, <2>2 DEF IInv, Ordered
  <2>6. Rejected'
    BY <2>3 DEF Rejected
  <2>7. All' = All
    BY <1>1, <2>2, <2>3 DEF All
  <2> QED
    BY <1>1, <2>4, <2>5, <2>6, <2>7, KeptIs, SameEvents DEF IInv
<1>5. CASE i <= Len(cache) /\ Raised /\ UNCHANGED cache
  <2>1. pc' = "idle" /\ taken' = taken
    BY <1>5 DEF Raised
  <2>2. TypeOK' /\ Ordered' /\ Rejected'
    BY <1>1, <1>5, <2>1 DEF IInv, TypeOK, Ordered, Rejected
  <2>3. All' = All
    BY <1>1, <1>5, <2>1 DEF All
  <2> QED
    BY <1>1, <2>2, <2>3, KeptIs, SameEvents DEF IInv
<1> QED
  BY <1>2, <1>3, <1>4, <1>5

\* One event is pulled (machine.py:467-472).
LEMMA PollKeeps ==
  ASSUME IInv, Poll
  PROVE  IInv'
<1> DEFINE h == Head(wire)
<1>1. /\ pc = "poll" /\ match \in Criteria /\ match \in Values
      /\ cache \in Seq(Events) /\ wire \in Seq(Events)
      /\ wire # <<>> /\ wire' = Tail(wire) /\ UNCHANGED <<match, nevents>>
  BY MatchAssumption DEF Poll, IInv, TypeOK
<1>2. /\ wire' \in Seq(Events) /\ h \in Events
      /\ ToSet(wire) = ToSet(wire') \cup {h}
      /\ Ascending(wire) => Ascending(wire') /\ \A e \in ToSet(wire') : h.id < e.id
  BY <1>1, AfterPull
<1>3. h.data \in Values
  BY <1>2, MatchAssumption DEF Events
<1>4. \/ Returns(h) /\ UNCHANGED <<cache, lost>>
      \/ /\ "IndexError" \in EventMatch[match][h.data]
         /\ lost' = lost \cup {[event |-> h, match |-> match]}
         /\ Raised /\ UNCHANGED cache
      \/ /\ "false" \in EventMatch[match][h.data]
         /\ cache' = Append(cache, h) /\ UNCHANGED <<pc, out, taken, lost>>
  BY DEF Poll
<1> HIDE DEF h
<1>5. CASE Returns(h) /\ UNCHANGED <<cache, lost>>
  <2>1. pc' = "idle" /\ taken' = taken \cup {h}
    BY <1>5 DEF Returns
  <2>2. TypeOK' /\ Rejected'
    BY <1>1, <1>2, <1>5, <2>1 DEF IInv, TypeOK, Rejected
  <2>3. Ordered'
    BY <1>2, <1>5 DEF IInv, Ordered
  <2>4. All' = All
    BY <1>2, <1>5, <2>1 DEF All
  <2>5. \A l \in lost' : ~Plain[l.match]
    BY <1>5, KeptIs DEF IInv
  <2> QED
    BY <1>1, <2>2, <2>3, <2>4, <2>5, SameEvents DEF IInv
<1>6. CASE /\ "IndexError" \in EventMatch[match][h.data]
           /\ lost' = lost \cup {[event |-> h, match |-> match]}
           /\ Raised /\ UNCHANGED cache
  <2> DEFINE l0 == [event |-> h, match |-> match]
  <2>0. l0 \in [event : Events, match : Criteria] /\ l0.event = h /\ l0.match = match
        /\ lost' = lost \cup {l0}
    BY <1>1, <1>2, <1>6
  <2> HIDE DEF l0
  <2>1. pc' = "idle" /\ taken' = taken
    BY <1>6 DEF Raised
  <2>2. TypeOK' /\ Rejected'
    BY <1>1, <1>2, <1>6, <2>0, <2>1 DEF IInv, TypeOK, Rejected
  <2>3. Ordered'
    BY <1>2, <1>6 DEF IInv, Ordered
  <2>4. All' = All
    BY <1>2, <1>6, <2>0, <2>1 DEF All
  <2>5. \A l \in lost' : ~Plain[l.match]
    <3>1. ~Plain[match]
      BY <1>1, <1>3, <1>6, RaisesNotPlain
    <3> QED
      BY <2>0, <3>1, KeptIs DEF IInv
  <2> QED
    BY <1>1, <2>2, <2>3, <2>4, <2>5, SameEvents DEF IInv
<1>7. CASE /\ "false" \in EventMatch[match][h.data]
           /\ cache' = Append(cache, h) /\ UNCHANGED <<pc, out, taken, lost>>
  <2>1. /\ cache' \in Seq(Events) /\ ToSet(cache') = ToSet(cache) \cup {h}
        /\ Ascending(cache) /\ (\A f \in ToSet(cache) : f.id < h.id) => Ascending(cache')
    BY <1>1, <1>2, <1>7, AfterAppend
  <2>2. TypeOK'
    BY <1>1, <1>2, <1>7, <2>1 DEF IInv, TypeOK
  <2>3. Ordered'
    BY <1>2, <2>1 DEF IInv, Ordered
  <2>4. Rejected'
    BY <1>1, <1>7, <2>1 DEF IInv, Rejected
  <2>5. All' = All
    BY <1>2, <1>7, <2>1 DEF All
  <2>6. \A l \in lost' : ~Plain[l.match]
    BY <1>7, KeptIs DEF IInv
  <2> QED
    BY <1>1, <2>2, <2>3, <2>4, <2>5, <2>6, SameEvents DEF IInv
<1> QED
  BY <1>4, <1>5, <1>6, <1>7

\* Every step keeps the invariant (events_wait(), machine.py:446-474).
LEMMA Inductive == IInv /\ [Next]_vars => IInv'
<1> SUFFICES ASSUME IInv, [Next]_vars PROVE IInv'
  OBVIOUS
<1>1. ASSUME NEW m \in Criteria, EventsWait(m)
      PROVE  IInv'
  <2>1. pc' = "scan" /\ match' = m /\ UNCHANGED <<cache, wire, taken, lost, nevents>>
    BY <1>1 DEF EventsWait
  <2>2. TypeOK' /\ Ordered' /\ Rejected'
    BY <2>1 DEF IInv, TypeOK, Ordered, Rejected
  <2>3. EventsKept'
    BY <2>1 DEF IInv, EventsKept
  <2> QED
    BY <2>2, <2>3 DEF IInv
<1>2. CASE UNCHANGED vars
  <2>1. UNCHANGED <<cache, wire, pc, match, taken, lost, nevents>>
    BY <1>2 DEF vars
  <2>2. TypeOK' /\ Ordered' /\ Rejected'
    BY <2>1 DEF IInv, TypeOK, Ordered, Rejected
  <2>3. EventsKept'
    BY <2>1 DEF IInv, EventsKept
  <2> QED
    BY <2>2, <2>3 DEF IInv
<1> QED
  BY <1>1, <1>2, EmitKeeps, ScanKeeps, PollKeeps DEF Next

\* The invariant holds throughout (events_wait()).
THEOREM WaitInvariance == Spec => []IInv
BY Initially, Inductive, PTL DEF Spec

\* No event is lost, but by criteria that are not plain (machine.py:461-472).
THEOREM EventsAreKept == Spec => []EventsKept
<1>1. IInv => EventsKept
  BY DEF IInv
<1> QED
  BY <1>1, WaitInvariance, PTL

\* With plain criteria, the oldest event that meets them is returned (machine.py:450-472).
THEOREM OldestIsTaken == Spec => TakesOldestMatch
<1> DEFINE Oldest == pc # "idle" /\ pc' = "idle" /\ Plain[match] =>
        /\ out' # <<>> /\ Superset[match][out'[1].data]
        /\ \A e \in ToSet(cache) \cup ToSet(wire) :
             Superset[match][e.data] => out'[1].id <= e.id
<1>1. IInv /\ [Next]_vars => [Oldest]_vars
  <2> SUFFICES ASSUME IInv, Next, pc # "idle", pc' = "idle", Plain[match]
               PROVE  /\ out' # <<>> /\ Superset[match][out'[1].data]
                      /\ \A e \in ToSet(cache) \cup ToSet(wire) :
                           Superset[match][e.data] => out'[1].id <= e.id
    OBVIOUS
  <2>1. /\ match \in Values /\ cache \in Seq(Events) /\ wire \in Seq(Events)
        /\ Len(cache) \in Nat /\ DOMAIN cache = 1 .. Len(cache)
        /\ DOMAIN wire = 1 .. Len(wire)
    BY MatchAssumption, LenProperties DEF IInv, TypeOK
  <2>2. \A e \in Events : e.id \in Nat /\ e.data \in Values
    BY MatchAssumption DEF Events
  <2>3. \A e \in Events : EventMatch[match][e.data] = {Truth(Superset[match][e.data])}
    BY <2>1, <2>2, PlainMatches
  <2>4. \A e \in Events : /\ "true" \in EventMatch[match][e.data] => Superset[match][e.data]
                          /\ "false" \in EventMatch[match][e.data] => ~Superset[match][e.data]
                          /\ "IndexError" \notin EventMatch[match][e.data]
    BY <2>3 DEF Truth
  <2>5. \A e \in ToSet(cache) \cup ToSet(wire) : e \in Events
    BY <2>1, ElementOfSeq DEF ToSet
  <2>6. Scan \/ Poll
    BY DEF Next, Emit, EventsWait
  <2>7. CASE Scan
    <3>1. PICK i \in 1 .. (Len(cache) + 1) :
            /\ \A j \in 1 .. (i - 1) : "false" \in EventMatch[match][cache[j].data]
            /\ i <= Len(cache)
            /\ \/ "true" \in EventMatch[match][cache[i].data] /\ Returns(cache[i])
               \/ "IndexError" \in EventMatch[match][cache[i].data]
      BY <2>1, <2>7 DEF Scan
    <3>2. i \in DOMAIN cache /\ cache[i] \in ToSet(cache)
      BY <2>1, <3>1 DEF ToSet
    <3>3. "true" \in EventMatch[match][cache[i].data] /\ out' = <<cache[i]>>
      BY <2>4, <2>5, <3>1, <3>2 DEF Returns
    <3>4. Superset[match][cache[i].data]
      BY <2>4, <2>5, <3>2, <3>3
    <3>5. ASSUME NEW e \in ToSet(cache), Superset[match][e.data]
          PROVE  cache[i].id <= e.id
      <4>1. PICK j \in DOMAIN cache : e = cache[j]
        BY DEF ToSet
      <4>2. ~(j < i)
        <5>1. j < i => "false" \in EventMatch[match][cache[j].data]
          BY <2>1, <3>1, <4>1
        <5> QED
          BY <2>4, <2>5, <3>5, <4>1, <5>1
      <4>3. j = i \/ i < j
        BY <2>1, <3>1, <4>1, <4>2
      <4>4. i < j => cache[i].id < cache[j].id
        BY <3>2, <4>1 DEF IInv, Ordered, Ascending
      <4> QED
        BY <2>2, <2>5, <3>2, <4>1, <4>3, <4>4
    <3>6. ASSUME NEW e \in ToSet(wire)
          PROVE  cache[i].id <= e.id
      <4>1. cache[i].id < e.id
        BY <3>2 DEF IInv, Ordered
      <4> QED
        BY <2>2, <2>5, <3>2, <4>1
    <3>7. out'[1] = cache[i] /\ out' # <<>>
      BY <3>3
    <3> QED
      BY <3>4, <3>5, <3>6, <3>7
  <2>8. CASE Poll
    <3> DEFINE h == Head(wire)
    <3>1. /\ h \in ToSet(wire) /\ ToSet(wire) = ToSet(Tail(wire)) \cup {h}
          /\ \A e \in ToSet(Tail(wire)) : h.id < e.id
      BY <2>1, <2>8, AfterPull DEF Poll, IInv, Ordered
    <3>2. pc = "poll"
      BY <2>8 DEF Poll
    <3>3. \/ "true" \in EventMatch[match][h.data] /\ Returns(h)
          \/ "IndexError" \in EventMatch[match][h.data]
      BY <2>8, <3>2 DEF Poll
    <3> HIDE DEF h
    <3>4. "true" \in EventMatch[match][h.data] /\ out' = <<h>>
      BY <2>4, <2>5, <3>1, <3>3 DEF Returns
    <3>5. out'[1] = h /\ out' # <<>> /\ Superset[match][h.data]
      BY <2>4, <2>5, <3>1, <3>4
    <3>6. \A e \in ToSet(cache) : ~Superset[match][e.data]
      BY <2>4, <2>5, <3>2 DEF IInv, Rejected
    <3>7. \A e \in ToSet(wire) : h.id <= e.id
      BY <2>2, <2>5, <3>1
    <3> QED
      BY <3>5, <3>6, <3>7
  <2> QED
    BY <2>6, <2>7, <2>8
<1> QED
  BY <1>1, WaitInvariance, PTL DEF TakesOldestMatch, Spec

=============================================================================
