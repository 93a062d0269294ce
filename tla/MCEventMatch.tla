---------------------------- MODULE MCEventMatch ----------------------------
(* Instance of EventMatch for TLC: values of each kind, and criteria of each. *)
EXTENDS EventMatch

A == <<"a">>
B == <<"b">>
One(k, v) == Dict([key \in {k} |-> v])
Two(v, w) == Dict([key \in {A, B} |-> IF key = A THEN v ELSE w])
Nothing == Dict([key \in {} |-> None])

Simple == {Num(0), Num(1), Str(A), Str(<<>>), List(<<>>), List(<<Num(0)>>), List(<<Num(1)>>),
           List(<<Str(A)>>), List(<<Num(1), Num(0)>>), Str(<<"a", "b">>), Nothing}

SomeDatas == Simple \cup {One(A, v) : v \in Simple}
  \cup {Two(Num(0), Num(1)), One(A, One(B, Num(0)))}

SomeCriteria == SomeDatas \cup {None, List(<<Str(A), Num(1)>>), One(A, None), One(B, None),
  Two(None, Num(1)), Two(List(<<Num(1)>>), Num(1)), One(A, One(B, None))}

\* The values, and those in them.
PartsOf(v) == CASE Is(v, "list") -> ToSet(v.list)
                [] Is(v, "dict") -> {v.dict[k] : k \in DOMAIN v.dict}
                [] OTHER -> {}
WithParts(V) == V \cup UNION {PartsOf(v) : v \in V}
SomeValues == WithParts(WithParts(SomeCriteria))

RECURSIVE Depth(_)
Depth(v) == IF PartsOf(v) = {} THEN 0 ELSE 1 + Max({Depth(w) : w \in PartsOf(v)})
SomeSize == [v \in SomeValues |-> Depth(v)]

=============================================================================
