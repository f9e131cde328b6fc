---------------------------- MODULE MCPageLayout ----------------------------
(* Instances of PageLayout for TLC: pages of four bytes, up to four parts,  *)
(* and one layout with so many spans that their table grows.                *)
EXTENDS PageLayout

MCSpans == {"d", "o", "m", "e", "f"}

P(s, o, l) == [span |-> s, start |-> o, length |-> l]

Spread == "d" :> 0 @@ "o" :> 1 @@ "m" :> 2 @@ "e" :> 3 @@ "f" :> 4
Close == "d" :> 0 @@ "o" :> 1 @@ "m" :> 0 @@ "e" :> 1 @@ "f" :> 2
Same == "d" :> 3 @@ "o" :> 3 @@ "m" :> 3 @@ "e" :> 3 @@ "f" :> 3

L(ps, size, h) == [parts |-> ps, page |-> 4, sizeMax |-> size, hash |-> h]

Ranges == {<<0, 1>>, <<0, 2>>, <<1, 1>>, <<1, 0>>, <<2, 2>>, <<3, 1>>}

TwoAndThree ==
  {L(<<P("d", r1[1], r1[2]), P("o", r2[1], r2[2])>>, 63, h) :
     r1 \in Ranges, r2 \in Ranges, h \in {Spread, Same}}
  \cup
  {L(<<P("d", r1[1], r1[2]), P("o", r2[1], r2[2]), P(s, r3[1], r3[2])>>, 63, h) :
     r1 \in Ranges, r2 \in Ranges, r3 \in Ranges, s \in {"d", "m"}, h \in {Spread, Close}}

Odd ==
  {L(<<P("d", 0, 1), P(s, 3, 1), P(t, 1, 1), P("m", 2, 1)>>, 63, h) :
     s \in {"o"}, t \in {"d", "e", "o"}, h \in {Spread, Close, Same}}
  \cup
  {[L(<<P("d", 0, 1), P("o", 1, 1), P("m", 2, 1), P("e", 4, 1), P("f", 3, 1)>>, 63, h) EXCEPT !.page = 5] :
     h \in {Spread, Close, Same}}
  \cup
  {L(<<P("d", 0, 2), P(BadName, 2, 2)>>, 63, Spread), L(<<P("d", 0, 2), P("o", 2, 3)>>, 63, Spread)}

MCLayouts == TwoAndThree \cup Odd

(* A build with a narrower size_t than the ranges of the configuration. *)
Narrow ==
  {L(<<P("d", 0, 2), P("o", 8, 2)>>, 7, Spread), L(<<P("d", 0, 2), P("o", 6, 4)>>, 7, Spread)}

MCLayoutsAnyBuild == MCLayouts \cup Narrow
=============================================================================
