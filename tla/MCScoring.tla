----------------------------- MODULE MCScoring ------------------------------
(* Values for Scoring's constants.                                         *)
EXTENDS Scoring

Input(title, type, hi) == [title |-> title, type |-> type, min |-> 1, max |-> hi, default |-> 2]
Inputs == [fast |-> Input("Fast", "int", 4), slow |-> Input("Slow", "int", 6),
           src  |-> [Input("Source", "source", 0) EXCEPT !.default = 0]]
Script(grids, cons) == [inputs |-> Inputs, grids |-> grids, constraints |-> cons]
List(name, xs) == [name |-> name, list |-> xs]
Steps(name, lo, hi, step) == [name |-> name, lo |-> lo, hi |-> hi, step |-> step]

Variable(name) == [name |-> name]
Literal(v) == [value |-> v]

\* One value, two lines under a constraint, no grid, and lines that are refused: a
\* value twice, an input that is not there or not a number, a value out of range,
\* constraints that leave nothing.
MCScripts ==
  {Script(<<List("fast", <<3>>)>>, <<>>),
   Script(<<Steps("fast", 1, 3, 2), List("slow", <<2, 3>>)>>,
          << <<Variable("fast"), "<", Variable("slow")>>, <<Variable("slow"), "<=", Literal(3)>> >>),
   Script(<<>>, <<>>),
   Script(<<List("fast", <<2, 2>>)>>, <<>>),
   Script(<<List("other", <<1, 2>>)>>, <<>>),
   Script(<<List("src", <<1, 2>>)>>, <<>>),
   Script(<<List("slow", <<6, 7>>)>>, <<>>),
   Script(<<List("slow", <<1, 2>>)>>, << <<Variable("slow"), ">", Literal(2)>> >>)}

\* Every bar present, and two bars missing where train meets test.
MCCalendars == {[i \in 1..11 |-> i], [i \in 1..11 |-> IF i <= 6 THEN i ELSE i + 2]}

\* A winner, a loser, one that is ruined late in train; and one that never trades.
MCWalks ==
  {[equity |-> [i \in 1..11 |-> 4 + i \div 2], trades |-> {<<2, 4>>, <<5, 8>>, <<7, 9>>}],
   [equity |-> [i \in 1..11 |-> 8 - i \div 2], trades |-> {<<3, 7>>}],
   [equity |-> [i \in 1..11 |-> IF i <= 4 THEN 4 ELSE 0], trades |-> {<<4, 5>>, <<8, 9>>}]}
WithFlatWalk == MCWalks \cup {[equity |-> [i \in 1..11 |-> 4], trades |-> {}]}

\* The default windows; train and test moved a little; too far; apart; too short.
Asked(a, b, c, d) == [train |-> <<a, b>>, test |-> <<c, d>>]
MCRequests == {NoWindows, Asked(1, 5, 6, 9), Asked(2, 4, 5, 6), Asked(2, 6, 7, 10),
               Asked(1, 4, 6, 9), Asked(3, 3, 4, 6), Asked(1, 6, 7, 14)}

\* A sweep that passes every check, and each check made to fail, to warn or not
\* to run, on both sides of the thresholds that matter together.
Sound == [wf |-> [oos |-> 5, positive |-> 3], pbo |-> 19, dsr |-> 95, other |-> 95]
MCEvidence ==
  {Sound} \cup {[Sound EXCEPT !.wf = x] : x \in {NoValue, [oos |-> -1, positive |-> 3],
                                              [oos |-> 5, positive |-> 2]}}
          \cup {[Sound EXCEPT !.pbo = x] : x \in {NoValue, 49, 50}}
          \cup {[Sound EXCEPT !.dsr = x] : x \in {NoValue, 94}} \cup {[Sound EXCEPT !.other = 20]}
=============================================================================
