------------------------ MODULE MCEvaluationSchedule ------------------------
(* All graphs of three formulas that wait for at most two nodes, the last  *)
(* for at most one, with two areas of some shapes.                         *)
EXTENDS EvaluationSchedule

AtMost(n, S) == {T \in SUBSET S : Cardinality(T) <= n}

MCGraphs ==
  {<<a, b, c, d, e>> : a \in AtMost(2, 0..5), b \in AtMost(2, 1..5), c \in AtMost(1, {1, 2, 4, 5}),
                       d \in {{1, 2}, {0, 3}}, e \in {{3, 4}, {1, 4}}}
=============================================================================
