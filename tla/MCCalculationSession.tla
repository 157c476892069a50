------------------------ MODULE MCCalculationSession ------------------------
(***************************************************************************)
(* Small instances of CalculationSession.  Cell x holds literals only; a   *)
(* and b hold literals or formulas.  The formulas: fx reads x, fa reads a, *)
(* fb reads b, fv reads the volatile inputs, ft and fn read through a      *)
(* table and a defined name, ff reads x's number format, fd is an INDIRECT *)
(* that x selects the target of.                                           *)
(***************************************************************************)
EXTENDS CalculationSession, TLC

CONSTANTS j1, j2, x, a, b, l1, l2, fx, fa, fb, fv, ft, fn, ff, fd, n1, n2, t1, t2, BatchNames, OptionNames

JobSymmetry == Permutations(Job)

MCSelector == [f \in {fd} |-> x]

MCResolve(f, names, tables, selected, locale) ==
  CASE f = fx -> {x}
    [] f = fa -> {a}
    [] f = fb -> {b}
    [] f = fv -> {}
    [] f = ff -> {x}
    [] f = ft -> IF tables = t1 THEN {x} ELSE {a}
    [] f = fn -> IF names = n1 THEN {x} ELSE {b}
    [] f = fd -> {x} \union (IF selected = l1 /\ locale \in {None, 1} THEN {a} ELSE {b})

Edit(content, names, tables, format, layout) ==
  [content |-> [c \in Cell |-> IF c \in DOMAIN content THEN content[c] ELSE None],
   names |-> names, tables |-> tables, format |-> format, layout |-> layout]

Put(c, v) == Edit([d \in {c} |-> v], None, None, None, None)

AllBatches ==
  [x1 |-> Put(x, l1), x2 |-> Put(x, l2), a1 |-> Put(a, l1), b1 |-> Put(b, l1), b2 |-> Put(b, l2),
   ax |-> Put(a, fx), ab |-> Put(a, fb), bx |-> Put(b, fx), ba |-> Put(b, fa), bv |-> Put(b, fv),
   at |-> Put(a, ft), an |-> Put(a, fn), bf |-> Put(b, ff), bd |-> Put(b, fd), ad |-> Put(a, fd),
   swap |-> Edit([c \in {a, b} |-> IF c = a THEN fb ELSE l2], None, None, None, None),
   names |-> Edit(<<>>, n2, None, None, None),
   tables |-> Edit(<<>>, None, t2, None, None),
   format |-> Edit(<<>>, None, None, 2, None),
   layout |-> Edit(<<>>, None, None, None, 2),
   mixed |-> Edit([c \in {x} |-> l2], None, None, 2, 2)]

MCBatch == {AllBatches[n] : n \in BatchNames}

AllOptions ==
  [base |-> [volatile |-> 1, semantics |-> 1, limits |-> 1],
   later |-> [volatile |-> 2, semantics |-> 1, limits |-> 1],
   locale |-> [volatile |-> 1, semantics |-> 2, limits |-> 1],
   limits |-> [volatile |-> 1, semantics |-> 1, limits |-> 2]]

MCOptions == {AllOptions[n] : n \in OptionNames}

MCBook == [content |-> [c \in Cell |-> IF c = x THEN l1 ELSE IF c = a THEN fx ELSE l1],
           names |-> n1, tables |-> t1, format |-> 1]

(* The same with a chain: a reads b.                                       *)
MCChainBook == [MCBook EXCEPT !.content[a] = fb]

(* There x selects b: an fd at a is evaluated, one at b is on a cycle.     *)
MCSelectedBook == [MCChainBook EXCEPT !.content[x] = l2]
=============================================================================
