------------------------- MODULE SessionPlanProofs --------------------------
(***************************************************************************)
(* Why evaluating only the dirty formulas computes what evaluating all of  *)
(* them computes, for every set of cells and every dependency graph, and   *)
(* what one prepared change or calculation therefore computes from a       *)
(* consistent session, for every set of formulas and batches, provided that *)
(* no reference depends on the options (LocaleDynamic = {}).               *)
(***************************************************************************)
EXTENDS CalculationSession, TLAPS

(* A cell is reached from itself, and reads that stay in S are followed.   *)
LEMMA ReachClosed ==
  ASSUME NEW k, NEW S, NEW c \in Cell
  PROVE  /\ ReachIn(k, S, c) \subseteq Cell
         /\ c \in ReachIn(k, S, c)
         /\ \A d \in ReachIn(k, S, c) : Reads(k, d) \intersect S \intersect Cell \subseteq ReachIn(k, S, c)
<1>1. ReachIn(k, S, c) \subseteq Cell /\ c \in ReachIn(k, S, c)
  BY DEF ReachIn
<1>2. ASSUME NEW d \in ReachIn(k, S, c), NEW e \in Reads(k, d) \intersect S \intersect Cell
      PROVE  e \in ReachIn(k, S, c)
  <2>1. SUFFICES ASSUME NEW U \in SUBSET Cell, c \in U, ClosedIn(k, S, U)
                 PROVE  e \in U
    BY DEF ReachIn
  <2>2. d \in U
    BY <2>1 DEF ReachIn
  <2> QED
    BY <2>1, <2>2 DEF ClosedIn
<1> QED
  BY <1>1, <1>2

(* What is reached is in every closed set that contains the start.         *)
LEMMA ReachMinimal ==
  ASSUME NEW k, NEW S, NEW U \in SUBSET Cell, NEW c \in U, ClosedIn(k, S, U)
  PROVE  ReachIn(k, S, c) \subseteq U
  BY DEF ReachIn

(* Reads of compiled formulas are cells.                                   *)
LEMMA ReadsCells ==
  ASSUME NEW k \in [Cell -> Compiled \union {None}], NEW c \in Cell
  PROVE  Reads(k, c) \subseteq Cell
  BY WorkbookAssumption DEF Reads, Compiled

(* Reads of what is reached are reached, in the whole graph.               *)
LEMMA ReachReads ==
  ASSUME NEW k \in [Cell -> Compiled \union {None}], NEW c \in Cell
  PROVE  /\ Reach(k, c) \subseteq Cell
         /\ c \in Reach(k, c)
         /\ \A d \in Reach(k, c) : Reads(k, d) \subseteq Reach(k, c)
<1>1. ReachIn(k, Cell, c) \subseteq Cell /\ c \in ReachIn(k, Cell, c)
  BY ReachClosed
<1>2. \A d \in ReachIn(k, Cell, c) :
        Reads(k, d) \intersect Cell \intersect Cell \subseteq ReachIn(k, Cell, c)
  BY ReachClosed
<1>3. \A d \in ReachIn(k, Cell, c) : Reads(k, d) \subseteq Cell
  BY <1>1, ReadsCells
<1> QED
  BY <1>1, <1>2, <1>3 DEF Reach

(* What is reached from something reached is reached.                      *)
LEMMA ReachTransitive ==
  ASSUME NEW k \in [Cell -> Compiled \union {None}], NEW c \in Cell, NEW d \in Reach(k, c)
  PROVE  Reach(k, d) \subseteq Reach(k, c)
<1>1. Reach(k, c) \subseteq Cell /\ ClosedIn(k, Cell, Reach(k, c))
  BY ReachReads DEF ClosedIn
<1>2. ReachIn(k, Cell, d) \subseteq Reach(k, c)
  BY <1>1, ReachMinimal
<1> QED
  BY <1>2 DEF Reach

(* The dependents of S contain S, and every reader of one of them.         *)
LEMMA DependentsClosed ==
  ASSUME NEW k \in [Cell -> Compiled \union {None}], NEW S \in SUBSET Cell
  PROVE  /\ S \subseteq Dependents(k, S)
         /\ Dependents(k, S) \subseteq Cell
         /\ \A c \in Cell : Reads(k, c) \intersect Dependents(k, S) # {} => c \in Dependents(k, S)
<1>1. S \subseteq Dependents(k, S)
  BY ReachReads DEF Dependents
<1>2. Dependents(k, S) \subseteq Cell
  BY DEF Dependents
<1>3. ASSUME NEW c \in Cell, Reads(k, c) \intersect Dependents(k, S) # {}
      PROVE  c \in Dependents(k, S)
  <2>1. PICK d \in Reads(k, c) : d \in Dependents(k, S)
    BY <1>3
  <2>2. PICK e \in S : e \in Reach(k, d)
    BY <2>1 DEF Dependents
  <2>3. d \in Reach(k, c)
    BY <2>1, ReachReads
  <2>4. e \in Reach(k, c)
    BY <2>2, <2>3, ReachTransitive
  <2> QED
    BY <2>2, <2>4 DEF Dependents
<1> QED
  BY <1>1, <1>2, <1>3

(***************************************************************************)
(* Two graphs that agree outside D, where no cell outside D reads one in   *)
(* D, reach the same cells from outside D, and none of D.                  *)
(***************************************************************************)
LEMMA ReachAgree ==
  ASSUME NEW k1 \in [Cell -> Compiled \union {None}], NEW k2 \in [Cell -> Compiled \union {None}],
         NEW D \in SUBSET Cell, NEW c \in Cell \ D,
         \A d \in Cell \ D : k1[d] = k2[d] /\ Reads(k1, d) \intersect D = {}
  PROVE  Reach(k1, c) = Reach(k2, c) /\ Reach(k1, c) \intersect D = {}
<1>1. \A d \in Cell \ D : Reads(k1, d) = Reads(k2, d) /\ Reads(k1, d) \subseteq Cell \ D
  BY ReadsCells DEF Reads
<1>2. ASSUME NEW p \in [Cell -> Compiled \union {None}], NEW q \in [Cell -> Compiled \union {None}],
             \A d \in Cell \ D : Reads(p, d) = Reads(q, d) /\ Reads(p, d) \subseteq Cell \ D
      PROVE  Reach(p, c) \subseteq Reach(q, c) \ D
  <2>1. \A d \in Reach(q, c) : d \in Cell /\ Reads(q, d) \subseteq Reach(q, c)
    BY ReachReads
  <2>2. ClosedIn(p, Cell, Reach(q, c) \ D)
    BY <1>2, <2>1 DEF ClosedIn
  <2>3. c \in Reach(q, c) \ D
    BY ReachReads
  <2>4. ReachIn(p, Cell, c) \subseteq Reach(q, c) \ D
    BY <2>1, <2>2, <2>3, ReachMinimal
  <2> QED
    BY <2>4 DEF Reach
<1>3. Reach(k1, c) \subseteq Reach(k2, c) \ D
  BY <1>1, <1>2
<1>4. Reach(k2, c) \subseteq Reach(k1, c) \ D
  BY <1>1, <1>2
<1> QED
  BY <1>3, <1>4

(* A cell that reads nothing reaches only itself.                          *)
LEMMA ReachLiteral ==
  ASSUME NEW k, NEW c \in Cell, Reads(k, c) = {}
  PROVE  Reach(k, c) = {c}
<1>1. ClosedIn(k, Cell, {c})
  BY DEF ClosedIn
<1>2. ReachIn(k, Cell, c) \subseteq {c}
  BY <1>1, ReachMinimal
<1>3. c \in ReachIn(k, Cell, c)
  BY ReachClosed
<1> QED
  BY <1>2, <1>3 DEF Reach

(***************************************************************************)
(* What is reached through D splits into what is reached inside D and what *)
(* is reached from the cells outside D that those read.                    *)
(***************************************************************************)
LEMMA ReachSplit ==
  ASSUME NEW k \in [Cell -> Compiled \union {None}], NEW D \in SUBSET Cell, NEW c \in Cell
  PROVE  LET inner == ReachIn(k, D, c)
             outer == (UNION {Reads(k, d) : d \in inner}) \ D
         IN  /\ inner \subseteq Cell /\ outer \subseteq Cell
             /\ Reach(k, c) = inner \union UNION {Reach(k, d) : d \in outer}
<1> DEFINE inner == ReachIn(k, D, c)
           outer == (UNION {Reads(k, d) : d \in inner}) \ D
           all == inner \union UNION {Reach(k, d) : d \in outer}
<1>1. /\ inner \subseteq Cell /\ c \in inner
      /\ \A d \in inner : Reads(k, d) \intersect D \intersect Cell \subseteq inner
  BY ReachClosed
<1>2. \A d \in inner : Reads(k, d) \subseteq Cell
  BY <1>1, ReadsCells
<1>3. outer \subseteq Cell
  BY <1>2
<1>4. \A d \in outer : /\ Reach(k, d) \subseteq Cell /\ d \in Reach(k, d)
                       /\ \A e \in Reach(k, d) : Reads(k, e) \subseteq Reach(k, d)
  BY <1>3, ReachReads
<1>5. all \subseteq Cell
  BY <1>1, <1>4
<1>6. ClosedIn(k, Cell, all)
  <2>1. ASSUME NEW u \in inner, NEW e \in Reads(k, u)
        PROVE  e \in all
    <3>1. CASE e \in D
      BY <1>1, <1>2, <2>1, <3>1
    <3>2. CASE e \notin D
      <4>1. e \in outer
        BY <2>1, <3>2
      <4> QED
        BY <1>4, <4>1
    <3> QED
      BY <3>1, <3>2
  <2>2. ASSUME NEW d \in outer, NEW u \in Reach(k, d)
        PROVE  Reads(k, u) \subseteq all
    BY <1>4
  <2> QED
    BY <2>1, <2>2 DEF ClosedIn
<1>7. Reach(k, c) \subseteq all
  <2>1. ReachIn(k, Cell, c) \subseteq all
    BY <1>1, <1>5, <1>6, ReachMinimal
  <2> QED
    BY <2>1 DEF Reach
<1>8. inner \subseteq Reach(k, c)
  <2>1. /\ Reach(k, c) \subseteq Cell /\ c \in Reach(k, c)
        /\ \A d \in Reach(k, c) : Reads(k, d) \subseteq Reach(k, c)
    BY ReachReads
  <2>2. ClosedIn(k, D, Reach(k, c))
    BY <2>1 DEF ClosedIn
  <2> QED
    BY <2>1, <2>2, ReachMinimal
<1>9. ASSUME NEW d \in outer
      PROVE  Reach(k, d) \subseteq Reach(k, c)
  <2>1. d \in Reach(k, c)
    BY <1>8, ReachReads
  <2> QED
    BY <2>1, ReachTransitive
<1> QED
  BY <1>1, <1>3, <1>7, <1>8, <1>9

(***************************************************************************)
(* The incremental pass: if no cell outside dirty reads a dirty cell and   *)
(* the results kept outside dirty are those of a full pass, then           *)
(* evaluating the dirty formulas from them gives the results of a full     *)
(* pass everywhere.                                                        *)
(***************************************************************************)
THEOREM IncrementalIsFull ==
  ASSUME NEW k \in [Cell -> Compiled \union {None}], NEW b, NEW o, NEW previous,
         NEW D \in SUBSET Cell,
         \A c \in Cell : k[c] = None <=> b.content[c] \notin Formula,
         \A c \in Cell \ D : Reads(k, c) \intersect D = {},
         \A c \in Cell \ D : previous[c] = FullResults(k, b, o)[c],
         \A c \in Cell : b.content[c] \in Formula => FullResults(k, b, o)[c] # None
  PROVE  IncrementalResults(k, b, o, previous, D) = FullResults(k, b, o)
<1> DEFINE full == FullResults(k, b, o)
           incremental == IncrementalResults(k, b, o, previous, D)
           items(S) == {Item(k, b, o, d) : d \in S}
<1>1. \A c \in Cell : full[c] = IF b.content[c] \in Formula
                                THEN [inputs |-> items(Reach(k, c))] ELSE None
  BY DEF FullResults
<1>2. ASSUME NEW c \in Cell, c \in D, b.content[c] \in Formula
      PROVE  DirtyResult(k, b, o, previous, D, c) = [inputs |-> items(Reach(k, c))]
  <2> DEFINE inner == ReachIn(k, D, c)
             outer == (UNION {Reads(k, d) : d \in inner}) \ D
             kept(d) == IF previous[d] = None THEN {Item(k, b, o, d)} ELSE previous[d].inputs
  <2>1. /\ inner \subseteq Cell /\ outer \subseteq Cell
        /\ Reach(k, c) = inner \union UNION {Reach(k, d) : d \in outer}
    BY ReachSplit
  <2>2. ASSUME NEW d \in outer
        PROVE  kept(d) = items(Reach(k, d))
    <3>1. d \in Cell \ D /\ previous[d] = full[d]
      BY <2>1
    <3>2. CASE b.content[d] \in Formula
      <4>1. previous[d] # None /\ previous[d] = [inputs |-> items(Reach(k, d))]
        BY <1>1, <3>1, <3>2
      <4> HIDE DEF items
      <4> QED
        BY <4>1
    <3>3. CASE b.content[d] \notin Formula
      <4>1. previous[d] = None
        BY <1>1, <3>1, <3>3
      <4>2. Reach(k, d) = {d}
        BY <3>1, <3>3, ReachLiteral DEF Reads
      <4> QED
        BY <4>1, <4>2
    <3> QED
      BY <3>2, <3>3
  <2>3. items(Reach(k, c)) = items(inner) \union UNION {items(Reach(k, d)) : d \in outer}
    BY <2>1
  <2>4. {kept(d) : d \in outer} = {items(Reach(k, d)) : d \in outer}
    <3> HIDE DEF kept, items, outer
    <3> QED
      BY <2>2
  <2>5. DirtyResult(k, b, o, previous, D, c) = [inputs |-> items(inner) \union UNION {kept(d) : d \in outer}]
    BY DEF DirtyResult
  <2> HIDE DEF kept, items, outer, inner
  <2> QED
    BY <2>3, <2>4, <2>5
<1>3. \A c \in Cell : incremental[c] = full[c]
  <2>1. \A c \in Cell : incremental[c] = IF c \notin D THEN previous[c]
                                         ELSE IF b.content[c] \notin Formula THEN None
                                         ELSE DirtyResult(k, b, o, previous, D, c)
    BY DEF IncrementalResults
  <2> HIDE DEF items, full, incremental
  <2> QED
    BY <1>1, <1>2, <2>1 DEF full
<1>4. incremental = [c \in Cell |-> incremental[c]] /\ full = [c \in Cell |-> full[c]]
  BY DEF IncrementalResults, FullResults
<1> HIDE DEF full, incremental
<1> QED
  BY <1>3, <1>4 DEF full, incremental

(* Compiling gives compiled formulas at the formulas and None elsewhere.   *)
LEMMA CompileType ==
  ASSUME NEW b \in Book, NEW o \in OptionSet
  PROVE  /\ CompileAll(b, o) \in [Cell -> Compiled \union {None}]
         /\ \A c \in Cell : CompileAll(b, o)[c] = CompileCell(b, o, c)
         /\ \A c \in Cell : CompileAll(b, o)[c] = None <=> b.content[c] \notin Formula
<1>1. ASSUME NEW c \in Cell, b.content[c] \in Formula
      PROVE  CompileCell(b, o, c) \in Compiled
  <2> DEFINE f == b.content[c]
             tables == IF f \in TableReader \/ b.names \in TableNames THEN b.tables ELSE None
             selected == IF f \in Dynamic THEN b.content[Selector[f]] ELSE None
             locale == IF f \in LocaleDynamic THEN o.semantics ELSE None
  <2>1. f \in Formula /\ b.names \in Names /\ tables \in Tables \union {None}
    BY <1>1 DEF Book
  <2>2. selected \in Content \union {None} /\ locale \in Semantics \union {None}
    BY WorkbookAssumption DEF Book, OptionSet
  <2>3. Resolve(f, b.names, tables, selected, locale) \in SUBSET Cell
    <3> HIDE DEF f, tables, selected, locale
    <3> QED
      BY <2>1, <2>2, ResolveAssumption
  <2>4. CompileCell(b, o, c) = [formula |-> f, names |-> b.names, tables |-> tables,
                                reads |-> Resolve(f, b.names, tables, selected, locale)]
    BY <1>1 DEF CompileCell
  <2> HIDE DEF f, tables, selected, locale
  <2> QED
    BY <2>1, <2>3, <2>4 DEF Compiled
<1>2. ASSUME NEW c \in Cell, b.content[c] \notin Formula
      PROVE  CompileCell(b, o, c) = None
  BY <1>2 DEF CompileCell
<1> QED
  BY <1>1, <1>2, WorkbookAssumption DEF CompileAll

(* The results of a full pass are results.                                 *)
LEMMA FullType ==
  ASSUME NEW b \in Book, NEW o \in OptionSet, NEW k \in [Cell -> Compiled \union {None}]
  PROVE  /\ FullResults(k, b, o) \in Results
         /\ \A c \in Cell : FullResults(k, b, o)[c] = None <=> b.content[c] \notin Formula
<1>1. ASSUME NEW c \in Cell
      PROVE  Item(k, b, o, c) \in Contribution
  <2>1. CASE k[c] = None
    BY <2>1 DEF Item, Contribution, Book, Content
  <2>2. CASE k[c] # None
    <3>1. k[c] \in Compiled
      BY <2>2
    <3>2. b.format \in Formats /\ o.volatile \in VolatileInput /\ o.semantics \in Semantics
      BY DEF Book, OptionSet
    <3> QED
      BY <2>2, <3>1, <3>2 DEF Item, Contribution
  <2> QED
    BY <2>1, <2>2
<1>2. ASSUME NEW c \in Cell
      PROVE  [inputs |-> {Item(k, b, o, d) : d \in Reach(k, c)}] \in Value
  <2>1. {Item(k, b, o, d) : d \in Reach(k, c)} \subseteq Contribution
    BY <1>1, ReachReads
  <2> QED
    BY <2>1 DEF Value
<1> QED
  BY <1>2, WorkbookAssumption DEF FullResults, Results

(***************************************************************************)
(* What outdated results and compiled formulas may be kept after edits: of *)
(* the cells outside D nothing is outdated and none reads a cell of D; the *)
(* compiled formulas outside E differ from the workbook's at most in the   *)
(* targets of references that depend on values.                            *)
(***************************************************************************)
KeptState(b, o, k, results, D, E) ==
  LET f == CompileAll(b, o) IN
  /\ \A c \in Cell \ D : /\ k[c] = f[c]
                         /\ Reads(k, c) \intersect D = {}
                         /\ results[c] = FullResults(f, b, o)[c]
  /\ E \subseteq D
  /\ \A c \in Cell \ E : k[c] # f[c] => /\ k[c] # None /\ f[c] # None
                                        /\ k[c].formula = f[c].formula
                                        /\ k[c].names = f[c].names
                                        /\ k[c].tables = f[c].tables
                                        /\ f[c].formula \in Dynamic

(***************************************************************************)
(* An edit that is followed locally: X are the cells whose content or      *)
(* tables changed, R those to be recompiled, P the readers of a changed    *)
(* number format.  With the dependents of all these dirty, everything kept *)
(* is still right for the edited workbook b2.                              *)
(***************************************************************************)
THEOREM LocalEditKeeps ==
  ASSUME NEW b \in Book, NEW b2 \in Book, NEW o \in OptionSet,
         NEW k \in [Cell -> Compiled \union {None}], NEW results,
         NEW D \in SUBSET Cell, NEW E \in SUBSET Cell,
         NEW X \in SUBSET Cell, NEW R \in SUBSET X, NEW P \in SUBSET Cell,
         KeptState(b, o, k, results, D, E),
         \A c \in Cell \ X : b2.content[c] = b.content[c],
         \A c \in Cell \ R : (b.content[c] \in Formula \/ b2.content[c] \in Formula)
                               => b2.content[c] = b.content[c],
         b2.names = b.names,
         b2.tables # b.tables => b2.names \notin TableNames /\ ReadersOf(k, TableReader) \subseteq R,
         b2.format # b.format => ReadersOf(k, FormatReader) \subseteq P
  PROVE  KeptState(b2, o, k, results, D \union Affected(k, X) \union R \union Dependents(k, P), E \union R)
<1> DEFINE f == CompileAll(b, o)
           f2 == CompileAll(b2, o)
           direct == {c \in FormulaCells(k) : c \in X \/ Reads(k, c) \intersect X # {}}
           D2 == D \union Affected(k, X) \union R \union Dependents(k, P)
           E2 == E \union R
<1>1. /\ f \in [Cell -> Compiled \union {None}] /\ f2 \in [Cell -> Compiled \union {None}]
      /\ \A c \in Cell : f[c] = CompileCell(b, o, c) /\ f2[c] = CompileCell(b2, o, c)
      /\ \A c \in Cell : f[c] = None <=> b.content[c] \notin Formula
      /\ \A c \in Cell : f2[c] = None <=> b2.content[c] \notin Formula
  BY CompileType
<1>2. /\ \A c \in Cell \ D : /\ k[c] = f[c]
                             /\ Reads(k, c) \intersect D = {}
                             /\ results[c] = FullResults(f, b, o)[c]
      /\ E \subseteq D
      /\ \A c \in Cell \ E : k[c] # f[c] => /\ k[c] # None /\ f[c] # None
                                            /\ k[c].formula = f[c].formula
                                            /\ k[c].names = f[c].names
                                            /\ k[c].tables = f[c].tables
                                            /\ f[c].formula \in Dynamic
  BY DEF KeptState
<1>3. /\ direct \subseteq Cell
      /\ \A c \in Cell : k[c] # None /\ (c \in X \/ Reads(k, c) \intersect X # {}) => c \in direct
  BY DEF FormulaCells
<1>4. /\ direct \subseteq Affected(k, X) /\ Affected(k, X) \subseteq Cell
      /\ \A c \in Cell : Reads(k, c) \intersect Affected(k, X) # {} => c \in Affected(k, X)
  BY <1>3, DependentsClosed DEF Affected
<1>5. /\ P \subseteq Dependents(k, P) /\ Dependents(k, P) \subseteq Cell
      /\ \A c \in Cell : Reads(k, c) \intersect Dependents(k, P) # {} => c \in Dependents(k, P)
  BY DependentsClosed
<1>6. D2 \subseteq Cell
  BY <1>4, <1>5
<1>7. \A c \in Cell : k[c] # None /\ (c \in X \/ Reads(k, c) \intersect X # {}) => c \in D2
  BY <1>3, <1>4
<1>8. \A c \in Cell : Reads(k, c) # {} => k[c] # None
  BY DEF Reads
<1> HIDE DEF f, f2, direct
(* The same formula outside R compiles to the same but for moved targets.  *)
<1>9. ASSUME NEW c \in Cell \ R, f[c] # None, k[c] # None, k[c].formula = f[c].formula
      PROVE  /\ f2[c] # None
             /\ f2[c].formula = f[c].formula /\ f2[c].names = f[c].names
             /\ f2[c].tables = f[c].tables
             /\ (f[c].formula \in Dynamic => b2.content[Selector[f[c].formula]] =
                                              b.content[Selector[f[c].formula]])
                  => f2[c] = f[c]
  <2> DEFINE g == b.content[c]
  <2>1. g \in Formula /\ b2.content[c] = g
    BY <1>1, <1>9
  <2>2. f[c].formula = g
    BY <1>1, <2>1 DEF CompileCell
  <2>3. b2.tables # b.tables => g \notin TableReader
    BY <1>9, <2>2 DEF ReadersOf
  <2>4. (IF g \in TableReader \/ b.names \in TableNames THEN b.tables ELSE None) =
        (IF g \in TableReader \/ b2.names \in TableNames THEN b2.tables ELSE None)
    BY <2>3
  <2>5. f2[c] # None
    BY <1>1, <2>1
  <2>6. f2[c].formula = f[c].formula /\ f2[c].names = f[c].names
    BY <1>1, <2>1 DEF CompileCell
  <2>7. f2[c].tables = f[c].tables
    BY <1>1, <2>1, <2>4 DEF CompileCell
  <2>8. ASSUME g \in Dynamic => b2.content[Selector[g]] = b.content[Selector[g]]
        PROVE  CompileCell(b2, o, c) = CompileCell(b, o, c)
    <3> DEFINE tb == IF g \in TableReader \/ b.names \in TableNames THEN b.tables ELSE None
               sb == IF g \in Dynamic THEN b.content[Selector[g]] ELSE None
               lc == IF g \in LocaleDynamic THEN o.semantics ELSE None
    <3>1. CompileCell(b, o, c) = [formula |-> g, names |-> b.names, tables |-> tb,
                                  reads |-> Resolve(g, b.names, tb, sb, lc)]
      BY <2>1 DEF CompileCell
    <3>2. CompileCell(b2, o, c) = [formula |-> g, names |-> b2.names,
             tables |-> IF g \in TableReader \/ b2.names \in TableNames THEN b2.tables ELSE None,
             reads |-> Resolve(g, b2.names,
                         IF g \in TableReader \/ b2.names \in TableNames THEN b2.tables ELSE None,
                         IF g \in Dynamic THEN b2.content[Selector[g]] ELSE None, lc)]
      BY <2>1 DEF CompileCell
    <3>3. (IF g \in Dynamic THEN b2.content[Selector[g]] ELSE None) = sb
      BY <2>8
    <3> QED
      BY <2>4, <3>1, <3>2, <3>3
  <2> QED
    BY <1>1, <2>2, <2>5, <2>6, <2>7, <2>8
(* Outside the new dirty set nothing is compiled differently.              *)
<1>10. ASSUME NEW c \in Cell \ D2
       PROVE  k[c] = f2[c]
  <2>1. c \notin R /\ c \notin D /\ k[c] = f[c]
    BY <1>2
  <2>2. CASE k[c] = None
    BY <1>1, <2>1, <2>2
  <2>3. CASE k[c] # None
    <3>1. f[c].formula \in Dynamic => b2.content[Selector[f[c].formula]] =
                                      b.content[Selector[f[c].formula]]
      <4> SUFFICES ASSUME f[c].formula \in Dynamic
                   PROVE  b2.content[Selector[f[c].formula]] = b.content[Selector[f[c].formula]]
        OBVIOUS
      <4> DEFINE g == b.content[c]
                 tb == IF g \in TableReader \/ b.names \in TableNames THEN b.tables ELSE None
                 lc == IF g \in LocaleDynamic THEN o.semantics ELSE None
      <4>1. g \in Formula /\ f[c].formula = g
        BY <1>1, <2>1, <2>3 DEF CompileCell
      <4>2. f[c].reads = Resolve(g, b.names, tb, b.content[Selector[g]], lc)
        BY <1>1, <4>1 DEF CompileCell
      <4>3. Selector[g] \in Cell
        BY <4>1, WorkbookAssumption
      <4>4. /\ b.names \in Names /\ tb \in Tables \union {None}
            /\ b.content[Selector[g]] \in Content \union {None} /\ lc \in Semantics \union {None}
        BY <4>3 DEF Book, OptionSet
      <4>5. Selector[g] \in f[c].reads
        <5> HIDE DEF g, tb, lc
        <5> QED
          BY <4>1, <4>2, <4>4, ResolveAssumption
      <4>6. Selector[g] \notin X
        BY <1>7, <2>1, <2>3, <4>5 DEF Reads
      <4> QED
        BY <4>1, <4>3, <4>6
    <3> QED
      BY <1>9, <2>1, <2>3, <3>1
  <2> QED
    BY <2>2, <2>3
<1>11. ASSUME NEW c \in Cell \ D2
       PROVE  Reads(k, c) \intersect D2 = {} /\ Reads(k, c) \intersect X = {}
  <2>1. Reads(k, c) \intersect X = {}
    BY <1>7, <1>8
  <2>2. Reads(k, c) \intersect D = {}
    BY <1>2
  <2> QED
    BY <1>4, <1>5, <2>1, <2>2
<1>12. ASSUME NEW c \in Cell \ D2
       PROVE  results[c] = FullResults(f2, b2, o)[c]
  <2>1. \A d \in Cell \ D2 : k[d] = f[d] /\ k[d] = f2[d] /\ Reads(k, d) \intersect D2 = {}
    BY <1>2, <1>10, <1>11
  <2>2. Reach(k, c) = Reach(f, c) /\ Reach(k, c) \intersect D2 = {}
    <3> HIDE DEF D2
    <3> QED
      BY <1>1, <1>6, <2>1, ReachAgree
  <2>3. Reach(k, c) = Reach(f2, c)
    <3> HIDE DEF D2
    <3> QED
      BY <1>1, <1>6, <2>1, ReachAgree
  <2>4. b.content[c] \in Formula <=> b2.content[c] \in Formula
    BY <1>1, <2>1
  <2>5. ASSUME b.content[c] \in Formula, NEW d \in Reach(k, c)
        PROVE  Item(f, b, o, d) = Item(f2, b2, o, d)
    <3>1. d \in Cell \ D2 /\ f[d] = f2[d] /\ k[d] = f[d]
      BY <1>1, <2>1, <2>2, ReachReads
    <3>2. d \notin X
      <4>1. /\ Reach(k, c) \subseteq Cell /\ c \in Reach(k, c)
            /\ \A e \in Reach(k, c) : Reads(k, e) \subseteq Reach(k, c)
        BY ReachReads
      <4>2. c \notin X
        BY <1>1, <1>7, <2>1, <2>5
      <4>3. ClosedIn(k, Cell, Reach(k, c) \ X)
        BY <1>11, <2>2, <4>1 DEF ClosedIn
      <4>4. ReachIn(k, Cell, c) \subseteq Reach(k, c) \ X
        BY <4>1, <4>2, <4>3, ReachMinimal
      <4> QED
        BY <4>4 DEF Reach
    <3>3. CASE f[d] = None
      BY <3>1, <3>2, <3>3 DEF Item
    <3>4. CASE f[d] # None
      <4>1. b2.format # b.format => f[d].formula \notin FormatReader
        BY <1>5, <3>1, <3>4 DEF ReadersOf
      <4> QED
        BY <3>1, <3>4, <4>1 DEF Item
    <3> QED
      BY <3>3, <3>4
  <2>6. FullResults(f, b, o)[c] = FullResults(f2, b2, o)[c]
    <3>1. b.content[c] \in Formula => \A d \in Reach(f, c) : Item(f, b, o, d) = Item(f2, b2, o, d)
      BY <2>2, <2>5
    <3>2. b.content[c] \in Formula =>
            {Item(f, b, o, d) : d \in Reach(f, c)} = {Item(f2, b2, o, d) : d \in Reach(f2, c)}
      BY <2>2, <2>3, <3>1
    <3> QED
      BY <2>4, <3>2 DEF FullResults
  <2> QED
    BY <1>2, <2>6
<1>13. E2 \subseteq D2
  BY <1>2
<1>14. ASSUME NEW c \in Cell \ E2, k[c] # f2[c]
       PROVE  /\ k[c] # None /\ f2[c] # None
              /\ k[c].formula = f2[c].formula
              /\ k[c].names = f2[c].names
              /\ k[c].tables = f2[c].tables
              /\ f2[c].formula \in Dynamic
  <2>1. c \notin R /\ c \notin E
    OBVIOUS
  <2>2. k[c] # None /\ f[c] # None
    BY <1>1, <1>2, <1>14, <2>1
  <2>3. /\ k[c].formula = f[c].formula /\ k[c].names = f[c].names /\ k[c].tables = f[c].tables
    BY <1>2, <2>1
  <2>4. /\ f2[c] # None
        /\ f2[c].formula = f[c].formula /\ f2[c].names = f[c].names /\ f2[c].tables = f[c].tables
    BY <1>9, <2>1, <2>2, <2>3
  <2>5. f[c].formula \in Dynamic
    BY <1>2, <1>9, <1>14, <2>1, <2>2, <2>3
  <2> QED
    BY <2>2, <2>3, <2>4, <2>5
<1> QED
  BY <1>10, <1>11, <1>12, <1>13, <1>14 DEF KeptState, f2

(* Compiling depends on the options only through their semantics.          *)
LEMMA CompileSemantics ==
  ASSUME NEW b, NEW o1, NEW o2, o1.semantics = o2.semantics \/ LocaleDynamic = {}
  PROVE  CompileAll(b, o1) = CompileAll(b, o2)
<1>1. ASSUME NEW c \in Cell
      PROVE  CompileCell(b, o1, c) = CompileCell(b, o2, c)
  <2>1. (IF b.content[c] \in LocaleDynamic THEN o1.semantics ELSE None) =
        (IF b.content[c] \in LocaleDynamic THEN o2.semantics ELSE None)
    OBVIOUS
  <2> QED
    BY <2>1 DEF CompileCell
<1> QED
  BY <1>1 DEF CompileAll

(***************************************************************************)
(* The kept results also hold with other volatile inputs, outside the      *)
(* readers of those inputs and their dependents.                           *)
(***************************************************************************)
LEMMA VolatileKeeps ==
  ASSUME NEW b \in Book, NEW o \in OptionSet, NEW o2 \in OptionSet,
         NEW k \in [Cell -> Compiled \union {None}], NEW results,
         NEW D \in SUBSET Cell, NEW E \in SUBSET Cell, NEW PD \in SUBSET Cell,
         KeptState(b, o, k, results, D, E),
         o2.semantics = o.semantics,
         D \subseteq PD,
         \A c \in Cell \ PD : Reads(k, c) \intersect PD = {},
         o2.volatile # o.volatile => ReadersOf(k, VolatileReader) \subseteq PD
  PROVE  \A c \in Cell \ PD : /\ k[c] = CompileAll(b, o2)[c]
                              /\ results[c] = FullResults(CompileAll(b, o2), b, o2)[c]
<1> DEFINE f == CompileAll(b, o)
<1>1. f = CompileAll(b, o2)
  BY CompileSemantics
<1>2. f \in [Cell -> Compiled \union {None}]
  BY CompileType
<1>3. \A c \in Cell \ PD : k[c] = f[c] /\ results[c] = FullResults(f, b, o)[c]
  BY DEF KeptState
<1> HIDE DEF f
<1>4. ASSUME NEW c \in Cell \ PD
      PROVE  FullResults(f, b, o)[c] = FullResults(f, b, o2)[c]
  <2>1. Reach(k, c) = Reach(f, c) /\ Reach(k, c) \intersect PD = {}
    BY <1>2, <1>3, ReachAgree
  <2>2. Reach(k, c) \subseteq Cell
    BY ReachReads
  <2>3. ASSUME NEW d \in Reach(f, c)
        PROVE  Item(f, b, o, d) = Item(f, b, o2, d)
    <3>1. d \in Cell \ PD /\ k[d] = f[d]
      BY <1>3, <2>1, <2>2
    <3>2. f[d] # None /\ f[d].formula \in VolatileReader => o2.volatile = o.volatile
      BY <3>1 DEF ReadersOf
    <3> QED
      BY <3>2 DEF Item
  <2>4. {Item(f, b, o, d) : d \in Reach(f, c)} = {Item(f, b, o2, d) : d \in Reach(f, c)}
    BY <2>3
  <2> QED
    BY <2>4 DEF FullResults
<1> QED
  BY <1>1, <1>3, <1>4

(* A session of which a pass with the options o may evaluate PD only.      *)
MayEvaluate(s, o, PD) ==
  /\ s.draft.book \in Book /\ s.dirty \in SUBSET Cell /\ s.formulaEdits \in SUBSET Cell
  /\ s.calculation.options \in OptionSet
  /\ s.compiled.formulas \in [Cell -> Compiled \union {None}]
  /\ KeptState(s.draft.book, s.calculation.options, s.compiled.formulas, s.calculation.results,
               s.dirty, s.formulaEdits)
  /\ s.calculation.options.semantics = o.semantics
  /\ s.dirty \subseteq PD
  /\ \A c \in Cell \ PD : Reads(s.compiled.formulas, c) \intersect PD = {}
  /\ s.calculation.options.volatile # o.volatile =>
       ReadersOf(s.compiled.formulas, VolatileReader) \subseteq PD

(* What it does not evaluate is compiled and has its results.              *)
LEMMA SessionKeeps ==
  ASSUME NEW s, NEW o \in OptionSet, NEW PD \in SUBSET Cell, MayEvaluate(s, o, PD)
  PROVE  \A c \in Cell \ PD :
           /\ s.compiled.formulas[c] = CompileAll(s.draft.book, o)[c]
           /\ s.calculation.results[c] = FullResults(CompileAll(s.draft.book, o), s.draft.book, o)[c]
<1> DEFINE b == s.draft.book
           k == s.compiled.formulas
           before == s.calculation.options
           results == s.calculation.results
           D == s.dirty
           E == s.formulaEdits
<1>1. /\ b \in Book /\ D \in SUBSET Cell /\ E \in SUBSET Cell /\ before \in OptionSet
      /\ k \in [Cell -> Compiled \union {None}] /\ KeptState(b, before, k, results, D, E)
      /\ o.semantics = before.semantics /\ D \subseteq PD
      /\ \A c \in Cell \ PD : Reads(k, c) \intersect PD = {}
      /\ o.volatile # before.volatile => ReadersOf(k, VolatileReader) \subseteq PD
  BY DEF MayEvaluate
<1> HIDE DEF b, k, before, results, D, E
<1>2. \A c \in Cell \ PD : /\ k[c] = CompileAll(b, o)[c]
                           /\ results[c] = FullResults(CompileAll(b, o), b, o)[c]
  BY <1>1, VolatileKeeps
<1>3. QED
  BY <1>2 DEF b, k, results

(***************************************************************************)
(* Once the cells of E are recompiled and no reference that depends on     *)
(* values moved, the compiled formulas are those of the workbook.          *)
(***************************************************************************)
LEMMA UnmovedIsCurrent ==
  ASSUME NEW b \in Book, NEW o \in OptionSet,
         NEW k \in [Cell -> Compiled \union {None}], NEW results,
         NEW D \in SUBSET Cell, NEW E \in SUBSET Cell,
         NEW k2 \in [Cell -> Compiled \union {None}],
         KeptState(b, o, k, results, D, E),
         \A c \in Cell : k2[c] = IF c \in E THEN CompileAll(b, o)[c] ELSE k[c],
         \A c \in D \intersect ReadersOf(k2, Dynamic) : Reads(CompileAll(b, o), c) = Reads(k2, c)
  PROVE  k2 = CompileAll(b, o)
<1> DEFINE f == CompileAll(b, o)
<1>1. f \in [Cell -> Compiled \union {None}]
  BY CompileType
<1>2. /\ \A c \in Cell \ D : k[c] = f[c]
      /\ \A c \in Cell \ E : k[c] # f[c] => /\ k[c] # None /\ f[c] # None
                                            /\ k[c].formula = f[c].formula
                                            /\ k[c].names = f[c].names
                                            /\ k[c].tables = f[c].tables
                                            /\ f[c].formula \in Dynamic
  BY DEF KeptState
<1> HIDE DEF f
<1>3. ASSUME NEW c \in Cell
      PROVE  k2[c] = f[c]
  <2> SUFFICES ASSUME c \notin E, k[c] # f[c]
               PROVE  FALSE
    BY DEF f
  <2>1. k2[c] = k[c]
    OBVIOUS
  <2>2. /\ c \in D /\ k[c] # None /\ f[c] # None /\ k[c].formula = f[c].formula
        /\ k[c].names = f[c].names /\ k[c].tables = f[c].tables
    BY <1>2
  <2>3. c \in ReadersOf(k2, Dynamic)
    BY <1>2, <2>1, <2>2 DEF ReadersOf
  <2>4. f[c].reads = k[c].reads
    BY <2>1, <2>2, <2>3 DEF Reads, f
  <2>5. k[c] \in Compiled /\ f[c] \in Compiled
    BY <1>1, <2>2
  <2> QED
    BY <2>2, <2>4, <2>5 DEF Compiled
<1> QED
  BY <1>1, <1>3 DEF f

-----------------------------------------------------------------------------
(* The session as a whole.                                                 *)

(* The session as a record has its type.                                   *)
SessionRecord ==
  [draft : Draft, compiled : CompiledWorkbook \union {None},
   calculation : Calculation \union {None}, dirty : SUBSET Cell, formulaEdits : SUBSET Cell,
   pending : BOOLEAN, rebuild : BOOLEAN, cursor : Nat \ {0}]

(* What holds of the session between any two steps.                        *)
Consistent(s) ==
  /\ s.calculation = None <=> s.compiled = None
  /\ s.calculation = None => s.rebuild
  /\ s.rebuild => s.formulaEdits = {}
  /\ ~s.rebuild => KeptState(s.draft.book, s.calculation.options, s.compiled.formulas,
                             s.calculation.results, s.dirty, s.formulaEdits)
  /\ ~s.rebuild /\ ~s.pending => s.dirty = {}
  /\ s.calculation # None =>
       /\ s.calculation.revision <= s.draft.revision
       /\ s.calculation.revision = s.draft.revision => ~s.rebuild /\ s.dirty = {}

(* The dirty set of a partial pass is closed under dependents.             *)
LEMMA PendingDirtyClosed ==
  ASSUME NEW s \in SessionRecord, Consistent(s), ~s.rebuild, NEW mode \in Modes, NEW o \in OptionSet,
         ~Structural(s, o)
  PROVE  LET k == s.compiled.formulas
             PD == PendingDirty(s, mode, o)
         IN  /\ k \in [Cell -> Compiled \union {None}]
             /\ PD \subseteq Cell /\ s.dirty \subseteq PD
             /\ \A c \in Cell \ PD : Reads(k, c) \intersect PD = {}
             /\ ~OptionsChanged(s, o) /\ s.calculation.options.volatile # o.volatile =>
                  ReadersOf(k, VolatileReader) \subseteq PD
             /\ PD # {} => ChangesPending(s, o)
<1> DEFINE k == s.compiled.formulas
           V == VolatileDirty(s, o)
           W == ValueDirty(s, mode, o)
           PD == PendingDirty(s, mode, o)
<1>1. s.compiled # None /\ s.compiled \in CompiledWorkbook
  BY DEF Structural, NoState, SessionRecord
<1>2. k \in [Cell -> Compiled \union {None}]
  BY <1>1 DEF CompiledWorkbook
<1>3. PD = s.dirty \union V \union W /\ s.dirty \subseteq Cell
  BY DEF PendingDirty, SessionRecord
<1>4. \A S \in SUBSET Cell :
        /\ S \subseteq Dependents(k, S)
        /\ Dependents(k, S) \subseteq Cell
        /\ \A c \in Cell : Reads(k, c) \intersect Dependents(k, S) # {} => c \in Dependents(k, S)
  BY <1>2, DependentsClosed
<1>5. ReadersOf(k, VolatileReader) \in SUBSET Cell /\ ReadersOf(k, Dynamic) \in SUBSET Cell
  BY DEF ReadersOf
<1>6. /\ V = {} \/ V = Dependents(k, ReadersOf(k, VolatileReader))
      /\ W = {} \/ W = Dependents(k, ReadersOf(k, Dynamic))
  BY DEF VolatileDirty, ValueDirty
<1>7. V \subseteq Cell /\ W \subseteq Cell
  BY <1>4, <1>5, <1>6
<1>8. \A c \in Cell \ s.dirty : Reads(k, c) \intersect s.dirty = {}
  BY DEF Consistent, KeptState
<1>9. ASSUME NEW c \in Cell \ PD
      PROVE  Reads(k, c) \intersect PD = {}
  <2>1. Reads(k, c) \intersect V = {}
    BY <1>3, <1>4, <1>5, <1>6
  <2>2. Reads(k, c) \intersect W = {}
    BY <1>3, <1>4, <1>5, <1>6
  <2> QED
    BY <1>3, <1>8, <2>1, <2>2
<1>10. ~OptionsChanged(s, o) /\ s.calculation.options.volatile # o.volatile =>
         ReadersOf(k, VolatileReader) \subseteq PD
  <2>1. ~OptionsChanged(s, o) /\ s.calculation.options.volatile # o.volatile =>
          V = Dependents(k, ReadersOf(k, VolatileReader))
    BY DEF VolatileDirty
  <2> QED
    BY <1>3, <1>4, <1>5, <2>1
<1>11. PD # {} => ChangesPending(s, o)
  BY <1>3 DEF ChangesPending, ValueDirty, Consistent
<1> QED
  BY <1>2, <1>3, <1>7, <1>9, <1>10, <1>11

(* What a pass may rely on when the plan keeps the compiled workbook.      *)
LEMMA PlanFacts ==
  ASSUME NEW s \in SessionRecord, Consistent(s), NEW mode \in Modes, NEW o \in OptionSet,
         ~Refused(s, mode, o)
  PROVE  LET plan == PlanCalculation(s, mode, o) IN
         /\ plan \in Plan
         /\ ~plan.compileRequired =>
              /\ s.calculation # None /\ s.compiled # None /\ ~s.rebuild
              /\ plan.formulaEdits = s.formulaEdits
              /\ ChangesPending(s, o) => FollowsEdits(s.compiled)
         /\ plan.reason \in FullReasons => plan.formulaEdits = {}
         /\ plan.reason \notin FullReasons =>
              /\ ~plan.compileRequired /\ ~Structural(s, o) /\ ~OptionsChanged(s, o)
              /\ plan.dirty = PendingDirty(s, mode, o)
              /\ plan.reason = "NoDirtyFormulas" <=> PendingDirty(s, mode, o) = {}
<1> DEFINE plan == PlanCalculation(s, mode, o)
           reason == DecisionReason(s, mode, o)
           required == MustCompile(s, mode, o) \/ (s.formulaEdits # {} /\ reason \in FullReasons)
<1>1. /\ plan.reason = reason
      /\ plan.compileRequired = required
      /\ plan.formulaEdits = IF required THEN {} ELSE s.formulaEdits
      /\ reason \notin FullReasons => plan.dirty = PendingDirty(s, mode, o)
  BY DEF PlanCalculation
<1>2. /\ mode = "Full" => reason = "FullRequested"
      /\ mode = "Incremental" => reason = IF PendingDirty(s, mode, o) = {} THEN "NoDirtyFormulas"
                                          ELSE "IncrementalRequested"
      /\ mode = "Auto" =>
           reason = IF NoState(s) THEN "InitialCalculation"
             ELSE IF s.rebuild \/ TableChanged(s) THEN "TopologyChanged"
             ELSE IF OptionsChanged(s, o) \/ LimitChanged(s, o) THEN "OptionsChanged"
             ELSE IF UnsafeDynamic(s, mode, o) THEN "DynamicTopology"
             ELSE IF PendingDirty(s, mode, o) = {} THEN "NoDirtyFormulas"
             ELSE IF Cardinality(PendingDirty(s, mode, o)) >= Cardinality(FormulaCells(s.compiled.formulas))
                  THEN "DirtySetCoversWorkbook"
             ELSE "DirtySubset"
  BY DEF DecisionReason
<1>3. mode \in {"Auto", "Incremental", "Full"}
  BY DEF Modes
<1>4. reason \in FullReasons \union PartialReasons
  BY <1>2, <1>3 DEF FullReasons, PartialReasons
<1>5. reason \notin FullReasons =>
        /\ ~required /\ ~Structural(s, o) /\ ~OptionsChanged(s, o)
        /\ reason = "NoDirtyFormulas" <=> PendingDirty(s, mode, o) = {}
  <2> HIDE DEF reason
  <2> QED
    BY <1>2, <1>3 DEF FullReasons, MustCompile, Structural, Refused
<1>6. ~required => /\ s.calculation # None /\ s.compiled # None /\ ~s.rebuild
                   /\ ChangesPending(s, o) => FollowsEdits(s.compiled)
  BY DEF MustCompile, Structural, NoState, UnsafeDynamic, FollowsEdits, IncrementalSafe
<1>7. plan.dirty \subseteq Cell
  <2>1. CASE reason \notin FullReasons
    BY <1>1, <1>5, <1>6, <2>1, PendingDirtyClosed
  <2>2. CASE reason \in FullReasons
    BY <2>2 DEF PlanCalculation, FormulaCells
  <2> QED
    BY <2>1, <2>2
<1>8. plan \in Plan
  <2>1. required \in BOOLEAN
    BY DEF MustCompile, Structural, NoState, LimitChanged, TableChanged, UnsafeDynamic, SessionRecord
  <2>2. s.formulaEdits \subseteq Cell
    BY DEF SessionRecord
  <2> HIDE DEF required
  <2> QED
    BY <1>1, <1>4, <1>7, <2>1, <2>2 DEF Plan, PlanCalculation, required
<1> HIDE DEF reason, required
<1> QED
  BY <1>1, <1>5, <1>6, <1>8 DEF required

(* The compiled workbook after recompiling the edits of a plan.            *)
LEMMA RecompiledType ==
  ASSUME NEW b \in Book, NEW o \in OptionSet, NEW cw \in CompiledWorkbook, NEW plan
  PROVE  /\ Recompiled(b, cw, plan, o) \in CompiledWorkbook
         /\ \A c \in Cell : Recompiled(b, cw, plan, o).formulas[c] =
              IF c \in plan.formulaEdits THEN CompileAll(b, o)[c] ELSE cw.formulas[c]
<1> DEFINE g == [c \in Cell |-> IF c \in plan.formulaEdits
                                THEN CompileCell(b, o, c) ELSE cw.formulas[c]]
<1>1. /\ CompileAll(b, o) \in [Cell -> Compiled \union {None}]
      /\ \A c \in Cell : CompileAll(b, o)[c] = CompileCell(b, o, c)
  BY CompileType
<1>2. /\ cw.formulas \in [Cell -> Compiled \union {None}] /\ cw.follows \in BOOLEAN
      /\ cw.limits \in EvalLimits
  BY DEF CompiledWorkbook
<1>3. \A c \in Cell : CompileCell(b, o, c) \in Compiled \union {None}
  BY <1>1
<1>4. g \in [Cell -> Compiled \union {None}]
  BY <1>2, <1>3
<1>5. CASE plan.formulaEdits = {}
  BY <1>5 DEF Recompiled
<1>6. CASE plan.formulaEdits # {}
  <2>1. Recompiled(b, cw, plan, o) = [cw EXCEPT !.formulas = g]
    BY <1>6 DEF Recompiled
  <2>2. \A c \in Cell : g[c] = IF c \in plan.formulaEdits THEN CompileAll(b, o)[c] ELSE cw.formulas[c]
    BY <1>1
  <2> HIDE DEF g
  <2>3. [cw EXCEPT !.formulas = g] \in CompiledWorkbook /\ [cw EXCEPT !.formulas = g].formulas = g
    BY <1>4 DEF CompiledWorkbook
  <2> QED
    BY <2>1, <2>2, <2>3
<1> QED
  BY <1>5, <1>6

(***************************************************************************)
(* Whatever way execute takes, the results it completes with are those of  *)
(* a calculation from scratch of the captured workbook, the compiled       *)
(* workbook it returns is that workbook compiled, and no result outside    *)
(* the scope of the delta differs from the previous one.                   *)
(***************************************************************************)
THEOREM ExecuteIsFresh ==
  ASSUME LocaleDynamic = {},
         NEW s \in SessionRecord, Consistent(s), NEW mode \in Modes, NEW o \in OptionSet,
         ~Refused(s, mode, o), NEW takes \in BOOLEAN, NEW follows \in BOOLEAN
  PROVE  LET out == Execute(s.draft.book, s.compiled, s.calculation, PlanCalculation(s, mode, o), o,
                            takes, follows)
         IN  /\ out.results = FreshResults(s.draft.book, o)
             /\ out.compiled \in CompiledWorkbook
             /\ out.compiled.formulas = CompileAll(s.draft.book, o)
             /\ \A c \in Cell \ out.scope :
                  s.calculation # None /\ out.results[c] = s.calculation.results[c]
<1> DEFINE b == s.draft.book
           cw == s.compiled
           k == cw.formulas
           F == CompileAll(b, o)
           plan == PlanCalculation(s, mode, o)
           PD == PendingDirty(s, mode, o)
           k2 == Recompiled(b, cw, plan, o).formulas
           out == Execute(b, cw, s.calculation, plan, o, takes, follows)
<1>1. /\ b \in Book /\ s.dirty \in SUBSET Cell /\ s.formulaEdits \in SUBSET Cell
      /\ cw \in CompiledWorkbook \union {None} /\ s.calculation \in Calculation \union {None}
  BY DEF SessionRecord, Draft
<1>2. /\ plan \in Plan
      /\ ~plan.compileRequired =>
           /\ s.calculation # None /\ s.compiled # None /\ ~s.rebuild
           /\ plan.formulaEdits = s.formulaEdits
           /\ ChangesPending(s, o) => FollowsEdits(s.compiled)
      /\ plan.reason \in FullReasons => plan.formulaEdits = {}
      /\ plan.reason \notin FullReasons =>
           /\ ~plan.compileRequired /\ ~Structural(s, o) /\ ~OptionsChanged(s, o)
           /\ plan.dirty = PD
           /\ plan.reason = "NoDirtyFormulas" <=> PD = {}
  BY PlanFacts
<1>3. F \in [Cell -> Compiled \union {None}]
      /\ \A c \in Cell : F[c] = None <=> b.content[c] \notin Formula
  BY <1>1, CompileType
<1> HIDE DEF F, plan, PD
(* The facts about a pass that starts from the compiled workbook.          *)
<1>4. ASSUME ~plan.compileRequired
      PROVE  /\ s.calculation \in Calculation /\ cw \in CompiledWorkbook
             /\ s.calculation.options \in OptionSet
             /\ k \in [Cell -> Compiled \union {None}]
             /\ Recompiled(b, cw, plan, o) \in CompiledWorkbook
             /\ k2 \in [Cell -> Compiled \union {None}]
             /\ KeptState(b, s.calculation.options, k, s.calculation.results, s.dirty, s.formulaEdits)
             /\ F = CompileAll(b, s.calculation.options)
             /\ \A c \in Cell : k2[c] = IF c \in s.formulaEdits THEN F[c] ELSE k[c]
  <2>1. s.calculation # None /\ s.compiled # None /\ ~s.rebuild /\ plan.formulaEdits = s.formulaEdits
    BY <1>2, <1>4
  <2>2. s.calculation \in Calculation /\ cw \in CompiledWorkbook
    BY <1>1, <2>1
  <2>3. s.calculation.options \in OptionSet /\ k \in [Cell -> Compiled \union {None}]
    BY <2>2 DEF Calculation, CompiledWorkbook
  <2>4. KeptState(b, s.calculation.options, k, s.calculation.results, s.dirty, s.formulaEdits)
    BY <2>1 DEF Consistent
  <2>5. F = CompileAll(b, s.calculation.options)
    BY CompileSemantics DEF F
  <2>6. /\ Recompiled(b, cw, plan, o) \in CompiledWorkbook
        /\ \A c \in Cell : k2[c] = IF c \in s.formulaEdits THEN F[c] ELSE k[c]
    <3>1. /\ Recompiled(b, cw, plan, o) \in CompiledWorkbook
          /\ \A c \in Cell : k2[c] = IF c \in plan.formulaEdits THEN CompileAll(b, o)[c] ELSE k[c]
      <4> HIDE DEF b, cw
      <4> QED
        BY <1>1, <2>2, RecompiledType
    <3> QED
      BY <2>1, <3>1 DEF F
  <2>7. k2 \in [Cell -> Compiled \union {None}]
    BY <2>6 DEF CompiledWorkbook
  <2> QED
    BY <2>2, <2>3, <2>4, <2>5, <2>6, <2>7
(* A partial pass.                                                         *)
<1>5. ASSUME plan.reason \notin FullReasons
      PROVE  /\ ~plan.compileRequired /\ ~s.rebuild
             /\ PD \in SUBSET Cell /\ s.dirty \subseteq PD
             /\ PD # {} => ChangesPending(s, o)
             /\ \A c \in Cell \ PD : /\ k[c] = F[c]
                                     /\ Reads(k, c) \intersect PD = {}
                                     /\ s.calculation.results[c] = FullResults(F, b, o)[c]
  <2>1. ~plan.compileRequired /\ ~Structural(s, o) /\ ~OptionsChanged(s, o) /\ ~s.rebuild
        /\ s.calculation # None
    BY <1>2, <1>5
  <2>2. /\ PD \in SUBSET Cell /\ s.dirty \subseteq PD
        /\ \A c \in Cell \ PD : Reads(k, c) \intersect PD = {}
        /\ s.calculation.options.volatile # o.volatile => ReadersOf(k, VolatileReader) \subseteq PD
        /\ PD # {} => ChangesPending(s, o)
    BY <2>1, PendingDirtyClosed DEF PD
  <2>3. s.calculation.options.semantics = o.semantics
    BY <2>1 DEF OptionsChanged
  <2>4. \A c \in Cell \ PD : k[c] = F[c] /\ s.calculation.results[c] = FullResults(F, b, o)[c]
    <3>1. /\ s.calculation.options \in OptionSet /\ k \in [Cell -> Compiled \union {None}]
          /\ KeptState(b, s.calculation.options, k, s.calculation.results, s.dirty, s.formulaEdits)
      BY <1>4, <2>1, Zenon
    <3>2. MayEvaluate(s, o, PD)
      BY <1>1, <2>2, <2>3, <3>1, Zenon DEF MayEvaluate
    <3>3. \A c \in Cell \ PD : /\ k[c] = CompileAll(b, o)[c]
                               /\ s.calculation.results[c] = FullResults(CompileAll(b, o), b, o)[c]
      BY <2>2, <3>2, SessionKeeps, Zenon
    <3> QED
      BY <3>3, Zenon DEF F
  <2> QED
    BY <2>1, <2>2, <2>4
(* Nothing to evaluate.                                                    *)
<1>6. CASE ~plan.compileRequired /\ plan.reason = "NoDirtyFormulas"
  <2>1. plan.reason \notin FullReasons
    BY <1>6 DEF FullReasons
  <2>2. PD = {}
    BY <1>2, <1>6, <2>1
  <2>3. /\ out.scope = {} /\ out.compiled = cw /\ out.results = s.calculation.results
    BY <1>6 DEF Execute
  <2>4. \A c \in Cell : k[c] = F[c] /\ s.calculation.results[c] = FullResults(F, b, o)[c]
    BY <1>5, <2>1, <2>2
  <2>5. k = F
    <3>1. k \in [Cell -> Compiled \union {None}]
      BY <1>4, <1>6
    <3>2. F \in [Cell -> Compiled \union {None}]
      BY <1>3
    <3>3. \A c \in Cell : k[c] = F[c]
      BY <2>4
    <3> HIDE DEF k
    <3> QED
      BY <3>1, <3>2, <3>3
  <2>6. s.calculation.results = FullResults(F, b, o)
    <3>1. s.calculation.results \in [Cell -> Value \union {None}]
      BY <1>4, <1>6 DEF Calculation, Results
    <3> QED
      BY <2>4, <3>1, Zenon DEF FullResults
  <2> QED
    BY <1>4, <1>6, <2>3, <2>5, <2>6, <1>2 DEF FreshResults, F, plan
<1>7. ASSUME ~(~plan.compileRequired /\ plan.reason = "NoDirtyFormulas")
      PROVE  /\ ~Usable(b, cw, plan, o, takes) \/ Moved(b, cw, plan, o) =>
                  /\ out.scope = Cell /\ out.results = FreshResults(b, o)
                  /\ out.compiled = [formulas |-> F, follows |-> follows, limits |-> o.limits]
             /\ Usable(b, cw, plan, o, takes) /\ ~Moved(b, cw, plan, o) =>
                  /\ out.scope = Evaluated(plan) /\ out.compiled = Recompiled(b, cw, plan, o)
                  /\ out.results = IF plan.reason \in FullReasons THEN FullResults(k2, b, o)
                        ELSE IncrementalResults(k2, b, o, s.calculation.results, plan.dirty)
  <2> HIDE DEF b, cw, k, plan
  <2> QED
    BY <1>7, Zenon DEF Execute, F
(* A compilation and a full pass.                                          *)
<1>8. CASE /\ ~(~plan.compileRequired /\ plan.reason = "NoDirtyFormulas")
           /\ ~Usable(b, cw, plan, o, takes) \/ Moved(b, cw, plan, o)
  <2>1. [formulas |-> F, follows |-> follows, limits |-> o.limits] \in CompiledWorkbook
    BY <1>3 DEF CompiledWorkbook, OptionSet
  <2>2. /\ out.scope = Cell /\ out.results = FreshResults(b, o)
        /\ out.compiled = [formulas |-> F, follows |-> follows, limits |-> o.limits]
    BY <1>7, <1>8
  <2>3. out.compiled \in CompiledWorkbook /\ out.compiled.formulas = F
    <3> DEFINE fresh == [formulas |-> F, follows |-> follows, limits |-> o.limits]
    <3>1. fresh.formulas = F
      BY Zenon
    <3>2. out.compiled = fresh /\ fresh \in CompiledWorkbook
      BY <2>1, <2>2, Zenon
    <3> HIDE DEF out, fresh
    <3> QED
      BY <3>1, <3>2, Zenon
  <2> QED
    BY <2>2, <2>3 DEF F, plan
(* A pass from the compiled workbook.                                      *)
<1>9. CASE /\ ~(~plan.compileRequired /\ plan.reason = "NoDirtyFormulas")
           /\ Usable(b, cw, plan, o, takes) /\ ~Moved(b, cw, plan, o)
  <2>1. ~plan.compileRequired /\ plan.reason # "NoDirtyFormulas"
    BY <1>9 DEF Usable
  <2>2. s.dirty \subseteq Evaluated(plan)
    BY <1>1, <1>2, <1>5 DEF Evaluated
  <2>3. s.dirty # {} => FollowsEdits(Recompiled(b, cw, plan, o))
    <3> SUFFICES ASSUME s.dirty # {}
                 PROVE  FollowsEdits(Recompiled(b, cw, plan, o))
      OBVIOUS
    <3>1. s.pending
      BY <1>2, <2>1 DEF Consistent
    <3>2. FollowsEdits(cw)
      BY <1>2, <2>1, <3>1 DEF ChangesPending
    <3> QED
      BY <1>9, <3>2 DEF Usable, Recompiled
  <2>4. \A c \in s.dirty \intersect ReadersOf(k2, Dynamic) : Reads(F, c) = Reads(k2, c)
    <3>1. CASE s.dirty = {}
      BY <3>1
    <3>2. CASE s.dirty # {}
      <4> DEFINE cw2 == Recompiled(b, cw, plan, o)
      <4>1. FollowsEdits(cw2) /\ ~TargetsMoved(cw2.formulas, b, o, Evaluated(plan))
        BY <1>9, <2>3, <3>2 DEF Moved
      <4> HIDE DEF cw2
      <4>2. \A c \in s.dirty \intersect ReadersOf(cw2.formulas, Dynamic) :
              Reads(CompileAll(b, o), c) = Reads(cw2.formulas, c)
        BY <2>2, <4>1 DEF FollowsEdits, TargetsMoved
      <4> QED
        BY <4>2 DEF F, cw2
    <3> QED
      BY <3>1, <3>2
  <2>5. k2 = F
    BY <1>1, <1>4, <2>1, <2>4, UnmovedIsCurrent DEF F
  <2>6. out.scope = Evaluated(plan) /\ out.compiled = Recompiled(b, cw, plan, o)
    BY <1>7, <1>9
  <2>7. CASE plan.reason \in FullReasons
    <3>1. out.results = FullResults(F, b, o) /\ out.scope = Cell
      BY <1>7, <1>9, <2>5, <2>7 DEF Evaluated
    <3> QED
      BY <1>4, <2>1, <2>5, <2>6, <3>1 DEF FreshResults, F, plan
  <2>8. CASE plan.reason \notin FullReasons
    <3>1. out.results = IncrementalResults(F, b, o, s.calculation.results, PD)
      BY <1>2, <1>7, <1>9, <2>5, <2>8
    <3>2. \A c \in Cell \ PD : /\ Reads(F, c) \intersect PD = {}
                               /\ s.calculation.results[c] = FullResults(F, b, o)[c]
      BY <1>5, <2>8 DEF Reads
    <3>3. \A c \in Cell : b.content[c] \in Formula => FullResults(F, b, o)[c] # None
      BY <1>1, <1>3, FullType
    <3>4. IncrementalResults(F, b, o, s.calculation.results, PD) = FullResults(F, b, o)
      <4>1. PD \in SUBSET Cell
        BY <1>5, <2>8
      <4> HIDE DEF b
      <4> QED
        BY <1>3, <3>2, <3>3, <4>1, IncrementalIsFull
    <3>5. out.scope = PD
      BY <1>2, <2>6, <2>8 DEF Evaluated
    <3> QED
      BY <1>2, <1>4, <2>1, <2>5, <2>6, <3>1, <3>2, <3>4, <3>5 DEF FreshResults, F, plan
  <2> QED
    BY <2>7, <2>8
<1> QED
  BY <1>6, <1>8, <1>9

-----------------------------------------------------------------------------
(* The session after the staged edits st are installed.                    *)
AfterEdit(s, st) ==
  [draft |-> st.draft, compiled |-> s.compiled, calculation |-> s.calculation,
   dirty |-> st.dirty, formulaEdits |-> st.formulaEdits, pending |-> st.pending,
   rebuild |-> st.rebuild, cursor |-> s.cursor]

(* Applying a batch: types, and a revision for every change.               *)
LEMMA ApplyBatchFacts ==
  ASSUME NEW d \in Draft, NEW batch \in Batch
  PROVE  LET next == ApplyBatch(d, batch) IN
         /\ next \in Draft
         /\ \/ next.book = d.book /\ next.revision = d.revision
            \/ next.book # d.book /\ next.revision = d.revision + 1
         /\ \/ next.layout = d.layout /\ next.presentation = d.presentation
            \/ next.layout # d.layout /\ next.presentation = d.presentation + 1
<1> DEFINE content == [c \in Cell |-> Keep(batch.content[c], d.book.content[c])]
           book == [content |-> content, names |-> Keep(batch.names, d.book.names),
                    tables |-> Keep(batch.tables, d.book.tables),
                    format |-> Keep(batch.format, d.book.format)]
           layout == Keep(batch.layout, d.layout)
<1>1. batch \in EditBatch
  BY SessionAssumption
<1>2. d.book \in Book /\ d.layout \in Layouts /\ d.revision \in Nat /\ d.presentation \in Nat
  BY DEF Draft
<1>3. /\ content \in [Cell -> Content] /\ Keep(batch.names, d.book.names) \in Names
      /\ Keep(batch.tables, d.book.tables) \in Tables /\ Keep(batch.format, d.book.format) \in Formats
      /\ layout \in Layouts
  BY <1>1, <1>2 DEF EditBatch, Book, Keep
<1>4. book \in Book
  BY <1>3 DEF Book
<1>5. ApplyBatch(d, batch) =
        [book |-> book, layout |-> layout,
         revision |-> d.revision + (IF book # d.book THEN 1 ELSE 0),
         presentation |-> d.presentation + (IF layout # d.layout THEN 1 ELSE 0)]
  BY DEF ApplyBatch
<1> HIDE DEF book, layout
<1>6. layout \in Layouts
  BY <1>3 DEF layout
<1> QED
  BY <1>2, <1>4, <1>5, <1>6 DEF Draft

(***************************************************************************)
(* Staged edits leave a consistent session, and a batch that changes no    *)
(* revision changes nothing that a calculation depends on.                 *)
(***************************************************************************)
LEMMA StageIsConsistent ==
  ASSUME NEW s \in SessionRecord, Consistent(s), NEW batch \in Batch
  PROVE  LET st == StageChanges(s, batch) IN
         /\ st \in Staged
         /\ Consistent(AfterEdit(s, st))
         /\ st.draft = ApplyBatch(s.draft, batch)
         /\ st.draft.revision = s.draft.revision =>
              /\ st.draft.book = s.draft.book
              /\ st.rebuild = s.rebuild /\ st.dirty = s.dirty
              /\ st.formulaEdits = s.formulaEdits /\ st.pending = s.pending
<1> DEFINE st == StageChanges(s, batch)
           b == s.draft.book
           b2 == ApplyBatch(s.draft, batch).book
           k == s.compiled.formulas
           local == CompilesInPlace(s, b2)
           X == ChangedCells(b, b2) \union ChangedTableReaders(s, b2)
           R == IF local THEN EditedFormulas(s, b2) ELSE {}
           P == ChangedFormatReaders(s, b2)
           keeps == ~TopologyOrMetadata(b, b2) \/ local
           D2 == s.dirty \union Affected(k, X) \union R \union Dependents(k, P)
<1>1. /\ s.draft \in Draft /\ b \in Book /\ s.draft.revision \in Nat
      /\ s.compiled \in CompiledWorkbook \union {None}
      /\ s.calculation \in Calculation \union {None} /\ s.dirty \in SUBSET Cell
      /\ s.formulaEdits \in SUBSET Cell /\ s.pending \in BOOLEAN /\ s.rebuild \in BOOLEAN
  BY DEF SessionRecord, Draft
<1>2. /\ ApplyBatch(s.draft, batch) \in Draft
      /\ \/ b2 = b /\ ApplyBatch(s.draft, batch).revision = s.draft.revision
         \/ b2 # b /\ ApplyBatch(s.draft, batch).revision = s.draft.revision + 1
  BY <1>1, ApplyBatchFacts
<1>3. b2 \in Book
  BY <1>2 DEF Draft
<1>4. /\ st.draft = ApplyBatch(s.draft, batch)
      /\ st.rebuild = (s.rebuild \/ ~keeps)
      /\ st.dirty = IF keeps /\ s.compiled # None THEN D2 ELSE s.dirty
      /\ st.formulaEdits = IF s.rebuild \/ ~keeps THEN {} ELSE s.formulaEdits \union R
      /\ st.pending = (s.pending \/ X # {} \/ R # {} \/ P # {})
      /\ st = [draft |-> st.draft, rebuild |-> st.rebuild, dirty |-> st.dirty,
               formulaEdits |-> st.formulaEdits, pending |-> st.pending]
  BY DEF StageChanges
<1>5. /\ ChangedCells(b, b2) \subseteq Cell /\ FormulaEditCells(b, b2) \subseteq ChangedCells(b, b2)
      /\ ChangedTableReaders(s, b2) \subseteq Cell /\ P \subseteq Cell
  BY DEF ChangedCells, FormulaEditCells, ChangedTableReaders, ChangedFormatReaders, ReadersOf
<1>6. X \in SUBSET Cell /\ R \in SUBSET X
  BY <1>5 DEF EditedFormulas
<1>7. Affected(k, X) \subseteq Cell /\ Dependents(k, P) \subseteq Cell
  BY DEF Affected, Dependents
<1>8. keeps \in BOOLEAN /\ D2 \subseteq Cell
  BY <1>1, <1>6, <1>7
<1>9. st \in Staged
  <2> HIDE DEF st, D2, keeps, X, R, P
  <2> QED
    BY <1>1, <1>2, <1>4, <1>5, <1>6, <1>8 DEF Staged, P, X, R
(* A batch without effect on the workbook.                                 *)
<1>10. ASSUME b2 = b
       PROVE  /\ st.rebuild = s.rebuild /\ st.dirty = s.dirty
              /\ st.formulaEdits = s.formulaEdits /\ st.pending = s.pending
  <2>1. ChangedCells(b, b2) = {} /\ FormulaEditCells(b, b2) = {}
    BY <1>10 DEF ChangedCells, FormulaEditCells
  <2>2. ChangedTableReaders(s, b2) = {} /\ P = {} /\ ~TablesChanged(b, b2)
    BY <1>10 DEF ChangedTableReaders, ChangedFormatReaders, TablesChanged
  <2>3. X = {} /\ R = {} /\ keeps
    BY <1>10, <2>1, <2>2 DEF EditedFormulas, TopologyOrMetadata
  <2>4. Affected(k, {}) = {} /\ Dependents(k, {}) = {}
    <3>1. {c \in FormulaCells(k) : c \in {} \/ Reads(k, c) \intersect {} # {}} = {}
      OBVIOUS
    <3>2. Dependents(k, {}) = {}
      BY DEF Dependents
    <3> QED
      BY <3>1, <3>2 DEF Affected
  <2> HIDE DEF X, R, P, keeps, st, D2
  <2>5. D2 = s.dirty
    BY <2>2, <2>3, <2>4 DEF D2
  <2> QED
    BY <1>1, <1>4, <2>2, <2>3, <2>5 DEF Consistent
(* What is kept stays right.                                               *)
<1>11. ASSUME ~st.rebuild
       PROVE  KeptState(b2, s.calculation.options, k, s.calculation.results, D2, s.formulaEdits \union R)
  <2>1. ~s.rebuild /\ keeps
    BY <1>4, <1>11
  <2>2. s.calculation \in Calculation /\ s.compiled \in CompiledWorkbook
    BY <1>1, <2>1 DEF Consistent
  <2>3. s.calculation.options \in OptionSet /\ k \in [Cell -> Compiled \union {None}]
    BY <2>2 DEF Calculation, CompiledWorkbook
  <2>4. KeptState(b, s.calculation.options, k, s.calculation.results, s.dirty, s.formulaEdits)
    BY <2>1 DEF Consistent
  <2>5. \A c \in Cell \ X : b2.content[c] = b.content[c]
    BY DEF ChangedCells
  <2>6. \A c \in Cell \ R : (b.content[c] \in Formula \/ b2.content[c] \in Formula)
                              => b2.content[c] = b.content[c]
    BY <2>1 DEF TopologyOrMetadata, EditedFormulas, FormulaEditCells, ChangedCells
  <2>7. b2.names = b.names
    BY <2>1 DEF TopologyOrMetadata, CompilesInPlace, EditsAreLocal
  <2>8. b2.tables # b.tables => b2.names \notin TableNames /\ ReadersOf(k, TableReader) \subseteq R
    <3> SUFFICES ASSUME b2.tables # b.tables
                 PROVE  b2.names \notin TableNames /\ ReadersOf(k, TableReader) \subseteq R
      OBVIOUS
    <3>1. TablesChanged(b, b2) /\ local
      BY <2>1 DEF TopologyOrMetadata, TablesChanged
    <3>2. EditsAreLocal(s, b2)
      BY <3>1 DEF CompilesInPlace
    <3> QED
      BY <3>1, <3>2 DEF EditsAreLocal, EditedFormulas, ChangedTableReaders
  <2>9. b2.format # b.format => ReadersOf(k, FormatReader) \subseteq P
    BY <2>1 DEF ChangedFormatReaders, Consistent
  <2> HIDE DEF b, b2, k, X, R, P
  <2> QED
    BY <1>1, <1>3, <1>5, <1>6, <2>3, <2>4, <2>5, <2>6, <2>7, <2>8, <2>9, LocalEditKeeps
<1> DEFINE s2 == AfterEdit(s, st)
<1>12. /\ s2.draft = ApplyBatch(s.draft, batch) /\ s2.compiled = s.compiled
       /\ s2.calculation = s.calculation /\ s2.dirty = st.dirty /\ s2.formulaEdits = st.formulaEdits
       /\ s2.pending = st.pending /\ s2.rebuild = st.rebuild
  BY <1>4 DEF AfterEdit
<1> HIDE DEF s2, st, keeps, X, R, P, D2, k, b, b2
<1>13. s2.draft.book = b2
  BY <1>12 DEF b2
<1>14. ~s2.rebuild => KeptState(s2.draft.book, s2.calculation.options, s2.compiled.formulas,
                               s2.calculation.results, s2.dirty, s2.formulaEdits)
  <2> SUFFICES ASSUME ~st.rebuild
               PROVE  KeptState(b2, s.calculation.options, k, s.calculation.results, st.dirty, st.formulaEdits)
    BY <1>12, <1>13 DEF k
  <2>1. ~s.rebuild /\ keeps /\ s.compiled # None
    BY <1>4 DEF Consistent
  <2>2. st.dirty = D2 /\ st.formulaEdits = s.formulaEdits \union R
    BY <1>4, <2>1
  <2> QED
    BY <1>11, <2>2
<1>15. ~s2.rebuild /\ ~s2.pending => s2.dirty = {}
  <2> SUFFICES ASSUME ~st.rebuild, ~st.pending
               PROVE  st.dirty = {}
    BY <1>12
  <2>1. s.dirty = {} /\ X = {} /\ R = {} /\ P = {}
    BY <1>4 DEF Consistent
  <2>2. Affected(k, {}) = {} /\ Dependents(k, {}) = {}
    <3>1. Dependents(k, {}) = {}
      BY DEF Dependents
    <3> QED
      BY <3>1 DEF Affected
  <2> QED
    BY <1>4, <2>1, <2>2 DEF D2
<1>16. s2.calculation # None =>
         /\ s2.calculation.revision <= s2.draft.revision
         /\ s2.calculation.revision = s2.draft.revision => ~s2.rebuild /\ s2.dirty = {}
  <2> SUFFICES ASSUME s.calculation # None
               PROVE  /\ s.calculation.revision <= s2.draft.revision
                      /\ s.calculation.revision = s2.draft.revision => ~st.rebuild /\ st.dirty = {}
    BY <1>12
  <2>1. s.calculation.revision \in Nat /\ s.calculation.revision <= s.draft.revision
    BY <1>1 DEF Calculation, Consistent
  <2>2. CASE b2 = b
    BY <1>2, <1>10, <1>12, <2>1, <2>2 DEF b, b2, Consistent
  <2>3. CASE b2 # b
    BY <1>1, <1>2, <1>12, <2>1, <2>3 DEF b, b2
  <2> QED
    BY <2>2, <2>3
<1>17. /\ s2.calculation = None <=> s2.compiled = None
       /\ s2.calculation = None => s2.rebuild
       /\ s2.rebuild => s2.formulaEdits = {}
  BY <1>4, <1>12 DEF Consistent
<1>18. Consistent(s2)
  BY <1>14, <1>15, <1>16, <1>17 DEF Consistent
<1>19. st.draft.revision = s.draft.revision => b2 = b
  BY <1>1, <1>2, <1>4 DEF b, b2
<1> QED
  BY <1>4, <1>9, <1>10, <1>18, <1>19 DEF st, s2, b, b2
=============================================================================
