---------------------------- MODULE ClientProofs ----------------------------
(***************************************************************************)
(* What the clients of a session get beyond edits and calculations:        *)
(* answers to requests for values, and the deltas they follow.  As for the *)
(* session, for every set of cells, formulas, batches and jobs in flight,  *)
(* provided that no reference depends on the options (LocaleDynamic = {}). *)
(***************************************************************************)
EXTENDS CalculationSessionProofs, DeltaClient, TargetRequests, FiniteSetTheorems,
        WellFoundedInduction

(* A set of naturals has a least element, and one within bounds a greatest. *)
LEMMA LeastNatural ==
  ASSUME NEW S, S \subseteq Nat, S # {}
  PROVE  \E x \in S : \A y \in S : x <= y
<1> DEFINE R == OpToRel(<, Nat)
<1>1. IsWellFoundedOn(R, Nat)
  BY NatLessThanWellFounded, Zenon
<1>2. \A x, y \in Nat : y < x => <<y, x>> \in R
  BY Zenon DEF OpToRel
<1> HIDE DEF R
<1>3. PICK x \in S : \A y \in S : ~ (<<y, x>> \in R)
  BY <1>1, WFMin
<1>4. \A y \in S : ~ (y < x)
  BY <1>2, <1>3
<1>5. \A y \in S : x \in Nat /\ y \in Nat
  OBVIOUS
<1>6. \A y \in S : x <= y
  BY <1>4, <1>5
<1> QED
  BY <1>6

(* A nonempty set of positions of a sequence has a greatest member.        *)
LEMMA GreatestNatural ==
  ASSUME NEW n \in Nat, NEW S, S \subseteq 1 .. n, S # {}
  PROVE  \E x \in S : \A y \in S : y <= x
<1> DEFINE T == {n - s : s \in S}
<1>1. T \subseteq Nat
  OBVIOUS
<1>2. T # {}
  OBVIOUS
<1>3. PICK t \in T : \A y \in T : t <= y
  BY <1>1, <1>2, LeastNatural
<1>4. PICK x \in S : t = n - x
  BY <1>3
<1>5. ASSUME NEW y \in S
      PROVE  y <= x
  <2>1. n - y \in T
    OBVIOUS
  <2> QED
    BY <1>3, <1>4, <2>1
<1> QED
  BY <1>5

(* The place a page takes its delta from is the last of those it names.    *)
LEMMA LastPlaceFacts ==
  ASSUME NEW n \in Nat, NEW S, S \subseteq 1 .. n, S # {}
  PROVE  LastPlace(S) \in S /\ \A k \in S : k <= LastPlace(S)
  BY GreatestNatural DEF LastPlace

-----------------------------------------------------------------------------
(* Requests for values.                                                    *)

(* An installed calculation captured for reuse is that of the captured     *)
(* draft.                                                                  *)
TargetInv ==
  /\ SessionInvariant
  /\ asked # NotAsked /\ asked.previous # None =>
       asked.previous = FreshResults(asked.draft.book, asked.options)

(* Every step of the session or of a request for values keeps the captured *)
(* state and the answers current.                                          *)
LEMMA TargetStep ==
  ASSUME LocaleDynamic = {}, TargetInv, [(Next /\ UNCHANGED asked) \/ TargetNext]_<<vars, asked>>
  PROVE  TargetInv'
<1>1. CASE [Next]_vars /\ UNCHANGED asked
  BY <1>1, NextInvariant DEF TargetInv
<1>2. ASSUME NEW o \in Options, PrepareTargets(o)
      PROVE  TargetInv'
  <2>1. SessionInvariant'
    BY <1>2, NextInvariant DEF PrepareTargets, TargetInv
  <2>2. CurrentCalculationIsFresh
    BY InvariantIsFresh DEF TargetInv
  <2>3. /\ asked'.previous = IF Reused(o) THEN calculation.results ELSE None
        /\ asked'.draft = draft /\ asked'.options = o
    BY <1>2 DEF PrepareTargets
  <2> QED
    BY <2>1, <2>2, <2>3 DEF TargetInv, Reused, CurrentCalculationIsFresh
<1>3. CASE FinishTargets \/ DropTargets
  <2>1. asked' = NotAsked /\ UNCHANGED vars
    BY <1>3 DEF FinishTargets, DropTargets
  <2>2. SessionInvariant'
    BY <2>1, NextInvariant DEF TargetInv
  <2> QED
    BY <2>1, <2>2 DEF TargetInv
<1> QED
  BY <1>1, <1>2, <1>3 DEF TargetNext

(***************************************************************************)
(* A request for values is answered with those of the workbook the session *)
(* holds at that moment (prepare_target_calculation, finish_target_        *)
(* calculation).                                                           *)
(***************************************************************************)
THEOREM TargetAnswersAreCurrent ==
  ASSUME LocaleDynamic = {}
  PROVE  TargetSpec => []AnswersAreCurrent
<1>1. Init /\ TargetInit => TargetInv
  BY InitInvariant DEF TargetInit, TargetInv
<1>2. TargetInv /\ [(Next /\ UNCHANGED asked) \/ TargetNext]_<<vars, asked>> => TargetInv'
  BY TargetStep
<1>3. TargetInv => AnswersAreCurrent
  BY DEF TargetInv, AnswersAreCurrent, TargetsCurrent, TargetValues
<1> QED
  BY <1>1, <1>2, <1>3, PTL DEF TargetSpec

-----------------------------------------------------------------------------
(* Followers of the deltas.                                                *)

(* The last retained delta that names a cell holds its installed result.   *)
LastNamingIsInstalled ==
  \A c \in Cell : \A i \in 1 .. Len(history) :
    /\ NamesCell(history[i], c)
    /\ \A k \in 1 .. Len(history) : k > i => ~NamesCell(history[k], c)
    => history[i].delta.changed[c] = calculation.results[c]

(* The client's cursor has not expired.                                    *)
Retained == ~client.lost /\ client.cursor >= history[1].cursor - 1

(* No delta after the client's cursor names c.                             *)
Caught(c) ==
  \A i \in 1 .. Len(history) : history[i].cursor > client.cursor => ~NamesCell(history[i], c)

(***************************************************************************)
(* The inductive invariant of a session with a follower: its copy is right *)
(* about every cell that no delta after its cursor names, as long as none  *)
(* of those was dropped.                                                   *)
(***************************************************************************)
FollowInv ==
  /\ SessionInvariant
  /\ HistoryInv
  /\ client \in [cursor : Nat, view : Results, lost : BOOLEAN]
  /\ client.cursor < nextCursor
  /\ calculation = None => client.cursor = 0 /\ client.view = NoResults
  /\ LastNamingIsInstalled
  /\ calculation # None /\ Retained =>
       \A c \in Cell : Caught(c) => client.view[c] = calculation.results[c]

(* A delta over all cells names the cells with another result, and only    *)
(* those, and says what it is.                                             *)
LEMMA DeltaNames ==
  ASSUME NEW previous, NEW calc, calc.results \in Results, NEW c \in Cell,
         NEW e, e.delta.changed = Delta(previous, calc, Cell).changed,
         e.delta.removed = Delta(previous, calc, Cell).removed
  PROVE  /\ NamesCell(e, c) => e.delta.changed[c] = calc.results[c]
         /\ ~NamesCell(e, c) =>
              calc.results[c] = IF previous = None THEN None ELSE previous.results[c]
<1> DEFINE d == e.delta
           old == IF previous = None THEN None ELSE previous.results[c]
<1>1. /\ d.changed[c] = IF calc.results[c] # old THEN calc.results[c] ELSE None
      /\ c \in d.removed <=> calc.results[c] = None /\ old # None
  BY DEF Delta
<1> QED
  BY <1>1 DEF NamesCell

(* The copy after an installed calculation.                                *)
LEMMA InstalledStep ==
  ASSUME FollowInv, UNCHANGED client, SessionInvariant', HistoryInv',
         NEW d, Appends(d), d.delta.changed = Delta(calculation, calculation', Cell).changed,
         d.delta.removed = Delta(calculation, calculation', Cell).removed
  PROVE  FollowInv'
<1> DEFINE drop == IF Len(history) = MaxRetained THEN 1 ELSE 0
           n == Len(history)
           m == Len(history')
<1>1. TypeOK /\ TypeOK' /\ HistoryInv /\ HistoryIsContiguous /\ HistoryIsContiguous'
  BY DEF FollowInv, SessionInvariant, HistoryInv
<1>2. /\ m = n + 1 - drop
      /\ \A i \in 1 .. m : history'[i] = IF i = m THEN d ELSE history[i + drop]
      /\ n \in Nat /\ m > 0
  BY <1>1, AppendElements
<1>3. calculation' \in Calculation /\ calculation' # None /\ d.cursor = nextCursor
      /\ nextCursor' = nextCursor + 1
  BY <1>1 DEF Appends, TypeOK
<1>4. calculation'.results \in Results
  BY <1>3 DEF Calculation
<1>5. ASSUME NEW c \in Cell
      PROVE  /\ NamesCell(d, c) => d.delta.changed[c] = calculation'.results[c]
             /\ ~NamesCell(d, c) =>
                  calculation'.results[c] = IF calculation = None THEN None ELSE calculation.results[c]
  BY <1>4, DeltaNames
<1>6. n > 0 => calculation # None
  BY <1>1, <1>2 DEF HistoryInv
<1>7. client \in [cursor : Nat, view : Results, lost : BOOLEAN] /\ client.cursor < nextCursor
      /\ nextCursor \in Nat
  BY <1>1 DEF FollowInv, TypeOK
<1>8. LastNamingIsInstalled'
  <2> SUFFICES ASSUME NEW c \in Cell, NEW i \in 1 .. m, NamesCell(history'[i], c),
                      \A k \in 1 .. m : k > i => ~NamesCell(history'[k], c)
               PROVE  history'[i].delta.changed[c] = calculation'.results[c]
    BY DEF LastNamingIsInstalled, NamesCell
  <2>1. CASE i = m
    BY <1>2, <1>5, <2>1
  <2>2. CASE i < m
    <3>1. history'[m] = d /\ ~NamesCell(d, c)
      BY <1>2, <2>2
    <3>2. i + drop \in 1 .. n /\ history'[i] = history[i + drop]
      BY <1>2, <2>2
    <3>3. ASSUME NEW k \in 1 .. n, k > i + drop
          PROVE  ~NamesCell(history[k], c)
      <4>1. k - drop \in 1 .. m /\ k - drop # m /\ k - drop > i /\ (k - drop) + drop = k
        BY <1>2, <3>2, <3>3
      <4>2. history'[k - drop] = history[k]
        BY <1>2, <4>1
      <4> QED
        BY <4>1, <4>2
    <3>4. history[i + drop].delta.changed[c] = calculation.results[c]
      BY <3>2, <3>3 DEF FollowInv, LastNamingIsInstalled
    <3>5. calculation # None
      BY <1>2, <1>6, <3>2
    <3> QED
      BY <1>5, <3>1, <3>2, <3>4, <3>5
  <2> QED
    BY <1>2, <2>1, <2>2
<1>9. ASSUME Retained', NEW c \in Cell, Caught(c)'
      PROVE  client'.view[c] = calculation'.results[c]
  <2>1. history'[m] = d /\ ~NamesCell(d, c)
    BY <1>2, <1>3, <1>7, <1>9 DEF Caught, NamesCell
  <2>2. calculation'.results[c] = IF calculation = None THEN None ELSE calculation.results[c]
    BY <1>5, <2>1
  <2>3. CASE calculation = None
    BY <2>2, <2>3 DEF FollowInv, NoResults
  <2>4. CASE calculation # None
    <3>1. n > 0
      BY <1>1, <2>4 DEF HistoryIsContiguous
    <3>2. history[1].cursor = nextCursor - n /\ history'[1].cursor = nextCursor' - m
      BY <1>1, <1>2, <1>3, <1>7, <3>1 DEF HistoryIsContiguous
    <3>3. Retained
      BY <1>2, <1>3, <1>7, <1>9, <3>2 DEF Retained
    <3>4. ASSUME NEW k \in 1 .. n, history[k].cursor > client.cursor
          PROVE  ~NamesCell(history[k], c)
      <4>1. history[k].cursor = nextCursor - n + k - 1
        BY <1>1 DEF HistoryIsContiguous
      <4>2. k - drop > 0
        BY <1>2, <1>3, <1>7, <1>9, <3>2, <3>4, <4>1 DEF Retained
      <4>3. k - drop \in 1 .. m /\ k - drop # m /\ (k - drop) + drop = k
        BY <1>2, <4>2
      <4>4. history'[k - drop] = history[k]
        BY <1>2, <4>3
      <4> QED
        BY <1>9, <3>4, <4>3, <4>4 DEF Caught, NamesCell
    <3>5. client.view[c] = calculation.results[c]
      BY <2>4, <3>3, <3>4 DEF FollowInv, Caught
    <3> QED
      BY <2>2, <2>4, <3>5
  <2> QED
    BY <2>3, <2>4
<1> QED
  BY <1>3, <1>7, <1>8, <1>9 DEF FollowInv

(* The copy after a page.                                                  *)
LEMMA FollowStep ==
  ASSUME FollowInv, SessionInvariant', NEW limit \in Nat, Follow(limit)
  PROVE  FollowInv'
<1> DEFINE n == Len(history)
           available == {i \in 1 .. n : history[i].cursor > client.cursor}
           page == DeltaPage(client.cursor, limit)
           top == LastPlace(page)
<1>1. /\ TypeOK /\ HistoryIsContiguous /\ client \in [cursor : Nat, view : Results, lost : BOOLEAN]
      /\ client.cursor < nextCursor /\ LastNamingIsInstalled
  BY DEF FollowInv, SessionInvariant, HistoryInv
<1>2. /\ n \in Nat /\ nextCursor \in Nat /\ ~client.lost
      /\ history \in Seq([cursor : Nat, delta : DeltaRecord])
  BY <1>1 DEF TypeOK, Follow
<1>3. UNCHANGED <<calculation, nextCursor, history>>
  BY DEF Follow, vars, session
<1>9. \A i \in 1 .. n : history[i] \in [cursor : Nat, delta : DeltaRecord]
  <2> DEFINE S == [cursor : Nat, delta : DeltaRecord]
  <2>1. history \in Seq(S)
    BY <1>2
  <2> HIDE DEF S
  <2>2. \A i \in 1 .. n : history[i] \in S
    BY <2>1, ElementOfSeq
  <2> QED
    BY <2>2 DEF S
<1>4. LastNamingIsInstalled' /\ HistoryInv'
  BY <1>3 DEF FollowInv, LastNamingIsInstalled, NamesCell, HistoryInv, HistoryIsContiguous
<1>5. ASSUME NEW i \in page
      PROVE  i \in available /\ \A k \in available : k < i => k \in page
  <2>1. i \in available /\ Cardinality({k \in available : k < i}) < limit
    BY DEF DeltaPage
  <2>2. ASSUME NEW k \in available, k < i
        PROVE  k \in page
    <3> DEFINE A == {x \in available : x < i}
               B == {x \in available : x < k}
    <3>1. IsFiniteSet(1 .. n)
      BY <1>2, FS_Interval
    <3>2. A \subseteq 1 .. n /\ B \subseteq A
      BY <1>2, <2>1, <2>2
    <3> HIDE DEF A, B
    <3>3. IsFiniteSet(A)
      BY <3>1, <3>2, FS_Subset
    <3>4. IsFiniteSet(B) /\ Cardinality(B) <= Cardinality(A)
      BY <3>2, <3>3, FS_Subset
    <3>5. Cardinality(A) \in Nat /\ Cardinality(B) \in Nat
      BY <3>3, <3>4, FS_CardinalityType
    <3>6. Cardinality(A) < limit
      BY <2>1 DEF A
    <3>7. Cardinality(B) < limit
      BY <3>4, <3>5, <3>6
    <3> QED
      BY <3>7 DEF B, DeltaPage
  <2> QED
    BY <2>1, <2>2
<1>6. CASE client' = client
  BY <1>1, <1>3, <1>4, <1>6 DEF FollowInv, Retained, Caught, NamesCell
<1>7. CASE client' = [client EXCEPT !.lost = TRUE]
  <2>1. /\ client' \in [cursor : Nat, view : Results, lost : BOOLEAN] /\ client'.lost
        /\ client'.cursor = client.cursor /\ client'.view = client.view
    BY <1>1, <1>7
  <2> QED
    BY <1>1, <1>3, <1>4, <2>1 DEF FollowInv, Retained
<1>8. CASE /\ ~Expired(client.cursor)
           /\ client.cursor = 0 => \E i \in page : history[i].cursor = 1
           /\ page # {}
           /\ client' = [client EXCEPT !.cursor = history[top].cursor,
                                       !.view = ApplyPage(client.view, page)]
  <2> HIDE DEF page, top
  <2>1. page \subseteq 1 .. n
    BY <1>5
  <2>2. top \in page /\ \A k \in page : k <= top
    BY <1>2, <1>8, <2>1, LastPlaceFacts DEF top
  <2>3. \A i \in 1 .. n : history[i].cursor = nextCursor - n + i - 1
    BY <1>1 DEF HistoryIsContiguous
  <2>4. n > 0 /\ history # <<>>
    BY <1>2, <2>1, <2>2
  <2>5. calculation # None
    BY <2>4 DEF FollowInv, HistoryInv
  <2>12. client.cursor \in Nat
    BY <1>1
  <2>13. history[1].cursor = nextCursor - n /\ history[1].cursor \in Int
    BY <1>2, <2>3, <2>4
  <2>14. \A i, k \in 1 .. n : i < k => history[i].cursor < history[k].cursor
    BY <1>2, <2>3
  <2>15. \A i \in 1 .. n : history[i].cursor \in Nat /\ history[i].cursor < nextCursor
    <3>1. \A i \in 1 .. n : history[i].cursor \in Nat
      BY <1>9
    <3> QED
      BY <1>2, <2>3, <3>1
  <2>6. client.cursor >= history[1].cursor - 1
    <3>1. CASE client.cursor = 0
      <4>1. PICK i \in page : history[i].cursor = 1
        BY <1>8, <3>1
      <4>2. i \in 1 .. n /\ nextCursor - n + i - 1 = 1
        BY <2>1, <2>3, <4>1
      <4> QED
        BY <1>2, <2>13, <3>1, <4>2
    <3>2. CASE client.cursor # 0
      <4>1. ~ (client.cursor < history[1].cursor - 1)
        BY <1>8, <2>4, <3>2 DEF Expired
      <4> QED
        BY <2>12, <2>13, <4>1
    <3> QED
      BY <3>1, <3>2
  <2>7. \A c \in Cell : Caught(c) => client.view[c] = calculation.results[c]
    BY <1>2, <2>5, <2>6 DEF FollowInv, Retained
  <2>8. ASSUME NEW c \in Cell
        PROVE  LET named == {i \in page : NamesCell(history[i], c)} IN
               ApplyPage(client.view, page)[c] =
                 IF named = {} THEN client.view[c] ELSE history[LastPlace(named)].delta.changed[c]
    BY DEF ApplyPage
  <2>9. ApplyPage(client.view, page) \in Results
    <3>1. ASSUME NEW c \in Cell
          PROVE  ApplyPage(client.view, page)[c] \in Value \union {None}
      <4> DEFINE named == {i \in page : NamesCell(history[i], c)}
      <4>1. CASE named = {}
        BY <1>1, <2>8, <4>1 DEF Results
      <4>2. CASE named # {}
        <5> DEFINE i == LastPlace(named)
        <5>1. i \in 1 .. n
          BY <1>2, <2>1, <4>2, LastPlaceFacts
        <5>2. ApplyPage(client.view, page)[c] = history[i].delta.changed[c]
          BY <2>8, <4>2
        <5> HIDE DEF i
        <5>3. history[i].delta \in DeltaRecord
          BY <1>9, <5>1
        <5>4. history[i].delta.changed \in Results
          BY <5>3 DEF DeltaRecord
        <5> QED
          BY <5>2, <5>4 DEF Results
      <4> QED
        BY <4>1, <4>2
    <3>2. ApplyPage(client.view, page) = [c \in Cell |-> ApplyPage(client.view, page)[c]]
      BY DEF ApplyPage
    <3> HIDE DEF page
    <3> QED
      BY <3>1, <3>2 DEF Results
  <2>10. /\ client' \in [cursor : Nat, view : Results, lost : BOOLEAN]
         /\ client'.cursor = history[top].cursor /\ client'.cursor < nextCursor
         /\ client'.view = ApplyPage(client.view, page)
    <3>1. history[top].cursor \in Nat /\ history[top].cursor < nextCursor
      BY <2>1, <2>2, <2>15
    <3> DEFINE view == ApplyPage(client.view, page)
               to == history[top].cursor
    <3>2. view \in Results /\ client' = [client EXCEPT !.cursor = to, !.view = view]
      BY <1>8, <2>9
    <3> HIDE DEF view, to
    <3>3. client' \in [cursor : Nat, view : Results, lost : BOOLEAN] /\ client'.cursor = to
          /\ client'.view = view
      BY <1>1, <3>1, <3>2 DEF to
    <3> QED
      BY <3>1, <3>3 DEF view, to
  <2>11. ASSUME NEW c \in Cell, Caught(c)'
         PROVE  client'.view[c] = calculation.results[c]
    <3> DEFINE named == {i \in page : NamesCell(history[i], c)}
    <3>1. ASSUME NEW k \in 1 .. n, k > top
          PROVE  ~NamesCell(history[k], c)
      <4>1. history[k].cursor > client'.cursor
        BY <2>1, <2>2, <2>10, <2>14, <2>15, <3>1
      <4> QED
        BY <1>3, <2>11, <4>1 DEF Caught, NamesCell
    <3>2. CASE named = {}
      <4>1. ASSUME NEW k \in 1 .. n, history[k].cursor > client.cursor
            PROVE  ~NamesCell(history[k], c)
        <5>1. CASE k > top
          BY <3>1, <5>1
        <5>2. CASE k <= top
          <6>1. k \in page
            BY <1>5, <2>1, <2>2, <4>1, <5>2
          <6> QED
            BY <3>2, <6>1
        <5> QED
          BY <2>1, <2>2, <5>1, <5>2
      <4>2. client.view[c] = calculation.results[c]
        BY <2>7, <4>1 DEF Caught
      <4> QED
        BY <2>8, <2>10, <3>2, <4>2
    <3>3. CASE named # {}
      <4> DEFINE i == LastPlace(named)
      <4>1. i \in named /\ \A k \in named : k <= i
        BY <1>2, <2>1, <3>3, LastPlaceFacts
      <4>2. i \in 1 .. n /\ NamesCell(history[i], c) /\ i \in page
        BY <2>1, <4>1
      <4>3. client'.view[c] = history[i].delta.changed[c]
        BY <2>8, <2>10, <3>3
      <4> HIDE DEF i
      <4>4. ASSUME NEW k \in 1 .. n, k > i
            PROVE  ~NamesCell(history[k], c)
        <5>1. CASE k > top
          BY <3>1, <5>1
        <5>2. CASE k <= top /\ NamesCell(history[k], c)
          <6>1. history[k].cursor > client.cursor
            <7>1. history[i].cursor > client.cursor
              BY <1>5, <4>2
            <7> QED
              BY <2>12, <2>14, <2>15, <4>2, <4>4, <7>1
          <6>2. k \in page
            BY <1>5, <2>1, <2>2, <5>2, <6>1
          <6>3. k \in named
            BY <5>2, <6>2
          <6> QED
            BY <4>1, <4>2, <4>4, <6>3
        <5> QED
          BY <2>1, <2>2, <5>1, <5>2
      <4> QED
        BY <1>1, <4>2, <4>3, <4>4 DEF LastNamingIsInstalled
    <3> QED
      BY <3>2, <3>3
  <2> QED
    BY <1>3, <1>4, <2>5, <2>10, <2>11 DEF FollowInv
<1> QED
  BY <1>6, <1>7, <1>8 DEF Follow

(* The copy after any step of the session.                                 *)
LEMMA FollowSession ==
  ASSUME LocaleDynamic = {}, FollowInv, [Next]_vars, UNCHANGED client
  PROVE  FollowInv'
<1>1. ASSUME [Next]_vars
      PROVE  SessionInvariant' /\ HistoryInv'
  BY <1>1, NextInvariant, HistoryStep DEF FollowInv
<1>2. CASE UNCHANGED <<calculation, nextCursor, history>>
  BY <1>1, <1>2 DEF FollowInv, LastNamingIsInstalled, Retained, Caught, NamesCell
<1>3. ASSUME NEW j \in Job, InstallCalculation(j)
      PROVE  FollowInv'
  <2> DEFINE d == [cursor |-> nextCursor, delta |-> jobs[j].delta]
  <2>1. SessionInvariant' /\ HistoryInv'
    BY <1>1, <1>3 DEF Next
  <2>2. jobs[j].delta = Delta(calculation, jobs[j].calculation, Cell)
    BY <1>3, InstallCalculationStep DEF FollowInv
  <2>3. Appends(d)
    BY <1>3, InstallAppends DEF FollowInv
  <2>4. d.delta = Delta(calculation, calculation', Cell)
    BY <1>3, <2>2 DEF InstallCalculation
  <2> HIDE DEF d
  <2> QED
    BY <1>3, <2>1, <2>3, <2>4, InstalledStep
<1>4. ASSUME NEW j \in Job,
             \/ \E batch \in Batch : PrepareChanges(j, batch)
             \/ InstallChanges(j) \/ RejectChanges(j)
             \/ \E mode \in Modes, o \in Options : PrepareCalculation(j, mode, o)
             \/ RunCalculation(j) \/ Cancel(j) \/ RejectCalculation(j)
      PROVE  UNCHANGED <<calculation, nextCursor, history>>
  BY <1>4 DEF PrepareChanges, InstallChanges, RejectChanges, PrepareCalculation,
              RunCalculation, Cancel, RejectCalculation, session
<1>5. CASE UNCHANGED vars
  BY <1>2, <1>5 DEF vars, session
<1> QED
  BY <1>2, <1>3, <1>4, <1>5 DEF Next

(* The copy after a request for a page.                                    *)
LEMMA FollowPage ==
  ASSUME FollowInv, SessionInvariant', NEW limit \in 1 .. MaxDeltaPage, Follow(limit)
  PROVE  FollowInv'
<1>1. limit \in Nat
  BY PageAssumption
<1> QED
  BY <1>1, FollowStep

(* Every step of a followed session keeps the session invariant, the history *)
(* contiguous and the follower caught up with the cursor it holds.         *)
LEMMA ClientStep ==
  ASSUME LocaleDynamic = {}, FollowInv, [ClientNext]_clientVars
  PROVE  FollowInv'
<1>1. CASE Next /\ UNCHANGED client
  BY <1>1, FollowSession
<1>2. ASSUME NEW limit \in 1 .. MaxDeltaPage, Follow(limit)
      PROVE  FollowInv'
  <2>1. SessionInvariant'
    BY <1>2, NextInvariant DEF Follow, FollowInv
  <2> QED
    BY <1>2, <2>1, FollowPage
<1>3. CASE UNCHANGED clientVars
  BY <1>3, FollowSession DEF clientVars
<1> QED
  BY <1>1, <1>2, <1>3 DEF ClientNext

(* At the beginning, and what the invariant says of a client that has read *)
(* the last delta.                                                         *)
LEMMA FollowStart == ClientInit => FollowInv
<1> SUFFICES ASSUME ClientInit
             PROVE  FollowInv
  OBVIOUS
<1>1. SessionInvariant /\ HistoryInv
  BY InitInvariant, HistoryStart DEF ClientInit
<1>2. /\ calculation = None /\ nextCursor = 1 /\ history = <<>>
      /\ client = [cursor |-> 0, view |-> NoResults, lost |-> FALSE]
  BY DEF ClientInit, Init
<1>3. NoResults \in Results
  BY DEF NoResults, Results
<1>4. /\ client \in [cursor : Nat, view : Results, lost : BOOLEAN]
      /\ client.cursor = 0 /\ client.view = NoResults
  BY <1>2, <1>3
<1>5. Len(history) = 0
  BY <1>2
<1>6. LastNamingIsInstalled
  BY <1>5 DEF LastNamingIsInstalled
<1> QED
  BY <1>1, <1>2, <1>4, <1>6 DEF FollowInv

(* A follower at the end of the retained history holds the live results.   *)
LEMMA FollowEnd == FollowInv => FollowerMissesNothing
<1> SUFFICES ASSUME FollowInv, ~client.lost, client.cursor = nextCursor - 1, calculation # None
             PROVE  client.view = calculation.results
  BY DEF FollowerMissesNothing
<1>1. TypeOK /\ HistoryIsContiguous /\ client \in [cursor : Nat, view : Results, lost : BOOLEAN]
  BY DEF FollowInv, SessionInvariant, HistoryInv
<1>2. nextCursor \in Nat /\ Len(history) \in Nat /\ Len(history) > 0
      /\ calculation.results \in Results /\ client.view \in Results
  BY <1>1 DEF TypeOK, HistoryIsContiguous, Calculation
<1>3. \A i \in 1 .. Len(history) :
        history[i].cursor = nextCursor - Len(history) + i - 1 /\ history[i].cursor <= client.cursor
  BY <1>1, <1>2 DEF HistoryIsContiguous
<1>4. Retained
  BY <1>2, <1>3 DEF Retained
<1>5. \A c \in Cell : Caught(c)
  BY <1>2, <1>3 DEF Caught
<1>6. \A c \in Cell : client.view[c] = calculation.results[c]
  BY <1>4, <1>5 DEF FollowInv
<1> QED
  BY <1>2, <1>6 DEF Results

(***************************************************************************)
(* A client that follows the deltas at any pace learns that its cursor     *)
(* expired or has the installed results once it has read the last delta    *)
(* (changes_since).                                                        *)
(***************************************************************************)
THEOREM FollowersMissNothing ==
  ASSUME LocaleDynamic = {}
  PROVE  ClientSpec => []FollowerMissesNothing
<1>1. FollowInv /\ [ClientNext]_clientVars => FollowInv'
  BY ClientStep
<1> QED
  BY <1>1, FollowStart, FollowEnd, PTL DEF ClientSpec
=============================================================================
