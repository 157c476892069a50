---------------------- MODULE CalculationSessionProofs ----------------------
(***************************************************************************)
(* The inductive invariant of CalculationSession, that every step of every *)
(* job preserves it, and what follows from it: the session is correct for  *)
(* every set of cells, formulas, batches and concurrent jobs, provided that *)
(* no reference depends on the options (LocaleDynamic = {}).               *)
(***************************************************************************)
EXTENDS SessionPlanProofs, SequenceTheorems

(* What holds of a staged batch: if nothing was installed since, it is     *)
(* what would be staged now.                                               *)
EditJobOK(job) ==
  /\ job.baseRevision <= draft.revision
  /\ job.basePresentation <= draft.presentation
  /\ job.baseCursor <= nextCursor
  /\ ChangesCurrent(job) => job.staged = StageChanges(Live, job.batch)

(* What a run of the captured calculation can only complete with.          *)
RunsFresh(job, out) ==
  /\ out.results = FreshResults(job.book, job.options)
  /\ out.compiled \in CompiledWorkbook
  /\ out.compiled.formulas = CompileAll(job.book, job.options)
  /\ \A c \in Cell \ out.scope : job.previous # None /\ out.results[c] = job.previous.results[c]

CalculationJobOK(job) ==
  /\ job.revision <= draft.revision
  /\ job.cursor <= nextCursor
  /\ job.revision = draft.revision /\ job.cursor = nextCursor =>
       job.book = draft.book /\ job.previous = calculation
  /\ \A takes, follows \in BOOLEAN :
       RunsFresh(job, Execute(job.book, job.compiled, job.previous, job.plan, job.options,
                              takes, follows))

DoneJobOK(job) ==
  /\ job.calculation.options \in Options
  /\ job.calculation.revision <= draft.revision
  /\ job.cursor <= nextCursor
  /\ job.calculation.revision = draft.revision /\ job.cursor = nextCursor =>
       /\ job.calculation.source = draft.book
       /\ job.delta = Delta(calculation, job.calculation, Cell)
  /\ job.calculation.results = FreshResults(job.calculation.source, job.calculation.options)
  /\ job.compiled.formulas = CompileAll(job.calculation.source, job.calculation.options)

JobOK(job) ==
  /\ job.kind = "edit" => EditJobOK(job)
  /\ job.kind = "calc" => CalculationJobOK(job)
  /\ job.kind = "done" => DoneJobOK(job)

(* The inductive invariant.                                                *)
SessionInvariant ==
  /\ TypeOK
  /\ Consistent(Live)
  /\ \A j \in Job : JobOK(jobs[j])

(* The live session is a session record.                                   *)
LEMMA LiveType ==
  ASSUME TypeOK
  PROVE  /\ Live \in SessionRecord
         /\ Live.draft = draft /\ Live.compiled = compiled /\ Live.calculation = calculation
         /\ Live.dirty = dirty /\ Live.formulaEdits = formulaEdits /\ Live.pending = pending
         /\ Live.rebuild = rebuild /\ Live.cursor = nextCursor
  BY DEF TypeOK, Live, SessionRecord

(* The kind of a job tells its type.                                       *)
LEMMA JobKinds ==
  ASSUME TypeOK, NEW j \in Job
  PROVE  /\ jobs[j].kind = "edit" => jobs[j] \in EditJob
         /\ jobs[j].kind = "calc" => jobs[j] \in CalculationJob
         /\ jobs[j].kind = "done" => jobs[j] \in DoneJob
<1>1. jobs[j] \in {Idle} \union EditJob \union CalculationJob \union DoneJob
  BY DEF TypeOK
<1>2. CASE jobs[j] = Idle
  BY <1>2 DEF Idle
<1>3. CASE jobs[j] \in EditJob
  BY <1>3 DEF EditJob
<1>4. CASE jobs[j] \in CalculationJob
  BY <1>4 DEF CalculationJob
<1>5. CASE jobs[j] \in DoneJob
  BY <1>5 DEF DoneJob
<1> QED
  BY <1>1, <1>2, <1>3, <1>4, <1>5

(* A new session satisfies the invariant (with_limits).                    *)
LEMMA InitInvariant ==
  ASSUME Init
  PROVE  SessionInvariant
<1>1. draft \in Draft
  BY SessionAssumption DEF Init, Draft
<1>2. TypeOK
  <2>1. history \in Seq([cursor : Nat, delta : DeltaRecord])
    BY DEF Init
  <2>2. jobs \in [Job -> {Idle} \union EditJob \union CalculationJob \union DoneJob]
    BY DEF Init
  <2>3. /\ compiled \in CompiledWorkbook \union {None} /\ calculation \in Calculation \union {None}
        /\ dirty \subseteq Cell /\ formulaEdits \subseteq Cell
    BY DEF Init
  <2>4. pending \in BOOLEAN /\ rebuild \in BOOLEAN
    BY DEF Init
  <2>5. nextCursor \in Nat \ {0}
    BY DEF Init
  <2> QED
    BY <1>1, <2>1, <2>2, <2>3, <2>4, <2>5 DEF TypeOK
<1>3. Consistent(Live)
  BY DEF Init, Live, Consistent
<1>4. \A j \in Job : JobOK(jobs[j])
  BY DEF Init, JobOK, Idle
<1> QED
  BY <1>2, <1>3, <1>4 DEF SessionInvariant

(* A step that changes one job and leaves the session alone.               *)
LEMMA JobStep ==
  ASSUME SessionInvariant, UNCHANGED session, NEW j \in Job, NEW job,
         jobs' = [jobs EXCEPT ![j] = job],
         job \in {Idle} \union EditJob \union CalculationJob \union DoneJob,
         JobOK(job)
  PROVE  SessionInvariant'
<1>1. TypeOK'
  BY DEF SessionInvariant, TypeOK, session
<1>2. Live' = Live /\ draft' = draft /\ nextCursor' = nextCursor /\ calculation' = calculation
  BY DEF session, Live
<1>3. Consistent(Live)'
  BY <1>2 DEF SessionInvariant
<1>4. ASSUME NEW i \in Job
      PROVE  JobOK(jobs[i])'
  <2>1. jobs'[i] = jobs[i] \/ jobs'[i] = job
    BY DEF SessionInvariant, TypeOK
  <2>2. JobOK(jobs[i]) /\ JobOK(job)
    BY DEF SessionInvariant
  <2> QED
    BY <1>2, <2>1, <2>2 DEF JobOK, EditJobOK, CalculationJobOK, DoneJobOK, ChangesCurrent
<1> QED
  BY <1>1, <1>3, <1>4 DEF SessionInvariant

(* Preparing a batch preserves the invariant: it only fills a job.         *)
LEMMA PrepareChangesStep ==
  ASSUME SessionInvariant, NEW j \in Job, NEW batch \in Batch, PrepareChanges(j, batch)
  PROVE  SessionInvariant'
<1> DEFINE staged == StageChanges(Live, batch)
           job == [kind |-> "edit", batch |-> batch, baseRevision |-> draft.revision,
                   basePresentation |-> draft.presentation, baseCursor |-> nextCursor,
                   staged |-> staged]
<1>1. staged \in Staged
  BY LiveType, StageIsConsistent DEF SessionInvariant
<1>2. draft.revision \in Nat /\ draft.presentation \in Nat /\ nextCursor \in Nat
  BY DEF SessionInvariant, TypeOK, Draft
<1>3. jobs' = [jobs EXCEPT ![j] = job] /\ UNCHANGED session
  BY DEF PrepareChanges
<1> HIDE DEF staged
<1>4. job \in EditJob
  BY <1>1, <1>2 DEF EditJob
<1>5. JobOK(job)
  BY <1>2 DEF JobOK, EditJobOK, staged
<1> HIDE DEF job
<1> QED
  BY <1>3, <1>4, <1>5, JobStep

(* So does dropping a job, whatever it holds.                              *)
LEMMA DropJobStep ==
  ASSUME SessionInvariant, NEW j \in Job, UNCHANGED session, jobs' = [jobs EXCEPT ![j] = Idle]
  PROVE  SessionInvariant'
<1>1. JobOK(Idle)
  BY DEF JobOK, Idle
<1> QED
  BY <1>1, JobStep

(* install_changes preserves the invariant and applies the batch to the draft of now. *)
LEMMA InstallChangesStep ==
  ASSUME SessionInvariant, NEW j \in Job, InstallChanges(j)
  PROVE  /\ SessionInvariant'
         /\ draft' = ApplyBatch(draft, jobs[j].batch) /\ jobs[j].batch \in Batch
         /\ jobs[j].staged = StageChanges(Live, jobs[j].batch)
<1> DEFINE job == jobs[j]
           batch == job.batch
           st == StageChanges(Live, batch)
<1>1. TypeOK /\ Consistent(Live) /\ JobOK(job)
  BY DEF SessionInvariant
<1>2. job \in EditJob /\ job.staged = st /\ batch \in Batch
  BY <1>1, JobKinds DEF InstallChanges, JobOK, EditJobOK, EditJob
<1>3. /\ Live \in SessionRecord
      /\ Live.draft = draft /\ Live.compiled = compiled /\ Live.calculation = calculation
      /\ Live.dirty = dirty /\ Live.formulaEdits = formulaEdits /\ Live.pending = pending
      /\ Live.rebuild = rebuild /\ Live.cursor = nextCursor
  BY <1>1, LiveType
<1>4. /\ st \in Staged /\ Consistent(AfterEdit(Live, st)) /\ st.draft = ApplyBatch(draft, batch)
      /\ st.draft.revision = draft.revision =>
           /\ st.draft.book = draft.book /\ st.rebuild = rebuild /\ st.dirty = dirty
           /\ st.formulaEdits = formulaEdits /\ st.pending = pending
  BY <1>1, <1>2, <1>3, StageIsConsistent
<1>5. draft \in Draft
  BY <1>1 DEF TypeOK
<1>6. /\ ApplyBatch(draft, batch) \in Draft
      /\ \/ ApplyBatch(draft, batch).book = draft.book
            /\ ApplyBatch(draft, batch).revision = draft.revision
         \/ ApplyBatch(draft, batch).book # draft.book
            /\ ApplyBatch(draft, batch).revision = draft.revision + 1
      /\ \/ ApplyBatch(draft, batch).layout = draft.layout
            /\ ApplyBatch(draft, batch).presentation = draft.presentation
         \/ ApplyBatch(draft, batch).layout # draft.layout
            /\ ApplyBatch(draft, batch).presentation = draft.presentation + 1
  BY <1>2, <1>5, ApplyBatchFacts
<1>7. /\ draft' = st.draft /\ dirty' = st.dirty /\ formulaEdits' = st.formulaEdits
      /\ pending' = st.pending /\ rebuild' = st.rebuild
      /\ jobs' = [jobs EXCEPT ![j] = Idle]
      /\ compiled' = compiled /\ calculation' = calculation /\ nextCursor' = nextCursor
      /\ history' = history
  BY <1>2 DEF InstallChanges
<1>8. Live' = AfterEdit(Live, st)
  BY <1>3, <1>7 DEF Live, AfterEdit
<1> HIDE DEF st, job, batch
<1>9. Consistent(Live)'
  BY <1>4, <1>8
<1>10. TypeOK'
  <2>1. /\ st.draft \in Draft /\ st.dirty \subseteq Cell /\ st.formulaEdits \subseteq Cell
        /\ st.pending \in BOOLEAN /\ st.rebuild \in BOOLEAN
    BY <1>4 DEF Staged
  <2>2. jobs' \in [Job -> {Idle} \union EditJob \union CalculationJob \union DoneJob]
    BY <1>1, <1>7 DEF TypeOK
  <2> QED
    BY <1>1, <1>7, <2>1, <2>2 DEF TypeOK
<1>11. /\ draft.revision \in Nat /\ draft.presentation \in Nat
       /\ draft'.revision \in Nat /\ draft'.presentation \in Nat
       /\ draft.revision <= draft'.revision /\ draft.presentation <= draft'.presentation
       /\ draft'.revision = draft.revision => draft'.book = draft.book
       /\ draft'.revision = draft.revision /\ draft'.presentation = draft.presentation => draft' = draft
  <2>1. draft' = ApplyBatch(draft, batch)
    BY <1>4, <1>7
  <2> QED
    BY <1>5, <1>6, <2>1 DEF Draft
<1>12. draft'.revision = draft.revision /\ draft'.presentation = draft.presentation => Live' = Live
  BY <1>4, <1>7, <1>11 DEF Live
<1>13. ASSUME NEW i \in Job
       PROVE  JobOK(jobs[i])'
  <2>1. CASE jobs'[i] = Idle
    BY <2>1 DEF JobOK, Idle
  <2>2. CASE jobs'[i] = jobs[i]
    <3>1. JobOK(jobs[i])
      BY DEF SessionInvariant
    <3>2. ASSUME jobs[i].kind = "edit"
          PROVE  EditJobOK(jobs[i])'
      <4>1. EditJobOK(jobs[i]) /\ jobs[i] \in EditJob
        BY <1>1, <3>1, <3>2, JobKinds DEF JobOK
      <4>2. jobs[i].baseRevision \in Nat /\ jobs[i].basePresentation \in Nat
        BY <4>1 DEF EditJob
      <4>3. ChangesCurrent(jobs[i])' =>
              ChangesCurrent(jobs[i]) /\ draft'.revision = draft.revision
              /\ draft'.presentation = draft.presentation
        BY <1>7, <1>11, <2>2, <4>1, <4>2 DEF EditJobOK, ChangesCurrent
      <4>4. /\ jobs[i].baseRevision <= draft'.revision
            /\ jobs[i].basePresentation <= draft'.presentation
        BY <1>11, <4>1, <4>2 DEF EditJobOK
      <4>5. jobs[i].baseCursor <= nextCursor'
        BY <1>7, <4>1 DEF EditJobOK
      <4>6. ChangesCurrent(jobs[i])' => jobs[i].staged = StageChanges(Live', jobs[i].batch)
        BY <1>12, <4>1, <4>3 DEF EditJobOK
      <4> QED
        BY <2>2, <4>4, <4>5, <4>6 DEF EditJobOK
    <3>3. ASSUME jobs[i].kind = "calc"
          PROVE  CalculationJobOK(jobs[i])'
      <4>1. CalculationJobOK(jobs[i]) /\ jobs[i].revision \in Nat
        BY <1>1, <3>1, <3>3, JobKinds DEF JobOK, CalculationJob
      <4> QED
        BY <1>7, <1>11, <2>2, <4>1 DEF CalculationJobOK
    <3>4. ASSUME jobs[i].kind = "done"
          PROVE  DoneJobOK(jobs[i])'
      <4>1. DoneJobOK(jobs[i]) /\ jobs[i].calculation.revision \in Nat
        BY <1>1, <3>1, <3>4, JobKinds DEF JobOK, DoneJob, Calculation
      <4> QED
        BY <1>7, <1>11, <2>2, <4>1 DEF DoneJobOK
    <3> QED
      BY <2>2, <3>2, <3>3, <3>4 DEF JobOK
  <2> QED
    BY <1>1, <1>7, <2>1, <2>2 DEF TypeOK
<1> QED
  BY <1>2, <1>4, <1>7, <1>9, <1>10, <1>13 DEF SessionInvariant, job, batch, st

(* prepare_recalculation preserves the invariant: what it captures is consistent. *)
LEMMA PrepareCalculationStep ==
  ASSUME LocaleDynamic = {}, SessionInvariant, NEW j \in Job, NEW mode \in Modes,
         NEW o \in Options, PrepareCalculation(j, mode, o)
  PROVE  SessionInvariant'
<1> DEFINE plan == PlanCalculation(Live, mode, o)
           job == [kind |-> "calc", cancelled |-> FALSE, book |-> draft.book,
                   revision |-> draft.revision, cursor |-> nextCursor, compiled |-> compiled,
                   previous |-> calculation, options |-> o, plan |-> plan]
<1>1. o \in OptionSet
  BY SessionAssumption
<1>2. /\ Live \in SessionRecord /\ Consistent(Live) /\ ~Refused(Live, mode, o)
      /\ Live.draft = draft /\ Live.compiled = compiled /\ Live.calculation = calculation
  BY LiveType DEF SessionInvariant, PrepareCalculation
<1>3. plan \in Plan
  BY <1>1, <1>2, PlanFacts
<1>4. /\ draft.book \in Book /\ draft.revision \in Nat /\ nextCursor \in Nat
      /\ compiled \in CompiledWorkbook \union {None} /\ calculation \in Calculation \union {None}
  BY DEF SessionInvariant, TypeOK, Draft
<1>5. jobs' = [jobs EXCEPT ![j] = job] /\ UNCHANGED session
  BY DEF PrepareCalculation
<1> HIDE DEF plan
<1>6. job \in CalculationJob
  BY <1>3, <1>4 DEF CalculationJob
<1>7. ASSUME NEW takes \in BOOLEAN, NEW follows \in BOOLEAN
      PROVE  RunsFresh(job, Execute(draft.book, compiled, calculation, plan, o, takes, follows))
  <2> DEFINE out == Execute(draft.book, compiled, calculation, plan, o, takes, follows)
             run == Execute(Live.draft.book, Live.compiled, Live.calculation,
                            PlanCalculation(Live, mode, o), o, takes, follows)
  <2>1. /\ run.results = FreshResults(Live.draft.book, o)
        /\ run.compiled \in CompiledWorkbook
        /\ run.compiled.formulas = CompileAll(Live.draft.book, o)
        /\ \A c \in Cell \ run.scope :
             Live.calculation # None /\ run.results[c] = Live.calculation.results[c]
    BY <1>1, <1>2, ExecuteIsFresh
  <2>2. out = run
    BY <1>2 DEF plan
  <2> HIDE DEF out, run
  <2>3. /\ out.results = FreshResults(draft.book, o)
        /\ out.compiled \in CompiledWorkbook
        /\ out.compiled.formulas = CompileAll(draft.book, o)
        /\ \A c \in Cell \ out.scope : calculation # None /\ out.results[c] = calculation.results[c]
    BY <1>2, <2>1, <2>2
  <2> QED
    BY <2>3 DEF RunsFresh, out
<1>8. /\ job.kind = "calc" /\ job.book = draft.book /\ job.revision = draft.revision
      /\ job.cursor = nextCursor /\ job.compiled = compiled /\ job.previous = calculation
      /\ job.options = o /\ job.plan = plan
  OBVIOUS
<1> HIDE DEF job
<1>9. CalculationJobOK(job)
  <2>1. job.revision <= draft.revision /\ job.cursor <= nextCursor
    BY <1>4, <1>8
  <2>2. job.book = draft.book /\ job.previous = calculation
    BY <1>8
  <2>3. ASSUME NEW takes \in BOOLEAN, NEW follows \in BOOLEAN
        PROVE  RunsFresh(job, Execute(job.book, job.compiled, job.previous, job.plan, job.options,
                                      takes, follows))
    BY <1>7, <1>8
  <2> QED
    BY <2>1, <2>2, <2>3 DEF CalculationJobOK
<1>10. JobOK(job)
  BY <1>8, <1>9 DEF JobOK
<1> QED
  BY <1>5, <1>6, <1>10, JobStep

(* A delta over the cells whose result may differ is the exact delta.      *)
LEMMA ScopedDelta ==
  ASSUME NEW previous \in Calculation \union {None}, NEW calc \in Calculation, NEW scope,
         \A c \in Cell \ scope : previous # None /\ calc.results[c] = previous.results[c]
  PROVE  /\ Delta(previous, calc, scope \intersect Cell) \in DeltaRecord
         /\ Delta(previous, calc, scope \intersect Cell) = Delta(previous, calc, Cell)
<1> DEFINE old(c) == IF previous = None THEN None ELSE previous.results[c]
           changed(S) == [c \in Cell |-> IF c \in S /\ calc.results[c] # old(c)
                                         THEN calc.results[c] ELSE None]
           removed(S) == {c \in S : calc.results[c] = None /\ old(c) # None}
           base == IF previous = None THEN calc.revision ELSE previous.revision
           S0 == scope \intersect Cell
<1>1. \A S : Delta(previous, calc, S) = [base |-> base, result |-> calc.revision,
                                         changed |-> changed(S), removed |-> removed(S)]
  BY DEF Delta
<1>2. \A c \in Cell \ scope : calc.results[c] = old(c)
  OBVIOUS
<1>3. calc.results \in [Cell -> Value \union {None}] /\ calc.revision \in Nat /\ base \in Nat
  BY DEF Calculation, Results
<1> HIDE DEF old, base
<1>4. changed(S0) = changed(Cell) /\ changed(S0) \in Results
  BY <1>2, <1>3 DEF Results
<1>5. removed(S0) = removed(Cell) /\ removed(S0) \subseteq Cell
  BY <1>2
<1> HIDE DEF changed, removed
<1>6. /\ Delta(previous, calc, S0) = [base |-> base, result |-> calc.revision,
                                      changed |-> changed(S0), removed |-> removed(S0)]
      /\ Delta(previous, calc, Cell) = [base |-> base, result |-> calc.revision,
                                        changed |-> changed(Cell), removed |-> removed(Cell)]
  BY <1>1
<1> HIDE DEF S0
<1>7. Delta(previous, calc, S0) \in DeltaRecord
  BY <1>3, <1>4, <1>5, <1>6 DEF DeltaRecord
<1> QED
  BY <1>4, <1>5, <1>6, <1>7 DEF S0

(* A finished run holds the results of a calculation from scratch and an exact delta. *)
LEMMA RunCalculationStep ==
  ASSUME SessionInvariant, NEW j \in Job, RunCalculation(j)
  PROVE  SessionInvariant'
<1>1. PICK takes \in TakesEdits(jobs[j].plan), follows \in GraphFollows(jobs[j].book) :
        LET job   == jobs[j]
            out   == Execute(job.book, job.compiled, job.previous, job.plan, job.options,
                             takes, follows)
            calc  == [source |-> job.book, revision |-> job.revision, options |-> job.options,
                      results |-> out.results]
            delta == Delta(job.previous, calc, out.scope)
        IN  jobs' = [jobs EXCEPT ![j] =
              IF job.cancelled \/ out.failed \/ DeltaSize(delta) > MaxDeltaCells THEN Idle
              ELSE [kind |-> "done", cancelled |-> FALSE, cursor |-> job.cursor,
                    compiled |-> out.compiled, calculation |-> calc, delta |-> delta]]
  BY DEF RunCalculation
<1> DEFINE job   == jobs[j]
           out   == Execute(job.book, job.compiled, job.previous, job.plan, job.options,
                            takes, follows)
           calc  == [source |-> job.book, revision |-> job.revision, options |-> job.options,
                     results |-> out.results]
           delta == Delta(job.previous, calc, out.scope)
           done  == [kind |-> "done", cancelled |-> FALSE, cursor |-> job.cursor,
                     compiled |-> out.compiled, calculation |-> calc, delta |-> delta]
<1>2. takes \in BOOLEAN /\ follows \in BOOLEAN
  BY DEF TakesEdits, GraphFollows
<1>3. UNCHANGED session /\ job.kind = "calc"
  BY DEF RunCalculation
<1>4. job \in CalculationJob /\ CalculationJobOK(job)
  BY <1>3, JobKinds DEF SessionInvariant, JobOK
<1>5. RunsFresh(job, out)
  BY <1>2, <1>4 DEF CalculationJobOK
<1>6. jobs' = [jobs EXCEPT ![j] = Idle] \/ jobs' = [jobs EXCEPT ![j] = done]
  BY <1>1
<1>7. /\ job.book \in Book /\ job.revision \in Nat /\ job.options \in Options /\ job.cursor \in Nat
      /\ job.previous \in Calculation \union {None}
  BY <1>4 DEF CalculationJob
<1>8. job.options \in OptionSet
  BY <1>7, SessionAssumption
<1>9. CompileAll(job.book, job.options) \in [Cell -> Compiled \union {None}]
  BY <1>7, <1>8, CompileType
<1>10. FreshResults(job.book, job.options) \in Results
  BY <1>7, <1>8, <1>9, FullType DEF FreshResults
<1>11. /\ out.results = FreshResults(job.book, job.options) /\ out.compiled \in CompiledWorkbook
       /\ out.compiled.formulas = CompileAll(job.book, job.options)
       /\ \A c \in Cell \ out.scope : job.previous # None /\ out.results[c] = job.previous.results[c]
  BY <1>5 DEF RunsFresh
<1>12. out.scope \subseteq Cell
  <2>1. job.plan.dirty \subseteq Cell
    BY <1>4 DEF CalculationJob, Plan
  <2> QED
    BY <2>1 DEF Execute, Evaluated
<1> HIDE DEF out, job
<1>13. calc \in Calculation
  BY <1>7, <1>8, <1>10, <1>11 DEF Calculation
<1>14. delta \in DeltaRecord /\ delta = Delta(job.previous, calc, Cell)
  <2>1. \A c \in Cell \ out.scope : job.previous # None /\ calc.results[c] = job.previous.results[c]
    BY <1>11
  <2>2. out.scope \intersect Cell = out.scope
    BY <1>12
  <2> HIDE DEF calc
  <2> QED
    BY <1>7, <1>13, <2>1, <2>2, ScopedDelta
<1>15. done \in DoneJob
  <2> HIDE DEF delta, calc
  <2> QED
    BY <1>7, <1>11, <1>13, <1>14 DEF DoneJob
<1>16. JobOK(done)
  <2>1. /\ done.calculation = calc /\ done.compiled = out.compiled /\ done.cursor = job.cursor
        /\ done.delta = delta /\ done.kind = "done"
    OBVIOUS
  <2>2. /\ calc.source = job.book /\ calc.revision = job.revision /\ calc.options = job.options
        /\ calc.results = out.results
    OBVIOUS
  <2> HIDE DEF done, calc, delta
  <2>3. DoneJobOK(done)
    BY <1>4, <1>7, <1>11, <1>14, <2>1, <2>2 DEF DoneJobOK, CalculationJobOK
  <2> QED
    BY <2>1, <2>3 DEF JobOK
<1>17. CASE jobs' = [jobs EXCEPT ![j] = Idle]
  BY <1>3, <1>17, DropJobStep
<1>18. CASE jobs' = [jobs EXCEPT ![j] = done]
  <2> HIDE DEF done
  <2> QED
    BY <1>3, <1>15, <1>16, <1>18, JobStep
<1> QED
  BY <1>6, <1>17, <1>18

(* Cancelling a token changes no result.                                   *)
LEMMA CancelStep ==
  ASSUME SessionInvariant, NEW j \in Job, Cancel(j)
  PROVE  SessionInvariant'
<1> DEFINE job == [jobs[j] EXCEPT !.cancelled = TRUE]
<1>1. jobs[j].kind \in {"calc", "done"} /\ UNCHANGED session
  BY DEF Cancel
<1>2. jobs[j] \in CalculationJob \union DoneJob /\ JobOK(jobs[j])
  BY <1>1, JobKinds DEF SessionInvariant
<1>3. jobs' = [jobs EXCEPT ![j] = job]
  BY DEF Cancel
<1>4. CASE jobs[j] \in CalculationJob
  <2>1. job \in CalculationJob
    BY <1>4 DEF CalculationJob
  <2>2. /\ job.kind = "calc" /\ jobs[j].kind = "calc" /\ job.revision = jobs[j].revision
        /\ job.cursor = jobs[j].cursor /\ job.book = jobs[j].book
        /\ job.previous = jobs[j].previous /\ job.compiled = jobs[j].compiled
        /\ job.plan = jobs[j].plan /\ job.options = jobs[j].options
    BY <1>4 DEF CalculationJob
  <2> HIDE DEF job
  <2>3. JobOK(job)
    <3>1. CalculationJobOK(jobs[j])
      BY <1>2, <2>2 DEF JobOK
    <3>2. \A out : RunsFresh(jobs[j], out) => RunsFresh(job, out)
      BY <2>2 DEF RunsFresh
    <3>3. CalculationJobOK(job)
      BY <2>2, <3>1, <3>2 DEF CalculationJobOK
    <3> QED
      BY <2>2, <3>3 DEF JobOK
  <2> QED
    BY <1>1, <1>3, <2>1, <2>3, JobStep
<1>5. CASE jobs[j] \in DoneJob
  <2>1. job \in DoneJob
    BY <1>5 DEF DoneJob
  <2>2. /\ job.kind = "done" /\ jobs[j].kind = "done" /\ job.calculation = jobs[j].calculation
        /\ job.cursor = jobs[j].cursor /\ job.compiled = jobs[j].compiled
        /\ job.delta = jobs[j].delta
    BY <1>5 DEF DoneJob
  <2> HIDE DEF job
  <2>3. JobOK(job)
    BY <1>2, <2>2 DEF JobOK, DoneJobOK
  <2> QED
    BY <1>1, <1>3, <2>1, <2>3, JobStep
<1> QED
  BY <1>2, <1>4, <1>5

(* Retaining keeps a sequence of the same elements.                        *)
LEMMA RetainType ==
  ASSUME NEW S, NEW deltas \in Seq(S), NEW delta \in S, NEW max \in Nat \ {0}
  PROVE  Retain(deltas, delta, max) \in Seq(S)
<1>1. Append(deltas, delta) \in Seq(S) /\ Append(deltas, delta) # <<>>
  BY AppendProperties
<1>2. Tail(Append(deltas, delta)) \in Seq(S)
  BY <1>1
<1> QED
  BY <1>1, <1>2 DEF Retain

(* install preserves the invariant and installs the fresh results of the draft of now. *)
LEMMA InstallCalculationStep ==
  ASSUME SessionInvariant, NEW j \in Job, InstallCalculation(j)
  PROVE  /\ SessionInvariant'
         /\ jobs[j].calculation.options \in Options
         /\ jobs[j].calculation = [source |-> draft.book, revision |-> draft.revision,
              options |-> jobs[j].calculation.options,
              results |-> FreshResults(draft.book, jobs[j].calculation.options)]
         /\ jobs[j].delta = Delta(calculation, jobs[j].calculation, Cell)
<1> DEFINE job == jobs[j]
           calc == job.calculation
<1>1. TypeOK /\ Consistent(Live) /\ JobOK(job)
  BY DEF SessionInvariant
<1>2. job \in DoneJob /\ DoneJobOK(job)
  BY <1>1, JobKinds DEF InstallCalculation, JobOK
<1>3. calc.revision = draft.revision /\ job.cursor = nextCursor
  BY DEF InstallCalculation, CalculationCurrent
<1>4. /\ calc.options \in Options /\ calc.source = draft.book
      /\ job.delta = Delta(calculation, calc, Cell)
      /\ calc.results = FreshResults(draft.book, calc.options)
      /\ job.compiled.formulas = CompileAll(draft.book, calc.options)
  BY <1>2, <1>3 DEF DoneJobOK
<1>5. calc \in Calculation /\ job.compiled \in CompiledWorkbook /\ job.delta \in DeltaRecord
  BY <1>2 DEF DoneJob
<1>6. calc = [source |-> draft.book, revision |-> draft.revision, options |-> calc.options,
              results |-> FreshResults(draft.book, calc.options)]
  BY <1>3, <1>4, <1>5 DEF Calculation
<1>7. /\ compiled' = job.compiled /\ calculation' = calc /\ dirty' = {} /\ formulaEdits' = {}
      /\ nextCursor' = nextCursor + 1 /\ draft' = draft
      /\ history' = Retain(history, [cursor |-> nextCursor, delta |-> job.delta], MaxRetained)
      /\ jobs' = [jobs EXCEPT ![j] = Idle]
  BY DEF InstallCalculation
<1>8. pending' = FALSE /\ rebuild' = FALSE
  BY DEF InstallCalculation
<1> HIDE DEF job
<1>9. draft \in Draft /\ nextCursor \in Nat \ {0}
  BY <1>1 DEF TypeOK
<1>10. TypeOK'
  <2>1. history' \in Seq([cursor : Nat, delta : DeltaRecord])
    <3> DEFINE S == [cursor : Nat, delta : DeltaRecord]
               d == [cursor |-> nextCursor, delta |-> job.delta]
    <3>1. history \in Seq(S) /\ MaxRetained \in Nat \ {0}
      BY <1>1, SessionAssumption DEF TypeOK
    <3>2. d \in S
      BY <1>5, <1>9
    <3> HIDE DEF S, d
    <3>3. Retain(history, d, MaxRetained) \in Seq(S)
      BY <3>1, <3>2, RetainType
    <3> QED
      BY <1>7, <3>3 DEF S, d
  <2>2. jobs' \in [Job -> {Idle} \union EditJob \union CalculationJob \union DoneJob]
    BY <1>1, <1>7 DEF TypeOK
  <2>3. pending' \in BOOLEAN /\ rebuild' \in BOOLEAN
    BY <1>8
  <2>4. nextCursor' \in Nat \ {0}
    BY <1>7, <1>9
  <2>5. /\ compiled' \in CompiledWorkbook \union {None} /\ calculation' \in Calculation \union {None}
        /\ dirty' \subseteq Cell /\ formulaEdits' \subseteq Cell /\ draft' \in Draft
    BY <1>5, <1>7, <1>9
  <2> QED
    BY <2>1, <2>2, <2>3, <2>4, <2>5 DEF TypeOK
<1>11. Consistent(Live)'
  <2>1. /\ Live'.draft = draft /\ Live'.compiled = job.compiled /\ Live'.calculation = calc
        /\ Live'.dirty = {} /\ Live'.formulaEdits = {}
        /\ Live'.pending = FALSE /\ Live'.rebuild = FALSE
    BY <1>7, <1>8 DEF Live
  <2>2. calc # None /\ job.compiled # None /\ calc.revision \in Nat
    BY <1>5, WorkbookAssumption DEF Calculation
  <2>3. KeptState(draft.book, calc.options, job.compiled.formulas, calc.results, {}, {})
    BY <1>4 DEF KeptState, FreshResults
  <2> HIDE DEF Live, calc
  <2>4. Consistent(Live')
    BY <1>3, <2>1, <2>2, <2>3 DEF Consistent
  <2> QED
    BY <2>4
<1>12. ASSUME NEW i \in Job
       PROVE  JobOK(jobs[i])'
  <2>1. CASE jobs'[i] = Idle
    BY <2>1 DEF JobOK, Idle
  <2>2. CASE jobs'[i] = jobs[i]
    <3>1. JobOK(jobs[i])
      BY DEF SessionInvariant
    <3>2. ASSUME jobs[i].kind = "edit"
          PROVE  EditJobOK(jobs[i])'
      <4>1. EditJobOK(jobs[i]) /\ jobs[i].baseCursor \in Nat
        BY <1>1, <3>1, <3>2, JobKinds DEF JobOK, EditJob
      <4> QED
        BY <1>7, <1>9, <2>2, <4>1 DEF EditJobOK, ChangesCurrent
    <3>3. ASSUME jobs[i].kind = "calc"
          PROVE  CalculationJobOK(jobs[i])'
      <4>1. CalculationJobOK(jobs[i]) /\ jobs[i].cursor \in Nat
        BY <1>1, <3>1, <3>3, JobKinds DEF JobOK, CalculationJob
      <4>2. jobs[i].cursor <= nextCursor' /\ jobs[i].cursor # nextCursor'
        BY <1>7, <1>9, <4>1 DEF CalculationJobOK
      <4>3. jobs[i].revision <= draft'.revision
        BY <1>7, <4>1 DEF CalculationJobOK
      <4>4. \A takes, follows \in BOOLEAN :
              RunsFresh(jobs[i], Execute(jobs[i].book, jobs[i].compiled, jobs[i].previous,
                                         jobs[i].plan, jobs[i].options, takes, follows))
        BY <4>1 DEF CalculationJobOK
      <4> QED
        BY <2>2, <4>2, <4>3, <4>4 DEF CalculationJobOK
    <3>4. ASSUME jobs[i].kind = "done"
          PROVE  DoneJobOK(jobs[i])'
      <4>1. DoneJobOK(jobs[i]) /\ jobs[i].cursor \in Nat
        BY <1>1, <3>1, <3>4, JobKinds DEF JobOK, DoneJob
      <4>2. jobs[i].cursor <= nextCursor' /\ jobs[i].cursor # nextCursor'
        BY <1>7, <1>9, <4>1 DEF DoneJobOK
      <4>3. jobs[i].calculation.revision <= draft'.revision
        BY <1>7, <4>1 DEF DoneJobOK
      <4> QED
        BY <2>2, <4>1, <4>2, <4>3 DEF DoneJobOK
    <3> QED
      BY <2>2, <3>2, <3>3, <3>4 DEF JobOK
  <2> QED
    BY <1>1, <1>7, <2>1, <2>2 DEF TypeOK
<1> QED
  BY <1>4, <1>6, <1>10, <1>11, <1>12 DEF SessionInvariant, job

(* The invariant is inductive.                                             *)
LEMMA NextInvariant ==
  ASSUME LocaleDynamic = {}, SessionInvariant, [Next]_vars
  PROVE  SessionInvariant'
<1>1. CASE UNCHANGED vars
  <2>1. /\ UNCHANGED session /\ jobs' = jobs
    BY <1>1 DEF vars
  <2>2. TypeOK' /\ Live' = Live /\ draft' = draft /\ nextCursor' = nextCursor
        /\ calculation' = calculation
    BY <2>1 DEF session, Live, TypeOK, SessionInvariant
  <2> QED
    BY <2>1, <2>2 DEF SessionInvariant, JobOK, EditJobOK, CalculationJobOK, DoneJobOK, ChangesCurrent
<1>2. ASSUME NEW j \in Job, NEW batch \in Batch, PrepareChanges(j, batch)
      PROVE  SessionInvariant'
  BY <1>2, PrepareChangesStep
<1>3. ASSUME NEW j \in Job, InstallChanges(j)
      PROVE  SessionInvariant'
  BY <1>3, InstallChangesStep
<1>4. ASSUME NEW j \in Job, RejectChanges(j) \/ RejectCalculation(j)
      PROVE  SessionInvariant'
  BY <1>4, DropJobStep DEF RejectChanges, RejectCalculation
<1>5. ASSUME NEW j \in Job, NEW mode \in Modes, NEW o \in Options, PrepareCalculation(j, mode, o)
      PROVE  SessionInvariant'
  BY <1>5, PrepareCalculationStep
<1>6. ASSUME NEW j \in Job, RunCalculation(j)
      PROVE  SessionInvariant'
  BY <1>6, RunCalculationStep
<1>7. ASSUME NEW j \in Job, Cancel(j)
      PROVE  SessionInvariant'
  BY <1>7, CancelStep
<1>8. ASSUME NEW j \in Job, InstallCalculation(j)
      PROVE  SessionInvariant'
  BY <1>8, InstallCalculationStep
<1> QED
  BY <1>1, <1>2, <1>3, <1>4, <1>5, <1>6, <1>7, <1>8 DEF Next

-----------------------------------------------------------------------------
(***************************************************************************)
(* The invariant holds throughout: whatever edits, calculations and        *)
(* cancellations the jobs interleave, what the session keeps and what each *)
(* job captured stay consistent with the draft.                            *)
(***************************************************************************)
THEOREM SessionIsConsistent ==
  ASSUME LocaleDynamic = {}
  PROVE  Spec => []SessionInvariant
<1>1. Init => SessionInvariant
  BY InitInvariant
<1>2. SessionInvariant /\ [Next]_vars => SessionInvariant'
  BY NextInvariant
<1> QED
  BY <1>1, <1>2, PTL DEF Spec

(* The session and its jobs keep their types.                              *)
THEOREM TypeCorrect ==
  ASSUME LocaleDynamic = {}
  PROVE  Spec => []TypeOK
<1>1. SessionInvariant => TypeOK
  BY DEF SessionInvariant
<1> QED
  BY <1>1, SessionIsConsistent, PTL

(***************************************************************************)
(* Between edits and the next calculation, results outside the dirty set   *)
(* are those of a calculation from scratch (prepare_changes).              *)
(***************************************************************************)
THEOREM InvalidationIsComplete ==
  ASSUME LocaleDynamic = {}
  PROVE  Spec => []CleanResultsAreFresh
<1>1. SessionInvariant => CleanResultsAreFresh
  <2> SUFFICES ASSUME SessionInvariant, calculation # None, ~rebuild, NEW c \in Cell \ dirty
               PROVE  calculation.results[c] = FreshResults(draft.book, calculation.options)[c]
    BY DEF CleanResultsAreFresh
  <2>1. KeptState(draft.book, calculation.options, compiled.formulas, calculation.results,
                  dirty, formulaEdits)
    BY DEF SessionInvariant, Consistent, Live
  <2> QED
    BY <2>1 DEF KeptState, FreshResults
<1> QED
  BY <1>1, SessionIsConsistent, PTL

(***************************************************************************)
(* The compiled workbook is that of the draft, except where the session    *)
(* knows it is not (prepare_changes, recompile_formula_edits).             *)
(***************************************************************************)
THEOREM CompiledStateIsTracked ==
  ASSUME LocaleDynamic = {}
  PROVE  Spec => []CompiledIsCurrent
<1>1. SessionInvariant => CompiledIsCurrent
  <2> SUFFICES ASSUME SessionInvariant, calculation # None, ~rebuild
               PROVE  CompiledIsCurrent
    BY DEF CompiledIsCurrent
  <2>1. KeptState(draft.book, calculation.options, compiled.formulas, calculation.results,
                  dirty, formulaEdits)
    BY DEF SessionInvariant, Consistent, Live
  <2>2. ASSUME NEW c \in Cell \ formulaEdits,
               compiled.formulas[c] # CompileAll(draft.book, calculation.options)[c]
        PROVE  c \in dirty /\ draft.book.content[c] \in Dynamic
    <3> DEFINE f == CompileAll(draft.book, calculation.options)
    <3>1. c \in dirty /\ f[c] # None /\ f[c].formula \in Dynamic
      BY <2>1, <2>2 DEF KeptState
    <3>2. f[c] = CompileCell(draft.book, calculation.options, c)
      BY DEF CompileAll
    <3> HIDE DEF f
    <3>3. f[c].formula = draft.book.content[c]
      BY <3>1, <3>2 DEF CompileCell
    <3> QED
      BY <3>1, <3>3
  <2> QED
    BY <2>1, <2>2 DEF KeptState, CompiledIsCurrent
<1> QED
  BY <1>1, SessionIsConsistent, PTL

(* What the invariant says of a calculation of the current revision.       *)
LEMMA InvariantIsFresh == SessionInvariant => CurrentCalculationIsFresh
<1> SUFFICES ASSUME SessionInvariant, calculation # None,
                    calculation.revision = draft.revision
             PROVE  calculation.results = FreshResults(draft.book, calculation.options)
  BY DEF CurrentCalculationIsFresh
<1>1. /\ dirty = {}
      /\ KeptState(draft.book, calculation.options, compiled.formulas, calculation.results,
                   dirty, formulaEdits)
  BY DEF SessionInvariant, Consistent, Live
<1>2. calculation.results \in Results
  BY DEF SessionInvariant, TypeOK, Calculation
<1> DEFINE fresh == FreshResults(draft.book, calculation.options)
<1>3. fresh = [c \in Cell |-> fresh[c]]
  BY DEF FreshResults, FullResults
<1>4. \A c \in Cell : calculation.results[c] = fresh[c]
  BY <1>1 DEF KeptState, FreshResults
<1> HIDE DEF fresh
<1>5. calculation.results = fresh
  BY <1>2, <1>3, <1>4 DEF Results
<1> QED
  BY <1>5 DEF fresh

(***************************************************************************)
(* A calculation of the current revision shows what a calculation from     *)
(* scratch would, however it was produced (execute, install).              *)
(***************************************************************************)
THEOREM CurrentResultsAreFresh ==
  ASSUME LocaleDynamic = {}
  PROVE  Spec => []CurrentCalculationIsFresh
  BY InvariantIsFresh, SessionIsConsistent, PTL

(***************************************************************************)
(* With references that do not depend on options, the compiled references  *)
(* after a calculation are those of the workbook calculated                *)
(* (execution_mode); with such references they need not be.                *)
(***************************************************************************)
THEOREM TargetsAreCurrent ==
  ASSUME LocaleDynamic = {}
  PROVE  Spec => []InstalledTargetsAreCurrent
<1>1. SessionInvariant => InstalledTargetsAreCurrent
  <2> SUFFICES ASSUME SessionInvariant, calculation # None,
                      calculation.revision = draft.revision
               PROVE  compiled.formulas = CompileAll(draft.book, calculation.options)
    BY DEF InstalledTargetsAreCurrent
  <2>1. /\ dirty = {} /\ compiled # None
        /\ KeptState(draft.book, calculation.options, compiled.formulas, calculation.results,
                     dirty, formulaEdits)
    BY DEF SessionInvariant, Consistent, Live
  <2>2. compiled.formulas \in [Cell -> Compiled \union {None}]
    BY <2>1 DEF SessionInvariant, TypeOK, CompiledWorkbook
  <2> DEFINE f == CompileAll(draft.book, calculation.options)
  <2>3. f = [c \in Cell |-> f[c]]
    BY DEF CompileAll
  <2>4. \A c \in Cell : compiled.formulas[c] = f[c]
    BY <2>1 DEF KeptState
  <2> HIDE DEF f
  <2>5. compiled.formulas = f
    BY <2>2, <2>3, <2>4
  <2> QED
    BY <2>5 DEF f
<1> QED
  BY <1>1, SessionIsConsistent, PTL

(***************************************************************************)
(* An installed batch has the effect it would have if it were prepared and *)
(* installed in one step (install_changes).                                *)
(***************************************************************************)
THEOREM EditsAreAtomic ==
  ASSUME LocaleDynamic = {}
  PROVE  Spec => InstalledEditsAreAtomic
<1> DEFINE A == \A j \in Job : InstallChanges(j) =>
                  LET now == StageChanges(Live, jobs[j].batch) IN
                  /\ draft' = now.draft
                  /\ dirty' = now.dirty
                  /\ formulaEdits' = now.formulaEdits
                  /\ pending' = now.pending
                  /\ rebuild' = now.rebuild
<1>1. SessionInvariant /\ [Next]_vars => [A]_vars
  <2> SUFFICES ASSUME SessionInvariant, NEW j \in Job, InstallChanges(j)
               PROVE  LET now == StageChanges(Live, jobs[j].batch) IN
                  /\ draft' = now.draft
                  /\ dirty' = now.dirty
                  /\ formulaEdits' = now.formulaEdits
                  /\ pending' = now.pending
                  /\ rebuild' = now.rebuild
    OBVIOUS
  <2>1. jobs[j].staged = StageChanges(Live, jobs[j].batch)
    BY InstallChangesStep
  <2> QED
    BY <2>1 DEF InstallChanges
<1> QED
  BY <1>1, SessionIsConsistent, PTL DEF Spec, InstalledEditsAreAtomic

(* AtomicSession sees the same workbooks: its copies of the operators are  *)
(* the session's own.                                                      *)
LEMMA SameOperators ==
  /\ \A d, batch : Atomic!ApplyBatch(d, batch) = ApplyBatch(d, batch)
  /\ \A b, o : Atomic!FreshResults(b, o) = FreshResults(b, o)
  /\ \A p, c, s : Atomic!Delta(p, c, s) = Delta(p, c, s)
  /\ \A s, d, m : Atomic!Retain(s, d, m) = Retain(s, d, m)
<1>1. \A d, batch : Atomic!ApplyBatch(d, batch) = ApplyBatch(d, batch)
  BY DEF Atomic!ApplyBatch, ApplyBatch, Atomic!Keep, Keep
<1>2. \A k, c : Atomic!Reach(k, c) = Reach(k, c)
  BY DEF Atomic!Reach, Reach, Atomic!ReachIn, ReachIn, Atomic!ClosedIn, ClosedIn,
         Atomic!Reads, Reads
<1>3. \A k, b, o, c : Atomic!Item(k, b, o, c) = Item(k, b, o, c)
  BY DEF Atomic!Item, Item
<1>4. \A k, b, o : Atomic!FullResults(k, b, o) = FullResults(k, b, o)
  BY <1>2, <1>3 DEF Atomic!FullResults, FullResults
<1>5. \A b, o : Atomic!CompileAll(b, o) = CompileAll(b, o)
  BY DEF Atomic!CompileAll, CompileAll, Atomic!CompileCell, CompileCell
<1>6. \A b, o : Atomic!FreshResults(b, o) = FreshResults(b, o)
  BY <1>4, <1>5 DEF Atomic!FreshResults, FreshResults
<1>7. \A p, c, s : Atomic!Delta(p, c, s) = Delta(p, c, s)
  BY DEF Atomic!Delta, Delta
<1>8. \A s, d, m : Atomic!Retain(s, d, m) = Retain(s, d, m)
  BY DEF Atomic!Retain, Retain
<1> QED
  BY <1>1, <1>6, <1>7, <1>8

(***************************************************************************)
(* The session implements AtomicSession: its edits and calculations happen *)
(* at one moment, with the results of a calculation from scratch and exact *)
(* deltas (install_changes, install).                                      *)
(***************************************************************************)
THEOREM SessionImplementsAtomic ==
  ASSUME LocaleDynamic = {}
  PROVE  Spec => ImplementsAtomicSession
<1>1. Init => Atomic!AtomicInit
  BY DEF Init, Atomic!AtomicInit
<1>2. SessionInvariant /\ [Next]_vars => [Atomic!AtomicNext]_(Atomic!atomicVars)
  <2> SUFFICES ASSUME SessionInvariant, [Next]_vars
               PROVE  [Atomic!AtomicNext]_(Atomic!atomicVars)
    OBVIOUS
  <2>1. CASE UNCHANGED vars
    BY <2>1 DEF vars, session, Atomic!atomicVars
  <2>2. ASSUME NEW j \in Job, InstallChanges(j)
        PROVE  Atomic!AtomicEdit
    <3>1. jobs[j].batch \in Batch
      BY <2>2, JobKinds DEF SessionInvariant, InstallChanges, EditJob
    <3>2. draft' = ApplyBatch(draft, jobs[j].batch)
      BY <2>2, InstallChangesStep
    <3> QED
      BY <2>2, <3>1, <3>2, SameOperators DEF InstallChanges, Atomic!AtomicEdit
  <2>3. ASSUME NEW j \in Job, InstallCalculation(j)
        PROVE  Atomic!AtomicCalculate
    <3> DEFINE o == jobs[j].calculation.options
               calc == [source |-> draft.book, revision |-> draft.revision, options |-> o,
                        results |-> FreshResults(draft.book, o)]
    <3>1. o \in Options /\ jobs[j].calculation = calc /\ jobs[j].delta = Delta(calculation, calc, Cell)
      BY <2>3, InstallCalculationStep
    <3>2. /\ calculation' = calc
          /\ nextCursor' = nextCursor + 1
          /\ history' = Retain(history, [cursor |-> nextCursor, delta |-> Delta(calculation, calc, Cell)],
                               MaxRetained)
          /\ draft' = draft
      BY <2>3, <3>1 DEF InstallCalculation
    <3> QED
      BY <3>1, <3>2, SameOperators DEF Atomic!AtomicCalculate
  <2>4. ASSUME NEW j \in Job,
               \/ \E batch \in Batch : PrepareChanges(j, batch)
               \/ RejectChanges(j)
               \/ \E mode \in Modes, o \in Options : PrepareCalculation(j, mode, o)
               \/ RunCalculation(j)
               \/ Cancel(j)
               \/ RejectCalculation(j)
        PROVE  UNCHANGED Atomic!atomicVars
    BY <2>4 DEF PrepareChanges, RejectChanges, PrepareCalculation, RunCalculation, Cancel,
                RejectCalculation, session, Atomic!atomicVars
  <2> QED
    BY <2>1, <2>2, <2>3, <2>4 DEF Next, Atomic!AtomicNext
<1> QED
  BY <1>1, <1>2, SessionIsConsistent, PTL DEF Spec, ImplementsAtomicSession, Atomic!AtomicSpec

(* Retaining one more element drops at most the oldest.                    *)
LEMMA RetainElements ==
  ASSUME NEW S, NEW deltas \in Seq(S), NEW delta \in S, NEW max \in Nat \ {0},
         Len(deltas) <= max
  PROVE  LET kept == Retain(deltas, delta, max)
             drop == IF Len(deltas) = max THEN 1 ELSE 0
         IN  /\ Len(kept) = Len(deltas) + 1 - drop
             /\ \A i \in 1 .. Len(kept) :
                  kept[i] = IF i = Len(kept) THEN delta ELSE deltas[i + drop]
<1> DEFINE all == Append(deltas, delta)
<1>1. /\ all \in Seq(S) /\ all # <<>> /\ Len(all) = Len(deltas) + 1
      /\ \A i \in 1 .. Len(deltas) : all[i] = deltas[i]
      /\ all[Len(deltas) + 1] = delta
  BY AppendProperties
<1>2. Len(deltas) \in Nat
  OBVIOUS
<1> HIDE DEF all
<1>3. /\ Len(Tail(all)) = Len(deltas)
      /\ \A i \in 1 .. Len(Tail(all)) : Tail(all)[i] = all[i + 1]
  BY <1>1, <1>2, HeadTailProperties
<1>4. Retain(deltas, delta, max) = IF Len(all) > max THEN Tail(all) ELSE all
  BY DEF Retain, all
<1>5. CASE Len(deltas) = max
  <2>1. Retain(deltas, delta, max) = Tail(all)
    BY <1>1, <1>2, <1>4, <1>5
  <2>2. \A i \in 1 .. Len(Tail(all)) :
          Tail(all)[i] = IF i = Len(Tail(all)) THEN delta ELSE deltas[i + 1]
    BY <1>1, <1>2, <1>3
  <2> QED
    BY <1>2, <1>3, <1>5, <2>1, <2>2
<1>6. CASE Len(deltas) # max
  <2>1. Retain(deltas, delta, max) = all
    BY <1>1, <1>2, <1>4, <1>6
  <2>2. \A i \in 1 .. Len(all) : all[i] = IF i = Len(all) THEN delta ELSE deltas[i + 0]
    BY <1>1, <1>2
  <2> QED
    BY <1>1, <1>2, <1>6, <2>1, <2>2
<1> QED
  BY <1>5, <1>6

(* What the retained deltas keep to, and that there are none at first.     *)
HistoryInv == HistoryIsContiguous /\ (calculation = None => history = <<>>)

(* A step that appends d, the delta from the calculation before to the one *)
(* after.                                                                  *)
Appends(d) ==
  /\ d \in [cursor : Nat, delta : DeltaRecord]
  /\ d.cursor = nextCursor
  /\ calculation' # None
  /\ d.delta.result = calculation'.revision
  /\ calculation # None => d.delta.base = calculation.revision
  /\ nextCursor' = nextCursor + 1
  /\ history' = Retain(history, d, MaxRetained)

(* It drops at most the oldest of the retained deltas.                     *)
LEMMA AppendElements ==
  ASSUME TypeOK, HistoryInv, NEW d, Appends(d)
  PROVE  LET drop == IF Len(history) = MaxRetained THEN 1 ELSE 0 IN
         /\ Len(history') = Len(history) + 1 - drop
         /\ \A i \in 1 .. Len(history') :
              history'[i] = IF i = Len(history') THEN d ELSE history[i + drop]
         /\ Len(history) \in Nat /\ Len(history') > 0 /\ Len(history') <= MaxRetained
<1> DEFINE S == [cursor : Nat, delta : DeltaRecord]
<1>1. history \in Seq(S) /\ MaxRetained \in Nat \ {0}
  BY SessionAssumption DEF TypeOK
<1>2. d \in S /\ history' = Retain(history, d, MaxRetained)
  BY DEF Appends
<1> HIDE DEF S
<1>3. Len(history) <= MaxRetained /\ Len(history) \in Nat
  BY <1>1 DEF HistoryInv, HistoryIsContiguous
<1> QED
  BY <1>1, <1>2, <1>3, RetainElements

(* Such a step keeps to it.                                                *)
LEMMA HistoryAppend ==
  ASSUME TypeOK, HistoryInv, NEW d, Appends(d)
  PROVE  HistoryInv'
<1> DEFINE drop == IF Len(history) = MaxRetained THEN 1 ELSE 0
<1>1. MaxRetained \in Nat \ {0} /\ nextCursor \in Nat \ {0}
  BY SessionAssumption DEF TypeOK
<1>2. /\ d.cursor = nextCursor /\ nextCursor' = nextCursor + 1
      /\ d.delta.result = calculation'.revision
      /\ calculation # None => d.delta.base = calculation.revision
  BY DEF Appends
<1>3. calculation = None => Len(history) = 0
  BY DEF HistoryInv
<1>4. /\ Len(history') = Len(history) + 1 - drop
      /\ \A i \in 1 .. Len(history') :
           history'[i] = IF i = Len(history') THEN d ELSE history[i + drop]
  BY AppendElements
<1>5. Len(history) \in Nat /\ Len(history') > 0 /\ Len(history') <= MaxRetained
  BY AppendElements
<1>6. ASSUME NEW i \in 1 .. Len(history')
      PROVE  /\ history'[i].cursor = nextCursor' - Len(history') + i - 1
             /\ i = Len(history') => history'[i].delta.result = calculation'.revision
             /\ i < Len(history') => history'[i].delta.result = history'[i + 1].delta.base
  <2>1. CASE i = Len(history')
    BY <1>1, <1>2, <1>4, <1>5, <2>1
  <2>2. CASE i < Len(history')
    <3>1. /\ i + drop \in 1 .. Len(history) /\ calculation # None
          /\ history'[i] = history[i + drop]
      BY <1>3, <1>4, <1>5, <2>2
    <3>2. history'[i].cursor = nextCursor' - Len(history') + i - 1
      BY <1>1, <1>2, <1>4, <1>5, <3>1 DEF HistoryInv, HistoryIsContiguous
    <3>3. CASE i + drop = Len(history)
      <4>1. i + 1 = Len(history') /\ history'[i + 1] = d
        BY <1>4, <1>5, <3>3
      <4> QED
        BY <1>2, <3>1, <3>2, <3>3, <4>1, <2>2 DEF HistoryInv, HistoryIsContiguous
    <3>4. CASE i + drop < Len(history)
      <4>3. i + 1 \in 1 .. Len(history') /\ i + 1 # Len(history') /\ (i + 1) + drop = i + drop + 1
        BY <1>4, <1>5, <3>4
      <4>1. history'[i + 1] = history[i + drop + 1]
        BY <1>4, <4>3
      <4>2. history[i + drop].delta.result = history[i + drop + 1].delta.base
        BY <3>1, <3>4 DEF HistoryInv, HistoryIsContiguous
      <4> QED
        BY <2>2, <3>1, <3>2, <4>1, <4>2, <1>5
    <3> QED
      BY <1>5, <3>1, <3>3, <3>4
  <2> QED
    BY <1>5, <2>1, <2>2
<1>7. calculation' # None
  BY DEF Appends
<1> QED
  BY <1>5, <1>6, <1>7 DEF HistoryInv, HistoryIsContiguous

(* An installed calculation appends its delta.                             *)
LEMMA InstallAppends ==
  ASSUME SessionInvariant, NEW j \in Job, InstallCalculation(j)
  PROVE  Appends([cursor |-> nextCursor, delta |-> jobs[j].delta])
<1> DEFINE calc == jobs[j].calculation
           d == [cursor |-> nextCursor, delta |-> jobs[j].delta]
<1>1. jobs[j] \in DoneJob /\ TypeOK
  BY JobKinds DEF SessionInvariant, InstallCalculation
<1>2. jobs[j].delta \in DeltaRecord /\ calc # None
  BY <1>1, WorkbookAssumption DEF DoneJob
<1>3. history' = Retain(history, d, MaxRetained) /\ calculation' = calc /\ nextCursor' = nextCursor + 1
  BY DEF InstallCalculation
<1>4. jobs[j].delta = Delta(calculation, calc, Cell) /\ calculation' = calc
  BY <1>3, InstallCalculationStep, Zenon
<1>5. /\ jobs[j].delta.result = calculation'.revision
      /\ calculation # None => jobs[j].delta.base = calculation.revision
  <2> HIDE DEF calc, d
  <2>1. /\ Delta(calculation, calc, Cell).result = calc.revision
        /\ calculation # None => Delta(calculation, calc, Cell).base = calculation.revision
    BY DEF Delta
  <2> QED
    BY <1>4, <2>1
<1> HIDE DEF calc
<1>6. d \in [cursor : Nat, delta : DeltaRecord] /\ d.cursor = nextCursor /\ d.delta = jobs[j].delta
  BY <1>1, <1>2 DEF TypeOK
<1> QED
  BY <1>2, <1>3, <1>5, <1>6 DEF Appends

(* Edits and calculations keep to it.                                      *)
LEMMA HistoryStep ==
  ASSUME SessionInvariant, HistoryInv, [Next]_vars
  PROVE  HistoryInv'
<1>1. CASE UNCHANGED <<calculation, nextCursor, history>>
  BY <1>1 DEF HistoryInv, HistoryIsContiguous
<1>2. ASSUME NEW j \in Job, InstallCalculation(j)
      PROVE  HistoryInv'
  BY <1>2, InstallAppends, HistoryAppend DEF SessionInvariant
<1>3. ASSUME NEW j \in Job,
             \/ \E batch \in Batch : PrepareChanges(j, batch)
             \/ InstallChanges(j) \/ RejectChanges(j)
             \/ \E mode \in Modes, o \in Options : PrepareCalculation(j, mode, o)
             \/ RunCalculation(j) \/ Cancel(j) \/ RejectCalculation(j)
      PROVE  UNCHANGED <<calculation, nextCursor, history>>
  BY <1>3 DEF PrepareChanges, InstallChanges, RejectChanges, PrepareCalculation,
              RunCalculation, Cancel, RejectCalculation, session
<1>4. CASE UNCHANGED vars
  BY <1>1, <1>4 DEF vars, session
<1> QED
  BY <1>1, <1>2, <1>3, <1>4 DEF Next

(* There are no deltas before the first calculation.                       *)
LEMMA HistoryStart == Init => HistoryInv
  BY SessionAssumption DEF Init, HistoryInv, HistoryIsContiguous

(***************************************************************************)
(* The retained deltas are consecutive, in cursors and in revisions, up to *)
(* the installed calculation (install, changes_since).                     *)
(***************************************************************************)
THEOREM HistoryHasNoGaps ==
  ASSUME LocaleDynamic = {}
  PROVE  Spec => []HistoryIsContiguous
<1>1. SessionInvariant /\ HistoryInv /\ [Next]_vars => HistoryInv'
  BY HistoryStep
<1>2. HistoryInv => HistoryIsContiguous
  BY DEF HistoryInv
<1> QED
  BY <1>1, <1>2, HistoryStart, SessionIsConsistent, PTL DEF Spec
=============================================================================
