----------------------------- MODULE McpProofs -----------------------------
(***************************************************************************)
(* The safety of the MCP server: of its handlers on one session, for any   *)
(* number of requests of any kinds, interleaved and cancelled in any way;  *)
(* and of its cache of sessions, for any number of handlers, any capacity  *)
(* and any time to live.                                                   *)
(***************************************************************************)
EXTENDS McpRequests, SessionCache, FiniteSetTheorems, TLAPS

EngineState == [draft : Nat, revision : Nat, presentation : Nat, cursor : Nat]

SessionState ==
  [engine : EngineState,
   active : {None} \union [id : Nat \ {0}, token : Request],
   nextCalculationId : Nat \ {0},
   preview : {None} \union [id : Nat, base : EngineState, batch : Batch],
   nextPreviewId : Nat \ {0}]

OpState ==
  [kind : Kinds \union {"none"},
   at : {"idle", "asked", "running", "ran", "broke", "ready", "staged", "receipt", "done"},
   quit : BOOLEAN, id : Nat, preview : Nat, base : EngineState, batch : Batch,
   answer : {"none", "ok", "failed", "cancelled"}, changed : BOOLEAN]

Shape ==
  /\ session \in SessionState
  /\ ops \in [Request -> OpState]

(* Requests without an answer changed nothing; only prepared calculations  *)
(* have an id, only applied batches are staged, and ids and preview ids    *)
(* were handed out.                                                        *)
Progress ==
  \A r \in Request :
    /\ ops[r].at # "done" => ops[r].answer = "none" /\ ops[r].changed = FALSE
    /\ ops[r].id # 0 => ops[r].kind \in Calculations
    /\ ops[r].id # 0 <=> ops[r].at \in {"running", "ran", "broke", "ready"}
    /\ ops[r].id < session.nextCalculationId
    /\ ops[r].at # "idle" => ops[r].kind # "none"
    /\ ops[r].at = "staged" => ops[r].kind = "apply"
    /\ ops[r].preview < session.nextPreviewId

(***************************************************************************)
(* What r may do in a step, to its own record and to the session.          *)
(***************************************************************************)
Answered(r, answer, changed) ==
  [Unasked EXCEPT !.kind = ops[r].kind, !.at = "done", !.preview = ops[r].preview,
                  !.answer = answer, !.changed = changed]

Becomes(r, op) == ops' = [ops EXCEPT ![r] = op]

Asks(r) ==
  /\ ops[r].at = "idle"
  /\ \E kind \in Kinds, preview \in Nat, batch \in Batch :
       /\ preview < session.nextPreviewId \/ preview = 0
       /\ \/ Becomes(r, [ops[r] EXCEPT !.kind = kind, !.at = "asked", !.preview = preview, !.batch = batch])
          \/ kind \in {"targets", "preview", "commit"}
             /\ Becomes(r, [ops[r] EXCEPT !.kind = kind, !.at = "done", !.answer = "cancelled"])
  /\ UNCHANGED <<session, holder>>

Activates(r) ==
  /\ ops[r].kind \in Calculations /\ ops[r].at = "asked" /\ Free
  /\ session' = IF ops[r].kind = "preview" THEN ActivatePreview(session, r) ELSE Activate(session, r)
  /\ \E at \in {"running", "ran"} :
       Becomes(r, [ops[r] EXCEPT !.at = at, !.id = session.nextCalculationId, !.base = session.engine,
                     !.preview = IF ops[r].kind = "preview" THEN session.nextPreviewId ELSE 0])
  /\ UNCHANGED holder

Moves(r) ==
  /\ \/ /\ ops[r].kind \in Calculations /\ ops[r].at \in {"running", "ran"}
        /\ \E at \in {"ran", "broke", "ready"} : Becomes(r, [ops[r] EXCEPT !.at = at])
     \/ ops[r].kind = "commit" /\ ops[r].at = "asked" /\ Becomes(r, [ops[r] EXCEPT !.at = "receipt"])
     \/ ops[r].at \notin {"idle", "done"} /\ Becomes(r, [ops[r] EXCEPT !.quit = TRUE])
  /\ UNCHANGED <<session, holder>>

Ends(r) ==
  /\ ops[r].at \notin {"idle", "done"}
  /\ session' = AbandonRecalculation(session, ops[r].id) \/ (ops[r].id = 0 /\ UNCHANGED session)
  /\ \E answer \in {"failed", "cancelled"} : Becomes(r, Answered(r, answer, FALSE))
  /\ IF ops[r].kind = "apply" /\ ops[r].at = "staged" THEN holder' = Nobody ELSE UNCHANGED holder

Completes(r) ==
  /\ ops[r].kind \in Calculations /\ ops[r].at = "ready" /\ Free
  /\ RequireActive(session, ops[r].id) /\ Current(r)
  /\ session' = Completed(r)
  /\ Becomes(r, Answered(r, "ok", ops[r].kind # "targets"))
  /\ UNCHANGED holder

Stages(r) ==
  /\ ops[r].kind = "apply" /\ ops[r].at = "asked" /\ Free
  /\ Becomes(r, [ops[r] EXCEPT !.at = "staged", !.base = session.engine])
  /\ holder' = r /\ UNCHANGED session

Edits(r) ==
  /\ ops[r].kind = "apply" /\ ops[r].at = "staged"
  /\ session' = InstallChanges(session, ops[r].batch)
  /\ Becomes(r, Answered(r, "ok", TRUE))
  /\ holder' = Nobody

Consumes(r) ==
  /\ ops[r].kind \in {"commit", "discard"} /\ ops[r].at \in {"asked", "receipt"} /\ Free
  /\ Published(session, ops[r].preview)
  /\ session' \in {CommitPreview(session), TakePublished(session)}
  /\ \E answer \in {"ok", "failed"} : Becomes(r, Answered(r, answer, TRUE))
  /\ UNCHANGED holder

(* What a step of a request does to the session is one of these.           *)
LEMMA ActionEffects ==
  ASSUME Shape, Progress, NEW r \in Request, Ask(r) \/ Withdraw(r) \/ Serve(r)
  PROVE  \/ Asks(r) \/ Activates(r) \/ Moves(r) \/ Ends(r) \/ Completes(r)
         \/ Stages(r) \/ Edits(r) \/ Consumes(r)
         \/ UNCHANGED <<session, ops, holder>>
<1> USE DEF At, Becomes
<1>1. ops[r] \in OpState /\ ops \in [Request -> OpState]
  BY DEF Shape
<1>2. CASE Ask(r)
  <2>1. ASSUME NEW kind \in Kinds, NEW preview \in Nat, NEW batch \in Batch,
               preview < session.nextPreviewId \/ preview = 0, Start(r, kind, preview, batch)
        PROVE  Asks(r)
    <3>1. ops[r].at = "idle" /\ UNCHANGED <<session, holder>>
      BY <2>1 DEF Start
    <3>2. \/ Becomes(r, [ops[r] EXCEPT !.kind = kind, !.at = "asked", !.preview = preview, !.batch = batch])
          \/ kind \in {"targets", "preview", "commit"}
             /\ Becomes(r, [ops[r] EXCEPT !.kind = kind, !.at = "done", !.answer = "cancelled"])
      BY <1>1, <2>1 DEF Start, OpState
    <3> QED
      BY <2>1, <3>1, <3>2, Zenon DEF Asks
  <2>2. NoBatch \in Batch /\ session.nextPreviewId \in Nat
    BY DEF NoBatch, Batch, Shape, SessionState
  <2>3. ASSUME NEW kind \in {"recalculate", "targets"}, Start(r, kind, 0, NoBatch) PROVE Asks(r)
    BY <2>1, <2>2, <2>3 DEF Kinds, Calculations
  <2>4. ASSUME NEW kind \in {"preview", "apply"}, NEW batch \in Batch, Start(r, kind, 0, batch) PROVE Asks(r)
    BY <2>1, <2>4 DEF Kinds, Calculations
  <2>5. ASSUME NEW kind \in {"commit", "discard"}, NEW preview \in 1 .. session.nextPreviewId - 1,
               Start(r, kind, preview, NoBatch)
        PROVE  Asks(r)
    <3>1. kind \in Kinds /\ preview \in Nat /\ preview < session.nextPreviewId
      BY <2>2 DEF Kinds
    <3> QED
      BY <2>1, <2>2, <2>5, <3>1
  <2> QED
    BY <1>2, <2>3, <2>4, <2>5 DEF Ask
<1>3. CASE Withdraw(r)
  BY <1>3 DEF Withdraw
<1>4. CASE Prepare(r)
  <2>1. CASE Answer(r, IF ops[r].quit THEN "cancelled" ELSE "failed", FALSE) /\ UNCHANGED <<session, holder>>
    BY <1>1, <1>4, <2>1 DEF Prepare, Answer, Answered, Ends, Progress
  <2>2. CASE ops' = [ops EXCEPT ![r].at = IF ops[r].quit THEN "ran" ELSE "running",
                                ![r].id = session.nextCalculationId,
                                ![r].preview = IF ops[r].kind = "preview" THEN session.nextPreviewId ELSE 0,
                                ![r].base = session.engine]
             /\ session' = IF ops[r].kind = "preview" THEN ActivatePreview(session, r) ELSE Activate(session, r)
    <3> DEFINE at == IF ops[r].quit THEN "ran" ELSE "running"
    <3>1. Becomes(r, [ops[r] EXCEPT !.at = at, !.id = session.nextCalculationId, !.base = session.engine,
                        !.preview = IF ops[r].kind = "preview" THEN session.nextPreviewId ELSE 0])
      BY <1>1, <2>2 DEF OpState
    <3>2. at \in {"running", "ran"}
      OBVIOUS
    <3>3. ops[r].kind \in Calculations /\ ops[r].at = "asked" /\ Free /\ UNCHANGED holder
      BY <1>4 DEF Prepare
    <3> HIDE DEF at
    <3> QED
      BY <2>2, <3>1, <3>2, <3>3, Zenon DEF Activates
  <2> QED
    BY <1>4, <2>1, <2>2 DEF Prepare
<1>5. CASE Run(r) \/ Join(r)
  BY <1>1, <1>5 DEF Run, Join, Goes, Moves, OpState
<1>6. CASE Quit(r)
  BY <1>1, <1>6 DEF Quit, Moves, OpState
<1>7. CASE Abandon(r)
  BY <1>1, <1>7 DEF Abandon, Answer, Answered, Ends
<1>8. CASE Finish(r)
  BY <1>1, <1>8 DEF Finish, Answer, Answered, AfterRefusal, Ends, Completes
<1>9. CASE Stage(r)
  BY <1>1, <1>9 DEF Stage, Answer, Answered, Ends, Stages, Progress, OpState, Calculations
<1>10. CASE Install(r)
  <2>1. ops[r].id = 0 /\ ops[r].kind = "apply" /\ ops[r].at = "staged" /\ holder' = Nobody
    BY <1>10 DEF Install, Progress, Calculations
  <2>2. CASE TransactionCurrent(session, ops[r].base)
    <3>1. TransactionCurrent(session, ops[r].base) = TRUE
      BY <2>2 DEF TransactionCurrent
    <3>2. Becomes(r, Answered(r, "ok", TRUE)) /\ session' = InstallChanges(session, ops[r].batch)
      BY <1>10, <3>1, Zenon DEF Install, Answer, Answered
    <3> QED
      BY <2>1, <3>2, Zenon DEF Edits
  <2>3. CASE ~TransactionCurrent(session, ops[r].base)
    <3>1. TransactionCurrent(session, ops[r].base) = FALSE
      BY <2>3 DEF TransactionCurrent
    <3>2. Becomes(r, Answered(r, "failed", FALSE)) /\ session' = session
      BY <1>10, <3>1, Zenon DEF Install, Answer, Answered
    <3> QED
      BY <2>1, <3>2, Zenon DEF Ends
  <2> QED
    BY <2>2, <2>3
<1>11. CASE Unstage(r)
  BY <1>1, <1>11 DEF Unstage, Answer, Answered, Ends, Progress, Calculations
<1>12. CASE Receipt(r)
  BY <1>1, <1>12 DEF Receipt, Goes, Answer, Answered, Ends, Moves, Progress, Calculations, OpState
<1>13. CASE Commit(r)
  BY <1>1, <1>13 DEF Commit, CommitAnswer, Answer, Answered, Ends, Consumes, Progress, Calculations
<1>14. CASE Discard(r)
  <2>1. ops[r].id = 0 /\ ops[r].kind = "discard" /\ ops[r].at = "asked" /\ Free /\ UNCHANGED holder
    BY <1>14 DEF Discard, Progress, Calculations
  <2>2. CASE Published(session, ops[r].preview)
    <3>1. Published(session, ops[r].preview) = TRUE
      BY <2>2 DEF Published
    <3>2. Becomes(r, Answered(r, "ok", TRUE)) /\ session' = TakePublished(session)
      BY <1>14, <3>1, Zenon DEF Discard, Answer, Answered
    <3> QED
      BY <2>1, <2>2, <3>2, Zenon DEF Consumes
  <2>3. CASE ~Published(session, ops[r].preview)
    <3>1. Published(session, ops[r].preview) = FALSE
      BY <2>3 DEF Published
    <3>2. Becomes(r, Answered(r, "failed", FALSE)) /\ session' = session
      BY <1>14, <3>1, Zenon DEF Discard, Answer, Answered
    <3> QED
      BY <2>1, <3>2 DEF Ends
  <2> QED
    BY <2>2, <2>3
<1> QED
  BY <1>2, <1>3, <1>4, <1>5, <1>6, <1>7, <1>8, <1>9, <1>10, <1>11, <1>12, <1>13, <1>14 DEF Serve

(* An answered request is one, whatever it was.                            *)
LEMMA AnsweredIsDone ==
  ASSUME Shape, NEW r \in Request, NEW answer \in {"none", "ok", "failed", "cancelled"},
         NEW changed \in BOOLEAN
  PROVE  LET op == Answered(r, answer, changed) IN
         /\ op \in OpState
         /\ op.kind = ops[r].kind /\ op.at = "done" /\ op.id = 0 /\ op.preview = ops[r].preview
         /\ op.answer = answer /\ op.changed = changed
<1>1. ops[r].kind \in Kinds \union {"none"} /\ ops[r].preview \in Nat
  BY DEF Shape, OpState
<1>2. NewEngine \in EngineState /\ NoBatch \in Batch
  BY DEF NewEngine, EngineState, NoBatch, Batch
<1>3. Unasked \in OpState /\ Unasked.id = 0
  BY <1>2 DEF Unasked, OpState
<1>4. Answered(r, answer, changed) \in OpState
  BY <1>1, <1>3 DEF Answered, OpState
<1>5. LET op == Answered(r, answer, changed) IN
         /\ op.kind = ops[r].kind /\ op.at = "done" /\ op.id = 0 /\ op.preview = ops[r].preview
         /\ op.answer = answer
  BY <1>1, <1>3 DEF Answered, OpState
<1>6. Answered(r, answer, changed).changed = changed
  BY <1>1, <1>3 DEF Answered, OpState
<1> QED
  BY <1>4, <1>5, <1>6

(* A new session has its shape.                                            *)
LEMMA ShapeInit == Init => Shape /\ Progress
<1> SUFFICES ASSUME Init PROVE Shape /\ Progress
  OBVIOUS
<1>1. NewEngine \in EngineState /\ NoBatch \in Batch
  BY DEF NewEngine, EngineState, NoBatch, Batch
<1>2. session \in SessionState
  BY <1>1 DEF Init, NewSession, SessionState
<1>3. Unasked \in OpState
  BY <1>1 DEF Unasked, OpState
<1> QED
  BY <1>2, <1>3 DEF Init, Shape, Progress, Unasked, SessionState, NewSession

(* What edits and commits do to the engine.                                *)
LEMMA EngineEdits ==
  ASSUME NEW e \in EngineState, NEW b \in Batch
  PROVE  /\ Edited(e, b) \in EngineState /\ Committed(e, b) \in EngineState
         /\ Edited(e, b).revision = e.revision + b.semantic /\ Edited(e, b).cursor = e.cursor
<1> DEFINE draft == e.draft + 1
           revision == e.revision + b.semantic
           presentation == e.presentation + b.presentation
<1>1. draft \in Nat /\ revision \in Nat /\ presentation \in Nat
  BY DEF EngineState, Batch
<1>2. Edited(e, b) = [e EXCEPT !.draft = draft, !.revision = revision, !.presentation = presentation]
  BY DEF Edited
<1>3. Edited(e, b).revision = e.revision + b.semantic /\ Edited(e, b).cursor = e.cursor
  BY DEF Edited, EngineState
<1> HIDE DEF draft, revision, presentation
<1>4. Edited(e, b) \in EngineState
  BY <1>1, <1>2 DEF EngineState
<1>5. Committed(e, b) \in EngineState
  BY <1>4 DEF Committed, EngineState
<1> QED
  BY <1>3, <1>4, <1>5

(* A calculation takes the next identifiers and nothing else.              *)
LEMMA Activation ==
  ASSUME Shape, NEW r \in Request, NEW s \in {Activate(session, r), ActivatePreview(session, r)}
  PROVE  /\ s \in SessionState
         /\ s.active = [id |-> session.nextCalculationId, token |-> r]
         /\ s.nextCalculationId = session.nextCalculationId + 1
         /\ s.engine = session.engine /\ s.preview = session.preview
         /\ s.nextPreviewId = IF s = Activate(session, r) THEN session.nextPreviewId ELSE session.nextPreviewId + 1
         /\ ActivatePreview(session, r).nextPreviewId = session.nextPreviewId + 1
<1> DEFINE active == [id |-> session.nextCalculationId, token |-> r]
           next == session.nextCalculationId + 1
           preview == session.nextPreviewId + 1
<1>1. session \in SessionState
  BY DEF Shape
<1>2. active \in [id : Nat \ {0}, token : Request] /\ next \in Nat \ {0} /\ preview \in Nat \ {0}
  BY <1>1 DEF SessionState
<1>3. Activate(session, r) = [session EXCEPT !.active = active, !.nextCalculationId = next]
  BY DEF Activate
<1>4. Activate(session, r).nextPreviewId = session.nextPreviewId
  BY <1>1 DEF Activate, SessionState
<1>5. ActivatePreview(session, r) = [Activate(session, r) EXCEPT !.nextPreviewId = preview]
  BY <1>4 DEF ActivatePreview
<1> HIDE DEF active, next, preview
<1>6. Activate(session, r) \in SessionState
  BY <1>1, <1>2, <1>3 DEF SessionState
<1>7. ActivatePreview(session, r) \in SessionState
  BY <1>2, <1>5, <1>6 DEF SessionState
<1>8. LET a == Activate(session, r) IN
      a.active = active /\ a.nextCalculationId = next /\ a.engine = session.engine /\ a.preview = session.preview
  BY <1>1, <1>3 DEF SessionState
<1>9. LET a == ActivatePreview(session, r) IN
      /\ a.active = active /\ a.nextCalculationId = next /\ a.engine = session.engine
      /\ a.preview = session.preview /\ a.nextPreviewId = preview
  BY <1>5, <1>6, <1>8 DEF SessionState
<1> QED
  BY <1>4, <1>6, <1>7, <1>8, <1>9 DEF active, next, preview

(* What the operations that end a calculation do to the session.           *)
LEMMA Abandoning ==
  ASSUME Shape, NEW id \in Nat
  PROVE  LET s == AbandonRecalculation(session, id) IN
         /\ s \in SessionState
         /\ s.active = IF session.active.id = id THEN None ELSE session.active
         /\ s.engine = session.engine /\ s.preview = session.preview
         /\ s.nextCalculationId = session.nextCalculationId /\ s.nextPreviewId = session.nextPreviewId
<1>1. session \in SessionState
  BY DEF Shape
<1>2. LET s == [session EXCEPT !.active = None] IN
         /\ s \in SessionState
         /\ s.active = None
         /\ s.engine = session.engine /\ s.preview = session.preview
         /\ s.nextCalculationId = session.nextCalculationId /\ s.nextPreviewId = session.nextPreviewId
  BY <1>1 DEF SessionState
<1> QED
  BY <1>1, <1>2 DEF AbandonRecalculation

(* A calculation that completes leaves no active one.                      *)
LEMMA Completing ==
  ASSUME Shape, NEW r \in Request, ops[r].kind \in Calculations
  PROVE  LET s == Completed(r) IN
         /\ s \in SessionState
         /\ s.active = None
         /\ s.nextCalculationId = session.nextCalculationId /\ s.nextPreviewId = session.nextPreviewId
         /\ ops[r].kind = "recalculate" => s.preview = None
         /\ ops[r].kind # "recalculate" => s.engine = session.engine
         /\ ops[r].kind = "targets" => s.preview = session.preview
         /\ ops[r].kind = "preview" =>
              s.preview = [id |-> ops[r].preview, base |-> ops[r].base, batch |-> ops[r].batch]
<1>1. session \in SessionState /\ ops[r] \in OpState
  BY DEF Shape
<1> DEFINE engine == [session.engine EXCEPT !.cursor = @ + 1]
           preview == [id |-> ops[r].preview, base |-> ops[r].base, batch |-> ops[r].batch]
<1>2. CASE ops[r].kind = "recalculate"
  <2>1. engine \in EngineState
    BY <1>1 DEF SessionState, EngineState
  <2>2. Completed(r) = [session EXCEPT !.active = None, !.engine = engine, !.preview = None]
    BY <1>1, <1>2 DEF Completed, InstallRecalculation, SessionState
  <2> HIDE DEF engine
  <2> QED
    BY <1>1, <1>2, <2>1, <2>2 DEF SessionState
<1>3. CASE ops[r].kind = "targets"
  <2>1. Completed(r) = [session EXCEPT !.active = None]
    BY <1>3 DEF Completed, FinishTargetCalculation
  <2> QED
    BY <1>1, <1>3, <2>1 DEF SessionState
<1>4. CASE ops[r].kind = "preview"
  <2>1. preview \in [id : Nat, base : EngineState, batch : Batch]
    BY <1>1 DEF OpState
  <2>2. Completed(r) = [session EXCEPT !.active = None, !.preview = preview]
    BY <1>4 DEF Completed, PublishPreview
  <2>3. LET s == [session EXCEPT !.active = None, !.preview = preview] IN
         /\ s \in SessionState
         /\ s.active = None /\ s.engine = session.engine /\ s.preview = preview
         /\ s.nextCalculationId = session.nextCalculationId /\ s.nextPreviewId = session.nextPreviewId
    <3> HIDE DEF preview
    <3> QED
      BY <1>1, <2>1 DEF SessionState
  <2> QED
    BY <1>4, <2>2, <2>3
<1> QED
  BY <1>2, <1>3, <1>4 DEF Calculations

(* What edits, commits and discards do to it.                              *)
LEMMA Editing ==
  ASSUME Shape, NEW batch \in Batch
  PROVE  LET s == InstallChanges(session, batch) IN
         /\ s \in SessionState
         /\ s.active = session.active
         /\ s.nextCalculationId = session.nextCalculationId /\ s.nextPreviewId = session.nextPreviewId
         /\ s.engine.cursor = session.engine.cursor
         /\ \/ s.preview = None
            \/ s.preview = session.preview /\ s.engine.revision = session.engine.revision
<1> DEFINE engine == Edited(session.engine, batch)
           preview == IF batch.semantic = 1 THEN None ELSE session.preview
<1>1. session \in SessionState /\ session.engine \in EngineState
  BY DEF Shape, SessionState
<1>2. /\ engine \in EngineState /\ engine.cursor = session.engine.cursor
      /\ engine.revision = session.engine.revision + batch.semantic
  BY <1>1, EngineEdits
<1>3. preview \in {None, session.preview} /\ (preview # None => batch.semantic = 0)
  BY DEF Batch
<1>4. preview # None => engine.revision = session.engine.revision
  BY <1>1, <1>2, <1>3 DEF EngineState
<1>5. InstallChanges(session, batch) = [session EXCEPT !.engine = engine, !.preview = preview]
  BY DEF InstallChanges
<1> HIDE DEF engine, preview
<1> QED
  BY <1>1, <1>2, <1>3, <1>4, <1>5 DEF SessionState

(* A preview is consumed once, by commit or by publication.                *)
LEMMA Consuming ==
  ASSUME Shape, session.preview # None, NEW s \in {CommitPreview(session), TakePublished(session)}
  PROVE  /\ s \in SessionState
         /\ s.active = session.active /\ s.preview = None
         /\ s.nextCalculationId = session.nextCalculationId /\ s.nextPreviewId = session.nextPreviewId
<1> DEFINE engine == Committed(session.engine, session.preview.batch)
<1>1. session \in SessionState /\ session.engine \in EngineState /\ session.preview.batch \in Batch
  BY DEF Shape, SessionState
<1>2. engine \in EngineState
  BY <1>1, EngineEdits
<1>3. CommitPreview(session) = [session EXCEPT !.engine = engine, !.preview = None]
  BY DEF CommitPreview
<1>4. TakePublished(session) = [session EXCEPT !.preview = None]
  BY DEF TakePublished
<1> HIDE DEF engine
<1>5. CASE s = CommitPreview(session)
  BY <1>1, <1>2, <1>3, <1>5 DEF SessionState
<1>6. CASE s = TakePublished(session)
  BY <1>1, <1>4, <1>6 DEF SessionState
<1> QED
  BY <1>5, <1>6

-----------------------------------------------------------------------------
(* Whoever holds a staged batch has the lock.                              *)
StagedUnderLock ==
  \A r \in Request : ops[r].at = "staged" => holder = r /\ ops[r].base = session.engine

(* The previews that were committed or discarded.                          *)
ConsumedBy(r) ==
  ops[r].kind \in {"commit", "discard"} /\ ops[r].at = "done" /\ ops[r].answer = "ok"

(***************************************************************************)
(* The preview of the active request is later than the published one and   *)
(* all that were consumed, and the published one than the consumed.        *)
(***************************************************************************)
PreviewOrder ==
  /\ session.active # None => session.active.id < session.nextCalculationId
  /\ session.preview # None => session.preview.id < session.nextPreviewId
  /\ \A r \in Request :
       ops[r].kind = "preview" /\ ops[r].id # 0 /\ ops[r].id = session.active.id =>
         /\ session.preview # None => session.preview.id < ops[r].preview
         /\ \A q \in Request : ConsumedBy(q) => ops[q].preview < ops[r].preview
  /\ session.preview # None =>
       \A q \in Request : ConsumedBy(q) => ops[q].preview < session.preview.id

RequestInv ==
  /\ Shape /\ Progress
  /\ ActiveRequestIsServed
  /\ CancelledRequestChangedNothing
  /\ PublishedPreviewIsCurrent
  /\ StagedUnderLock
  /\ PreviewOrder

(* Nobody has asked.                                                       *)
LEMMA RequestInit == Init => RequestInv
<1> SUFFICES ASSUME Init PROVE RequestInv
  OBVIOUS
<1>1. Shape /\ Progress
  BY ShapeInit
<1>2. session.active = None /\ session.preview = None
  BY DEF Init, NewSession
<1>3. \A r \in Request : ops[r].at = "idle" /\ ops[r].answer = "none" /\ ops[r].kind = "none"
  BY DEF Init, Unasked
<1> QED
  BY <1>1, <1>2, <1>3 DEF RequestInv, ActiveRequestIsServed, CancelledRequestChangedNothing,
     PublishedPreviewIsCurrent, StagedUnderLock, PreviewOrder, ConsumedBy

(* The types of the fields.                                                *)
LEMMA Fields ==
  ASSUME Shape
  PROVE  /\ session.nextCalculationId \in Nat \ {0} /\ session.nextPreviewId \in Nat \ {0}
         /\ session.engine \in EngineState
         /\ None.id = 0 /\ session.active.id \in Nat /\ session.preview.id \in Nat
         /\ session.active # None => session.active.id # 0
         /\ \A r \in Request : ops[r] \in OpState /\ ops[r].id \in Nat /\ ops[r].preview \in Nat
  BY DEF Shape, SessionState, OpState, None

(* A step of a request changes no other request.                           *)
LEMMA BecomesFacts ==
  ASSUME Shape, NEW r \in Request, NEW op \in OpState, Becomes(r, op)
  PROVE  /\ ops' \in [Request -> OpState]
         /\ ops'[r] = op
         /\ \A q \in Request : q # r => ops'[q] = ops[q]
  BY DEF Shape, Becomes

(* A request asks.                                                         *)
LEMMA AsksKeeps ==
  ASSUME RequestInv, NEW r \in Request, Asks(r)
  PROVE  RequestInv'
<1>1. Shape /\ Progress
  BY DEF RequestInv
<1>2. PICK kind \in Kinds, preview \in Nat, batch \in Batch :
        /\ preview < session.nextPreviewId \/ preview = 0
        /\ \/ Becomes(r, [ops[r] EXCEPT !.kind = kind, !.at = "asked", !.preview = preview, !.batch = batch])
           \/ kind \in {"targets", "preview", "commit"}
              /\ Becomes(r, [ops[r] EXCEPT !.kind = kind, !.at = "done", !.answer = "cancelled"])
  BY DEF Asks
<1>3. ops[r].at = "idle" /\ UNCHANGED <<session, holder>>
  BY DEF Asks
<1>4. ops[r] \in OpState /\ ops[r].answer = "none" /\ ops[r].changed = FALSE /\ ops[r].id = 0
  BY <1>1, <1>3, Fields DEF Progress
<1>5. /\ ops' \in [Request -> OpState]
      /\ \A q \in Request : q # r => ops'[q] = ops[q]
      /\ ops'[r].kind \in Kinds /\ ops'[r].at \in {"asked", "done"} /\ ops'[r].id = 0
      /\ ops'[r].preview < session.nextPreviewId
      /\ ops'[r].answer \in {"none", "cancelled"} /\ ops'[r].changed = FALSE
      /\ ops'[r].at = "asked" => ops'[r].answer = "none"
  <2>1. CASE Becomes(r, [ops[r] EXCEPT !.kind = kind, !.at = "asked", !.preview = preview, !.batch = batch])
    <3> DEFINE op == [ops[r] EXCEPT !.kind = kind, !.at = "asked", !.preview = preview, !.batch = batch]
    <3>1. /\ op \in OpState
          /\ op.kind = kind /\ op.at = "asked" /\ op.preview = preview /\ op.id = 0 /\ op.answer = "none"
      BY <1>4 DEF OpState
    <3>2. op.changed = FALSE
      BY <1>4 DEF OpState
    <3> HIDE DEF op
    <3>3. Becomes(r, op)
      BY <2>1 DEF op
    <3> QED
      BY <1>1, <1>2, <3>1, <3>2, <3>3, BecomesFacts, Fields
  <2>2. CASE Becomes(r, [ops[r] EXCEPT !.kind = kind, !.at = "done", !.answer = "cancelled"])
    <3> DEFINE op == [ops[r] EXCEPT !.kind = kind, !.at = "done", !.answer = "cancelled"]
    <3>1. /\ op \in OpState
          /\ op.kind = kind /\ op.at = "done" /\ op.preview = ops[r].preview /\ op.id = 0
          /\ op.answer = "cancelled"
      BY <1>4 DEF OpState
    <3>2. op.changed = FALSE
      BY <1>4 DEF OpState
    <3> HIDE DEF op
    <3>3. Becomes(r, op)
      BY <2>2 DEF op
    <3>4. ops[r].preview < session.nextPreviewId
      BY <1>1 DEF Progress
    <3> QED
      BY <1>1, <3>1, <3>2, <3>3, <3>4, BecomesFacts
  <2> QED
    BY <1>2, <2>1, <2>2
<1>6. Shape'
  BY <1>1, <1>3, <1>5 DEF Shape
<1>7. Progress'
  BY <1>1, <1>3, <1>5, Fields DEF Progress, Kinds, Calculations
<1>8. ActiveRequestIsServed'
  BY <1>1, <1>3, <1>4, <1>5, Fields DEF RequestInv, ActiveRequestIsServed
<1>9. CancelledRequestChangedNothing'
  BY <1>5 DEF RequestInv, CancelledRequestChangedNothing
<1>10. PublishedPreviewIsCurrent'
  BY <1>3 DEF RequestInv, PublishedPreviewIsCurrent, CalculationCurrent
<1>11. StagedUnderLock'
  BY <1>3, <1>5 DEF RequestInv, StagedUnderLock
<1>12. PreviewOrder'
  <2>1. \A q \in Request : ConsumedBy(q)' => ConsumedBy(q) /\ q # r
    BY <1>5 DEF ConsumedBy
  <2> QED
    BY <1>3, <1>5, <2>1 DEF RequestInv, PreviewOrder
<1> QED
  BY <1>6, <1>7, <1>8, <1>9, <1>10, <1>11, <1>12 DEF RequestInv

(* A calculation becomes the active one.                                   *)
LEMMA ActivatesKeeps ==
  ASSUME RequestInv, NEW r \in Request, Activates(r)
  PROVE  RequestInv'
<1>1. Shape /\ Progress
  BY DEF RequestInv
<1> DEFINE own == IF ops[r].kind = "preview" THEN session.nextPreviewId ELSE 0
<1>2. PICK at \in {"running", "ran"} :
        Becomes(r, [ops[r] EXCEPT !.at = at, !.id = session.nextCalculationId, !.base = session.engine,
                      !.preview = own])
  BY DEF Activates
<1>3. ops[r].kind \in Calculations /\ ops[r].at = "asked" /\ UNCHANGED holder
  BY DEF Activates
<1>4. /\ ops[r] \in OpState /\ ops[r].answer = "none" /\ ops[r].changed = FALSE
      /\ own \in Nat /\ own < session.nextPreviewId + 1
  BY <1>1, <1>3, Fields DEF Progress
<1>5. /\ session' \in SessionState
      /\ session'.active = [id |-> session.nextCalculationId, token |-> r]
      /\ session'.nextCalculationId = session.nextCalculationId + 1
      /\ session'.engine = session.engine /\ session'.preview = session.preview
      /\ session'.nextPreviewId \in {session.nextPreviewId, session.nextPreviewId + 1}
      /\ ops[r].kind = "preview" => session'.nextPreviewId = session.nextPreviewId + 1
  BY <1>1, Activation DEF Activates
<1>6. /\ ops' \in [Request -> OpState]
      /\ \A q \in Request : q # r => ops'[q] = ops[q]
      /\ ops'[r].kind = ops[r].kind /\ ops'[r].at \in {"running", "ran"}
      /\ ops'[r].id = session.nextCalculationId /\ ops'[r].preview = own
      /\ ops'[r].answer = "none" /\ ops'[r].changed = FALSE
  <2> HIDE DEF own
  <2> DEFINE op == [ops[r] EXCEPT !.at = at, !.id = session.nextCalculationId, !.base = session.engine,
                      !.preview = own]
  <2>1. /\ op \in OpState
        /\ op.kind = ops[r].kind /\ op.at = at /\ op.id = session.nextCalculationId
        /\ op.preview = own /\ op.answer = "none"
    BY <1>1, <1>4, Fields DEF OpState
  <2>2. op.changed = FALSE
    BY <1>4 DEF OpState
  <2> HIDE DEF op
  <2>3. Becomes(r, op)
    BY <1>2 DEF op
  <2> QED
    BY <1>1, <2>1, <2>2, <2>3, BecomesFacts
<1>7. session'.active # None /\ session'.active.id = session.nextCalculationId
  BY <1>1, <1>5, Fields DEF None
<1>8. \A q \in Request : q # r => ops'[q].id # session'.active.id
  BY <1>1, <1>6, <1>7, Fields DEF Progress
<1>9. Shape'
  BY <1>5, <1>6 DEF Shape
<1>10. Progress'
  <2>1. ops'[r].preview < session'.nextPreviewId
    BY <1>1, <1>5, <1>6, Fields
  <2> HIDE DEF own
  <2> QED
    BY <1>1, <1>3, <1>5, <1>6, <2>1, Fields DEF Progress, Calculations
<1> HIDE DEF own
<1>11. ActiveRequestIsServed'
  BY <1>6, <1>7 DEF ActiveRequestIsServed
<1>12. CancelledRequestChangedNothing'
  BY <1>6 DEF RequestInv, CancelledRequestChangedNothing
<1>13. PublishedPreviewIsCurrent'
  BY <1>5 DEF RequestInv, PublishedPreviewIsCurrent, CalculationCurrent
<1>14. StagedUnderLock'
  BY <1>3, <1>5, <1>6 DEF RequestInv, StagedUnderLock
<1>15. PreviewOrder'
  <2>1. \A q \in Request : ConsumedBy(q)' => ConsumedBy(q) /\ q # r
    BY <1>6 DEF ConsumedBy
  <2>2. ops'[r].kind = "preview" => ops'[r].preview = session.nextPreviewId
    BY <1>6 DEF own
  <2>3. \A q \in Request : ConsumedBy(q) => ops[q].preview < session.nextPreviewId
    BY <1>1 DEF Progress
  <2> QED
    BY <1>1, <1>5, <1>6, <1>7, <1>8, <2>1, <2>2, <2>3, Fields DEF RequestInv, PreviewOrder
<1> QED
  BY <1>9, <1>10, <1>11, <1>12, <1>13, <1>14, <1>15 DEF RequestInv

(* A request goes on without touching the session.                         *)
LEMMA MovesKeeps ==
  ASSUME RequestInv, NEW r \in Request, Moves(r)
  PROVE  RequestInv'
<1>1. Shape /\ Progress
  BY DEF RequestInv
<1>2. UNCHANGED <<session, holder>>
  BY DEF Moves
<1>3. ops[r].at \notin {"idle", "done"}
  BY DEF Moves
<1>4. ops[r] \in OpState /\ ops[r].answer = "none" /\ ops[r].changed = FALSE
  BY <1>1, <1>3, Fields DEF Progress
<1>5. /\ ops' \in [Request -> OpState]
      /\ \A q \in Request : q # r => ops'[q] = ops[q]
      /\ ops'[r].kind = ops[r].kind /\ ops'[r].id = ops[r].id /\ ops'[r].preview = ops[r].preview
      /\ ops'[r].base = ops[r].base /\ ops'[r].answer = "none" /\ ops'[r].changed = FALSE
      /\ \/ ops'[r].at = ops[r].at
         \/ /\ ops[r].kind \in Calculations /\ ops[r].at \in {"running", "ran"}
            /\ ops'[r].at \in {"ran", "broke", "ready"}
         \/ ops[r].kind = "commit" /\ ops'[r].at = "receipt"
  <2>1. ASSUME NEW at \in {"ran", "broke", "ready", "receipt"}, Becomes(r, [ops[r] EXCEPT !.at = at])
        PROVE  /\ ops' \in [Request -> OpState]
               /\ \A q \in Request : q # r => ops'[q] = ops[q]
               /\ ops'[r].kind = ops[r].kind /\ ops'[r].id = ops[r].id /\ ops'[r].preview = ops[r].preview
               /\ ops'[r].base = ops[r].base /\ ops'[r].answer = "none" /\ ops'[r].changed = FALSE
               /\ ops'[r].at = at
    <3> DEFINE op == [ops[r] EXCEPT !.at = at]
    <3>1. /\ op \in OpState /\ op.kind = ops[r].kind /\ op.id = ops[r].id /\ op.preview = ops[r].preview
          /\ op.base = ops[r].base /\ op.answer = "none" /\ op.at = at
      BY <1>4 DEF OpState
    <3>2. op.changed = FALSE
      BY <1>4 DEF OpState
    <3> HIDE DEF op
    <3>3. Becomes(r, op)
      BY <2>1 DEF op
    <3> QED
      BY <1>1, <3>1, <3>2, <3>3, BecomesFacts
  <2>2. CASE Becomes(r, [ops[r] EXCEPT !.quit = TRUE])
    <3> DEFINE op == [ops[r] EXCEPT !.quit = TRUE]
    <3>1. /\ op \in OpState /\ op.kind = ops[r].kind /\ op.id = ops[r].id /\ op.preview = ops[r].preview
          /\ op.base = ops[r].base /\ op.answer = "none" /\ op.at = ops[r].at
      BY <1>4 DEF OpState
    <3>2. op.changed = FALSE
      BY <1>4 DEF OpState
    <3> HIDE DEF op
    <3>3. Becomes(r, op)
      BY <2>2 DEF op
    <3> QED
      BY <1>1, <3>1, <3>2, <3>3, BecomesFacts
  <2>3. CASE /\ ops[r].kind \in Calculations /\ ops[r].at \in {"running", "ran"}
             /\ \E at \in {"ran", "broke", "ready"} : Becomes(r, [ops[r] EXCEPT !.at = at])
    BY <2>1, <2>3
  <2>4. CASE ops[r].kind = "commit" /\ Becomes(r, [ops[r] EXCEPT !.at = "receipt"])
    BY <2>1, <2>4
  <2> QED
    BY <2>2, <2>3, <2>4 DEF Moves
<1>6. ops'[r].at \notin {"idle", "done"} /\ (ops[r].id # 0 => ops'[r].at \in {"running", "ran", "broke", "ready"})
  BY <1>1, <1>3, <1>5 DEF Progress, Calculations
<1>7. Shape'
  BY <1>1, <1>2, <1>5 DEF Shape
<1>8. Progress'
  BY <1>1, <1>2, <1>5, <1>6 DEF Progress, Calculations
<1>9. ActiveRequestIsServed'
  BY <1>2, <1>5, <1>6 DEF RequestInv, ActiveRequestIsServed
<1>10. CancelledRequestChangedNothing'
  BY <1>5 DEF RequestInv, CancelledRequestChangedNothing
<1>11. PublishedPreviewIsCurrent'
  BY <1>2 DEF RequestInv, PublishedPreviewIsCurrent, CalculationCurrent
<1>12. StagedUnderLock'
  BY <1>2, <1>5 DEF RequestInv, StagedUnderLock
<1>13. PreviewOrder'
  <2>1. \A q \in Request : ConsumedBy(q)' => ConsumedBy(q) /\ q # r
    BY <1>5, <1>6 DEF ConsumedBy
  <2> QED
    BY <1>2, <1>5, <2>1 DEF RequestInv, PreviewOrder
<1> QED
  BY <1>7, <1>8, <1>9, <1>10, <1>11, <1>12, <1>13 DEF RequestInv

(* A request is answered.                                                  *)
LEMMA AnswerFacts ==
  ASSUME Shape, NEW r \in Request, NEW answer \in {"ok", "failed", "cancelled"}, NEW changed \in BOOLEAN,
         Becomes(r, Answered(r, answer, changed))
  PROVE  /\ ops' \in [Request -> OpState]
         /\ \A q \in Request : q # r => ops'[q] = ops[q]
         /\ ops'[r].kind = ops[r].kind /\ ops'[r].at = "done" /\ ops'[r].id = 0
         /\ ops'[r].preview = ops[r].preview /\ ops'[r].answer = answer /\ ops'[r].changed = changed
<1> DEFINE op == Answered(r, answer, changed)
<1>1. /\ op \in OpState
      /\ op.kind = ops[r].kind /\ op.at = "done" /\ op.id = 0 /\ op.preview = ops[r].preview
      /\ op.answer = answer /\ op.changed = changed
  BY AnsweredIsDone
<1>2. Becomes(r, op)
  OBVIOUS
<1> HIDE DEF op
<1>3. ops'[r] = op /\ ops' \in [Request -> OpState] /\ \A q \in Request : q # r => ops'[q] = ops[q]
  BY <1>1, <1>2, BecomesFacts
<1>4. ops'[r].changed = changed
  BY <1>1, <1>3, Zenon
<1> QED
  BY <1>1, <1>3, <1>4

(* What answering keeps of Progress.                                       *)
LEMMA AnswerProgress ==
  ASSUME Shape, Progress, NEW r \in Request, ops[r].at # "idle",
         \A q \in Request : q # r => ops'[q] = ops[q],
         ops'[r].kind = ops[r].kind, ops'[r].at = "done", ops'[r].id = 0,
         ops'[r].preview = ops[r].preview,
         session'.nextCalculationId = session.nextCalculationId,
         session'.nextPreviewId = session.nextPreviewId
  PROVE  Progress'
  BY Fields DEF Progress

(* A request ends, with an error or cancelled.                             *)
LEMMA EndsKeeps ==
  ASSUME RequestInv, NEW r \in Request, Ends(r)
  PROVE  RequestInv'
<1>1. Shape /\ Progress
  BY DEF RequestInv
<1>2. PICK answer \in {"failed", "cancelled"} : Becomes(r, Answered(r, answer, FALSE))
  BY DEF Ends
<1>3. /\ ops[r].at \notin {"idle", "done"}
      /\ ops[r].at = "staged" => holder' = Nobody
      /\ ops[r].at # "staged" => holder' = holder
  BY <1>1 DEF Ends, Progress
<1>4. /\ ops' \in [Request -> OpState]
      /\ \A q \in Request : q # r => ops'[q] = ops[q]
      /\ ops'[r].kind = ops[r].kind /\ ops'[r].at = "done" /\ ops'[r].id = 0
      /\ ops'[r].preview = ops[r].preview /\ ops'[r].answer = answer /\ ops'[r].changed = FALSE
  BY <1>1, <1>2, AnswerFacts
<1>5. /\ session' \in SessionState
      /\ session'.active = None \/ (session'.active = session.active /\ session.active.id # ops[r].id)
      /\ session'.engine = session.engine /\ session'.preview = session.preview
      /\ session'.nextCalculationId = session.nextCalculationId
      /\ session'.nextPreviewId = session.nextPreviewId
  <2>1. CASE session' = AbandonRecalculation(session, ops[r].id)
    BY <1>1, <2>1, Abandoning, Fields
  <2>2. CASE ops[r].id = 0 /\ UNCHANGED session
    BY <1>1, <2>2, Fields DEF Shape
  <2> QED
    BY <2>1, <2>2 DEF Ends
<1>6. Shape'
  BY <1>4, <1>5 DEF Shape
<1>7. Progress'
  BY <1>1, <1>3, <1>4, <1>5, AnswerProgress
<1>8. ActiveRequestIsServed'
  BY <1>1, <1>4, <1>5, Fields DEF RequestInv, ActiveRequestIsServed
<1>9. CancelledRequestChangedNothing'
  BY <1>4 DEF RequestInv, CancelledRequestChangedNothing
<1>10. PublishedPreviewIsCurrent'
  BY <1>5 DEF RequestInv, PublishedPreviewIsCurrent, CalculationCurrent
<1>11. StagedUnderLock'
  BY <1>3, <1>4, <1>5 DEF RequestInv, StagedUnderLock
<1>12. PreviewOrder'
  <2>1. \A q \in Request : ConsumedBy(q)' => ConsumedBy(q) /\ q # r
    BY <1>2, <1>4 DEF ConsumedBy
  <2> QED
    BY <1>1, <1>4, <1>5, <2>1, Fields DEF RequestInv, PreviewOrder
<1> QED
  BY <1>6, <1>7, <1>8, <1>9, <1>10, <1>11, <1>12 DEF RequestInv

(* The active calculation is installed, published or just answered.        *)
LEMMA CompletesKeeps ==
  ASSUME RequestInv, NEW r \in Request, Completes(r)
  PROVE  RequestInv'
<1>1. Shape /\ Progress
  BY DEF RequestInv
<1>2. /\ ops[r].kind \in Calculations /\ ops[r].at = "ready" /\ holder = Nobody /\ UNCHANGED holder
      /\ session.active.id = ops[r].id
      /\ Becomes(r, Answered(r, "ok", ops[r].kind # "targets"))
  BY DEF Completes, Free, RequireActive
<1>3. /\ ops' \in [Request -> OpState]
      /\ \A q \in Request : q # r => ops'[q] = ops[q]
      /\ ops'[r].kind = ops[r].kind /\ ops'[r].at = "done" /\ ops'[r].id = 0
      /\ ops'[r].preview = ops[r].preview /\ ops'[r].answer = "ok"
  <2> DEFINE changed == ops[r].kind # "targets"
  <2>1. changed \in BOOLEAN /\ Becomes(r, Answered(r, "ok", changed))
    BY <1>2
  <2> HIDE DEF changed
  <2> QED
    BY <1>1, <2>1, AnswerFacts
<1>4. /\ session' \in SessionState
      /\ session'.active = None
      /\ session'.nextCalculationId = session.nextCalculationId
      /\ session'.nextPreviewId = session.nextPreviewId
      /\ ops[r].kind = "recalculate" => session'.preview = None
      /\ ops[r].kind # "recalculate" => session'.engine = session.engine
      /\ ops[r].kind = "targets" => session'.preview = session.preview
      /\ ops[r].kind = "preview" =>
           session'.preview = [id |-> ops[r].preview, base |-> ops[r].base, batch |-> ops[r].batch]
  BY <1>1, <1>2, Completing DEF Completes
<1>5. ops[r].kind = "preview" => CalculationCurrent(session, ops[r].base)
  BY DEF Completes, Current, TransactionCurrent
<1>6. \A q \in Request : ops[q].at # "staged"
  BY <1>2, RequestAssumption DEF RequestInv, StagedUnderLock
<1>7. Shape'
  BY <1>3, <1>4 DEF Shape
<1>8. Progress'
  BY <1>1, <1>2, <1>3, <1>4, AnswerProgress
<1>9. ActiveRequestIsServed'
  BY <1>4 DEF ActiveRequestIsServed
<1>10. CancelledRequestChangedNothing'
  BY <1>3 DEF RequestInv, CancelledRequestChangedNothing
<1>11. PublishedPreviewIsCurrent'
  BY <1>2, <1>4, <1>5 DEF RequestInv, PublishedPreviewIsCurrent, CalculationCurrent, Calculations
<1>12. StagedUnderLock'
  BY <1>3, <1>6 DEF StagedUnderLock
<1>13. PreviewOrder'
  <2>1. \A q \in Request : ConsumedBy(q)' => ConsumedBy(q) /\ q # r
    BY <1>2, <1>3 DEF ConsumedBy, Calculations
  <2>2. \A q \in Request : ops'[q].id # 0 => session'.active.id # ops'[q].id
    BY <1>1, <1>4, Fields
  <2>3. session'.active = None
    BY <1>4
  <2>4. CASE ops[r].kind = "recalculate"
    BY <1>4, <2>2, <2>3, <2>4 DEF PreviewOrder
  <2>5. CASE ops[r].kind = "targets"
    BY <1>3, <1>4, <2>1, <2>2, <2>3, <2>5 DEF RequestInv, PreviewOrder
  <2>6. CASE ops[r].kind = "preview"
    <3>1. session'.preview.id = ops[r].preview /\ ops[r].preview < session'.nextPreviewId
      BY <1>1, <1>4, <2>6 DEF Progress
    <3>2. ASSUME NEW q \in Request, ConsumedBy(q)', ops[r].id # 0 PROVE ops'[q].preview < session'.preview.id
      BY <1>2, <1>3, <2>1, <2>6, <3>1, <3>2 DEF RequestInv, PreviewOrder
    <3>3. ops[r].id # 0
      BY <1>1, <1>2 DEF Progress
    <3> QED
      BY <2>2, <2>3, <3>1, <3>2, <3>3 DEF PreviewOrder
  <2> QED
    BY <1>2, <2>4, <2>5, <2>6 DEF Calculations
<1> QED
  BY <1>7, <1>8, <1>9, <1>10, <1>11, <1>12, <1>13 DEF RequestInv

(* A batch is staged, and the lock kept.                                   *)
LEMMA StagesKeeps ==
  ASSUME RequestInv, NEW r \in Request, Stages(r)
  PROVE  RequestInv'
<1>1. Shape /\ Progress
  BY DEF RequestInv
<1>2. /\ ops[r].kind = "apply" /\ ops[r].at = "asked" /\ holder = Nobody /\ holder' = r /\ UNCHANGED session
      /\ Becomes(r, [ops[r] EXCEPT !.at = "staged", !.base = session.engine])
  BY DEF Stages, Free
<1>3. ops[r] \in OpState /\ ops[r].answer = "none" /\ ops[r].changed = FALSE /\ ops[r].id = 0
  BY <1>1, <1>2, Fields DEF Progress
<1>4. /\ ops' \in [Request -> OpState]
      /\ \A q \in Request : q # r => ops'[q] = ops[q]
      /\ ops'[r].kind = "apply" /\ ops'[r].at = "staged" /\ ops'[r].base = session.engine
      /\ ops'[r].id = 0 /\ ops'[r].preview = ops[r].preview
      /\ ops'[r].answer = "none" /\ ops'[r].changed = FALSE
  <2> DEFINE op == [ops[r] EXCEPT !.at = "staged", !.base = session.engine]
  <2>1. /\ op \in OpState /\ op.kind = "apply" /\ op.at = "staged" /\ op.base = session.engine
        /\ op.id = 0 /\ op.preview = ops[r].preview /\ op.answer = "none"
    BY <1>1, <1>2, <1>3, Fields DEF OpState
  <2>2. op.changed = FALSE
    BY <1>3 DEF OpState
  <2>3. Becomes(r, op)
    BY <1>2
  <2> HIDE DEF op
  <2> QED
    BY <1>1, <2>1, <2>2, <2>3, BecomesFacts
<1>5. \A q \in Request : ops[q].at # "staged"
  BY <1>2, RequestAssumption DEF RequestInv, StagedUnderLock
<1>6. Shape'
  BY <1>1, <1>2, <1>4 DEF Shape
<1>7. Progress'
  BY <1>1, <1>2, <1>4, Fields DEF Progress
<1>8. ActiveRequestIsServed'
  BY <1>1, <1>2, <1>3, <1>4, Fields DEF RequestInv, ActiveRequestIsServed
<1>9. CancelledRequestChangedNothing'
  BY <1>4 DEF RequestInv, CancelledRequestChangedNothing
<1>10. PublishedPreviewIsCurrent'
  BY <1>2 DEF RequestInv, PublishedPreviewIsCurrent, CalculationCurrent
<1>11. StagedUnderLock'
  BY <1>2, <1>4, <1>5 DEF StagedUnderLock
<1>12. PreviewOrder'
  <2>1. \A q \in Request : ConsumedBy(q)' => ConsumedBy(q) /\ q # r
    BY <1>4 DEF ConsumedBy
  <2> QED
    BY <1>2, <1>4, <2>1 DEF RequestInv, PreviewOrder
<1> QED
  BY <1>6, <1>7, <1>8, <1>9, <1>10, <1>11, <1>12 DEF RequestInv

(* The staged batch is installed, and the lock returned.                   *)
LEMMA EditsKeeps ==
  ASSUME RequestInv, NEW r \in Request, Edits(r)
  PROVE  RequestInv'
<1>1. Shape /\ Progress
  BY DEF RequestInv
<1>2. /\ ops[r].kind = "apply" /\ ops[r].at = "staged" /\ holder' = Nobody
      /\ Becomes(r, Answered(r, "ok", TRUE)) /\ session' = InstallChanges(session, ops[r].batch)
  BY DEF Edits
<1>3. /\ ops' \in [Request -> OpState]
      /\ \A q \in Request : q # r => ops'[q] = ops[q]
      /\ ops'[r].kind = "apply" /\ ops'[r].at = "done" /\ ops'[r].id = 0
      /\ ops'[r].preview = ops[r].preview /\ ops'[r].answer = "ok"
  BY <1>1, <1>2, AnswerFacts
<1>4. /\ session' \in SessionState
      /\ session'.active = session.active
      /\ session'.nextCalculationId = session.nextCalculationId
      /\ session'.nextPreviewId = session.nextPreviewId
      /\ session'.engine.cursor = session.engine.cursor
      /\ \/ session'.preview = None
         \/ session'.preview = session.preview /\ session'.engine.revision = session.engine.revision
  <2>1. ops[r].batch \in Batch
    BY <1>1, Fields DEF OpState
  <2> QED
    BY <1>1, <1>2, <2>1, Editing
<1>5. \A q \in Request : q # r => ops[q].at # "staged"
  BY <1>2 DEF RequestInv, StagedUnderLock
<1>6. ops[r].id = 0
  BY <1>1, <1>2 DEF Progress
<1>7. Shape'
  BY <1>3, <1>4 DEF Shape
<1>8. Progress'
  BY <1>1, <1>2, <1>3, <1>4, AnswerProgress
<1>9. ActiveRequestIsServed'
  BY <1>1, <1>3, <1>4, <1>6, Fields DEF RequestInv, ActiveRequestIsServed
<1>10. CancelledRequestChangedNothing'
  BY <1>3 DEF RequestInv, CancelledRequestChangedNothing
<1>11. PublishedPreviewIsCurrent'
  BY <1>4 DEF RequestInv, PublishedPreviewIsCurrent, CalculationCurrent
<1>12. StagedUnderLock'
  BY <1>3, <1>5 DEF StagedUnderLock
<1>13. PreviewOrder'
  <2>1. \A q \in Request : ConsumedBy(q)' => ConsumedBy(q) /\ q # r
    BY <1>3 DEF ConsumedBy
  <2> QED
    BY <1>3, <1>4, <2>1 DEF RequestInv, PreviewOrder
<1> QED
  BY <1>7, <1>8, <1>9, <1>10, <1>11, <1>12, <1>13 DEF RequestInv

(* The published preview is committed, refused or discarded.               *)
LEMMA ConsumesKeeps ==
  ASSUME RequestInv, NEW r \in Request, Consumes(r)
  PROVE  RequestInv'
<1>1. Shape /\ Progress
  BY DEF RequestInv
<1>2. /\ ops[r].kind \in {"commit", "discard"} /\ ops[r].at \in {"asked", "receipt"}
      /\ holder = Nobody /\ UNCHANGED holder
      /\ session.preview.id = ops[r].preview /\ session.preview # None
      /\ session' \in {CommitPreview(session), TakePublished(session)}
  BY <1>1, Fields DEF Consumes, Free, Published
<1>3. PICK answer \in {"ok", "failed"} : Becomes(r, Answered(r, answer, TRUE))
  BY DEF Consumes
<1>4. /\ ops' \in [Request -> OpState]
      /\ \A q \in Request : q # r => ops'[q] = ops[q]
      /\ ops'[r].kind = ops[r].kind /\ ops'[r].at = "done" /\ ops'[r].id = 0
      /\ ops'[r].preview = ops[r].preview /\ ops'[r].answer = answer
  BY <1>1, <1>3, AnswerFacts
<1>5. /\ session' \in SessionState
      /\ session'.active = session.active /\ session'.preview = None
      /\ session'.nextCalculationId = session.nextCalculationId
      /\ session'.nextPreviewId = session.nextPreviewId
  BY <1>1, <1>2, Consuming
<1>6. \A q \in Request : ops[q].at # "staged"
  BY <1>2, RequestAssumption DEF RequestInv, StagedUnderLock
<1>7. ops[r].id = 0
  BY <1>1, <1>2 DEF Progress
<1>8. Shape'
  BY <1>4, <1>5 DEF Shape
<1>9. Progress'
  BY <1>1, <1>2, <1>4, <1>5, AnswerProgress
<1>10. ActiveRequestIsServed'
  BY <1>1, <1>4, <1>5, <1>7, Fields DEF RequestInv, ActiveRequestIsServed
<1>11. CancelledRequestChangedNothing'
  BY <1>3, <1>4 DEF RequestInv, CancelledRequestChangedNothing
<1>12. PublishedPreviewIsCurrent'
  BY <1>5 DEF PublishedPreviewIsCurrent
<1>13. StagedUnderLock'
  BY <1>4, <1>6 DEF StagedUnderLock
<1>14. PreviewOrder'
  <2>1. \A q \in Request : ConsumedBy(q)' => ConsumedBy(q) \/ q = r
    BY <1>4 DEF ConsumedBy
  <2> QED
    BY <1>2, <1>4, <1>5, <2>1 DEF RequestInv, PreviewOrder
<1> QED
  BY <1>8, <1>9, <1>10, <1>11, <1>12, <1>13, <1>14 DEF RequestInv

-----------------------------------------------------------------------------
(* Every step keeps the invariant.                                         *)
LEMMA RequestStep == RequestInv /\ [Next]_vars => RequestInv'
<1> SUFFICES ASSUME RequestInv, [Next]_vars PROVE RequestInv'
  OBVIOUS
<1>1. Shape /\ Progress
  BY DEF RequestInv
<1>2. CASE UNCHANGED <<session, ops, holder>>
  BY <1>2 DEF RequestInv, Shape, Progress, ActiveRequestIsServed, CancelledRequestChangedNothing,
     PublishedPreviewIsCurrent, CalculationCurrent, StagedUnderLock, PreviewOrder, ConsumedBy
<1>3. CASE UNCHANGED vars
  BY <1>2, <1>3 DEF vars
<1>4. ASSUME NEW r \in Request, Ask(r) \/ Withdraw(r) \/ Serve(r) PROVE RequestInv'
  BY <1>1, <1>2, <1>4, ActionEffects, AsksKeeps, ActivatesKeeps, MovesKeeps, EndsKeeps, CompletesKeeps,
     StagesKeeps, EditsKeeps, ConsumesKeeps
<1> QED
  BY <1>3, <1>4 DEF Next

(* It holds for any number of requests.                                    *)
LEMMA RequestsKeepInvariant == Spec => []RequestInv
  BY RequestInit, RequestStep, PTL DEF Spec

(* For any number of requests: the active request is one that some handler *)
(* still serves, whatever was cancelled, refused or superseded             *)
(* (abandon_recalculation on every way out of a handler).                  *)
THEOREM ActiveRequestsAreServed == Spec => []ActiveRequestIsServed
<1>1. RequestInv => ActiveRequestIsServed
  BY DEF RequestInv
<1> QED
  BY <1>1, RequestsKeepInvariant, PTL

(* For any number of requests: one that answers that it was cancelled has  *)
(* installed, published, committed and discarded nothing.                  *)
THEOREM CancelledRequestsChangeNothing == Spec => []CancelledRequestChangedNothing
<1>1. RequestInv => CancelledRequestChangedNothing
  BY DEF RequestInv
<1> QED
  BY <1>1, RequestsKeepInvariant, PTL

(* For any number of requests: the lock kept from preparation through      *)
(* installation keeps the staged batch current (workbook_apply_changes).   *)
THEOREM StagedBatchesStayCurrent == Spec => []StagedBatchStaysCurrent
<1>1. RequestInv => StagedBatchStaysCurrent
  BY DEF RequestInv, StagedUnderLock, StagedBatchStaysCurrent, At
<1> QED
  BY <1>1, RequestsKeepInvariant, PTL

(* For any number of requests: the published preview is of the revision    *)
(* and the results the session has (publish_preview, install_changes,      *)
(* install_recalculation).                                                 *)
THEOREM PublishedPreviewsAreCurrent == Spec => []PublishedPreviewIsCurrent
<1>1. RequestInv => PublishedPreviewIsCurrent
  BY DEF RequestInv
<1> QED
  BY <1>1, RequestsKeepInvariant, PTL

(* For any number of requests: no preview that was committed or discarded, *)
(* and none published before it, is ever published again (require_active   *)
(* in publish_preview).                                                    *)
THEOREM ConsumedPreviewsNeverReturn == Spec => []ConsumedPreviewsStayConsumed
<1>1. RequestInv => ConsumedPreviewsStayConsumed
  <2> SUFFICES ASSUME RequestInv, NEW r \in Request, session.preview # None,
                      At(r, {"commit", "discard"}, {"done"}), ops[r].answer = "ok"
               PROVE  session.preview.id > ops[r].preview
    BY DEF ConsumedPreviewsStayConsumed
  <2>1. ConsumedBy(r)
    BY DEF At, ConsumedBy
  <2>2. session.preview.id \in Nat /\ ops[r].preview \in Nat
    BY Fields DEF RequestInv
  <2> QED
    BY <2>1, <2>2 DEF RequestInv, PreviewOrder
<1> QED
  BY <1>1, RequestsKeepInvariant, PTL

-----------------------------------------------------------------------------
(* The cache of sessions: what a handler may be doing.                     *)
Handler == {Idle} \union UseOp \union SourceOp \union ImportOp \union TouchOp

(* A handler that waits for a lock is in the queue for it.                 *)
WaitersAreQueued ==
  \A c \in Client : Working(handlers[c]) /\ handlers[c].waits =>
    \E i \in 1 .. Len(queues[Wanted(handlers[c])]) : queues[Wanted(handlers[c])][i] = c

CacheInv ==
  /\ CacheTypeOK
  /\ WaitersAreQueued
  /\ CapacityHolds
  /\ HeldSessionsStayResident

(* The resident sessions after a step that removes some nobody holds.      *)
Shrunk(e) ==
  /\ DOMAIN e \subseteq DOMAIN entries
  /\ \A id \in DOMAIN e : e[id] \in 0 .. clock
  /\ \A id \in DOMAIN entries \ DOMAIN e : Unshared(id)

(* What a filter of the cache keeps.                                       *)
LEMMA Filtered ==
  ASSUME CacheTypeOK, NEW S, S \subseteq DOMAIN entries,
         \A id \in DOMAIN entries \ S : Unshared(id)
  PROVE  /\ DOMAIN Restrict(entries, S) = S
         /\ Shrunk(Restrict(entries, S))
  BY DEF CacheTypeOK, Restrict, Shrunk

(* prune_expired removes what nobody holds, and only expired sessions.     *)
LEMMA PrunedFacts ==
  ASSUME CacheTypeOK
  PROVE  /\ DOMAIN Pruned = {id \in DOMAIN entries : ~Expired(id)}
         /\ Shrunk(Pruned)
<1> DEFINE S == {id \in DOMAIN entries : ~Expired(id)}
<1>1. Pruned = Restrict(entries, S)
  BY DEF Pruned, RestrictDomain
<1>2. \A id \in DOMAIN entries \ S : Unshared(id)
  BY DEF Expired
<1> HIDE DEF S
<1>3. S \subseteq DOMAIN entries
  BY DEF S
<1>4. DOMAIN Pruned = S /\ Shrunk(Pruned)
  BY <1>1, <1>2, <1>3, Filtered
<1> QED
  BY <1>4 DEF S

(* get removes what nobody holds, and keeps what it found.                 *)
LEMMA AfterGetFacts ==
  ASSUME CacheTypeOK, NEW id
  PROVE  /\ Shrunk(AfterGet(id))
         /\ Found(id) => id \in DOMAIN AfterGet(id)
<1>1. CASE Found(id)
  <2>1. AfterGet(id) = [Pruned EXCEPT ![id] = clock]
    BY <1>1 DEF AfterGet
  <2>2. id \in DOMAIN Pruned /\ clock \in 0 .. clock
    BY <1>1, PrunedFacts DEF Found, CacheTypeOK
  <2>3. DOMAIN AfterGet(id) = DOMAIN Pruned
        /\ \A i \in DOMAIN Pruned : AfterGet(id)[i] = IF i = id THEN clock ELSE Pruned[i]
    BY <2>1
  <2> QED
    BY <2>2, <2>3, PrunedFacts DEF Shrunk
<1>2. CASE ~Found(id) /\ id \in DOMAIN entries
  <2> DEFINE S == {i \in DOMAIN entries : i # id}
  <2>1. AfterGet(id) = Restrict(entries, S)
    BY <1>2 DEF AfterGet, RestrictDomain
  <2>2. \A i \in DOMAIN entries \ S : Unshared(i)
    BY <1>2 DEF Found, Expired
  <2>3. S \subseteq DOMAIN entries
    OBVIOUS
  <2> HIDE DEF S
  <2> QED
    BY <1>2, <2>1, <2>2, <2>3, Filtered
<1>3. CASE ~Found(id) /\ id \notin DOMAIN entries
  BY <1>3, PrunedFacts DEF AfterGet
<1> QED
  BY <1>1, <1>2, <1>3

(* The cache holds finitely many sessions.                                 *)
LEMMA EntriesAreFinite ==
  ASSUME CacheTypeOK
  PROVE  IsFiniteSet(DOMAIN entries) /\ Cardinality(DOMAIN entries) \in Nat
<1>1. IsFiniteSet(Id)
  BY CacheAssumption, FS_Interval DEF Id
<1>2. IsFiniteSet(DOMAIN entries)
  BY <1>1, FS_Subset DEF CacheTypeOK
<1> QED
  BY <1>2, FS_CardinalityType

(* What a step that only removes sessions nobody holds leaves true.        *)
LEMMA ShrunkStep ==
  ASSUME CacheInv, Shrunk(entries'), clock' = clock
  PROVE  /\ DOMAIN entries' \subseteq Id /\ \A id \in DOMAIN entries' : entries'[id] \in 0 .. clock'
         /\ CapacityHolds'
         /\ \A c \in Client : Holds(handlers[c]) \subseteq DOMAIN entries'
<1>1. DOMAIN entries' \subseteq DOMAIN entries /\ CacheTypeOK
  BY DEF Shrunk, CacheInv
<1>2. Cardinality(DOMAIN entries') <= Cardinality(DOMAIN entries) /\ IsFiniteSet(DOMAIN entries')
  BY <1>1, EntriesAreFinite, FS_Subset
<1>3. Cardinality(DOMAIN entries') \in Nat
  BY <1>2, FS_CardinalityType
<1>4. CapacityHolds'
  BY <1>1, <1>2, <1>3, EntriesAreFinite, CacheAssumption DEF CapacityHolds, CacheInv
<1>5. \A c \in Client : Holds(handlers[c]) \subseteq DOMAIN entries'
  BY DEF Shrunk, Unshared, CacheInv, HeldSessionsStayResident
<1> QED
  BY <1>1, <1>4, <1>5 DEF Shrunk, CacheTypeOK

(* What a handler is follows from its kind.                                *)
LEMMA HandlerKinds ==
  ASSUME NEW op \in Handler
  PROVE  /\ op.kind = "idle" <=> op = Idle
         /\ op.kind = "use" <=> op \in UseOp
         /\ op.kind = "source" <=> op \in SourceOp
         /\ op.kind = "import" <=> op \in ImportOp
         /\ op.kind = "touch" <=> op \in TouchOp
         /\ op.kind \in {"idle", "use", "source", "import", "touch"}
  BY DEF Handler, Idle, UseOp, SourceOp, ImportOp, TouchOp

(* A handler that asks for a lock holds what it held.                      *)
LEMMA LockedHandler ==
  ASSUME NEW op \in UseOp \union ImportOp
  PROVE  LET later == [op EXCEPT !.waits = TRUE] IN
         /\ later \in Handler /\ Wanted(later) = Wanted(op) /\ Holds(later) = Holds(op)
         /\ Wanted(op) \in Id
<1> DEFINE later == [op EXCEPT !.waits = TRUE]
<1>1. CASE op \in UseOp
  <2>1. later \in UseOp /\ later.id = op.id /\ later.kind = "use" /\ op.kind = "use" /\ op.id \in Id
    BY <1>1 DEF UseOp
  <2> HIDE DEF later
  <2>2. /\ later \in Handler /\ Wanted(later) = Wanted(op) /\ Holds(later) = Holds(op)
        /\ Wanted(op) \in Id
    BY <2>1 DEF Handler, Wanted, Holds
  <2> QED
    BY <2>2 DEF later
<1>2. CASE op \in ImportOp
  <2>1. /\ later \in ImportOp /\ later.id = op.id /\ later.source = op.source /\ later.left = op.left
        /\ later.kind = "import" /\ op.kind = "import" /\ op.id \in Id /\ op.source \in Id
    BY <1>2 DEF ImportOp
  <2> HIDE DEF later
  <2>2. /\ later \in Handler /\ Wanted(later) = Wanted(op) /\ Holds(later) = Holds(op)
        /\ Wanted(op) \in Id
    BY <2>1 DEF Handler, Wanted, Holds
  <2> QED
    BY <2>2 DEF later
<1> QED
  BY <1>1, <1>2

(* A handler that returns a lock holds no more than it held.               *)
LEMMA UnlockedHandler ==
  ASSUME NEW op \in UseOp \union ImportOp, op.left > 0
  PROVE  LET later == [op EXCEPT !.waits = FALSE, !.left = @ - 1] IN
         /\ later \in Handler /\ ~later.waits /\ Holds(later) \subseteq Holds(op)
         /\ Wanted(op) \in Id
<1> DEFINE later == [op EXCEPT !.waits = FALSE, !.left = @ - 1]
<1>1. CASE op \in UseOp
  <2>a. op.left - 1 \in 0 .. 3 /\ op.id \in Id /\ op.kind = "use"
    BY <1>1 DEF UseOp
  <2>b. ~later.waits
    BY <1>1, Zenon DEF UseOp
  <2> DEFINE n == op.left - 1
  <2>c. later = [op EXCEPT !.waits = FALSE, !.left = n] /\ n \in 0 .. 3
    BY <2>a
  <2> HIDE DEF n, later
  <2>d. later \in UseOp
    BY <1>1, <2>c DEF UseOp
  <2>1. /\ later \in UseOp /\ later.id = op.id /\ later.kind = "use" /\ op.kind = "use" /\ op.id \in Id
        /\ ~later.waits
    BY <1>1, <2>a, <2>b, <2>c, <2>d DEF UseOp
  <2> HIDE DEF later
  <2>2. /\ later \in Handler /\ ~later.waits /\ Holds(later) \subseteq Holds(op)
        /\ Wanted(op) \in Id
    BY <2>1 DEF Handler, Wanted, Holds
  <2> QED
    BY <2>2 DEF later
<1>2. CASE op \in ImportOp
  <2>a. op.left - 1 \in 0 .. 2 /\ op.left \in 1 .. 2 /\ op.id \in Id /\ op.source \in Id
        /\ op.kind = "import"
    BY <1>2 DEF ImportOp
  <2>b. ~later.waits
    BY <1>2, Zenon DEF ImportOp
  <2> DEFINE n == op.left - 1
  <2>c. later = [op EXCEPT !.waits = FALSE, !.left = n] /\ n \in 0 .. 2
    BY <2>a
  <2> HIDE DEF n, later
  <2>d. later \in ImportOp /\ later.left = n
    BY <1>2, <2>c DEF ImportOp
  <2>1. /\ later \in ImportOp /\ later.id = op.id /\ later.source = op.source
        /\ later.left = op.left - 1 /\ op.left \in 1 .. 2 /\ ~later.waits
        /\ later.kind = "import" /\ op.kind = "import" /\ op.id \in Id /\ op.source \in Id
    BY <1>2, <2>a, <2>b, <2>c, <2>d DEF ImportOp, n
  <2> HIDE DEF later
  <2>2. /\ later \in Handler /\ ~later.waits /\ Holds(later) \subseteq Holds(op)
        /\ Wanted(op) \in Id
    BY <2>1 DEF Handler, Wanted, Holds
  <2> QED
    BY <2>2 DEF later
<1> QED
  BY <1>1, <1>2

(* A handler moves on without a lock, and holds only what is resident.     *)
LEMMA HandlerStep ==
  ASSUME CacheInv, Shrunk(entries'), UNCHANGED <<clock, nextId, queues>>,
         NEW c \in Client, NEW op \in Handler, handlers' = [handlers EXCEPT ![c] = op],
         ~(Working(op) /\ op.waits), Holds(op) \subseteq DOMAIN entries'
  PROVE  CacheInv'
<1>1. handlers \in [Client -> Handler]
  BY DEF CacheInv, CacheTypeOK, Handler
<1>2. /\ handlers' \in [Client -> Handler]
      /\ \A d \in Client : handlers'[d] = IF d = c THEN op ELSE handlers[d]
  BY <1>1
<1>3. CacheTypeOK'
  BY <1>2, ShrunkStep DEF CacheInv, CacheTypeOK, Handler
<1>4. WaitersAreQueued'
  BY <1>2 DEF CacheInv, WaitersAreQueued
<1>5. HeldSessionsStayResident'
  BY <1>2, ShrunkStep DEF HeldSessionsStayResident
<1> QED
  BY <1>3, <1>4, <1>5, ShrunkStep DEF CacheInv

(* Sessions nobody holds leave the cache, and nothing else happens.        *)
LEMMA RemovalStep ==
  ASSUME CacheInv, Shrunk(entries'), UNCHANGED <<clock, nextId, queues, handlers>>
  PROVE  CacheInv'
<1>1. CacheTypeOK'
  BY ShrunkStep DEF CacheInv, CacheTypeOK
<1>2. WaitersAreQueued'
  BY DEF CacheInv, WaitersAreQueued, Working, Wanted
<1>3. HeldSessionsStayResident'
  BY ShrunkStep DEF HeldSessionsStayResident, Holds
<1> QED
  BY <1>1, <1>2, <1>3, ShrunkStep DEF CacheInv

(* The cache is as it was.                                                 *)
LEMMA NothingShrunk ==
  ASSUME CacheInv
  PROVE  Shrunk(entries)
  BY DEF CacheInv, CacheTypeOK, Shrunk

(* A handler gets its session, or does not find it.                        *)
LEMMA GetStep ==
  ASSUME CacheInv, NEW c \in Client, NEW id \in Id, NEW turns \in Turns, Get(c, id, turns)
  PROVE  CacheInv'
<1>1. Shrunk(entries') /\ (Found(id) => id \in DOMAIN entries')
  BY AfterGetFacts DEF Get, CacheInv
<1>2. CASE Found(id)
  <2> DEFINE op == [kind |-> "use", id |-> id, left |-> turns, waits |-> FALSE]
  <2>1. op \in Handler /\ Holds(op) = {id}
    BY DEF Handler, UseOp, Turns, Holds
  <2>2. ~op.waits
    BY Zenon
  <2>3. handlers' = [handlers EXCEPT ![c] = op] /\ UNCHANGED <<clock, nextId, queues>>
    BY <1>2 DEF Get
  <2> HIDE DEF op
  <2> QED
    BY <1>1, <1>2, <2>1, <2>2, <2>3, HandlerStep
<1>3. CASE ~Found(id)
  BY <1>1, <1>3, RemovalStep DEF Get
<1> QED
  BY <1>2, <1>3

(* An import gets its source.                                              *)
LEMMA GetSourceStep ==
  ASSUME CacheInv, NEW c \in Client, NEW id \in Id, GetSource(c, id)
  PROVE  CacheInv'
<1>1. Shrunk(entries') /\ (Found(id) => id \in DOMAIN entries')
  BY AfterGetFacts DEF GetSource, CacheInv
<1>2. CASE Found(id)
  <2> DEFINE op == [kind |-> "source", source |-> id]
  <2>1. op \in Handler /\ Holds(op) = {id} /\ ~Working(op)
    BY DEF Handler, SourceOp, Holds, Working
  <2>2. handlers' = [handlers EXCEPT ![c] = op] /\ UNCHANGED <<clock, nextId, queues>>
    BY <1>2 DEF GetSource
  <2> HIDE DEF op
  <2> QED
    BY <1>1, <1>2, <2>1, <2>2, HandlerStep
<1>3. CASE ~Found(id)
  BY <1>1, <1>3, RemovalStep DEF GetSource
<1> QED
  BY <1>2, <1>3

(* An idle handler holds nothing and waits for nothing.                    *)
LEMMA IdleHandler == Idle \in Handler /\ Holds(Idle) = {} /\ ~Working(Idle)
  BY DEF Handler, Idle, Holds, Working

(* An import gets its target while it holds the source.                    *)
LEMMA GetTargetStep ==
  ASSUME CacheInv, NEW c \in Client, NEW id \in Id, GetTarget(c, id)
  PROVE  CacheInv'
<1>1. Shrunk(entries') /\ (Found(id) => id \in DOMAIN entries')
  BY AfterGetFacts DEF GetTarget, CacheInv
<1>2. handlers[c] \in SourceOp
  BY HandlerKinds DEF GetTarget, CacheInv, CacheTypeOK, Handler
<1>3. Holds(handlers[c]) = {handlers[c].source} /\ handlers[c].source \in Id
  BY <1>2 DEF Holds, SourceOp
<1>4. handlers[c].source \in DOMAIN entries'
  BY <1>1, <1>3, ShrunkStep DEF GetTarget
<1>5. CASE Found(id)
  <2> DEFINE op == [kind |-> "import", source |-> handlers[c].source, id |-> id,
                    left |-> 2, waits |-> FALSE]
  <2>1. op \in Handler /\ Holds(op) \subseteq {id, handlers[c].source}
    BY <1>3 DEF Handler, ImportOp, Holds
  <2>2. ~op.waits
    BY Zenon
  <2>3. handlers' = [handlers EXCEPT ![c] = op] /\ UNCHANGED <<clock, nextId, queues>>
    BY <1>5 DEF GetTarget
  <2> HIDE DEF op
  <2> QED
    BY <1>1, <1>4, <1>5, <2>1, <2>2, <2>3, HandlerStep
<1>6. CASE ~Found(id)
  <2>1. handlers' = [handlers EXCEPT ![c] = Idle] /\ UNCHANGED <<clock, nextId, queues>>
    BY <1>6 DEF GetTarget
  <2> QED
    BY <1>1, <2>1, IdleHandler, HandlerStep
<1> QED
  BY <1>5, <1>6

(* touch brings no session back, and the handler gives up what it held.    *)
LEMMA FinishHandlerStep ==
  ASSUME CacheInv, NEW c \in Client, FinishHandler(c)
  PROVE  CacheInv'
<1> DEFINE id == handlers[c].id
<1>1. handlers[c] \in Handler /\ CacheTypeOK
  BY DEF CacheInv, CacheTypeOK, Handler
<1>2. clock \in 0 .. clock
  BY <1>1 DEF CacheTypeOK
<1>3. entries' = (IF id \in DOMAIN entries THEN [entries EXCEPT ![id] = clock] ELSE entries)
      /\ UNCHANGED <<nextId, clock, queues>>
  BY DEF FinishHandler
<1>4. DOMAIN entries' = DOMAIN entries
      /\ \A i \in DOMAIN entries : entries'[i] = entries[i] \/ entries'[i] = clock
  BY <1>3
<1>5. Shrunk(entries')
  BY <1>1, <1>2, <1>4 DEF Shrunk, CacheTypeOK
<1>6. CASE handlers[c].kind = "import" /\ id \in DOMAIN entries
  <2> DEFINE op == [kind |-> "touch", id |-> handlers[c].source]
  <2>1. handlers[c].source \in Id
    BY <1>1, <1>6, HandlerKinds DEF ImportOp
  <2>2. op \in Handler /\ Holds(op) = {} /\ ~Working(op)
    BY <2>1 DEF Handler, TouchOp, Holds, Working
  <2>3. handlers' = [handlers EXCEPT ![c] = op]
    BY <1>6 DEF FinishHandler
  <2> HIDE DEF op
  <2> QED
    BY <1>3, <1>5, <2>2, <2>3, HandlerStep
<1>7. CASE ~(handlers[c].kind = "import" /\ id \in DOMAIN entries)
  <2>1. handlers' = [handlers EXCEPT ![c] = Idle]
    BY <1>7 DEF FinishHandler
  <2> QED
    BY <1>3, <1>5, <2>1, IdleHandler, HandlerStep
<1> QED
  BY <1>6, <1>7

(* A handler joins the queue for a lock behind those already there.        *)
LEMMA LockStep ==
  ASSUME CacheInv, NEW c \in Client, Lock(c)
  PROVE  CacheInv'
<1> DEFINE op == handlers[c]
           later == [op EXCEPT !.waits = TRUE]
           wanted == Wanted(op)
<1>1. handlers \in [Client -> Handler] /\ queues \in [Id -> Seq(Client)]
  BY DEF CacheInv, CacheTypeOK, Handler
<1>2. op \in UseOp \union ImportOp
  BY <1>1, HandlerKinds DEF Lock, Working
<1>3. later \in Handler /\ Wanted(later) = wanted /\ Holds(later) = Holds(op) /\ wanted \in Id
  BY <1>2, LockedHandler
<1>4. /\ queues' = [queues EXCEPT ![wanted] = Append(queues[wanted], c)]
      /\ handlers' = [handlers EXCEPT ![c] = later]
      /\ UNCHANGED <<entries, nextId, clock>>
  BY DEF Lock
<1> HIDE DEF later, wanted
<1>5. /\ handlers' \in [Client -> Handler]
      /\ \A d \in Client : handlers'[d] = IF d = c THEN later ELSE handlers[d]
  BY <1>1, <1>3, <1>4
<1>6. queues[wanted] \in Seq(Client)
  BY <1>1, <1>3
<1>7. /\ Append(queues[wanted], c) \in Seq(Client)
      /\ Len(Append(queues[wanted], c)) = Len(queues[wanted]) + 1
      /\ Len(queues[wanted]) \in Nat
      /\ \A i \in 1 .. Len(queues[wanted]) : Append(queues[wanted], c)[i] = queues[wanted][i]
      /\ Append(queues[wanted], c)[Len(queues[wanted]) + 1] = c
  BY <1>6
<1>8. /\ queues' \in [Id -> Seq(Client)]
      /\ \A id \in Id : queues'[id] = IF id = wanted THEN Append(queues[wanted], c) ELSE queues[id]
  BY <1>1, <1>4, <1>7
<1>9. CacheTypeOK'
  BY <1>4, <1>5, <1>8 DEF CacheInv, CacheTypeOK, Handler
<1>10. WaitersAreQueued'
  <2> SUFFICES ASSUME NEW d \in Client, Working(handlers'[d]), handlers'[d].waits
               PROVE  \E i \in 1 .. Len(queues'[Wanted(handlers'[d])]) :
                        queues'[Wanted(handlers'[d])][i] = d
    BY DEF WaitersAreQueued, Working, Wanted
  <2>1. CASE d = c
    BY <1>3, <1>5, <1>7, <1>8, <2>1
  <2>2. CASE d # c
    <3> DEFINE w == Wanted(handlers[d])
    <3>1. handlers'[d] = handlers[d] /\ w \in Id
      <4>1. handlers'[d] = handlers[d]
        BY <1>5, <2>2
      <4>2. handlers[d] \in UseOp \union ImportOp
        BY <1>1, <4>1, HandlerKinds DEF Working
      <4> QED
        BY <4>1, <4>2, LockedHandler
    <3> HIDE DEF w
    <3>2. PICK i \in 1 .. Len(queues[w]) : queues[w][i] = d
      BY <3>1 DEF CacheInv, WaitersAreQueued, w
    <3>3. \E j \in 1 .. Len(queues'[w]) : queues'[w][j] = d
      BY <1>7, <1>8, <3>1, <3>2
    <3> QED
      BY <3>1, <3>3 DEF w
  <2> QED
    BY <2>1, <2>2
<1>11. CapacityHolds' /\ HeldSessionsStayResident'
  BY <1>3, <1>4, <1>5 DEF CacheInv, CapacityHolds, HeldSessionsStayResident
<1> QED
  BY <1>9, <1>10, <1>11 DEF CacheInv

(* The first of the queue leaves it, and the others stay in it.            *)
LEMMA UnlockStep ==
  ASSUME CacheInv, NEW c \in Client, Unlock(c)
  PROVE  CacheInv'
<1> DEFINE op == handlers[c]
           later == [op EXCEPT !.waits = FALSE, !.left = @ - 1]
           wanted == Wanted(op)
           q == queues[wanted]
<1>1. handlers \in [Client -> Handler] /\ queues \in [Id -> Seq(Client)]
  BY DEF CacheInv, CacheTypeOK, Handler
<1>2. op \in UseOp \union ImportOp /\ op.left > 0
  BY <1>1, HandlerKinds DEF Unlock, HasLock, Working
<1>3. later \in Handler /\ ~later.waits /\ Holds(later) \subseteq Holds(op) /\ wanted \in Id
  BY <1>2, UnlockedHandler
<1>4. /\ queues' = [queues EXCEPT ![wanted] = Tail(q)]
      /\ handlers' = [handlers EXCEPT ![c] = later]
      /\ UNCHANGED <<entries, nextId, clock>>
  BY DEF Unlock
<1>5. Head(q) = c /\ \E i \in 1 .. Len(q) : q[i] = c
  BY DEF Unlock, HasLock, CacheInv, WaitersAreQueued
<1> HIDE DEF later, wanted
<1>6. q \in Seq(Client)
  BY <1>1, <1>3
<1>7. /\ Len(q) \in Nat \ {0} /\ q[1] = c /\ Tail(q) \in Seq(Client)
      /\ Len(Tail(q)) = Len(q) - 1 /\ \A i \in 1 .. Len(q) - 1 : Tail(q)[i] = q[i + 1]
  BY <1>5, <1>6
<1> HIDE DEF q
<1>8. /\ handlers' \in [Client -> Handler]
      /\ \A d \in Client : handlers'[d] = IF d = c THEN later ELSE handlers[d]
  BY <1>1, <1>3, <1>4
<1>9. /\ queues' \in [Id -> Seq(Client)]
      /\ \A id \in Id : queues'[id] = IF id = wanted THEN Tail(q) ELSE queues[id]
  BY <1>1, <1>4, <1>7
<1>10. CacheTypeOK'
  BY <1>4, <1>8, <1>9 DEF CacheInv, CacheTypeOK, Handler
<1>11. WaitersAreQueued'
  <2> SUFFICES ASSUME NEW d \in Client, Working(handlers'[d]), handlers'[d].waits
               PROVE  \E i \in 1 .. Len(queues'[Wanted(handlers'[d])]) :
                        queues'[Wanted(handlers'[d])][i] = d
    BY DEF WaitersAreQueued, Working, Wanted
  <2> DEFINE w == Wanted(handlers[d])
  <2>1. d # c
    BY <1>3, <1>8
  <2>2. handlers'[d] = handlers[d] /\ w \in Id
    <3>1. handlers'[d] = handlers[d]
      BY <1>8, <2>1
    <3>2. handlers[d] \in UseOp \union ImportOp
      BY <1>1, <3>1, HandlerKinds DEF Working
    <3> QED
      BY <3>1, <3>2, LockedHandler
  <2> HIDE DEF w
  <2>3. PICK i \in 1 .. Len(queues[w]) : queues[w][i] = d
    BY <2>2 DEF CacheInv, WaitersAreQueued, w
  <2>4. \E j \in 1 .. Len(queues'[w]) : queues'[w][j] = d
    <3>1. CASE w = wanted
      <4>1. i \in 1 .. Len(q) /\ q[i] = d /\ i # 1
        BY <1>7, <2>1, <2>3, <3>1 DEF q
      <4>2. i - 1 \in 1 .. Len(Tail(q)) /\ Tail(q)[i - 1] = d
        BY <1>7, <4>1
      <4> QED
        BY <1>9, <2>2, <3>1, <4>2
    <3>2. CASE w # wanted
      BY <1>9, <2>2, <2>3, <3>2
    <3> QED
      BY <3>1, <3>2
  <2> QED
    BY <2>2, <2>4 DEF w
<1>12. CapacityHolds' /\ HeldSessionsStayResident'
  BY <1>3, <1>4, <1>8 DEF CacheInv, CapacityHolds, HeldSessionsStayResident
<1> QED
  BY <1>10, <1>11, <1>12 DEF CacheInv

(* commit: the new session fits, if need be in the place of one nobody     *)
(* holds.                                                                  *)
LEMMA CreateStep ==
  ASSUME CacheInv, NEW c \in Client, Create(c)
  PROVE  CacheInv'
<1>1. CacheTypeOK /\ Shrunk(Pruned) /\ UNCHANGED <<clock, queues, handlers>>
  BY PrunedFacts DEF CacheInv, Create
<1>2. CASE entries' = Pruned /\ UNCHANGED nextId
  BY <1>1, <1>2, RemovalStep
<1>3. CASE /\ Room(Pruned) \/ Evictable(Pruned) # {}
           /\ entries' = [id \in DOMAIN Evicted(Pruned) \union {nextId} |->
                            IF id = nextId THEN clock ELSE Pruned[id]]
           /\ nextId' = nextId + 1
  <2> DEFINE P == DOMAIN Pruned
             E == {id \in P : Room(Pruned) \/ id \notin Evictable(Pruned)}
  <2>1. DOMAIN Evicted(Pruned) = E
    BY DEF Evicted, RestrictDomain, Restrict
  <2>2. DOMAIN entries' = E \union {nextId}
        /\ \A id \in DOMAIN entries' : entries'[id] = IF id = nextId THEN clock ELSE Pruned[id]
    BY <1>3, <2>1
  <2>3. P \subseteq DOMAIN entries /\ \A id \in P : Pruned[id] \in 0 .. clock
    BY <1>1 DEF Shrunk
  <2>4. nextId \in Id /\ clock \in 0 .. clock /\ nextId' \in 1 .. MaxId + 1
    BY <1>1, <1>3, CacheAssumption DEF Create, CacheTypeOK, Id
  <2>5. IsFiniteSet(P) /\ Cardinality(P) \in Nat /\ Cardinality(P) <= Maximum
    <3>1. IsFiniteSet(P) /\ Cardinality(P) <= Cardinality(DOMAIN entries)
      BY <1>1, <2>3, EntriesAreFinite, FS_Subset
    <3>2. Cardinality(P) \in Nat
      BY <3>1, FS_CardinalityType
    <3> QED
      BY <1>1, <3>1, <3>2, EntriesAreFinite, CacheAssumption DEF CacheInv, CapacityHolds
  <2>6. E \subseteq P /\ \A id \in P \ E : Unshared(id)
    BY DEF Evictable
  <2>7. IsFiniteSet(E) /\ Cardinality(E) \in Nat /\ Cardinality(E) < Maximum
    <3>1. CASE Room(Pruned)
      <4>1. E = P
        BY <3>1
      <4> QED
        BY <2>5, <3>1, <4>1 DEF Room
    <3>2. CASE ~Room(Pruned)
      <4>1. PICK gone : gone \in Evictable(Pruned)
        BY <1>3, <3>2
      <4>2. gone \in P /\ E \subseteq P \ {gone}
        BY <3>2, <4>1 DEF Evictable
      <4>3. IsFiniteSet(P \ {gone}) /\ Cardinality(P \ {gone}) = Cardinality(P) - 1
        BY <2>5, <4>2, FS_RemoveElement
      <4> HIDE DEF E
      <4>4. IsFiniteSet(E) /\ Cardinality(E) <= Cardinality(P \ {gone})
        BY <4>2, <4>3, FS_Subset
      <4>5. Cardinality(E) \in Nat
        BY <4>4, FS_CardinalityType
      <4> QED
        BY <2>5, <4>3, <4>4, <4>5, CacheAssumption
    <3> QED
      BY <3>1, <3>2
  <2> HIDE DEF E
  <2>8. CapacityHolds'
    <3>1. Cardinality(E \union {nextId}) <= Cardinality(E) + 1
          /\ Cardinality(E \union {nextId}) \in Nat
      <4>1. Cardinality(E \union {nextId}) = IF nextId \in E THEN Cardinality(E) ELSE Cardinality(E) + 1
        BY <2>7, FS_AddElement, Zenon
      <4> QED
        BY <2>7, <4>1
    <3> QED
      BY <2>2, <2>7, <3>1, CacheAssumption DEF CapacityHolds
  <2>9. CacheTypeOK'
    BY <1>1, <2>2, <2>3, <2>4, <2>6 DEF CacheTypeOK
  <2>10. WaitersAreQueued'
    BY <1>1 DEF CacheInv, WaitersAreQueued, Working, Wanted
  <2>11. HeldSessionsStayResident'
    BY <1>1, <2>2, <2>6 DEF CacheInv, HeldSessionsStayResident, Shrunk, Unshared
  <2> QED
    BY <2>8, <2>9, <2>10, <2>11 DEF CacheInv
<1> QED
  BY <1>2, <1>3 DEF Create

(* Every step of the cache and of its handlers.                            *)
LEMMA CacheStep == CacheInv /\ [CacheNext]_cacheVars => CacheInv'
<1> SUFFICES ASSUME CacheInv, [CacheNext]_cacheVars
             PROVE  CacheInv'
  OBVIOUS
<1>1. ASSUME NEW c \in Client, Step(c)
      PROVE  CacheInv'
  <2>1. CASE Fail(c)
    BY <2>1, NothingShrunk, IdleHandler, HandlerStep DEF Fail
  <2> QED
    BY <1>1, <2>1, LockStep, UnlockStep, FinishHandlerStep, GetTargetStep DEF Step
<1>2. ASSUME NEW c \in Client, NEW id \in Id, Close(c, id)
      PROVE  CacheInv'
  <2> DEFINE S == {i \in DOMAIN entries : i # id}
  <2>1. entries' = Restrict(entries, S) /\ Unshared(id) /\ UNCHANGED <<clock, nextId, queues, handlers>>
    BY <1>2 DEF Close, RestrictDomain
  <2>2. S \subseteq DOMAIN entries /\ \A i \in DOMAIN entries \ S : Unshared(i)
    BY <2>1
  <2> HIDE DEF S
  <2>3. Shrunk(entries')
    BY <2>1, <2>2, Filtered DEF CacheInv
  <2> QED
    BY <2>1, <2>3, RemovalStep
<1>3. CASE ListIds
  BY <1>3, PrunedFacts, RemovalStep DEF ListIds, CacheInv
<1>4. CASE Tick
  <2>1. clock \in Nat /\ clock' = clock + 1 /\ clock' \in 0 .. MaxClock
        /\ UNCHANGED <<entries, nextId, queues, handlers>>
    BY <1>4, CacheAssumption DEF Tick, CacheInv, CacheTypeOK
  <2>2. \A n \in 0 .. clock : n \in 0 .. clock'
    BY <2>1
  <2>3. CacheTypeOK'
    BY <2>1, <2>2 DEF CacheInv, CacheTypeOK
  <2> QED
    BY <2>1, <2>3
       DEF CacheInv, WaitersAreQueued, Working, Wanted, CapacityHolds, HeldSessionsStayResident, Holds
<1>5. CASE UNCHANGED cacheVars
  BY <1>5, NothingShrunk, RemovalStep DEF cacheVars
<1> QED
  BY <1>1, <1>2, <1>3, <1>4, <1>5, GetStep, GetSourceStep, CreateStep DEF CacheNext

(* An empty cache and idle handlers.                                       *)
LEMMA CacheStart == CacheInit => CacheInv
<1> SUFFICES ASSUME CacheInit
             PROVE  CacheInv
  OBVIOUS
<1>1. DOMAIN entries = {} /\ nextId = 1 /\ clock = 0 /\ queues = [id \in Id |-> <<>>]
  BY DEF CacheInit
<1>2. handlers \in [Client -> Handler] /\ \A c \in Client : handlers[c] = Idle
  BY IdleHandler DEF CacheInit
<1>3. CacheTypeOK
  BY <1>1, <1>2, CacheAssumption DEF CacheTypeOK, Handler
<1>4. CapacityHolds
  BY <1>1, FS_EmptySet, CacheAssumption DEF CapacityHolds
<1> QED
  BY <1>2, <1>3, <1>4, IdleHandler DEF CacheInv, WaitersAreQueued, HeldSessionsStayResident

(***************************************************************************)
(* For any number of handlers, any capacity and any time to live: a        *)
(* workbook that a handler holds a handle on stays resident, whatever      *)
(* expires, is evicted or is closed (get, prune_expired, prepare_insert,   *)
(* close).                                                                 *)
(***************************************************************************)
THEOREM HeldSessionsAreResident == CacheSpec => []HeldSessionsStayResident
<1>1. CacheInv => HeldSessionsStayResident
  BY DEF CacheInv
<1> QED
  BY <1>1, CacheStart, CacheStep, PTL DEF CacheSpec

(***************************************************************************)
(* The cache keeps to --max-sessions, whatever is in use or expires when   *)
(* sessions are created (prepare_insert, commit), and its state, with the  *)
(* queues of the sessions' locks, has its type.                            *)
(***************************************************************************)
THEOREM CacheKeepsItsBound == CacheSpec => [](CacheTypeOK /\ CapacityHolds)
<1>1. CacheInv => CacheTypeOK /\ CapacityHolds
  BY DEF CacheInv
<1> QED
  BY <1>1, CacheStart, CacheStep, PTL DEF CacheSpec
=============================================================================
