----------------------------- MODULE McpRequests -----------------------------
(***************************************************************************)
(* The MCP tool handlers on one workbook session: workbook_recalculate,    *)
(* workbook_calculate_targets, workbook_preview_changes,                   *)
(* workbook_apply_changes, workbook_commit_preview and                     *)
(* workbook_discard_preview.  A handler takes the session's lock for each  *)
(* operation of WorkbookSession, runs the long work on a blocking worker,  *)
(* and may learn at any time that its client cancelled the request.        *)
(***************************************************************************)
EXTENDS WorkbookSession, FiniteSets

VARIABLES
  ops,         \* how far every request is
  withdrawn,   \* the requests their client cancelled
  holder       \* the request that keeps the lock between two steps

vars == <<session, cancelled, ops, withdrawn, holder>>

Calculations == {"recalculate", "targets", "preview"}
Kinds == Calculations \union {"apply", "commit", "discard"}

NoBatch == [semantic |-> 0, presentation |-> 0]

(***************************************************************************)
(* A request: where its worker is, whether the handler has turned to its   *)
(* cancellation, its ids, the state it was prepared from, and, as history, *)
(* whether it changed the session.                                         *)
(***************************************************************************)
Unasked ==
  [kind |-> "none", at |-> "idle", quit |-> FALSE, id |-> 0, preview |-> 0,
   base |-> NewEngine, batch |-> NoBatch, answer |-> "none", changed |-> FALSE]

Init ==
  /\ session = NewSession
  /\ cancelled = {}
  /\ ops = [r \in Request |-> Unasked]
  /\ withdrawn = {}
  /\ holder = Nobody

At(r, kinds, places) == ops[r].kind \in kinds /\ ops[r].at \in places

Goes(r, place) == ops' = [ops EXCEPT ![r].at = place]

(* A request is answered, and forgets what it captured.                    *)
Answer(r, answer, changed) ==
  ops' = [ops EXCEPT ![r] = [Unasked EXCEPT !.kind = ops[r].kind, !.at = "done",
                                            !.preview = ops[r].preview,
                                            !.answer = answer, !.changed = changed]]

(* Mutant: the lock is not kept from preparation through installation.     *)
AlwaysFree == TRUE

Free == holder = Nobody

-----------------------------------------------------------------------------
(* A handler starts; most look first whether the request was cancelled.    *)
Start(r, kind, preview, batch) ==
  /\ At(r, {"none"}, {"idle"})
  /\ \/ ops' = [ops EXCEPT ![r].kind = kind, ![r].at = "asked",
                           ![r].preview = preview, ![r].batch = batch]
     \/ /\ kind \in {"targets", "preview", "commit"}
        /\ ops' = [ops EXCEPT ![r].kind = kind, ![r].at = "done", ![r].answer = "cancelled"]
  /\ UNCHANGED <<session, cancelled, withdrawn, holder>>

(* The client cancels a request that has no answer yet.                    *)
Withdraw(r) ==
  /\ At(r, Kinds, {"asked", "running", "ran", "broke", "ready", "staged", "receipt"})
  /\ withdrawn' = withdrawn \union {r}
  /\ UNCHANGED <<session, cancelled, ops, holder>>

(***************************************************************************)
(* prepare_recalculation, prepare_target_calculation and                   *)
(* prepare_preview_changes: the request becomes the active one, or is      *)
(* refused, for its inputs or its token.  A handler that turned to the     *)
(* cancellation meanwhile does not run what its worker prepared.           *)
(***************************************************************************)
Prepare(r) ==
  LET op == ops[r] IN
  /\ At(r, Calculations, {"asked"}) /\ Free
  /\ \/ /\ session' = IF op.kind = "preview" THEN ActivatePreview(session, r) ELSE Activate(session, r)
        /\ cancelled' = cancelled \union Superseded(session)
        /\ ops' = [ops EXCEPT ![r].at = IF op.quit THEN "ran" ELSE "running",
                              ![r].id = session.nextCalculationId,
                              ![r].preview = IF op.kind = "preview" THEN session.nextPreviewId ELSE 0,
                              ![r].base = session.engine]
     \/ /\ Answer(r, IF op.quit THEN "cancelled" ELSE "failed", FALSE)
        /\ UNCHANGED <<session, cancelled>>
  /\ UNCHANGED <<withdrawn, holder>>

(* The worker ends, with a result or without.                              *)
Run(r) ==
  /\ At(r, Calculations, {"running"})
  /\ Goes(r, "ran") \/ Goes(r, "broke")
  /\ UNCHANGED <<session, cancelled, withdrawn, holder>>

(* The handler sees the result, if it does not look at the cancellation    *)
(* first as the select of targets and preview does.                        *)
Join(r) ==
  /\ At(r, Calculations, {"ran"}) /\ ~ops[r].quit
  /\ ops[r].kind # "recalculate" => r \notin withdrawn
  /\ Goes(r, "ready")
  /\ UNCHANGED <<session, cancelled, withdrawn, holder>>

(***************************************************************************)
(* The handler sees the cancellation while it waits for its worker.  Once  *)
(* a recalculation or a preview is prepared it asks the session to cancel  *)
(* it, which the session does if the request is still the active one.      *)
(***************************************************************************)
Quit(r) ==
  LET op == ops[r]
      asksSession == op.kind \in {"recalculate", "preview"} /\ op.at # "asked" IN
  /\ r \in withdrawn /\ ~op.quit
  /\ \/ At(r, {"targets", "preview"}, {"asked", "running", "ran", "broke"})
     \/ At(r, {"recalculate"}, {"running", "ran", "broke"})
     \/ At(r, {"apply"}, {"asked", "staged"})
     \/ At(r, {"commit"}, {"receipt"})
  /\ asksSession => Free
  /\ cancelled' = cancelled \union (IF asksSession THEN CancelRecalculation(session, op.id) ELSE {r})
  /\ ops' = [ops EXCEPT ![r].quit = TRUE]
  /\ UNCHANGED <<session, withdrawn, holder>>

(* abandon_recalculation after a failed or cancelled run, or for a result  *)
(* whose answer is too large.                                              *)
Abandon(r) ==
  LET op == ops[r] IN
  /\ \/ At(r, Calculations, {"broke"})
     \/ At(r, Calculations, {"ran"}) /\ op.quit
     \/ At(r, {"targets", "preview"}, {"ready"})
  /\ Free
  /\ session' = AbandonRecalculation(session, op.id)
  /\ Answer(r, IF op.quit THEN "cancelled" ELSE "failed", FALSE)
  /\ UNCHANGED <<cancelled, withdrawn, holder>>

(* What the engine checks of a completed calculation.                      *)
Current(r) ==
  LET op == ops[r] IN
  CASE op.kind = "recalculate" -> CalculationCurrent(session, op.base)
    [] op.kind = "targets" -> TargetCurrent(session, op.base)
    [] OTHER -> TransactionCurrent(session, op.base)

Completed(r) ==
  LET op == ops[r] IN
  CASE op.kind = "recalculate" -> InstallRecalculation(session)
    [] op.kind = "targets" -> FinishTargetCalculation(session)
    [] OTHER -> PublishPreview(session, op.preview, op.base, op.batch)

(* Mutant: a result that is refused stays the active request.              *)
LeftActive(r) == session

(* Every refusal ends with abandon_recalculation, or has done its work.    *)
AfterRefusal(r) == AbandonRecalculation(session, ops[r].id)

(* install_recalculation, finish_target_calculation, publish_preview.      *)
Finish(r) ==
  LET op == ops[r] IN
  /\ At(r, Calculations, {"ready"}) /\ Free
  /\ \/ /\ RequireActive(session, op.id) /\ Current(r)
        /\ session' = Completed(r)
        /\ Answer(r, "ok", op.kind # "targets")
        /\ UNCHANGED cancelled
     \/ /\ RequireActive(session, op.id) /\ ~Current(r)
        /\ session' = AfterRefusal(r)
        /\ Answer(r, "failed", FALSE)
        /\ UNCHANGED cancelled
     \/ /\ ~RequireActive(session, op.id) \/ (op.kind = "targets" /\ r \in withdrawn)
        /\ session' = AfterRefusal(r)
        /\ Answer(r, "cancelled", FALSE)
        /\ cancelled' = IF op.kind = "targets" /\ r \in withdrawn THEN cancelled \union {r} ELSE cancelled
  /\ UNCHANGED <<withdrawn, holder>>

-----------------------------------------------------------------------------
(* workbook_apply_changes: the worker locks the session and stages the     *)
(* batch, or refuses it and unlocks.                                       *)
Stage(r) ==
  /\ At(r, {"apply"}, {"asked"}) /\ Free
  /\ \/ /\ ops' = [ops EXCEPT ![r].at = "staged", ![r].base = session.engine]
        /\ holder' = r
     \/ /\ Answer(r, IF ops[r].quit THEN "cancelled" ELSE "failed", FALSE)
        /\ UNCHANGED holder
  /\ UNCHANGED <<session, cancelled, withdrawn>>

(* install_changes, still under the lock.                                  *)
Install(r) ==
  LET current == TransactionCurrent(session, ops[r].base) IN
  /\ At(r, {"apply"}, {"staged"}) /\ ~ops[r].quit
  /\ session' = IF current THEN InstallChanges(session, ops[r].batch) ELSE session
  /\ Answer(r, IF current THEN "ok" ELSE "failed", current)
  /\ holder' = Nobody
  /\ UNCHANGED <<cancelled, withdrawn>>

(* Mutant: the cancelled handler forgets the lock its worker returned.     *)
LockKept(r) ==
  /\ At(r, {"apply"}, {"staged"})
  /\ Answer(r, IF ops[r].quit THEN "cancelled" ELSE "failed", FALSE)
  /\ UNCHANGED <<session, cancelled, withdrawn, holder>>

(* The staged batch is dropped with the lock: the request was cancelled,   *)
(* or the receipt is too large.                                            *)
Unstage(r) ==
  /\ At(r, {"apply"}, {"staged"})
  /\ Answer(r, IF ops[r].quit THEN "cancelled" ELSE "failed", FALSE)
  /\ holder' = Nobody
  /\ UNCHANGED <<session, cancelled, withdrawn>>

-----------------------------------------------------------------------------
(* workbook_commit_preview reads the receipt first: there may be no such   *)
(* preview, or the receipt may be too large.                               *)
Receipt(r) ==
  /\ At(r, {"commit"}, {"asked"}) /\ Free
  /\ \/ Published(session, ops[r].preview) /\ Goes(r, "receipt")
     \/ Answer(r, "failed", FALSE)
  /\ UNCHANGED <<session, cancelled, withdrawn, holder>>

(* Mutant: a cancelled handler does not look at what its worker returned.  *)
CancelledAnyway(r, result) == IF ops[r].quit THEN "cancelled" ELSE result

(* A handler that turned to the cancellation answers what the worker did.  *)
CommitAnswer(r, result) == result

(* commit_preview_cancellable.                                             *)
Commit(r) ==
  LET current == TransactionCurrent(session, session.preview.base) IN
  /\ At(r, {"commit"}, {"receipt"}) /\ Free
  /\ \/ /\ Published(session, ops[r].preview) /\ current
        /\ session' = CommitPreview(session)
        /\ Answer(r, CommitAnswer(r, "ok"), TRUE)
     \/ /\ Published(session, ops[r].preview) /\ ~current
        /\ session' = TakePublished(session)
        /\ Answer(r, CommitAnswer(r, "failed"), TRUE)
     \/ /\ UNCHANGED session
        /\ \/ Answer(r, CommitAnswer(r, "failed"), FALSE)
           \/ Published(session, ops[r].preview) /\ r \in cancelled /\ Answer(r, "cancelled", FALSE)
  /\ UNCHANGED <<cancelled, withdrawn, holder>>

(* workbook_discard_preview.                                               *)
Discard(r) ==
  LET published == Published(session, ops[r].preview) IN
  /\ At(r, {"discard"}, {"asked"}) /\ Free
  /\ session' = IF published THEN TakePublished(session) ELSE session
  /\ Answer(r, IF published THEN "ok" ELSE "failed", published)
  /\ UNCHANGED <<cancelled, withdrawn, holder>>

-----------------------------------------------------------------------------
Serve(r) ==
  \/ Prepare(r) \/ Run(r) \/ Join(r) \/ Quit(r) \/ Abandon(r) \/ Finish(r)
  \/ Stage(r) \/ Install(r) \/ Unstage(r)
  \/ Receipt(r) \/ Commit(r) \/ Discard(r)

(* Clients name previews they may have been told of.                       *)
Ask(r) ==
  \/ \E kind \in {"recalculate", "targets"} : Start(r, kind, 0, NoBatch)
  \/ \E kind \in {"preview", "apply"}, batch \in Batch : Start(r, kind, 0, batch)
  \/ \E kind \in {"commit", "discard"}, preview \in 1 .. session.nextPreviewId - 1 :
       Start(r, kind, preview, NoBatch)

Next == \E r \in Request : Ask(r) \/ Withdraw(r) \/ Serve(r)

Spec == Init /\ [][Next]_vars

(* Handlers, workers and the lock's queue make progress.                   *)
Fairness == \A r \in Request : WF_vars(Serve(r))

-----------------------------------------------------------------------------
Size == Cardinality(Request)

Op ==
  [kind : Kinds \union {"none"},
   at : {"idle", "asked", "running", "ran", "broke", "ready", "staged", "receipt", "done"},
   quit : BOOLEAN, id : Bound(Size), preview : Bound(Size), base : Engine(Size), batch : Batch,
   answer : {"none", "ok", "failed", "cancelled"}, changed : BOOLEAN]

(* The session, the requests and the lock have their types.                *)
TypeOK ==
  /\ session \in Session(Size)
  /\ cancelled \subseteq Request /\ withdrawn \subseteq Request
  /\ ops \in [Request -> Op]
  /\ holder \in Request \union {Nobody}

(***************************************************************************)
(* "Returns whether a prepared calculation is running or awaiting          *)
(* installation" (calculation_active), "the finished stale request must    *)
(* not remain active": the active request is one that some handler still   *)
(* serves, whatever was cancelled, refused or superseded.                  *)
(***************************************************************************)
ActiveRequestIsServed ==
  session.active # None =>
    \E r \in Request : ops[r].id = session.active.id /\ ops[r].at # "done"

(***************************************************************************)
(* A request that answers mcp.operation.cancelled or session.cancelled     *)
(* installed, published, committed and discarded nothing: also when the    *)
(* cancellation raced the worker's commit.                                 *)
(***************************************************************************)
CancelledRequestChangedNothing ==
  \A r \in Request : ops[r].answer = "cancelled" => ~ops[r].changed

(***************************************************************************)
(* "The worker keeps the session lock from preparation through             *)
(* installation, so no calculation or edit can make the prepared batch     *)
(* stale in between" (workbook_apply_changes).                             *)
(***************************************************************************)
StagedBatchStaysCurrent ==
  \A r \in Request : At(r, {"apply"}, {"staged"}) => ops[r].base = session.engine

(***************************************************************************)
(* A committed or discarded preview, and one published before it, never    *)
(* come back: the preview now published was published later than every     *)
(* preview that was ever consumed (require_active in publish_preview).     *)
(***************************************************************************)
ConsumedPreviewsStayConsumed ==
  \A r \in Request :
    At(r, {"commit", "discard"}, {"done"}) /\ ops[r].answer = "ok" /\ session.preview # None
      => session.preview.id > ops[r].preview

(***************************************************************************)
(* Every request is answered, whatever its client and the other requests   *)
(* cancel: nobody waits for a lock that is never returned.                 *)
(***************************************************************************)
RequestsAreAnswered ==
  \A r \in Request : ops[r].at # "idle" ~> ops[r].at = "done"
=============================================================================
