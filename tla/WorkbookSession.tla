--------------------------- MODULE WorkbookSession ---------------------------
(***************************************************************************)
(* The interop session that the MCP server and the language bindings share *)
(* (cellrune-interop, WorkbookSession): one calculation engine, at most    *)
(* one active calculation, and at most one published preview.  A request   *)
(* is prepared under the session's lock, runs outside it, and comes back   *)
(* under the lock to be installed, published or answered.  This module has *)
(* the session and its operations; McpRequests and BindingTasks have the   *)
(* handlers that call them.                                                *)
(***************************************************************************)
EXTENDS Naturals

CONSTANT Request   \* the requests made of the session, each served once

(* Who holds a session that no request holds.                              *)
Nobody == "nobody"

ASSUME RequestAssumption == Nobody \notin Request

VARIABLES
  session,
  cancelled        \* the requests whose CancellationToken is cancelled

None == [id |-> 0]

(***************************************************************************)
(* The engine is what its guards compare: which draft it holds, its        *)
(* semantic and presentation revisions and its next delta cursor.  The     *)
(* CalculationSession module has the rest.                                 *)
(***************************************************************************)
NewEngine == [draft |-> 0, revision |-> 0, presentation |-> 0, cursor |-> 1]

NewSession ==
  [engine |-> NewEngine, active |-> None, nextCalculationId |-> 1,
   preview |-> None, nextPreviewId |-> 1]

(* What a batch changes: an edit may be semantic, presentational, or both. *)
Batch == [semantic : 0 .. 1, presentation : 0 .. 1]

-----------------------------------------------------------------------------
(* A new request takes the next id and becomes the active one.             *)
Activate(s, r) ==
  [s EXCEPT !.active = [id |-> s.nextCalculationId, token |-> r],
            !.nextCalculationId = @ + 1]

(* A preview takes a preview id as well.                                   *)
ActivatePreview(s, r) == [Activate(s, r) EXCEPT !.nextPreviewId = @ + 1]

ActiveToken(s) == IF s.active = None THEN {} ELSE {s.active.token}

(* The token that a new request cancels.                                   *)
Superseded(s) == ActiveToken(s)

(* Mutant: who asks is not compared with the active request.               *)
AnyRequest(s, id) == TRUE

RequireActive(s, id) == s.active.id = id /\ s.active.token \notin cancelled

AbandonRecalculation(s, id) ==
  IF s.active.id = id THEN [s EXCEPT !.active = None] ELSE s

(* The tokens that cancel_calculation and cancel_recalculation cancel.     *)
CancelCalculation(s) == ActiveToken(s)

CancelRecalculation(s, id) == IF s.active.id = id THEN ActiveToken(s) ELSE {}

-----------------------------------------------------------------------------
(* The checks of the engine: preview_install, finish_target_calculation,   *)
(* validate_transaction and install_changes.                               *)
CalculationCurrent(s, base) ==
  base.revision = s.engine.revision /\ base.cursor = s.engine.cursor

TargetCurrent(s, base) ==
  base.draft = s.engine.draft /\ base.cursor = s.engine.cursor

TransactionCurrent(s, base) ==
  CalculationCurrent(s, base) /\ base.presentation = s.engine.presentation

(* The engine with the edits of a batch.                                   *)
Edited(engine, batch) ==
  [engine EXCEPT !.draft = @ + 1, !.revision = @ + batch.semantic,
                 !.presentation = @ + batch.presentation]

(* Mutant: an installed calculation leaves the preview of the older state. *)
PreviewKept(s) ==
  [s EXCEPT !.active = None, !.engine.cursor = @ + 1]

(* install_recalculation, past its checks.                                 *)
InstallRecalculation(s) ==
  [s EXCEPT !.active = None, !.engine.cursor = @ + 1, !.preview = None]

(* finish_target_calculation installs nothing.                             *)
FinishTargetCalculation(s) == [s EXCEPT !.active = None]

PublishPreview(s, id, base, batch) ==
  [s EXCEPT !.active = None, !.preview = [id |-> id, base |-> base, batch |-> batch]]

(* install_changes drops the preview if the semantic revision moved.       *)
InstallChanges(s, batch) ==
  [s EXCEPT !.engine = Edited(@, batch),
            !.preview = IF batch.semantic = 1 THEN None ELSE @]

Published(s, id) == id # 0 /\ s.preview.id = id

TakePublished(s) == [s EXCEPT !.preview = None]

(* The engine with the edits, results and delta of a transaction.          *)
Committed(engine, batch) == [Edited(engine, batch) EXCEPT !.cursor = @ + 1]

(* commit_preview of a current preview.                                    *)
CommitPreview(s) ==
  [s EXCEPT !.engine = Committed(@, s.preview.batch), !.preview = None]

-----------------------------------------------------------------------------
Bound(n) == 0 .. n
Engine(n) == [draft : Bound(n), revision : Bound(n), presentation : Bound(n), cursor : 1 .. n + 1]

(* The states of a session after n requests.                               *)
Session(n) ==
  [engine : Engine(n),
   active : {None} \union [id : 1 .. n, token : Request],
   nextCalculationId : 1 .. n + 1,
   preview : {None} \union [id : 1 .. n, base : Engine(n), batch : Batch],
   nextPreviewId : 1 .. n + 1]

(***************************************************************************)
(* A published preview can be committed: no semantic edit and no installed *)
(* calculation has happened since it was calculated (publish_preview       *)
(* validates it; install_changes, install_recalculation and commit drop    *)
(* it).  An edit of presentation alone leaves it, to be refused as stale   *)
(* when it is committed.                                                   *)
(***************************************************************************)
PublishedPreviewIsCurrent ==
  session.preview # None => CalculationCurrent(session, session.preview.base)
=============================================================================
