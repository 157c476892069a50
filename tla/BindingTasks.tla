---------------------------- MODULE BindingTasks ----------------------------
(***************************************************************************)
(* The Node and Python bindings' use of one workbook session:              *)
(* SharedWorkbookSession, the tasks that calculate on other threads, the   *)
(* synchronous calls, the AbortSignal of a call, cancel_calculation, and   *)
(* close, which may come while all of these run.                           *)
(***************************************************************************)
EXTENDS WorkbookSession, FiniteSets

VARIABLES
  ops,        \* how far every call is
  closed,     \* no new work is accepted
  registry,   \* the calls that close can cancel without the session's lock
  released    \* the session is dropped

vars == <<session, cancelled, ops, closed, registry, released>>

(* Targeted calculations and previews register their token; calculate and  *)
(* recalculate do not.                                                     *)
Registered == {"targets", "preview"}
Calculations == Registered \union {"calculate"}
Calls == {"edit", "commit", "discard", "cancel"}
Kinds == Calculations \union Calls \union {"close"}

NoBatch == [semantic |-> 0, presentation |-> 0]

Unasked ==
  [kind |-> "none", at |-> "idle", id |-> 0, preview |-> 0, base |-> NewEngine, batch |-> NoBatch]

Init ==
  /\ session = NewSession
  /\ cancelled = {}
  /\ ops = [r \in Request |-> Unasked]
  /\ closed = FALSE
  /\ registry = {}
  /\ released = FALSE

At(r, kinds, places) == ops[r].kind \in kinds /\ ops[r].at \in places

Goes(r, place) == ops' = [ops EXCEPT ![r].at = place]

(* A call ends, and with it its registration and all it captured.          *)
Ends(r) ==
  /\ ops' = [ops EXCEPT ![r] = [Unasked EXCEPT !.kind = ops[r].kind, !.at = "done"]]
  /\ registry' = registry \ {r}

-----------------------------------------------------------------------------
Start(r, kind, preview, batch) ==
  /\ At(r, {"none"}, {"idle"})
  /\ ops' = [ops EXCEPT ![r].kind = kind, ![r].at = "asked",
                        ![r].preview = preview, ![r].batch = batch]
  /\ UNCHANGED <<session, cancelled, closed, registry, released>>

(* The AbortSignal of a calculation fires.                                 *)
Abort(r) ==
  /\ At(r, Calculations, {"asked", "registered", "running", "ran", "broke"})
  /\ cancelled' = cancelled \union {r}
  /\ UNCHANGED <<session, ops, closed, registry, released>>

(* Mutant: only calls that come after close are refused.                   *)
RefusesNew(r) ==
  /\ At(r, Calculations \union Calls, {"asked"})
  /\ closed
  /\ Ends(r)
  /\ UNCHANGED <<session, cancelled, closed, released>>

(* lock and cancellable_operation fail once close has begun.               *)
Refuse(r) ==
  /\ At(r, Calculations \union Calls, {"asked", "registered", "ran", "broke"})
  /\ closed
  /\ Ends(r)
  /\ UNCHANGED <<session, cancelled, closed, released>>

(* cancellable_operation_with.                                             *)
Register(r) ==
  /\ At(r, Registered, {"asked"}) /\ ~closed
  /\ Goes(r, "registered")
  /\ registry' = registry \union {r}
  /\ UNCHANGED <<session, cancelled, closed, released>>

(* The calculation is prepared under the lock, or refused.                 *)
Prepare(r) ==
  /\ At(r, Registered, {"registered"}) \/ At(r, {"calculate"}, {"asked"})
  /\ ~closed
  /\ \/ LET preview == ops[r].kind = "preview" IN
        /\ session' = IF preview THEN ActivatePreview(session, r) ELSE Activate(session, r)
        /\ cancelled' = cancelled \union Superseded(session)
        /\ ops' = [ops EXCEPT ![r].at = "running", ![r].id = session.nextCalculationId,
                              ![r].preview = IF preview THEN session.nextPreviewId ELSE 0,
                              ![r].base = session.engine]
        /\ UNCHANGED registry
     \/ Ends(r) /\ UNCHANGED <<session, cancelled>>
  /\ UNCHANGED <<closed, released>>

(* The calculation ends, with a result or without.                         *)
Run(r) ==
  /\ At(r, Calculations, {"running"})
  /\ Goes(r, "ran") \/ Goes(r, "broke")
  /\ UNCHANGED <<session, cancelled, closed, registry, released>>

(* A failed run, or a result that cannot be converted, is abandoned.       *)
Abandon(r) ==
  /\ At(r, Calculations, {"broke"}) \/ At(r, {"preview"}, {"ran"})
  /\ ~closed
  /\ session' = AbandonRecalculation(session, ops[r].id)
  /\ Ends(r)
  /\ UNCHANGED <<cancelled, closed, released>>

Current(r) ==
  LET op == ops[r] IN
  CASE op.kind = "calculate" -> CalculationCurrent(session, op.base)
    [] op.kind = "targets" -> TargetCurrent(session, op.base)
    [] OTHER -> TransactionCurrent(session, op.base)

Completed(r) ==
  LET op == ops[r] IN
  CASE op.kind = "calculate" -> InstallRecalculation(session)
    [] op.kind = "targets" -> FinishTargetCalculation(session)
    [] OTHER -> PublishPreview(session, op.preview, op.base, op.batch)

(***************************************************************************)
(* install_recalculation, finish_target_calculation, publish_preview.  The *)
(* first leaves a cancelled request as it is; the others abandon it.       *)
(***************************************************************************)
Finish(r) ==
  LET active == RequireActive(session, ops[r].id) IN
  /\ At(r, Calculations, {"ran"}) /\ ~closed
  /\ session' = CASE active /\ Current(r) -> Completed(r)
                  [] ~active /\ ops[r].kind = "calculate" -> session
                  [] OTHER -> AbandonRecalculation(session, ops[r].id)
  /\ Ends(r)
  /\ UNCHANGED <<cancelled, closed, released>>

-----------------------------------------------------------------------------
(* The synchronous calls, or their refusal by the session.                 *)
Call(r) ==
  LET op == ops[r]
      published == Published(session, op.preview)
      current == TransactionCurrent(session, session.preview.base) IN
  /\ At(r, Calls, {"asked"}) /\ ~closed
  /\ session' \in
       CASE op.kind = "edit" -> {session, InstallChanges(session, op.batch)}
         [] op.kind = "commit" /\ published ->
              {session, IF current THEN CommitPreview(session) ELSE TakePublished(session)}
         [] op.kind = "discard" /\ published -> {TakePublished(session)}
         [] OTHER -> {session}
  /\ cancelled' = cancelled \union (IF op.kind = "cancel" THEN CancelCalculation(session) ELSE {})
  /\ Ends(r)
  /\ UNCHANGED <<closed, released>>

(* close, in its three steps: nothing new, ...                             *)
CloseBegins(r) ==
  /\ At(r, {"close"}, {"asked"})
  /\ closed' = TRUE
  /\ Goes(r, "closing")
  /\ UNCHANGED <<session, cancelled, registry, released>>

(* ... the registered calls are cancelled, ...                             *)
CloseCancels(r) ==
  /\ At(r, {"close"}, {"closing"})
  /\ cancelled' = cancelled \union registry
  /\ Goes(r, "releasing")
  /\ UNCHANGED <<session, closed, registry, released>>

(* Mutant: the session is dropped with its calculation still running.      *)
DropOnly(r) ==
  /\ At(r, {"close"}, {"releasing"})
  /\ session' = [session EXCEPT !.active = None, !.preview = None]
  /\ released' = TRUE
  /\ Goes(r, "done")
  /\ UNCHANGED <<cancelled, closed, registry>>

(* ... and the active calculation is, and the session dropped.             *)
CloseReleases(r) ==
  /\ At(r, {"close"}, {"releasing"})
  /\ cancelled' = cancelled \union CancelCalculation(session)
  /\ session' = [session EXCEPT !.active = None, !.preview = None]
  /\ released' = TRUE
  /\ Goes(r, "done")
  /\ UNCHANGED <<closed, registry>>

-----------------------------------------------------------------------------
Steps(r) ==
  \/ Refuse(r) \/ Register(r) \/ Prepare(r) \/ Abandon(r) \/ Finish(r) \/ Call(r)
  \/ CloseBegins(r) \/ CloseCancels(r) \/ CloseReleases(r)

Ask(r) ==
  \/ \E kind \in Kinds \ {"preview", "edit", "commit", "discard"} : Start(r, kind, 0, NoBatch)
  \/ \E kind \in {"preview", "edit"}, batch \in Batch : Start(r, kind, 0, batch)
  \/ \E kind \in {"commit", "discard"}, preview \in 1 .. session.nextPreviewId - 1 :
       Start(r, kind, preview, NoBatch)

Next == \E r \in Request : Ask(r) \/ Abort(r) \/ Run(r) \/ Steps(r)

Spec == Init /\ [][Next]_vars

(***************************************************************************)
(* Threads and locks make progress.  A calculation may run for as long as  *)
(* it likes, unless its token is cancelled: then it soon notices.          *)
(***************************************************************************)
Fairness == \A r \in Request : WF_vars(Steps(r)) /\ WF_vars(r \in cancelled /\ Run(r))

-----------------------------------------------------------------------------
Size == Cardinality(Request)

Op ==
  [kind : Kinds \union {"none"},
   at : {"idle", "asked", "registered", "running", "ran", "broke", "closing", "releasing", "done"},
   id : Bound(Size), preview : Bound(Size), base : Engine(Size), batch : Batch]

(* The session, the calls and their registrations have their types.        *)
TypeOK ==
  /\ session \in Session(Size)
  /\ cancelled \subseteq Request /\ registry \subseteq Request
  /\ ops \in [Request -> Op]
  /\ closed \in BOOLEAN /\ released \in BOOLEAN

(***************************************************************************)
(* "Once close() returns, the binding-owned native session has been        *)
(* released.  An active calculation is cooperatively cancelled and a       *)
(* published preview is discarded": every calculation still running then   *)
(* was told to stop, the ones that newer requests superseded included.     *)
(***************************************************************************)
ReleasedSessionRunsNothing ==
  released =>
    /\ session.preview = None
    /\ \A r \in Request : At(r, Calculations, {"running"}) => r \in cancelled

(***************************************************************************)
(* After close begins every call ends, although a calculation that nobody  *)
(* cancels may run for ever: close reaches all of them.                    *)
(***************************************************************************)
ClosedWorkEnds ==
  \A r \in Request : closed /\ ops[r].at # "idle" ~> ops[r].at = "done"

(***************************************************************************)
(* "Returns whether a prepared calculation is running or awaiting          *)
(* installation" (calculation_active): the active request is one that some *)
(* call still serves.                                                      *)
(***************************************************************************)
ActiveRequestIsServed ==
  session.active # None =>
    \E r \in Request : ops[r].id = session.active.id /\ ops[r].at # "done"
=============================================================================
