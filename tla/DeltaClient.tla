----------------------------- MODULE DeltaClient -----------------------------
(***************************************************************************)
(* A client of a CalculationSession that keeps its own copy of the results *)
(* from the deltas the session retains: it asks changes_since for pages    *)
(* while the session goes on installing calculations and dropping old      *)
(* deltas.                                                                 *)
(***************************************************************************)
EXTENDS CalculationSession

CONSTANT MaxDeltaPage  \* SessionLimits::max_delta_page

ASSUME PageAssumption == MaxDeltaPage \in Nat \ {0}

VARIABLE client  \* the client: its cursor, its copy, and whether it must start over

clientVars == <<vars, client>>

NoResults == [c \in Cell |-> None]

ClientInit == Init /\ client = [cursor |-> 0, view |-> NoResults, lost |-> FALSE]

(* Mutant: a cursor whose successor was dropped counts as retained.        *)
ExpiredTooLate(cursor) ==
  history # <<>> /\ cursor # 0 /\ cursor + 1 < history[1].cursor - 1

(* changes_since: a cursor is expired if a delta after it was dropped.     *)
Expired(cursor) ==
  history # <<>> /\ cursor # 0 /\ cursor < history[1].cursor - 1

(* The page after the cursor: the first limit retained deltas with a later *)
(* cursor, by their places in the history.                                 *)
DeltaPage(cursor, limit) ==
  LET available == {i \in 1 .. Len(history) : history[i].cursor > cursor} IN
  {i \in available : Cardinality({k \in available : k < i}) < limit}

NamesCell(entry, c) == entry.delta.changed[c] # None \/ c \in entry.delta.removed

LastPlace(places) == CHOOSE i \in places : \A k \in places : k <= i

(* The view after a page: every cell as the last delta that names it says. *)
ApplyPage(view, page) ==
  [c \in Cell |->
     LET named == {i \in page : NamesCell(history[i], c)} IN
     IF named = {} THEN view[c] ELSE history[LastPlace(named)].delta.changed[c]]

(***************************************************************************)
(* The client reads one page and applies it.  It is lost once its cursor   *)
(* has expired, or if the first delta it sees (a zero cursor starts at the *)
(* oldest retained one) is not the first of the session.                   *)
(***************************************************************************)
Follow(limit) ==
  LET page == DeltaPage(client.cursor, limit)
      late == client.cursor = 0 /\ page # {} /\ \A i \in page : history[i].cursor # 1
  IN
  /\ ~client.lost
  /\ client' = IF Expired(client.cursor) \/ late THEN [client EXCEPT !.lost = TRUE]
               ELSE IF page = {} THEN client
               ELSE [client EXCEPT !.cursor = history[LastPlace(page)].cursor,
                                   !.view = ApplyPage(client.view, page)]
  /\ UNCHANGED vars

-----------------------------------------------------------------------------
ClientNext ==
  \/ Next /\ UNCHANGED client
  \/ \E limit \in 1 .. MaxDeltaPage : Follow(limit)

ClientSpec == ClientInit /\ [][ClientNext]_clientVars

-----------------------------------------------------------------------------
(***************************************************************************)
(* A client that follows the deltas page by page, at any pace, either      *)
(* learns that its cursor expired or misses nothing: once it has read up   *)
(* to the last delta, its copy is the installed calculation (changes_since,*)
(* and the delta of install).                                              *)
(***************************************************************************)
FollowerMissesNothing ==
  ~client.lost /\ client.cursor = nextCursor - 1 /\ calculation # None =>
    client.view = calculation.results
=============================================================================
