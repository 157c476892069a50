----------------------------- MODULE AtomicSave -----------------------------
(***************************************************************************)
(* Save As (write_bytes_to_path and write_bytes_to_directory): a document  *)
(* is written to a temporary file beside the destination, synced, and      *)
(* moved to the destination by a rename, a hard link or, where the file    *)
(* system has no links, by reserving the destination with an empty file    *)
(* and renaming over it.  Writers, of one process or of several, save to   *)
(* one destination at the same time; any of them may meet an I/O error or  *)
(* crash at any step, and the machine may lose power.                      *)
(***************************************************************************)
EXTENDS Naturals, FiniteSets

CONSTANTS
  Writer,       \* the Save As calls
  Scenario,     \* what may differ from run to run, see fs
  MaxLosses,    \* bound on the power losses
  Old,          \* the file at the destination before all calls
  NoFile          \* no file

(* The empty file with which a call reserves the destination.              *)
Reservation(w) == <<w, "reservation">>

ASSUME SaveAssumption ==
  /\ IsFiniteSet(Writer)
  /\ Old \notin Writer /\ NoFile \notin Writer /\ Old # NoFile
  /\ \A w \in Writer : Reservation(w) \notin Writer \union {Old, NoFile}
  /\ Scenario \subseteq [links : BOOLEAN, unix : BOOLEAN, replacing : SUBSET Writer, exists : BOOLEAN]
  /\ MaxLosses \in Nat

VARIABLES
  fs,           \* links: hard links work; unix: directories can be synced;
                \* replacing: the calls with replace_existing; exists: Old does
  dest,         \* the file the destination names
  outlives,     \* the files it may name after a power loss: those since the last sync
  temporary,    \* the writers whose temporary file exists
  data,         \* how much of each document's content is where
  pc,           \* where each call is
  version,      \* history: the number of the install that put a document in place
  losses        \* the power losses so far

saveVars == <<fs, dest, outlives, temporary, data, pc, version, losses>>

SaveStarts(scenario) ==
  /\ fs = scenario
  /\ dest = IF fs.exists THEN Old ELSE NoFile
  /\ outlives = {dest}
  /\ temporary = {}
  /\ data = [w \in Writer |-> "torn"]
  /\ pc = [w \in Writer |-> "idle"]
  /\ version = [w \in Writer |-> 0]
  /\ losses = 0

SaveInit == \E scenario \in Scenario : SaveStarts(scenario)

SaveAt(w, place) == pc[w] = place

SaveGoes(w, place) == pc' = [pc EXCEPT ![w] = place]

(* The destination now names the file f; that it does is not yet synced.   *)
Names(f) == dest' = f /\ outlives' = outlives \union {f}

(* The document of w is in place.                                          *)
Installs(w) ==
  /\ Names(w)
  /\ version' = [version EXCEPT ![w] = 1 + Cardinality({v \in Writer : version[v] > 0})]

Placement == <<dest, outlives, version>>

-----------------------------------------------------------------------------
(* The temporary file, created under a name that no other call has.        *)
CreateTemporary(w) == SaveGoes(w, "created") /\ temporary' = temporary \union {w}

(* The call looks at the destination (write_bytes_to_path only) and        *)
(* creates its temporary file.                                             *)
StartSave(w) ==
  /\ SaveAt(w, "idle")
  /\ \/ /\ dest # NoFile /\ w \notin fs.replacing
        /\ SaveGoes(w, "failed") /\ UNCHANGED temporary
     \/ CreateTemporary(w)
     \/ SaveGoes(w, "failed") /\ UNCHANGED temporary
  /\ UNCHANGED <<fs, Placement, data, losses>>

(* Mutant: the content is written but not synced.                          *)
WriteUnsynced(w) ==
  /\ SaveAt(w, "created")
  /\ \/ SaveGoes(w, "written") /\ data' = [data EXCEPT ![w] = "cached"]
     \/ SaveGoes(w, "cleanup") /\ UNCHANGED data
  /\ UNCHANGED <<fs, Placement, temporary, losses>>

(* write_all, flush and sync_all.                                          *)
Write(w) ==
  /\ SaveAt(w, "created")
  /\ \/ SaveGoes(w, "written") /\ data' = [data EXCEPT ![w] = "durable"]
     \/ SaveGoes(w, "cleanup") /\ UNCHANGED data
  /\ UNCHANGED <<fs, Placement, temporary, losses>>

(* persist_temporary with replace_existing: a rename over the destination. *)
Replace(w) ==
  /\ SaveAt(w, "written") /\ w \in fs.replacing
  /\ \/ Installs(w) /\ temporary' = temporary \ {w} /\ SaveGoes(w, "installed")
     \/ SaveGoes(w, "cleanup") /\ UNCHANGED <<Placement, temporary>>
  /\ UNCHANGED <<fs, data, losses>>

(* Mutant: the link is a rename, which replaces what is there.             *)
LinkOverwrites(w) ==
  /\ SaveAt(w, "written") /\ w \notin fs.replacing /\ fs.links
  /\ Installs(w) /\ SaveGoes(w, "linked")
  /\ UNCHANGED <<fs, temporary, data, losses>>

(* persist_temporary without it: an exclusive hard link.                   *)
Link(w) ==
  /\ SaveAt(w, "written") /\ w \notin fs.replacing /\ fs.links
  /\ \/ dest = NoFile /\ Installs(w) /\ SaveGoes(w, "linked")
     \/ dest # NoFile /\ SaveGoes(w, "cleanup") /\ UNCHANGED Placement
  /\ UNCHANGED <<fs, temporary, data, losses>>

(* The temporary name of a linked document goes, if it can be removed.     *)
Unlink(w) ==
  /\ SaveAt(w, "linked")
  /\ temporary' = temporary \ {w} \/ UNCHANGED temporary
  /\ SaveGoes(w, "installed")
  /\ UNCHANGED <<fs, Placement, data, losses>>

(* reserve_and_rename: the destination is created, empty and exclusively.  *)
Reserve(w) ==
  /\ SaveAt(w, "written") /\ w \notin fs.replacing /\ ~fs.links
  /\ \/ dest = NoFile /\ Names(Reservation(w)) /\ SaveGoes(w, "reserved")
     \/ SaveGoes(w, "cleanup") /\ UNCHANGED <<dest, outlives>>
  /\ UNCHANGED <<fs, version, temporary, data, losses>>

(* The rename over the reservation.                                        *)
RenameReserved(w) ==
  /\ SaveAt(w, "reserved")
  /\ \/ Installs(w) /\ temporary' = temporary \ {w} /\ SaveGoes(w, "installed")
     \/ SaveGoes(w, "undo") /\ UNCHANGED <<Placement, temporary>>
  /\ UNCHANGED <<fs, data, losses>>

(* After a failed rename the destination is removed, if it can be.         *)
Undo(w) ==
  /\ SaveAt(w, "undo")
  /\ Names(NoFile) \/ UNCHANGED <<dest, outlives>>
  /\ SaveGoes(w, "cleanup")
  /\ UNCHANGED <<fs, version, temporary, data, losses>>

(* Mutant: the temporary files of other calls are taken for leftovers.     *)
CleanupAll(w) ==
  /\ SaveAt(w, "cleanup")
  /\ temporary' = {}
  /\ SaveGoes(w, "failed")
  /\ UNCHANGED <<fs, Placement, data, losses>>

(* After every error the temporary file is removed, if it can be.          *)
Cleanup(w) ==
  /\ SaveAt(w, "cleanup")
  /\ temporary' = temporary \ {w} \/ UNCHANGED temporary
  /\ SaveGoes(w, "failed")
  /\ UNCHANGED <<fs, Placement, data, losses>>

(* Mutant: the directory is not synced.                                    *)
NoSync(w) ==
  /\ SaveAt(w, "installed")
  /\ SaveGoes(w, "saved")
  /\ UNCHANGED <<fs, Placement, temporary, data, losses>>

(* sync_parent and sync_directory; elsewhere than on unix there is nothing *)
(* to sync.  An error is reported although the document is in place.       *)
SyncParent(w) ==
  /\ SaveAt(w, "installed")
  /\ \/ SaveGoes(w, "saved") /\ outlives' = IF fs.unix THEN {dest} ELSE outlives
     \/ SaveGoes(w, "failed") /\ fs.unix /\ UNCHANGED outlives
  /\ UNCHANGED <<fs, dest, version, temporary, data, losses>>

-----------------------------------------------------------------------------
Running(w) == ~SaveAt(w, "idle") /\ ~SaveAt(w, "saved") /\ ~SaveAt(w, "failed") /\ ~SaveAt(w, "crashed")

(* The process of the call ends, and with it every call it serves.         *)
Crash(W) ==
  /\ \E w \in W : Running(w)
  /\ pc' = [w \in Writer |-> IF w \in W /\ Running(w) THEN "crashed" ELSE pc[w]]
  /\ UNCHANGED <<fs, Placement, temporary, data, losses>>

(***************************************************************************)
(* The machine loses power: of the changes to the directory since the last *)
(* sync some are lost, and content that was not synced is.  Calls start    *)
(* again afterwards.                                                       *)
(***************************************************************************)
LosePower ==
  /\ losses < MaxLosses
  /\ losses' = losses + 1
  /\ dest' \in outlives
  /\ outlives' = {dest'}
  /\ \E kept \in SUBSET temporary : temporary' = kept
  /\ data' = [w \in Writer |-> IF data[w] = "cached" THEN "torn" ELSE data[w]]
  /\ pc' = [w \in Writer |-> IF Running(w) THEN "crashed" ELSE pc[w]]
  /\ UNCHANGED <<fs, version>>

(* A call: the same steps for a path and in an open directory.             *)
Step(w) ==
  \/ StartSave(w) \/ Write(w) \/ Replace(w) \/ Link(w) \/ Unlink(w)
  \/ Reserve(w) \/ RenameReserved(w) \/ Undo(w) \/ Cleanup(w) \/ SyncParent(w)

SaveNext ==
  \/ \E w \in Writer : Step(w)
  \/ \E W \in SUBSET Writer : Crash(W)
  \/ LosePower

SaveSpec == SaveInit /\ [][SaveNext]_saveVars

-----------------------------------------------------------------------------
File == Writer \union {Old, NoFile} \union {Reservation(w) : w \in Writer}

(* The file system and the calls have their types, and a call that has yet *)
(* to move its document still has the temporary file with it.              *)
SaveTypeOK ==
  /\ fs \in Scenario
  /\ dest \in File /\ outlives \subseteq File /\ dest \in outlives
  /\ temporary \subseteq Writer
  /\ \A w \in Writer : pc[w] \in {"created", "written", "linked", "reserved"} => w \in temporary
  /\ data \in [Writer -> {"torn", "cached", "durable"}]
  /\ pc \in [Writer -> {"idle", "created", "written", "linked", "reserved", "undo", "cleanup",
                        "installed", "saved", "failed", "crashed"}]
  /\ version \in [Writer -> 0 .. Cardinality(Writer)]
  /\ losses \in 0 .. MaxLosses

(***************************************************************************)
(* "Atomically saves this verified package" (save_path): the destination   *)
(* never names a partly written document, not even after a crash or a      *)
(* power loss at the worst moment.  The empty file a call may leave there  *)
(* is a reservation of its own, on a file system without links.            *)
(***************************************************************************)
DestinationIsWhole ==
  /\ \A w \in Writer : dest = w => data[w] # "torn"
  /\ \A w \in Writer : dest = Reservation(w) => ~fs.links /\ w \notin fs.replacing

(***************************************************************************)
(* What a call reported as saved survives a power loss: the destination    *)
(* can then only name that document or one that replaced it (sync_all and  *)
(* sync_parent before the call returns).                                   *)
(***************************************************************************)
SavedOutlivesPowerLoss ==
  fs.unix =>
    \A w \in Writer : SaveAt(w, "saved") =>
      \A f \in outlives : f \in Writer /\ version[f] >= version[w]

(* What a reader of the destination sees: an empty reservation is no file. *)
Visible(f) == IF f \in Writer \union {Old} THEN f ELSE NoFile

(***************************************************************************)
(* Save As implements SavedFile: to whoever reads the destination, an      *)
(* empty reservation counting as no file, every call replaces it in one    *)
(* step or not at all, and only a call with replace_existing replaces a    *)
(* file.  Where links fail this needs that no call with replace_existing   *)
(* runs beside one without.                                                *)
(***************************************************************************)
Atomic == INSTANCE SavedFile WITH
  saved <- Visible(dest), safe <- {Visible(f) : f \in outlives}, replacing <- fs.replacing

ImplementsSavedFile == Atomic!SavedFileSpec

(***************************************************************************)
(* "The rename then replaces a reservation this call owns, never a         *)
(* caller's file" (reserve_and_rename): a call without replace_existing    *)
(* takes no document of another call from the destination.                 *)
(***************************************************************************)
RenameReplacesOwnReservation ==
  [][\A w \in Writer : RenameReserved(w) /\ dest' # dest => dest = Reservation(w)]_saveVars
=============================================================================
