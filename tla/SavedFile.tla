------------------------------ MODULE SavedFile ------------------------------
(***************************************************************************)
(* What Save As promises about the destination: it names no file, the file *)
(* that was there before, or the whole document of one writer; a document  *)
(* takes the place of another only if its writer asked to replace; and a   *)
(* power loss brings back nothing older than the last synced state.        *)
(***************************************************************************)
CONSTANTS Writer, NoFile

VARIABLES
  saved,      \* what the destination names: NoFile, the old file or a writer's document
  safe,       \* what it may name after a power loss
  replacing   \* the writers that asked to replace

Save(w) ==
  /\ saved = NoFile \/ w \in replacing
  /\ saved' = w
  /\ safe' = safe \union {w}

Sync == saved' = saved /\ safe' = {saved}

PowerLoss == saved' \in safe /\ safe' = {saved'}

SavedFileNext == ((\E w \in Writer : Save(w)) \/ Sync \/ PowerLoss) /\ UNCHANGED replacing

SavedFileInit == saved \notin Writer /\ safe = {saved}

SavedFileSpec == SavedFileInit /\ [][SavedFileNext]_<<saved, safe, replacing>>
=============================================================================
