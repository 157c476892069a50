----------------------------- MODULE HostProofs -----------------------------
(***************************************************************************)
(* What the hosts do with files and with tasks.  Save As, for any number   *)
(* of calls on one destination, with errors at any step, crashes and power *)
(* losses: that saved documents survive, and that Save As implements       *)
(* SavedFile, needs that where hard links fail no call with                *)
(* replace_existing runs beside one without (CallsAgree).  The calls of a  *)
(* language binding on one session, for any number of them, while the      *)
(* session is closed.                                                      *)
(***************************************************************************)
EXTENDS AtomicSave, BindingTasks, FiniteSetTheorems, TLAPS

CallsAgree == \A s \in Scenario : s.links \/ s.replacing = {} \/ s.replacing = Writer

Place == {"idle", "created", "written", "linked", "reserved", "undo", "cleanup", "installed",
          "saved", "failed", "crashed"}

SaveShape ==
  /\ fs \in Scenario
  /\ dest \in outlives
  /\ data \in [Writer -> {"torn", "cached", "durable"}]
  /\ pc \in [Writer -> Place]
  /\ version \in [Writer -> Nat]

(* Where the document of a call is synced.                                 *)
Synced == {"written", "linked", "reserved", "undo", "installed"}

(***************************************************************************)
(* What the destination may name after a power loss is whole: the          *)
(* documents are synced, and they were before anything named them.         *)
(***************************************************************************)
WholeInv ==
  /\ SaveShape
  /\ \A w \in Writer : pc[w] \in Synced => data[w] = "durable"
  /\ \A w \in Writer : w \in outlives => data[w] = "durable"
  /\ \A w \in Writer : Reservation(w) \in outlives => ~fs.links /\ w \notin fs.replacing

(* Before any call nothing is in place.                                    *)
LEMMA WholeInit == SaveInit => WholeInv
<1> SUFFICES ASSUME SaveInit PROVE WholeInv
  OBVIOUS
<1>1. /\ fs \in Scenario /\ dest \in {Old, NoFile} /\ outlives = {dest}
      /\ data = [w \in Writer |-> "torn"] /\ pc = [w \in Writer |-> "idle"]
      /\ version = [w \in Writer |-> 0]
  BY DEF SaveInit, SaveStarts
<1>2. SaveShape
  BY <1>1 DEF SaveShape, Place
<1> QED
  BY <1>1, <1>2, SaveAssumption DEF WholeInv, Synced

(* The number that the next document in place gets.                        *)
NextVersion == 1 + Cardinality({v \in Writer : version[v] > 0})

(* Documents in place are counted from one.                                *)
LEMMA NextVersionType == SaveShape => NextVersion \in Nat \ {0}
<1> SUFFICES ASSUME SaveShape PROVE NextVersion \in Nat \ {0}
  OBVIOUS
<1>1. IsFiniteSet({v \in Writer : version[v] > 0})
  BY SaveAssumption, FS_Subset
<1>2. Cardinality({v \in Writer : version[v] > 0}) \in Nat
  BY <1>1, FS_CardinalityType
<1> QED
  BY <1>2 DEF NextVersion

(***************************************************************************)
(* What a step of the call w does to the rest of the state: it puts the    *)
(* synced document in place, it reserves or frees the destination, it      *)
(* syncs the document or the directory, or it leaves all that alone.       *)
(***************************************************************************)
InstallsDocument(w) ==
  /\ pc[w] \in {"written", "reserved"}
  /\ pc[w] = "reserved" \/ w \in fs.replacing \/ dest = NoFile
  /\ pc' = [pc EXCEPT ![w] = "installed"] \/ pc' = [pc EXCEPT ![w] = "linked"]
  /\ dest' = w /\ outlives' = outlives \union {w}
  /\ version' = [version EXCEPT ![w] = NextVersion]
  /\ UNCHANGED data

Reserves(w) ==
  /\ pc[w] = "written" /\ w \notin fs.replacing /\ ~fs.links /\ dest = NoFile
  /\ pc' = [pc EXCEPT ![w] = "reserved"]
  /\ dest' = Reservation(w) /\ outlives' = outlives \union {Reservation(w)}
  /\ UNCHANGED <<version, data>>

Frees(w) ==
  /\ pc[w] = "undo"
  /\ pc' = [pc EXCEPT ![w] = "cleanup"]
  /\ dest' = NoFile /\ outlives' = outlives \union {NoFile}
  /\ UNCHANGED <<version, data>>

SyncsDocument(w) ==
  /\ pc[w] = "created"
  /\ pc' = [pc EXCEPT ![w] = "written"]
  /\ data' = [data EXCEPT ![w] = "durable"]
  /\ UNCHANGED <<dest, outlives, version>>

SyncsDirectory(w) ==
  /\ pc[w] = "installed"
  /\ pc' = [pc EXCEPT ![w] = "saved"]
  /\ outlives' = (IF fs.unix THEN {dest} ELSE outlives)
  /\ UNCHANGED <<dest, version, data>>

GoesOn(w) ==
  /\ \E p \in Place :
       /\ pc' = [pc EXCEPT ![w] = p]
       /\ \/ p \in {"created", "cleanup", "failed"}
          \/ p = "installed" /\ pc[w] = "linked"
          \/ p = "undo" /\ pc[w] = "reserved"
       /\ p = "created" => pc[w] = "idle"
  /\ UNCHANGED <<dest, outlives, version, data>>

(* Every step of a call has one of these effects.                          *)
LEMMA StepEffects ==
  ASSUME SaveShape, NEW w \in Writer, Step(w)
  PROVE  /\ UNCHANGED fs
         /\ \/ InstallsDocument(w) \/ Reserves(w) \/ Frees(w)
            \/ SyncsDocument(w) \/ SyncsDirectory(w) \/ GoesOn(w)
<1> USE DEF SaveAt, SaveGoes, Placement
<1>1. CASE StartSave(w)
  BY <1>1 DEF StartSave, CreateTemporary, GoesOn, Place
<1>2. CASE Write(w)
  BY <1>2 DEF Write, SyncsDocument, GoesOn, Place
<1>3. CASE Replace(w)
  BY <1>3 DEF Replace, Installs, Names, InstallsDocument, NextVersion, GoesOn, Place
<1>4. CASE Link(w)
  BY <1>4 DEF Link, Installs, Names, InstallsDocument, NextVersion, GoesOn, Place
<1>5. CASE Unlink(w)
  BY <1>5 DEF Unlink, GoesOn, Place
<1>6. CASE Reserve(w)
  BY <1>6 DEF Reserve, Names, Reserves, GoesOn, Place
<1>7. CASE RenameReserved(w)
  BY <1>7 DEF RenameReserved, Installs, Names, InstallsDocument, NextVersion, GoesOn, Place
<1>8. CASE Undo(w)
  BY <1>8 DEF Undo, Names, Frees, GoesOn, Place
<1>9. CASE Cleanup(w)
  BY <1>9 DEF Cleanup, GoesOn, Place
<1>10. CASE SyncParent(w)
  BY <1>10 DEF SyncParent, SyncsDirectory, GoesOn, Place
<1> QED
  BY <1>1, <1>2, <1>3, <1>4, <1>5, <1>6, <1>7, <1>8, <1>9, <1>10 DEF Step

(* A call that a crash or a power loss ends has not been saved.            *)
LEMMA CrashEffects ==
  ASSUME SaveShape, (\E W \in SUBSET Writer : Crash(W)) \/ LosePower
  PROVE  /\ UNCHANGED <<fs, version>>
         /\ pc' \in [Writer -> Place]
         /\ \A w \in Writer : pc'[w] = pc[w] \/ pc'[w] = "crashed"
<1>1. CASE \E W \in SUBSET Writer : Crash(W)
  BY <1>1 DEF Crash, Placement, SaveShape, Place
<1>2. CASE LosePower
  BY <1>2 DEF LosePower, SaveShape, Place
<1> QED
  BY <1>1, <1>2

(* The state keeps its shape.                                              *)
LEMMA ShapeStep == SaveShape /\ [SaveNext]_saveVars => SaveShape'
<1> SUFFICES ASSUME SaveShape, [SaveNext]_saveVars PROVE SaveShape'
  OBVIOUS
<1>1. CASE UNCHANGED saveVars
  BY <1>1 DEF saveVars, SaveShape
<1>2. ASSUME NEW w \in Writer, Step(w) PROVE SaveShape'
  <2>1. UNCHANGED fs
    BY <1>2, StepEffects
  <2>2. CASE InstallsDocument(w)
    BY <2>1, <2>2, NextVersionType DEF InstallsDocument, SaveShape, Place
  <2>3. CASE Reserves(w) \/ Frees(w) \/ SyncsDocument(w) \/ SyncsDirectory(w)
    BY <2>1, <2>3 DEF Reserves, Frees, SyncsDocument, SyncsDirectory, SaveShape, Place
  <2>4. CASE GoesOn(w)
    BY <2>1, <2>4 DEF GoesOn, SaveShape
  <2> QED
    BY <1>2, <2>2, <2>3, <2>4, StepEffects
<1>3. CASE \E W \in SUBSET Writer : Crash(W)
  BY <1>3, CrashEffects DEF Crash, Placement, SaveShape
<1>4. CASE LosePower
  BY <1>4, CrashEffects DEF LosePower, SaveShape
<1> QED
  BY <1>1, <1>2, <1>3, <1>4 DEF SaveNext

(* What may be in place stays whole.                                       *)
LEMMA WholeStep == WholeInv /\ [SaveNext]_saveVars => WholeInv'
<1> SUFFICES ASSUME WholeInv, [SaveNext]_saveVars PROVE WholeInv'
  OBVIOUS
<1>1. SaveShape /\ SaveShape'
  BY ShapeStep DEF WholeInv
<1>2. CASE UNCHANGED saveVars
  BY <1>2 DEF saveVars, WholeInv, SaveShape
<1>3. ASSUME NEW w \in Writer, Step(w) PROVE WholeInv'
  <2>1. UNCHANGED fs
    BY <1>1, <1>3, StepEffects
  <2>2. CASE InstallsDocument(w)
    BY <1>1, <2>1, <2>2, SaveAssumption DEF InstallsDocument, WholeInv, SaveShape, Synced
  <2>3. CASE Reserves(w)
    <3>1. \A v \in Writer : v \in outlives' => v \in outlives
      BY <2>3, SaveAssumption DEF Reserves
    <3>2. \A v \in Writer : Reservation(v) = Reservation(w) => v = w
      BY DEF Reservation
    <3> QED
      BY <1>1, <2>1, <2>3, <3>1, <3>2 DEF Reserves, WholeInv, SaveShape, Synced
  <2>4. CASE Frees(w)
    BY <1>1, <2>1, <2>4, SaveAssumption DEF Frees, WholeInv, SaveShape, Synced
  <2>5. CASE SyncsDocument(w)
    BY <1>1, <2>1, <2>5 DEF SyncsDocument, WholeInv, SaveShape, Synced
  <2>6. CASE SyncsDirectory(w)
    BY <1>1, <2>1, <2>6 DEF SyncsDirectory, WholeInv, SaveShape, Synced
  <2>7. CASE GoesOn(w)
    BY <1>1, <2>1, <2>7 DEF GoesOn, WholeInv, SaveShape, Synced
  <2> QED
    BY <1>1, <1>3, <2>2, <2>3, <2>4, <2>5, <2>6, <2>7, StepEffects
<1>4. CASE \E W \in SUBSET Writer : Crash(W)
  BY <1>1, <1>4, CrashEffects DEF Crash, Placement, WholeInv, Synced
<1>5. CASE LosePower
  BY <1>1, <1>5, CrashEffects DEF LosePower, WholeInv, SaveShape, Synced
<1> QED
  BY <1>2, <1>3, <1>4, <1>5 DEF SaveNext

(***************************************************************************)
(* For any number of calls, of either kind and on every file system: the   *)
(* destination never names a partly written document, whatever fails and   *)
(* whenever power is lost (write_bytes_to_path, persist_temporary).        *)
(***************************************************************************)
THEOREM SavesAreWhole == SaveSpec => []DestinationIsWhole
<1>1. WholeInv => DestinationIsWhole
  BY DEF WholeInv, SaveShape, DestinationIsWhole
<1> QED
  BY <1>1, WholeInit, WholeStep, PTL DEF SaveSpec

-----------------------------------------------------------------------------
(* The calls whose document was put in place at some time.                 *)
InPlace == {v \in Writer : version[v] > 0}

(***************************************************************************)
(* Where calls agree: who holds the reservation has the destination, a     *)
(* call installs once, later documents have greater versions, and once a   *)
(* document is in place the destination names it or a later one.           *)
(***************************************************************************)
AgreeInv ==
  /\ SaveShape
  /\ \A w \in Writer : pc[w] \in {"reserved", "undo"} =>
       ~fs.links /\ w \notin fs.replacing /\ dest = Reservation(w)
  /\ \A w \in Writer : pc[w] \in {"idle", "created", "written", "reserved"} => version[w] = 0
  /\ \A w \in Writer : version[w] <= Cardinality(InPlace)
  /\ \A w \in Writer : pc[w] \in {"linked", "installed"} =>
       dest \in Writer /\ version[dest] >= version[w]
  /\ SavedOutlivesPowerLoss

(* Before any call, again.                                                 *)
LEMMA AgreeInit == SaveInit => AgreeInv
<1> SUFFICES ASSUME SaveInit PROVE AgreeInv
  OBVIOUS
<1>1. pc = [w \in Writer |-> "idle"] /\ version = [w \in Writer |-> 0]
  BY DEF SaveInit, SaveStarts
<1>2. InPlace = {}
  BY <1>1 DEF InPlace
<1>3. Cardinality(InPlace) = 0
  BY <1>2, FS_EmptySet
<1>4. SaveShape
  BY WholeInit DEF WholeInv
<1> QED
  BY <1>1, <1>3, <1>4 DEF AgreeInv, SavedOutlivesPowerLoss, SaveAt

(* A document put in place is later than all before it.                    *)
LEMMA LaterVersion ==
  ASSUME AgreeInv, NEW w \in Writer, version[w] = 0,
         version' = [version EXCEPT ![w] = NextVersion]
  PROVE  /\ \A v \in Writer : version'[v] <= Cardinality(InPlace)'
         /\ \A v \in Writer : version'[v] <= version'[w] /\ version[v] <= version'[v]
<1>1. IsFiniteSet(InPlace)
  BY SaveAssumption, FS_Subset DEF InPlace
<1>2. version \in [Writer -> Nat] /\ NextVersion = 1 + Cardinality(InPlace)
  BY DEF AgreeInv, SaveShape, NextVersion, InPlace
<1>3. Cardinality(InPlace) \in Nat
  BY <1>1, FS_CardinalityType
<1>4. InPlace' = InPlace \union {w} /\ w \notin InPlace
  BY <1>2, <1>3 DEF InPlace
<1>5. Cardinality(InPlace \union {w}) = Cardinality(InPlace) + 1
  BY <1>1, <1>4, FS_AddElement
<1>6. \A v \in Writer : version[v] <= Cardinality(InPlace)
  BY DEF AgreeInv
<1> QED
  BY <1>2, <1>3, <1>4, <1>5, <1>6

(* Calls that agree keep to the order of their documents.                  *)
LEMMA AgreeStep ==
  ASSUME CallsAgree
  PROVE  AgreeInv /\ [SaveNext]_saveVars => AgreeInv'
<1> SUFFICES ASSUME AgreeInv, [SaveNext]_saveVars PROVE AgreeInv'
  OBVIOUS
<1>1. SaveShape /\ SaveShape'
  BY ShapeStep DEF AgreeInv
<1>2. fs.links \/ fs.replacing = {} \/ fs.replacing = Writer
  BY <1>1 DEF CallsAgree, SaveShape
<1>3. \A v, w \in Writer : Reservation(v) = Reservation(w) => v = w
  BY DEF Reservation
<1>4. CASE UNCHANGED saveVars
  BY <1>1, <1>4 DEF saveVars, AgreeInv, InPlace, SavedOutlivesPowerLoss, SaveAt
<1>5. ASSUME NEW w \in Writer, Step(w) PROVE AgreeInv'
  <2>1. UNCHANGED fs
    BY <1>1, <1>5, StepEffects
  <2>2. CASE InstallsDocument(w)
    <3>1. version[w] = 0
      BY <2>2 DEF InstallsDocument, AgreeInv
    <3>2. /\ \A v \in Writer : version'[v] <= Cardinality(InPlace)'
          /\ \A v \in Writer : version'[v] <= version'[w] /\ version[v] <= version'[v]
      BY <2>2, <3>1, LaterVersion DEF InstallsDocument
    <3>3. \A v \in Writer : pc[v] \in {"reserved", "undo"} => v = w
      BY <1>1, <1>2, <1>3, <2>2, SaveAssumption DEF InstallsDocument, AgreeInv, SaveShape
    <3>4. \A v \in Writer : v # w => pc'[v] = pc[v] /\ version'[v] = version[v]
      BY <1>1, <2>2 DEF InstallsDocument, SaveShape
    <3>5. pc'[w] \in {"installed", "linked"} /\ dest' = w /\ outlives' = outlives \union {w}
      BY <1>1, <2>2 DEF InstallsDocument, SaveShape
    <3>6. SavedOutlivesPowerLoss'
      <4> SUFFICES ASSUME fs.unix, NEW v \in Writer, pc'[v] = "saved", NEW f \in outlives'
                   PROVE  f \in Writer /\ version'[f] >= version'[v]
        BY <2>1 DEF SavedOutlivesPowerLoss, SaveAt
      <4>1. v # w /\ pc[v] = "saved" /\ version'[v] = version[v]
        BY <3>4, <3>5
      <4>2. CASE f = w
        BY <3>2, <4>2, <1>1 DEF SaveShape
      <4>3. CASE f \in outlives
        <5>1. f \in Writer /\ version[f] >= version[v]
          BY <4>1, <4>3 DEF AgreeInv, SavedOutlivesPowerLoss, SaveAt
        <5> QED
          BY <1>1, <3>2, <4>1, <5>1 DEF SaveShape
      <4> QED
        BY <3>5, <4>2, <4>3
    <3> QED
      BY <1>1, <3>2, <3>3, <3>4, <3>5, <3>6 DEF AgreeInv, SaveShape
  <2>3. CASE Reserves(w)
    <3>1. \A v \in Writer : pc[v] \notin {"reserved", "undo", "linked", "installed"}
      BY <2>3, SaveAssumption DEF Reserves, AgreeInv
    <3>2. fs.unix => \A v \in Writer : pc[v] # "saved"
      BY <1>1, <2>3, SaveAssumption DEF Reserves, AgreeInv, SavedOutlivesPowerLoss, SaveAt, SaveShape
    <3>3. pc' = [pc EXCEPT ![w] = "reserved"] /\ dest' = Reservation(w)
      BY <2>3 DEF Reserves
    <3>4. SavedOutlivesPowerLoss'
      BY <1>1, <2>1, <3>2, <3>3 DEF SavedOutlivesPowerLoss, SaveAt, SaveShape
    <3>5. InPlace' = InPlace
      BY <2>3 DEF Reserves, InPlace
    <3> QED
      BY <1>1, <2>1, <2>3, <3>1, <3>3, <3>4, <3>5 DEF Reserves, AgreeInv, SaveShape
  <2>4. CASE Frees(w)
    <3>1. dest = Reservation(w)
      BY <2>4 DEF Frees, AgreeInv
    <3>2. \A v \in Writer : pc[v] \notin {"linked", "installed"}
      BY <3>1, SaveAssumption DEF AgreeInv
    <3>3. \A v \in Writer : pc[v] \in {"reserved", "undo"} => v = w
      BY <1>3, <3>1 DEF AgreeInv
    <3>4. fs.unix => \A v \in Writer : pc[v] # "saved"
      BY <1>1, <3>1, SaveAssumption DEF AgreeInv, SavedOutlivesPowerLoss, SaveAt, SaveShape
    <3>5. pc' = [pc EXCEPT ![w] = "cleanup"]
      BY <2>4 DEF Frees
    <3>6. SavedOutlivesPowerLoss'
      BY <1>1, <2>1, <3>4, <3>5 DEF SavedOutlivesPowerLoss, SaveAt, SaveShape
    <3>7. InPlace' = InPlace
      BY <2>4 DEF Frees, InPlace
    <3> QED
      BY <1>1, <2>1, <2>4, <3>2, <3>3, <3>5, <3>6, <3>7 DEF Frees, AgreeInv, SaveShape
  <2>5. CASE SyncsDocument(w) \/ GoesOn(w)
    <3>1. UNCHANGED <<dest, outlives, version>>
      BY <2>5 DEF SyncsDocument, GoesOn
    <3>2. /\ \A v \in Writer : v # w => pc'[v] = pc[v]
          /\ \/ pc'[w] \in {"cleanup", "failed"}
             \/ pc'[w] = "created" /\ pc[w] = "idle"
             \/ pc'[w] = "written" /\ pc[w] = "created"
             \/ pc'[w] = "installed" /\ pc[w] = "linked"
             \/ pc'[w] = "undo" /\ pc[w] = "reserved"
      BY <1>1, <2>5 DEF SyncsDocument, GoesOn, SaveShape
    <3>3. InPlace' = InPlace
      BY <3>1 DEF InPlace
    <3>4. SavedOutlivesPowerLoss'
      BY <2>1, <3>1, <3>2 DEF AgreeInv, SavedOutlivesPowerLoss, SaveAt
    <3> QED
      BY <1>1, <2>1, <3>1, <3>2, <3>3, <3>4 DEF AgreeInv
  <2>6. CASE SyncsDirectory(w)
    <3>1. dest \in Writer /\ version[dest] >= version[w]
      BY <2>6 DEF SyncsDirectory, AgreeInv
    <3>2. /\ UNCHANGED <<dest, version>>
          /\ outlives' = IF fs.unix THEN {dest} ELSE outlives
          /\ \A v \in Writer : v # w => pc'[v] = pc[v]
          /\ pc'[w] = "saved"
      BY <1>1, <2>6 DEF SyncsDirectory, SaveShape
    <3>3. InPlace' = InPlace
      BY <3>2 DEF InPlace
    <3>4. SavedOutlivesPowerLoss'
      BY <1>1, <2>1, <3>1, <3>2 DEF AgreeInv, SavedOutlivesPowerLoss, SaveAt, SaveShape
    <3> QED
      BY <1>1, <2>1, <3>2, <3>3, <3>4 DEF AgreeInv
  <2> QED
    BY <1>1, <1>5, <2>2, <2>3, <2>4, <2>5, <2>6, StepEffects
<1>6. CASE \E W \in SUBSET Writer : Crash(W)
  <2>1. UNCHANGED <<fs, dest, outlives, version>>
    BY <1>6 DEF Crash, Placement
  <2>2. \A w \in Writer : pc'[w] = pc[w] \/ pc'[w] = "crashed"
    BY <1>1, <1>6, CrashEffects
  <2>3. InPlace' = InPlace
    BY <2>1 DEF InPlace
  <2>4. SavedOutlivesPowerLoss'
    BY <2>1, <2>2 DEF AgreeInv, SavedOutlivesPowerLoss, SaveAt
  <2> QED
    BY <1>1, <2>1, <2>2, <2>3, <2>4 DEF AgreeInv
<1>7. CASE LosePower
  <2>1. UNCHANGED <<fs, version>> /\ dest' \in outlives /\ outlives' = {dest'}
    BY <1>7 DEF LosePower
  <2>2. \A w \in Writer : /\ pc'[w] = pc[w] \/ pc'[w] = "crashed"
                          /\ pc'[w] \in {"idle", "saved", "failed", "crashed"}
    BY <1>1, <1>7 DEF LosePower, Running, SaveAt, SaveShape
  <2>3. InPlace' = InPlace
    BY <2>1 DEF InPlace
  <2>4. SavedOutlivesPowerLoss'
    BY <2>1, <2>2 DEF AgreeInv, SavedOutlivesPowerLoss, SaveAt
  <2> QED
    BY <1>1, <2>1, <2>2, <2>3, <2>4 DEF AgreeInv
<1> QED
  BY <1>4, <1>5, <1>6, <1>7 DEF SaveNext

(***************************************************************************)
(* For any number of calls that agree: after a power loss the destination  *)
(* names a document reported as saved, or one put in place later (sync_all *)
(* and sync_parent).                                                       *)
(***************************************************************************)
THEOREM SavedDocumentsSurvive ==
  ASSUME CallsAgree
  PROVE  SaveSpec => []SavedOutlivesPowerLoss
<1>1. AgreeInv => SavedOutlivesPowerLoss
  BY DEF AgreeInv
<1> QED
  BY <1>1, AgreeInit, AgreeStep, PTL DEF SaveSpec

(***************************************************************************)
(* For any number of calls that agree, Save As implements SavedFile: who   *)
(* reads the destination sees every call replace it in one step or not at  *)
(* all, and only calls with replace_existing replace a file.               *)
(***************************************************************************)
THEOREM SavesImplementSavedFile ==
  ASSUME CallsAgree
  PROVE  SaveSpec => ImplementsSavedFile
<1> DEFINE seen == <<Visible(dest), {Visible(f) : f \in outlives}, fs.replacing>>
<1>1. SaveInit => Atomic!SavedFileInit
  <2> SUFFICES ASSUME SaveInit PROVE Atomic!SavedFileInit
    OBVIOUS
  <2>1. dest \in {Old, NoFile} /\ outlives = {dest}
    BY DEF SaveInit, SaveStarts
  <2> QED
    BY <2>1, SaveAssumption DEF Atomic!SavedFileInit, Visible
<1>2. AgreeInv /\ [SaveNext]_saveVars => [Atomic!SavedFileNext]_seen
  <2> SUFFICES ASSUME AgreeInv, [SaveNext]_saveVars PROVE [Atomic!SavedFileNext]_seen
    OBVIOUS
  <2>1. SaveShape
    BY DEF AgreeInv
  <2>2. CASE UNCHANGED <<fs, dest, outlives>>
    BY <2>2 DEF Visible
  <2>3. ASSUME NEW w \in Writer, Step(w) PROVE [Atomic!SavedFileNext]_seen
    <3>1. UNCHANGED fs
      BY <2>1, <2>3, StepEffects
    <3>2. CASE InstallsDocument(w)
      <4>1. Visible(dest) = NoFile \/ w \in fs.replacing
        BY <3>2, SaveAssumption DEF InstallsDocument, AgreeInv, Visible
      <4>2. Visible(dest') = w
        BY <3>2 DEF InstallsDocument, Visible
      <4>3. {Visible(f) : f \in outlives'} = {Visible(f) : f \in outlives} \union {w}
        BY <3>2 DEF InstallsDocument, Visible
      <4> QED
        BY <3>1, <4>1, <4>2, <4>3 DEF Atomic!SavedFileNext, Atomic!Save, Visible
    <3>3. CASE Reserves(w) \/ Frees(w)
      <4>1. Visible(dest) = NoFile /\ Visible(dest') = NoFile
        BY <3>3, SaveAssumption DEF Reserves, Frees, AgreeInv, Visible
      <4>2. \A f : f \in outlives' <=> f \in outlives \/ f = dest'
        BY <3>3 DEF Reserves, Frees
      <4>3. {Visible(f) : f \in outlives'} = {Visible(f) : f \in outlives}
        BY <2>1, <4>1, <4>2 DEF SaveShape
      <4> QED
        BY <3>1, <4>1, <4>3 DEF Visible
    <3>4. CASE SyncsDocument(w) \/ GoesOn(w)
      BY <2>2, <3>1, <3>4 DEF SyncsDocument, GoesOn
    <3>5. CASE SyncsDirectory(w)
      BY <3>1, <3>5 DEF SyncsDirectory, Atomic!SavedFileNext, Atomic!Sync, Visible
    <3> QED
      BY <2>1, <2>3, <3>2, <3>3, <3>4, <3>5, StepEffects
  <2>4. CASE \E W \in SUBSET Writer : Crash(W)
    BY <2>2, <2>4 DEF Crash, Placement
  <2>5. CASE LosePower
    BY <2>5 DEF LosePower, Atomic!SavedFileNext, Atomic!PowerLoss, Visible
  <2>6. CASE UNCHANGED saveVars
    BY <2>2, <2>6 DEF saveVars
  <2> QED
    BY <2>3, <2>4, <2>5, <2>6, Zenon DEF SaveNext
<1> QED
  BY <1>1, <1>2, AgreeInit, AgreeStep, PTL DEF SaveSpec, ImplementsSavedFile, Atomic!SavedFileSpec

-----------------------------------------------------------------------------
(* Where a call has yet to move its document.                              *)
Unmoved == {"created", "written", "linked", "reserved"}

(* A call installs at most once.                                           *)
TypesInv ==
  /\ SaveTypeOK
  /\ \A w \in Writer : pc[w] \in {"idle", "created", "written", "reserved"} => version[w] = 0

(* What a step of the call w does to the temporary files.                  *)
LEMMA TemporaryEffects ==
  ASSUME SaveTypeOK, NEW w \in Writer, Step(w)
  PROVE  /\ losses' = losses
         /\ temporary' \subseteq Writer
         /\ \A v \in Writer \ {w} : v \in temporary => v \in temporary'
         /\ pc'[w] \in Unmoved => w \in temporary'
<1> USE DEF SaveAt, SaveGoes, SaveTypeOK, Unmoved
<1>1. CASE StartSave(w)
  BY <1>1 DEF StartSave, CreateTemporary
<1>2. CASE Write(w)
  BY <1>2 DEF Write
<1>3. CASE Replace(w)
  BY <1>3 DEF Replace
<1>4. CASE Link(w)
  BY <1>4 DEF Link
<1>5. CASE Unlink(w)
  BY <1>5 DEF Unlink
<1>6. CASE Reserve(w)
  BY <1>6 DEF Reserve
<1>7. CASE RenameReserved(w)
  BY <1>7 DEF RenameReserved
<1>8. CASE Undo(w)
  BY <1>8 DEF Undo
<1>9. CASE Cleanup(w)
  BY <1>9 DEF Cleanup
<1>10. CASE SyncParent(w)
  BY <1>10 DEF SyncParent
<1> QED
  BY <1>1, <1>2, <1>3, <1>4, <1>5, <1>6, <1>7, <1>8, <1>9, <1>10 DEF Step

(* No document gets a number above that of the calls.                      *)
LEMMA VersionBound ==
  ASSUME TypesInv, NEW w \in Writer, version[w] = 0
  PROVE  NextVersion \in 0 .. Cardinality(Writer)
<1>1. IsFiniteSet(InPlace) /\ InPlace \subseteq Writer /\ w \notin InPlace
  <2>1. w \notin InPlace /\ InPlace \subseteq Writer
    BY DEF InPlace
  <2> QED
    BY <2>1, SaveAssumption, FS_Subset
<1>2. Cardinality(InPlace \union {w}) = Cardinality(InPlace) + 1 /\ Cardinality(InPlace) \in Nat
  BY <1>1, FS_AddElement, FS_CardinalityType
<1>3. Cardinality(InPlace \union {w}) <= Cardinality(Writer) /\ Cardinality(Writer) \in Nat
  <2>1. InPlace \union {w} \in SUBSET Writer
    BY <1>1
  <2> QED
    BY <2>1, SaveAssumption, FS_Subset, FS_CardinalityType
<1> QED
  BY <1>2, <1>3 DEF NextVersion, InPlace

(* Before any call.                                                        *)
LEMMA TypesStart == SaveInit => TypesInv
<1> SUFFICES ASSUME SaveInit
             PROVE  TypesInv
  OBVIOUS
<1>1. /\ fs \in Scenario /\ dest \in {Old, NoFile} /\ outlives = {dest} /\ temporary = {}
      /\ data = [w \in Writer |-> "torn"] /\ pc = [w \in Writer |-> "idle"]
      /\ version = [w \in Writer |-> 0] /\ losses = 0
  BY DEF SaveInit, SaveStarts
<1>2. Cardinality(Writer) \in Nat /\ MaxLosses \in Nat
  BY SaveAssumption, FS_CardinalityType
<1> QED
  BY <1>1, <1>2 DEF TypesInv, SaveTypeOK, File

(* Every step of the calls, a crash and a power loss.                      *)
LEMMA TypesStep == TypesInv /\ [SaveNext]_saveVars => TypesInv'
<1> SUFFICES ASSUME TypesInv, [SaveNext]_saveVars
             PROVE  TypesInv'
  OBVIOUS
<1>1. Cardinality(Writer) \in Nat /\ MaxLosses \in Nat
  BY SaveAssumption, FS_CardinalityType
<1>2. SaveShape /\ SaveTypeOK
  BY <1>1 DEF TypesInv, SaveTypeOK, SaveShape, Place
<1>3. CASE UNCHANGED saveVars
  BY <1>3 DEF saveVars, TypesInv, SaveTypeOK
<1>4. ASSUME NEW w \in Writer, Step(w)
      PROVE  TypesInv'
  <2>1. SaveShape'
    BY <1>2, <1>4, ShapeStep DEF SaveNext
  <2>2. UNCHANGED fs
    BY <1>2, <1>4, StepEffects
  <2>3. \A v \in Writer \ {w} : pc'[v] = pc[v]
    BY <1>2, <1>4, StepEffects
       DEF SaveShape, InstallsDocument, Reserves, Frees, SyncsDocument, SyncsDirectory, GoesOn
  <2>4. /\ losses' \in 0 .. MaxLosses /\ temporary' \subseteq Writer
        /\ \A v \in Writer : pc'[v] \in {"created", "written", "linked", "reserved"} => v \in temporary'
    BY <1>2, <1>4, <2>3, TemporaryEffects DEF SaveTypeOK, Unmoved
  <2>5. /\ dest' \in File /\ outlives' \subseteq File /\ dest' \in outlives'
        /\ version' \in [Writer -> 0 .. Cardinality(Writer)]
        /\ \A v \in Writer : pc'[v] \in {"idle", "created", "written", "reserved"} => version'[v] = 0
    <3>1. CASE InstallsDocument(w)
      <4>1. version[w] = 0
        BY <3>1 DEF InstallsDocument, TypesInv
      <4>2. NextVersion \in 0 .. Cardinality(Writer)
        BY <4>1, VersionBound
      <4>3. pc'[w] \in {"installed", "linked"}
        BY <1>2, <3>1 DEF InstallsDocument, SaveShape
      <4> QED
        BY <1>2, <2>3, <3>1, <4>2, <4>3 DEF InstallsDocument, TypesInv, SaveTypeOK, File
    <3>2. CASE Reserves(w) \/ Frees(w)
      BY <1>2, <2>3, <3>2 DEF Reserves, Frees, TypesInv, SaveTypeOK, File
    <3>3. CASE SyncsDocument(w) \/ SyncsDirectory(w)
      BY <1>2, <2>3, <3>3 DEF SyncsDocument, SyncsDirectory, TypesInv, SaveTypeOK, File
    <3>4. CASE GoesOn(w)
      BY <1>2, <2>3, <3>4 DEF GoesOn, TypesInv, SaveTypeOK, File
    <3> QED
      BY <1>2, <1>4, <3>1, <3>2, <3>3, <3>4, StepEffects
  <2> QED
    BY <2>1, <2>2, <2>4, <2>5, <1>2 DEF TypesInv, SaveTypeOK, SaveShape, Place
<1>5. CASE \E W \in SUBSET Writer : Crash(W)
  <2>1. /\ UNCHANGED <<fs, dest, outlives, version, temporary, data, losses>>
        /\ pc' \in [Writer -> Place] /\ \A w \in Writer : pc'[w] = pc[w] \/ pc'[w] = "crashed"
    BY <1>2, <1>5, CrashEffects DEF Crash, Placement
  <2> QED
    BY <2>1 DEF TypesInv, SaveTypeOK, Place
<1>6. CASE LosePower
  <2>1. /\ UNCHANGED <<fs, version>> /\ losses' = losses + 1 /\ losses < MaxLosses
        /\ dest' \in outlives /\ outlives' = {dest'} /\ temporary' \subseteq temporary
        /\ pc' \in [Writer -> Place] /\ data' \in [Writer -> {"torn", "cached", "durable"}]
    BY <1>2, <1>6, CrashEffects DEF LosePower, SaveShape
  <2>2. \A w \in Writer : /\ pc'[w] = pc[w] \/ pc'[w] = "crashed"
                          /\ pc'[w] \in {"idle", "saved", "failed", "crashed"}
    BY <1>2, <1>6 DEF LosePower, Running, SaveAt, SaveShape
  <2> QED
    BY <1>1, <2>1, <2>2 DEF TypesInv, SaveTypeOK, Place
<1> QED
  BY <1>3, <1>4, <1>5, <1>6 DEF SaveNext

(***************************************************************************)
(* For any number of calls, with or without links: a call that has yet to  *)
(* move its document still has its temporary file, whatever other calls    *)
(* clean up (write_bytes_to_path), and the rest of the state has its type. *)
(***************************************************************************)
THEOREM SavesKeepTheirTypes == SaveSpec => []SaveTypeOK
<1>1. TypesInv => SaveTypeOK
  BY DEF TypesInv
<1> QED
  BY <1>1, TypesStart, TypesStep, PTL DEF SaveSpec

-----------------------------------------------------------------------------
(* The calls of a binding: the engine, the session and a call.             *)
EngineState == [draft : Nat, revision : Nat, presentation : Nat, cursor : Nat]

SessionState ==
  [engine : EngineState,
   active : {None} \union [id : Nat \ {0}, token : Request],
   nextCalculationId : Nat \ {0},
   preview : {None} \union [id : Nat, base : EngineState, batch : Batch],
   nextPreviewId : Nat \ {0}]

CallState ==
  [kind : Kinds \union {"none"},
   at : {"idle", "asked", "registered", "running", "ran", "broke", "closing", "releasing", "done"},
   id : Nat, preview : Nat, base : EngineState, batch : Batch]

(* A call with a prepared calculation.                                     *)
Underway(op) == op.kind \in Calculations /\ op.at \in {"running", "ran", "broke"}

(***************************************************************************)
(* Prepared calculations have ids of their own, and one that still runs is *)
(* the active one or was cancelled: a newer request cancels the older, and *)
(* who ends the active calculation is the call that prepared it.           *)
(***************************************************************************)
TasksOK ==
  /\ session \in SessionState
  /\ ops \in [Request -> CallState]
  /\ session.active.id < session.nextCalculationId
  /\ \A r \in Request : Underway(ops[r]) => ops[r].id # 0 /\ ops[r].id < session.nextCalculationId
  /\ \A r, q \in Request : Underway(ops[r]) /\ Underway(ops[q]) /\ ops[r].id = ops[q].id => r = q
  /\ \A r \in Request : Underway(ops[r]) /\ ops[r].at = "running" =>
       r \in cancelled \/ session.active = [id |-> ops[r].id, token |-> r]

(* close has begun before it does anything else, and a dropped session has *)
(* neither an active calculation nor a preview.                            *)
CloseOK ==
  /\ \A r \in Request : ops[r].at \in {"closing", "releasing"} => closed
  /\ released => closed /\ session.active = None /\ session.preview = None

TaskInv == TasksOK /\ CloseOK /\ PublishedPreviewIsCurrent

-----------------------------------------------------------------------------
(* A call moves on, or ends and with it perhaps the active calculation     *)
(* that it prepared.                                                       *)
LEMMA CallMoves ==
  ASSUME TasksOK, NEW r \in Request, NEW op \in CallState, ops' = [ops EXCEPT ![r] = op],
         session' \in SessionState, session'.nextCalculationId = session.nextCalculationId,
         cancelled \subseteq cancelled',
         \/ session'.active = session.active
         \/ /\ session'.active = None /\ session.active.id = ops[r].id
            /\ Underway(ops[r]) /\ ~Underway(op),
         Underway(op) => /\ Underway(ops[r]) /\ op.id = ops[r].id
                         /\ op.at = "running" => ops[r].at = "running"
  PROVE  TasksOK'
<1>1. /\ ops' \in [Request -> CallState]
      /\ \A q \in Request : ops'[q] = IF q = r THEN op ELSE ops[q]
  BY DEF TasksOK
<1>2. None.id = 0 /\ session.nextCalculationId \in Nat \ {0}
  BY DEF None, TasksOK, SessionState
<1>3. session'.active.id < session'.nextCalculationId
  BY <1>2 DEF TasksOK
<1>4. \A q \in Request : Underway(ops'[q]) =>
        /\ Underway(ops[q]) /\ ops'[q].id = ops[q].id
        /\ ops'[q].at = "running" => ops[q].at = "running"
  BY <1>1
<1>5. ASSUME NEW q \in Request, Underway(ops'[q]), ops'[q].at = "running"
      PROVE  q \in cancelled' \/ session'.active = [id |-> ops'[q].id, token |-> q]
  <2>1. Underway(ops[q]) /\ ops[q].at = "running" /\ ops'[q].id = ops[q].id
    BY <1>4, <1>5
  <2>2. q \in cancelled \/ session.active = [id |-> ops[q].id, token |-> q]
    BY <2>1 DEF TasksOK
  <2>3. CASE session'.active = session.active
    BY <2>1, <2>2, <2>3
  <2>4. CASE session.active.id = ops[r].id /\ Underway(ops[r]) /\ ~Underway(op)
    <3>1. q # r
      BY <1>1, <1>5, <2>4
    <3>2. session.active # [id |-> ops[q].id, token |-> q]
      BY <2>1, <2>4, <3>1 DEF TasksOK
    <3> QED
      BY <2>2, <3>2
  <2> QED
    BY <2>3, <2>4
<1> QED
  BY <1>1, <1>3, <1>4, <1>5 DEF TasksOK, Underway

(* What edits and commits do to the engine.                                *)
LEMMA EngineEdits ==
  ASSUME NEW e \in EngineState, NEW b \in Batch
  PROVE  /\ Edited(e, b) \in EngineState /\ Committed(e, b) \in EngineState
         /\ Edited(e, b).revision = e.revision + b.semantic /\ Edited(e, b).cursor = e.cursor
<1> DEFINE draft == e.draft + 1
           revision == e.revision + b.semantic
           presentation == e.presentation + b.presentation
<1>1. draft \in Nat /\ revision \in Nat /\ presentation \in Nat
  BY DEF EngineState, Batch
<1>2. Edited(e, b) = [e EXCEPT !.draft = draft, !.revision = revision, !.presentation = presentation]
  BY DEF Edited
<1>3. Edited(e, b).revision = e.revision + b.semantic /\ Edited(e, b).cursor = e.cursor
  BY DEF Edited, EngineState
<1> HIDE DEF draft, revision, presentation
<1>4. Edited(e, b) \in EngineState
  BY <1>1, <1>2 DEF EngineState
<1>5. Committed(e, b) \in EngineState
  <2> DEFINE cursor == Edited(e, b).cursor + 1
  <2>1. cursor \in Nat /\ Committed(e, b) = [Edited(e, b) EXCEPT !.cursor = cursor]
    BY <1>4 DEF Committed, EngineState
  <2> HIDE DEF cursor
  <2> QED
    BY <1>4, <2>1 DEF EngineState
<1> QED
  BY <1>3, <1>4, <1>5

(* What the operations that end a calculation leave of the session.        *)
LEMMA Endings ==
  ASSUME NEW s \in SessionState
  PROVE  /\ FinishTargetCalculation(s) \in SessionState
         /\ FinishTargetCalculation(s).active = None
         /\ FinishTargetCalculation(s).nextCalculationId = s.nextCalculationId
         /\ FinishTargetCalculation(s).preview = s.preview
         /\ FinishTargetCalculation(s).engine = s.engine
         /\ InstallRecalculation(s) \in SessionState
         /\ InstallRecalculation(s).active = None
         /\ InstallRecalculation(s).nextCalculationId = s.nextCalculationId
         /\ InstallRecalculation(s).preview = None
         /\ \A id \in Nat, base \in EngineState, batch \in Batch :
              LET t == PublishPreview(s, id, base, batch) IN
              /\ t \in SessionState /\ t.active = None /\ t.nextCalculationId = s.nextCalculationId
              /\ t.engine = s.engine /\ t.preview = [id |-> id, base |-> base, batch |-> batch]
<1>1. /\ FinishTargetCalculation(s) \in SessionState
      /\ FinishTargetCalculation(s).active = None
      /\ FinishTargetCalculation(s).nextCalculationId = s.nextCalculationId
      /\ FinishTargetCalculation(s).preview = s.preview
      /\ FinishTargetCalculation(s).engine = s.engine
  BY DEF FinishTargetCalculation, SessionState
<1>2. /\ InstallRecalculation(s) \in SessionState
      /\ InstallRecalculation(s).active = None
      /\ InstallRecalculation(s).nextCalculationId = s.nextCalculationId
      /\ InstallRecalculation(s).preview = None
  <2> DEFINE cursor == s.engine.cursor + 1
             engine == [s.engine EXCEPT !.cursor = cursor]
  <2>1. InstallRecalculation(s) = [s EXCEPT !.active = None, !.engine = engine, !.preview = None]
    BY DEF InstallRecalculation, SessionState
  <2>2. cursor \in Nat
    BY DEF SessionState, EngineState
  <2> HIDE DEF cursor
  <2>3. engine \in EngineState
    BY <2>2 DEF SessionState, EngineState
  <2> HIDE DEF engine
  <2> QED
    BY <2>1, <2>3 DEF SessionState
<1>3. ASSUME NEW id \in Nat, NEW base \in EngineState, NEW batch \in Batch
      PROVE  LET t == PublishPreview(s, id, base, batch) IN
             /\ t \in SessionState /\ t.active = None /\ t.nextCalculationId = s.nextCalculationId
             /\ t.engine = s.engine /\ t.preview = [id |-> id, base |-> base, batch |-> batch]
  <2> DEFINE p == [id |-> id, base |-> base, batch |-> batch]
  <2>1. p \in [id : Nat, base : EngineState, batch : Batch]
    OBVIOUS
  <2>2. PublishPreview(s, id, base, batch) = [s EXCEPT !.active = None, !.preview = p]
    BY DEF PublishPreview
  <2> HIDE DEF p
  <2>3. LET t == PublishPreview(s, id, base, batch) IN
        /\ t \in SessionState /\ t.active = None /\ t.nextCalculationId = s.nextCalculationId
        /\ t.engine = s.engine /\ t.preview = p
    BY <2>1, <2>2 DEF SessionState
  <2> QED
    BY <2>3 DEF p
<1> QED
  BY <1>1, <1>2, <1>3

(* What the synchronous calls leave of the session.                        *)
LEMMA CallEffects ==
  ASSUME NEW s \in SessionState, NEW batch \in Batch
  PROVE  /\ LET t == InstallChanges(s, batch) IN
              /\ t \in SessionState /\ t.active = s.active
              /\ t.nextCalculationId = s.nextCalculationId
              /\ t.preview = IF batch.semantic = 1 THEN None ELSE s.preview
              /\ t.engine.revision = s.engine.revision + batch.semantic
              /\ t.engine.cursor = s.engine.cursor
         /\ LET t == TakePublished(s) IN
              /\ t \in SessionState /\ t.active = s.active
              /\ t.nextCalculationId = s.nextCalculationId /\ t.preview = None
         /\ s.preview # None =>
              LET t == CommitPreview(s) IN
              /\ t \in SessionState /\ t.active = s.active
              /\ t.nextCalculationId = s.nextCalculationId /\ t.preview = None
<1>1. LET t == InstallChanges(s, batch) IN
        /\ t \in SessionState /\ t.active = s.active
        /\ t.nextCalculationId = s.nextCalculationId
        /\ t.preview = IF batch.semantic = 1 THEN None ELSE s.preview
        /\ t.engine.revision = s.engine.revision + batch.semantic
        /\ t.engine.cursor = s.engine.cursor
  <2> DEFINE e == Edited(s.engine, batch)
             p == IF batch.semantic = 1 THEN None ELSE s.preview
  <2>1. e \in EngineState /\ e.revision = s.engine.revision + batch.semantic
        /\ e.cursor = s.engine.cursor
    BY EngineEdits DEF SessionState
  <2>2. p \in {None} \union [id : Nat, base : EngineState, batch : Batch]
    BY DEF SessionState
  <2>3. InstallChanges(s, batch) = [s EXCEPT !.engine = e, !.preview = p]
    BY DEF InstallChanges, SessionState
  <2> HIDE DEF e, p
  <2>4. LET t == InstallChanges(s, batch) IN
          /\ t \in SessionState /\ t.active = s.active /\ t.engine = e /\ t.preview = p
          /\ t.nextCalculationId = s.nextCalculationId
    BY <2>1, <2>2, <2>3 DEF SessionState
  <2> QED
    BY <2>1, <2>4 DEF p
<1>2. LET t == TakePublished(s) IN
        /\ t \in SessionState /\ t.active = s.active
        /\ t.nextCalculationId = s.nextCalculationId /\ t.preview = None
  BY DEF TakePublished, SessionState
<1>3. ASSUME s.preview # None
      PROVE  LET t == CommitPreview(s) IN
             /\ t \in SessionState /\ t.active = s.active
             /\ t.nextCalculationId = s.nextCalculationId /\ t.preview = None
  <2> DEFINE e == Committed(s.engine, s.preview.batch)
  <2>1. s.preview.batch \in Batch /\ s.engine \in EngineState
    BY <1>3 DEF SessionState
  <2>2. e \in EngineState
    BY <2>1, EngineEdits
  <2>3. CommitPreview(s) = [s EXCEPT !.engine = e, !.preview = None]
    BY DEF CommitPreview
  <2> HIDE DEF e
  <2> QED
    BY <2>2, <2>3 DEF SessionState
<1> QED
  BY <1>1, <1>2, <1>3

(* What preparing a calculation leaves of the session.                     *)
LEMMA Activation ==
  ASSUME NEW s \in SessionState, NEW r \in Request,
         NEW t \in {Activate(s, r), ActivatePreview(s, r)}
  PROVE  /\ t \in SessionState
         /\ t.active = [id |-> s.nextCalculationId, token |-> r]
         /\ t.nextCalculationId = s.nextCalculationId + 1
         /\ t.engine = s.engine /\ t.preview = s.preview
<1> DEFINE active == [id |-> s.nextCalculationId, token |-> r]
           next == s.nextCalculationId + 1
           preview == s.nextPreviewId + 1
<1>1. active \in [id : Nat \ {0}, token : Request] /\ next \in Nat \ {0} /\ preview \in Nat \ {0}
  BY DEF SessionState
<1>2. Activate(s, r) = [s EXCEPT !.active = active, !.nextCalculationId = next]
  BY DEF Activate
<1>3. Activate(s, r).nextPreviewId = s.nextPreviewId
  BY DEF Activate, SessionState
<1>4. ActivatePreview(s, r) = [Activate(s, r) EXCEPT !.nextPreviewId = preview]
  BY <1>3 DEF ActivatePreview
<1> HIDE DEF active, next, preview
<1>5. LET a == Activate(s, r) IN
      /\ a \in SessionState /\ a.active = active /\ a.nextCalculationId = next
      /\ a.engine = s.engine /\ a.preview = s.preview
  BY <1>1, <1>2 DEF SessionState
<1>6. LET a == ActivatePreview(s, r) IN
      /\ a \in SessionState /\ a.active = active /\ a.nextCalculationId = next
      /\ a.engine = s.engine /\ a.preview = s.preview
  BY <1>1, <1>4, <1>5 DEF SessionState
<1> QED
  BY <1>5, <1>6 DEF active, next

-----------------------------------------------------------------------------
(* A call moves on and the session is as it was, or is not closed yet.     *)
LEMMA MoveStep ==
  ASSUME TaskInv, NEW r \in Request, NEW op \in CallState, ops' = [ops EXCEPT ![r] = op],
         session' = session \/ ~closed,
         session' \in SessionState, session'.nextCalculationId = session.nextCalculationId,
         cancelled \subseteq cancelled', closed => closed', released' = released,
         op.at \in {"closing", "releasing"} => closed',
         \/ session'.active = session.active
         \/ /\ session'.active = None /\ session.active.id = ops[r].id
            /\ Underway(ops[r]) /\ ~Underway(op),
         Underway(op) => /\ Underway(ops[r]) /\ op.id = ops[r].id
                         /\ op.at = "running" => ops[r].at = "running",
         PublishedPreviewIsCurrent'
  PROVE  TaskInv'
<1>1. TasksOK'
  BY CallMoves DEF TaskInv
<1>2. \A q \in Request : ops'[q] = IF q = r THEN op ELSE ops[q]
  BY DEF TaskInv, TasksOK
<1>3. CloseOK'
  BY <1>2 DEF TaskInv, CloseOK
<1> QED
  BY <1>1, <1>3 DEF TaskInv

(* A call that ends is done, and nothing of what it captured remains.      *)
LEMMA Ended ==
  ASSUME TasksOK, NEW r \in Request, Ends(r)
  PROVE  \E op \in CallState : ops' = [ops EXCEPT ![r] = op] /\ op.at = "done"
<1> DEFINE kind == ops[r].kind
           op == [Unasked EXCEPT !.kind = kind, !.at = "done"]
<1>1. kind \in Kinds \union {"none"}
  BY DEF TasksOK, CallState
<1>2. Unasked \in CallState
  BY DEF Unasked, CallState, EngineState, NewEngine, NoBatch, Batch
<1>3. ops' = [ops EXCEPT ![r] = op]
  BY DEF Ends
<1> HIDE DEF kind
<1>4. op \in CallState /\ op.at = "done"
  BY <1>1, <1>2 DEF CallState
<1> QED
  BY <1>3, <1>4

(* A call ends and the session stays as it was.                            *)
LEMMA EndStep ==
  ASSUME TaskInv, NEW r \in Request, Ends(r), UNCHANGED <<session, closed, released>>,
         cancelled \subseteq cancelled'
  PROVE  TaskInv'
<1>1. PICK op \in CallState : ops' = [ops EXCEPT ![r] = op] /\ op.at = "done"
  BY Ended DEF TaskInv
<1>2. PublishedPreviewIsCurrent' /\ session' \in SessionState
  BY DEF TaskInv, TasksOK, PublishedPreviewIsCurrent, CalculationCurrent
<1>3. ~Underway(op)
  BY <1>1 DEF Underway
<1> QED
  BY <1>1, <1>2, <1>3, MoveStep

(* A call ends and changes the session, which is not closed.               *)
LEMMA EndChangesStep ==
  ASSUME TaskInv, NEW r \in Request, Ends(r), ~closed, UNCHANGED <<closed, released>>,
         cancelled \subseteq cancelled',
         session' \in SessionState, session'.nextCalculationId = session.nextCalculationId,
         \/ session'.active = session.active
         \/ session'.active = None /\ session.active.id = ops[r].id /\ Underway(ops[r]),
         PublishedPreviewIsCurrent'
  PROVE  TaskInv'
<1>1. PICK op \in CallState : ops' = [ops EXCEPT ![r] = op] /\ op.at = "done"
  BY Ended DEF TaskInv
<1>2. ~Underway(op)
  BY <1>1 DEF Underway
<1> QED
  BY <1>1, <1>2, MoveStep

(* A call comes to another place, and the session stays as it was.         *)
LEMMA PlaceStep ==
  ASSUME TaskInv, NEW r \in Request,
         NEW place \in {"registered", "ran", "broke", "closing", "releasing", "done"},
         Goes(r, place), session' = session, closed => closed', released' = released,
         cancelled \subseteq cancelled',
         place \in {"closing", "releasing"} => closed',
         place \in {"ran", "broke"} => Underway(ops[r])
  PROVE  TaskInv'
<1> DEFINE op == [ops[r] EXCEPT !.at = place]
<1>1. ops[r] \in CallState /\ session \in SessionState
  BY DEF TaskInv, TasksOK
<1>2. ops' = [ops EXCEPT ![r] = op]
  BY DEF Goes
<1>3. op \in CallState /\ op.at = place /\ op.id = ops[r].id /\ op.kind = ops[r].kind
  BY <1>1 DEF CallState
<1>4. PublishedPreviewIsCurrent'
  BY DEF TaskInv, PublishedPreviewIsCurrent, CalculationCurrent
<1> HIDE DEF op
<1>5. Underway(op) => place \in {"ran", "broke"}
  BY <1>3 DEF Underway
<1> QED
  BY <1>1, <1>2, <1>3, <1>4, <1>5, MoveStep

(* A call is made.                                                         *)
LEMMA StartStep ==
  ASSUME TaskInv, NEW r \in Request, NEW kind \in Kinds, NEW preview \in Nat, NEW batch \in Batch,
         Start(r, kind, preview, batch)
  PROVE  TaskInv'
<1> DEFINE op == [ops[r] EXCEPT !.kind = kind, !.at = "asked", !.preview = preview, !.batch = batch]
<1>1. ops[r] \in CallState /\ session \in SessionState
  BY DEF TaskInv, TasksOK
<1>2. ops' = [ops EXCEPT ![r] = op] /\ UNCHANGED <<session, cancelled, closed, released>>
  BY DEF Start
<1>3. op \in CallState /\ op.at = "asked"
  BY <1>1 DEF CallState
<1>4. PublishedPreviewIsCurrent'
  BY <1>2 DEF TaskInv, PublishedPreviewIsCurrent, CalculationCurrent
<1> HIDE DEF op
<1> QED
  BY <1>1, <1>2, <1>3, <1>4, MoveStep DEF Underway

(* The calls that can be made.                                             *)
LEMMA AskStep ==
  ASSUME TaskInv, NEW r \in Request, Ask(r)
  PROVE  TaskInv'
<1>1. NoBatch \in Batch /\ 0 \in Nat
  BY DEF NoBatch, Batch
<1>2. 1 .. session.nextPreviewId - 1 \subseteq Nat
  BY DEF TaskInv, TasksOK, SessionState
<1>3. {"commit", "discard", "preview", "edit"} \subseteq Kinds
  BY DEF Kinds, Calculations, Registered, Calls
<1> QED
  BY <1>1, <1>2, <1>3, StartStep DEF Ask

(* The calculation is prepared: it becomes the active one, and the one     *)
(* that was active is cancelled.                                           *)
LEMMA PrepareStep ==
  ASSUME TaskInv, NEW r \in Request, Prepare(r)
  PROVE  TaskInv'
<1>1. CASE Ends(r) /\ UNCHANGED <<session, cancelled>>
  BY <1>1, EndStep DEF Prepare
<1>2. CASE ~(Ends(r) /\ UNCHANGED <<session, cancelled>>)
  <2> DEFINE preview == ops[r].kind = "preview"
             shown == IF preview THEN session.nextPreviewId ELSE 0
             id == session.nextCalculationId
             op == [ops[r] EXCEPT !.at = "running", !.id = id, !.preview = shown,
                                  !.base = session.engine]
  <2>1. /\ session' = IF preview THEN ActivatePreview(session, r) ELSE Activate(session, r)
        /\ cancelled' = cancelled \union Superseded(session)
        /\ ops' = [ops EXCEPT ![r] = op]
        /\ UNCHANGED <<closed, released>> /\ ~closed /\ ops[r].kind \in Calculations
        /\ ops[r].at \in {"registered", "asked"}
    BY <1>2 DEF Prepare, At, Calculations
  <2>2. session \in SessionState /\ ops \in [Request -> CallState] /\ ops[r] \in CallState
    BY DEF TaskInv, TasksOK
  <2>3. id \in Nat \ {0} /\ shown \in Nat /\ session.engine \in EngineState
    BY <2>2 DEF SessionState
  <2>4. /\ session' \in SessionState
        /\ session'.active = [id |-> id, token |-> r]
        /\ session'.nextCalculationId = id + 1
        /\ session'.engine = session.engine /\ session'.preview = session.preview
    BY <2>1, <2>2, Activation
  <2> HIDE DEF id, shown
  <2>5. op \in CallState /\ op.id = id /\ op.at = "running" /\ op.kind = ops[r].kind
    BY <2>2, <2>3 DEF CallState
  <2> HIDE DEF op
  <2>6. /\ ops' \in [Request -> CallState]
        /\ \A q \in Request : ops'[q] = IF q = r THEN op ELSE ops[q]
    BY <2>1, <2>2, <2>5
  <2>7. \A q \in Request \ {r} : Underway(ops'[q]) => ops'[q].id \in Nat /\ ops'[q].id # 0 /\ ops'[q].id < id
    BY <2>2, <2>6 DEF TaskInv, TasksOK, CallState, id
  <2>8. ASSUME NEW q \in Request, Underway(ops'[q]), ops'[q].at = "running"
        PROVE  q \in cancelled' \/ session'.active = [id |-> ops'[q].id, token |-> q]
    <3>1. CASE q = r
      BY <2>4, <2>5, <2>6, <3>1
    <3>2. CASE q # r
      <4>1. q \in cancelled \/ session.active = [id |-> ops[q].id, token |-> q]
        BY <2>6, <2>8, <3>2 DEF TaskInv, TasksOK
      <4>2. ASSUME session.active = [id |-> ops[q].id, token |-> q]
            PROVE  q \in Superseded(session)
        <5>1. session.active.token = q /\ session.active.id = ops[q].id /\ ops[q].id # 0
          BY <2>6, <2>8, <3>2, <4>2 DEF TaskInv, TasksOK
        <5>2. session.active # None
          BY <5>1 DEF None
        <5> QED
          BY <5>1, <5>2 DEF Superseded, ActiveToken
      <4> QED
        BY <2>1, <4>1, <4>2
    <3> QED
      BY <3>1, <3>2
  <2>9. TasksOK'
    <3>1. session'.active.id < session'.nextCalculationId
      BY <2>3, <2>4
    <3>2. \A q \in Request : Underway(ops'[q]) => ops'[q].id # 0 /\ ops'[q].id < session'.nextCalculationId
      BY <2>3, <2>4, <2>5, <2>6, <2>7
    <3>3. \A q, u \in Request : Underway(ops'[q]) /\ Underway(ops'[u]) /\ ops'[q].id = ops'[u].id => q = u
      <4> SUFFICES ASSUME NEW q \in Request, NEW u \in Request, Underway(ops'[q]), Underway(ops'[u]),
                          ops'[q].id = ops'[u].id, q # u
                   PROVE  FALSE
        OBVIOUS
      <4>1. CASE q = r \/ u = r
        BY <2>3, <2>5, <2>6, <2>7, <4>1
      <4>2. CASE q # r /\ u # r
        BY <2>6, <4>2 DEF TaskInv, TasksOK
      <4> QED
        BY <4>1, <4>2
    <3> QED
      BY <2>4, <2>6, <2>8, <3>1, <3>2, <3>3 DEF TasksOK, Underway
  <2>10. CloseOK'
    BY <2>1, <2>5, <2>6 DEF TaskInv, CloseOK
  <2>11. PublishedPreviewIsCurrent'
    BY <2>4 DEF TaskInv, PublishedPreviewIsCurrent, CalculationCurrent
  <2> QED
    BY <2>9, <2>10, <2>11 DEF TaskInv
<1> QED
  BY <1>1, <1>2

(* A calculation that failed, or whose request is not current, is given    *)
(* up: only its own call can end it.                                       *)
LEMMA AbandonStep ==
  ASSUME TaskInv, NEW r \in Request, Underway(ops[r]), Ends(r), ~closed,
         session' = AbandonRecalculation(session, ops[r].id),
         UNCHANGED <<cancelled, closed, released>>
  PROVE  TaskInv'
<1>1. session \in SessionState
  BY DEF TaskInv, TasksOK
<1>2. CASE session.active.id = ops[r].id
  <2>1. session' = FinishTargetCalculation(session)
    BY <1>2 DEF AbandonRecalculation, FinishTargetCalculation
  <2>2. /\ session' \in SessionState /\ session'.active = None
        /\ session'.nextCalculationId = session.nextCalculationId
        /\ session'.preview = session.preview /\ session'.engine = session.engine
    BY <1>1, <2>1, Endings
  <2>3. PublishedPreviewIsCurrent'
    BY <2>2 DEF TaskInv, PublishedPreviewIsCurrent, CalculationCurrent
  <2> QED
    BY <1>2, <2>2, <2>3, EndChangesStep
<1>3. CASE session.active.id # ops[r].id
  BY <1>3, EndStep DEF AbandonRecalculation
<1> QED
  BY <1>2, <1>3

(* A finished calculation is installed, answered or published by the call  *)
(* that prepared the active one, or it is given up.                        *)
LEMMA FinishStep ==
  ASSUME TaskInv, NEW r \in Request, Finish(r)
  PROVE  TaskInv'
<1> DEFINE active == RequireActive(session, ops[r].id)
           op == ops[r]
<1>1. /\ Underway(op) /\ ~closed /\ Ends(r) /\ UNCHANGED <<cancelled, closed, released>>
      /\ session' = CASE active /\ Current(r) -> Completed(r)
                      [] ~active /\ op.kind = "calculate" -> session
                      [] OTHER -> AbandonRecalculation(session, op.id)
  BY DEF Finish, At, Underway
<1>2. session \in SessionState /\ op \in CallState /\ op.kind \in Calculations
  BY <1>1 DEF TaskInv, TasksOK, Underway
<1>3. CASE active /\ Current(r)
  <2>1. session' = Completed(r) /\ session.active.id = op.id
    BY <1>1, <1>3 DEF RequireActive
  <2>2. CASE op.kind = "calculate"
    <3>1. session' = InstallRecalculation(session)
      BY <2>1, <2>2 DEF Completed
    <3>2. /\ session' \in SessionState /\ session'.active = None /\ session'.preview = None
          /\ session'.nextCalculationId = session.nextCalculationId
      BY <1>2, <3>1, Endings
    <3>3. PublishedPreviewIsCurrent'
      BY <3>2 DEF PublishedPreviewIsCurrent
    <3> QED
      BY <1>1, <2>1, <3>2, <3>3, EndChangesStep
  <2>3. CASE op.kind = "targets"
    <3>1. session' = FinishTargetCalculation(session)
      BY <2>1, <2>3 DEF Completed
    <3>2. /\ session' \in SessionState /\ session'.active = None
          /\ session'.nextCalculationId = session.nextCalculationId
          /\ session'.preview = session.preview /\ session'.engine = session.engine
      BY <1>2, <3>1, Endings
    <3>3. PublishedPreviewIsCurrent'
      BY <3>2 DEF TaskInv, PublishedPreviewIsCurrent, CalculationCurrent
    <3> QED
      BY <1>1, <2>1, <3>2, <3>3, EndChangesStep
  <2>4. CASE op.kind = "preview"
    <3> DEFINE p == [id |-> op.preview, base |-> op.base, batch |-> op.batch]
    <3>1. session' = PublishPreview(session, op.preview, op.base, op.batch)
          /\ TransactionCurrent(session, op.base)
      BY <1>3, <2>1, <2>4 DEF Completed, Current
    <3>2. op.preview \in Nat /\ op.base \in EngineState /\ op.batch \in Batch
      BY <1>2 DEF CallState
    <3>3. /\ session' \in SessionState /\ session'.active = None /\ session'.engine = session.engine
          /\ session'.nextCalculationId = session.nextCalculationId /\ session'.preview = p
      BY <1>2, <3>1, <3>2, Endings, Zenon
    <3>4. session'.preview.base = op.base
      <4>1. p.base = op.base
        OBVIOUS
      <4> HIDE DEF p, op
      <4> QED
        BY <3>3, <4>1
    <3>5. PublishedPreviewIsCurrent'
      BY <3>1, <3>3, <3>4 DEF PublishedPreviewIsCurrent, TransactionCurrent, CalculationCurrent
    <3> QED
      BY <1>1, <2>1, <3>3, <3>5, EndChangesStep
  <2> QED
    BY <1>2, <2>2, <2>3, <2>4 DEF Calculations, Registered
<1>4. CASE ~(active /\ Current(r))
  <2>1. session' = session \/ session' = AbandonRecalculation(session, op.id)
    BY <1>1, <1>4
  <2> QED
    BY <1>1, <2>1, EndStep, AbandonStep
<1> QED
  BY <1>3, <1>4

(* A synchronous call edits the session, takes its preview or cancels the  *)
(* active calculation.                                                     *)
LEMMA CallStep ==
  ASSUME TaskInv, NEW r \in Request, Call(r)
  PROVE  TaskInv'
<1> DEFINE op == ops[r]
           published == Published(session, op.preview)
           current == TransactionCurrent(session, session.preview.base)
<1>1. /\ session \in SessionState /\ op \in CallState /\ ~closed /\ Ends(r)
      /\ UNCHANGED <<closed, released>> /\ cancelled \subseteq cancelled'
  BY DEF TaskInv, TasksOK, Call
<1>2. session' \in
        CASE op.kind = "edit" -> {session, InstallChanges(session, op.batch)}
          [] op.kind = "commit" /\ published ->
               {session, IF current THEN CommitPreview(session) ELSE TakePublished(session)}
          [] op.kind = "discard" /\ published -> {TakePublished(session)}
          [] OTHER -> {session}
  BY DEF Call
<1>3. op.batch \in Batch
  BY <1>1 DEF CallState
<1>4. published => session.preview # None
  BY DEF Published, None
<1>5. \/ session' = session
      \/ session' = InstallChanges(session, op.batch)
      \/ session' = TakePublished(session)
      \/ session' = CommitPreview(session) /\ session.preview # None
  <2>1. CASE op.kind = "edit"
    BY <1>2, <2>1
  <2>2. CASE op.kind = "commit"
    BY <1>2, <1>4, <2>2
  <2>3. CASE op.kind = "discard"
    BY <1>2, <2>3
  <2>4. CASE op.kind \notin {"edit", "commit", "discard"}
    BY <1>2, <2>4
  <2> QED
    BY <2>1, <2>2, <2>3, <2>4
<1>6. CASE session' = session
  BY <1>1, <1>6, EndStep
<1>7. CASE session' = InstallChanges(session, op.batch)
  <2>1. /\ session' \in SessionState /\ session'.active = session.active
        /\ session'.nextCalculationId = session.nextCalculationId
        /\ session'.preview = IF op.batch.semantic = 1 THEN None ELSE session.preview
        /\ session'.engine.revision = session.engine.revision + op.batch.semantic
        /\ session'.engine.cursor = session.engine.cursor
    BY <1>1, <1>3, <1>7, CallEffects
  <2>2. session.engine.revision \in Nat /\ op.batch.semantic \in 0 .. 1
    BY <1>1, <1>3 DEF SessionState, EngineState, Batch
  <2>3. session'.preview # None =>
          session'.preview = session.preview /\ session'.engine.revision = session.engine.revision
    BY <2>1, <2>2
  <2>4. PublishedPreviewIsCurrent'
    BY <2>1, <2>3 DEF TaskInv, PublishedPreviewIsCurrent, CalculationCurrent
  <2> QED
    BY <1>1, <2>1, <2>4, EndChangesStep
<1>8. CASE session' = TakePublished(session) \/ (session' = CommitPreview(session) /\ session.preview # None)
  <2>1. /\ session' \in SessionState /\ session'.active = session.active
        /\ session'.nextCalculationId = session.nextCalculationId /\ session'.preview = None
    BY <1>1, <1>3, <1>8, CallEffects
  <2>2. PublishedPreviewIsCurrent'
    BY <2>1 DEF PublishedPreviewIsCurrent
  <2> QED
    BY <1>1, <2>1, <2>2, EndChangesStep
<1> QED
  BY <1>5, <1>6, <1>7, <1>8

(* close drops the session, once its active calculation is cancelled.      *)
LEMMA ReleaseStep ==
  ASSUME TaskInv, NEW r \in Request, CloseReleases(r)
  PROVE  TaskInv'
<1> DEFINE op == [ops[r] EXCEPT !.at = "done"]
<1>1. /\ session \in SessionState /\ ops \in [Request -> CallState] /\ closed /\ closed' = closed
      /\ cancelled' = cancelled \union CancelCalculation(session)
      /\ session' = [session EXCEPT !.active = None, !.preview = None]
      /\ ops' = [ops EXCEPT ![r] = op]
  BY DEF TaskInv, TasksOK, CloseOK, CloseReleases, At, Goes
<1>2. /\ session' \in SessionState /\ session'.active = None /\ session'.preview = None
      /\ session'.nextCalculationId = session.nextCalculationId
  BY <1>1 DEF SessionState
<1>3. op \in CallState /\ ~Underway(op) /\ op.at = "done"
  BY <1>1 DEF CallState, Underway
<1> HIDE DEF op
<1>4. /\ ops' \in [Request -> CallState]
      /\ \A q \in Request : ops'[q] = IF q = r THEN op ELSE ops[q]
  BY <1>1, <1>3
<1>5. ASSUME NEW q \in Request, Underway(ops'[q]), ops'[q].at = "running"
      PROVE  q \in cancelled'
  <2>1. ops'[q] = ops[q]
    BY <1>3, <1>4, <1>5
  <2>2. q \in cancelled \/ session.active = [id |-> ops[q].id, token |-> q]
    BY <1>5, <2>1 DEF TaskInv, TasksOK
  <2>3. ASSUME session.active = [id |-> ops[q].id, token |-> q]
        PROVE  q \in CancelCalculation(session)
    <3>1. session.active.token = q /\ session.active.id = ops[q].id /\ ops[q].id # 0
      BY <1>5, <2>1, <2>3 DEF TaskInv, TasksOK
    <3>2. session.active # None
      BY <3>1 DEF None
    <3> QED
      BY <3>1, <3>2 DEF CancelCalculation, ActiveToken
  <2> QED
    BY <1>1, <2>2, <2>3
<1>6. session'.active.id < session'.nextCalculationId
  BY <1>1, <1>2 DEF None, SessionState
<1>7. \A q \in Request : Underway(ops'[q]) => q # r /\ ops'[q] = ops[q]
  BY <1>3, <1>4
<1>8. TasksOK'
  <2>1. \A q \in Request : Underway(ops'[q]) => ops'[q].id # 0 /\ ops'[q].id < session'.nextCalculationId
    BY <1>2, <1>7 DEF TaskInv, TasksOK
  <2>2. \A q, u \in Request : Underway(ops'[q]) /\ Underway(ops'[u]) /\ ops'[q].id = ops'[u].id => q = u
    BY <1>7 DEF TaskInv, TasksOK
  <2> QED
    BY <1>2, <1>4, <1>5, <1>6, <2>1, <2>2 DEF TasksOK, Underway
<1>9. CloseOK' /\ PublishedPreviewIsCurrent'
  BY <1>1, <1>2 DEF CloseOK, PublishedPreviewIsCurrent
<1> QED
  BY <1>8, <1>9 DEF TaskInv

(* Every step of the calls.                                                *)
LEMMA TaskStep == TaskInv /\ [Next]_vars => TaskInv'
<1> SUFFICES ASSUME TaskInv, [Next]_vars
             PROVE  TaskInv'
  OBVIOUS
<1>1. ASSUME NEW r \in Request, Ask(r) \/ Abort(r) \/ Run(r) \/ Steps(r)
      PROVE  TaskInv'
  <2>1. CASE Abort(r)
    <3>1. UNCHANGED <<session, ops, closed, released>> /\ cancelled \subseteq cancelled'
      BY <2>1 DEF Abort
    <3> QED
      BY <3>1 DEF TaskInv, TasksOK, CloseOK, PublishedPreviewIsCurrent, CalculationCurrent, Underway
  <2>2. CASE Run(r)
    <3>1. Underway(ops[r])
      BY <2>2 DEF Run, At, Underway
    <3> QED
      BY <2>2, <3>1, PlaceStep DEF Run
  <2>3. CASE Refuse(r)
    BY <2>3, EndStep DEF Refuse
  <2>4. CASE Register(r)
    BY <2>4, PlaceStep DEF Register
  <2>5. CASE Abandon(r)
    <3>1. Underway(ops[r])
      BY <2>5 DEF Abandon, At, Underway, Calculations, Registered
    <3> QED
      BY <2>5, <3>1, AbandonStep DEF Abandon
  <2>6. CASE CloseBegins(r)
    BY <2>6, PlaceStep DEF CloseBegins
  <2>7. CASE CloseCancels(r)
    <3>1. closed
      BY <2>7 DEF CloseCancels, At, TaskInv, CloseOK
    <3> QED
      BY <2>7, <3>1, PlaceStep DEF CloseCancels
  <2> QED
    BY <1>1, <2>1, <2>2, <2>3, <2>4, <2>5, <2>6, <2>7,
       AskStep, PrepareStep, FinishStep, CallStep, ReleaseStep DEF Steps
<1>2. CASE UNCHANGED vars
  BY <1>2 DEF vars, TaskInv, TasksOK, CloseOK, PublishedPreviewIsCurrent, CalculationCurrent, Underway
<1> QED
  BY <1>1, <1>2 DEF Next

(* Before any call.                                                        *)
LEMMA TaskStart == Init => TaskInv
<1> SUFFICES ASSUME Init
             PROVE  TaskInv
  OBVIOUS
<1>1. NewEngine \in EngineState /\ NoBatch \in Batch
  BY DEF NewEngine, EngineState, NoBatch, Batch
<1>2. session \in SessionState /\ session.active = None /\ session.preview = None
      /\ session.nextCalculationId = 1
  BY <1>1 DEF Init, NewSession, SessionState
<1>3. Unasked \in CallState /\ Unasked.at = "idle"
  BY <1>1 DEF Unasked, CallState
<1>4. ops \in [Request -> CallState] /\ \A r \in Request : ops[r].at = "idle"
  BY <1>3 DEF Init
<1>5. TasksOK
  BY <1>2, <1>4 DEF TasksOK, Underway, None
<1> QED
  BY <1>2, <1>4, <1>5 DEF Init, TaskInv, CloseOK, PublishedPreviewIsCurrent

(***************************************************************************)
(* For any number of calls of a binding, of any kinds and interleaved in   *)
(* any way with close: once the session is released its preview is gone    *)
(* and every calculation that still runs was told to stop.                 *)
(***************************************************************************)
THEOREM ReleasedSessionsRunNothing == Spec => []ReleasedSessionRunsNothing
<1>1. TaskInv => ReleasedSessionRunsNothing
  <2> SUFFICES ASSUME TaskInv, released, NEW r \in Request, At(r, Calculations, {"running"})
               PROVE  session.preview = None /\ r \in cancelled
    BY DEF ReleasedSessionRunsNothing, TaskInv, CloseOK
  <2>1. session.active = None /\ session.preview = None
    BY DEF TaskInv, CloseOK
  <2>2. Underway(ops[r]) /\ ops[r].at = "running"
    BY DEF At, Underway
  <2>3. ops[r].id # 0 /\ (r \in cancelled \/ session.active = [id |-> ops[r].id, token |-> r])
    BY <2>2 DEF TaskInv, TasksOK
  <2>4. session.active.id = 0
    BY <2>1 DEF None
  <2> QED
    BY <2>1, <2>3, <2>4
<1> QED
  BY <1>1, TaskStart, TaskStep, PTL DEF Spec

(***************************************************************************)
(* A preview that a binding published can be committed until a semantic    *)
(* edit or an installed calculation drops it: none has happened since it   *)
(* was calculated (publish_preview, install_changes,                       *)
(* install_recalculation).                                                 *)
(***************************************************************************)
THEOREM BindingPreviewsAreCurrent == Spec => []PublishedPreviewIsCurrent
<1>1. TaskInv => PublishedPreviewIsCurrent
  BY DEF TaskInv
<1> QED
  BY <1>1, TaskStart, TaskStep, PTL DEF Spec
=============================================================================
