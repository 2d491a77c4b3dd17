----------------------------- MODULE IntelStore -----------------------------
(***************************************************************************)
(* The local store of opponent statistics (opponent_intel_db/              *)
(* generation_store.py, runtime_intel.py, snapshot_store.py, cli.py).      *)
(* The updater writes a snapshot and its move catalog into a directory of  *)
(* their own, then flips one pointer file; after that it copies both to    *)
(* two flat files.  A new match pins the generation of the pointer or,     *)
(* where there is none yet, archives the flat pair and pins that.  Every   *)
(* request of the match is built from the pinned generation alone.         *)
(*                                                                         *)
(* Updaters and matches are processes of one machine; each write of a file *)
(* (temporary file, fsync, os.replace) is one step, and a process may stop *)
(* before any of them.  A dataset is the content of a snapshot; the        *)
(* catalog made from it is named by the same number.                       *)
(***************************************************************************)
EXTENDS Naturals

CONSTANTS
  Updaters,        \* runs of update-opponent-intel
  Pinners,         \* new matches
  MaxData,         \* bound: number of datasets
  Listed,          \* Listed[d]: the species dataset d has a record of
  OtherSeason,     \* the datasets of another season or format than the rules
  Actives          \* species the human confirms as the opponent's active one

None == 0
Data == 1..MaxData
Content == Data \cup {None}

ASSUME StoreAssumption ==
  /\ MaxData \in Nat /\ MaxData >= 2
  /\ Listed \in [Data -> SUBSET Actives]
  /\ OtherSeason \subseteq Data

VARIABLES
  flat,      \* the two flat files
  pointer,   \* identity of the generation current_generation.json names
  archive,   \* archive[g]: files of the directory of generation g
  updater,   \* updater[u]: the step the run is at and its dataset
  fetched,   \* the newest dataset
  pinner,    \* pinner[m]: the step of new_match and what it has read
  pin,       \* pin[m]: the pin in the row of match m
  window     \* the Battle Record window: its step, its first read, its bundle

storeVars == <<flat, pointer, archive, updater, fetched, pinner, pin, window>>

---------------------------------------------------------------------------
(* A generation id: random for a run of the updater, and made of the exact *)
(* bytes (materialized_generation_id) for an archived flat pair.  Its      *)
(* manifest records the hashes of the two files.                           *)
Pair == [snapshot: Content, catalog: Content]
Generation == [kind: {"none", "run", "flat"}, snapshot: Content, catalog: Content]
NoGeneration == [kind |-> "none", snapshot |-> None, catalog |-> None]
OfRun(d) == [kind |-> "run", snapshot |-> d, catalog |-> d]
OfFlat(s, c) == [kind |-> "flat", snapshot |-> s, catalog |-> c]

Directory == [snapshot: Content, catalog: Content, manifest: BOOLEAN]
NoDirectory == [snapshot |-> None, catalog |-> None, manifest |-> FALSE]

(* read_generation, read_current_generation: the manifest is there and     *)
(* both files have the hashes it records.                                  *)
Verified(g) ==
  /\ archive[g].manifest
  /\ archive[g].snapshot = g.snapshot /\ archive[g].snapshot # None
  /\ archive[g].catalog = g.catalog /\ archive[g].catalog # None

(* _validated_bundle: the catalog counts the moves of this snapshot. *)
Matches(s, c) == s = c

(* OpponentIntelPin *)
Pin == [status: {"UNSET", "UNAVAILABLE", "PINNED"},
        generation: Generation, sha256: Content]
Unset == [status |-> "UNSET", generation |-> NoGeneration, sha256 |-> None]
Unavailable == [status |-> "UNAVAILABLE", generation |-> NoGeneration, sha256 |-> None]
PinnedTo(g) == [status |-> "PINNED", generation |-> g, sha256 |-> archive[g].snapshot]

---------------------------------------------------------------------------
(* What a request of a match says about the opponent's active species      *)
(* (load_opponent_intel_context, build_opponent_intel_context); None is an *)
(* opponent not confirmed.                                                 *)
ContextStatus == {"UNAVAILABLE", "MISMATCHED", "AVAILABLE", "REFUSED"}
NoContext(status) == [status |-> status, population |-> None]

(* Mutant: the pointer decides, not the pin. *)
ContextOfCurrent(m, species) ==
  LET g == pointer IN
  IF pin[m].status # "PINNED" THEN NoContext("UNAVAILABLE")
  ELSE IF ~Verified(g) THEN NoContext("REFUSED")
  ELSE IF g.snapshot \in OtherSeason THEN NoContext("MISMATCHED")
  ELSE IF species = None \/ species \notin Listed[g.snapshot] THEN NoContext("UNAVAILABLE")
  ELSE [status |-> "AVAILABLE", population |-> g.snapshot]

Context(m, species) ==
  LET g == pin[m].generation IN
  IF pin[m].status # "PINNED" THEN NoContext("UNAVAILABLE")
  ELSE IF \/ ~Verified(g) \/ ~Matches(g.snapshot, g.catalog)
          \/ archive[g].snapshot # pin[m].sha256 THEN NoContext("REFUSED")
  ELSE IF g.snapshot \in OtherSeason THEN NoContext("MISMATCHED")
  ELSE IF species = None \/ species \notin Listed[g.snapshot] THEN NoContext("UNAVAILABLE")
  ELSE [status |-> "AVAILABLE", population |-> g.snapshot]

---------------------------------------------------------------------------
(* The flat pair is what an earlier release or the human put there: none,  *)
(* a pair, half a pair, or two files that do not belong together.          *)
Provisioned ==
  {[snapshot |-> None, catalog |-> None], [snapshot |-> 1, catalog |-> 1],
   [snapshot |-> 1, catalog |-> None], [snapshot |-> 1, catalog |-> 2]}

StoreInit ==
  /\ flat \in Provisioned
  /\ pointer = NoGeneration
  /\ archive = [g \in Generation |-> NoDirectory]
  /\ updater = [u \in Updaters |-> [step |-> "idle", data |-> None]]
  /\ fetched = 2
  /\ pinner = [m \in Pinners |-> [step |-> "idle", snapshot |-> None, catalog |-> None]]
  /\ pin = [m \in Pinners |-> Unset]
  /\ window = [step |-> "idle", snapshot |-> None,
               bundle |-> [snapshot |-> None, catalog |-> None]]

---------------------------------------------------------------------------
(* The updater (run_update_opponent_intel, commit_generation).             *)
updaterFrame == <<pinner, pin, window>>

At(u, step) == updater[u].step = step
Go(u, step) == updater' = [updater EXCEPT ![u].step = step]
End(u) == updater' = [updater EXCEPT ![u] = [step |-> "idle", data |-> None]]
File(u) == OfRun(updater[u].data)

(* A complete import is in memory; the directory is made. *)
StartUpdate(u) ==
  /\ At(u, "idle") /\ fetched < MaxData
  /\ fetched' = fetched + 1
  /\ updater' = [updater EXCEPT ![u] = [step |-> "snapshot", data |-> fetched + 1]]
  /\ UNCHANGED <<flat, pointer, archive, updaterFrame>>

StageSnapshot(u) ==
  /\ At(u, "snapshot") /\ Go(u, "catalog")
  /\ archive' = [archive EXCEPT ![File(u)].snapshot = updater[u].data]
  /\ UNCHANGED <<flat, pointer, fetched, updaterFrame>>

StageCatalog(u) ==
  /\ At(u, "catalog") /\ Go(u, "manifest")
  /\ archive' = [archive EXCEPT ![File(u)].catalog = updater[u].data]
  /\ UNCHANGED <<flat, pointer, fetched, updaterFrame>>

StageManifest(u) ==
  /\ At(u, "manifest") /\ Go(u, "pointer")
  /\ archive' = [archive EXCEPT ![File(u)].manifest = TRUE]
  /\ UNCHANGED <<flat, pointer, fetched, updaterFrame>>

(* The one step that makes the generation current. *)
FlipPointer(u) ==
  /\ At(u, "pointer") /\ Go(u, "mirror snapshot")
  /\ pointer' = File(u)
  /\ UNCHANGED <<flat, archive, fetched, updaterFrame>>

MirrorSnapshot(u) ==
  /\ At(u, "mirror snapshot") /\ Go(u, "mirror catalog")
  /\ flat' = [flat EXCEPT !.snapshot = updater[u].data]
  /\ UNCHANGED <<pointer, archive, fetched, updaterFrame>>

MirrorCatalog(u) ==
  /\ At(u, "mirror catalog") /\ End(u)
  /\ flat' = [flat EXCEPT !.catalog = updater[u].data]
  /\ UNCHANGED <<pointer, archive, fetched, updaterFrame>>

Staging == {"snapshot", "catalog", "manifest"}

(* A write fails: while staging, the directory is removed; later it stays. *)
FailUpdate(u) ==
  /\ updater[u].step # "idle"
  /\ archive' = IF updater[u].step \in Staging
                THEN [archive EXCEPT ![File(u)] = NoDirectory] ELSE archive
  /\ End(u)
  /\ UNCHANGED <<flat, pointer, fetched, updaterFrame>>

(* The process stops. *)
StopUpdate(u) ==
  /\ updater[u].step # "idle"
  /\ End(u)
  /\ UNCHANGED <<flat, pointer, archive, fetched, updaterFrame>>

---------------------------------------------------------------------------
(* The pin of a new match (resolve_pinnable_generation).                   *)
pinnerFrame == <<flat, pointer, updater, fetched, window>>

Reading(m, step) == pinner[m].step = step
Await(m, step, s, c) ==
  pinner' = [pinner EXCEPT ![m] = [step |-> step, snapshot |-> s, catalog |-> c]]
Decide(m, p) == /\ pin' = [pin EXCEPT ![m] = p]
                /\ Await(m, "idle", None, None)

(* The pointer is authoritative whenever it exists. *)
PinCurrent(m) ==
  /\ Reading(m, "idle") /\ pin[m] = Unset
  /\ pointer # NoGeneration
  /\ Decide(m, IF Verified(pointer) THEN PinnedTo(pointer) ELSE Unavailable)
  /\ UNCHANGED <<archive, pinnerFrame>>

(* No pointer: the flat pair, if both files are there. *)
ReadFlatSnapshot(m) ==
  /\ Reading(m, "idle") /\ pin[m] = Unset
  /\ pointer = NoGeneration
  /\ IF flat.snapshot = None \/ flat.catalog = None
     THEN Decide(m, Unavailable)
     ELSE Await(m, "catalog", flat.snapshot, None) /\ UNCHANGED pin
  /\ UNCHANGED <<archive, pinnerFrame>>

ValidateFlat(m) ==
  /\ Reading(m, "catalog")
  /\ IF Matches(pinner[m].snapshot, flat.catalog)
     THEN Await(m, "read again", None, None) /\ UNCHANGED pin
     ELSE Decide(m, Unavailable)
  /\ UNCHANGED <<archive, pinnerFrame>>

(* The bytes to archive are read once more. *)
ReadSnapshotAgain(m) ==
  /\ Reading(m, "read again")
  /\ Await(m, "catalog again", flat.snapshot, None)
  /\ UNCHANGED <<archive, pin, pinnerFrame>>

ReadCatalogAgain(m) ==
  /\ Reading(m, "catalog again")
  /\ Await(m, "target", pinner[m].snapshot, flat.catalog)
  /\ UNCHANGED <<archive, pin, pinnerFrame>>

Target(m) == OfFlat(pinner[m].snapshot, pinner[m].catalog)

(* materialize_generation: the generation exists, or is staged. *)
FindTarget(m) ==
  /\ Reading(m, "target")
  /\ IF archive[Target(m)] # NoDirectory
     THEN Decide(m, IF Verified(Target(m)) THEN PinnedTo(Target(m)) ELSE Unavailable)
     ELSE Await(m, "rename", pinner[m].snapshot, pinner[m].catalog) /\ UNCHANGED pin
  /\ UNCHANGED <<archive, pinnerFrame>>

(* Mutant: the flat files are copied, not the bytes that were read. *)
MaterializeCopying(m) ==
  /\ Reading(m, "rename")
  /\ archive[Target(m)] = NoDirectory
  /\ archive' = [archive EXCEPT ![Target(m)] =
                   [snapshot |-> flat.snapshot, catalog |-> flat.catalog,
                    manifest |-> TRUE]]
  /\ Decide(m, [status |-> "PINNED", generation |-> Target(m),
                sha256 |-> pinner[m].snapshot])
  /\ UNCHANGED pinnerFrame

(* The rename makes the staged files visible at once; another process may  *)
(* have been faster.                                                       *)
Materialize(m) ==
  /\ Reading(m, "rename")
  /\ archive[Target(m)] = NoDirectory
  /\ archive' = [archive EXCEPT ![Target(m)] =
                   [snapshot |-> pinner[m].snapshot, catalog |-> pinner[m].catalog,
                    manifest |-> TRUE]]
  /\ Decide(m, [status |-> "PINNED", generation |-> Target(m),
                sha256 |-> pinner[m].snapshot])
  /\ UNCHANGED pinnerFrame

LoseRename(m) ==
  /\ Reading(m, "rename")
  /\ archive[Target(m)] # NoDirectory
  /\ Decide(m, IF Verified(Target(m)) THEN PinnedTo(Target(m)) ELSE Unavailable)
  /\ UNCHANGED <<archive, pinnerFrame>>

(* Staging fails: the match begins without statistics. *)
FailMaterialize(m) ==
  /\ Reading(m, "rename")
  /\ Decide(m, Unavailable)
  /\ UNCHANGED <<archive, pinnerFrame>>

(* The application stops before the row of the match is written. *)
StopPinning(m) ==
  /\ pinner[m].step # "idle"
  /\ Await(m, "idle", None, None)
  /\ UNCHANGED <<archive, pin, pinnerFrame>>

---------------------------------------------------------------------------
(* The window opens and resolves its bundle (resolve_runtime_intel_bundle) *)
windowFrame == <<flat, pointer, archive, updater, fetched, pinner, pin>>
Show(s, c) == window' = [step |-> "idle", snapshot |-> None,
                         bundle |-> [snapshot |-> s, catalog |-> c]]

ShowCurrent ==
  /\ window.step = "idle" /\ pointer # NoGeneration
  /\ IF Verified(pointer) /\ Matches(pointer.snapshot, pointer.catalog)
     THEN Show(pointer.snapshot, pointer.catalog) ELSE Show(None, None)
  /\ UNCHANGED windowFrame

ReadFlatPair ==
  /\ window.step = "idle" /\ pointer = NoGeneration
  /\ IF flat.snapshot = None \/ flat.catalog = None
     THEN Show(None, None)
     ELSE window' = [window EXCEPT !.step = "catalog", !.snapshot = flat.snapshot]
  /\ UNCHANGED windowFrame

ShowFlatPair ==
  /\ window.step = "catalog"
  /\ IF Matches(window.snapshot, flat.catalog)
     THEN Show(window.snapshot, flat.catalog) ELSE Show(None, None)
  /\ UNCHANGED windowFrame

---------------------------------------------------------------------------
Update(u) ==
  \/ StartUpdate(u) \/ StageSnapshot(u) \/ StageCatalog(u) \/ StageManifest(u)
  \/ FlipPointer(u) \/ MirrorSnapshot(u) \/ MirrorCatalog(u)
  \/ FailUpdate(u) \/ StopUpdate(u)

Resolve(m) ==
  \/ PinCurrent(m) \/ ReadFlatSnapshot(m) \/ ValidateFlat(m)
  \/ ReadSnapshotAgain(m) \/ ReadCatalogAgain(m) \/ FindTarget(m)
  \/ Materialize(m) \/ LoseRename(m) \/ FailMaterialize(m) \/ StopPinning(m)

Open == ShowCurrent \/ ReadFlatPair \/ ShowFlatPair

StoreNext ==
  \/ \E u \in Updaters : Update(u)
  \/ \E m \in Pinners : Resolve(m)
  \/ Open

StoreSpec == StoreInit /\ [][StoreNext]_storeVars

---------------------------------------------------------------------------
UpdaterStep == {"idle", "pointer", "mirror snapshot", "mirror catalog"} \cup Staging
PinnerStep == {"idle", "catalog", "read again", "catalog again", "target", "rename"}

(* Types of the store's state. *)
StoreTypeOK ==
  /\ flat \in Pair
  /\ pointer \in Generation
  /\ archive \in [Generation -> Directory]
  /\ updater \in [Updaters -> [step: UpdaterStep, data: Content]]
  /\ fetched \in Nat
  /\ pinner \in [Pinners -> [step: PinnerStep, snapshot: Content, catalog: Content]]
  /\ pin \in [Pinners -> Pin]
  /\ window \in [step: {"idle", "catalog"}, snapshot: Content, bundle: Pair]

(* Wherever an update fails or stops, and whatever other updates do, the   *)
(* generation the pointer names is complete and has the recorded hashes:   *)
(* a reader of the pointer never finds half a generation.                  *)
PointerNamesWholeGeneration == pointer # NoGeneration => Verified(pointer)

(* The generation a match has pinned stays complete and unaltered for as   *)
(* long as the match exists, so its requests can always be rebuilt.        *)
PinnedGenerationStays ==
  \A m \in Pinners : pin[m].status = "PINNED" =>
    /\ Verified(pin[m].generation)
    /\ archive[pin[m].generation].snapshot = pin[m].sha256

(* The window never shows a snapshot with the catalog of another one, even *)
(* when the flat files are replaced between its two reads.                 *)
BundleIsOnePair == window.bundle.snapshot = window.bundle.catalog

(* A request carries statistics only of a pair that belongs together, even *)
(* when the flat files changed while they were being archived.             *)
StatisticsAreOfOnePair ==
  \A m \in Pinners, species \in Actives \cup {None} :
    Context(m, species).status = "AVAILABLE" =>
      pin[m].generation.snapshot = pin[m].generation.catalog

(* Neither a reader of the pointer, nor a match, nor the window meets half *)
(* a dataset or one mixed of two.                                          *)
StoreIsSound ==
  PointerNamesWholeGeneration /\ PinnedGenerationStays /\ BundleIsOnePair /\ StatisticsAreOfOnePair

(* What a match is told about a species never changes after the match has  *)
(* begun, whatever is published since: a request that is rebuilt when its  *)
(* answer comes is the request that was sent.                              *)
ContextIsFixed ==
  [][\A m \in Pinners, species \in Actives \cup {None} :
       pin[m] # Unset => Context(m, species)' = Context(m, species)]_storeVars

(* The comment in resolve_pinnable_generation: "an unusable pair must      *)
(* never become an immutable generation".  It does not hold: the pair is   *)
(* read again between its check and the archive (README, section 6).       *)
ArchivedPairsAreUsable ==
  \A g \in Generation : g.kind = "flat" /\ Verified(g) => Matches(g.snapshot, g.catalog)
=============================================================================
