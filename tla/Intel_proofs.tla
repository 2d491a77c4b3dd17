---------------------------- MODULE Intel_proofs ----------------------------
(***************************************************************************)
(* The opponent statistics: proofs about IntelStore for every number of    *)
(* updaters, matches, datasets and species, and about IntelImport for      *)
(* every set of species, page size, ranking and number of exchanges.       *)
(***************************************************************************)
EXTENDS IntelStore, IntelImport, SequenceLemmas, FiniteSetTheorems, TLAPS

(***************************************************************************)
(* IntelStore: published statistics stay whole.                            *)
(***************************************************************************)
(* A generation nobody writes any more: complete, of no run that is still  *)
(* staging, and of no run that is yet to begin.                            *)
Settled(g) ==
  /\ g \in Generation /\ Verified(g)
  /\ g.kind = "run" => g.snapshot <= fetched
  /\ \A u \in Updaters : updater[u].step \in Staging => g # File(u)

(* Runs that are under way have datasets of their own, already fetched.    *)
RunsAreApart ==
  /\ fetched <= MaxData
  /\ \A u \in Updaters : updater[u].step # "idle" =>
       updater[u].data \in Data /\ updater[u].data <= fetched
  /\ \A u, v \in Updaters :
       u # v /\ updater[u].step # "idle" /\ updater[v].step # "idle" =>
         updater[u].data # updater[v].data

(* The files a run has written so far are in its directory.                *)
Written(u) ==
  /\ updater[u].step \in {"catalog", "manifest", "pointer"} =>
       archive[File(u)].snapshot = updater[u].data
  /\ updater[u].step \in {"manifest", "pointer"} =>
       archive[File(u)].catalog = updater[u].data
  /\ updater[u].step = "pointer" => archive[File(u)].manifest

FilesAreWritten == \A u \in Updaters : Written(u)

PublishedIsSettled == pointer # NoGeneration => Settled(pointer)

PinnedIsSettled ==
  \A m \in Pinners : pin[m].status = "PINNED" =>
    /\ Settled(pin[m].generation)
    /\ archive[pin[m].generation].snapshot = pin[m].sha256

(* A match that is still reading has no pin; both flat files are there,    *)
(* and stay there, from the first read on.                                 *)
Ready(m) ==
  /\ pinner[m].step # "idle" =>
       pin[m] = Unset /\ flat.snapshot # None /\ flat.catalog # None
  /\ pinner[m].step \in {"catalog again", "target", "rename"} => pinner[m].snapshot # None
  /\ pinner[m].step \in {"target", "rename"} => pinner[m].catalog # None

ReadersAreReady == \A m \in Pinners : Ready(m)

StoreInv ==
  /\ StoreTypeOK /\ RunsAreApart /\ FilesAreWritten
  /\ PublishedIsSettled /\ PinnedIsSettled /\ ReadersAreReady /\ BundleIsOnePair

-----------------------------------------------------------------------------
(* Numbers: no dataset is None, and the next one is a dataset.             *)
LEMMA DataFacts ==
  /\ None \in Content /\ None \notin Data /\ Data \subseteq Content
  /\ \A d \in Data : d \in Nat
  /\ 1 \in Data /\ 2 \in Data
  BY StoreAssumption DEF Content, Data, None

LEMMA GenerationFacts ==
  /\ NoGeneration \in Generation /\ NoDirectory \in Directory
  /\ \A d \in Content : /\ OfRun(d) \in Generation /\ OfRun(d).kind = "run"
                        /\ OfRun(d).snapshot = d /\ OfRun(d).catalog = d
  /\ \A s, c \in Content : /\ OfFlat(s, c) \in Generation /\ OfFlat(s, c).kind = "flat"
                           /\ OfFlat(s, c).snapshot = s /\ OfFlat(s, c).catalog = c
  BY DataFacts DEF NoGeneration, Generation, NoDirectory, Directory, OfRun, OfFlat

(* The first directories of a settled generation are not empty.            *)
LEMMA SettledIsThere == \A g : Settled(g) => archive[g] # NoDirectory
  BY DEF Settled, Verified, NoDirectory

LEMMA StoreInitKeeps == StoreInit => StoreInv
<1> SUFFICES ASSUME StoreInit PROVE StoreInv
  OBVIOUS
<1>1. StoreTypeOK
  <2>1. flat \in Pair
    BY DataFacts DEF StoreInit, Provisioned, Pair
  <2>2. /\ pointer \in Generation /\ archive \in [Generation -> Directory]
        /\ fetched \in Nat
    BY GenerationFacts DEF StoreInit
  <2>3. /\ updater \in [Updaters -> [step: UpdaterStep, data: Content]]
        /\ pinner \in [Pinners -> [step: PinnerStep, snapshot: Content, catalog: Content]]
    BY DataFacts DEF StoreInit, UpdaterStep, PinnerStep
  <2>4. pin \in [Pinners -> Pin]
    BY GenerationFacts, DataFacts DEF StoreInit, Unset, Pin
  <2>5. window \in [step: {"idle", "catalog"}, snapshot: Content, bundle: Pair]
    BY DataFacts DEF StoreInit, Pair
  <2> QED
    BY <2>1, <2>2, <2>3, <2>4, <2>5 DEF StoreTypeOK
<1>2. RunsAreApart /\ FilesAreWritten
  BY StoreAssumption DEF StoreInit, RunsAreApart, FilesAreWritten, Written
<1>3. PublishedIsSettled /\ PinnedIsSettled /\ ReadersAreReady
  BY DEF StoreInit, PublishedIsSettled, PinnedIsSettled, ReadersAreReady, Ready, Unset
<1>4. BundleIsOnePair
  BY DEF StoreInit, BundleIsOnePair
<1> QED
  BY <1>1, <1>2, <1>3, <1>4 DEF StoreInv

-----------------------------------------------------------------------------
(* Helpers of the updater's steps.                                         *)
LEMMA GoFacts ==
  ASSUME StoreTypeOK, NEW u \in Updaters, NEW s \in UpdaterStep, Go(u, s)
  PROVE  /\ updater' \in [Updaters -> [step: UpdaterStep, data: Content]]
         /\ updater'[u].step = s /\ updater'[u].data = updater[u].data
         /\ \A v \in Updaters : v # u => updater'[v] = updater[v]
  BY DEF StoreTypeOK, Go

LEMMA EndFacts ==
  ASSUME StoreTypeOK, NEW u \in Updaters, End(u)
  PROVE  /\ updater' \in [Updaters -> [step: UpdaterStep, data: Content]]
         /\ updater'[u].step = "idle"
         /\ \A v \in Updaters : v # u => updater'[v] = updater[v]
  BY DataFacts DEF StoreTypeOK, End, UpdaterStep

(* The directory of a run is its own: nobody else's, and not settled while *)
(* the run is staging.                                                     *)
LEMMA FileFacts ==
  ASSUME StoreInv, NEW u \in Updaters, updater[u].step # "idle"
  PROVE  /\ File(u) \in Generation /\ File(u).kind = "run"
         /\ File(u).snapshot = updater[u].data /\ File(u).catalog = updater[u].data
         /\ updater[u].data \in Data /\ updater[u].data # None /\ updater[u].data <= fetched
         /\ \A v \in Updaters : v # u /\ updater[v].step # "idle" => File(v) # File(u)
         /\ updater[u].step \in Staging => ~ Settled(File(u))
<1>1. /\ updater[u].data \in Data /\ updater[u].data <= fetched
      /\ \A v \in Updaters : v # u /\ updater[v].step # "idle" =>
           updater[v].data # updater[u].data /\ updater[v].data \in Data
  BY DEF StoreInv, RunsAreApart
<1>2. \A v \in Updaters : updater[v].step # "idle" =>
        /\ File(v) \in Generation /\ File(v).kind = "run"
        /\ File(v).snapshot = updater[v].data /\ File(v).catalog = updater[v].data
  BY GenerationFacts, DataFacts DEF StoreInv, RunsAreApart, File
<1> QED
  BY <1>1, <1>2, DataFacts DEF Settled

(* What a step must do to the archive and the runs for settled generations *)
(* to stay as they are.                                                    *)
LEMMA SettledStays ==
  ASSUME StoreInv,
         \A g \in Generation : Settled(g) => archive'[g] = archive[g],
         fetched' \in Nat, fetched <= fetched',
         \A u \in Updaters : updater'[u].step \in Staging =>
           \/ updater[u].step \in Staging /\ updater'[u].data = updater[u].data
           \/ updater'[u].data \in Data /\ updater'[u].data > fetched
  PROVE  \A g : Settled(g) => Settled(g)' /\ archive'[g] = archive[g]
<1> SUFFICES ASSUME NEW g, Settled(g) PROVE Settled(g)' /\ archive'[g] = archive[g]
  OBVIOUS
<1>1. g \in Generation /\ archive'[g] = archive[g]
  BY DEF Settled
<1>2. Verified(g)'
  BY <1>1 DEF Settled, Verified
<1>3. g.kind = "run" => g.snapshot <= fetched'
  <2>1. g.kind = "run" => g.snapshot \in Nat
    BY <1>1, DataFacts DEF Settled, Verified, Generation, Content, None
  <2>2. fetched \in Nat
    BY DEF StoreInv, StoreTypeOK
  <2> QED
    BY <2>1, <2>2 DEF Settled
<1>4. ASSUME NEW u \in Updaters, updater'[u].step \in Staging
      PROVE  g # File(u)'
  <2>1. CASE updater[u].step \in Staging /\ updater'[u].data = updater[u].data
    BY <2>1 DEF Settled, File
  <2>2. CASE updater'[u].data \in Data /\ updater'[u].data > fetched
    <3>1. File(u)'.kind = "run" /\ File(u)'.snapshot = updater'[u].data
      BY DEF File, OfRun
    <3>2. fetched \in Nat /\ updater'[u].data \in Nat
      BY <2>2, DataFacts DEF StoreInv, StoreTypeOK
    <3>3. g.kind = "run" => g.snapshot <= fetched
      BY DEF Settled
    <3> QED
      BY <2>2, <3>1, <3>2, <3>3
  <2> QED
    BY <1>4, <2>1, <2>2
<1> QED
  BY <1>1, <1>2, <1>3, <1>4 DEF Settled
-----------------------------------------------------------------------------
(* What every step leaves as it is: settled generations and decided pins.  *)
Kept == /\ \A g : Settled(g) => archive'[g] = archive[g]
        /\ \A m \in Pinners : pin[m] # Unset => pin'[m] = pin[m]

(* The parts that concern matches and the window, in a step of an updater. *)
LEMMA ReadersStay ==
  ASSUME StoreInv, \A g : Settled(g) => Settled(g)' /\ archive'[g] = archive[g],
         flat.snapshot # None => flat'.snapshot # None,
         flat.catalog # None => flat'.catalog # None,
         pinner' = pinner, pin' = pin, window' = window
  PROVE  PinnedIsSettled' /\ ReadersAreReady' /\ BundleIsOnePair' /\ Kept
<1>1. PinnedIsSettled'
  BY DEF StoreInv, PinnedIsSettled
<1>2. ReadersAreReady'
  BY DEF StoreInv, ReadersAreReady, Ready
<1>3. BundleIsOnePair'
  BY DEF StoreInv, BundleIsOnePair
<1> QED
  BY <1>1, <1>2, <1>3 DEF Kept

(* A step of a run that is under way: it writes in its own directory while *)
(* it stages, and names it in the pointer when it is whole.                *)
LEMMA RunStep ==
  ASSUME StoreInv, NEW u \in Updaters, updater[u].step # "idle",
         updater' \in [Updaters -> [step: UpdaterStep, data: Content]],
         \A v \in Updaters : v # u => updater'[v] = updater[v],
         updater'[u].step = "idle" \/ updater'[u].data = updater[u].data,
         updater'[u].step \in Staging => updater[u].step \in Staging,
         archive' \in [Generation -> Directory],
         \A g \in Generation : g # File(u) \/ updater[u].step \notin Staging =>
           archive'[g] = archive[g],
         Written(u)',
         flat' \in Pair,
         flat.snapshot # None => flat'.snapshot # None,
         flat.catalog # None => flat'.catalog # None,
         fetched' = fetched, pinner' = pinner, pin' = pin, window' = window,
         \/ pointer' = pointer
         \/ /\ pointer' = File(u) /\ Verified(File(u)) /\ archive' = archive
            /\ updater'[u].step \notin Staging
  PROVE  StoreInv' /\ Kept
<1>1. StoreTypeOK'
  BY FileFacts DEF StoreInv, StoreTypeOK
<1>2. RunsAreApart'
  BY DEF StoreInv, RunsAreApart
<1>3. \A g : Settled(g) => Settled(g)' /\ archive'[g] = archive[g]
  <2>1. \A g \in Generation : Settled(g) => archive'[g] = archive[g]
    BY FileFacts
  <2>2. fetched' \in Nat /\ fetched <= fetched'
    BY DEF StoreInv, StoreTypeOK
  <2>3. \A v \in Updaters : updater'[v].step \in Staging =>
          updater[v].step \in Staging /\ updater'[v].data = updater[v].data
    BY DEF Staging
  <2> QED
    BY <2>1, <2>2, <2>3, SettledStays
<1>4. FilesAreWritten'
  <2> SUFFICES ASSUME NEW v \in Updaters, v # u PROVE Written(v)'
    BY DEF FilesAreWritten
  <2>1. Written(v) /\ updater'[v] = updater[v] /\ File(v)' = File(v)
    BY DEF StoreInv, FilesAreWritten, File
  <2>2. CASE updater[v].step = "idle"
    BY <2>1, <2>2 DEF Written
  <2>3. CASE updater[v].step # "idle"
    <3>1. File(v) \in Generation /\ File(v) # File(u)
      BY <2>3, FileFacts
    <3> QED
      BY <2>1, <3>1 DEF Written
  <2> QED
    BY <2>2, <2>3
<1>5. PublishedIsSettled'
  <2>1. CASE pointer' = pointer
    BY <1>3, <2>1 DEF StoreInv, PublishedIsSettled
  <2>2. CASE /\ pointer' = File(u) /\ Verified(File(u)) /\ archive' = archive
             /\ updater'[u].step \notin Staging
    <3>1. /\ File(u) \in Generation /\ File(u).snapshot <= fetched'
          /\ \A v \in Updaters : v # u /\ updater[v].step # "idle" => File(v) # File(u)
      BY FileFacts
    <3>2. ASSUME NEW v \in Updaters, updater'[v].step \in Staging PROVE File(u) # File(v)'
      <4>1. v # u /\ updater[v].step # "idle" /\ File(v)' = File(v)
        BY <2>2, <3>2 DEF File, Staging
      <4> QED
        BY <3>1, <4>1
    <3>3. Verified(pointer)'
      BY <2>2 DEF Verified
    <3>4. Settled(pointer)'
      BY <2>2, <3>1, <3>2, <3>3 DEF Settled
    <3> QED
      BY <3>4 DEF PublishedIsSettled
  <2> QED
    BY <2>1, <2>2
<1>6. PinnedIsSettled' /\ ReadersAreReady' /\ BundleIsOnePair' /\ Kept
  BY <1>3, ReadersStay
<1> QED
  BY <1>1, <1>2, <1>4, <1>5, <1>6 DEF StoreInv

(* A step of a new match: the archive gains whole directories at most.     *)
LEMMA ResolveStep ==
  ASSUME StoreInv, NEW m \in Pinners, pin[m] = Unset,
         flat' = flat, pointer' = pointer, updater' = updater, fetched' = fetched,
         window' = window,
         archive' \in [Generation -> Directory],
         \A g \in Generation : archive[g] # NoDirectory \/ g.kind = "run" =>
           archive'[g] = archive[g],
         pinner' \in [Pinners -> [step: PinnerStep, snapshot: Content, catalog: Content]],
         \A n \in Pinners : n # m => pinner'[n] = pinner[n],
         pin' \in [Pinners -> Pin],
         \A n \in Pinners : n # m => pin'[n] = pin[n],
         Ready(m)',
         pin'[m].status = "PINNED" =>
           /\ Settled(pin[m].generation)'
           /\ archive'[pin'[m].generation].snapshot = pin'[m].sha256
  PROVE  StoreInv' /\ Kept
<1>1. StoreTypeOK'
  BY DEF StoreInv, StoreTypeOK
<1>2. RunsAreApart'
  BY DEF StoreInv, RunsAreApart
<1>3. \A g : Settled(g) => Settled(g)' /\ archive'[g] = archive[g]
  <2>1. \A g \in Generation : Settled(g) => archive'[g] = archive[g]
    BY SettledIsThere
  <2>2. fetched' \in Nat /\ fetched <= fetched'
    BY DEF StoreInv, StoreTypeOK
  <2> QED
    BY <2>1, <2>2, SettledStays
<1>4. FilesAreWritten'
  <2> SUFFICES ASSUME NEW v \in Updaters PROVE Written(v)'
    BY DEF FilesAreWritten
  <2>1. Written(v) /\ updater'[v] = updater[v] /\ File(v)' = File(v)
    BY DEF StoreInv, FilesAreWritten, File
  <2>2. CASE updater[v].step = "idle"
    BY <2>1, <2>2 DEF Written
  <2>3. CASE updater[v].step # "idle"
    <3>1. archive'[File(v)] = archive[File(v)]
      BY <2>3, FileFacts
    <3> QED
      BY <2>1, <3>1 DEF Written
  <2> QED
    BY <2>2, <2>3
<1>5. PublishedIsSettled'
  BY <1>3 DEF StoreInv, PublishedIsSettled
<1>6. PinnedIsSettled'
  BY <1>3 DEF StoreInv, PinnedIsSettled
<1>7. ReadersAreReady'
  <2>1. ASSUME NEW n \in Pinners, n # m PROVE Ready(n)'
    BY <2>1 DEF StoreInv, ReadersAreReady, Ready
  <2> QED
    BY <2>1 DEF ReadersAreReady
<1>8. BundleIsOnePair'
  BY DEF StoreInv, BundleIsOnePair
<1>9. Kept
  BY <1>3 DEF Kept
<1> QED
  BY <1>1, <1>2, <1>4, <1>5, <1>6, <1>7, <1>8, <1>9 DEF StoreInv
-----------------------------------------------------------------------------
(* The steps of an updater, one lemma per action.                          *)
LEMMA StartUpdateKeeps ==
  ASSUME StoreInv, NEW u \in Updaters, StartUpdate(u)
  PROVE  StoreInv' /\ Kept
<1>1. /\ updater[u].step = "idle" /\ fetched \in Nat /\ MaxData \in Nat
      /\ fetched < MaxData /\ fetched' = fetched + 1
      /\ flat' = flat /\ pointer' = pointer /\ archive' = archive
      /\ pinner' = pinner /\ pin' = pin /\ window' = window
  BY StoreAssumption DEF StoreInv, StoreTypeOK, StartUpdate, At, updaterFrame
<1>2. fetched' \in Data /\ fetched' \in Content
  BY <1>1 DEF Data, Content
<1>3. /\ updater' \in [Updaters -> [step: UpdaterStep, data: Content]]
      /\ updater'[u].step = "snapshot" /\ updater'[u].data = fetched'
      /\ \A v \in Updaters : v # u => updater'[v] = updater[v]
  BY <1>1, <1>2 DEF StoreInv, StoreTypeOK, StartUpdate, UpdaterStep, Staging
<1>4. StoreTypeOK'
  BY <1>1, <1>3 DEF StoreInv, StoreTypeOK
<1>5. RunsAreApart'
  <2>1. \A v \in Updaters : updater[v].step # "idle" =>
          updater[v].data \in Data /\ updater[v].data \in Nat /\ updater[v].data <= fetched
    BY DataFacts DEF StoreInv, RunsAreApart
  <2>2. fetched' <= MaxData
    BY <1>1
  <2>3. \A v \in Updaters : updater'[v].step # "idle" =>
          updater'[v].data \in Data /\ updater'[v].data <= fetched'
    BY <1>1, <1>2, <1>3, <2>1
  <2>4. ASSUME NEW v \in Updaters, NEW w \in Updaters, v # w,
               updater'[v].step # "idle", updater'[w].step # "idle"
        PROVE  updater'[v].data # updater'[w].data
    <3>1. CASE v = u
      BY <1>1, <1>3, <2>1, <2>4, <3>1
    <3>2. CASE w = u
      BY <1>1, <1>3, <2>1, <2>4, <3>2
    <3>3. CASE v # u /\ w # u
      BY <1>3, <2>4, <3>3 DEF StoreInv, RunsAreApart
    <3> QED
      BY <3>1, <3>2, <3>3
  <2> QED
    BY <2>2, <2>3, <2>4 DEF RunsAreApart
<1>6. \A g : Settled(g) => Settled(g)' /\ archive'[g] = archive[g]
  <2>1. \A v \in Updaters : updater'[v].step \in Staging =>
          \/ updater[v].step \in Staging /\ updater'[v].data = updater[v].data
          \/ updater'[v].data \in Data /\ updater'[v].data > fetched
    BY <1>1, <1>2, <1>3
  <2>2. fetched' \in Nat /\ fetched <= fetched'
    BY <1>1
  <2> QED
    BY <1>1, <2>1, <2>2, SettledStays
<1>7. FilesAreWritten'
  <2> SUFFICES ASSUME NEW v \in Updaters PROVE Written(v)'
    BY DEF FilesAreWritten
  <2>1. CASE v = u
    BY <1>3, <2>1 DEF Written
  <2>2. CASE v # u
    BY <1>1, <1>3, <2>2 DEF StoreInv, FilesAreWritten, Written, File
  <2> QED
    BY <2>1, <2>2
<1>8. PublishedIsSettled'
  BY <1>1, <1>6 DEF StoreInv, PublishedIsSettled
<1> QED
  BY <1>1, <1>4, <1>5, <1>6, <1>7, <1>8, ReadersStay DEF StoreInv

LEMMA StageSnapshotKeeps ==
  ASSUME StoreInv, NEW u \in Updaters, StageSnapshot(u)
  PROVE  StoreInv' /\ Kept
<1>1. /\ updater[u].step = "snapshot" /\ Go(u, "catalog")
      /\ archive' = [archive EXCEPT ![File(u)].snapshot = updater[u].data]
      /\ flat' = flat /\ pointer' = pointer /\ fetched' = fetched
      /\ pinner' = pinner /\ pin' = pin /\ window' = window
  BY DEF StageSnapshot, At, updaterFrame
<1>2. /\ updater' \in [Updaters -> [step: UpdaterStep, data: Content]]
      /\ updater'[u].step = "catalog" /\ updater'[u].data = updater[u].data
      /\ \A v \in Updaters : v # u => updater'[v] = updater[v]
  BY <1>1, GoFacts DEF StoreInv, UpdaterStep, Staging
<1>3. /\ File(u) \in Generation /\ File(u)' = File(u) /\ updater[u].data \in Content
  BY <1>1, <1>2, FileFacts, DataFacts DEF File
<1>4. /\ archive' \in [Generation -> Directory]
      /\ \A g \in Generation : g # File(u) => archive'[g] = archive[g]
      /\ archive'[File(u)].snapshot = updater[u].data
  BY <1>1, <1>3 DEF StoreInv, StoreTypeOK, Directory
<1>5. Written(u)'
  BY <1>2, <1>3, <1>4 DEF Written
<1> QED
  BY <1>1, <1>2, <1>4, <1>5, RunStep DEF StoreInv, StoreTypeOK, Staging

LEMMA StageCatalogKeeps ==
  ASSUME StoreInv, NEW u \in Updaters, StageCatalog(u)
  PROVE  StoreInv' /\ Kept
<1>1. /\ updater[u].step = "catalog" /\ Go(u, "manifest")
      /\ archive' = [archive EXCEPT ![File(u)].catalog = updater[u].data]
      /\ flat' = flat /\ pointer' = pointer /\ fetched' = fetched
      /\ pinner' = pinner /\ pin' = pin /\ window' = window
  BY DEF StageCatalog, At, updaterFrame
<1>2. /\ updater' \in [Updaters -> [step: UpdaterStep, data: Content]]
      /\ updater'[u].step = "manifest" /\ updater'[u].data = updater[u].data
      /\ \A v \in Updaters : v # u => updater'[v] = updater[v]
  BY <1>1, GoFacts DEF StoreInv, UpdaterStep, Staging
<1>3. /\ File(u) \in Generation /\ File(u)' = File(u) /\ updater[u].data \in Content
  BY <1>1, <1>2, FileFacts, DataFacts DEF File
<1>4. /\ archive' \in [Generation -> Directory]
      /\ \A g \in Generation : g # File(u) => archive'[g] = archive[g]
      /\ archive'[File(u)].catalog = updater[u].data
      /\ archive'[File(u)].snapshot = archive[File(u)].snapshot
  BY <1>1, <1>3 DEF StoreInv, StoreTypeOK, Directory
<1>5. Written(u)'
  <2>1. archive[File(u)].snapshot = updater[u].data
    BY <1>1 DEF StoreInv, FilesAreWritten, Written
  <2> QED
    BY <1>2, <1>3, <1>4, <2>1 DEF Written
<1> QED
  BY <1>1, <1>2, <1>4, <1>5, RunStep DEF StoreInv, StoreTypeOK, Staging

LEMMA StageManifestKeeps ==
  ASSUME StoreInv, NEW u \in Updaters, StageManifest(u)
  PROVE  StoreInv' /\ Kept
<1>1. /\ updater[u].step = "manifest" /\ Go(u, "pointer")
      /\ archive' = [archive EXCEPT ![File(u)].manifest = TRUE]
      /\ flat' = flat /\ pointer' = pointer /\ fetched' = fetched
      /\ pinner' = pinner /\ pin' = pin /\ window' = window
  BY DEF StageManifest, At, updaterFrame
<1>2. /\ updater' \in [Updaters -> [step: UpdaterStep, data: Content]]
      /\ updater'[u].step = "pointer" /\ updater'[u].data = updater[u].data
      /\ \A v \in Updaters : v # u => updater'[v] = updater[v]
  BY <1>1, GoFacts DEF StoreInv, UpdaterStep, Staging
<1>3. /\ File(u) \in Generation /\ File(u)' = File(u)
  BY <1>1, <1>2, FileFacts DEF File
<1>4. /\ archive' \in [Generation -> Directory]
      /\ \A g \in Generation : g # File(u) => archive'[g] = archive[g]
      /\ archive'[File(u)].catalog = archive[File(u)].catalog
      /\ archive'[File(u)].snapshot = archive[File(u)].snapshot
      /\ archive'[File(u)].manifest
  BY <1>1, <1>3 DEF StoreInv, StoreTypeOK, Directory
<1>5. Written(u)'
  <2>1. /\ archive[File(u)].snapshot = updater[u].data
        /\ archive[File(u)].catalog = updater[u].data
    BY <1>1 DEF StoreInv, FilesAreWritten, Written
  <2> QED
    BY <1>2, <1>3, <1>4, <2>1 DEF Written
<1> QED
  BY <1>1, <1>2, <1>4, <1>5, RunStep DEF StoreInv, StoreTypeOK, Staging

(* A step after the files are staged leaves the archive alone.             *)
LEMMA StagedStep ==
  ASSUME StoreInv, NEW u \in Updaters, updater[u].step # "idle",
         updater' \in [Updaters -> [step: UpdaterStep, data: Content]],
         \A v \in Updaters : v # u => updater'[v] = updater[v],
         updater'[u].step \in {"idle", "mirror snapshot", "mirror catalog"},
         updater'[u].step = "idle" \/ updater'[u].data = updater[u].data,
         archive' = archive, flat' \in Pair,
         flat.snapshot # None => flat'.snapshot # None,
         flat.catalog # None => flat'.catalog # None,
         fetched' = fetched, pinner' = pinner, pin' = pin, window' = window,
         pointer' = pointer \/ (pointer' = File(u) /\ Verified(File(u)))
  PROVE  StoreInv' /\ Kept
<1>1. updater'[u].step \notin Staging
  BY DEF Staging
<1>2. Written(u)'
  BY DEF Written
<1> QED
  BY <1>1, <1>2, RunStep DEF StoreInv, StoreTypeOK

LEMMA FlipPointerKeeps ==
  ASSUME StoreInv, NEW u \in Updaters, FlipPointer(u)
  PROVE  StoreInv' /\ Kept
<1>1. /\ updater[u].step = "pointer" /\ Go(u, "mirror snapshot")
      /\ pointer' = File(u) /\ archive' = archive
      /\ flat' = flat /\ fetched' = fetched
      /\ pinner' = pinner /\ pin' = pin /\ window' = window
  BY DEF FlipPointer, At, updaterFrame
<1>2. Verified(File(u))
  <2>1. Written(u)
    BY DEF StoreInv, FilesAreWritten
  <2> QED
    BY <1>1, <2>1, FileFacts DEF Written, Verified
<1>3. /\ updater' \in [Updaters -> [step: UpdaterStep, data: Content]]
      /\ updater'[u].step = "mirror snapshot" /\ updater'[u].data = updater[u].data
      /\ \A v \in Updaters : v # u => updater'[v] = updater[v]
  BY <1>1, GoFacts DEF StoreInv, UpdaterStep
<1> QED
  BY <1>1, <1>2, <1>3, StagedStep DEF StoreInv, StoreTypeOK

LEMMA MirrorSnapshotKeeps ==
  ASSUME StoreInv, NEW u \in Updaters, MirrorSnapshot(u)
  PROVE  StoreInv' /\ Kept
<1>1. /\ updater[u].step = "mirror snapshot" /\ Go(u, "mirror catalog")
      /\ flat' = [flat EXCEPT !.snapshot = updater[u].data]
      /\ pointer' = pointer /\ archive' = archive /\ fetched' = fetched
      /\ pinner' = pinner /\ pin' = pin /\ window' = window
  BY DEF MirrorSnapshot, At, updaterFrame
<1>2. /\ updater' \in [Updaters -> [step: UpdaterStep, data: Content]]
      /\ updater'[u].step = "mirror catalog" /\ updater'[u].data = updater[u].data
      /\ \A v \in Updaters : v # u => updater'[v] = updater[v]
  BY <1>1, GoFacts DEF StoreInv, UpdaterStep
<1>3. flat' \in Pair /\ flat'.snapshot # None /\ flat'.catalog = flat.catalog
  BY <1>1, FileFacts, DataFacts DEF StoreInv, StoreTypeOK, Pair
<1>4. updater'[u].step \in {"idle", "mirror snapshot", "mirror catalog"}
  BY <1>2
<1> QED
  BY <1>1, <1>2, <1>3, <1>4, StagedStep

LEMMA MirrorCatalogKeeps ==
  ASSUME StoreInv, NEW u \in Updaters, MirrorCatalog(u)
  PROVE  StoreInv' /\ Kept
<1>1. /\ updater[u].step = "mirror catalog" /\ End(u)
      /\ flat' = [flat EXCEPT !.catalog = updater[u].data]
      /\ pointer' = pointer /\ archive' = archive /\ fetched' = fetched
      /\ pinner' = pinner /\ pin' = pin /\ window' = window
  BY DEF MirrorCatalog, At, updaterFrame
<1>2. flat' \in Pair /\ flat'.catalog # None /\ flat'.snapshot = flat.snapshot
  BY <1>1, FileFacts, DataFacts DEF StoreInv, StoreTypeOK, Pair
<1>3. /\ updater' \in [Updaters -> [step: UpdaterStep, data: Content]]
      /\ \A v \in Updaters : v # u => updater'[v] = updater[v]
      /\ updater'[u].step = "idle"
      /\ updater'[u].step \in {"idle", "mirror snapshot", "mirror catalog"}
  BY <1>1, EndFacts DEF StoreInv
<1> QED
  BY <1>1, <1>2, <1>3, StagedStep

LEMMA StopUpdateKeeps ==
  ASSUME StoreInv, NEW u \in Updaters, StopUpdate(u)
  PROVE  StoreInv' /\ Kept
<1>1. /\ updater[u].step # "idle" /\ End(u) /\ flat' = flat
      /\ pointer' = pointer /\ archive' = archive /\ fetched' = fetched
      /\ pinner' = pinner /\ pin' = pin /\ window' = window
  BY DEF StopUpdate, updaterFrame
<1>2. /\ updater' \in [Updaters -> [step: UpdaterStep, data: Content]]
      /\ \A v \in Updaters : v # u => updater'[v] = updater[v]
      /\ updater'[u].step = "idle"
      /\ updater'[u].step \in {"idle", "mirror snapshot", "mirror catalog"}
  BY <1>1, EndFacts DEF StoreInv
<1> QED
  BY <1>1, <1>2, StagedStep DEF StoreInv, StoreTypeOK

LEMMA FailUpdateKeeps ==
  ASSUME StoreInv, NEW u \in Updaters, FailUpdate(u)
  PROVE  StoreInv' /\ Kept
<1>1. /\ updater[u].step # "idle" /\ End(u) /\ flat' = flat
      /\ archive' = IF updater[u].step \in Staging
                    THEN [archive EXCEPT ![File(u)] = NoDirectory] ELSE archive
      /\ pointer' = pointer /\ fetched' = fetched
      /\ pinner' = pinner /\ pin' = pin /\ window' = window
  BY DEF FailUpdate, updaterFrame
<1>2. /\ updater' \in [Updaters -> [step: UpdaterStep, data: Content]]
      /\ \A v \in Updaters : v # u => updater'[v] = updater[v]
      /\ updater'[u].step = "idle"
      /\ updater'[u].step \in {"idle", "mirror snapshot", "mirror catalog"}
  BY <1>1, EndFacts DEF StoreInv
<1>3. CASE updater[u].step \in Staging
  <2>1. /\ archive' \in [Generation -> Directory]
        /\ \A g \in Generation : g # File(u) => archive'[g] = archive[g]
    BY <1>1, <1>3, FileFacts, GenerationFacts DEF StoreInv, StoreTypeOK
  <2>2. Written(u)' /\ updater'[u].step \notin Staging
    BY <1>2 DEF Written, Staging
  <2> QED
    BY <1>1, <1>2, <1>3, <2>1, <2>2, RunStep DEF StoreInv, StoreTypeOK
<1>4. CASE updater[u].step \notin Staging
  <2>1. archive' = archive
    BY <1>1, <1>4
  <2> QED
    BY <1>1, <1>2, <2>1, StagedStep DEF StoreInv, StoreTypeOK
<1> QED
  BY <1>3, <1>4
-----------------------------------------------------------------------------
(* The steps of a new match, one lemma per action.                         *)
LEMMA PinFacts ==
  ASSUME StoreTypeOK
  PROVE  /\ Unset \in Pin /\ Unavailable \in Pin
         /\ Unset.status # "PINNED" /\ Unavailable.status # "PINNED"
         /\ \A g : Settled(g) => /\ PinnedTo(g) \in Pin /\ PinnedTo(g).generation = g
                                 /\ PinnedTo(g).sha256 = archive[g].snapshot
<1>1. Unset \in Pin /\ Unavailable \in Pin
  BY GenerationFacts, DataFacts DEF Unset, Unavailable, Pin
<1>2. ASSUME NEW g, Settled(g)
      PROVE  PinnedTo(g) \in Pin
  BY <1>2 DEF Settled, PinnedTo, Pin, StoreTypeOK, Directory
<1> QED
  BY <1>1, <1>2 DEF Unset, Unavailable, PinnedTo

(* The step that decides the pin of a match.                               *)
LEMMA DecidingStep ==
  ASSUME StoreInv, NEW m \in Pinners, pin[m] = Unset, NEW p \in Pin, Decide(m, p),
         flat' = flat, pointer' = pointer, updater' = updater, fetched' = fetched,
         window' = window,
         archive' \in [Generation -> Directory],
         \A g \in Generation : archive[g] # NoDirectory \/ g.kind = "run" =>
           archive'[g] = archive[g],
         p.status = "PINNED" =>
           \E g \in Generation : /\ p.generation = g /\ Settled(g)'
                                 /\ archive'[g].snapshot = p.sha256
  PROVE  StoreInv' /\ Kept
<1>1. /\ pin' \in [Pinners -> Pin] /\ pin'[m] = p
      /\ \A n \in Pinners : n # m => pin'[n] = pin[n]
  BY DEF Decide, StoreInv, StoreTypeOK
<1>2. /\ pinner' \in [Pinners -> [step: PinnerStep, snapshot: Content, catalog: Content]]
      /\ pinner'[m].step = "idle"
      /\ \A n \in Pinners : n # m => pinner'[n] = pinner[n]
  BY DataFacts DEF Decide, Await, StoreInv, StoreTypeOK, PinnerStep
<1>3. Ready(m)'
  BY <1>2 DEF Ready
<1>4. pin'[m].status = "PINNED" =>
        Settled(pin[m].generation)' /\ archive'[pin'[m].generation].snapshot = pin'[m].sha256
  BY <1>1
<1> QED
  BY <1>1, <1>2, <1>3, <1>4, ResolveStep

LEMMA AwaitFacts ==
  ASSUME StoreTypeOK, NEW m \in Pinners,
         NEW at \in PinnerStep, NEW s \in Content, NEW c \in Content, Await(m, at, s, c)
  PROVE  /\ pinner' \in [Pinners -> [step: PinnerStep, snapshot: Content, catalog: Content]]
         /\ pinner'[m].step = at /\ pinner'[m].snapshot = s /\ pinner'[m].catalog = c
         /\ \A n \in Pinners : n # m => pinner'[n] = pinner[n]
  BY DEF Await, StoreTypeOK

(* A step that reads and goes on.                                          *)
LEMMA ReadingStep ==
  ASSUME StoreInv, NEW m \in Pinners, pin[m] = Unset,
         NEW at \in PinnerStep, NEW s \in Content, NEW c \in Content,
         Await(m, at, s, c),
         flat' = flat, pointer' = pointer, updater' = updater, fetched' = fetched,
         window' = window, archive' = archive, pin' = pin,
         at # "idle" => flat.snapshot # None /\ flat.catalog # None,
         at \in {"catalog again", "target", "rename"} => s # None,
         at \in {"target", "rename"} => c # None
  PROVE  StoreInv' /\ Kept
<1>1. /\ pinner' \in [Pinners -> [step: PinnerStep, snapshot: Content, catalog: Content]]
      /\ pinner'[m].step = at /\ pinner'[m].snapshot = s /\ pinner'[m].catalog = c
      /\ \A n \in Pinners : n # m => pinner'[n] = pinner[n]
  BY AwaitFacts DEF StoreInv
<1>2. pin'[m] = Unset
  OBVIOUS
<1>3. Ready(m)'
  <2>1. pinner'[m].step # "idle" =>
          pin'[m] = Unset /\ flat'.snapshot # None /\ flat'.catalog # None
    BY <1>1, <1>2, Zenon
  <2>2. /\ pinner'[m].step \in {"catalog again", "target", "rename"} =>
             pinner'[m].snapshot # None
        /\ pinner'[m].step \in {"target", "rename"} => pinner'[m].catalog # None
    BY <1>1, Zenon
  <2> QED
    BY <2>1, <2>2, Zenon DEF Ready
<1>4. pin'[m].status # "PINNED"
  BY <1>2, PinFacts DEF StoreInv
<1> QED
  BY <1>1, <1>2, <1>3, <1>4, ResolveStep DEF StoreInv, StoreTypeOK

(* A match that reads has no pin, and has read what its step needs.        *)
LEMMA ReaderFacts ==
  ASSUME StoreInv, NEW m \in Pinners
  PROVE  /\ pinner[m].snapshot \in Content /\ pinner[m].catalog \in Content
         /\ flat.snapshot \in Content /\ flat.catalog \in Content
         /\ Ready(m)
  BY DEF StoreInv, StoreTypeOK, Pair, ReadersAreReady

(* A whole flat generation is settled: no run writes in its directory.     *)
LEMMA FlatIsSettled ==
  ASSUME NEW s \in Content, NEW c \in Content, Verified(OfFlat(s, c))
  PROVE  Settled(OfFlat(s, c))
<1>1. \A u \in Updaters : File(u) # OfFlat(s, c)
  BY DEF File, OfRun, OfFlat
<1> QED
  BY <1>1, GenerationFacts DEF Settled

(* A step that leaves archive and runs alone leaves what is settled.       *)
LEMMA SettledIsUnmoved ==
  ASSUME archive' = archive, updater' = updater, fetched' = fetched
  PROVE  \A g : Settled(g) => Settled(g)'
  BY DEF Settled, Verified, File

LEMMA PinCurrentKeeps ==
  ASSUME StoreInv, NEW m \in Pinners, PinCurrent(m)
  PROVE  StoreInv' /\ Kept
<1> DEFINE p == IF Verified(pointer) THEN PinnedTo(pointer) ELSE Unavailable
<1>1. /\ pin[m] = Unset /\ pointer # NoGeneration /\ Decide(m, p)
      /\ flat' = flat /\ pointer' = pointer /\ updater' = updater /\ fetched' = fetched
      /\ window' = window /\ archive' = archive
  BY DEF PinCurrent, pinnerFrame
<1>2. Settled(pointer)
  BY <1>1 DEF StoreInv, PublishedIsSettled
<1>3. p \in Pin /\ p.generation = pointer /\ p.sha256 = archive[pointer].snapshot
  <2>1. p = PinnedTo(pointer)
    BY <1>2 DEF Settled
  <2> QED
    BY <1>2, <2>1, PinFacts DEF StoreInv
<1> HIDE DEF p
<1>4. \E g \in Generation : /\ p.generation = g /\ Settled(g)'
                            /\ archive'[g].snapshot = p.sha256
  BY <1>1, <1>2, <1>3, SettledIsUnmoved DEF Settled
<1> QED
  BY <1>1, <1>3, <1>4, DecidingStep DEF StoreInv, StoreTypeOK

LEMMA ReadFlatSnapshotKeeps ==
  ASSUME StoreInv, NEW m \in Pinners, ReadFlatSnapshot(m)
  PROVE  StoreInv' /\ Kept
<1>1. /\ pin[m] = Unset
      /\ flat' = flat /\ pointer' = pointer /\ updater' = updater /\ fetched' = fetched
      /\ window' = window /\ archive' = archive
  BY DEF ReadFlatSnapshot, pinnerFrame
<1>2. CASE flat.snapshot = None \/ flat.catalog = None
  <2>1. Decide(m, Unavailable)
    BY <1>2 DEF ReadFlatSnapshot
  <2> QED
    BY <1>1, <2>1, PinFacts, DecidingStep DEF StoreInv, StoreTypeOK
<1>3. CASE ~ (flat.snapshot = None \/ flat.catalog = None)
  <2>1. Await(m, "catalog", flat.snapshot, None) /\ pin' = pin
    BY <1>3 DEF ReadFlatSnapshot
  <2> QED
    BY <1>1, <1>3, <2>1, ReaderFacts, DataFacts, ReadingStep DEF PinnerStep
<1> QED
  BY <1>2, <1>3

LEMMA ValidateFlatKeeps ==
  ASSUME StoreInv, NEW m \in Pinners, ValidateFlat(m)
  PROVE  StoreInv' /\ Kept
<1>1. /\ pinner[m].step = "catalog"
      /\ flat' = flat /\ pointer' = pointer /\ updater' = updater /\ fetched' = fetched
      /\ window' = window /\ archive' = archive
  BY DEF ValidateFlat, Reading, pinnerFrame
<1>2. pin[m] = Unset /\ flat.snapshot # None /\ flat.catalog # None
  BY <1>1, ReaderFacts DEF Ready
<1>3. CASE Matches(pinner[m].snapshot, flat.catalog)
  <2>1. Await(m, "read again", None, None) /\ pin' = pin
    BY <1>3 DEF ValidateFlat
  <2> QED
    BY <1>1, <1>2, <2>1, DataFacts, ReadingStep DEF PinnerStep
<1>4. CASE ~ Matches(pinner[m].snapshot, flat.catalog)
  <2>1. Decide(m, Unavailable)
    BY <1>4 DEF ValidateFlat
  <2> QED
    BY <1>1, <1>2, <2>1, PinFacts, DecidingStep DEF StoreInv, StoreTypeOK
<1> QED
  BY <1>3, <1>4

LEMMA ReadAgainKeeps ==
  ASSUME StoreInv, NEW m \in Pinners, ReadSnapshotAgain(m) \/ ReadCatalogAgain(m)
  PROVE  StoreInv' /\ Kept
<1>1. /\ flat' = flat /\ pointer' = pointer /\ updater' = updater /\ fetched' = fetched
      /\ window' = window /\ archive' = archive /\ pin' = pin
      /\ pinner[m].step \in {"read again", "catalog again"}
  BY DEF ReadSnapshotAgain, ReadCatalogAgain, Reading, pinnerFrame
<1>2. pin[m] = Unset /\ flat.snapshot # None /\ flat.catalog # None
  BY <1>1, ReaderFacts DEF Ready
<1>3. CASE ReadSnapshotAgain(m)
  <2>1. Await(m, "catalog again", flat.snapshot, None)
    BY <1>3 DEF ReadSnapshotAgain
  <2> QED
    BY <1>1, <1>2, <2>1, ReaderFacts, DataFacts, ReadingStep DEF PinnerStep
<1>4. CASE ReadCatalogAgain(m)
  <2>1. /\ Await(m, "target", pinner[m].snapshot, flat.catalog)
        /\ pinner[m].snapshot # None
    BY <1>4, ReaderFacts DEF ReadCatalogAgain, Reading, Ready
  <2> QED
    BY <1>1, <1>2, <2>1, ReaderFacts, ReadingStep DEF PinnerStep
<1> QED
  BY <1>3, <1>4

(* The generation found is pinned when it is whole, and nothing otherwise. *)
LEMMA PinFound ==
  ASSUME StoreInv, NEW m \in Pinners, pin[m] = Unset,
         Decide(m, IF Verified(Target(m)) THEN PinnedTo(Target(m)) ELSE Unavailable),
         flat' = flat, pointer' = pointer, updater' = updater, fetched' = fetched,
         window' = window, archive' = archive
  PROVE  StoreInv' /\ Kept
<1>1. CASE Verified(Target(m))
  <2> DEFINE g == Target(m)
  <2>1. Settled(g)
    BY <1>1, ReaderFacts, FlatIsSettled DEF Target
  <2> HIDE DEF g
  <2>2. /\ PinnedTo(g) \in Pin /\ PinnedTo(g).generation = g
        /\ PinnedTo(g).sha256 = archive[g].snapshot
    BY <2>1, PinFacts DEF StoreInv
  <2>3. Decide(m, PinnedTo(g))
    BY <1>1 DEF g
  <2> DEFINE p == PinnedTo(g)
  <2> HIDE DEF p
  <2>4. /\ p \in Pin /\ Decide(m, p) /\ p.generation = g /\ p.sha256 = archive[g].snapshot
    BY <2>2, <2>3 DEF p
  <2>5. \E h \in Generation : /\ p.generation = h /\ Settled(h)'
                              /\ archive'[h].snapshot = p.sha256
    BY <2>1, <2>4, SettledIsUnmoved DEF Settled
  <2> QED
    BY <2>4, <2>5, DecidingStep DEF StoreInv, StoreTypeOK
<1>2. CASE ~ Verified(Target(m))
  <2>1. Decide(m, Unavailable)
    BY <1>2
  <2> QED
    BY <2>1, PinFacts, DecidingStep DEF StoreInv, StoreTypeOK
<1> QED
  BY <1>1, <1>2

LEMMA FindTargetKeeps ==
  ASSUME StoreInv, NEW m \in Pinners, FindTarget(m)
  PROVE  StoreInv' /\ Kept
<1>1. /\ pinner[m].step = "target"
      /\ flat' = flat /\ pointer' = pointer /\ updater' = updater /\ fetched' = fetched
      /\ window' = window /\ archive' = archive
  BY DEF FindTarget, Reading, pinnerFrame
<1>2. /\ pin[m] = Unset /\ flat.snapshot # None /\ flat.catalog # None
      /\ pinner[m].snapshot # None /\ pinner[m].catalog # None
  BY <1>1, ReaderFacts DEF Ready
<1>3. CASE archive[Target(m)] # NoDirectory
  <2>1. Decide(m, IF Verified(Target(m)) THEN PinnedTo(Target(m)) ELSE Unavailable)
    BY <1>3 DEF FindTarget
  <2> QED
    BY <1>1, <1>2, <2>1, PinFound
<1>4. CASE archive[Target(m)] = NoDirectory
  <2>1. Await(m, "rename", pinner[m].snapshot, pinner[m].catalog) /\ pin' = pin
    BY <1>4 DEF FindTarget
  <2> QED
    BY <1>1, <1>2, <2>1, ReaderFacts, ReadingStep DEF PinnerStep
<1> QED
  BY <1>3, <1>4

LEMMA MaterializeKeeps ==
  ASSUME StoreInv, NEW m \in Pinners, Materialize(m)
  PROVE  StoreInv' /\ Kept
<1> DEFINE g == Target(m)
           whole == [snapshot |-> pinner[m].snapshot, catalog |-> pinner[m].catalog,
                     manifest |-> TRUE]
           p == [status |-> "PINNED", generation |-> g, sha256 |-> pinner[m].snapshot]
<1>1. /\ pinner[m].step = "rename" /\ archive[g] = NoDirectory /\ Decide(m, p)
      /\ archive' = [archive EXCEPT ![g] = whole]
      /\ flat' = flat /\ pointer' = pointer /\ updater' = updater /\ fetched' = fetched
      /\ window' = window
  BY DEF Materialize, Reading, pinnerFrame
<1>2. /\ pin[m] = Unset
      /\ pinner[m].snapshot # None /\ pinner[m].catalog # None
      /\ pinner[m].snapshot \in Content /\ pinner[m].catalog \in Content
  BY <1>1, ReaderFacts DEF Ready
<1>3. /\ g \in Generation /\ g.kind = "flat"
      /\ g.snapshot = pinner[m].snapshot /\ g.catalog = pinner[m].catalog
      /\ \A u \in Updaters : g # File(u)
  BY <1>2, GenerationFacts DEF Target, File, OfRun, OfFlat
<1>4. /\ whole \in Directory /\ whole.manifest
      /\ whole.snapshot = g.snapshot /\ whole.catalog = g.catalog
  BY <1>2, <1>3 DEF Directory
<1>5. /\ p \in Pin /\ p.generation = g /\ p.sha256 = g.snapshot
  BY <1>2, <1>3 DEF Pin
<1> HIDE DEF g, whole, p
<1>6. /\ archive' \in [Generation -> Directory] /\ archive'[g] = whole
      /\ \A h \in Generation : h # g => archive'[h] = archive[h]
  BY <1>1, <1>3, <1>4 DEF StoreInv, StoreTypeOK
<1>7. \E h \in Generation : /\ p.generation = h /\ Settled(h)'
                            /\ archive'[h].snapshot = p.sha256
  <2>1. PICK h \in Generation : h = g
    BY <1>3
  <2>2. Verified(h)'
    BY <1>2, <1>3, <1>4, <1>6, <2>1 DEF Verified
  <2>3. Settled(h)'
    BY <1>1, <1>3, <2>1, <2>2 DEF Settled, File
  <2> QED
    BY <1>4, <1>5, <1>6, <2>1, <2>3
<1>8. \A h \in Generation : archive[h] # NoDirectory \/ h.kind = "run" =>
        archive'[h] = archive[h]
  BY <1>1, <1>3, <1>6
<1> QED
  BY <1>1, <1>2, <1>5, <1>6, <1>7, <1>8, DecidingStep

LEMMA LoseRenameKeeps ==
  ASSUME StoreInv, NEW m \in Pinners, LoseRename(m)
  PROVE  StoreInv' /\ Kept
<1>1. /\ pinner[m].step = "rename"
      /\ Decide(m, IF Verified(Target(m)) THEN PinnedTo(Target(m)) ELSE Unavailable)
      /\ flat' = flat /\ pointer' = pointer /\ updater' = updater /\ fetched' = fetched
      /\ window' = window /\ archive' = archive
  BY DEF LoseRename, Reading, pinnerFrame
<1>2. pin[m] = Unset
  BY <1>1, ReaderFacts DEF Ready
<1> QED
  BY <1>1, <1>2, PinFound

LEMMA FailMaterializeKeeps ==
  ASSUME StoreInv, NEW m \in Pinners, FailMaterialize(m)
  PROVE  StoreInv' /\ Kept
<1>1. /\ pinner[m].step = "rename" /\ Decide(m, Unavailable)
      /\ flat' = flat /\ pointer' = pointer /\ updater' = updater /\ fetched' = fetched
      /\ window' = window /\ archive' = archive
  BY DEF FailMaterialize, Reading, pinnerFrame
<1>2. pin[m] = Unset
  BY <1>1, ReaderFacts DEF Ready
<1> QED
  BY <1>1, <1>2, PinFacts, DecidingStep DEF StoreInv, StoreTypeOK

LEMMA StopPinningKeeps ==
  ASSUME StoreInv, NEW m \in Pinners, StopPinning(m)
  PROVE  StoreInv' /\ Kept
<1>1. /\ pinner[m].step # "idle" /\ Await(m, "idle", None, None)
      /\ flat' = flat /\ pointer' = pointer /\ updater' = updater /\ fetched' = fetched
      /\ window' = window /\ archive' = archive /\ pin' = pin
  BY DEF StopPinning, pinnerFrame
<1>2. pin[m] = Unset
  BY <1>1, ReaderFacts DEF Ready
<1> QED
  BY <1>1, <1>2, DataFacts, ReadingStep DEF PinnerStep

-----------------------------------------------------------------------------
(* What concerns the updaters and the matches stays when they do nothing.  *)
LEMMA OnlyTheWindow ==
  ASSUME StoreInv, UNCHANGED <<flat, pointer, archive, updater, fetched, pinner, pin>>,
         window' \in [step: {"idle", "catalog"}, snapshot: Content, bundle: Pair],
         window'.bundle.snapshot = window'.bundle.catalog
  PROVE  StoreInv' /\ Kept
<1>1. StoreTypeOK' /\ BundleIsOnePair'
  BY DEF StoreInv, StoreTypeOK, BundleIsOnePair
<1>2. RunsAreApart' /\ FilesAreWritten'
  BY DEF StoreInv, RunsAreApart, FilesAreWritten, Written, File
<1>3. \A g : Settled(g) => Settled(g)'
  BY DEF Settled, Verified, File
<1>4. PublishedIsSettled'
  BY <1>3 DEF StoreInv, PublishedIsSettled
<1>5. PinnedIsSettled'
  BY <1>3 DEF StoreInv, PinnedIsSettled
<1>6. ReadersAreReady'
  BY DEF StoreInv, ReadersAreReady, Ready
<1>7. Kept
  BY DEF Kept
<1> QED
  BY <1>1, <1>2, <1>4, <1>5, <1>6, <1>7 DEF StoreInv

(* The window's steps touch nothing but the window.                        *)
LEMMA OpenKeeps ==
  ASSUME StoreInv, Open
  PROVE  StoreInv' /\ Kept
<1>1. /\ flat' = flat /\ pointer' = pointer /\ archive' = archive /\ updater' = updater
      /\ fetched' = fetched /\ pinner' = pinner /\ pin' = pin
  BY DEF Open, ShowCurrent, ReadFlatPair, ShowFlatPair, windowFrame
<1>2. /\ window' \in [step: {"idle", "catalog"}, snapshot: Content, bundle: Pair]
      /\ window'.bundle.snapshot = window'.bundle.catalog
  <2>1. /\ flat.snapshot \in Content /\ flat.catalog \in Content
        /\ pointer.snapshot \in Content /\ pointer.catalog \in Content
        /\ window \in [step: {"idle", "catalog"}, snapshot: Content, bundle: Pair]
        /\ window.bundle.snapshot = window.bundle.catalog
    BY DEF StoreInv, StoreTypeOK, Pair, Generation, BundleIsOnePair
  <2>2. \A s, c \in Content : s = c /\ Show(s, c) =>
          /\ window' \in [step: {"idle", "catalog"}, snapshot: Content, bundle: Pair]
          /\ window'.bundle.snapshot = window'.bundle.catalog
    BY DataFacts DEF Show, Pair
  <2>3. CASE ShowCurrent
    BY <2>1, <2>2, <2>3, DataFacts DEF ShowCurrent, Matches
  <2>4. CASE ShowFlatPair
    BY <2>1, <2>2, <2>4, DataFacts DEF ShowFlatPair, Matches
  <2>5. CASE ReadFlatPair
    <3>1. CASE flat.snapshot = None \/ flat.catalog = None
      BY <2>2, <2>5, <3>1, DataFacts DEF ReadFlatPair
    <3>2. CASE ~ (flat.snapshot = None \/ flat.catalog = None)
      BY <2>1, <2>5, <3>2 DEF ReadFlatPair
    <3> QED
      BY <3>1, <3>2
  <2> QED
    BY <2>3, <2>4, <2>5 DEF Open
<1> QED
  BY <1>1, <1>2, OnlyTheWindow

-----------------------------------------------------------------------------
LEMMA StoreStepKeeps == StoreInv /\ [StoreNext]_storeVars => StoreInv' /\ Kept
<1> SUFFICES ASSUME StoreInv, [StoreNext]_storeVars PROVE StoreInv' /\ Kept
  OBVIOUS
<1>1. ASSUME NEW u \in Updaters, Update(u) PROVE StoreInv' /\ Kept
  BY <1>1, StartUpdateKeeps, StageSnapshotKeeps, StageCatalogKeeps, StageManifestKeeps,
     FlipPointerKeeps, MirrorSnapshotKeeps, MirrorCatalogKeeps, FailUpdateKeeps,
     StopUpdateKeeps DEF Update
<1>2. ASSUME NEW m \in Pinners, Resolve(m) PROVE StoreInv' /\ Kept
  BY <1>2, PinCurrentKeeps, ReadFlatSnapshotKeeps, ValidateFlatKeeps, ReadAgainKeeps,
     FindTargetKeeps, MaterializeKeeps, LoseRenameKeeps, FailMaterializeKeeps,
     StopPinningKeeps DEF Resolve
<1>3. ASSUME UNCHANGED storeVars PROVE StoreInv' /\ Kept
  BY <1>3, OnlyTheWindow DEF storeVars, StoreInv, StoreTypeOK, BundleIsOnePair
<1> QED
  BY <1>1, <1>2, <1>3, OpenKeeps DEF StoreNext

LEMMA StoreHolds == StoreSpec => []StoreInv
<1>1. StoreInv /\ [StoreNext]_storeVars => StoreInv'
  BY StoreStepKeeps
<1> QED
  BY <1>1, StoreInitKeeps, PTL DEF StoreSpec

(* The state of the store is well formed.                                  *)
THEOREM StoreIsTyped == StoreSpec => []StoreTypeOK
<1>1. StoreInv => StoreTypeOK
  BY DEF StoreInv
<1> QED
  BY <1>1, StoreHolds, PTL

(* However many updates run, fail and stop, and however many matches begin *)
(* meanwhile: the pointer names a whole generation, a pinned one stays     *)
(* whole, the window shows one pair, and a request has statistics of one.  *)
THEOREM StoreIsAlwaysSound == StoreSpec => []StoreIsSound
<1>1. StoreInv => StoreIsSound
  <2> SUFFICES ASSUME StoreInv PROVE StoreIsSound
    OBVIOUS
  <2>1. PointerNamesWholeGeneration
    BY DEF StoreInv, PublishedIsSettled, Settled, PointerNamesWholeGeneration
  <2>2. PinnedGenerationStays
    BY DEF StoreInv, PinnedIsSettled, Settled, PinnedGenerationStays
  <2>3. StatisticsAreOfOnePair
    BY DEF StatisticsAreOfOnePair, Context, NoContext, Matches
  <2> QED
    BY <2>1, <2>2, <2>3 DEF StoreInv, StoreIsSound
<1> QED
  BY <1>1, StoreHolds, PTL

(* What a match is told about a species is fixed when the match begins.    *)
THEOREM ContextIsAlwaysFixed == StoreSpec => ContextIsFixed
<1> DEFINE A == \A m \in Pinners, species \in Actives \cup {None} :
                  pin[m] # Unset => Context(m, species)' = Context(m, species)
<1>1. StoreInv /\ [StoreNext]_storeVars => [A]_storeVars
  <2> SUFFICES ASSUME StoreInv, [StoreNext]_storeVars,
                      NEW m \in Pinners, NEW species \in Actives \cup {None}, pin[m] # Unset
               PROVE  Context(m, species)' = Context(m, species)
    OBVIOUS
  <2>1. pin'[m] = pin[m] /\ \A g : Settled(g) => archive'[g] = archive[g]
    BY StoreStepKeeps DEF Kept
  <2>2. CASE pin[m].status # "PINNED"
    BY <2>1, <2>2 DEF Context
  <2>3. CASE pin[m].status = "PINNED"
    <3>1. archive'[pin[m].generation] = archive[pin[m].generation]
      BY <2>1, <2>3 DEF StoreInv, PinnedIsSettled
    <3> QED
      BY <2>1, <3>1 DEF Context, Verified
  <2> QED
    BY <2>2, <2>3
<1> QED
  BY <1>1, StoreHolds, PTL DEF StoreSpec, ContextIsFixed

----------------------------------------------------------------------------
(***************************************************************************)
(* IntelImport: the verdict on a traversal of the list is right.           *)
(***************************************************************************)
Entries == [species : Species, rank : Nat]
Crawls == [page : Nat, visited : Seq(Nat), entries : Seq(Entries), total : {Absent, Count},
           last : {Absent, Pages}, outcome : Outcome]

(* How many species the first n pages list. *)
ListedBy(n) == IF n * site.size < Count THEN n * site.size ELSE Count

PagesRead == Len(crawl.visited)

(* A ranking is a permutation of the species. *)
SiteOK ==
  /\ site \in [total : BOOLEAN, last : BOOLEAN, ranks : BOOLEAN, size : 1..Count,
               ranking : [1..Count -> Species]]
  /\ \A i, j \in 1..Count : site.ranking[i] = site.ranking[j] => i = j

(* The pages are read in their order, and none that there is not. *)
CrawlOK ==
  /\ crawl \in Crawls /\ history \in [rankings : Nat, faults : BOOLEAN, unread : BOOLEAN]
  /\ crawl.visited = [k \in 1..PagesRead |-> k] /\ PagesRead <= Pages
  /\ crawl.outcome = Undecided => crawl.page = PagesRead + 1 /\ crawl.page <= Pages

(* Rows that can be read are all in the list. *)
AllRowsRead == ~history.unread => Len(crawl.entries) = ListedBy(PagesRead)

(* The species of a list that was found complete. *)
ListIsWhole ==
  crawl.outcome = "COMPLETE" =>
    SpeciesOf(crawl.entries) = Species \/ (history.unread /\ crawl.total = Absent)

(* What an honest site shows of its i-th species. *)
RankedRow(i) == [species |-> site.ranking[i], rank |-> IF site.ranks THEN i ELSE Absent]

(* The rows of the first n pages as the site shows them. *)
IsRanked(entries, n) ==
  Len(entries) = ListedBy(n) /\ \A i \in 1..Len(entries) : entries[i] = RankedRow(i)

(* When nothing went wrong the list is the ranking, as far as it was read. *)
ListIsHonest ==
  ~history.faults =>
    /\ IsRanked(crawl.entries, PagesRead)
    /\ crawl.total = (IF site.total /\ PagesRead > 0 THEN Count ELSE Absent)
    /\ crawl.last = (IF site.last /\ PagesRead > 0 THEN Pages ELSE Absent)
    /\ crawl.outcome = "COMPLETE" => PagesRead = Pages
    /\ (site.total \/ site.last) /\ Pages <= MaxPages =>
         crawl.outcome \in {Undecided, "COMPLETE"}

Wanted == {i \in DOMAIN crawl.entries : filter = {} \/ crawl.entries[i].species \in filter}
SpeciesAt(P) == {crawl.entries[i].species : i \in P}

(* Every species that is wanted is fetched, failed, or still to fetch. *)
DetailsOK ==
  /\ import = [stubs |-> import.stubs, records |-> import.records, failed |-> import.failed,
               step |-> import.step]
  /\ filter = {} \/ \E s \in Species : filter = {s}
  /\ import.step = "list" =>
       import.stubs = {} /\ import.failed = {} /\ DOMAIN import.records = {}
  /\ import.step \in {"details", "supplement", "commit", "done"} =>
       /\ crawl.outcome = "COMPLETE" /\ import.stubs \subseteq Wanted
       /\ DOMAIN import.records \cup import.failed \cup SpeciesAt(import.stubs) = SpeciesAt(Wanted)
  /\ import.step \in {"supplement", "commit", "done"} => import.failed = {} /\ import.stubs = {}
  /\ published # {} => import.step = "done" /\ published = DOMAIN import.records
  /\ ~history.faults => import.failed = {}

ImportInv ==
  /\ SiteOK /\ CrawlOK /\ AllRowsRead /\ ListIsWhole /\ ListIsHonest /\ DetailsOK
  /\ HonestImportIsPublished

----------------------------------------------------------------------------
LEMMA Products ==
  ASSUME NEW a \in Nat, NEW b \in Nat, NEW s \in Nat, a <= b
  PROVE  a * s \in Nat /\ b * s \in Nat /\ a * s <= b * s /\ (a + 1) * s = a * s + s
<1>1. (a + 1) * s = a * s + s
  OBVIOUS
<1>2. PICK d \in Nat : b = a + d
  <2>1. b - a \in Nat /\ b = a + (b - a)
    OBVIOUS
  <2> QED
    BY <2>1
<1>3. d * s \in Nat /\ a * s \in Nat
  OBVIOUS
<1>4. b * s = a * s + d * s
  BY <1>2
<1> QED
  BY <1>1, <1>3, <1>4

LEMMA Quotient ==
  ASSUME NEW n \in Nat \ {0}, NEW s \in 1..n, NEW q, q = (n + s - 1) \div s
  PROVE  q \in Nat \ {0} /\ q * s >= n /\ (q - 1) * s < n
<1>1. PICK m : m = n + s - 1
  OBVIOUS
<1>2. m \in Nat /\ s \in Nat /\ s > 0
  BY <1>1
<1>3. q \in Int /\ s * q <= m /\ m < s * q + s
  BY <1>1, <1>2
<1>4. q >= 1
  <2>1. SUFFICES ASSUME q <= 0 PROVE FALSE
    BY <1>3
  <2>2. s * q <= 0
    BY <1>2, <1>3, <2>1
  <2>3. m >= s
    BY <1>1, <1>2
  <2> QED
    BY <1>2, <1>3, <2>2, <2>3
<1>5. q * s = s * q /\ (q - 1) * s = s * q - s /\ s * q \in Int
  BY <1>2, <1>3
<1> QED
  BY <1>1, <1>2, <1>3, <1>4, <1>5

LEMMA SiteFacts ==
  ASSUME ImportAssumption, SiteOK
  PROVE  /\ Count \in Nat \ {0} /\ site.size \in Nat \ {0} /\ site.size \in 1..Count
         /\ Pages \in Nat \ {0} /\ Pages * site.size >= Count /\ (Pages - 1) * site.size < Count
<1>1. Count \in Nat
  BY FS_CardinalityType DEF ImportAssumption, Count
<1>2. site.size \in 1..Count
  BY DEF SiteOK
<1>3. Count \in Nat \ {0} /\ site.size \in Nat \ {0}
  BY <1>1, <1>2
<1>4. Pages = (Count + site.size - 1) \div site.size
  BY DEF Pages
<1> QED
  BY <1>2, <1>3, <1>4, Quotient

(* The pages before page k are full, and page k has a row. *)
LEMMA ListedFacts ==
  ASSUME ImportAssumption, SiteOK, NEW k \in 1..Pages
  PROVE  /\ ListedBy(0) = 0 /\ ListedBy(Pages) = Count
         /\ ListedBy(k - 1) = (k - 1) * site.size /\ ListedBy(k - 1) \in Nat
         /\ ListedBy(k) \in Nat /\ ListedBy(k - 1) < ListedBy(k) /\ ListedBy(k) <= Count
         /\ k * site.size = (k - 1) * site.size + site.size
<1>1. PICK s : s = site.size
  OBVIOUS
<1>2. PICK n : n = Count
  OBVIOUS
<1>3. PICK p : p = Pages
  OBVIOUS
<1>4. n \in Nat \ {0} /\ s \in Nat \ {0} /\ p \in Nat \ {0} /\ p * s >= n /\ (p - 1) * s < n
  BY <1>1, <1>2, <1>3, SiteFacts
<1>5. k \in 1..p /\ k - 1 \in Nat /\ p - 1 \in Nat /\ k - 1 <= p - 1 /\ k - 1 + 1 = k
  BY <1>3, <1>4
<1>6. (k - 1) * s \in Nat /\ (k - 1) * s <= (p - 1) * s /\ k * s = (k - 1) * s + s
      /\ (p - 1) * s \in Nat
  BY <1>4, <1>5, Products
<1>7. p * s \in Nat /\ 0 * s = 0
  BY <1>4
<1>8. \A m : ListedBy(m) = IF m * s < n THEN m * s ELSE n
  BY <1>1, <1>2 DEF ListedBy
<1>9. ListedBy(0) = 0 /\ ListedBy(p) = n
  BY <1>4, <1>7, <1>8
<1>10. ListedBy(k - 1) = (k - 1) * s /\ ListedBy(k - 1) < n
  BY <1>4, <1>6, <1>8
<1>11. /\ ListedBy(k) \in Nat /\ ListedBy(k - 1) < ListedBy(k)
       /\ ListedBy(k) <= n
  BY <1>4, <1>6, <1>8, <1>10
<1> QED
  BY <1>1, <1>2, <1>3, <1>6, <1>9, <1>10, <1>11

LEMMA RowsFacts ==
  ASSUME ImportAssumption, SiteOK, NEW k \in 1..Pages, NEW numbered \in BOOLEAN,
         NEW rows, rows = Rows(k, numbered)
  PROVE  /\ rows \in Seq(Entries) /\ Len(rows) = ListedBy(k) - ListedBy(k - 1)
         /\ Len(RowsOfPage(k)) = Len(rows)
         /\ \A i \in 1..Len(rows) :
              /\ ListedBy(k - 1) + i \in 1..Count
              /\ rows[i] = [species |-> site.ranking[ListedBy(k - 1) + i],
                            rank |-> IF numbered THEN ListedBy(k - 1) + i ELSE Absent]
<1>1. PICK a \in Nat : a = ListedBy(k - 1)
  BY ListedFacts
<1>2. PICK b \in Nat : b = ListedBy(k)
  BY ListedFacts
<1>3. a < b /\ b <= Count /\ Count \in Nat /\ (k - 1) * site.size = a
  BY <1>1, <1>2, ListedFacts, SiteFacts
<1>4. PICK q : q = RowsOfPage(k)
  OBVIOUS
<1>5. q = SubSeq(site.ranking, a + 1, b)
  BY <1>2, <1>3, <1>4 DEF RowsOfPage, ListedBy
<1>6. \A i \in (a + 1)..b : site.ranking[i] \in Species
  BY <1>3 DEF SiteOK
<1>7. /\ q \in Seq(Species) /\ Len(q) = b - a
      /\ \A i \in 1..(b - a) : q[i] = site.ranking[a + i]
  <2>1. a + 1 \in Int /\ b \in Int /\ a + 1 <= b
    BY <1>3
  <2>2. /\ q \in Seq(Species) /\ Len(q) = b - (a + 1) + 1
        /\ \A i \in 1..(b - (a + 1) + 1) : q[i] = site.ranking[(a + 1) + i - 1]
    BY <1>5, <1>6, <2>1, SubSeqProperties
  <2>3. b - (a + 1) + 1 = b - a /\ \A i \in 1..(b - a) : (a + 1) + i - 1 = a + i
    OBVIOUS
  <2> QED
    BY <2>2, <2>3
<1>8. rows = [i \in 1..(b - a) |-> [species |-> q[i], rank |-> IF numbered THEN a + i ELSE Absent]]
  BY <1>3, <1>4, <1>7 DEF Rows
<1>9. \A i \in 1..(b - a) :
        [species |-> q[i], rank |-> IF numbered THEN a + i ELSE Absent] \in Entries
  <2>1. SUFFICES ASSUME NEW i \in 1..(b - a)
                 PROVE  q[i] \in Species /\ (IF numbered THEN a + i ELSE Absent) \in Nat
    BY DEF Entries
  <2> QED
    BY <1>3, <1>7 DEF Absent
<1>10. b - a \in Nat
  BY <1>3
<1>11. rows \in Seq(Entries) /\ Len(rows) = b - a
  BY <1>8, <1>9, <1>10
<1>12. \A i \in 1..(b - a) : a + i \in 1..Count
  BY <1>3
<1> QED
  BY <1>1, <1>2, <1>4, <1>7, <1>8, <1>11, <1>12

(* The species of a list are as many as it has rows only if none is twice. *)
LEMMA WholeBySize ==
  ASSUME ImportAssumption, NEW entries \in Seq(Entries),
         Cardinality(SpeciesOf(entries)) = Count
  PROVE  SpeciesOf(entries) = Species
<1>1. SpeciesOf(entries) \in SUBSET Species
  <2>1. DOMAIN entries = 1..Len(entries) /\ \A i \in 1..Len(entries) : entries[i] \in Entries
    BY ElementOfSeq
  <2> QED
    BY <2>1 DEF SpeciesOf, Entries
<1> QED
  BY <1>1, FS_Subset DEF ImportAssumption, Count

LEMMA RankingIsWhole ==
  ASSUME ImportAssumption, SiteOK, NEW entries, DOMAIN entries = 1..Count,
         \A i \in 1..Count : entries[i].species = site.ranking[i]
  PROVE  SpeciesOf(entries) = Species /\ Cardinality(SpeciesOf(entries)) = Count
<1>1. PICK f : f = site.ranking
  OBVIOUS
<1>2. f \in [1..Count -> Species] /\ \A i, j \in 1..Count : f[i] = f[j] => i = j
  BY <1>1 DEF SiteOK
<1>3. PICK S : S = SpeciesOf(entries)
  OBVIOUS
<1>4. S = {f[i] : i \in 1..Count}
  BY <1>1, <1>3 DEF SpeciesOf
<1>5. f \in Bijection(1..Count, S)
  <2>1. f \in [1..Count -> S] /\ \A y \in S : \E i \in 1..Count : f[i] = y
    BY <1>2, <1>4
  <2> QED
    BY <1>2, <2>1 DEF Bijection, Injection, Surjection, IsInjective
<1>6. Cardinality(1..Count) = Count /\ IsFiniteSet(1..Count)
  BY SiteFacts, FS_Interval
<1>7. Cardinality(S) = Count
  BY <1>5, <1>6, FS_Bijection DEF ExistsBijection
<1>8. S \in SUBSET Species
  BY <1>2, <1>4
<1> QED
  BY <1>3, <1>7, <1>8, FS_Subset DEF ImportAssumption, Count

LEMMA VerdictFacts ==
  ASSUME NEW c
  PROVE  /\ Verdict(c) \in {"COMPLETE", "INCOMPLETE", "UNPROVABLE"}
         /\ Verdict(c) = "COMPLETE" <=>
              /\ Cardinality(SpeciesOf(c.entries)) = Len(c.entries)
              /\ c.total \in {Absent, Len(c.entries)}
              /\ RanksAreContiguous(c.entries)
              /\ c.last # Absent => c.visited = [k \in 1..c.last |-> k]
              /\ c.total # Absent \/ c.last # Absent
BY DEF Verdict

(* A page as it may come: the rows are some of those the site shows, and   *)
(* what it says of the pages is true.                                      *)
PageRecords == [rows : Seq(Entries), wellFormed : BOOLEAN, next : Nat, total : Nat, last : Nat]

LEMMA HonestFacts ==
  ASSUME ImportAssumption, SiteOK, NEW k \in 1..Pages, NEW h, h = Honest(k)
  PROVE  /\ h \in PageRecords /\ h.rows = Rows(k, site.ranks) /\ h.wellFormed = TRUE
         /\ h.next = (IF k < Pages THEN k + 1 ELSE Absent)
         /\ h.total = (IF site.total THEN Count ELSE Absent)
         /\ h.last = (IF site.last THEN Pages ELSE Absent)
<1>1. site.ranks \in BOOLEAN
  BY DEF SiteOK
<1>2. PICK rows : rows = Rows(k, site.ranks)
  OBVIOUS
<1>3. rows \in Seq(Entries)
  BY <1>1, <1>2, RowsFacts
<1>4. h = [rows |-> rows, wellFormed |-> TRUE, next |-> IF k < Pages THEN k + 1 ELSE Absent,
           total |-> IF site.total THEN Count ELSE Absent,
           last |-> IF site.last THEN Pages ELSE Absent]
  BY <1>2 DEF Honest
<1>5. Count \in Nat /\ Pages \in Nat
  BY SiteFacts
<1> QED
  BY <1>2, <1>3, <1>4, <1>5 DEF PageRecords, Absent

LEMMA PageFacts ==
  ASSUME ImportAssumption, SiteOK, NEW k \in 1..Pages, NEW page \in Answers(k)
  PROVE  /\ page \in PageRecords /\ page.total \in {Absent, Count} /\ page.last \in {Absent, Pages}
         /\ (page.next = k + 1 /\ k < Pages) \/ page.next \in {Absent, 1}
<1>1. PICK h : h = Honest(k)
  OBVIOUS
<1>2. /\ h \in PageRecords /\ h.next = (IF k < Pages THEN k + 1 ELSE Absent)
      /\ h.total \in {Absent, Count} /\ h.last \in {Absent, Pages}
  BY <1>1, HonestFacts
<1>3. /\ page = [rows |-> page.rows, wellFormed |-> page.wellFormed, next |-> page.next,
                 total |-> page.total, last |-> page.last]
      /\ page.rows \in {Rows(k, site.ranks), Tail(Rows(k, site.ranks)), Rows(k, FALSE)}
      /\ page.wellFormed \in BOOLEAN /\ page.next \in {Absent, 1, h.next}
      /\ page.total = h.total /\ page.last = h.last
  BY <1>1 DEF Answers
<1>4. page.rows \in Seq(Entries)
  <2>1. site.ranks \in BOOLEAN
    BY DEF SiteOK
  <2>2. PICK q : q = Rows(k, site.ranks)
    OBVIOUS
  <2>3. q \in Seq(Entries) /\ Len(q) = ListedBy(k) - ListedBy(k - 1)
    BY <2>1, <2>2, RowsFacts
  <2>4. Len(q) # 0
    BY <2>3, ListedFacts
  <2>5. q # <<>>
    BY <2>4
  <2>6. Tail(q) \in Seq(Entries)
    BY <2>3, <2>5
  <2>7. Rows(k, FALSE) \in Seq(Entries)
    BY RowsFacts
  <2> QED
    BY <1>3, <2>2, <2>3, <2>6, <2>7
<1>5. page.next \in Nat /\ page.total \in Nat /\ page.last \in Nat
  BY <1>2, <1>3, SiteFacts DEF Absent
<1>6. page \in PageRecords
  BY <1>3, <1>4, <1>5 DEF PageRecords
<1> QED
  BY <1>2, <1>3, <1>6

----------------------------------------------------------------------------
(***************************************************************************)
(* A page of the list.                                                     *)
(***************************************************************************)
WithPageOK(read, k, page) ==
  /\ k \in 1..Pages /\ k = PagesRead + 1
  /\ read \in Crawls /\ read.visited = [i \in 1..k |-> i] /\ Len(read.visited) = k
  /\ read.entries = crawl.entries \o page.rows
  /\ read.entries \in Seq(Entries)
  /\ read.page = page.next /\ read.outcome = Undecided
  /\ page.total = Absent => read.total = crawl.total
  /\ page.total # Absent => read.total = page.total
  /\ page.last = Absent => read.last = crawl.last
  /\ page.last # Absent => read.last = page.last

LEMMA WithPageFacts ==
  ASSUME ImportAssumption, SiteOK, CrawlOK, crawl.outcome = Undecided,
         NEW k, k = crawl.page, NEW page \in Answers(k), NEW read, read = WithPage(crawl, k, page)
  PROVE  WithPageOK(read, k, page)
<1>1. /\ crawl \in Crawls /\ crawl.visited \in Seq(Nat) /\ crawl.entries \in Seq(Entries)
      /\ crawl.total \in {Absent, Count} /\ crawl.last \in {Absent, Pages}
      /\ PagesRead \in Nat /\ PagesRead <= Pages /\ k = PagesRead + 1 /\ k <= Pages
      /\ crawl.visited = [i \in 1..PagesRead |-> i]
  BY DEF CrawlOK, Crawls, PagesRead
<1>2. k \in 1..Pages
  BY <1>1, SiteFacts
<1>3. /\ page \in PageRecords /\ page.total \in {Absent, Count} /\ page.last \in {Absent, Pages}
      /\ page.rows \in Seq(Entries) /\ page.next \in Nat
  BY <1>2, PageFacts DEF PageRecords
<1>4. PICK v : v = Append(crawl.visited, k)
  OBVIOUS
<1>5. v \in Seq(Nat) /\ Len(v) = k /\ v = [i \in 1..k |-> i]
  <2>1. k \in Nat
    BY <1>1
  <2>2. /\ v \in Seq(Nat) /\ Len(v) = PagesRead + 1
        /\ \A i \in 1..PagesRead : v[i] = crawl.visited[i]
        /\ v[PagesRead + 1] = k
    BY <1>1, <1>4, <2>1, AppendProperties DEF PagesRead
  <2>3. \A i \in 1..k : v[i] = i
    BY <1>1, <2>2
  <2>4. v = [i \in 1..Len(v) |-> v[i]]
    BY <2>2
  <2> QED
    BY <1>1, <2>2, <2>3, <2>4
<1>6. PICK e : e = crawl.entries \o page.rows
  OBVIOUS
<1>7. e \in Seq(Entries)
  BY <1>1, <1>3, <1>6, ConcatProperties
<1>8. PICK total \in {Absent, Count} :
        total = IF page.total = Absent THEN crawl.total ELSE page.total
  BY <1>1, <1>3
<1>9. PICK last \in {Absent, Pages} :
        last = IF page.last = Absent THEN crawl.last ELSE page.last
  BY <1>1, <1>3
<1>10. read = [crawl EXCEPT !.visited = v, !.entries = e, !.total = total, !.last = last,
                          !.page = page.next]
  BY <1>4, <1>6, <1>8, <1>9 DEF WithPage
<1>11. read \in Crawls
  BY <1>1, <1>3, <1>5, <1>7, <1>10 DEF Crawls
<1>12. read.visited = v /\ read.entries = e /\ read.page = page.next /\ read.outcome = Undecided
       /\ read.total = total /\ read.last = last
  BY <1>1, <1>10 DEF Crawls
<1>13. /\ page.total = Absent => total = crawl.total
       /\ page.total # Absent => total = page.total
       /\ page.last = Absent => last = crawl.last
       /\ page.last # Absent => last = page.last
  BY <1>8, <1>9
<1> QED
  BY <1>1, <1>2, <1>5, <1>6, <1>7, <1>11, <1>12, <1>13 DEF WithPageOK

Refused(c) == [c EXCEPT !.outcome = "INCOMPLETE"]
Judged(c) == [c EXCEPT !.outcome = Verdict(c)]

LEMMA AfterPageCases ==
  ASSUME NEW c, NEW k, NEW page \in PageRecords, NEW read, read = WithPage(c, k, page),
         NEW after, after = AfterPage(c, k, page)
  PROVE  \/ (~page.wellFormed \/ page.rows = <<>>) /\ after = Refused(c)
         \/ page.next = Absent /\ read.last # Absent /\ k < read.last /\ after = Refused(read)
         \/ page.next = Absent /\ after = Judged(read)
         \/ /\ \/ Len(read.visited) >= MaxPages
               \/ page.next \in {read.visited[i] : i \in DOMAIN read.visited}
            /\ page.next # Absent /\ after = Refused(read)
         \/ /\ page.next \notin {read.visited[i] : i \in DOMAIN read.visited}
            /\ page.next # Absent /\ after = read
<1>1. CASE ~page.wellFormed \/ page.rows = <<>>
  <2>1. AfterPage(c, k, page) = Refused(c)
    BY <1>1 DEF AfterPage, Refused
  <2> QED
    BY <1>1, <2>1
<1>2. CASE ~(~page.wellFormed \/ page.rows = <<>>)
  <2>1. CASE page.next = Absent /\ read.last # Absent /\ k < read.last
    <3>1. AfterPage(c, k, page) = Refused(read)
      BY <1>2, <2>1 DEF AfterPage, Refused
    <3> QED
      BY <2>1, <3>1
  <2>2. CASE page.next = Absent /\ ~(read.last # Absent /\ k < read.last)
    <3>1. AfterPage(c, k, page) = Judged(read)
      BY <1>2, <2>2 DEF AfterPage, Judged
    <3> QED
      BY <2>2, <3>1
  <2>3. CASE /\ \/ Len(read.visited) >= MaxPages
                \/ page.next \in {read.visited[i] : i \in DOMAIN read.visited}
             /\ page.next # Absent
    <3>1. AfterPage(c, k, page) = Refused(read)
      BY <1>2, <2>3 DEF AfterPage, Refused
    <3> QED
      BY <2>3, <3>1
  <2>4. CASE /\ page.next \notin {read.visited[i] : i \in DOMAIN read.visited}
             /\ ~(Len(read.visited) >= MaxPages) /\ page.next # Absent
    <3>1. AfterPage(c, k, page) = read
      BY <1>2, <2>4 DEF AfterPage
    <3> QED
      BY <2>4, <3>1
  <2> QED
    BY <2>1, <2>2, <2>3, <2>4
<1> QED
  BY <1>1, <1>2

(* The outcome alone. *)
LEMMA OutcomeSet ==
  ASSUME NEW c \in Crawls, NEW o \in Outcome, NEW d, d = [c EXCEPT !.outcome = o]
  PROVE  /\ d \in Crawls /\ d.outcome = o /\ d.visited = c.visited /\ d.entries = c.entries
         /\ d.total = c.total /\ d.last = c.last /\ d.page = c.page
BY DEF Crawls

LEMMA RefusedIsOK ==
  ASSUME NEW c \in Crawls, NEW d, d = Refused(c)
  PROVE  /\ d \in Crawls /\ d.outcome = "INCOMPLETE" /\ d.visited = c.visited
         /\ d.entries = c.entries /\ d.total = c.total /\ d.last = c.last
BY OutcomeSet DEF Refused, Outcome

LEMMA JudgedIsOK ==
  ASSUME NEW c \in Crawls, NEW d, d = Judged(c)
  PROVE  /\ d \in Crawls /\ d.outcome = Verdict(c) /\ d.visited = c.visited
         /\ d.entries = c.entries /\ d.total = c.total /\ d.last = c.last
         /\ d.outcome # Undecided
<1>1. Verdict(c) \in Outcome /\ Verdict(c) # Undecided
  BY VerdictFacts DEF Outcome, Undecided
<1> QED
  BY <1>1, OutcomeSet DEF Judged

(* What a page makes of the list: it is refused as it stands, or the page  *)
(* is added and the list refused, judged or read on.                       *)
LEMMA PageOutcome ==
  ASSUME ImportAssumption, SiteOK, CrawlOK, crawl.outcome = Undecided,
         NEW k, k = crawl.page, NEW page \in Answers(k), NEW read, read = WithPage(crawl, k, page),
         NEW after, after = AfterPage(crawl, k, page)
  PROVE  /\ after \in Crawls
         /\ \/ /\ ~page.wellFormed \/ page.rows = <<>>
               /\ after.visited = crawl.visited /\ after.entries = crawl.entries
               /\ after.total = crawl.total /\ after.last = crawl.last
               /\ after.outcome = "INCOMPLETE"
            \/ /\ after.visited = read.visited /\ after.entries = read.entries
               /\ after.total = read.total /\ after.last = read.last
               /\ \/ /\ after.outcome = "INCOMPLETE"
                     /\ \/ page.next = Absent /\ read.last # Absent /\ k < read.last
                        \/ page.next # Absent /\ (k >= MaxPages \/ page.next \in 1..k)
                  \/ page.next = Absent /\ after.outcome = Verdict(read)
                  \/ /\ after.outcome = Undecided /\ after.page = k + 1 /\ k < Pages
                     /\ page.next = k + 1
<1>1. /\ k \in 1..Pages /\ read \in Crawls /\ read.visited = [i \in 1..k |-> i]
      /\ Len(read.visited) = k /\ read.page = page.next /\ read.outcome = Undecided
  <2>1. WithPageOK(read, k, page)
    BY WithPageFacts
  <2> QED
    BY <2>1 DEF WithPageOK
<1>2. page \in PageRecords /\ ((page.next = k + 1 /\ k < Pages) \/ page.next \in {Absent, 1})
  BY <1>1, PageFacts
<1>3. crawl \in Crawls
  BY DEF CrawlOK
<1>4. {read.visited[i] : i \in DOMAIN read.visited} = 1..k
  BY <1>1
<1>5. k \in Nat /\ k >= 1
  BY <1>1
<1>6. CASE (~page.wellFormed \/ page.rows = <<>>) /\ after = Refused(crawl)
  BY <1>3, <1>6, RefusedIsOK
<1>7. CASE page.next = Absent /\ read.last # Absent /\ k < read.last /\ after = Refused(read)
  BY <1>1, <1>7, RefusedIsOK
<1>8. CASE page.next = Absent /\ after = Judged(read)
  BY <1>1, <1>8, JudgedIsOK
<1>9. CASE /\ \/ Len(read.visited) >= MaxPages
              \/ page.next \in {read.visited[i] : i \in DOMAIN read.visited}
           /\ page.next # Absent /\ after = Refused(read)
  <2>1. k >= MaxPages \/ page.next \in 1..k
    BY <1>1, <1>4, <1>9
  <2> QED
    BY <1>1, <1>9, <2>1, RefusedIsOK
<1>10. CASE /\ page.next \notin {read.visited[i] : i \in DOMAIN read.visited}
            /\ page.next # Absent /\ after = read
  <2>1. page.next = k + 1 /\ k < Pages
    BY <1>2, <1>4, <1>5, <1>10
  <2> QED
    BY <1>1, <1>10, <2>1
<1> QED
  BY <1>2, <1>6, <1>7, <1>8, <1>9, <1>10, AfterPageCases

LEMMA SameSite ==
  ASSUME site' = site
  PROVE  /\ Count' = Count /\ Pages' = Pages /\ (SiteOK => SiteOK')
         /\ \A n : ListedBy(n)' = ListedBy(n)
BY DEF Count, Pages, SiteOK, ListedBy

(* The history only grows. *)
LEMMA PageHistory ==
  ASSUME CrawlOK, ReadListPage
  PROVE  \E page \in Answers(crawl.page) :
           /\ crawl' = AfterPage(crawl, crawl.page, page)
           /\ history' \in [rankings : Nat, faults : BOOLEAN, unread : BOOLEAN]
           /\ ~history'.faults => ~history.faults /\ page = Honest(crawl.page)
           /\ ~history'.unread =>
                ~history.unread /\ Len(page.rows) = Len(RowsOfPage(crawl.page))
<1>1. PICK page \in Answers(crawl.page) :
        /\ crawl' = AfterPage(crawl, crawl.page, page)
        /\ history' = [history EXCEPT
             !.faults = history.faults \/ page # Honest(crawl.page),
             !.unread = history.unread \/ Len(page.rows) # Len(RowsOfPage(crawl.page))]
  BY Zenon DEF ReadListPage
<1>2. history \in [rankings : Nat, faults : BOOLEAN, unread : BOOLEAN]
  BY DEF CrawlOK
<1> DEFINE f == history.faults \/ page # Honest(crawl.page)
           u == history.unread \/ Len(page.rows) # Len(RowsOfPage(crawl.page))
<1>3. f \in BOOLEAN /\ u \in BOOLEAN
  BY <1>2
<1>4. /\ ~f => ~history.faults /\ page = Honest(crawl.page)
      /\ ~u => ~history.unread /\ Len(page.rows) = Len(RowsOfPage(crawl.page))
  OBVIOUS
<1>5. history' = [history EXCEPT !.faults = f, !.unread = u]
  BY <1>1
<1> HIDE DEF f, u
<1>6. history' \in [rankings : Nat, faults : BOOLEAN, unread : BOOLEAN]
      /\ history'.faults = f /\ history'.unread = u
  BY <1>2, <1>3, <1>5
<1> QED
  BY <1>1, <1>4, <1>6

(* The pages are still read in order, and what can be read is in the list. *)
LEMMA PageKeepsOrder ==
  ASSUME ImportAssumption, ImportInv, ReadListPage
  PROVE  CrawlOK' /\ AllRowsRead' /\ ListIsWhole'
<1>1. PICK page \in Answers(crawl.page) :
        /\ crawl' = AfterPage(crawl, crawl.page, page)
        /\ history' \in [rankings : Nat, faults : BOOLEAN, unread : BOOLEAN]
        /\ ~history'.unread =>
             ~history.unread /\ Len(page.rows) = Len(RowsOfPage(crawl.page))
  BY PageHistory DEF ImportInv
<1>2. PICK k : k = crawl.page /\ page \in Answers(k) /\ crawl' = AfterPage(crawl, k, page)
  BY <1>1
<1>3. PICK read : read = WithPage(crawl, k, page)
  OBVIOUS
<1>4. SiteOK /\ CrawlOK /\ AllRowsRead /\ crawl.outcome = Undecided /\ site' = site
  BY DEF ImportInv, ReadListPage
<1>5. /\ k \in 1..Pages /\ k = PagesRead + 1 /\ read \in Crawls
      /\ read.visited = [i \in 1..k |-> i] /\ Len(read.visited) = k
      /\ read.entries = crawl.entries \o page.rows /\ read.entries \in Seq(Entries)
  <2>1. WithPageOK(read, k, page)
    BY <1>2, <1>3, <1>4, WithPageFacts
  <2> QED
    BY <2>1 DEF WithPageOK
<1>6. /\ crawl' \in Crawls
      /\ \/ /\ crawl'.visited = crawl.visited /\ crawl'.entries = crawl.entries
            /\ crawl'.total = crawl.total /\ crawl'.last = crawl.last
            /\ crawl'.outcome = "INCOMPLETE"
         \/ /\ crawl'.visited = read.visited /\ crawl'.entries = read.entries
            /\ crawl'.total = read.total /\ crawl'.last = read.last
            /\ \/ crawl'.outcome = "INCOMPLETE"
               \/ page.next = Absent /\ crawl'.outcome = Verdict(read)
               \/ crawl'.outcome = Undecided /\ crawl'.page = k + 1 /\ k < Pages
  BY <1>2, <1>3, <1>4, PageOutcome
<1>7. /\ PagesRead' = Len(crawl'.visited) /\ Pages' = Pages /\ Count' = Count
      /\ \A n : ListedBy(n)' = ListedBy(n)
  BY <1>4, SameSite DEF PagesRead
<1>8. /\ crawl \in Crawls /\ PagesRead \in Nat /\ PagesRead <= Pages /\ Pages \in Nat
      /\ crawl.visited = [i \in 1..PagesRead |-> i] /\ crawl.entries \in Seq(Entries)
  BY <1>4, SiteFacts DEF CrawlOK, Crawls, PagesRead
<1>9. CrawlOK'
  <2>1. crawl' \in Crawls'
    BY <1>6, <1>7 DEF Crawls, Entries
  <2>2. /\ crawl'.visited = [i \in 1..PagesRead' |-> i] /\ PagesRead' <= Pages
        /\ crawl'.outcome = Undecided => crawl'.page = PagesRead' + 1 /\ crawl'.page <= Pages
    <3>1. CASE crawl'.visited = crawl.visited /\ crawl'.outcome = "INCOMPLETE"
      BY <1>7, <1>8, <3>1 DEF Undecided, PagesRead
    <3>2. CASE /\ crawl'.visited = read.visited
               /\ \/ crawl'.outcome = "INCOMPLETE"
                  \/ page.next = Absent /\ crawl'.outcome = Verdict(read)
                  \/ crawl'.outcome = Undecided /\ crawl'.page = k + 1 /\ k < Pages
      <4>1. PagesRead' = k
        BY <1>5, <1>7, <3>2
      <4>2. crawl'.outcome = Undecided => crawl'.page = k + 1 /\ k < Pages
        BY <3>2, VerdictFacts DEF Undecided
      <4> QED
        BY <1>5, <1>8, <3>2, <4>1, <4>2
    <3> QED
      BY <1>6, <3>1, <3>2
  <2> QED
    BY <1>1, <1>7, <2>1, <2>2 DEF CrawlOK
<1>10. AllRowsRead'
  <2>1. SUFFICES ASSUME ~history'.unread PROVE Len(crawl'.entries) = ListedBy(PagesRead')
    BY <1>7 DEF AllRowsRead
  <2>2. Len(crawl.entries) = ListedBy(PagesRead) /\ Len(page.rows) = Len(RowsOfPage(k))
    BY <1>1, <1>2, <1>4, <2>1 DEF AllRowsRead
  <2>3. CASE crawl'.visited = crawl.visited /\ crawl'.entries = crawl.entries
    BY <1>7, <2>2, <2>3 DEF PagesRead
  <2>4. CASE crawl'.visited = read.visited /\ crawl'.entries = read.entries
    <3>1. Len(page.rows) = ListedBy(k) - ListedBy(k - 1)
      <4>1. PICK q : q = Rows(k, FALSE)
        OBVIOUS
      <4> QED
        BY <1>4, <1>5, <2>2, <4>1, RowsFacts
    <3>2. page.rows \in Seq(Entries)
      BY <1>1, <1>2, <1>4, <1>5, PageFacts DEF PageRecords
    <3>3. Len(read.entries) = Len(crawl.entries) + Len(page.rows)
      BY <1>5, <1>8, <3>2, ConcatProperties
    <3>4. k - 1 = PagesRead /\ PagesRead' = k
      BY <1>5, <1>7, <1>8, <2>4
    <3>5. ListedBy(k) \in Nat /\ ListedBy(k - 1) \in Nat
      BY <1>4, <1>5, ListedFacts
    <3> QED
      BY <2>2, <2>4, <3>1, <3>3, <3>4, <3>5
  <2> QED
    BY <1>6, <2>3, <2>4
<1>11. ListIsWhole'
  <2>1. SUFFICES ASSUME crawl'.outcome = "COMPLETE"
                 PROVE  \/ SpeciesOf(crawl'.entries) = Species
                        \/ history'.unread /\ crawl'.total = Absent
    BY DEF ListIsWhole
  <2>2. Verdict(read) = "COMPLETE" /\ crawl'.entries = read.entries /\ crawl'.total = read.total
        /\ crawl'.visited = read.visited
    BY <1>6, <2>1 DEF Undecided
  <2>3. /\ Cardinality(SpeciesOf(read.entries)) = Len(read.entries)
        /\ read.total \in {Absent, Len(read.entries)}
        /\ read.last # Absent => read.visited = [j \in 1..read.last |-> j]
        /\ read.total # Absent \/ read.last # Absent
    BY <2>2, VerdictFacts
  <2>4. read.total \in {Absent, Count} /\ read.last \in {Absent, Pages}
    BY <1>5 DEF Crawls
  <2>5. CASE Len(read.entries) = Count
    BY <1>5, <2>2, <2>3, <2>5, WholeBySize
  <2>6. CASE ~history'.unread /\ read.last = Pages /\ Pages # Absent
    <3>1. read.visited = [j \in 1..Pages |-> j]
      BY <2>3, <2>6
    <3>2. Len(read.visited) = Pages
      BY <1>8, <3>1
    <3>3. PagesRead' = Pages /\ Len(crawl'.entries) = ListedBy(Pages)
      BY <1>7, <1>10, <2>2, <2>6, <3>2 DEF AllRowsRead
    <3>4. ListedBy(Pages) = Count
      BY <1>4, <1>5, ListedFacts
    <3>5. Len(read.entries) = Count
      BY <2>2, <3>3, <3>4
    <3> QED
      BY <2>5, <3>5
  <2>7. CASE history'.unread /\ read.total = Absent
    BY <2>2, <2>7
  <2>8. history'.unread \in BOOLEAN
    BY <1>1
  <2>9. read.total # Absent => Len(read.entries) = Count
    BY <2>3, <2>4
  <2>10. read.total = Absent => read.last = Pages /\ Pages # Absent
    BY <2>3, <2>4
  <2> QED
    BY <2>5, <2>6, <2>7, <2>8, <2>9, <2>10
<1> QED
  BY <1>9, <1>10, <1>11

(* A list that is the ranking so far is so with the next page. *)
LEMMA HonestPageContinues ==
  ASSUME ImportAssumption, SiteOK, NEW k \in 1..Pages,
         NEW entries \in Seq(Entries), IsRanked(entries, k - 1),
         NEW rows, rows = Rows(k, site.ranks), NEW all, all = entries \o rows
  PROVE  IsRanked(all, k)
<1>1. PICK a \in Nat : a = ListedBy(k - 1)
  BY ListedFacts
<1>2. PICK b \in Nat : b = ListedBy(k)
  BY ListedFacts
<1>3. a < b
  BY <1>1, <1>2, ListedFacts
<1>4. site.ranks \in BOOLEAN
  BY DEF SiteOK
<1>5. /\ rows \in Seq(Entries) /\ Len(rows) = b - a
      /\ \A i \in 1..Len(rows) : rows[i] = RankedRow(a + i)
  <2>1. /\ rows \in Seq(Entries) /\ Len(rows) = ListedBy(k) - ListedBy(k - 1)
        /\ \A i \in 1..Len(rows) :
             rows[i] = [species |-> site.ranking[ListedBy(k - 1) + i],
                        rank |-> IF site.ranks THEN ListedBy(k - 1) + i ELSE Absent]
    BY <1>4, RowsFacts
  <2>2. \A i \in 1..Len(rows) : rows[i] = RankedRow(ListedBy(k - 1) + i)
    BY <2>1 DEF RankedRow
  <2> QED
    BY <1>1, <1>2, <2>1, <2>2
<1>6. /\ Len(all) = a + (b - a)
      /\ \A i \in 1..(a + (b - a)) : all[i] = IF i <= a THEN entries[i] ELSE rows[i - a]
  <2>1. entries \in Seq(Entries) /\ Len(entries) = a
    BY <1>1 DEF IsRanked
  <2>2. /\ Len(all) = Len(entries) + Len(rows)
        /\ \A i \in 1..(Len(entries) + Len(rows)) :
             all[i] = IF i <= Len(entries) THEN entries[i] ELSE rows[i - Len(entries)]
    BY <1>5, <2>1, ConcatProperties
  <2> QED
    BY <1>5, <2>1, <2>2
<1>7. Len(all) = b
  BY <1>3, <1>6
<1>8. ASSUME NEW i \in 1..b PROVE all[i] = RankedRow(i)
  <2>1. CASE i <= a
    BY <1>1, <1>3, <1>6, <2>1 DEF IsRanked
  <2>2. CASE i > a
    <3>1. i - a \in 1..(b - a) /\ a + (i - a) = i
      BY <1>3, <2>2
    <3>2. rows[i - a] = RankedRow(i)
      BY <1>5, <3>1
    <3>3. ~(i <= a) /\ i \in 1..(a + (b - a))
      BY <1>3, <2>2
    <3> QED
      BY <1>6, <3>2, <3>3
  <2>3. i <= a \/ i > a
    BY <1>8
  <2> QED
    BY <2>1, <2>2, <2>3
<1> QED
  BY <1>2, <1>7, <1>8 DEF IsRanked

(* The ranking itself is judged complete, if the site says how much it is. *)
LEMMA RankingIsComplete ==
  ASSUME ImportAssumption, SiteOK, NEW c, c.entries \in Seq(Entries),
         Len(c.entries) = Count, \A i \in 1..Count : c.entries[i] = RankedRow(i),
         c.total \in {Absent, Count}, c.last \in {Absent, Pages},
         c.visited = [j \in 1..Pages |-> j], c.total # Absent \/ c.last # Absent
  PROVE  Verdict(c) = "COMPLETE"
<1>1. PICK e \in Seq(Entries) : e = c.entries
  OBVIOUS
<1>2. DOMAIN e = 1..Count /\ \A i \in 1..Count : e[i] = RankedRow(i)
  <2>1. Len(e) = Count /\ DOMAIN e = 1..Len(e)
    BY <1>1
  <2>2. \A i \in 1..Count : e[i] = RankedRow(i)
    BY <1>1
  <2> QED
    BY <2>1, <2>2
<1>3. \A i \in 1..Count : e[i].species = site.ranking[i]
  BY <1>2 DEF RankedRow
<1>4. Cardinality(SpeciesOf(e)) = Count
  BY <1>2, <1>3, RankingIsWhole
<1>5. Count \in Nat \ {0}
  BY SiteFacts
<1>6. RanksAreContiguous(e)
  <2>1. PICK ranks : ranks = {e[i].rank : i \in 1..Count}
    OBVIOUS
  <2>2. \A i \in 1..Count : e[i].rank = IF site.ranks THEN i ELSE Absent
    <3>1. \A i : RankedRow(i).rank = IF site.ranks THEN i ELSE Absent
      BY DEF RankedRow
    <3> QED
      BY <1>2, <3>1
  <2>3. ranks = {Absent} \/ ranks = 1..Count
    <3>1. CASE site.ranks
      <4>1. \A i \in 1..Count : e[i].rank = i
        BY <2>2, <3>1
      <4>2. ranks = 1..Count
        BY <2>1, <4>1
      <4> QED
        BY <4>2
    <3>2. CASE ~site.ranks
      <4>1. \A i \in 1..Count : e[i].rank = Absent
        BY <2>2, <3>2
      <4>2. 1 \in 1..Count
        BY <1>5
      <4>3. ranks = {Absent}
        BY <2>1, <4>1, <4>2
      <4> QED
        BY <4>3
    <3> QED
      BY <3>1, <3>2
  <2> QED
    BY <1>1, <1>2, <2>1, <2>3 DEF RanksAreContiguous
<1> QED
  BY <1>1, <1>4, <1>6, VerdictFacts

LEMMA PageKeepsHonest ==
  ASSUME ImportAssumption, ImportInv, ReadListPage
  PROVE  ListIsHonest'
<1>1. PICK page \in Answers(crawl.page) :
        /\ crawl' = AfterPage(crawl, crawl.page, page)
        /\ ~history'.faults => ~history.faults /\ page = Honest(crawl.page)
  BY PageHistory DEF ImportInv
<1>2. PICK k : k = crawl.page /\ page \in Answers(k) /\ crawl' = AfterPage(crawl, k, page)
  BY <1>1
<1>3. PICK read : read = WithPage(crawl, k, page)
  OBVIOUS
<1>4. SiteOK /\ CrawlOK /\ ListIsHonest /\ crawl.outcome = Undecided /\ site' = site
  BY DEF ImportInv, ReadListPage
<1>5. /\ k \in 1..Pages /\ k = PagesRead + 1 /\ read \in Crawls
      /\ read.visited = [i \in 1..k |-> i] /\ Len(read.visited) = k
      /\ read.entries = crawl.entries \o page.rows
      /\ page.total = Absent => read.total = crawl.total
      /\ page.total # Absent => read.total = page.total
      /\ page.last = Absent => read.last = crawl.last
      /\ page.last # Absent => read.last = page.last
  <2>1. WithPageOK(read, k, page)
    BY <1>2, <1>3, <1>4, WithPageFacts
  <2> QED
    BY <2>1 DEF WithPageOK
<1>6. PICK after : after = crawl'
  OBVIOUS
<1>7. \/ ~page.wellFormed \/ page.rows = <<>>
      \/ /\ after.visited = read.visited /\ after.entries = read.entries
         /\ after.total = read.total /\ after.last = read.last
         /\ \/ /\ after.outcome = "INCOMPLETE"
               /\ \/ page.next = Absent /\ read.last # Absent /\ k < read.last
                  \/ page.next # Absent /\ (k >= MaxPages \/ page.next \in 1..k)
            \/ page.next = Absent /\ after.outcome = Verdict(read)
            \/ /\ after.outcome = Undecided /\ after.page = k + 1 /\ k < Pages
               /\ page.next = k + 1
  BY <1>2, <1>3, <1>4, <1>6, PageOutcome
<1>8. SUFFICES ASSUME ~history'.faults
      PROVE  /\ Len(after.entries) = ListedBy(k) /\ Len(after.visited) = k
             /\ \A i \in 1..Len(after.entries) : after.entries[i] = RankedRow(i)
             /\ after.total = (IF site.total THEN Count ELSE Absent)
             /\ after.last = (IF site.last THEN Pages ELSE Absent)
             /\ after.outcome = "COMPLETE" => k = Pages
             /\ (site.total \/ site.last) /\ Pages <= MaxPages =>
                  after.outcome \in {Undecided, "COMPLETE"}
  <2>1. k > 0
    BY <1>5
  <2>2. /\ PagesRead' = Len(crawl'.visited) /\ Pages' = Pages /\ Count' = Count
        /\ \A n : ListedBy(n)' = ListedBy(n)
    BY <1>4, SameSite DEF PagesRead
  <2>3. \A i : RankedRow(i)' = RankedRow(i)
    BY <1>4 DEF RankedRow
  <2> QED
    BY <1>4, <1>6, <2>1, <2>2, <2>3 DEF ListIsHonest, IsRanked
<1>9. /\ page.rows = Rows(k, site.ranks) /\ page.wellFormed = TRUE
      /\ page.next = (IF k < Pages THEN k + 1 ELSE Absent)
      /\ page.total = (IF site.total THEN Count ELSE Absent)
      /\ page.last = (IF site.last THEN Pages ELSE Absent)
  <2>1. page = Honest(k)
    BY <1>1, <1>2, <1>8
  <2> QED
    BY <1>4, <1>5, <2>1, HonestFacts
<1>10. /\ crawl.entries \in Seq(Entries) /\ Len(crawl.entries) = ListedBy(k - 1)
       /\ \A i \in 1..Len(crawl.entries) : crawl.entries[i] = RankedRow(i)
       /\ ~site.total => crawl.total = Absent
       /\ ~site.last => crawl.last = Absent
  <2>1. k - 1 = PagesRead /\ crawl.entries \in Seq(Entries)
    BY <1>4, <1>5 DEF CrawlOK, Crawls, PagesRead
  <2>2. ~history.faults
    BY <1>1, <1>8
  <2> QED
    BY <1>4, <2>1, <2>2 DEF ListIsHonest, IsRanked
<1>11. /\ Len(read.entries) = ListedBy(k)
       /\ \A i \in 1..Len(read.entries) : read.entries[i] = RankedRow(i)
  <2>1. PICK e \in Seq(Entries) : e = crawl.entries
    BY <1>10
  <2>2. PICK rows : rows = Rows(k, site.ranks)
    OBVIOUS
  <2>3. PICK all : all = e \o rows
    OBVIOUS
  <2>4. IsRanked(e, k - 1)
    BY <1>10, <2>1 DEF IsRanked
  <2>5. IsRanked(all, k)
    BY <1>4, <1>5, <2>2, <2>3, <2>4, HonestPageContinues
  <2>6. read.entries = all
    BY <1>5, <1>9, <2>1, <2>2, <2>3
  <2> QED
    BY <2>5, <2>6 DEF IsRanked
<1>12. page.rows # <<>>
  <2>1. site.ranks \in BOOLEAN
    BY <1>4 DEF SiteOK
  <2>2. Len(page.rows) = ListedBy(k) - ListedBy(k - 1)
    BY <1>4, <1>5, <1>9, <2>1, RowsFacts
  <2>3. Len(page.rows) # 0
    BY <1>4, <1>5, <2>2, ListedFacts
  <2> QED
    BY <2>3
<1>13. /\ after.visited = read.visited /\ after.entries = read.entries
       /\ after.total = read.total /\ after.last = read.last
       /\ \/ /\ after.outcome = "INCOMPLETE"
             /\ \/ page.next = Absent /\ read.last # Absent /\ k < read.last
                \/ page.next # Absent /\ (k >= MaxPages \/ page.next \in 1..k)
          \/ page.next = Absent /\ after.outcome = Verdict(read)
          \/ after.outcome = Undecided /\ page.next = k + 1 /\ k < Pages
  BY <1>7, <1>9, <1>12
<1>14. Count \in Nat \ {0} /\ Pages \in Nat \ {0} /\ k \in Nat \ {0} /\ k <= Pages
       /\ MaxPages \in Nat
  BY <1>4, <1>5, SiteFacts DEF ImportAssumption
<1>15. /\ read.total = (IF site.total THEN Count ELSE Absent)
       /\ read.last = (IF site.last THEN Pages ELSE Absent)
  BY <1>5, <1>9, <1>10, <1>14 DEF Absent
<1>16. page.next = Absent => k = Pages
  BY <1>9, <1>14 DEF Absent
<1>17. after.outcome = "COMPLETE" => k = Pages
  BY <1>13, <1>16 DEF Undecided
<1>18. ASSUME site.total \/ site.last, Pages <= MaxPages
       PROVE  after.outcome \in {Undecided, "COMPLETE"}
  <2>1. ~(page.next = Absent /\ read.last # Absent /\ k < read.last)
    BY <1>14, <1>15, <1>16 DEF Absent
  <2>2. ~(page.next # Absent /\ (k >= MaxPages \/ page.next \in 1..k))
    BY <1>9, <1>14, <1>18 DEF Absent
  <2>3. CASE page.next = Absent /\ after.outcome = Verdict(read)
    <3>1. k = Pages /\ ListedBy(k) = Count
      BY <1>4, <1>5, <1>16, <2>3, ListedFacts
    <3>2. /\ Len(read.entries) = Count /\ read.visited = [j \in 1..Pages |-> j]
          /\ \A i \in 1..Count : read.entries[i] = RankedRow(i)
      BY <1>5, <1>11, <3>1
    <3>3. /\ read.entries \in Seq(Entries) /\ read.total \in {Absent, Count}
          /\ read.last \in {Absent, Pages}
      BY <1>5 DEF Crawls
    <3>4. read.total # Absent \/ read.last # Absent
      BY <1>14, <1>15, <1>18 DEF Absent
    <3>5. Verdict(read) = "COMPLETE"
      BY <1>4, <3>2, <3>3, <3>4, RankingIsComplete
    <3> QED
      BY <2>3, <3>5
  <2> QED
    BY <1>13, <2>1, <2>2, <2>3
<1> QED
  BY <1>5, <1>11, <1>13, <1>15, <1>17, <1>18

----------------------------------------------------------------------------
(***************************************************************************)
(* The other steps, as far as they concern the list.                       *)
(***************************************************************************)
LEMMA ListStays ==
  ASSUME ImportInv, UNCHANGED <<site, crawl>>,
         history' \in [rankings : Nat, faults : BOOLEAN, unread : BOOLEAN],
         history'.unread = history.unread, ~history'.faults => ~history.faults
  PROVE  SiteOK' /\ CrawlOK' /\ AllRowsRead' /\ ListIsWhole' /\ ListIsHonest'
<1>1. /\ Count' = Count /\ Pages' = Pages /\ SiteOK' /\ PagesRead' = PagesRead
      /\ \A n : ListedBy(n)' = ListedBy(n) /\ RankedRow(n)' = RankedRow(n)
  BY SameSite DEF ImportInv, PagesRead, RankedRow
<1>2. CrawlOK'
  BY <1>1 DEF ImportInv, CrawlOK, Crawls, Entries
<1>3. AllRowsRead'
  BY <1>1 DEF ImportInv, AllRowsRead
<1>4. ListIsWhole'
  BY DEF ImportInv, ListIsWhole
<1>5. ListIsHonest'
  BY <1>1 DEF ImportInv, ListIsHonest, IsRanked
<1> QED
  BY <1>1, <1>2, <1>3, <1>4, <1>5

(* A step that notes a fault. *)
LEMMA FaultNoted ==
  ASSUME CrawlOK, history' = [history EXCEPT !.faults = TRUE]
  PROVE  /\ history' \in [rankings : Nat, faults : BOOLEAN, unread : BOOLEAN]
         /\ history'.unread = history.unread /\ history'.faults = TRUE
BY DEF CrawlOK

LEMMA PageFails ==
  ASSUME ImportAssumption, ImportInv, FailListPage
  PROVE  SiteOK' /\ CrawlOK' /\ AllRowsRead' /\ ListIsWhole' /\ ListIsHonest'
<1>1. site' = site /\ crawl.outcome = Undecided /\ crawl' = Refused(crawl)
      /\ history' = [history EXCEPT !.faults = TRUE]
  BY DEF FailListPage, Refused
<1>2. crawl \in Crawls /\ SiteOK /\ CrawlOK
  BY DEF ImportInv, CrawlOK
<1>3. /\ crawl' \in Crawls /\ crawl'.outcome = "INCOMPLETE" /\ crawl'.visited = crawl.visited
      /\ crawl'.entries = crawl.entries
  BY <1>1, <1>2, RefusedIsOK
<1>4. /\ history' \in [rankings : Nat, faults : BOOLEAN, unread : BOOLEAN]
      /\ history'.unread = history.unread /\ history'.faults = TRUE
  BY <1>1, <1>2, FaultNoted
<1>5. /\ Count' = Count /\ Pages' = Pages /\ SiteOK' /\ PagesRead' = PagesRead
      /\ \A n : ListedBy(n)' = ListedBy(n)
  BY <1>1, <1>2, <1>3, SameSite DEF PagesRead
<1>6. crawl' \in Crawls'
  BY <1>3, <1>5 DEF Crawls, Entries
<1>7. CrawlOK'
  BY <1>2, <1>3, <1>4, <1>5, <1>6 DEF CrawlOK, Undecided
<1>8. AllRowsRead'
  BY <1>3, <1>4, <1>5 DEF ImportInv, AllRowsRead
<1>9. ListIsWhole' /\ ListIsHonest'
  BY <1>3, <1>4 DEF ListIsWhole, ListIsHonest
<1> QED
  BY <1>5, <1>7, <1>8, <1>9

LEMMA RankingChanges ==
  ASSUME ImportAssumption, ImportInv, RankAnew
  PROVE  SiteOK' /\ CrawlOK' /\ AllRowsRead' /\ ListIsWhole' /\ ListIsHonest'
<1>1. PICK i \in 1..Count, j \in 1..Count :
        i < j /\ site' = [site EXCEPT !.ranking =
                            [@ EXCEPT ![i] = site.ranking[j], ![j] = site.ranking[i]]]
  BY DEF RankAnew
<1>2. PICK r : r = [site.ranking EXCEPT ![i] = site.ranking[j], ![j] = site.ranking[i]]
  OBVIOUS
<1>3. site' = [site EXCEPT !.ranking = r]
  BY <1>1, <1>2
<1>4. /\ SiteOK /\ CrawlOK /\ UNCHANGED crawl
      /\ history' = [history EXCEPT !.rankings = @ + 1, !.faults = TRUE]
  BY DEF ImportInv, RankAnew
<1>5. Count \in Nat /\ Count' = Count
  BY <1>4, SiteFacts DEF Count
<1>6. PICK f \in [1..Count -> Species] :
        f = site.ranking /\ \A a, b \in 1..Count : f[a] = f[b] => a = b
  BY <1>4 DEF SiteOK
<1>7. /\ r \in [1..Count -> Species] /\ r[i] = f[j] /\ r[j] = f[i]
      /\ \A a \in (1..Count) \ {i, j} : r[a] = f[a]
  BY <1>1, <1>2, <1>5, <1>6
<1>8. \A a, b \in 1..Count : r[a] = r[b] => a = b
  BY <1>1, <1>6, <1>7
<1>9. site' \in [total : BOOLEAN, last : BOOLEAN, ranks : BOOLEAN, size : 1..Count,
                 ranking : [1..Count -> Species]]
      /\ site'.ranking = r /\ site'.size = site.size
  BY <1>3, <1>4, <1>7 DEF SiteOK
<1>10. SiteOK'
  BY <1>5, <1>8, <1>9 DEF SiteOK
<1>11. /\ Pages' = Pages /\ PagesRead' = PagesRead /\ \A n : ListedBy(n)' = ListedBy(n)
  BY <1>4, <1>5, <1>9 DEF Pages, PagesRead, ListedBy
<1>12. /\ history' \in [rankings : Nat, faults : BOOLEAN, unread : BOOLEAN]
       /\ history'.unread = history.unread /\ history'.faults = TRUE
  <2>1. history \in [rankings : Nat, faults : BOOLEAN, unread : BOOLEAN]
    BY <1>4 DEF CrawlOK
  <2>2. history.rankings + 1 \in Nat
    BY <2>1
  <2> QED
    BY <1>4, <2>1, <2>2
<1>13. CrawlOK' /\ AllRowsRead'
  BY <1>4, <1>5, <1>11, <1>12 DEF ImportInv, CrawlOK, Crawls, Entries, AllRowsRead
<1>14. ListIsWhole' /\ ListIsHonest'
  BY <1>4, <1>12 DEF ImportInv, ListIsWhole, ListIsHonest
<1> QED
  BY <1>10, <1>13, <1>14

----------------------------------------------------------------------------
(***************************************************************************)
(* The species of the list.                                                *)
(***************************************************************************)
TheImport == [stubs |-> import.stubs, records |-> import.records, failed |-> import.failed,
              step |-> import.step]

LEMMA SpeciesIsAdded ==
  ASSUME NEW f, NEW s, NEW r, NEW g, g = WithRecord(f, s, r)
  PROVE  DOMAIN g = DOMAIN f \cup {s}
BY DEF WithRecord

LEMMA DetailsStay ==
  ASSUME DetailsOK, HonestImportIsPublished, UNCHANGED <<import, filter, published>>,
         import.step = "list" \/ UNCHANGED crawl, UNCHANGED <<site>> \/ history'.faults,
         ~history'.faults => ~history.faults
  PROVE  DetailsOK' /\ HonestImportIsPublished'
<1>1. HonestImportIsPublished'
  BY DEF HonestImportIsPublished, Pages, Count
<1>2. CASE import.step = "list"
  BY <1>1, <1>2 DEF DetailsOK
<1>3. CASE UNCHANGED crawl
  <2>1. Wanted' = Wanted /\ \A P : SpeciesAt(P)' = SpeciesAt(P)
    BY <1>3 DEF Wanted, SpeciesAt
  <2>2. (SpeciesAt(import.stubs))' = SpeciesAt(import.stubs)
        /\ (SpeciesAt(Wanted))' = SpeciesAt(Wanted)
    BY <1>3 DEF Wanted, SpeciesAt
  <2> QED
    BY <1>1, <2>1, <2>2 DEF DetailsOK
<1> QED
  BY <1>2, <1>3

LEMMA NextStubFacts ==
  ASSUME ImportInv, import.step = "details", import.stubs # {}
  PROVE  NextStub \in import.stubs /\ NextStub \in Wanted
<1>1. import.stubs \subseteq Wanted /\ Wanted \subseteq DOMAIN crawl.entries
  BY DEF ImportInv, DetailsOK, Wanted
<1>2. DOMAIN crawl.entries = 1..Len(crawl.entries) /\ Len(crawl.entries) \in Nat
  BY DEF ImportInv, CrawlOK, Crawls
<1>3. import.stubs \subseteq Nat
  BY <1>1, <1>2
<1>4. \E x \in import.stubs : \A y \in import.stubs : x <= y
  BY <1>3, SmallestOf
<1> QED
  BY <1>1, <1>4 DEF NextStub, Min

(* What is wanted is asked for. *)
LEMMA DetailsBegin ==
  ASSUME ImportAssumption, ImportInv, BeginDetails
  PROVE  DetailsOK' /\ HonestImportIsPublished'
<1>1. /\ import.step = "list" /\ crawl.outcome # Undecided
      /\ import' = IF crawl.outcome = "COMPLETE" /\ Wanted # {}
                   THEN [import EXCEPT !.stubs = Wanted, !.step = "details"]
                   ELSE [import EXCEPT !.step = "refused"]
      /\ UNCHANGED <<site, crawl, filter, published, history>>
  BY DEF BeginDetails, Wanted
<1>2. /\ import = TheImport /\ import.stubs = {} /\ import.failed = {} /\ DOMAIN import.records = {}
      /\ filter = {} \/ \E s \in Species : filter = {s}
      /\ published = {}
  BY <1>1 DEF ImportInv, DetailsOK, TheImport
<1>3. /\ (SpeciesAt(Wanted))' = SpeciesAt(Wanted) /\ Wanted' = Wanted
      /\ Pages' = Pages
  BY <1>1 DEF SpeciesAt, Wanted, Pages, Count
<1>4. CASE crawl.outcome = "COMPLETE" /\ Wanted # {}
  <2>1. /\ import'.stubs = Wanted /\ import'.step = "details"
        /\ import'.records = import.records /\ import'.failed = {}
        /\ import' = TheImport'
    BY <1>1, <1>2, <1>4 DEF TheImport
  <2>2. (SpeciesAt(import.stubs))' = SpeciesAt(Wanted)
    BY <1>1, <2>1 DEF SpeciesAt
  <2>3. DetailsOK'
    BY <1>1, <1>2, <1>3, <1>4, <2>1, <2>2 DEF DetailsOK, TheImport
  <2> QED
    BY <2>1, <2>3 DEF HonestImportIsPublished
<1>5. CASE ~(crawl.outcome = "COMPLETE" /\ Wanted # {})
  <2>1. /\ import'.step = "refused" /\ import'.stubs = {} /\ import'.failed = {}
        /\ import' = TheImport'
    BY <1>1, <1>2, <1>5 DEF TheImport
  <2>2. DetailsOK'
    BY <1>1, <1>2, <2>1 DEF DetailsOK, TheImport
  <2>3. ~(~history.faults /\ (site.total \/ site.last) /\ Pages <= MaxPages)
    <3>1. SUFFICES ASSUME ~history.faults, site.total \/ site.last, Pages <= MaxPages
                   PROVE  crawl.outcome = "COMPLETE" /\ Wanted # {}
      BY <1>5
    <3>2. SiteOK /\ CrawlOK /\ ListIsHonest
      BY DEF ImportInv
    <3>3. crawl.outcome = "COMPLETE" /\ PagesRead = Pages /\ IsRanked(crawl.entries, PagesRead)
      BY <1>1, <3>1, <3>2 DEF ListIsHonest
    <3>4. ListedBy(Pages) = Count /\ Count \in Nat \ {0}
      <4>1. Pages \in Nat \ {0} /\ Count \in Nat \ {0}
        BY <3>2, SiteFacts
      <4>2. Pages \in 1..Pages
        BY <4>1
      <4> QED
        BY <3>2, <4>1, <4>2, ListedFacts
    <3>5. PICK e \in Seq(Entries) : e = crawl.entries
      BY <3>2 DEF CrawlOK, Crawls
    <3>6. DOMAIN e = 1..Count /\ \A i \in 1..Count : e[i] = RankedRow(i)
      <4>1. Len(e) = Count /\ DOMAIN e = 1..Len(e)
        BY <3>3, <3>4, <3>5 DEF IsRanked
      <4> QED
        BY <3>3, <3>5, <4>1 DEF IsRanked
    <3>7. \A i \in 1..Count : e[i].species = site.ranking[i]
      BY <3>6 DEF RankedRow
    <3>8. SpeciesOf(e) = Species
      BY <3>2, <3>6, <3>7, RankingIsWhole
    <3>9. CASE filter = {}
      <4>1. 1 \in DOMAIN e
        BY <3>4, <3>6
      <4> QED
        BY <3>3, <3>5, <3>9, <4>1 DEF Wanted
    <3>10. CASE \E s \in Species : filter = {s}
      <4>1. PICK s \in Species : filter = {s}
        BY <3>10
      <4>2. PICK i \in DOMAIN e : e[i].species = s
        BY <3>8, <4>1 DEF SpeciesOf
      <4> QED
        BY <3>3, <3>5, <4>1, <4>2 DEF Wanted
    <3> QED
      BY <1>2, <3>9, <3>10
  <2> QED
    BY <1>1, <1>3, <2>2, <2>3 DEF HonestImportIsPublished
<1> QED
  BY <1>4, <1>5

(* A species that was asked for is in the records or among the failed.     *)
LEMMA StubIsTaken ==
  ASSUME ImportAssumption, ImportInv, import.step = "details", import.stubs # {},
         UNCHANGED <<site, crawl, filter, published>>,
         NEW s, s = crawl.entries[NextStub].species,
         import' = TheImport', import'.step = "details",
         import'.stubs = import.stubs \ {NextStub},
         \/ /\ DOMAIN import'.records = DOMAIN import.records \cup {s}
            /\ import'.failed = import.failed
            /\ ~history'.faults => ~history.faults
         \/ /\ import'.records = import.records
            /\ import'.failed = import.failed \cup {s}
            /\ history'.faults
  PROVE  DetailsOK' /\ HonestImportIsPublished'
<1>1. NextStub \in import.stubs /\ NextStub \in Wanted
  BY NextStubFacts
<1>2. /\ crawl.outcome = "COMPLETE" /\ import.stubs \subseteq Wanted
      /\ DOMAIN import.records \cup import.failed \cup SpeciesAt(import.stubs) = SpeciesAt(Wanted)
      /\ published = {} /\ (~history.faults => import.failed = {})
      /\ filter = {} \/ \E t \in Species : filter = {t}
  BY DEF ImportInv, DetailsOK
<1>3. (SpeciesAt(Wanted))' = SpeciesAt(Wanted) /\ Wanted' = Wanted
  BY DEF SpeciesAt, Wanted
<1>4. SpeciesAt(import.stubs) = (SpeciesAt(import.stubs))' \cup {s}
  <2>1. (SpeciesAt(import.stubs))' = {crawl.entries[i].species : i \in import.stubs \ {NextStub}}
    BY DEF SpeciesAt
  <2> QED
    BY <1>1, <2>1 DEF SpeciesAt
<1>5. DOMAIN import'.records \cup import'.failed \cup (SpeciesAt(import.stubs))'
        = SpeciesAt(Wanted)
  <2>1. DOMAIN import'.records \cup import'.failed
          = (DOMAIN import.records \cup import.failed) \cup {s}
    OBVIOUS
  <2> QED
    BY <1>2, <1>4, <2>1
<1>6. import'.stubs \subseteq Wanted
  BY <1>2
<1>7. ~history'.faults => import'.failed = {}
  BY <1>2
<1>8. DetailsOK'
  BY <1>2, <1>3, <1>5, <1>6, <1>7 DEF DetailsOK, TheImport
<1> QED
  BY <1>8 DEF HonestImportIsPublished

LEMMA DetailIsRead ==
  ASSUME ImportAssumption, ImportInv, ReadDetail
  PROVE  /\ DetailsOK' /\ HonestImportIsPublished'
         /\ history' \in [rankings : Nat, faults : BOOLEAN, unread : BOOLEAN]
         /\ history'.unread = history.unread /\ (~history'.faults => ~history.faults)
<1>1. PICK s : s = crawl.entries[NextStub].species
  OBVIOUS
<1>2. PICK page \in Page :
       /\ import' = [import EXCEPT
            !.stubs = import.stubs \ {NextStub},
            !.records = IF Readable(page) THEN WithRecord(import.records, s, RecordOf(page))
                                          ELSE import.records,
            !.failed = IF Readable(page) THEN import.failed ELSE import.failed \cup {s}]
       /\ history' = [history EXCEPT !.faults = history.faults \/ ~Readable(page)]
  BY <1>1, Zenon DEF ReadDetail
<1>3. /\ import.step = "details" /\ import.stubs # {} /\ import = TheImport
      /\ history \in [rankings : Nat, faults : BOOLEAN, unread : BOOLEAN]
      /\ UNCHANGED <<site, crawl, filter, published>>
  BY DEF ReadDetail, ImportInv, DetailsOK, TheImport, CrawlOK
<1> DEFINE f == history.faults \/ ~Readable(page)
<1>4. f \in BOOLEAN /\ history' = [history EXCEPT !.faults = f]
  BY <1>2, <1>3
<1>5. (~f => ~history.faults) /\ (~Readable(page) => f)
  OBVIOUS
<1> HIDE DEF f
<1>6. /\ history' \in [rankings : Nat, faults : BOOLEAN, unread : BOOLEAN]
      /\ history'.unread = history.unread /\ history'.faults = f
  BY <1>3, <1>4
<1>7. PICK r : r = WithRecord(import.records, s, RecordOf(page))
  OBVIOUS
<1>8. DOMAIN r = DOMAIN import.records \cup {s}
  BY <1>7, SpeciesIsAdded
<1>9. /\ import' = TheImport' /\ import'.step = "details"
      /\ import'.stubs = import.stubs \ {NextStub}
      /\ import'.records = (IF Readable(page) THEN r ELSE import.records)
      /\ import'.failed = (IF Readable(page) THEN import.failed ELSE import.failed \cup {s})
  BY <1>2, <1>3, <1>7 DEF TheImport
<1>10. \/ /\ DOMAIN import'.records = DOMAIN import.records \cup {s}
          /\ import'.failed = import.failed
          /\ ~history'.faults => ~history.faults
       \/ /\ import'.records = import.records
          /\ import'.failed = import.failed \cup {s}
          /\ history'.faults
  <2>1. CASE Readable(page)
    BY <1>5, <1>6, <1>8, <1>9, <2>1
  <2>2. CASE ~Readable(page)
    BY <1>5, <1>6, <1>9, <2>2
  <2> QED
    BY <2>1, <2>2
<1>11. DetailsOK' /\ HonestImportIsPublished'
  BY <1>1, <1>3, <1>9, <1>10, StubIsTaken
<1> QED
  BY <1>5, <1>6, <1>11

LEMMA DetailFails ==
  ASSUME ImportAssumption, ImportInv, FailDetail
  PROVE  DetailsOK' /\ HonestImportIsPublished'
<1>1. PICK s : s = crawl.entries[NextStub].species
  OBVIOUS
<1>2. /\ import' = [import EXCEPT !.stubs = import.stubs \ {NextStub},
                                  !.failed = import.failed \cup {s}]
      /\ import.step = "details" /\ import.stubs # {} /\ import = TheImport
      /\ UNCHANGED <<site, crawl, filter, published>>
  BY <1>1 DEF FailDetail, ImportInv, DetailsOK, TheImport
<1>3. history' = [history EXCEPT !.faults = TRUE] /\ CrawlOK
  BY DEF FailDetail, ImportInv
<1>4. history'.faults
  BY <1>3, FaultNoted
<1>5. /\ import' = TheImport' /\ import'.step = "details"
      /\ import'.stubs = import.stubs \ {NextStub} /\ import'.records = import.records
      /\ import'.failed = import.failed \cup {s}
  BY <1>2 DEF TheImport
<1> QED
  BY <1>1, <1>2, <1>4, <1>5, StubIsTaken

(* The later steps leave what was fetched. *)
LEMMA RecordsStay ==
  ASSUME ImportInv, UNCHANGED <<site, crawl, filter>>, import' = TheImport',
         import.step \in {"details", "supplement", "commit"},
         import'.step \in {"supplement", "commit", "done", "refused"},
         import'.stubs = import.stubs, import'.failed = import.failed,
         DOMAIN import'.records = DOMAIN import.records,
         import'.step # "refused" => import.failed = {} /\ import.stubs = {},
         import'.step = "refused" => history'.faults,
         ~history'.faults => ~history.faults,
         published' = IF import'.step = "done" THEN DOMAIN import.records ELSE published
  PROVE  DetailsOK' /\ HonestImportIsPublished'
<1>1. /\ (SpeciesAt(Wanted))' = SpeciesAt(Wanted) /\ Wanted' = Wanted
      /\ (SpeciesAt(import.stubs))' = SpeciesAt(import.stubs)
  BY DEF SpeciesAt, Wanted
<1>2. DetailsOK'
  BY <1>1 DEF ImportInv, DetailsOK, TheImport
<1> QED
  BY <1>2 DEF HonestImportIsPublished

LEMMA DetailsEnd ==
  ASSUME ImportInv, EndDetails
  PROVE  DetailsOK' /\ HonestImportIsPublished'
<1>1. /\ import.step = "details" /\ import.stubs = {}
      /\ import' = [import EXCEPT
           !.step = IF import.failed # {} THEN "refused" ELSE "supplement"]
      /\ UNCHANGED <<site, crawl, filter, published, history>>
  BY DEF EndDetails
<1>2. import = TheImport /\ (~history.faults => import.failed = {})
      /\ history \in [rankings : Nat, faults : BOOLEAN, unread : BOOLEAN]
  BY DEF ImportInv, DetailsOK, TheImport, CrawlOK
<1>3. /\ import' = TheImport' /\ import'.stubs = import.stubs /\ import'.failed = import.failed
      /\ import'.records = import.records
      /\ import'.step = (IF import.failed # {} THEN "refused" ELSE "supplement")
  BY <1>1, <1>2 DEF TheImport
<1>4. import'.step = "refused" => history'.faults
  BY <1>1, <1>2, <1>3
<1> QED
  BY <1>1, <1>3, <1>4, RecordsStay

LEMMA SupplementRead ==
  ASSUME ImportInv, Supplement
  PROVE  DetailsOK' /\ HonestImportIsPublished'
<1>1. PICK answered \in SUBSET Gaps :
        import' = [import EXCEPT !.step = "commit", !.records =
          [d \in DOMAIN import.records |->
             IF d \in answered THEN [import.records[d] EXCEPT !["natures"] = "secondary"]
             ELSE import.records[d]]]
  BY DEF Supplement
<1>2. PICK r : r = [d \in DOMAIN import.records |->
             IF d \in answered THEN [import.records[d] EXCEPT !["natures"] = "secondary"]
             ELSE import.records[d]]
  OBVIOUS
<1>3. DOMAIN r = DOMAIN import.records
  BY <1>2
<1>4. /\ import.step = "supplement" /\ UNCHANGED <<site, crawl, filter, published, history>>
      /\ import = TheImport /\ import.failed = {} /\ import.stubs = {}
  BY DEF Supplement, ImportInv, DetailsOK, TheImport
<1>5. import' = [import EXCEPT !.step = "commit", !.records = r]
  BY <1>1, <1>2
<1>6. /\ import' = TheImport' /\ import'.stubs = import.stubs /\ import'.failed = import.failed
      /\ import'.records = r /\ import'.step = "commit"
  BY <1>4, <1>5 DEF TheImport
<1> QED
  BY <1>3, <1>4, <1>6, RecordsStay

LEMMA SupplementBreaks ==
  ASSUME ImportInv, BreakSupplement
  PROVE  DetailsOK' /\ HonestImportIsPublished'
<1>1. /\ import.step = "supplement" /\ UNCHANGED <<site, crawl, filter, published>>
      /\ import' = [import EXCEPT !.step = "refused"] /\ import = TheImport
      /\ history' = [history EXCEPT !.faults = TRUE] /\ CrawlOK
  BY DEF BreakSupplement, ImportInv, DetailsOK, TheImport
<1>2. history'.faults
  BY <1>1, FaultNoted
<1>3. /\ import' = TheImport' /\ import'.stubs = import.stubs /\ import'.failed = import.failed
      /\ import'.records = import.records /\ import'.step = "refused"
  BY <1>1 DEF TheImport
<1> QED
  BY <1>1, <1>2, <1>3, RecordsStay

LEMMA ImportPublished ==
  ASSUME ImportInv, Publish
  PROVE  DetailsOK' /\ HonestImportIsPublished'
<1>1. /\ import.step = "commit" /\ UNCHANGED <<site, crawl, filter, history>>
      /\ import' = [import EXCEPT !.step = "done"] /\ import = TheImport
      /\ published' = DOMAIN import.records /\ import.failed = {} /\ import.stubs = {}
  BY DEF Publish, ImportInv, DetailsOK, TheImport
<1>2. /\ import' = TheImport' /\ import'.stubs = import.stubs /\ import'.failed = import.failed
      /\ import'.records = import.records /\ import'.step = "done"
  BY <1>1 DEF TheImport
<1> QED
  BY <1>1, <1>2, RecordsStay

LEMMA RobotsRead ==
  ASSUME ImportInv, NEW d \in Sites, ReadRobots(d)
  PROVE  /\ history' \in [rankings : Nat, faults : BOOLEAN, unread : BOOLEAN]
         /\ history'.unread = history.unread /\ (~history'.faults => ~history.faults)
<1>1. PICK answer \in {"ALLOWED", "BLOCKED"} :
        history' = [history EXCEPT !.faults = history.faults \/ answer = "BLOCKED"]
  BY Zenon DEF ReadRobots
<1>2. history \in [rankings : Nat, faults : BOOLEAN, unread : BOOLEAN]
  BY DEF ImportInv, CrawlOK
<1> DEFINE f == history.faults \/ answer = "BLOCKED"
<1>3. f \in BOOLEAN /\ (~f => ~history.faults) /\ history' = [history EXCEPT !.faults = f]
  BY <1>1, <1>2
<1> HIDE DEF f
<1>4. /\ history' \in [rankings : Nat, faults : BOOLEAN, unread : BOOLEAN]
      /\ history'.unread = history.unread /\ history'.faults = f
  BY <1>2, <1>3
<1> QED
  BY <1>3, <1>4

----------------------------------------------------------------------------
LEMMA ImportInitially == ImportAssumption /\ ImportInit => ImportInv
<1> SUFFICES ASSUME ImportAssumption, ImportInit PROVE ImportInv
  OBVIOUS
<1>1. PICK r : r = SetToSeq(Species)
  OBVIOUS
<1>2. r \in [1..Count -> Species] /\ \A i, j \in 1..Count : r[i] = r[j] => i = j
  <2>1. \E f \in [1..Count -> Species] : IsInjective(f)
    <3>1. ExistsBijection(1..Count, Species)
      BY FS_CardinalityType DEF ImportAssumption, Count
    <3> QED
      BY <3>1 DEF ExistsBijection, Bijection, Injection
  <2>2. r \in [1..Count -> Species] /\ IsInjective(r)
    BY <1>1, <2>1 DEF SetToSeq, Count
  <2> QED
    BY <2>2 DEF IsInjective
<1>3. SiteOK
  BY <1>1, <1>2 DEF ImportInit, SiteOK
<1>4. Pages \in Nat \ {0} /\ Count \in Nat \ {0}
  BY <1>3, SiteFacts
<1>5. ListedBy(0) = 0
  <2>1. 1 \in 1..Pages
    BY <1>4
  <2> QED
    BY <1>3, <2>1, ListedFacts
<1>6. crawl = [page |-> 1, visited |-> <<>>, entries |-> <<>>, total |-> Absent,
               last |-> Absent, outcome |-> Undecided]
      /\ history = [rankings |-> 0, faults |-> FALSE, unread |-> FALSE]
  BY DEF ImportInit
<1>7. PagesRead = 0 /\ Len(crawl.entries) = 0
  BY <1>6 DEF PagesRead
<1>8. crawl \in Crawls
  BY <1>6 DEF Crawls, Absent, Undecided, Outcome
<1>9. crawl.visited = [k \in 1..PagesRead |-> k]
  BY <1>6, <1>7
<1>10. CrawlOK
  BY <1>4, <1>6, <1>7, <1>8, <1>9 DEF CrawlOK
<1>11. AllRowsRead
  BY <1>5, <1>7 DEF AllRowsRead
<1>12. ListIsWhole
  BY <1>6 DEF ListIsWhole, Undecided
<1>13. ListIsHonest
  <2>1. IsRanked(crawl.entries, PagesRead)
    BY <1>5, <1>7 DEF IsRanked
  <2> QED
    BY <1>6, <1>7, <2>1 DEF ListIsHonest, Undecided
<1>14. DetailsOK /\ HonestImportIsPublished
  BY DEF ImportInit, DetailsOK, HonestImportIsPublished
<1> QED
  BY <1>3, <1>10, <1>11, <1>12, <1>13, <1>14 DEF ImportInv

LEMMA ImportStep ==
  ASSUME ImportAssumption, ImportInv, [ImportNext]_importVars
  PROVE  ImportInv'
<1> DEFINE Histories == [rankings : Nat, faults : BOOLEAN, unread : BOOLEAN]
<1>0. DetailsOK /\ HonestImportIsPublished /\ CrawlOK /\ history \in Histories
  BY DEF ImportInv, CrawlOK
<1>1. CASE RankAnew
  <2>1. /\ UNCHANGED <<crawl, import, filter, published>>
        /\ history' = [history EXCEPT !.rankings = @ + 1, !.faults = TRUE]
    BY <1>1 DEF RankAnew
  <2>2. history'.faults
    BY <1>0, <2>1
  <2> QED
    BY <1>0, <1>1, <2>1, <2>2, RankingChanges, DetailsStay DEF ImportInv
<1>2. CASE \E d \in Sites : ReadRobots(d)
  <2>1. PICK d \in Sites : ReadRobots(d)
    BY <1>2
  <2>2. UNCHANGED <<site, crawl, import, filter, published>>
    BY <2>1 DEF ReadRobots
  <2> QED
    BY <1>0, <2>1, <2>2, RobotsRead, ListStays, DetailsStay DEF ImportInv
<1>3. CASE ReadListPage
  <2>1. UNCHANGED <<site, import, filter, published>> /\ import.step = "list"
    BY <1>3 DEF ReadListPage
  <2>2. ~history'.faults => ~history.faults
    BY <1>0, <1>3, PageHistory
  <2>3. SiteOK'
    BY <2>1, SameSite DEF ImportInv
  <2> QED
    BY <1>0, <1>3, <2>1, <2>2, <2>3, PageKeepsOrder, PageKeepsHonest, DetailsStay DEF ImportInv
<1>4. CASE FailListPage
  <2>1. /\ UNCHANGED <<site, import, filter, published>> /\ import.step = "list"
        /\ history' = [history EXCEPT !.faults = TRUE]
    BY <1>4 DEF FailListPage
  <2>2. history'.faults
    BY <1>0, <2>1, FaultNoted
  <2> QED
    BY <1>0, <1>4, <2>1, <2>2, PageFails, DetailsStay DEF ImportInv
<1>5. CASE BeginDetails
  <2>1. UNCHANGED <<site, crawl, history>>
    BY <1>5 DEF BeginDetails
  <2> QED
    BY <1>0, <1>5, <2>1, ListStays, DetailsBegin DEF ImportInv
<1>6. CASE ReadDetail
  <2>1. UNCHANGED <<site, crawl>>
    BY <1>6 DEF ReadDetail
  <2> QED
    BY <1>6, <2>1, DetailIsRead, ListStays DEF ImportInv
<1>7. CASE FailDetail
  <2>1. UNCHANGED <<site, crawl>> /\ history' = [history EXCEPT !.faults = TRUE]
    BY <1>7 DEF FailDetail
  <2> QED
    BY <1>0, <1>7, <2>1, FaultNoted, DetailFails, ListStays DEF ImportInv
<1>8. CASE EndDetails \/ Supplement \/ Publish
  <2>1. UNCHANGED <<site, crawl, history>>
    BY <1>8 DEF EndDetails, Supplement, Publish
  <2>2. DetailsOK' /\ HonestImportIsPublished'
    BY <1>8, DetailsEnd, SupplementRead, ImportPublished
  <2> QED
    BY <1>0, <2>1, <2>2, ListStays DEF ImportInv
<1>9. CASE BreakSupplement
  <2>1. UNCHANGED <<site, crawl>> /\ history' = [history EXCEPT !.faults = TRUE]
    BY <1>9 DEF BreakSupplement
  <2> QED
    BY <1>0, <1>9, <2>1, FaultNoted, SupplementBreaks, ListStays DEF ImportInv
<1>10. CASE UNCHANGED importVars
  <2>1. UNCHANGED <<site, crawl, import, filter, published, history>>
    BY <1>10 DEF importVars
  <2> QED
    BY <1>0, <2>1, ListStays, DetailsStay DEF ImportInv
<1> QED
  BY <1>1, <1>2, <1>3, <1>4, <1>5, <1>6, <1>7, <1>8, <1>9, <1>10 DEF ImportNext

(* What was published was wanted and fetched, every species of it. *)
LEMMA PublishedIsWhole ==
  ASSUME ImportInv, published # {}
  PROVE  ImportIsWhole
<1>1. /\ crawl.outcome = "COMPLETE" /\ import.stubs = {} /\ import.failed = {}
      /\ published = DOMAIN import.records
      /\ DOMAIN import.records \cup import.failed \cup SpeciesAt(import.stubs) = SpeciesAt(Wanted)
      /\ filter = {} \/ \E s \in Species : filter = {s}
  BY DEF ImportInv, DetailsOK
<1>2. published = SpeciesAt(Wanted)
  BY <1>1 DEF SpeciesAt
<1>3. CASE filter = {}
  <2>1. SpeciesAt(Wanted) = SpeciesOf(crawl.entries)
    BY <1>3 DEF SpeciesAt, Wanted, SpeciesOf
  <2> QED
    BY <1>1, <1>2, <1>3, <2>1 DEF ImportIsWhole, ImportInv, ListIsWhole
<1>4. CASE \E s \in Species : filter = {s}
  <2>1. SpeciesAt(Wanted) \subseteq filter
    BY <1>4 DEF SpeciesAt, Wanted
  <2>2. published = filter
    BY <1>2, <1>4, <2>1
  <2> QED
    BY <1>4, <2>2 DEF ImportIsWhole
<1> QED
  BY <1>1, <1>3, <1>4

(* The invariant the verdict rests on holds in every import. *)
THEOREM ImportAlways == ImportSpec => []ImportInv
<1>1. ImportInit => ImportInv
  BY ImportInitially, ImportAssumption
<1>2. ImportInv /\ [ImportNext]_importVars => ImportInv'
  BY ImportStep, ImportAssumption
<1> QED
  BY <1>1, <1>2, PTL DEF ImportSpec

(* What is published is whole, and a whole list is published. *)
THEOREM VerdictIsAlwaysRight == ImportSpec => []VerdictIsRight
<1>1. ImportInv => VerdictIsRight
  <2>1. ImportInv /\ published = {} => ImportIsWhole
    BY DEF ImportIsWhole
  <2> QED
    BY <2>1, PublishedIsWhole DEF ImportInv, VerdictIsRight
<1> QED
  BY <1>1, ImportAlways, PTL
=============================================================================
