---------------------------- MODULE TemplateProofs ----------------------------
(* For any VMIDs, lags, edits and faults: the type of the state, one guest for each template and  *)
(* none left behind until a creation is left under way, and a file that goes with its             *)
(* StorageDownloadURL.                                                                            *)
EXTENDS Template, TLAPS

\* The assumptions on the constants, one by one.
LEMMA Constants ==
    /\ MaxLag \in Nat /\ MaxFaults \in Nat /\ MaxDisks \in Nat \ {0}
    /\ None \notin Objects /\ None \notin Guests /\ None \notin Ids /\ None \notin Downloads
    /\ Kinds \subseteq [cloudInit: BOOLEAN, config: Configs, disabled: BOOLEAN]
BY TemplateAssumption, DownloadAssumption

Versions == Objects \cup {None}
DVersions == Downloads \cup {None}

Stages == {"idle", "finalizer", "image", "available", "check", "create", "await", "extra", "tag", "update",
           "import", "drive", "empty again", "empty", "set again", "set", "boot", "convert", "mark",
           "destroy", "release"}

DStages == {"idle", "finalizer", "look", "download", "wait", "complete", "mark", "erase", "release"}

\* The parts of the type of the state.
LogOK == log \in Seq(Versions) /\ Len(log) \in 1..(MaxLag + 1)
PlaceOK ==
    /\ queue \in BOOLEAN /\ pc \in Stages /\ copy \in Versions
    /\ (pc = "idle") = (copy = None)
GuestOK ==
    /\ guests \in [Ids -> Guests \cup {None}] /\ making \in [Ids -> Guests \cup {None}]
    /\ \A i \in Ids : guests[i] = None \/ making[i] = None
WaitOK == target \in Ids \cup {None} /\ (pc = "await") = (target # None) /\ astray \in BOOLEAN
CacheOK == cachedId \in Ids \cup {None} /\ cachedObj \in [Ids -> Guests \cup {None}]
UserOK == owner \in BOOLEAN
DLogOK == dlog \in Seq(DVersions) /\ Len(dlog) \in 1..(MaxLag + 1)
DPlaceOK ==
    /\ dqueue \in BOOLEAN /\ dpc \in DStages /\ dcopy \in DVersions
    /\ (dpc = "idle") = (dcopy = None)
StorageOK == file \in BOOLEAN /\ task \in BOOLEAN /\ faults \in 0..MaxFaults

TemplateParts == LogOK /\ PlaceOK /\ GuestOK /\ WaitOK /\ CacheOK
Parts == TemplateParts /\ UserOK /\ DLogOK /\ DPlaceOK /\ StorageOK

LEMMA PartsType == Parts => TypeOK
BY DEF Parts, TemplateParts, TypeOK, DownloadTypeOK, LogOK, PlaceOK, GuestOK, WaitOK, CacheOK, UserOK, DLogOK,
       DPlaceOK, StorageOK, Versions, DVersions, Stages, DStages

------------------------------------------------------------------------------
(* The versions of the two resources *)

LEMMA LogEnds ==
    ASSUME LogOK
    PROVE  Stored \in Versions /\ Seen \in Versions /\ Stored = log[Len(log)] /\ Seen = log[1]
<1>1. MaxLag \in Nat
  BY Constants
<1>2. Len(log) \in 1..Len(log) /\ 1 \in 1..Len(log)
  BY <1>1 DEF LogOK
<1>3. log[Len(log)] \in Versions /\ log[1] \in Versions
  BY <1>2 DEF LogOK
<1> QED
  BY <1>2, <1>3 DEF Stored, Seen, Last, LogOK

\* A version that is stored is appended, unless nothing changes.
LEMMA StoreKeepsLog ==
    ASSUME LogOK, NEW v \in Versions, Store(v)
    PROVE  /\ LogOK' /\ Stored' = v
           /\ \/ v = Stored /\ log' = log
              \/ /\ Len(log') = Len(log) + 1 /\ log'[Len(log) + 1] = v
                 /\ \A k \in 1..Len(log) : log'[k] = log[k]
<1>1. MaxLag \in Nat
  BY Constants
<1>2. CASE v = Stored
  BY <1>2 DEF Store, LogOK, Stored
<1>3. CASE v # Stored
  <2>1. log' = Append(log, v) /\ Len(log') <= MaxLag + 1
    BY <1>3 DEF Store
  <2>2. log' \in Seq(Versions) /\ Len(log') = Len(log) + 1 /\ log'[Len(log) + 1] = v
    BY <2>1 DEF LogOK
  <2>3. \A k \in 1..Len(log) : log'[k] = log[k]
    BY <2>1 DEF LogOK
  <2> QED
    BY <1>1, <2>1, <2>2, <2>3 DEF LogOK, Stored, Last
<1> QED
  BY <1>2, <1>3

LEMMA DeliverKeepsLog ==
    ASSUME LogOK, Deliver
    PROVE  /\ LogOK' /\ Stored' = Stored
           /\ Len(log') = Len(log) - 1 /\ \A k \in 1..Len(log') : log'[k] = log[k + 1]
<1>1. MaxLag \in Nat
  BY Constants
<1>2. log' = Tail(log) /\ Len(log) > 1 /\ log \in Seq(Versions)
  BY DEF Deliver, LogOK
<1>3. log' \in Seq(Versions) /\ Len(log') = Len(log) - 1
  BY <1>2
<1>4. \A k \in 1..Len(log') : log'[k] = log[k + 1]
  BY <1>2, <1>3
<1>5. log'[Len(log')] = log[Len(log)]
  BY <1>2, <1>3
<1> QED
  BY <1>1, <1>2, <1>3, <1>4, <1>5 DEF LogOK, Stored, Last

LEMMA RestartKeepsLog ==
    ASSUME LogOK, log' = <<Stored>>
    PROVE  LogOK' /\ Stored' = Stored /\ Len(log') = 1 /\ log'[1] = Stored
<1>1. MaxLag \in Nat /\ Stored \in Versions
  BY Constants, LogEnds
<1>2. log' \in Seq(Versions) /\ Len(log') = 1 /\ log'[1] = Stored
  BY <1>1
<1>3. LogOK'
  BY <1>1, <1>2 DEF LogOK
<1>4. Stored' = log'[Len(log')]
  BY DEF Stored, Last
<1> QED
  BY <1>2, <1>3, <1>4

LEMMA DLogEnds ==
    ASSUME DLogOK
    PROVE  DStored \in DVersions /\ DSeen \in DVersions
<1>1. MaxLag \in Nat
  BY Constants
<1>2. Len(dlog) \in 1..Len(dlog) /\ 1 \in 1..Len(dlog)
  BY <1>1 DEF DLogOK
<1>3. dlog[Len(dlog)] \in DVersions /\ dlog[1] \in DVersions
  BY <1>2 DEF DLogOK
<1> QED
  BY <1>2, <1>3 DEF DStored, DSeen, Last, DLogOK

LEMMA DStoreKeepsLog ==
    ASSUME DLogOK, NEW v \in DVersions, DStore(v)
    PROVE  DLogOK' /\ DStored' = v
<1>1. MaxLag \in Nat
  BY Constants
<1>2. CASE v = DStored
  BY <1>2 DEF DStore, DLogOK, DStored
<1>3. CASE v # DStored
  <2>1. dlog' = Append(dlog, v) /\ Len(dlog') <= MaxLag + 1
    BY <1>3 DEF DStore
  <2>2. dlog' \in Seq(DVersions) /\ Len(dlog') = Len(dlog) + 1 /\ dlog'[Len(dlog) + 1] = v
    BY <2>1 DEF DLogOK
  <2> QED
    BY <1>1, <2>1, <2>2 DEF DLogOK, DStored, Last
<1> QED
  BY <1>2, <1>3

LEMMA DDeliverKeepsLog ==
    ASSUME DLogOK, DDeliver
    PROVE  DLogOK' /\ DStored' = DStored
<1>1. MaxLag \in Nat
  BY Constants
<1>2. dlog' = Tail(dlog) /\ Len(dlog) > 1 /\ dlog \in Seq(DVersions)
  BY DEF DDeliver, DLogOK
<1>3. dlog' \in Seq(DVersions) /\ Len(dlog') = Len(dlog) - 1
  BY <1>2
<1>4. dlog'[Len(dlog')] = dlog[Len(dlog)]
  BY <1>2, <1>3
<1> QED
  BY <1>1, <1>2, <1>3, <1>4 DEF DLogOK, DStored, Last

LEMMA DRestartKeepsLog ==
    ASSUME DLogOK, dlog' = <<DStored>>
    PROVE  DLogOK' /\ DStored' = DStored
<1>1. MaxLag \in Nat /\ DStored \in DVersions
  BY Constants, DLogEnds
<1>2. dlog' \in Seq(DVersions) /\ Len(dlog') = 1 /\ dlog'[1] = DStored
  BY <1>1
<1>3. DLogOK'
  BY <1>1, <1>2 DEF DLogOK
<1>4. DStored' = dlog'[Len(dlog')]
  BY DEF DStored, Last
<1> QED
  BY <1>2, <1>3, <1>4

------------------------------------------------------------------------------
(* The controller of StorageDownloadURLs *)

Clean == happened \cap {"unwatched", "unseen"} = {}

\* While no task was lost and none failed unseen, a download that runs is waited for, and the file
\* of a resource that may go is gone.
Watched ==
    Clean => (task => dpc = "wait") /\ (dpc = "release" => ~file)

\* The resource goes without its file.
Goes == DStored # None /\ DStored.finalizer /\ DStored' = None /\ Clean => ~file'

DParts == DLogOK /\ DPlaceOK /\ StorageOK /\ Watched

LEMMA Troubles ==
    ASSUME StorageOK
    PROVE  /\ \A kind : Fault(kind) => /\ faults' \in 0..MaxFaults /\ (Clean' => Clean)
                                       /\ kind \in {"unwatched", "unseen"} => ~Clean'
           /\ (Error \/ NoFault) => faults' \in 0..MaxFaults /\ Clean' = Clean
<1>1. MaxFaults \in Nat /\ faults \in 0..MaxFaults
  BY Constants DEF StorageOK
<1>2. ASSUME NEW kind, Fault(kind)
      PROVE  /\ faults' \in 0..MaxFaults /\ (Clean' => Clean)
             /\ kind \in {"unwatched", "unseen"} => ~Clean'
  <2>1. faults' \in 0..MaxFaults
    BY <1>1, <1>2 DEF Fault
  <2>2. happened' = happened \cup {kind}
    BY <1>2 DEF Fault
  <2> QED
    BY <2>1, <2>2 DEF Clean
<1>3. ASSUME Error \/ NoFault PROVE faults' \in 0..MaxFaults /\ Clean' = Clean
  BY <1>1, <1>3 DEF Error, NoFault, trouble, Clean
<1> QED
  BY <1>2, <1>3

\* How a reconcile goes on.
LEMMA DOutcomes ==
    ASSUME DPlaceOK
    PROVE  /\ (DReturn \/ DRequeue) => DPlaceOK' /\ dpc' = "idle"
           /\ \A s \in DStages \ {"idle"} : dcopy # None /\ DGoto(s) => DPlaceOK' /\ dpc' = s
           /\ \A s \in DStages \ {"idle"}, c \in Downloads : DGotoWith(s, c) => DPlaceOK' /\ dpc' = s
<1>1. None \notin Downloads
  BY Constants
<1>2. (DReturn \/ DRequeue) => DPlaceOK' /\ dpc' = "idle"
  BY DEF DReturn, DRequeue, DPlaceOK, DStages, DVersions
<1>3. ASSUME NEW s \in DStages \ {"idle"}, dcopy # None, DGoto(s) PROVE DPlaceOK' /\ dpc' = s
  BY <1>3 DEF DGoto, DPlaceOK
<1>4. ASSUME NEW s \in DStages \ {"idle"}, NEW c \in Downloads, DGotoWith(s, c) PROVE DPlaceOK' /\ dpc' = s
  BY <1>1, <1>4 DEF DGotoWith, DPlaceOK, DVersions
<1> QED
  BY <1>2, <1>3, <1>4

\* The resource is written by a user, the garbage collector or its controller, and is none the less
\* a resource.
LEMMA DownloadWrites ==
    ASSUME NEW d \in Downloads
    PROVE  /\ [d EXCEPT !.deleting = TRUE] \in Downloads
           /\ [d EXCEPT !.finalizer = TRUE] \in Downloads
           /\ [d EXCEPT !.finalizer = FALSE] \in Downloads
           /\ [d EXCEPT !.completed = TRUE] \in Downloads
           /\ [d EXCEPT !.marked = TRUE] \in Downloads
BY DEF Downloads

LEMMA DeleteSteps ==
    ASSUME DParts, Delete, Clean' => Clean, faults' \in 0..MaxFaults
    PROVE  DParts' /\ Goes
<1>1. DLogOK /\ DPlaceOK /\ StorageOK /\ Watched /\ None \notin Downloads
  BY Constants DEF DParts
<1>2. DStored \in Downloads
  BY <1>1, DLogEnds DEF Delete, DVersions
<1> DEFINE v == IF DStored.finalizer THEN [DStored EXCEPT !.deleting = TRUE] ELSE None
<1>3. v \in DVersions /\ (DStored.finalizer => v # None)
  BY <1>1, <1>2, DownloadWrites DEF DVersions
<1>4. DStore(v)
  BY DEF Delete
<1>5. DLogOK' /\ DStored' = v
  BY <1>1, <1>3, <1>4, DStoreKeepsLog
<1>6. DPlaceOK'
  <2>1. \/ dlog' = dlog /\ UNCHANGED <<dqueue, worker>>
        \/ UNCHANGED <<dqueue, worker>>
    BY DEF Delete
  <2> QED
    BY <1>1, <2>1 DEF DPlaceOK, worker
<1>7. UNCHANGED <<dpc, file, task>>
  BY DEF Delete, worker, storage
<1>8. StorageOK' /\ Watched'
  BY <1>1, <1>7 DEF StorageOK, Watched
<1> HIDE DEF v
<1> QED
  BY <1>3, <1>5, <1>6, <1>8 DEF DParts, Goes

LEMMA DGetSteps ==
    ASSUME DParts, DGet
    PROVE  DParts' /\ Goes
<1>1. DLogOK /\ DPlaceOK /\ StorageOK /\ Watched /\ None \notin Downloads
  BY Constants DEF DParts
<1>2. DSeen \in DVersions
  BY <1>1, DLogEnds
<1>3. UNCHANGED <<dlog, file, task, faults, happened>> /\ dpc = "idle"
  BY DEF DGet, storage, trouble
<1>4. dpc' \in {"idle", "look", "finalizer", "erase", "mark"}
  BY DEF DGet, Marking
<1>5. DPlaceOK'
  <2>1. DSeen = None => dpc' = "idle"
    BY DEF DGet
  <2>2. dcopy' = IF dpc' = "idle" THEN None ELSE DSeen
    BY DEF DGet
  <2>3. dqueue' \in BOOLEAN /\ dpc' \in DStages
    BY <1>4 DEF DGet, DStages
  <2> QED
    BY <1>2, <2>1, <2>2, <2>3 DEF DPlaceOK, DVersions
<1>6. DLogOK' /\ StorageOK' /\ DStored' = DStored
  BY <1>1, <1>3 DEF DLogOK, StorageOK, DStored
<1>7. Watched'
  BY <1>1, <1>3, <1>4 DEF Watched, Clean
<1> QED
  BY <1>5, <1>6, <1>7 DEF DParts, Goes

\* The steps of the reconcile that write the resource.
LEMMA DWriteSteps ==
    ASSUME DParts, DHandleFinalizer \/ CompleteDownload \/ MarkDownload
    PROVE  DParts' /\ Goes
<1>1. DLogOK /\ DPlaceOK /\ StorageOK /\ Watched /\ None \notin Downloads
  BY Constants DEF DParts
<1>2. DStored \in DVersions
  BY <1>1, DLogEnds
<1>3. UNCHANGED <<file, task, faults, happened>> /\ dpc \in {"finalizer", "complete", "mark"}
  BY DEF DHandleFinalizer, CompleteDownload, MarkDownload, storage, trouble
<1>4. dcopy \in Downloads
  BY <1>1, <1>3 DEF DPlaceOK, DVersions
<1>5. \/ UNCHANGED dlog /\ (DReturn \/ DRequeue)
      \/ /\ DStored \in Downloads
         /\ \E v \in Downloads :
              DStore(v) /\ (DReturn \/ DGotoWith("look", v) \/ DGotoWith("erase", v))
  <2>1. CASE DHandleFinalizer
    BY <1>2, <1>4, <2>1, DownloadWrites DEF DHandleFinalizer, DVersions
  <2>2. CASE CompleteDownload
    BY <1>2, <2>2, DownloadWrites DEF CompleteDownload, DVersions
  <2>3. CASE MarkDownload
    BY <1>2, <2>3, DownloadWrites DEF MarkDownload, DVersions
  <2> QED
    BY <2>1, <2>2, <2>3
<1>6. DLogOK' /\ (DStored' = DStored \/ DStored' # None)
  <2>1. CASE UNCHANGED dlog
    BY <1>1, <2>1 DEF DLogOK, DStored
  <2>2. ASSUME NEW v \in Downloads, DStore(v) PROVE DLogOK' /\ DStored' # None
    BY <1>1, <2>2, DStoreKeepsLog DEF DVersions
  <2> QED
    BY <1>5, <2>1, <2>2
<1>7. DPlaceOK' /\ dpc' \in {"idle", "look", "erase"}
  BY <1>1, <1>5, DOutcomes DEF DStages
<1>8. StorageOK' /\ Watched'
  BY <1>1, <1>3, <1>7 DEF StorageOK, Watched, Clean
<1> QED
  BY <1>6, <1>7, <1>8 DEF DParts, Goes

\* The steps that leave the resource alone.
LEMMA DCallSteps ==
    ASSUME DParts, HasFile \/ StartDownload \/ AwaitDownload \/ DeleteStorageContent \/ DReconcileError
    PROVE  DParts' /\ Goes
<1>1. DLogOK /\ DPlaceOK /\ StorageOK /\ Watched
  BY DEF DParts
<1>2. UNCHANGED dlog /\ dpc # "idle"
  BY DEF HasFile, StartDownload, AwaitDownload, DeleteStorageContent, DReconcileError
<1>3. DLogOK' /\ DStored' = DStored /\ dcopy # None
  BY <1>1, <1>2 DEF DLogOK, DStored, DPlaceOK
<1>4. CASE HasFile
  <2>1. UNCHANGED <<file, task, faults, happened>> /\ dpc = "look"
    BY <1>4 DEF HasFile, storage, trouble
  <2>2. DPlaceOK' /\ dpc' \in {"idle", "download", "complete"}
    BY <1>1, <1>3, <1>4, DOutcomes DEF HasFile, DStages
  <2>3. StorageOK' /\ Watched'
    BY <1>1, <2>1, <2>2 DEF StorageOK, Watched, Clean
  <2> QED
    BY <1>3, <2>2, <2>3 DEF DParts, Goes
<1>5. CASE StartDownload
  <2>1. UNCHANGED file /\ task' \in BOOLEAN /\ dpc = "download"
    BY <1>1, <1>5 DEF StartDownload, StorageOK
  <2>2. DPlaceOK' /\ StorageOK'
    <3>1. DPlaceOK'
      BY <1>1, <1>3, <1>5, DOutcomes DEF StartDownload, DStages
    <3>2. faults' \in 0..MaxFaults
      BY <1>1, <1>5, Troubles DEF StartDownload
    <3> QED
      BY <1>1, <2>1, <3>1, <3>2 DEF StorageOK
  <2>3. Watched'
    <3>1. CASE DGoto("wait")
      BY <3>1 DEF Watched, DGoto
    <3>2. CASE task' = task /\ DRequeue /\ Error
      BY <1>1, <2>1, <3>2, Troubles DEF Watched, DRequeue
    <3>3. CASE Fault("unwatched")
      BY <1>1, <3>3, Troubles DEF Watched
    <3> QED
      BY <1>5, <3>1, <3>2, <3>3 DEF StartDownload
  <2> QED
    BY <1>3, <2>2, <2>3 DEF DParts, Goes
<1>6. CASE AwaitDownload
  <2>1. UNCHANGED <<file, task>> /\ dpc = "wait"
    BY <1>6 DEF AwaitDownload, storage
  <2>2. DPlaceOK' /\ StorageOK'
    <3>1. DPlaceOK'
      BY <1>1, <1>3, <1>6, DOutcomes DEF AwaitDownload, DStages
    <3>2. faults' \in 0..MaxFaults
      BY <1>1, <1>6, Troubles DEF AwaitDownload
    <3> QED
      BY <1>1, <2>1, <3>1, <3>2 DEF StorageOK
  <2>3. Watched'
    <3>1. CASE ~task /\ DGoto("complete")
      BY <2>1, <3>1 DEF Watched, DGoto
    <3>2. CASE Fault("unwatched")
      BY <1>1, <3>2, Troubles DEF Watched
    <3> QED
      BY <1>6, <3>1, <3>2 DEF AwaitDownload
  <2> QED
    BY <1>3, <2>2, <2>3 DEF DParts, Goes
<1>7. CASE DeleteStorageContent
  <2>1. UNCHANGED task /\ dpc = "erase" /\ file' \in BOOLEAN
    BY <1>1, <1>7 DEF DeleteStorageContent, StorageOK
  <2>2. DPlaceOK' /\ StorageOK'
    <3>1. DPlaceOK'
      BY <1>1, <1>3, <1>7, DOutcomes DEF DeleteStorageContent, DStages
    <3>2. faults' \in 0..MaxFaults
      BY <1>1, <1>7, Troubles DEF DeleteStorageContent
    <3> QED
      BY <1>1, <2>1, <3>1, <3>2 DEF StorageOK
  <2>3. Watched'
    <3>1. CASE file' = FALSE /\ DGoto("release") /\ NoFault
      BY <1>1, <2>1, <3>1, Troubles DEF Watched, DGoto
    <3>2. CASE Fault("unseen")
      BY <1>1, <3>2, Troubles DEF Watched
    <3>3. CASE DRequeue /\ Error
      BY <1>1, <2>1, <3>3, Troubles DEF Watched, DRequeue
    <3> QED
      BY <1>7, <3>1, <3>2, <3>3 DEF DeleteStorageContent
  <2> QED
    BY <1>3, <2>2, <2>3 DEF DParts, Goes
<1>8. CASE DReconcileError
  <2>1. UNCHANGED <<file, task>> /\ DRequeue
    BY <1>8 DEF DReconcileError, storage
  <2>2. DPlaceOK' /\ dpc' = "idle"
    BY <1>1, <2>1, DOutcomes
  <2>3. faults' \in 0..MaxFaults
    BY <1>1, <1>8, Troubles DEF DReconcileError
  <2>4. StorageOK'
    BY <1>1, <2>1, <2>3 DEF StorageOK
  <2>5. Watched'
    <3>1. CASE dpc = "wait"
      BY <1>1, <1>8, <3>1, Troubles DEF DReconcileError, Watched
    <3>2. CASE dpc # "wait"
      BY <1>1, <1>8, <2>1, <2>2, <3>2, Troubles DEF DReconcileError, Watched
    <3> QED
      BY <3>1, <3>2
  <2> QED
    BY <1>3, <2>2, <2>4, <2>5 DEF DParts, Goes
<1> QED
  BY <1>4, <1>5, <1>6, <1>7, <1>8

LEMMA DReleaseSteps ==
    ASSUME DParts, DRemoveFinalizer
    PROVE  DParts' /\ Goes
<1>1. DLogOK /\ DPlaceOK /\ StorageOK /\ Watched /\ None \notin Downloads
  BY Constants DEF DParts
<1>2. UNCHANGED <<file, task, faults, happened>> /\ dpc = "release"
  BY DEF DRemoveFinalizer, storage, trouble
<1>3. Clean => ~file'
  BY <1>1, <1>2 DEF Watched
<1>4. dcopy \in Downloads
  BY <1>1, <1>2 DEF DPlaceOK, DVersions
<1>5. DLogOK'
  <2> DEFINE v == IF dcopy.deleting THEN None ELSE [dcopy EXCEPT !.finalizer = FALSE]
  <2>1. v \in DVersions
    BY <1>4, DownloadWrites DEF DVersions
  <2>2. UNCHANGED dlog \/ DStore(v)
    BY DEF DRemoveFinalizer
  <2> QED
    BY <1>1, <2>1, <2>2, DStoreKeepsLog DEF DLogOK
<1>6. DPlaceOK' /\ dpc' = "idle"
  BY <1>1, DOutcomes DEF DRemoveFinalizer
<1>7. StorageOK' /\ Watched'
  BY <1>1, <1>2, <1>6 DEF StorageOK, Watched, Clean
<1> QED
  BY <1>3, <1>5, <1>6, <1>7 DEF DParts, Goes

\* What happens to the file, and what the informer delivers.
LEMMA FileSteps ==
    ASSUME DParts, FileRemoved \/ TaskEnds \/ DDeliver
    PROVE  DParts' /\ Goes
<1>1. DLogOK /\ DPlaceOK /\ StorageOK /\ Watched
  BY DEF DParts
<1>2. UNCHANGED worker
  BY DEF FileRemoved, TaskEnds, DDeliver
<1>3. CASE DDeliver
  <2>1. DLogOK' /\ DStored' = DStored
    BY <1>1, <1>3, DDeliverKeepsLog
  <2>2. dqueue' \in BOOLEAN
    <3>1. CASE dqueue
      BY <1>3, <3>1 DEF DDeliver
    <3>2. dlog[1] \in DVersions /\ dlog[2] \in DVersions
      BY <1>1, <1>3 DEF DDeliver, DLogOK
    <3>3. dlog[2] # None => dlog[2].deleting \in BOOLEAN
      BY <3>2 DEF DVersions, Downloads
    <3> QED
      BY <1>1, <1>3, <3>3, Zenon DEF DDeliver, DPlaceOK
  <2>3. UNCHANGED <<dpc, dcopy, file, task, faults, happened>>
    BY <1>3 DEF DDeliver, worker, storage, trouble
  <2>4. DPlaceOK'
    BY <1>1, <2>2, <2>3 DEF DPlaceOK
  <2>5. StorageOK' /\ Watched'
    BY <1>1, <2>3 DEF StorageOK, Watched, Clean
  <2> QED
    BY <2>1, <2>4, <2>5 DEF DParts, Goes
<1>4. CASE FileRemoved \/ TaskEnds
  <2>1. UNCHANGED <<dlog, dqueue, dpc, dcopy>>
    BY <1>4 DEF FileRemoved, TaskEnds, worker, resource
  <2>2. DLogOK' /\ DPlaceOK' /\ DStored' = DStored
    BY <1>1, <2>1 DEF DLogOK, DPlaceOK, DStored
  <2>3. faults' \in 0..MaxFaults
    BY <1>1, <1>4, Troubles DEF FileRemoved, TaskEnds
  <2>4. file' \in BOOLEAN /\ task' \in BOOLEAN
    BY <1>1, <1>4 DEF FileRemoved, TaskEnds, StorageOK
  <2>5. Watched'
    <3>1. CASE Fault("unseen")
      BY <1>1, <3>1, Troubles DEF Watched
    <3>2. CASE TaskEnds /\ NoFault
      BY <1>1, <2>1, <3>2, Troubles DEF TaskEnds, Watched
    <3> QED
      BY <1>4, <3>1, <3>2 DEF FileRemoved, TaskEnds
  <2> QED
    BY <2>2, <2>3, <2>4, <2>5 DEF DParts, Goes, StorageOK
<1> QED
  BY <1>3, <1>4

------------------------------------------------------------------------------
(* What the informer has yet to see *)

Held(v) == v # None /\ v.finalizer
Going(v) == Held(v) /\ v.deleting

\* A resource that is being deleted is not kept: what has a finalizer after it is the same resource.
History ==
    \A j, k \in 1..Len(log) : j <= k /\ Going(log[j]) /\ Held(log[k]) => \A i \in j..k : Going(log[i])

\* All that had a finalizer is gone, or going.
Spent == \A k \in 1..Len(log) : Held(log[k]) => \A i \in 1..k : Going(log[i])

Forgotten == ~Held(Stored) => Spent

Untouched == \A k \in 1..Len(log) : ~Held(log[k])

\* A write that neither adds nor removes the finalizer, nor takes a deletion back.
Holds(v) == (Held(v) <=> Held(Stored)) /\ (Going(Stored) => Going(v))

LEMMA HeldType ==
    ASSUME NEW v \in Versions
    PROVE  Held(v) \in BOOLEAN /\ Going(v) \in BOOLEAN
BY DEF Held, Going, Versions, Objects

LEMMA SameHistory ==
    ASSUME log' = log
    PROVE  /\ Stored' = Stored
           /\ History => History'
           /\ Spent => Spent'
           /\ Forgotten => Forgotten'
           /\ Untouched => Untouched'
BY DEF Stored, History, Spent, Forgotten, Untouched

LEMMA StoreKeepsHistory ==
    ASSUME LogOK, NEW v \in Versions, Store(v), Holds(v), History, Forgotten
    PROVE  History' /\ Forgotten' /\ (Spent => Spent') /\ (Untouched => Untouched')
<1>1. Stored \in Versions /\ Stored = log[Len(log)] /\ Len(log) \in Nat /\ Len(log) >= 1
  BY Constants, LogEnds DEF LogOK
<1>2. CASE log' = log
  BY <1>2, SameHistory
<1>3. CASE /\ Len(log') = Len(log) + 1 /\ log'[Len(log) + 1] = v
           /\ \A k \in 1..Len(log) : log'[k] = log[k]
  <2> DEFINE n == Len(log)
  <2>1. History'
    <3> SUFFICES ASSUME NEW j \in 1..(n + 1), NEW k \in 1..(n + 1), j <= k,
                        Going(log'[j]), Held(log'[k]), NEW i \in j..k
                 PROVE  Going(log'[i])
      BY <1>3 DEF History
    <3>1. CASE k <= n
      <4>1. j \in 1..n /\ k \in 1..n /\ i \in 1..n
        BY <1>1, <3>1
      <4>2. Going(log[j]) /\ Held(log[k])
        BY <1>3, <4>1
      <4> QED
        BY <1>3, <4>1, <4>2 DEF History
    <3>2. CASE k = n + 1 /\ j <= n
      <4>1. j \in 1..n /\ n \in 1..n
        BY <1>1, <3>2
      <4>2. Held(Stored) /\ Going(log[j])
        BY <1>3, <3>2, <4>1 DEF Holds
      <4>3. \A m \in j..n : Going(log[m])
        BY <1>1, <4>1, <4>2 DEF History
      <4>4. Going(v)
        BY <1>1, <4>1, <4>3 DEF Holds
      <4>5. i \in j..n \/ i = n + 1
        BY <1>1, <3>2
      <4> QED
        BY <1>1, <1>3, <4>1, <4>3, <4>4, <4>5
    <3>3. CASE k = n + 1 /\ j = n + 1
      <4>1. i = j
        BY <1>1, <3>3
      <4> QED
        BY <4>1
    <3> QED
      BY <1>1, <3>1, <3>2, <3>3
  <2>2. Spent => Spent'
    <3> SUFFICES ASSUME Spent, NEW k \in 1..(n + 1), Held(log'[k]), NEW i \in 1..k
                 PROVE  Going(log'[i])
      BY <1>3 DEF Spent
    <3>1. CASE k <= n
      <4>1. k \in 1..n /\ i \in 1..n
        BY <1>1, <3>1
      <4> QED
        BY <1>3, <4>1 DEF Spent
    <3>2. CASE k = n + 1
      <4>1. Held(log[n]) /\ n \in 1..n
        BY <1>1, <1>3, <3>2 DEF Holds
      <4>2. \A m \in 1..n : Going(log[m])
        BY <4>1 DEF Spent
      <4>3. Going(v)
        BY <1>1, <4>1, <4>2 DEF Holds
      <4>4. i \in 1..n \/ i = n + 1
        BY <1>1, <3>2
      <4> QED
        BY <1>3, <4>2, <4>3, <4>4
    <3> QED
      BY <1>1, <3>1, <3>2
  <2>3. Stored' = v
    BY StoreKeepsLog
  <2>4. Forgotten'
    BY <2>2, <2>3 DEF Forgotten, Holds
  <2>5. Untouched => Untouched'
    <3> SUFFICES ASSUME Untouched, NEW k \in 1..(n + 1) PROVE ~Held(log'[k])
      BY <1>3 DEF Untouched
    <3>1. n \in 1..n /\ ~Held(v)
      BY <1>1 DEF Untouched, Holds
    <3>2. k \in 1..n \/ k = n + 1
      BY <1>1
    <3> QED
      BY <1>3, <3>1, <3>2 DEF Untouched
  <2> QED
    BY <2>1, <2>2, <2>4, <2>5
<1> QED
  BY <1>2, <1>3, StoreKeepsLog

\* The finalizer is removed when all that had one is going.
LEMMA ReleaseKeepsHistory ==
    ASSUME LogOK, NEW v \in Versions, Store(v), ~Held(v), Spent
    PROVE  History' /\ Forgotten'
<1>1. Len(log) \in Nat /\ Len(log) >= 1
  BY Constants DEF LogOK
<1>2. Spent'
  <2>1. CASE log' = log
    BY <2>1, SameHistory
  <2>2. CASE /\ Len(log') = Len(log) + 1 /\ log'[Len(log) + 1] = v
             /\ \A k \in 1..Len(log) : log'[k] = log[k]
    <3> SUFFICES ASSUME NEW k \in 1..(Len(log) + 1), Held(log'[k]), NEW i \in 1..k
                 PROVE  Going(log'[i])
      BY <2>2 DEF Spent
    <3>1. k # Len(log) + 1
      BY <2>2
    <3>2. k \in 1..Len(log) /\ i \in 1..Len(log)
      BY <1>1, <3>1
    <3> QED
      BY <2>2, <3>2 DEF Spent
  <2> QED
    BY <2>1, <2>2, StoreKeepsLog
<1>3. Len(log') \in Nat
  BY StoreKeepsLog, Constants DEF LogOK
<1>4. History'
  <2> SUFFICES ASSUME NEW j \in 1..Len(log'), NEW k \in 1..Len(log'), Held(log'[k]), NEW i \in j..k
               PROVE  Going(log'[i])
    BY DEF History
  <2>1. i \in 1..k
    BY <1>3
  <2> QED
    BY <1>2, <2>1 DEF Spent
<1> QED
  BY <1>2, <1>4 DEF Forgotten

\* It is added to a resource that is not deleted, when nothing has one.
LEMMA HoldKeepsHistory ==
    ASSUME LogOK, NEW v \in Versions, Store(v), Held(v), ~v.deleting, Untouched
    PROVE  History' /\ Forgotten'
<1>1. Len(log) \in Nat /\ Len(log) >= 1 /\ Len(log') \in Nat
  BY Constants, StoreKeepsLog DEF LogOK
<1>2. \A k \in 1..Len(log') : ~Going(log'[k])
  <2>1. CASE log' = log
    BY <2>1 DEF Untouched, Going
  <2>2. CASE /\ Len(log') = Len(log) + 1 /\ log'[Len(log) + 1] = v
             /\ \A k \in 1..Len(log) : log'[k] = log[k]
    <3> SUFFICES ASSUME NEW k \in 1..(Len(log) + 1) PROVE ~Going(log'[k])
      BY <2>2
    <3>1. k \in 1..Len(log) \/ k = Len(log) + 1
      BY <1>1
    <3> QED
      BY <2>2, <3>1 DEF Untouched, Going
  <2> QED
    BY <2>1, <2>2, StoreKeepsLog
<1>3. Stored' = v
  BY StoreKeepsLog
<1> QED
  BY <1>2, <1>3 DEF History, Forgotten

LEMMA DeliverKeepsHistory ==
    ASSUME LogOK, Deliver
    PROVE  (History => History') /\ (Spent => Spent') /\ (Forgotten => Forgotten')
           /\ (Untouched => Untouched')
<1>1. /\ Stored' = Stored /\ Len(log) \in Nat /\ Len(log') = Len(log) - 1 /\ Len(log') \in Nat
      /\ \A k \in 1..Len(log') : log'[k] = log[k + 1]
  BY DeliverKeepsLog, Constants DEF LogOK
<1>2. History => History'
  <2> SUFFICES ASSUME History, NEW j \in 1..Len(log'), NEW k \in 1..Len(log'), j <= k,
                      Going(log'[j]), Held(log'[k]), NEW i \in j..k
               PROVE  Going(log'[i])
    BY DEF History
  <2>1. /\ j + 1 \in 1..Len(log) /\ k + 1 \in 1..Len(log) /\ j + 1 <= k + 1
        /\ i + 1 \in (j + 1)..(k + 1) /\ i \in 1..Len(log')
    BY <1>1
  <2>2. Going(log[j + 1]) /\ Held(log[k + 1])
    BY <1>1
  <2> QED
    BY <1>1, <2>1, <2>2 DEF History
<1>3. Spent => Spent'
  <2> SUFFICES ASSUME Spent, NEW k \in 1..Len(log'), Held(log'[k]), NEW i \in 1..k
               PROVE  Going(log'[i])
    BY DEF Spent
  <2>1. k + 1 \in 1..Len(log) /\ i + 1 \in 1..(k + 1) /\ i \in 1..Len(log')
    BY <1>1
  <2>2. Held(log[k + 1])
    BY <1>1
  <2> QED
    BY <1>1, <2>1, <2>2 DEF Spent
<1>4. Untouched => Untouched'
  <2> SUFFICES ASSUME Untouched, NEW k \in 1..Len(log') PROVE ~Held(log'[k])
    BY DEF Untouched
  <2>1. k + 1 \in 1..Len(log)
    BY <1>1
  <2> QED
    BY <1>1, <2>1 DEF Untouched
<1> QED
  BY <1>1, <1>2, <1>3, <1>4 DEF Forgotten

LEMMA RestartKeepsHistory ==
    ASSUME LogOK, log' = <<Stored>>
    PROVE  History' /\ Forgotten'
<1>1. Stored' = Stored /\ Len(log') = 1 /\ log'[1] = Stored
  BY RestartKeepsLog
<1>2. History'
  <2> SUFFICES ASSUME NEW j \in 1..Len(log'), NEW k \in 1..Len(log'), Going(log'[j]), NEW i \in j..k
               PROVE  Going(log'[i])
    BY DEF History
  <2>1. i = j
    BY <1>1
  <2> QED
    BY <2>1
<1>3. Forgotten'
  <2> SUFFICES ASSUME ~Held(Stored), NEW k \in 1..1 PROVE ~Held(log'[k])
    BY <1>1 DEF Forgotten, Spent
  <2> QED
    BY <1>1
<1> QED
  BY <1>2, <1>3

\* What the controller sees is held and not deleted only if the resource is still held, and
\* when what it sees is being deleted all that had a finalizer is going.
LEMMA SeenAndStored ==
    ASSUME LogOK, History, Forgotten
    PROVE  /\ Held(Seen) /\ ~Seen.deleting => Held(Stored)
           /\ Going(Seen) => Spent
           /\ ~Held(Seen) /\ ~Held(Stored) => Untouched
<1>1. Len(log) \in Nat /\ Len(log) >= 1 /\ Seen = log[1]
  BY Constants, LogEnds DEF LogOK
<1>2. 1 \in 1..Len(log) /\ \A k \in 1..Len(log) : 1 \in 1..k /\ 1 <= k
  BY <1>1
<1>3. Held(Seen) /\ ~Seen.deleting => Held(Stored)
  BY <1>1, <1>2 DEF Forgotten, Spent, Going
<1>4. Going(Seen) => Spent
  BY <1>1, <1>2 DEF History, Spent
<1>5. ~Held(Seen) /\ ~Held(Stored) => Untouched
  BY <1>1, <1>2 DEF Forgotten, Spent, Untouched, Going
<1> QED
  BY <1>3, <1>4, <1>5

------------------------------------------------------------------------------
(* The state of a reconcile, and the guests *)

MakingStages == {"extra", "tag", "update", "import", "drive", "empty again", "empty", "set again", "set",
           "boot", "convert"}

\* What the place of a reconcile says of the resource and its versions.
Past ==
    /\ History /\ Forgotten
    /\ pc \in {"mark", "destroy", "release"} => Spent
    /\ pc = "finalizer" => ~copy.finalizer /\ ~copy.deleting /\ (~Held(Stored) => Untouched)
    /\ pc \in {"image", "available", "check", "create"} => Held(Stored)

\* There is one guest at most, those under way included, and one that is under way is waited for.
Single == \A i, j \in Own : i = j
Attended == \A i \in Making : target = i

\* A creation is only asked for when there is no guest; then there is no other than that one.
Creating ==
    /\ pc = "create" => Own = {}
    /\ pc = "await" => Own \subseteq {target}

\* After the deletion there is no guest.
Released == pc = "release" => Own = {} \/ copy.protected

Ordered == Single /\ Attended /\ Creating /\ Released

\* All is well until a creation is left under way.
OrderOK == astray \/ Ordered

TInv == TemplateParts /\ Past /\ OrderOK

\* What GuestLifecycle sees of the resource, and whether it may leave a guest.
Kind == IF Stored = None THEN "none" ELSE IF Stored.finalizer THEN "held" ELSE "bare"
Spared == Stored # None /\ Stored.protected

KindStep ==
    \/ Kind' = Kind
    \/ Kind = "none" /\ Kind' = "bare"
    \/ Kind = "bare" /\ Kind' = "held"
    \/ Kind = "bare" /\ Kind' = "none"
    \/ Kind = "held" /\ Kind' = "none" /\ (Own = {} \/ Spared \/ astray)

\* What a step does to the guests: it leaves them, starts the creation of one, sees it listed,
\* leaves it under way, finds things in order, or loses a guest.
Unmoved == Own' = Own /\ Making' = Making /\ astray' = astray
Makes ==
    /\ Kind = "held"
    /\ Own = {} \/ astray
    /\ \E i \in Ids \ Own : Own' = Own \cup {i} /\ Making' = Making \cup {i}
    /\ astray' \in {astray, TRUE}
Finishes == Own' = Own /\ Making' \subseteq Making /\ astray' = astray
Strays == Own' = Own /\ Making' = Making /\ Making # {} /\ astray' = TRUE
Settles == Own' = Own /\ Making' = Making /\ Making = {} /\ Single /\ astray' = FALSE
Loses == Own' \subseteq Own /\ Own' # Own /\ Making' = Making \cap Own' /\ astray' = astray

OwnStep == Makes \/ Finishes \/ Strays \/ Settles \/ Loses

\* A step of the lifecycle changes the resource, or the guests.
LifecycleStep == (Unmoved /\ KindStep) \/ (Kind' = Kind /\ OwnStep)

Outcome == TInv' /\ LifecycleStep

LEMMA Outcomes ==
    ASSUME PlaceOK
    PROVE  /\ (Return \/ Requeue) => PlaceOK' /\ pc' = "idle"
           /\ \A s \in Stages : copy # None /\ Goto(s) =>
                 PlaceOK' /\ pc' = s /\ (s # "idle" => copy' = copy)
           /\ \A s \in Stages \ {"idle"}, c \in Objects : GotoWith(s, c) =>
                 PlaceOK' /\ pc' = s /\ copy' = c
<1>1. None \notin Objects
  BY Constants
<1>2. (Return \/ Requeue) => PlaceOK' /\ pc' = "idle"
  BY DEF Return, Requeue, PlaceOK, Stages, Versions
<1>3. ASSUME NEW s \in Stages, copy # None, Goto(s)
      PROVE  PlaceOK' /\ pc' = s /\ (s # "idle" => copy' = copy)
  <2>1. CASE s = "idle"
    BY <1>2, <1>3, <2>1 DEF Goto
  <2>2. CASE s # "idle"
    BY <1>3, <2>2 DEF Goto, PlaceOK
  <2> QED
    BY <2>1, <2>2
<1>4. ASSUME NEW s \in Stages \ {"idle"}, NEW c \in Objects, GotoWith(s, c)
      PROVE  PlaceOK' /\ pc' = s /\ copy' = c
  BY <1>1, <1>4 DEF GotoWith, PlaceOK, Versions
<1> QED
  BY <1>2, <1>3, <1>4

LEMMA LookupKeepsCache ==
    ASSUME GuestOK, CacheOK, NEW i \in Ids, GetVirtualMachine(i)
    PROVE  CacheOK'
<1>1. Snapshot(i) \in Guests \cup {None}
  BY DEF Snapshot, GuestOK, CacheOK
<1> QED
  BY <1>1 DEF GetVirtualMachine, CacheOK

\* The guests change, but none comes and none goes.
SameGuests(g) == g \in [Ids -> Guests \cup {None}] /\ \A i \in Ids : (g[i] = None) = (guests[i] = None)

Aside == UNCHANGED <<making, target, astray>>

LEMMA GuestWrites ==
    ASSUME GuestOK, NEW i \in Ids, guests[i] # None
    PROVE  /\ SameGuests(guests)
           /\ \A step \in Steps : SameGuests(With(i, step))
           /\ \A c \in Configs : SameGuests([guests EXCEPT ![i].config = c])
           /\ SameGuests(Imported(i))
           /\ SameGuests([guests EXCEPT ![i].done = @ \ {"cloudinit"}])
<1>1. guests[i] \in Guests /\ None \notin Guests
  BY Constants DEF GuestOK
<1>2. ASSUME NEW x \in Guests PROVE SameGuests([guests EXCEPT ![i] = x])
  BY <1>1 DEF SameGuests, GuestOK
<1>3. SameGuests(guests)
  BY DEF SameGuests, GuestOK
<1>4. ASSUME NEW step \in Steps PROVE SameGuests(With(i, step))
  <2>1. [guests[i] EXCEPT !.done = @ \cup {step}] \in Guests
    BY <1>1 DEF Guests
  <2>2. With(i, step) = [guests EXCEPT ![i] = [guests[i] EXCEPT !.done = @ \cup {step}]]
    BY DEF With, GuestOK
  <2> QED
    BY <1>2, <2>1, <2>2
<1>5. ASSUME NEW c \in Configs PROVE SameGuests([guests EXCEPT ![i].config = c])
  <2>1. [guests[i] EXCEPT !.config = c] \in Guests
    BY <1>1 DEF Guests
  <2> QED
    BY <1>2, <2>1
<1>6. SameGuests(Imported(i))
  <2>1. MaxDisks \in Nat /\ guests[i].disks \in 0..MaxDisks
    BY <1>1, Constants DEF Guests
  <2>2. (IF guests[i].disks < MaxDisks THEN guests[i].disks + 1 ELSE guests[i].disks) \in 0..MaxDisks
    BY <2>1
  <2>3. [guests[i] EXCEPT !.disks = IF @ < MaxDisks THEN @ + 1 ELSE @] \in Guests
    BY <1>1, <2>2 DEF Guests
  <2>4. Imported(i) = [guests EXCEPT ![i] = [guests[i] EXCEPT !.disks = IF @ < MaxDisks THEN @ + 1 ELSE @]]
    BY DEF Imported, GuestOK
  <2> QED
    BY <1>2, <2>3, <2>4
<1>7. SameGuests([guests EXCEPT ![i].done = @ \ {"cloudinit"}])
  <2>1. [guests[i] EXCEPT !.done = @ \ {"cloudinit"}] \in Guests
    BY <1>1 DEF Guests
  <2> QED
    BY <1>2, <2>1
<1> QED
  BY <1>3, <1>4, <1>5, <1>6, <1>7

\* What a step of the making of a guest leaves.
WasMade == SameGuests(guests') /\ PlaceOK' /\ pc' \in MakingStages \cup {"idle"}

\* However a call ends.
LEMMA CallOutcomes ==
    ASSUME PlaceOK, GuestOK, copy # None, NEW g, SameGuests(g), NEW s \in MakingStages \cup {"idle"}
    PROVE  /\ Call(g, s) \/ Trusted(g, s) \/ Careless(g, s) => WasMade
           /\ Refused => WasMade
           /\ UNCHANGED guests /\ (Goto(s) \/ Return) => WasMade
<1>1. SameGuests(guests) /\ s \in Stages
  BY DEF SameGuests, GuestOK, MakingStages, Stages
<1>2. Goto(s) \/ Return \/ Requeue => PlaceOK' /\ pc' \in MakingStages \cup {"idle"}
  BY <1>1, Outcomes
<1>3. guests' \in {guests, g} => SameGuests(guests')
  BY <1>1
<1>4. Call(g, s) => WasMade
  BY <1>2, <1>3 DEF Call, WasMade
<1>5. Careless(g, s) => WasMade
  BY <1>2, <1>3 DEF Careless, WasMade
<1>6. Trusted(g, s) => WasMade
  BY <1>2, <1>3, <1>4 DEF Trusted, WasMade
<1> QED
  BY <1>2, <1>3, <1>4, <1>5, <1>6 DEF Refused, WasMade

\* A step of the making of a guest leaves the resource and the number of guests as they are.
LEMMA MakingSteps ==
    ASSUME PlaceOK, GuestOK, CacheOK, copy # None,
           UpdateVirtualMachineTemplate \/ ApplyAdditionalConfiguration \/ AddTagToVMTemplate
           \/ ImportDiskToVM \/ AddCloudInitDrive \/ EmptyCloudInitConfig \/ SetCloudInitConfig
           \/ SetBootOrder \/ ConvertVMToTemplate
    PROVE  WasMade /\ CacheOK' /\ log' = log /\ Aside /\ pc # "await"
<1> DEFINE Worked ==
      \/ Lost /\ Refused /\ UNCHANGED cache
      \/ \E i \in Ids : GetVirtualMachine(i) /\ (IF guests[i] = None THEN Refused ELSE WasMade)
<1>1. SameGuests(guests)
  BY DEF SameGuests, GuestOK
<1>2. copy.config \in Configs
  BY Constants DEF PlaceOK, Versions, Objects
<1>3. ASSUME UpdateVirtualMachineTemplate PROVE Worked
  <2> DEFINE Do(i) == Trusted([guests EXCEPT ![i].config = copy.config],
                           IF copy.cloudInit THEN "empty again" ELSE "idle")
  <2>1. OnGuest(Do)
    BY <1>3 DEF UpdateVirtualMachineTemplate
  <2>2. ASSUME NEW i \in Ids, guests[i] # None, Do(i) PROVE WasMade
    BY <1>1, <1>2, <2>2, CallOutcomes, GuestWrites DEF MakingStages
  <2> HIDE DEF Do
  <2> QED
    BY <2>1, <2>2 DEF OnGuest
<1>4. ASSUME ApplyAdditionalConfiguration PROVE Worked
  <2> DEFINE Do(i) == Call(guests, "tag")
  <2>1. OnGuest(Do)
    BY <1>4 DEF ApplyAdditionalConfiguration
  <2>2. ASSUME NEW i \in Ids, guests[i] # None, Do(i) PROVE WasMade
    BY <1>1, <1>2, <2>2, CallOutcomes, GuestWrites DEF MakingStages
  <2> HIDE DEF Do
  <2> QED
    BY <2>1, <2>2 DEF OnGuest
<1>5. ASSUME AddTagToVMTemplate PROVE Worked
  <2> DEFINE Do(i) == Call(guests, AfterCreation)
  <2>1. OnGuest(Do)
    BY <1>5 DEF AddTagToVMTemplate
  <2>2. ASSUME NEW i \in Ids, guests[i] # None, Do(i) PROVE WasMade
    BY <1>1, <1>2, <2>2, CallOutcomes, GuestWrites DEF MakingStages, AfterCreation
  <2> HIDE DEF Do
  <2> QED
    BY <2>1, <2>2 DEF OnGuest
<1>6. ASSUME ImportDiskToVM PROVE Worked
  <2> DEFINE Do(i) == IF Snapshot(i).disks > 0 THEN Goto("drive") /\ UNCHANGED guests /\ NoFault
                     ELSE IF file /\ DSeen # None THEN Call(Imported(i), "drive")
                     ELSE Refused
  <2>1. OnGuest(Do)
    BY <1>6 DEF ImportDiskToVM
  <2>2. ASSUME NEW i \in Ids, guests[i] # None, Do(i) PROVE WasMade
    BY <1>1, <1>2, <2>2, CallOutcomes, GuestWrites DEF MakingStages
  <2> HIDE DEF Do
  <2> QED
    BY <2>1, <2>2 DEF OnGuest
<1>7. ASSUME AddCloudInitDrive PROVE Worked
  <2> DEFINE Do(i) == Call(guests, "empty")
  <2>1. OnGuest(Do)
    BY <1>7 DEF AddCloudInitDrive
  <2>2. ASSUME NEW i \in Ids, guests[i] # None, Do(i) PROVE WasMade
    BY <1>1, <1>2, <2>2, CallOutcomes, GuestWrites DEF MakingStages
  <2> HIDE DEF Do
  <2> QED
    BY <2>1, <2>2 DEF OnGuest
<1>8. ASSUME SetCloudInitConfig PROVE Worked
  <2> DEFINE Do(i) == IF pc = "set" THEN Trusted(Filled(i), "boot") ELSE Careless(Filled(i), "import")
  <2>1. OnGuest(Do)
    BY <1>8 DEF SetCloudInitConfig
  <2>2. ASSUME NEW i \in Ids, guests[i] # None, Do(i) PROVE WasMade
    BY <1>1, <1>2, <2>2, CallOutcomes, GuestWrites DEF Filled, Steps, MakingStages
  <2> HIDE DEF Do
  <2> QED
    BY <2>1, <2>2 DEF OnGuest
<1>9. ASSUME SetBootOrder PROVE Worked
  <2> DEFINE Do(i) == Trusted(With(i, "boot"), "convert")
  <2>1. OnGuest(Do)
    BY <1>9 DEF SetBootOrder
  <2>2. ASSUME NEW i \in Ids, guests[i] # None, Do(i) PROVE WasMade
    BY <1>1, <1>2, <2>2, CallOutcomes, GuestWrites DEF Steps, MakingStages
  <2> HIDE DEF Do
  <2> QED
    BY <2>1, <2>2 DEF OnGuest
<1>10. ASSUME ConvertVMToTemplate PROVE Worked
  <2> DEFINE Do(i) == IF "template" \in Snapshot(i).done THEN Return /\ UNCHANGED guests /\ NoFault
                     ELSE IF "template" \in guests[i].done THEN Refused
                     ELSE Trusted(With(i, "template"), "idle")
  <2>1. OnGuest(Do)
    BY <1>10 DEF ConvertVMToTemplate
  <2>2. ASSUME NEW i \in Ids, guests[i] # None, Do(i) PROVE WasMade
    BY <1>1, <1>2, <2>2, CallOutcomes, GuestWrites DEF Steps, MakingStages
  <2> HIDE DEF Do
  <2> QED
    BY <2>1, <2>2 DEF OnGuest
<1>11. ASSUME EmptyCloudInitConfig PROVE Worked
  <2> DEFINE
    rest == IF pc = "empty" THEN "boot" ELSE "import"
    set == IF pc = "empty" THEN "set" ELSE "set again"
    Do(i) == \/ MayBeAsDesired(i) /\ Goto(rest) /\ UNCHANGED guests /\ NoFault
             \/ Careless([guests EXCEPT ![i].done = @ \ {"cloudinit"}], set)
  <2>1. OnGuest(Do)
    BY <1>11 DEF EmptyCloudInitConfig
  <2>2. ASSUME NEW i \in Ids, guests[i] # None, Do(i) PROVE WasMade
    <3>1. rest \in MakingStages /\ set \in MakingStages
      BY DEF MakingStages
    <3> HIDE DEF rest, set
    <3> QED
      BY <1>1, <2>2, <3>1, CallOutcomes, GuestWrites
  <2> HIDE DEF Do
  <2> QED
    BY <2>1, <2>2 DEF OnGuest
<1>12. Worked
  BY <1>3, <1>4, <1>5, <1>6, <1>7, <1>8, <1>9, <1>10, <1>11
<1>13. log' = log /\ Aside /\ pc # "await"
  BY DEF UpdateVirtualMachineTemplate, ApplyAdditionalConfiguration, AddTagToVMTemplate, ImportDiskToVM,
         AddCloudInitDrive, EmptyCloudInitConfig, SetCloudInitConfig, SetBootOrder, ConvertVMToTemplate,
         Aside, creations
<1>14. CASE Lost /\ Refused /\ UNCHANGED cache
  BY <1>1, <1>13, <1>14, CallOutcomes DEF cache, CacheOK, MakingStages
<1>15. ASSUME NEW i \in Ids, GetVirtualMachine(i), IF guests[i] = None THEN Refused ELSE WasMade
      PROVE  WasMade /\ CacheOK'
  BY <1>1, <1>15, CallOutcomes, LookupKeepsCache DEF MakingStages
<1> QED
  BY <1>12, <1>13, <1>14, <1>15

------------------------------------------------------------------------------
(* The steps of the template *)

LEMMA InvParts ==
    ASSUME TInv
    PROVE  /\ LogOK /\ PlaceOK /\ GuestOK /\ WaitOK /\ CacheOK /\ Past /\ OrderOK
           /\ History /\ Forgotten
           /\ Stored \in Versions /\ Seen \in Versions /\ None \notin Objects
           /\ pc # "idle" => copy \in Objects /\ copy # None
<1>1. LogOK /\ PlaceOK /\ GuestOK /\ WaitOK /\ CacheOK /\ Past /\ OrderOK
  BY DEF TInv, TemplateParts
<1>2. None \notin Objects
  BY Constants
<1>3. pc # "idle" => copy \in Objects /\ copy # None
  BY <1>1, <1>2 DEF PlaceOK, Versions
<1> QED
  BY <1>1, <1>2, <1>3, LogEnds DEF Past

LEMMA SameResource ==
    ASSUME TInv, log' = log
    PROVE  /\ LogOK' /\ Stored' = Stored /\ Kind' = Kind /\ History' /\ Forgotten'
           /\ (Spent => Spent') /\ (Untouched => Untouched') /\ (Held(Stored)' <=> Held(Stored))
<1>1. LogOK' /\ Stored' = Stored
  BY InvParts DEF LogOK, Stored
<1>2. Kind' = Kind /\ (Held(Stored)' <=> Held(Stored))
  BY <1>1 DEF Kind, Held
<1> QED
  BY <1>1, <1>2, InvParts, SameHistory

LEMMA PastStays ==
    ASSUME Past, pc' = pc, copy' = copy, History', Forgotten', Spent => Spent',
           Untouched => Untouched', (Held(Stored)' <=> Held(Stored))
    PROVE  Past'
BY DEF Past

\* A reconcile that is over, or that makes a guest, says nothing of the resource.
LEMMA NowhereSpecial ==
    ASSUME History', Forgotten', pc' \in MakingStages \cup {"idle"}
    PROVE  Past'
BY DEF Past, MakingStages

\* Guests go, and a creation is over, while the reconcile stays where it is.
LEMMA OrderStays ==
    ASSUME TInv, Own' \subseteq Own, Making' \subseteq Making, UNCHANGED <<pc, copy, target, astray>>
    PROVE  WaitOK' /\ OrderOK'
<1>1. WaitOK /\ OrderOK
  BY InvParts
<1>2. WaitOK'
  BY <1>1 DEF WaitOK
<1>3. CASE astray
  BY <1>2, <1>3 DEF OrderOK
<1>4. CASE Ordered
  BY <1>2, <1>4 DEF OrderOK, Ordered, Single, Attended, Creating, Released
<1> QED
  BY <1>1, <1>3, <1>4 DEF OrderOK

\* Or it goes on, but not to where the guests matter.
LEMMA OrderGoesOn ==
    ASSUME TInv, pc # "await", Own' \subseteq Own, Making' \subseteq Making, UNCHANGED <<target, astray>>,
           pc' \notin {"create", "await", "release"}
    PROVE  WaitOK' /\ OrderOK'
<1>1. WaitOK /\ OrderOK
  BY InvParts
<1>2. WaitOK'
  BY <1>1 DEF WaitOK
<1>3. CASE astray
  BY <1>2, <1>3 DEF OrderOK
<1>4. CASE Ordered
  BY <1>2, <1>4 DEF OrderOK, Ordered, Single, Attended, Creating, Released
<1> QED
  BY <1>1, <1>3, <1>4 DEF OrderOK

\* The guests are left alone.
LEMMA GuestsStay ==
    ASSUME TInv, guests' = guests, Aside
    PROVE  /\ GuestOK' /\ Own' = Own /\ Making' = Making /\ Unmoved
           /\ pc' = pc /\ copy' = copy => WaitOK' /\ OrderOK'
           /\ pc # "await" /\ pc' \notin {"create", "await", "release"} => WaitOK' /\ OrderOK'
<1>1. Own' = Own /\ Making' = Making /\ Unmoved
  BY DEF Aside, Own, Making, Named, Unmoved
<1>2. GuestOK'
  BY InvParts DEF Aside, GuestOK
<1> QED
  BY <1>1, <1>2, OrderStays, OrderGoesOn DEF Aside

\* What a write of a user or of the status leaves of an object.
LEMMA ObjectWrites ==
    ASSUME NEW o \in Objects
    PROVE  /\ \A c \in Configs : LET p == [o EXCEPT !.config = c] IN p \in Objects /\ (Held(p) <=> Held(o)) /\ (Going(p) <=> Going(o))
           /\ LET p == [o EXCEPT !.protected = ~@] IN p \in Objects /\ (Held(p) <=> Held(o)) /\ (Going(p) <=> Going(o))
           /\ LET p == [o EXCEPT !.available = TRUE] IN p \in Objects /\ (Held(p) <=> Held(o)) /\ (Going(p) <=> Going(o))
           /\ LET p == [o EXCEPT !.marked = TRUE]
              IN p \in Objects /\ (Held(p) <=> Held(o)) /\ (Going(p) <=> Going(o)) /\ p.marked
           /\ LET p == [o EXCEPT !.deleting = TRUE] IN p \in Objects /\ (Held(p) <=> Held(o)) /\ (Going(o) => Going(p))
           /\ LET p == [o EXCEPT !.finalizer = TRUE]
              IN p \in Objects /\ Held(p) /\ p.deleting = o.deleting /\ p.finalizer
<1>1. None \notin Objects /\ o # None
  BY Constants
<1>2. ASSUME NEW c \in Configs
      PROVE  LET p == [o EXCEPT !.config = c] IN p \in Objects /\ (Held(p) <=> Held(o)) /\ (Going(p) <=> Going(o))
  BY <1>1 DEF Objects, Held, Going
<1>3. LET p == [o EXCEPT !.protected = ~@] IN p \in Objects /\ (Held(p) <=> Held(o)) /\ (Going(p) <=> Going(o))
  BY <1>1 DEF Objects, Held, Going
<1>4. LET p == [o EXCEPT !.available = TRUE] IN p \in Objects /\ (Held(p) <=> Held(o)) /\ (Going(p) <=> Going(o))
  BY <1>1 DEF Objects, Held, Going
<1>5. LET p == [o EXCEPT !.marked = TRUE]
      IN p \in Objects /\ (Held(p) <=> Held(o)) /\ (Going(p) <=> Going(o)) /\ p.marked
  BY <1>1 DEF Objects, Held, Going
<1>6. LET p == [o EXCEPT !.deleting = TRUE] IN p \in Objects /\ (Held(p) <=> Held(o)) /\ (Going(o) => Going(p))
  BY <1>1 DEF Objects, Held, Going
<1>7. LET p == [o EXCEPT !.finalizer = TRUE]
      IN p \in Objects /\ Held(p) /\ p.deleting = o.deleting /\ p.finalizer
  BY <1>1 DEF Objects, Held
<1> QED
  BY <1>2, <1>3, <1>4, <1>5, <1>6, <1>7

\* A write that neither adds nor removes the finalizer.
LEMMA HoldingWrite ==
    ASSUME TInv, NEW v \in Versions, Store(v), Holds(v)
    PROVE  /\ LogOK' /\ Stored' = v /\ History' /\ Forgotten'
           /\ (Spent => Spent') /\ (Untouched => Untouched') /\ (Held(Stored)' <=> Held(Stored))
           /\ KindStep
<1>1. /\ LogOK' /\ Stored' = v /\ History' /\ Forgotten'
      /\ (Spent => Spent') /\ (Untouched => Untouched')
  BY InvParts, StoreKeepsLog, StoreKeepsHistory
<1>2. Held(Stored)' <=> Held(v)
  BY <1>1 DEF Held
<1>3. KindStep
  BY <1>1 DEF KindStep, Kind, Holds, Held
<1> QED
  BY <1>1, <1>2, <1>3 DEF Holds

LEMMA UserSteps ==
    ASSUME TInv, UserCreate \/ UserEdit \/ UserDelete
    PROVE  Outcome /\ (UserOK => UserOK')
<1>1. UNCHANGED <<queue, pc, copy, guests, cachedId, cachedObj>> /\ Aside
  BY DEF UserCreate, UserEdit, UserDelete, cache, creations, Aside
<1>2. PICK v \in Versions : Store(v) /\ Holds(v)
  <2>1. CASE UserCreate
    <3>1. PICK k \in Kinds :
            Store([cloudInit |-> k.cloudInit, config |-> k.config, protected |-> FALSE,
                   disabled |-> k.disabled, deleting |-> FALSE, finalizer |-> FALSE,
                   marked |-> FALSE, available |-> FALSE])
      BY <2>1 DEF UserCreate
    <3> DEFINE new == [cloudInit |-> k.cloudInit, config |-> k.config, protected |-> FALSE,
                       disabled |-> k.disabled, deleting |-> FALSE, finalizer |-> FALSE,
                       marked |-> FALSE, available |-> FALSE]
    <3>2. new \in Objects
      BY Constants DEF Objects
    <3>3. ~Held(new) /\ ~Held(Stored)
      BY <2>1 DEF Held, UserCreate
    <3>4. Holds(new)
      BY <3>3 DEF Holds, Going
    <3>5. Store(new)
      BY <3>1
    <3> HIDE DEF new
    <3> QED
      BY <3>2, <3>4, <3>5 DEF Versions
  <2>2. CASE UserEdit
    <3>1. Stored \in Objects
      BY <2>2, InvParts DEF UserEdit, Versions
    <3>2. \/ \E c \in Configs : Store([Stored EXCEPT !.config = c])
          \/ Store([Stored EXCEPT !.protected = ~@])
      BY <2>2 DEF UserEdit
    <3>3. ASSUME NEW c \in Configs, Store([Stored EXCEPT !.config = c])
          PROVE  \E v \in Versions : Store(v) /\ Holds(v)
      BY <3>1, <3>3, ObjectWrites DEF Holds, Versions
    <3>4. ASSUME Store([Stored EXCEPT !.protected = ~@])
          PROVE  \E v \in Versions : Store(v) /\ Holds(v)
      BY <3>1, <3>4, ObjectWrites DEF Holds, Versions
    <3> QED
      BY <3>2, <3>3, <3>4
  <2>3. CASE UserDelete
    <3>1. Stored \in Objects
      BY <2>3, InvParts DEF UserDelete, Versions
    <3>2. CASE Stored.finalizer
      <4>1. Store([Stored EXCEPT !.deleting = TRUE])
        BY <2>3, <3>2 DEF UserDelete
      <4> QED
        BY <3>1, <4>1, ObjectWrites DEF Holds, Versions
    <3>3. CASE ~Stored.finalizer
      <4>1. Store(None)
        BY <2>3, <3>3 DEF UserDelete
      <4>2. Holds(None)
        BY <3>3 DEF Holds, Held, Going
      <4> QED
        BY <4>1, <4>2 DEF Versions
    <3> QED
      BY <3>2, <3>3
  <2> QED
    BY <2>1, <2>2, <2>3
<1>3. /\ LogOK' /\ History' /\ Forgotten' /\ KindStep
      /\ (Spent => Spent') /\ (Untouched => Untouched') /\ (Held(Stored)' <=> Held(Stored))
  BY <1>2, HoldingWrite
<1>4. Past'
  BY <1>1, <1>3, InvParts, PastStays
<1>5. GuestOK' /\ Unmoved /\ WaitOK' /\ OrderOK'
  BY <1>1, GuestsStay
<1>6. PlaceOK' /\ CacheOK'
  BY <1>1, InvParts DEF PlaceOK, CacheOK
<1>7. UserOK => UserOK'
  BY DEF UserCreate, UserEdit, UserDelete, Gone, UserOK
<1> QED
  BY <1>1, <1>3, <1>4, <1>5, <1>6, <1>7 DEF Outcome, LifecycleStep, TInv, TemplateParts

\* What happens apart from the template's own reconcile and versions.
LEMMA ApartSteps ==
    ASSUME TInv, Aside, UNCHANGED <<log, queue, pc, copy, guests, cachedId, cachedObj>>
    PROVE  Outcome
<1>1. /\ LogOK' /\ History' /\ Forgotten' /\ Kind' = Kind
      /\ (Spent => Spent') /\ (Untouched => Untouched') /\ (Held(Stored)' <=> Held(Stored))
  BY SameResource
<1>2. Past'
  BY <1>1, InvParts, PastStays
<1>3. GuestOK' /\ Unmoved /\ WaitOK' /\ OrderOK'
  BY GuestsStay
<1>4. PlaceOK' /\ CacheOK'
  BY InvParts DEF PlaceOK, CacheOK
<1> QED
  BY <1>1, <1>2, <1>3, <1>4 DEF Outcome, LifecycleStep, KindStep, TInv, TemplateParts

\* A guest goes, by whatever hand.
LEMMA GuestGoes ==
    ASSUME TInv, NEW i \in Ids, guests[i] # None, guests' = [guests EXCEPT ![i] = None], Aside
    PROVE  /\ GuestOK' /\ Loses /\ Own' \subseteq Own /\ Making' = Making
           /\ Own' \subseteq Own \ {i}
<1>1. GuestOK
  BY InvParts
<1>2. GuestOK' /\ Named' = Named \ {i} /\ Making' = Making /\ i \in Named
  BY <1>1 DEF GuestOK, Aside, Named, Making
<1>3. i \notin Making
  BY <1>1 DEF GuestOK, Making
<1> QED
  BY <1>2, <1>3 DEF Loses, Own, Aside

\* What leaves the resource and its reconcile alone, and only takes guests away.
LEMMA ElsewhereSteps ==
    ASSUME TInv, UNCHANGED <<log, queue, pc, copy, target, astray, cachedId, cachedObj>>, GuestOK',
           Finishes \/ Loses
    PROVE  Outcome
<1>1. /\ LogOK' /\ History' /\ Forgotten' /\ Kind' = Kind
      /\ (Spent => Spent') /\ (Untouched => Untouched') /\ (Held(Stored)' <=> Held(Stored))
  BY SameResource
<1>2. Past'
  BY <1>1, InvParts, PastStays
<1>3. Own' \subseteq Own /\ Making' \subseteq Making
  BY DEF Finishes, Loses
<1>4. WaitOK' /\ OrderOK'
  BY <1>3, OrderStays
<1>5. PlaceOK' /\ CacheOK'
  BY InvParts DEF PlaceOK, CacheOK
<1> QED
  BY <1>1, <1>2, <1>4, <1>5 DEF Outcome, LifecycleStep, OwnStep, TInv, TemplateParts

LEMMA DestroyedSteps ==
    ASSUME TInv, NEW i \in Ids, Destroyed(i)
    PROVE  Outcome
<1>1. UNCHANGED <<log, queue, pc, copy, target, astray, cachedId, cachedObj>> /\ Aside
  BY DEF Destroyed, reconcile, cache, creations, Aside
<1>2. GuestOK' /\ Loses
  BY <1>1, GuestGoes DEF Destroyed
<1> QED
  BY <1>1, <1>2, ElsewhereSteps

\* The guest that was under way at i is none any more.
LEMMA CreationGone ==
    ASSUME TInv, NEW i \in Making, making' = [making EXCEPT ![i] = None], UNCHANGED <<guests, astray>>
    PROVE  GuestOK' /\ Loses /\ Making' = Making \ {i}
<1>1. GuestOK
  BY InvParts
<1>2. i \in Ids /\ making[i] # None /\ guests[i] = None
  BY <1>1 DEF GuestOK, Making
<1>3. GuestOK' /\ Making' = Making \ {i}
  BY <1>1, <1>2 DEF GuestOK, Making
<1>4. Named' = Named /\ i \notin Named
  BY <1>2 DEF Named
<1> QED
  BY <1>3, <1>4 DEF Loses, Own

\* The task of a creation ends.
LEMMA CreationEndsSteps ==
    ASSUME TInv, NEW i \in Ids, CreationEnds(i)
    PROVE  Outcome
<1>1. UNCHANGED <<log, queue, pc, copy, target, astray, cachedId, cachedObj>>
  BY DEF CreationEnds, reconcile, cache
<1>2. GuestOK /\ i \in Making /\ making' = [making EXCEPT ![i] = None]
  BY InvParts DEF CreationEnds, Making
<1>3. CASE UNCHANGED guests
  BY <1>1, <1>2, <1>3, CreationGone, ElsewhereSteps
<1>4. CASE guests' = [guests EXCEPT ![i] = making[i]]
  <2>1. making[i] # None /\ guests[i] = None
    BY <1>2 DEF GuestOK, Making
  <2>2. GuestOK'
    BY <1>2, <1>4, <2>1 DEF GuestOK
  <2>3. Named' = Named \cup {i} /\ Making' = Making \ {i}
    BY <1>2, <1>4, <2>1 DEF GuestOK, Named, Making
  <2>4. Finishes
    BY <1>1, <1>2, <2>3 DEF Finishes, Own
  <2> QED
    BY <1>1, <2>2, <2>4, ElsewhereSteps
<1> QED
  BY <1>3, <1>4 DEF CreationEnds

LEMMA DeliverSteps ==
    ASSUME TInv, Deliver
    PROVE  Outcome
<1>1. UNCHANGED <<pc, copy, guests, cachedId, cachedObj>> /\ Aside
  BY DEF Deliver, cache, creations, Aside
<1>2. /\ LogOK' /\ Stored' = Stored /\ History' /\ Forgotten'
      /\ (Spent => Spent') /\ (Untouched => Untouched')
  BY InvParts, DeliverKeepsLog, DeliverKeepsHistory
<1>3. (Held(Stored)' <=> Held(Stored)) /\ Kind' = Kind
  BY <1>2 DEF Held, Kind
<1>4. Past'
  BY <1>1, <1>2, <1>3, InvParts, PastStays
<1>5. GuestOK' /\ Unmoved /\ WaitOK' /\ OrderOK'
  BY <1>1, GuestsStay
<1>6. queue' \in BOOLEAN
  <2>1. log[1] \in Versions /\ log[2] \in Versions
    BY InvParts DEF Deliver, LogOK
  <2>2. log[2] # None => log[2].deleting \in BOOLEAN
    BY <2>1 DEF Versions, Objects
  <2>3. queue \in BOOLEAN
    BY InvParts DEF PlaceOK
  <2> QED
    BY <2>2, <2>3, Zenon DEF Deliver
<1>7. PlaceOK' /\ CacheOK'
  BY <1>1, <1>6, InvParts DEF PlaceOK, CacheOK
<1> QED
  BY <1>2, <1>3, <1>4, <1>5, <1>7 DEF Outcome, LifecycleStep, KindStep, TInv, TemplateParts

LEMMA PollSteps ==
    ASSUME TInv, Poll
    PROVE  Outcome
<1>1. UNCHANGED <<log, pc, copy, guests>> /\ Aside
  BY DEF Poll, creations, Aside
<1>2. PICK i \in Ids : GetVirtualMachine(i) /\ queue' = (queue \/ Snapshot(i).config # Seen.config)
  BY DEF Poll
<1>3. queue' \in BOOLEAN
  <2>1. queue \in BOOLEAN
    BY InvParts DEF PlaceOK
  <2> QED
    BY <1>2, <2>1, Zenon
<1>4. PlaceOK' /\ CacheOK'
  BY <1>1, <1>2, <1>3, InvParts, LookupKeepsCache DEF PlaceOK
<1>5. /\ LogOK' /\ History' /\ Forgotten' /\ Kind' = Kind
      /\ (Spent => Spent') /\ (Untouched => Untouched') /\ (Held(Stored)' <=> Held(Stored))
  BY <1>1, SameResource
<1>6. Past'
  BY <1>1, <1>5, InvParts, PastStays
<1>7. GuestOK' /\ Unmoved /\ WaitOK' /\ OrderOK'
  BY <1>1, GuestsStay
<1> QED
  BY <1>4, <1>5, <1>6, <1>7 DEF Outcome, LifecycleStep, KindStep, TInv, TemplateParts

------------------------------------------------------------------------------
(* The template's reconcile *)

LEMMA GetSteps ==
    ASSUME TInv, Get
    PROVE  Outcome
<1>1. UNCHANGED <<log, guests, making, target, cachedId, cachedObj>> /\ pc = "idle"
  BY DEF Get, cache
<1>2. /\ LogOK' /\ Stored' = Stored /\ History' /\ Forgotten' /\ Kind' = Kind
      /\ (Spent => Spent') /\ (Untouched => Untouched') /\ (Held(Stored)' <=> Held(Stored))
  BY <1>1, SameResource
<1>3. GuestOK' /\ Own' = Own /\ Making' = Making /\ target = None
  BY <1>1, InvParts DEF GuestOK, WaitOK, Own, Named, Making
<1>4. /\ pc' = "idle" => copy' = None
      /\ pc' # "idle" => copy' = Seen /\ Seen \in Objects /\ Seen # None
  <2>1. copy' = IF pc' = "idle" THEN None ELSE Seen
    BY DEF Get
  <2>2. pc' # "idle" => Seen # None
    BY DEF Get
  <2> QED
    BY <2>1, <2>2, InvParts DEF Versions
<1>5. \/ pc' = "idle"
      \/ pc' = "image" /\ Held(Seen) /\ ~Seen.deleting
      \/ pc' = "finalizer" /\ ~Held(Seen) /\ ~Seen.deleting
      \/ pc' \in {"mark", "destroy"} /\ Going(Seen)
      \/ pc' = "release" /\ Going(Seen) /\ Seen.protected
  BY <1>4 DEF Get, Deletion, Held, Going
<1>6. PlaceOK'
  <2>1. pc' \in Stages
    BY <1>5 DEF Stages
  <2>2. queue' \in BOOLEAN
    BY DEF Get
  <2> QED
    BY <1>4, <2>1, <2>2, InvParts DEF PlaceOK, Versions
<1>7. Past'
  <2>1. /\ Held(Seen) /\ ~Seen.deleting => Held(Stored)
        /\ Going(Seen) => Spent
        /\ ~Held(Seen) /\ ~Held(Stored) => Untouched
    BY InvParts, SeenAndStored
  <2>2. pc' \in {"mark", "destroy", "release"} => Spent'
    BY <1>2, <1>5, <2>1
  <2>3. pc' = "finalizer" => ~copy'.finalizer /\ ~copy'.deleting /\ (~Held(Stored)' => Untouched')
    BY <1>2, <1>4, <1>5, <2>1 DEF Held
  <2>4. pc' \in {"image", "available", "check", "create"} => Held(Stored)'
    BY <1>2, <1>5, <2>1
  <2> QED
    BY <1>2, <2>2, <2>3, <2>4 DEF Past
<1>8. CacheOK'
  BY <1>1, InvParts DEF CacheOK
<1>9. \/ astray' = astray
      \/ InOrder /\ astray' = FALSE
  <2>1. astray \in BOOLEAN /\ astray' = (astray /\ ~InOrder)
    BY InvParts DEF Get, WaitOK
  <2>2. CASE astray /\ ~InOrder
    BY <2>1, <2>2
  <2>3. CASE ~astray
    BY <2>1, <2>3
  <2>4. CASE InOrder
    BY <2>1, <2>4
  <2> QED
    BY <2>2, <2>3, <2>4
<1>10. WaitOK'
  BY <1>1, <1>3, <1>5, <1>9, InvParts DEF WaitOK
<1>11. ~astray' => Single /\ Making = {}
  <2>1. CASE InOrder
    BY <2>1 DEF InOrder, Single
  <2>2. CASE Ordered
    <3>1. \A i \in Making : i = None /\ i \in Ids
      BY <1>3, <2>2 DEF Ordered, Attended, Making
    <3> QED
      BY <2>2, <3>1, Constants DEF Ordered
  <2> QED
    BY <1>9, <2>1, <2>2, InvParts DEF OrderOK
<1>12. OrderOK'
  BY <1>3, <1>4, <1>5, <1>11 DEF OrderOK, Ordered, Single, Attended, Creating, Released
<1>13. LifecycleStep
  <2>1. CASE astray' = astray
    BY <1>2, <1>3, <2>1 DEF LifecycleStep, KindStep, Unmoved
  <2>2. CASE astray' = FALSE
    BY <1>2, <1>3, <1>11, <2>2 DEF LifecycleStep, OwnStep, Settles
  <2> QED
    BY <1>9, <2>1, <2>2
<1> QED
  BY <1>2, <1>3, <1>6, <1>7, <1>8, <1>10, <1>12, <1>13 DEF Outcome, TInv, TemplateParts

LEMMA HandleFinalizerSteps ==
    ASSUME TInv, HandleFinalizer
    PROVE  Outcome
<1>1. UNCHANGED <<guests, cachedId, cachedObj>> /\ Aside /\ pc = "finalizer"
  BY DEF HandleFinalizer, cache, creations, Aside
<1>2. /\ copy \in Objects /\ copy # None /\ ~copy.finalizer /\ ~copy.deleting
      /\ ~Held(Stored) => Untouched
  BY <1>1, InvParts DEF Past
<1>3. GuestOK' /\ Unmoved
  BY <1>1, GuestsStay
<1>4. CacheOK'
  BY <1>1, InvParts DEF CacheOK
<1> DEFINE new == [copy EXCEPT !.finalizer = TRUE]
<1>5. CASE Stored = copy /\ Store(new) /\ GotoWith("image", new)
  <2>1. new \in Objects /\ Held(new) /\ ~new.deleting /\ new.finalizer
    BY <1>2, ObjectWrites
  <2>2. Untouched
    BY <1>2, <1>5 DEF Held
  <2>3. PlaceOK' /\ pc' = "image"
    BY <1>5, <2>1, InvParts, Outcomes DEF Stages
  <2> HIDE DEF new
  <2>4. LogOK' /\ Stored' = new /\ History' /\ Forgotten'
    BY <1>5, <2>1, <2>2, InvParts, StoreKeepsLog, HoldKeepsHistory DEF Versions
  <2>5. Held(Stored)'
    BY <2>1, <2>4 DEF Held
  <2>6. Past' /\ WaitOK' /\ OrderOK'
    BY <1>1, <2>3, <2>4, <2>5, GuestsStay DEF Past
  <2>7. KindStep
    BY <1>2, <1>5, <2>1, <2>4, InvParts DEF KindStep, Kind
  <2> QED
    BY <1>3, <1>4, <2>3, <2>4, <2>6, <2>7 DEF Outcome, LifecycleStep, TInv, TemplateParts
<1>6. CASE UNCHANGED log /\ (Return \/ Requeue)
  <2>1. PlaceOK' /\ pc' = "idle"
    BY <1>6, InvParts, Outcomes
  <2>2. LogOK' /\ History' /\ Forgotten' /\ Kind' = Kind
    BY <1>6, SameResource
  <2>3. Past' /\ WaitOK' /\ OrderOK'
    BY <1>1, <2>1, <2>2, NowhereSpecial, GuestsStay
  <2> QED
    BY <1>3, <1>4, <2>1, <2>2, <2>3 DEF Outcome, LifecycleStep, KindStep, TInv, TemplateParts
<1> QED
  BY <1>5, <1>6 DEF HandleFinalizer

\* A reconcile that ends leaves the resource and the guests alone, or has lost a guest.
LEMMA EndingSteps ==
    ASSUME TInv, log' = log, pc # "await", Return \/ Requeue, GuestOK', CacheOK', Aside,
           Unmoved \/ Loses
    PROVE  Outcome
<1>1. PlaceOK' /\ pc' = "idle"
  BY InvParts, Outcomes
<1>2. LogOK' /\ History' /\ Forgotten' /\ Kind' = Kind
  BY SameResource
<1>3. Past'
  BY <1>1, <1>2, NowhereSpecial
<1>4. Own' \subseteq Own /\ Making' \subseteq Making
  BY DEF Unmoved, Loses
<1>5. WaitOK' /\ OrderOK'
  BY <1>1, <1>4, OrderGoesOn DEF Aside
<1> QED
  BY <1>1, <1>2, <1>3, <1>5 DEF Outcome, LifecycleStep, KindStep, OwnStep, TInv, TemplateParts

\* A step of a reconcile that goes on to where a held resource is needed.
LEMMA OnwardSteps ==
    ASSUME TInv, log' = log, pc # "await", Held(Stored), UNCHANGED guests, Aside, CacheOK', copy # None,
           NEW s \in {"image", "available", "check", "create"} \cup MakingStages, Goto(s),
           s = "create" => Named = {}
    PROVE  Outcome
<1>1. PlaceOK' /\ pc' = s
  BY InvParts, Outcomes DEF Stages, MakingStages
<1>2. LogOK' /\ History' /\ Forgotten' /\ Kind' = Kind /\ Held(Stored)'
  BY SameResource
<1>3. GuestOK' /\ Own' = Own /\ Making' = Making /\ Unmoved
  BY GuestsStay
<1>4. Past'
  BY <1>1, <1>2 DEF Past, MakingStages
<1>5. CASE s # "create"
  <2>1. WaitOK' /\ OrderOK'
    BY <1>1, <1>5, GuestsStay DEF MakingStages
  <2> QED
    BY <1>1, <1>2, <1>3, <1>4, <2>1 DEF Outcome, LifecycleStep, KindStep, TInv, TemplateParts
<1>6. CASE s = "create"
  <2>1. WaitOK'
    BY <1>1, <1>6, InvParts DEF WaitOK, Aside
  <2>2. Ordered => Making = {}
    <3>1. target = None
      BY InvParts DEF WaitOK
    <3> QED
      BY <3>1, Constants DEF Ordered, Attended, Making
  <2>3. Ordered => Own' = {} /\ Making' = {}
    BY <1>3, <1>6, <2>2 DEF Own
  <2>4. Ordered => Ordered'
    BY <1>1, <1>6, <2>3 DEF Ordered, Single, Attended, Creating, Released
  <2>5. OrderOK'
    BY <2>4, InvParts DEF OrderOK, Aside
  <2> QED
    BY <1>1, <1>2, <1>3, <1>4, <2>1, <2>5 DEF Outcome, LifecycleStep, KindStep, TInv, TemplateParts
<1> QED
  BY <1>5, <1>6

LEMMA ImageSteps ==
    ASSUME TInv, HandleImageOperations
    PROVE  Outcome
<1>1. UNCHANGED <<log, guests, cachedId, cachedObj>> /\ Aside /\ pc = "image"
  BY DEF HandleImageOperations, cache, creations, Aside
<1>2. CacheOK' /\ copy # None /\ Held(Stored)
  BY <1>1, InvParts DEF CacheOK, Past
<1>3. Goto("available") \/ Requeue
  BY DEF HandleImageOperations
<1> QED
  BY <1>1, <1>2, <1>3, OnwardSteps, EndingSteps, GuestsStay

LEMMA StorageDownloadURLSteps ==
    ASSUME TInv, HandleStorageDownloadURL
    PROVE  Outcome
<1>1. UNCHANGED <<guests, cachedId, cachedObj>> /\ Aside /\ pc = "available"
  BY DEF HandleStorageDownloadURL, cache, creations, Aside
<1>2. CacheOK' /\ copy # None /\ Held(Stored)
  BY <1>1, InvParts DEF CacheOK, Past
<1>3. CASE UNCHANGED log /\ (Goto("check") \/ Requeue)
  BY <1>1, <1>2, <1>3, OnwardSteps, EndingSteps, GuestsStay
<1>4. CASE Store([Stored EXCEPT !.available = TRUE]) /\ GotoWith("check", [Stored EXCEPT !.available = TRUE])
  <2> DEFINE new == [Stored EXCEPT !.available = TRUE]
  <2>1. Stored \in Objects
    BY <1>2, InvParts DEF Held, Versions
  <2>2. new \in Objects /\ (Held(new) <=> Held(Stored)) /\ (Going(new) <=> Going(Stored))
    BY <2>1, ObjectWrites
  <2>3. PlaceOK' /\ pc' = "check"
    BY <1>4, <2>2, InvParts, Outcomes DEF Stages
  <2>4. Store(new)
    BY <1>4
  <2> HIDE DEF new
  <2>5. LogOK' /\ History' /\ Forgotten' /\ KindStep /\ Held(Stored)'
    BY <1>2, <2>2, <2>4, HoldingWrite DEF Holds, Versions
  <2>6. Past'
    BY <2>3, <2>5 DEF Past
  <2>7. GuestOK' /\ Unmoved /\ WaitOK' /\ OrderOK'
    BY <1>1, <2>3, GuestsStay
  <2> QED
    BY <1>1, <1>2, <2>3, <2>5, <2>6, <2>7 DEF Outcome, LifecycleStep, TInv, TemplateParts
<1> QED
  BY <1>3, <1>4 DEF HandleStorageDownloadURL

LEMMA CheckVMSteps ==
    ASSUME TInv, CheckVM
    PROVE  Outcome
<1>1. UNCHANGED <<log, guests>> /\ Aside /\ pc = "check"
  BY DEF CheckVM, creations, Aside
<1>2. copy # None /\ Held(Stored) /\ PlaceOK /\ GuestOK /\ CacheOK
  BY <1>1, InvParts DEF Past
<1>3. AfterCreation \in {"import", "idle"}
  BY DEF AfterCreation
<1>4. CASE Sought = {} /\ Goto("create") /\ UNCHANGED cache
  <2>1. Named = {}
    BY <1>2, <1>4 DEF Sought
  <2>2. CacheOK'
    BY <1>2, <1>4 DEF cache, CacheOK
  <2> QED
    BY <1>1, <1>2, <1>4, <2>1, <2>2, OnwardSteps
<1>5. ASSUME CacheOK', NEW s \in {"import", "idle", "update"}, Goto(s) PROVE Outcome
  <2>1. CASE s = "idle"
    BY <1>1, <1>5, <2>1, EndingSteps, GuestsStay DEF Goto
  <2>2. CASE s # "idle"
    BY <1>1, <1>2, <1>5, <2>2, OnwardSteps DEF MakingStages
  <2> QED
    BY <2>1, <2>2
<1>6. CASE Goto(AfterCreation) /\ UNCHANGED cache
  BY <1>2, <1>3, <1>5, <1>6 DEF cache, CacheOK
<1>7. ASSUME NEW i \in Ids, GetVirtualMachine(i), Goto(IF Differs(i) THEN "update" ELSE AfterCreation)
      PROVE  Outcome
  BY <1>2, <1>3, <1>5, <1>7, LookupKeepsCache
<1> QED
  BY <1>4, <1>6, <1>7 DEF CheckVM

\* The only step that starts the creation of a guest.
LEMMA CreateVMTemplateSteps ==
    ASSUME TInv, CreateVMTemplate
    PROVE  Outcome
<1>1. UNCHANGED <<log, guests, cachedId, cachedObj>> /\ pc = "create"
  BY DEF CreateVMTemplate, cache
<1>2. /\ copy \in Objects /\ copy # None /\ Held(Stored) /\ GuestOK /\ WaitOK /\ target = None
      /\ astray \/ (Own = {} /\ Ordered)
  BY <1>1, InvParts DEF Past, Creating, OrderOK, Ordered, WaitOK
<1>3. CacheOK'
  BY <1>1, InvParts DEF CacheOK
<1>4. LogOK' /\ History' /\ Forgotten' /\ Kind' = Kind
  BY <1>1, SameResource
<1> DEFINE new == [config |-> copy.config, done |-> {}, disks |-> 0]
           started(i) == [making EXCEPT ![i] = new]
<1>5. PICK i \in Ids :
        /\ NextId(i)
        /\ \/ making' = started(i) /\ target' = i /\ UNCHANGED astray /\ Goto("await")
           \/ UNCHANGED creations /\ Requeue
           \/ making' = started(i) /\ astray' = TRUE /\ UNCHANGED target /\ Requeue
  BY DEF CreateVMTemplate
<1>6. new \in Guests
  BY <1>2, Constants DEF Objects, Guests
<1> HIDE DEF new
<1>7. CASE UNCHANGED creations /\ Requeue
  <2>1. Aside
    BY <1>7 DEF creations, Aside
  <2> QED
    BY <1>1, <1>3, <1>7, <2>1, EndingSteps, GuestsStay
<1>8. ASSUME making' = started(i), astray' \in {astray, TRUE}
      PROVE  /\ GuestOK' /\ Making' = Making \cup {i} /\ Own' = Own \cup {i} /\ Makes
  <2>1. guests[i] = None /\ making[i] = None /\ None \notin Guests
    BY <1>5, Constants DEF NextId, Free
  <2>2. GuestOK'
    BY <1>1, <1>2, <1>6, <1>8, <2>1 DEF GuestOK
  <2>3. Making' = Making \cup {i} /\ Named' = Named
    BY <1>1, <1>2, <1>6, <1>8, <2>1 DEF GuestOK, Making, Named
  <2>4. Own' = Own \cup {i} /\ i \notin Own
    BY <2>1, <2>3 DEF Own, Making, Named
  <2>5. Kind = "held"
    BY <1>2 DEF Kind, Held
  <2> QED
    BY <1>2, <1>8, <2>2, <2>3, <2>4, <2>5 DEF Makes
<1>9. CASE making' = started(i) /\ astray' = TRUE /\ UNCHANGED target /\ Requeue
  <2>1. PlaceOK' /\ pc' = "idle"
    BY <1>9, InvParts, Outcomes
  <2>2. Past'
    BY <1>4, <2>1, NowhereSpecial
  <2>3. WaitOK' /\ OrderOK'
    BY <1>2, <1>9, <2>1 DEF WaitOK, OrderOK
  <2> QED
    BY <1>3, <1>4, <1>8, <1>9, <2>1, <2>2, <2>3 DEF Outcome, LifecycleStep, OwnStep, TInv, TemplateParts
<1>10. CASE making' = started(i) /\ target' = i /\ UNCHANGED astray /\ Goto("await")
  <2>1. PlaceOK' /\ pc' = "await"
    BY <1>2, <1>10, InvParts, Outcomes DEF Stages
  <2>2. Past'
    BY <1>4, <2>1 DEF Past
  <2>3. WaitOK'
    BY <1>2, <1>10, <2>1, Constants DEF WaitOK
  <2>4. OrderOK'
    <3>1. CASE astray
      BY <1>10, <3>1 DEF OrderOK
    <3>2. CASE Own = {}
      <4>1. Own' = {i} /\ Making' = {i}
        BY <1>8, <1>10, <3>2 DEF Own
      <4> QED
        BY <1>10, <2>1, <4>1 DEF OrderOK, Ordered, Single, Attended, Creating, Released
    <3> QED
      BY <1>2, <3>1, <3>2
  <2> QED
    BY <1>3, <1>4, <1>8, <1>10, <2>1, <2>2, <2>3, <2>4 DEF Outcome, LifecycleStep, OwnStep, TInv, TemplateParts
<1> QED
  BY <1>5, <1>7, <1>9, <1>10

\* The wait ends with the guest there, without one, or with it left under way.
LEMMA AwaitSteps ==
    ASSUME TInv, AwaitVMTemplate
    PROVE  Outcome
<1>1. UNCHANGED <<log, guests, cachedId, cachedObj>> /\ pc = "await" /\ target' = None
  BY DEF AwaitVMTemplate, cache
<1>2. copy # None /\ GuestOK /\ WaitOK /\ OrderOK /\ target \in Ids /\ astray \in BOOLEAN
  BY <1>1, InvParts DEF WaitOK
<1>3. CacheOK' /\ Named' = Named
  BY <1>1, InvParts DEF CacheOK, Named
<1>4. LogOK' /\ History' /\ Forgotten' /\ Kind' = Kind
  BY <1>1, SameResource
<1>5. Ordered => Own \subseteq {target} /\ Making \subseteq {target}
  BY <1>1 DEF Ordered, Attended, Creating
<1>6. ASSUME PlaceOK', pc' \in {"idle", "extra"}, GuestOK', Own' \subseteq Own, Making' \subseteq Making,
             astray' \in BOOLEAN, ~astray' => Ordered /\ target \notin Making', LifecycleStep
      PROVE  Outcome
  <2>1. Past'
    BY <1>4, <1>6, NowhereSpecial DEF MakingStages
  <2>2. WaitOK'
    BY <1>1, <1>6 DEF WaitOK
  <2>3. ~astray' => Making' = {} /\ Own' \subseteq {target}
    BY <1>5, <1>6
  <2>4. OrderOK'
    BY <1>6, <2>3 DEF OrderOK, Ordered, Single, Attended, Creating, Released
  <2> QED
    BY <1>3, <1>4, <1>6, <2>1, <2>2, <2>4 DEF Outcome, TInv, TemplateParts
<1>7. CASE target \notin Making /\ Goto("extra") /\ UNCHANGED <<making, astray>>
  <2>1. PlaceOK' /\ pc' = "extra"
    BY <1>2, <1>7, InvParts, Outcomes DEF Stages
  <2>2. GuestOK' /\ Own' = Own /\ Making' = Making
    BY <1>1, <1>2, <1>3, <1>7 DEF GuestOK, Own, Making
  <2>3. LifecycleStep
    BY <1>4, <1>7, <2>2 DEF LifecycleStep, KindStep, Unmoved
  <2>4. ~astray' => Ordered
    BY <1>2, <1>7 DEF OrderOK
  <2> QED
    BY <1>2, <1>6, <1>7, <2>1, <2>2, <2>3, <2>4
<1>8. CASE /\ making' \in {making, [making EXCEPT ![target] = None]}
           /\ astray' = (astray \/ making'[target] # None)
           /\ Requeue
  <2>1. PlaceOK' /\ pc' = "idle"
    BY <1>8, InvParts, Outcomes
  <2>4. astray' = (astray \/ making'[target] # None)
    BY <1>8
  <2>2. CASE making' = [making EXCEPT ![target] = None]
    <3>1. making'[target] = None /\ astray' = astray
      <4>1. making'[target] = None
        BY <1>2, <2>2 DEF GuestOK
      <4>2. astray' = astray
        BY <1>2, <2>4, <4>1, Zenon
      <4> QED
        BY <4>1, <4>2
    <3>2. target \notin Making'
      BY <3>1 DEF Making
    <3>3. ~astray' => Ordered
      BY <1>2, <3>1 DEF OrderOK
    <3>4. CASE target \in Making
      <4>1. GuestOK' /\ Loses
        BY <1>1, <2>2, <3>1, <3>4, CreationGone
      <4>2. Own' \subseteq Own /\ Making' \subseteq Making
        BY <4>1 DEF Loses
      <4>3. LifecycleStep
        BY <1>4, <4>1 DEF LifecycleStep, OwnStep
      <4> QED
        BY <1>2, <1>6, <2>1, <3>1, <3>2, <3>3, <4>1, <4>2, <4>3
    <3>5. CASE target \notin Making
      <4>1. making' = making
        BY <1>2, <2>2, <3>5 DEF GuestOK, Making
      <4>2. GuestOK' /\ Own' = Own /\ Making' = Making
        BY <1>1, <1>2, <1>3, <4>1 DEF GuestOK, Own, Making
      <4>3. LifecycleStep
        BY <1>4, <3>1, <4>2 DEF LifecycleStep, KindStep, Unmoved
      <4> QED
        BY <1>2, <1>6, <2>1, <3>1, <3>2, <3>3, <4>2, <4>3
    <3> QED
      BY <3>4, <3>5
  <2>3. CASE making' = making
    <3>1. GuestOK' /\ Own' = Own /\ Making' = Making
      BY <1>1, <1>2, <1>3, <2>3 DEF GuestOK, Own, Making
    <3>2. CASE making[target] # None
      <4>1. astray' = TRUE
        BY <1>8, <2>3, <3>2
      <4>2. LifecycleStep
        BY <1>2, <1>4, <3>1, <3>2, <4>1 DEF LifecycleStep, OwnStep, Strays, Making
      <4> QED
        BY <1>6, <2>1, <3>1, <4>1, <4>2
    <3>3. CASE making[target] = None
      <4>1. astray' = astray
        <5>1. making'[target] = None
          BY <2>3, <3>3
        <5> QED
          BY <1>2, <2>4, <5>1, Zenon
      <4>2. LifecycleStep
        BY <1>4, <3>1, <4>1 DEF LifecycleStep, KindStep, Unmoved
      <4>3. ~astray' => Ordered /\ target \notin Making'
        BY <1>2, <3>1, <3>3, <4>1 DEF OrderOK, Making
      <4> QED
        BY <1>2, <1>6, <2>1, <3>1, <4>1, <4>2, <4>3
    <3> QED
      BY <3>2, <3>3
  <2> QED
    BY <1>8, <2>2, <2>3
<1> QED
  BY <1>7, <1>8 DEF AwaitVMTemplate

LEMMA GuestMakingSteps ==
    ASSUME TInv,
           UpdateVirtualMachineTemplate \/ ApplyAdditionalConfiguration \/ AddTagToVMTemplate
           \/ ImportDiskToVM \/ AddCloudInitDrive \/ EmptyCloudInitConfig \/ SetCloudInitConfig
           \/ SetBootOrder \/ ConvertVMToTemplate
    PROVE  Outcome
<1>1. pc # "idle"
  BY DEF UpdateVirtualMachineTemplate, ApplyAdditionalConfiguration, AddTagToVMTemplate, ImportDiskToVM,
         AddCloudInitDrive, EmptyCloudInitConfig, SetCloudInitConfig, SetBootOrder, ConvertVMToTemplate
<1>2. PlaceOK /\ GuestOK /\ CacheOK /\ copy # None
  BY <1>1, InvParts
<1>3. WasMade /\ CacheOK' /\ log' = log /\ Aside /\ pc # "await"
  BY <1>2, MakingSteps
<1>4. LogOK' /\ History' /\ Forgotten' /\ Kind' = Kind
  BY <1>3, SameResource
<1>5. GuestOK' /\ Own' = Own /\ Making' = Making /\ Unmoved
  <2>1. Named' = Named /\ Making' = Making
    BY <1>3 DEF WasMade, SameGuests, Named, Making, Aside
  <2>2. GuestOK'
    BY <1>2, <1>3 DEF WasMade, SameGuests, GuestOK, Aside
  <2> QED
    BY <1>3, <2>1, <2>2 DEF Own, Unmoved, Aside
<1>6. WaitOK' /\ OrderOK'
  BY <1>3, <1>5, OrderGoesOn DEF WasMade, MakingStages, Aside
<1>7. Past'
  BY <1>3, <1>4, NowhereSpecial DEF WasMade
<1> QED
  BY <1>3, <1>4, <1>5, <1>6, <1>7 DEF WasMade, Outcome, LifecycleStep, KindStep, TInv, TemplateParts

LEMMA MarkDeletingSteps ==
    ASSUME TInv, MarkDeleting
    PROVE  Outcome
<1>1. UNCHANGED <<guests, cachedId, cachedObj>> /\ Aside /\ pc = "mark"
  BY DEF MarkDeleting, cache, creations, Aside
<1>2. CacheOK' /\ Spent
  BY <1>1, InvParts DEF CacheOK, Past
<1>3. CASE Stored = None
  BY <1>1, <1>2, <1>3, EndingSteps, GuestsStay DEF MarkDeleting
<1>4. CASE Stored # None
  <2> DEFINE new == [Stored EXCEPT !.marked = TRUE]
  <2>1. Stored \in Objects
    BY <1>4, InvParts DEF Versions
  <2>2. new \in Objects /\ (Held(new) <=> Held(Stored)) /\ (Going(new) <=> Going(Stored)) /\ new.marked
    BY <2>1, ObjectWrites
  <2>3. Store(new) /\ GotoWith(Deletion(new), new)
    BY <1>4 DEF MarkDeleting
  <2> HIDE DEF new
  <2>4. Deletion(new) \in {"release", "destroy"} /\ (Deletion(new) = "release" => new.protected)
    BY <2>2 DEF Deletion
  <2>5. PlaceOK' /\ pc' = Deletion(new) /\ copy' = new
    BY <2>2, <2>3, <2>4, InvParts, Outcomes DEF Stages
  <2>6. LogOK' /\ History' /\ Forgotten' /\ KindStep /\ Spent'
    BY <1>2, <2>2, <2>3, HoldingWrite DEF Holds, Versions
  <2>7. Past'
    BY <2>4, <2>5, <2>6 DEF Past
  <2>8. GuestOK' /\ Own' = Own /\ Making' = Making /\ Unmoved
    BY <1>1, GuestsStay
  <2>9. WaitOK'
    BY <1>1, <2>4, <2>5, InvParts DEF WaitOK, Aside
  <2>10. OrderOK'
    <3>1. CASE astray
      BY <1>1, <3>1 DEF OrderOK, Aside
    <3>2. CASE Ordered
      BY <1>1, <2>4, <2>5, <2>8, <3>2 DEF OrderOK, Ordered, Single, Attended, Creating, Released, Aside
    <3> QED
      BY <3>1, <3>2, InvParts DEF OrderOK
  <2> QED
    BY <1>1, <1>2, <2>5, <2>6, <2>7, <2>8, <2>9, <2>10 DEF Outcome, LifecycleStep, TInv, TemplateParts
<1> QED
  BY <1>3, <1>4

LEMMA DeleteVMSteps ==
    ASSUME TInv, DeleteVM
    PROVE  Outcome
<1>1. log' = log /\ Aside /\ pc = "destroy"
  BY DEF DeleteVM, creations, Aside
<1>2. copy # None /\ Spent /\ GuestOK /\ CacheOK
  BY <1>1, InvParts DEF Past
<1>3. CASE Lost /\ Refused /\ UNCHANGED cache
  <2>1. CacheOK'
    BY <1>2, <1>3 DEF cache, CacheOK
  <2> QED
    BY <1>1, <1>3, <2>1, EndingSteps, GuestsStay DEF Refused
<1>4. ASSUME NEW i \in Ids, Found(i),
             IF guests[i] = None THEN Refused /\ GetVirtualMachine(i)
             ELSE /\ \/ guests' = [guests EXCEPT ![i] = None] /\ Goto("release") /\ NoFault
                     \/ UNCHANGED guests /\ Requeue /\ Error
                     \/ guests' = [guests EXCEPT ![i] = None] /\ Requeue /\ Fault("vanished")
                  /\ IF pc' = "release"
                     THEN cachedId' = None /\ cachedObj' = [cachedObj EXCEPT ![i] = None]
                     ELSE GetVirtualMachine(i)
      PROVE  Outcome
  <2>1. CacheOK'
    <3>1. CASE GetVirtualMachine(i)
      BY <1>2, <1>4, <3>1, LookupKeepsCache
    <3>2. CASE cachedId' = None /\ cachedObj' = [cachedObj EXCEPT ![i] = None]
      BY <1>2, <3>2 DEF CacheOK
    <3> QED
      BY <1>4, <3>1, <3>2
  <2>2. CASE UNCHANGED guests /\ Requeue
    BY <1>1, <2>1, <2>2, EndingSteps, GuestsStay
  <2>3. CASE guests[i] # None /\ guests' = [guests EXCEPT ![i] = None] /\ Requeue
    BY <1>1, <1>4, <2>1, <2>3, EndingSteps, GuestGoes
  <2>4. CASE guests[i] # None /\ guests' = [guests EXCEPT ![i] = None] /\ Goto("release")
    <3>1. GuestOK' /\ Loses /\ Own' \subseteq Own \ {i} /\ Making' = Making
      BY <1>1, <1>4, <2>4, GuestGoes
    <3>2. PlaceOK' /\ pc' = "release"
      BY <1>2, <2>4, InvParts, Outcomes DEF Stages
    <3>3. LogOK' /\ History' /\ Forgotten' /\ Kind' = Kind /\ Spent'
      BY <1>1, <1>2, SameResource
    <3>4. Past'
      BY <3>2, <3>3 DEF Past
    <3>5. WaitOK'
      BY <1>1, <3>2, InvParts DEF WaitOK, Aside
    <3>6. OrderOK'
      <4>1. CASE astray
        BY <1>1, <4>1 DEF OrderOK, Aside
      <4>2. CASE Ordered
        <5>1. i \in Own
          BY <1>4, <2>4 DEF Own, Named
        <5>2. Own' = {}
          BY <3>1, <4>2, <5>1 DEF Ordered, Single
        <5>3. Making' = {}
          BY <5>2 DEF Own
        <5> QED
          BY <3>2, <5>2, <5>3 DEF OrderOK, Ordered, Single, Attended, Creating, Released
      <4> QED
        BY <4>1, <4>2, InvParts DEF OrderOK
    <3> QED
      BY <2>1, <3>1, <3>2, <3>3, <3>4, <3>5, <3>6 DEF Outcome, LifecycleStep, OwnStep, TInv, TemplateParts
  <2> QED
    BY <1>4, <2>2, <2>3, <2>4 DEF Refused
<1> QED
  BY <1>3, <1>4 DEF DeleteVM

LEMMA RemoveFinalizerSteps ==
    ASSUME TInv, RemoveFinalizer
    PROVE  Outcome
<1>1. UNCHANGED <<guests, cachedId, cachedObj>> /\ Aside /\ pc = "release"
  BY DEF RemoveFinalizer, cache, creations, Aside
<1>2. /\ copy \in Objects /\ copy # None /\ Spent /\ LogOK
      /\ Own = {} \/ copy.protected \/ astray
  BY <1>1, InvParts DEF Past, OrderOK, Ordered, Released
<1>3. CacheOK'
  BY <1>1, InvParts DEF CacheOK
<1>4. CASE UNCHANGED log /\ (Return \/ Requeue)
  BY <1>1, <1>3, <1>4, EndingSteps, GuestsStay
<1>5. CASE /\ Stored = copy /\ Return
           /\ Store(IF copy.deleting THEN None ELSE [copy EXCEPT !.finalizer = FALSE])
  <2> DEFINE v == IF copy.deleting THEN None ELSE [copy EXCEPT !.finalizer = FALSE]
  <2>1. v \in Versions /\ ~Held(v) /\ (~copy.deleting => v # None)
    <3> DEFINE bare == [copy EXCEPT !.finalizer = FALSE]
    <3>1. bare \in Objects /\ ~Held(bare)
      <4>1. copy \in Objects
        BY <1>2
      <4>2. bare \in Objects /\ ~bare.finalizer
        BY <4>1 DEF Objects
      <4> QED
        BY <4>2 DEF Held
    <3>2. bare # None /\ ~Held(None)
      BY <3>1, Constants DEF Held
    <3>3. v = IF copy.deleting THEN None ELSE bare
      OBVIOUS
    <3> HIDE DEF bare, v
    <3> QED
      BY <3>1, <3>2, <3>3 DEF Versions
  <2>2. Store(v)
    BY <1>5
  <2>3. ~copy.deleting => ~Held(Stored)
    <3>1. Len(log) \in 1..Len(log) /\ Stored = log[Len(log)]
      BY <1>2, LogEnds, Constants DEF LogOK
    <3>2. Held(Stored) => Going(Stored)
      BY <1>2, <3>1 DEF Spent
    <3> QED
      BY <1>5, <3>2 DEF Going
  <2> HIDE DEF v
  <2>4. LogOK' /\ Stored' = v
    BY <1>2, <2>1, <2>2, StoreKeepsLog
  <2>5. History' /\ Forgotten'
    BY <1>2, <2>1, <2>2, ReleaseKeepsHistory
  <2>6. PlaceOK' /\ pc' = "idle"
    BY <1>5, InvParts, Outcomes
  <2>7. Past'
    BY <2>5, <2>6, NowhereSpecial
  <2>9. GuestOK' /\ Unmoved /\ WaitOK' /\ OrderOK'
    BY <1>1, <2>6, GuestsStay
  <2>8. KindStep
    <3>1. CASE ~Held(Stored)
      BY <1>2, <1>5, <2>1, <2>4, <3>1 DEF KindStep, Kind, Held
    <3>2. CASE Held(Stored)
      <4>1. v = None
        BY <2>3, <3>2 DEF v
      <4> QED
        BY <1>2, <1>5, <2>4, <3>2, <4>1 DEF KindStep, Kind, Held, Spared
    <3> QED
      BY <3>1, <3>2
  <2> QED
    BY <1>1, <1>3, <2>4, <2>6, <2>7, <2>8, <2>9 DEF Outcome, LifecycleStep, TInv, TemplateParts
<1> QED
  BY <1>4, <1>5 DEF RemoveFinalizer

LEMMA ReconcileErrorSteps ==
    ASSUME TInv, ReconcileError
    PROVE  Outcome
<1>1. UNCHANGED <<log, guests, cachedId, cachedObj>> /\ Aside /\ Requeue /\ pc # "await"
  BY DEF ReconcileError, cache, creations, Aside
<1>2. CacheOK'
  BY <1>1, InvParts DEF CacheOK
<1> QED
  BY <1>1, <1>2, EndingSteps, GuestsStay

LEMMA RestartSteps ==
    ASSUME TInv, Restart
    PROVE  Outcome
<1>1. /\ UNCHANGED <<guests, making>> /\ target' = None /\ log' = <<Stored>> /\ pc' = "idle" /\ copy' = None
      /\ queue' = (Stored # None) /\ cachedId' = None /\ cachedObj' = [i \in Ids |-> None]
  BY DEF Restart
<1>2. LogOK' /\ Stored' = Stored /\ History' /\ Forgotten'
  BY <1>1, InvParts, RestartKeepsLog, RestartKeepsHistory
<1>3. Kind' = Kind
  BY <1>2 DEF Kind
<1>4. Past'
  BY <1>1, <1>2, NowhereSpecial
<1>5. queue' \in BOOLEAN
  BY <1>1
<1>6. PlaceOK' /\ CacheOK'
  BY <1>1, <1>5 DEF PlaceOK, CacheOK, Stages, Versions
<1>7. GuestOK' /\ Own' = Own /\ Making' = Making
  BY <1>1, InvParts DEF GuestOK, Own, Named, Making
<1>8. \/ Making = {} /\ astray' = astray
      \/ Making # {} /\ astray' = TRUE
  <2>1. astray \in BOOLEAN /\ astray' = (astray \/ Making # {})
    BY InvParts DEF Restart, WaitOK
  <2>2. CASE Making = {}
    BY <2>1, <2>2
  <2>3. CASE Making # {}
    BY <2>1, <2>3
  <2> QED
    BY <2>2, <2>3
<1>9. WaitOK'
  BY <1>1, <1>8, InvParts DEF WaitOK
<1>10. OrderOK'
  BY <1>1, <1>7, <1>8, InvParts DEF OrderOK, Ordered, Single, Attended, Creating, Released
<1>11. LifecycleStep
  BY <1>3, <1>7, <1>8 DEF LifecycleStep, KindStep, OwnStep, Unmoved, Strays
<1> QED
  BY <1>2, <1>4, <1>6, <1>7, <1>9, <1>10, <1>11 DEF Outcome, TInv, TemplateParts

------------------------------------------------------------------------------
(* Every step *)

\* A step of the template's reconcile.
LEMMA ReconcileSteps ==
    ASSUME TInv, Reconcile
    PROVE  Outcome
BY GetSteps, HandleFinalizerSteps, ImageSteps, StorageDownloadURLSteps, CheckVMSteps,
   CreateVMTemplateSteps, AwaitSteps, GuestMakingSteps, MarkDeletingSteps, DeleteVMSteps, RemoveFinalizerSteps
   DEF Reconcile

LEMMA TemplateSteps ==
    ASSUME TInv, [Next]_vars
    PROVE  Outcome
<1>1. CASE CollectGarbage \/ UserDeleteDownload
  <2>1. Aside /\ UNCHANGED <<log, queue, pc, copy, guests, cachedId, cachedObj>>
    BY <1>1 DEF CollectGarbage, UserDeleteDownload, reconcile, cache, creations, Aside
  <2> QED
    BY <2>1, ApartSteps
<1>2. CASE DownloadReconcile \/ DownloadDeliver \/ DownloadEnds \/ DownloadTrouble
  <2>1. Aside /\ UNCHANGED <<log, queue, pc, copy, guests, cachedId, cachedObj>>
    BY <1>2 DEF DownloadReconcile, DownloadDeliver, DownloadEnds, DownloadTrouble, Apart, reconcile, cache, creations, Aside
  <2> QED
    BY <2>1, ApartSteps
<1>3. CASE UNCHANGED vars
  <2>1. Aside /\ UNCHANGED <<log, queue, pc, copy, guests, cachedId, cachedObj>>
    BY <1>3 DEF vars, reconcile, cache, creations, Aside
  <2> QED
    BY <2>1, ApartSteps
<1> QED
  BY <1>1, <1>2, <1>3, UserSteps, DestroyedSteps, CreationEndsSteps, DeliverSteps, PollSteps, ReconcileSteps,
     ReconcileErrorSteps, RestartSteps DEF Next

\* One of the reconcile writes the StorageDownloadURL: it creates it.
LEMMA ImageStepsOfDownload ==
    ASSUME DParts, HandleImageOperations
    PROVE  DParts' /\ Goes
<1>1. UNCHANGED <<dqueue, dpc, dcopy, file, task, faults, happened>>
  BY DEF HandleImageOperations, worker, storage, trouble
<1>2. DPlaceOK' /\ StorageOK' /\ Watched' /\ DLogOK
  BY <1>1 DEF DParts, DPlaceOK, StorageOK, Watched, Clean
<1>3. CASE dlog' = dlog
  BY <1>2, <1>3 DEF DParts, DLogOK, DStored, Goes
<1>4. CASE DStored = None /\ DStore(CreatedDownload)
  <2>1. CreatedDownload \in DVersions
    BY DEF CreatedDownload, Downloads, DVersions
  <2>2. DLogOK'
    BY <1>2, <1>4, <2>1, DStoreKeepsLog
  <2> QED
    BY <1>2, <1>4, <2>2 DEF DParts, Goes
<1> QED
  BY <1>3, <1>4 DEF HandleImageOperations

\* The other steps of the template leave the StorageDownloadURL and its file alone.
LEMMA DownloadStays ==
    ASSUME DParts, UNCHANGED <<dlog, dqueue, dpc, dcopy, file, task>>, faults' \in 0..MaxFaults,
           Clean' => Clean
    PROVE  DParts' /\ Goes
BY DEF DParts, DLogOK, DPlaceOK, StorageOK, Watched, Goes, DStored

LEMMA RestartStepsOfDownload ==
    ASSUME DParts, Restart
    PROVE  DParts' /\ Goes
<1>1. DLogOK /\ DPlaceOK /\ StorageOK /\ Watched
  BY DEF DParts
<1>2. /\ dlog' = <<DStored>> /\ dpc' = "idle" /\ dcopy' = None /\ dqueue' = (DStored # None)
      /\ UNCHANGED <<file, task>>
  BY DEF Restart, storage
<1>3. DLogOK' /\ DStored' = DStored
  BY <1>1, <1>2, DRestartKeepsLog
<1>4. faults' \in 0..MaxFaults
  BY <1>1, Troubles DEF Restart
<1>5. Watched'
  <2>1. CASE dpc = "wait"
    BY <1>1, <2>1, Troubles DEF Restart, Watched
  <2>2. CASE dpc # "wait"
    BY <1>1, <1>2, <2>2, Troubles DEF Restart, Watched
  <2> QED
    BY <2>1, <2>2
<1>6. dqueue' \in BOOLEAN
  BY <1>2
<1>7. DPlaceOK' /\ StorageOK'
  BY <1>1, <1>2, <1>4, <1>6 DEF DPlaceOK, StorageOK, DStages, DVersions
<1> QED
  BY <1>3, <1>5, <1>7 DEF DParts, Goes

\* Whatever fails, a call of the template's reconcile counts at most one fault.
LEMMA ReconcileStepsOfDownload ==
    ASSUME DParts, Reconcile \/ ReconcileError, ~HandleImageOperations
    PROVE  DParts' /\ Goes
<1>1. StorageOK
  BY DEF DParts
<1> DEFINE Quiet == UNCHANGED <<dlog, dqueue, dpc, dcopy, file, task>>
           Counts == faults' \in 0..MaxFaults /\ (Clean' => Clean)
<1>2. UNCHANGED dvars => Quiet /\ Counts
  BY <1>1, Troubles DEF dvars, resource, worker, storage, NoFault
<1>3. UNCHANGED download => Quiet
  BY DEF download, resource, worker, storage
<1>4. (NoFault \/ Error) => Counts
  BY <1>1, Troubles
<1>5. \A kind : Fault(kind) => Counts
  BY <1>1, Troubles
<1>6. \A g, s : Call(g, s) \/ Trusted(g, s) \/ Careless(g, s) \/ Refused => Counts
  BY <1>4, <1>5 DEF Call, Trusted, Careless, Refused
<1> HIDE DEF Quiet, Counts
<1>7. Quiet
  BY <1>2, <1>3
     DEF Reconcile, Get, HandleFinalizer, HandleStorageDownloadURL, CheckVM, CreateVMTemplate, AwaitVMTemplate,
         UpdateVirtualMachineTemplate, ApplyAdditionalConfiguration, AddTagToVMTemplate,
         ImportDiskToVM, AddCloudInitDrive, EmptyCloudInitConfig, SetCloudInitConfig, SetBootOrder,
         ConvertVMToTemplate, MarkDeleting, DeleteVM, RemoveFinalizer, ReconcileError
<1>8. Counts
  <2>1. CASE Get \/ HandleFinalizer \/ HandleStorageDownloadURL \/ CheckVM \/ MarkDeleting
             \/ RemoveFinalizer
    BY <1>2, <2>1 DEF Get, HandleFinalizer, HandleStorageDownloadURL, CheckVM, MarkDeleting, RemoveFinalizer
  <2>2. CASE CreateVMTemplate \/ AwaitVMTemplate
    BY <1>4, <2>2 DEF CreateVMTemplate, AwaitVMTemplate
  <2>3. CASE UpdateVirtualMachineTemplate
    BY <1>6, <2>3 DEF UpdateVirtualMachineTemplate, OnGuest
  <2>4. CASE ApplyAdditionalConfiguration \/ AddTagToVMTemplate
    BY <1>6, <2>4 DEF ApplyAdditionalConfiguration, AddTagToVMTemplate, OnGuest
  <2>5. CASE ImportDiskToVM
    BY <1>4, <1>6, <2>5 DEF ImportDiskToVM, OnGuest
  <2>6. CASE AddCloudInitDrive
    BY <1>6, <2>6 DEF AddCloudInitDrive, OnGuest
  <2>7. CASE EmptyCloudInitConfig
    BY <1>4, <1>6, <2>7 DEF EmptyCloudInitConfig, OnGuest
  <2>8. CASE SetCloudInitConfig
    BY <1>6, <2>8 DEF SetCloudInitConfig, OnGuest
  <2>9. CASE SetBootOrder
    BY <1>6, <2>9 DEF SetBootOrder, OnGuest
  <2>10. CASE ConvertVMToTemplate
    BY <1>4, <1>6, <2>10 DEF ConvertVMToTemplate, OnGuest
  <2>11. CASE DeleteVM
    BY <1>4, <1>5, <2>11 DEF DeleteVM, Refused
  <2>12. CASE ReconcileError
    BY <1>4, <2>12 DEF ReconcileError
  <2> QED
    BY <2>1, <2>2, <2>3, <2>4, <2>5, <2>6, <2>7, <2>8, <2>9, <2>10, <2>11, <2>12 DEF Reconcile
<1> QED
  BY <1>7, <1>8, DownloadStays DEF Quiet, Counts

LEMMA DownloadSteps ==
    ASSUME DParts, [Next]_vars
    PROVE  DParts' /\ Goes
<1>1. StorageOK
  BY DEF DParts
<1>2. UNCHANGED dvars => DParts' /\ Goes
  BY <1>1, Troubles, DownloadStays DEF dvars, resource, worker, storage, NoFault
<1>3. CASE CollectGarbage
  <2>1. faults' \in 0..MaxFaults /\ (Clean' => Clean)
    BY <1>1, <1>3, Troubles DEF CollectGarbage, NoFault
  <2> QED
    BY <1>3, <2>1, DeleteSteps DEF CollectGarbage
<1>4. CASE UserDeleteDownload
  <2>1. faults' \in 0..MaxFaults /\ (Clean' => Clean)
    BY <1>1, <1>4, Troubles DEF UserDeleteDownload
  <2> QED
    BY <1>4, <2>1, DeleteSteps DEF UserDeleteDownload
<1>5. CASE DownloadReconcile
  BY <1>5, DGetSteps, DWriteSteps, DCallSteps, DReleaseSteps DEF DownloadReconcile, DReconcile
<1>6. CASE DownloadDeliver \/ DownloadEnds \/ DownloadTrouble
  BY <1>6, FileSteps, DCallSteps DEF DownloadDeliver, DownloadEnds, DownloadTrouble
<1>7. CASE UserCreate \/ UserDelete \/ Deliver \/ Poll \/ (\E i \in Ids : CreationEnds(i)) \/ UNCHANGED vars
  BY <1>2, <1>7 DEF UserCreate, UserDelete, Deliver, Poll, CreationEnds, vars
<1>8. ASSUME UserEdit \/ \E i \in Ids : Destroyed(i) PROVE DParts' /\ Goes
  <2>1. faults' \in 0..MaxFaults /\ (Clean' => Clean)
    BY <1>1, <1>8, Troubles DEF Destroyed, UserEdit
  <2>2. UNCHANGED <<dlog, dqueue, dpc, dcopy, file, task>>
    BY <1>8 DEF Destroyed, UserEdit, download, resource, worker, storage
  <2> QED
    BY <2>1, <2>2, DownloadStays
<1> QED
  BY <1>3, <1>4, <1>5, <1>6, <1>7, <1>8, ImageStepsOfDownload, ReconcileStepsOfDownload,
     RestartStepsOfDownload DEF Next

------------------------------------------------------------------------------
(* The theorems *)

Inv == TInv /\ DParts /\ UserOK

LEMMA InvType == Inv => TypeOK
BY PartsType DEF Inv, TInv, DParts, Parts

LEMMA InvInitially == Init => Inv
<1> SUFFICES ASSUME Init PROVE Inv
  OBVIOUS
<1>1. MaxLag \in Nat /\ MaxFaults \in Nat /\ None \notin Objects
  BY Constants
<1>2. /\ log = <<None>> /\ queue = FALSE /\ pc = "idle" /\ copy = None /\ owner = FALSE
      /\ guests = [i \in Ids |-> None] /\ making = [i \in Ids |-> None] /\ target = None
      /\ astray = FALSE /\ cachedId = None /\ cachedObj = [i \in Ids |-> None]
      /\ dlog = <<None>> /\ dqueue = FALSE /\ dpc = "idle" /\ dcopy = None
      /\ file = FALSE /\ task = FALSE /\ faults = 0
  BY DEF Init, DInit
<1>3. log \in Seq(Versions) /\ Len(log) = 1 /\ log[1] = None
  BY <1>2 DEF Versions
<1>4. dlog \in Seq(DVersions) /\ Len(dlog) = 1
  BY <1>2 DEF DVersions
<1>5. LogOK /\ DLogOK
  BY <1>1, <1>3, <1>4 DEF LogOK, DLogOK
<1>6. PlaceOK /\ GuestOK /\ WaitOK /\ CacheOK /\ UserOK /\ DPlaceOK /\ StorageOK
  <2>1. PlaceOK
    BY <1>2 DEF PlaceOK, Stages, Versions
  <2>2. GuestOK /\ WaitOK /\ CacheOK
    BY <1>2 DEF GuestOK, WaitOK, CacheOK
  <2>3. UserOK
    BY <1>2 DEF UserOK
  <2>4. DPlaceOK
    BY <1>2 DEF DPlaceOK, DStages, DVersions
  <2>5. StorageOK
    <3>1. file \in BOOLEAN /\ task \in BOOLEAN
      BY <1>2
    <3>2. faults \in 0..MaxFaults
      BY <1>1, <1>2
    <3> QED
      BY <3>1, <3>2 DEF StorageOK
  <2> QED
    BY <2>1, <2>2, <2>3, <2>4, <2>5
<1>7. Past
  <2>1. \A k \in 1..Len(log) : ~Held(log[k])
    BY <1>3 DEF Held
  <2> QED
    BY <1>2, <2>1 DEF Past, History, Forgotten, Spent
<1>8. OrderOK /\ Watched
  BY <1>2 DEF OrderOK, Ordered, Single, Attended, Creating, Released, Watched, Own, Named, Making
<1> QED
  BY <1>5, <1>6, <1>7, <1>8 DEF Inv, TInv, TemplateParts, DParts

LEMMA UserStays ==
    ASSUME TInv, UserOK, [Next]_vars
    PROVE  UserOK'
<1>1. CASE UserCreate \/ UserEdit \/ UserDelete
  BY <1>1, UserSteps
<1>2. CASE HandleImageOperations
  <2>1. owner' = owner \/ owner' = (Stored # None)
    BY <1>2 DEF HandleImageOperations
  <2> QED
    BY <2>1 DEF UserOK
<1>3. CASE RemoveFinalizer
  <2>1. owner' \in {owner, FALSE}
    <3>1. (\E v : Gone(v)) \/ owner' = owner
      BY <1>3 DEF RemoveFinalizer
    <3> QED
      BY <3>1 DEF Gone
  <2> QED
    BY <2>1 DEF UserOK
<1>4. CASE ~(UserCreate \/ UserEdit \/ UserDelete \/ HandleImageOperations \/ RemoveFinalizer)
  <2>1. UNCHANGED owner
    BY <1>4
       DEF Next, CollectGarbage, UserDeleteDownload, Destroyed, CreationEnds, Deliver, Poll, Reconcile, Get,
           HandleFinalizer, HandleStorageDownloadURL, CheckVM, CreateVMTemplate, AwaitVMTemplate,
           UpdateVirtualMachineTemplate, ApplyAdditionalConfiguration, AddTagToVMTemplate,
           ImportDiskToVM, AddCloudInitDrive, EmptyCloudInitConfig, SetCloudInitConfig, SetBootOrder,
           ConvertVMToTemplate, MarkDeleting, DeleteVM, ReconcileError, Restart, DownloadReconcile,
           DownloadDeliver, DownloadEnds, DownloadTrouble, Apart, vars
  <2> QED
    BY <2>1 DEF UserOK
<1> QED
  BY <1>1, <1>2, <1>3, <1>4

LEMMA InvStays == Inv /\ [Next]_vars => Inv'
BY TemplateSteps, DownloadSteps, UserStays DEF Inv, Outcome

LEMMA InvAlways == Spec => []Inv
BY InvInitially, InvStays, PTL DEF Spec

\* For all bounds the variables keep to their types.
THEOREM TypeCorrect == Spec => []TypeOK
BY InvAlways, InvType, PTL

\* A StorageDownloadURL that goes takes its file with it, whatever fails on the way, however old
\* the copies are and whoever deletes it, unless a download was lost or a task failed unseen.
THEOREM FileGoes == Spec => FileGoesWithDownload
<1>1. ASSUME Inv, [Next]_vars
      PROVE  [Last(dlog') = None /\ DStored # None /\ DStored.finalizer
              /\ happened \cap {"unwatched", "unseen"} = {}
              => ~file']_dvars
  <2>1. Goes
    BY <1>1, DownloadSteps DEF Inv
  <2> QED
    BY <2>1 DEF Goes, DStored, Clean
<1> QED
  BY <1>1, InvAlways, PTL DEF Spec, FileGoesWithDownload

\* The controller of templates implements GuestLifecycle for any lag of the informer: a guest is
\* made only for a resource with the finalizer and without another guest, and is gone before it
\* unless it is protected; both until a creation is left under way, because the process restarts
\* or nobody waits for it any more, and again once things are in order.
THEOREM LifecycleKept == Spec => KeepsLifecycle
<1>1. Init => Lifecycle!Init
  <2>1. Init => Stored = None /\ Own = {} /\ Making = {} /\ ~astray
    <3>1. Init => log = <<None>> /\ Len(log) = 1 /\ log[1] = None
      BY DEF Init
    <3> QED
      BY <3>1 DEF Stored, Last, Init, Own, Named, Making
  <2> QED
    BY <2>1 DEF Lifecycle!Init
<1>2. ASSUME Inv, [Next]_vars PROVE [Lifecycle!Next]_(Lifecycle!vars)
  <2>1. LifecycleStep
    BY <1>2, TemplateSteps DEF Inv, Outcome
  <2>2. CASE Unmoved /\ KindStep
    <3> USE DEF Unmoved, Lifecycle!SameGuests
    <3>1. CASE Kind' = Kind
      BY <2>2, <3>1 DEF Lifecycle!Next, Lifecycle!Decide, Kind
    <3>2. CASE Kind = "none" /\ Kind' = "bare"
      BY <2>2, <3>2 DEF Lifecycle!Next, Lifecycle!Create, Kind
    <3>3. CASE Kind = "bare" /\ Kind' = "held"
      BY <2>2, <3>3 DEF Lifecycle!Next, Lifecycle!Hold, Kind
    <3>4. CASE Kind = "bare" /\ Kind' = "none"
      BY <2>2, <3>4 DEF Lifecycle!Next, Lifecycle!Abandon, Kind
    <3>5. CASE Kind = "held" /\ Kind' = "none" /\ (Own = {} \/ Spared \/ astray)
      BY <2>2, <3>5 DEF Lifecycle!Next, Lifecycle!Release, Kind, Spared
    <3> QED
      BY <2>2, <3>1, <3>2, <3>3, <3>4, <3>5 DEF KindStep
  <2>3. CASE Kind' = Kind /\ OwnStep
    <3>1. CASE Makes
      BY <2>3, <3>1 DEF Lifecycle!Next, Lifecycle!Make, Makes, Kind
    <3>2. CASE Finishes
      BY <2>3, <3>2 DEF Lifecycle!Next, Lifecycle!Finish, Finishes, Kind
    <3>3. CASE Strays
      BY <2>3, <3>3 DEF Lifecycle!Next, Lifecycle!Stray, Strays, Kind
    <3>4. CASE Settles
      BY <2>3, <3>4 DEF Lifecycle!Next, Lifecycle!Settle, Settles, Single, Kind
    <3>5. CASE Loses
      BY <2>3, <3>5 DEF Lifecycle!Next, Lifecycle!Lose, Loses, Kind
    <3> QED
      BY <2>3, <3>1, <3>2, <3>3, <3>4, <3>5 DEF OwnStep
  <2> QED
    BY <2>1, <2>2, <2>3 DEF LifecycleStep
<1> QED
  BY <1>1, <1>2, InvAlways, PTL DEF Spec, KeepsLifecycle, Lifecycle!Spec
=============================================================================
