--------------------------- MODULE StorageDownload ---------------------------
(* One StorageDownloadURL resource and the file it stands for: its controller, the download and  *)
(* delete tasks of Proxmox, and an informer cache that lags.  Who creates it is left to the      *)
(* modules that compose this one.                                                                *)
EXTENDS Naturals, Sequences, SequencesExt

CONSTANTS
    None,     \* no object, no copy
    MaxLag,   \* bound: versions of a resource the informer cache has not seen
    MaxFaults \* bound: failures, restarts, edits and changes made outside of the operator

\* completed: the Available condition and the status "Completed", which are set together.
Downloads == [finalizer: BOOLEAN, deleting: BOOLEAN, marked: BOOLEAN, completed: BOOLEAN]

ASSUME DownloadAssumption == None \notin Downloads /\ MaxLag \in Nat /\ MaxFaults \in Nat

VARIABLES
    dlog,    \* the versions of the resource from the informer's to the API server's
    dqueue,  \* whether its key is in the workqueue
    dpc,     \* where its reconcile is
    dcopy,   \* the object that reconcile works on
    file,    \* whether the file is on the storage
    task,    \* whether a download task runs
    faults,  \* faults so far
    happened \* the marks of faults so far

storage == <<file, task>>
resource == <<dlog, dqueue>>
worker == <<dpc, dcopy>>
trouble == <<faults, happened>>
dvars == <<resource, worker, storage, trouble>>

DSeen == Head(dlog)
DStored == Last(dlog)

------------------------------------------------------------------------------
(* Faults, outcomes and writes *)

\* A fault that leaves a mark, and one that everything recovers from.
Fault(kind) ==
    /\ faults < MaxFaults
    /\ faults' = faults + 1 /\ happened' = happened \cup {kind}

Error ==
    /\ faults < MaxFaults
    /\ faults' = faults + 1 /\ UNCHANGED happened

NoFault == UNCHANGED trouble

DReturn == dpc' = "idle" /\ dcopy' = None /\ UNCHANGED dqueue
DRequeue == dpc' = "idle" /\ dcopy' = None /\ dqueue' = TRUE
DGoto(s) == dpc' = s /\ UNCHANGED <<dqueue, dcopy>>
DGotoWith(s, c) == dpc' = s /\ dcopy' = c /\ UNCHANGED dqueue

\* The API server stores a version; a write that changes nothing makes none.
DStore(v) ==
    /\ dlog' = IF v = DStored THEN dlog ELSE Append(dlog, v)
    /\ Len(dlog') <= MaxLag + 1

------------------------------------------------------------------------------
(* Users, storage and events *)

\* A user, or the garbage collector once the owner is gone, deletes the resource.
Delete ==
    /\ DStored # None /\ ~DStored.deleting
    /\ DStore(IF DStored.finalizer THEN [DStored EXCEPT !.deleting = TRUE] ELSE None)
    /\ UNCHANGED <<dqueue, worker, storage>>

\* Someone removes the file, maybe the deletion of another resource with the same file.
FileRemoved ==
    /\ file /\ file' = FALSE
    /\ Fault("unseen")
    /\ UNCHANGED <<resource, worker, task>>

\* A download task ends; Proxmox only puts a whole file in its place.
TaskEnds ==
    /\ task /\ task' = FALSE
    /\ \/ file' = TRUE /\ NoFault
       \/ UNCHANGED file /\ Fault("unseen")
    /\ UNCHANGED <<resource, worker>>

\* The informer delivers a version.  Updates of the status alone do not enqueue the key.
DDeliver ==
    /\ Len(dlog) > 1
    /\ dlog' = Tail(dlog)
    /\ LET old == dlog[1]
           new == dlog[2]
       IN dqueue' = (dqueue \/ old = None \/ new = None \/ new.deleting)
    /\ UNCHANGED <<worker, storage, trouble>>

------------------------------------------------------------------------------
(* Reconcile *)

\* Mutant of Marking: a deletion that is repeated is taken for one that is done.
MarkedIsDone(o) == IF o.marked THEN "idle" ELSE "mark"

\* A deletion sets the Deleting condition first, unless it is set.
Marking(o) == IF o.marked THEN "erase" ELSE "mark"

DGet ==
    /\ dpc = "idle" /\ dqueue
    /\ dqueue' = FALSE
    /\ dpc' = IF DSeen = None THEN "idle"
              ELSE IF ~DSeen.deleting THEN (IF DSeen.finalizer THEN "look" ELSE "finalizer")
              ELSE IF DSeen.finalizer THEN Marking(DSeen) ELSE "idle"
    /\ dcopy' = IF dpc' = "idle" THEN None ELSE DSeen
    /\ UNCHANGED <<dlog, storage, trouble>>

\* An Update is refused when the object is not the one that was read.
DHandleFinalizer ==
    /\ dpc = "finalizer"
    /\ LET new == [dcopy EXCEPT !.finalizer = TRUE] IN
        \/ DStored = dcopy /\ DStore(new) /\ DGotoWith("look", new)
        \/ DStored = None /\ DReturn /\ UNCHANGED dlog
        \/ DStored \notin {None, dcopy} /\ DRequeue /\ UNCHANGED dlog
    /\ UNCHANGED <<storage, trouble>>

\* Mutant of HasFile: what is there is not recorded as downloaded.
HasFileReturns ==
    /\ dpc = "look"
    /\ IF ~file THEN DGoto("download") ELSE DReturn
    /\ UNCHANGED <<dlog, storage, trouble>>

\* A file that is there is as good as a download.
HasFile ==
    /\ dpc = "look"
    /\ IF ~file THEN DGoto("download") ELSE IF dcopy.completed THEN DReturn ELSE DGoto("complete")
    /\ UNCHANGED <<dlog, storage, trouble>>

\* The call that starts the download fails, or its answer is lost.
StartDownload ==
    /\ dpc = "download"
    /\ \/ task' = TRUE /\ DGoto("wait") /\ NoFault
       \/ UNCHANGED task /\ DRequeue /\ Error
       \/ task' = TRUE /\ DRequeue /\ Fault("unwatched")
    /\ UNCHANGED <<dlog, file>>

\* Whether the task that ended was a success is not looked at, and when the wait is over before
\* the task is, the reconcile returns without an error.
AwaitDownload ==
    /\ dpc = "wait"
    /\ \/ ~task /\ DGoto("complete") /\ NoFault
       \/ task /\ DReturn /\ Fault("unwatched")
    /\ UNCHANGED <<dlog, storage>>

\* A merge patch of the status, refused when the resource is gone.
CompleteDownload ==
    /\ dpc = "complete"
    /\ IF DStored = None THEN DRequeue /\ UNCHANGED dlog
       ELSE DReturn /\ DStore([DStored EXCEPT !.completed = TRUE])
    /\ UNCHANGED <<storage, trouble>>

MarkDownload ==
    /\ dpc = "mark"
    /\ IF DStored = None THEN DReturn /\ UNCHANGED dlog
       ELSE LET new == [DStored EXCEPT !.marked = TRUE] IN DStore(new) /\ DGotoWith("erase", new)
    /\ UNCHANGED <<storage, trouble>>

\* Mutant of DeleteStorageContent: a failed call is taken for a deleted file.
IgnoreDeleteError ==
    /\ dpc = "erase"
    /\ \/ file' = FALSE /\ DGoto("release") /\ NoFault
       \/ file' \in {file, FALSE} /\ DGoto("release") /\ Error
    /\ UNCHANGED <<dlog, task>>

\* Of the delete task only an error of the wait counts: one that fails, as it does when the file
\* is not there, or that takes longer than the wait is passed over.
DeleteStorageContent ==
    /\ dpc = "erase"
    /\ \/ file' = FALSE /\ DGoto("release") /\ NoFault
       \/ UNCHANGED file /\ DGoto("release") /\ Fault("unseen")
       \/ file' \in {file, FALSE} /\ DRequeue /\ Error
    /\ UNCHANGED <<dlog, task>>

\* A deleted resource goes with its finalizer.  The status patch may have turned the copy into a
\* resource that was created since and is not deleted.
DRemoveFinalizer ==
    /\ dpc = "release"
    /\ \/ /\ DStored = dcopy /\ DReturn
          /\ DStore(IF dcopy.deleting THEN None ELSE [dcopy EXCEPT !.finalizer = FALSE])
       \/ DStored = None /\ DReturn /\ UNCHANGED dlog
       \/ DStored \notin {None, dcopy} /\ DRequeue /\ UNCHANGED dlog
    /\ UNCHANGED <<storage, trouble>>

\* Any other call fails: the error is returned and the key retried.
DReconcileError ==
    /\ dpc # "idle"
    /\ DRequeue
    /\ IF dpc = "wait" THEN Fault("unwatched") ELSE Error
    /\ UNCHANGED <<dlog, storage>>

------------------------------------------------------------------------------

DInit ==
    /\ dlog = <<None>> /\ dqueue = FALSE /\ dpc = "idle" /\ dcopy = None
    /\ file = FALSE /\ task = FALSE
    /\ faults = 0 /\ happened = {}

DReconcile ==
    \/ DGet \/ DHandleFinalizer \/ HasFile \/ StartDownload \/ AwaitDownload \/ CompleteDownload
    \/ MarkDownload \/ DeleteStorageContent \/ DRemoveFinalizer

DNext == Delete \/ FileRemoved \/ TaskEnds \/ DDeliver \/ DReconcile \/ DReconcileError

------------------------------------------------------------------------------
(* Properties *)

DownloadTypeOK ==
    /\ dlog \in Seq(Downloads \cup {None}) /\ Len(dlog) \in 1..(MaxLag + 1)
    /\ dqueue \in BOOLEAN
    /\ dpc \in {"idle", "finalizer", "look", "download", "wait", "complete", "mark", "erase", "release"}
    /\ dcopy \in Downloads \cup {None}
    /\ (dpc = "idle") = (dcopy = None)
    /\ file \in BOOLEAN /\ task \in BOOLEAN
    /\ faults \in 0..MaxFaults

\* A StorageDownloadURL that goes takes its file with it, whatever fails or is repeated on the
\* way, unless a download task was left running or a delete task failed.
FileGoesWithDownload ==
    [][Last(dlog') = None /\ DStored # None /\ DStored.finalizer
       /\ happened \cap {"unwatched", "unseen"} = {}
       => ~file']_dvars
=============================================================================
