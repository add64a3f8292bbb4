------------------------------ MODULE Template ------------------------------
(* One VirtualMachineTemplate resource against Proxmox, with the StorageDownloadURL that brings  *)
(* its image: the template controller, the calls of pkg/proxmox/virtualmachinetemplate.go, the   *)
(* client's cache of VMIDs and guest objects, and the external watcher, beside the controller of *)
(* StorageDownload.  Cores, sockets and memory are one value, config; the rest of a guest is the *)
(* set of the steps of its making that were done.                                                *)
EXTENDS StorageDownload

CONSTANTS
    Configs,  \* cores, sockets and memory
    Kinds,    \* what a user creates: with a cloud-init config or not, the config, mode Disable or not
    Ids,      \* bound: VMIDs
    MaxDisks  \* bound: imported disks that are told apart

\* The additional config, the tag and the cloud-init drive are left out: nothing looks at them.
Steps == {"cloudinit", "boot", "template"}

Objects == [cloudInit: BOOLEAN, config: Configs, protected: BOOLEAN, disabled: BOOLEAN,
            deleting: BOOLEAN, finalizer: BOOLEAN, marked: BOOLEAN, available: BOOLEAN]

\* disks: the disks imported so far; the last one is scsi0, the others are left unused.
Guests == [config: Configs, done: SUBSET Steps, disks: 0..MaxDisks]

ASSUME TemplateAssumption ==
    /\ Kinds \subseteq [cloudInit: BOOLEAN, config: Configs, disabled: BOOLEAN] /\ Ids \subseteq Nat
    /\ None \notin Objects \cup Guests \cup Ids
    /\ MaxDisks \in Nat \ {0}

VARIABLES
    log,       \* the versions of the resource from the informer's to the API server's
    queue,     \* whether its key is in the workqueue
    pc,        \* where its reconcile is
    copy,      \* the object that reconcile works on
    owner,     \* whether the owner of the StorageDownloadURL is the template that is there
    guests,    \* the QEMU guests that the node lists with the name of the template, by VMID
    making,    \* the guests whose creation is under way: their VMIDs are taken
    target,    \* the VMID that the reconcile waits for
    astray,    \* ghost: a creation was left under way, and things are not in order again
    cachedId,  \* nodesCache.vms[spec.name]
    cachedObj  \* nodesCache.vmObjs: the guest of each VMID as it was when it was first read

cache == <<cachedId, cachedObj>>
reconcile == <<log, queue, pc, copy>>
creations == <<making, target, astray>>
download == <<resource, worker, storage>>
vars == <<reconcile, owner, guests, creations, cache, dvars>>

Seen == Head(log)
Stored == Last(log)

------------------------------------------------------------------------------
(* Outcomes and writes *)

Return == pc' = "idle" /\ copy' = None /\ UNCHANGED queue
Requeue == pc' = "idle" /\ copy' = None /\ queue' = TRUE
Goto(s) == IF s = "idle" THEN Return ELSE pc' = s /\ UNCHANGED <<queue, copy>>
GotoWith(s, c) == pc' = s /\ copy' = c /\ UNCHANGED queue

\* A call that turns the guests into g, whose task the controller waits for and checks.
Call(g, s) ==
    \/ guests' = g /\ Goto(s) /\ NoFault
    \/ guests' \in {guests, g} /\ Requeue /\ Error

\* A call whose task may fail unseen: only that it was accepted is checked.
Trusted(g, s) == Call(g, s) \/ (UNCHANGED guests /\ Goto(s) /\ Fault("unseen"))

\* One of which not even that is.
Careless(g, s) ==
    \/ guests' = g /\ Goto(s) /\ NoFault
    \/ UNCHANGED guests /\ Goto(s) /\ Fault("unseen")

\* A call that cannot be made: the error is returned.
Refused == UNCHANGED guests /\ Requeue /\ NoFault

Store(v) ==
    /\ log' = IF v = Stored THEN log ELSE Append(log, v)
    /\ Len(log') <= MaxLag + 1

------------------------------------------------------------------------------
(* The client's lookups *)

Named == {i \in Ids : guests[i] # None}

Sought == IF cachedId # None THEN {cachedId} ELSE Named

Found(i) == i \in Sought /\ (cachedObj[i] # None \/ guests[i] # None)

Lost == \A i \in Ids : ~Found(i)

Snapshot(i) == IF cachedObj[i] # None THEN cachedObj[i] ELSE guests[i]

\* getVirtualMachine leaves the guest in the caches, and reads a guest only once.
GetVirtualMachine(i) ==
    /\ Found(i)
    /\ cachedId' = i /\ cachedObj' = [cachedObj EXCEPT ![i] = Snapshot(i)]

\* A step of the making of the guest: what is to be done with guest i, once it is looked up.  When
\* the lookup fails the step fails, be it that it returns the error or that it goes on without a
\* guest and panics.
OnGuest(Do(_)) ==
    \/ Lost /\ Refused /\ UNCHANGED cache
    \/ \E i \in Ids : GetVirtualMachine(i) /\ (IF guests[i] = None THEN Refused ELSE Do(i))

With(i, step) == [guests EXCEPT ![i].done = @ \cup {step}]

\* The lowest VMID that is free: cluster/nextid.  A creation takes its VMID when it starts.
Free(i) == guests[i] = None /\ making[i] = None
NextId(i) == Free(i) /\ \A j \in Ids : j < i => ~Free(j)

\* The VMIDs of the guests under way, and of all guests.
Making == {i \in Ids : making[i] # None}
Own == Making \cup Named

\* Nothing is under way, and there is one guest at most.
InOrder == Making = {} /\ \A i, j \in Own : i = j

------------------------------------------------------------------------------
(* Users, and what happens without the operator *)

UserCreate ==
    /\ Stored = None
    /\ \E k \in Kinds :
        Store([cloudInit |-> k.cloudInit, config |-> k.config, protected |-> FALSE, disabled |-> k.disabled, deleting |-> FALSE,
               finalizer |-> FALSE, marked |-> FALSE, available |-> FALSE])
    /\ UNCHANGED <<queue, pc, copy, owner, guests, creations, cache, dvars>>

\* Other settings, which only matter while it is not deleted, or deletion protection.
UserEdit ==
    /\ Stored # None
    /\ \/ ~Stored.deleting /\ \E c \in Configs \ {Stored.config} : Store([Stored EXCEPT !.config = c])
       \/ Store([Stored EXCEPT !.protected = ~@])
    /\ Error
    /\ UNCHANGED <<queue, pc, copy, owner, guests, creations, cache, download>>

\* When the template goes, the reference of its StorageDownloadURL points to nothing.
Gone(v) == IF v = None THEN owner' = FALSE ELSE UNCHANGED owner

UserDelete ==
    /\ Stored # None /\ ~Stored.deleting
    /\ LET v == IF Stored.finalizer THEN [Stored EXCEPT !.deleting = TRUE] ELSE None
       IN Store(v) /\ Gone(v)
    /\ UNCHANGED <<queue, pc, copy, guests, creations, cache, dvars>>

\* The garbage collector deletes what has lost its owner.
CollectGarbage ==
    /\ ~owner /\ Delete
    /\ UNCHANGED <<reconcile, owner, guests, creations, cache, trouble>>

\* A user deletes the StorageDownloadURL of a template.
UserDeleteDownload ==
    /\ owner /\ Delete
    /\ Error
    /\ UNCHANGED <<reconcile, owner, guests, creations, cache>>

\* The task of a creation ends, and the guest is listed; one that nobody waits for may fail.
CreationEnds(i) ==
    /\ making[i] # None
    /\ making' = [making EXCEPT ![i] = None]
    /\ \/ guests' = [guests EXCEPT ![i] = making[i]]
       \/ target # i /\ UNCHANGED guests
    /\ UNCHANGED <<reconcile, owner, target, astray, cache, dvars>>

Destroyed(i) ==
    /\ guests[i] # None
    /\ guests' = [guests EXCEPT ![i] = None]
    /\ Fault("vanished")
    /\ UNCHANGED <<reconcile, owner, creations, cache, download>>

------------------------------------------------------------------------------
(* Events *)

\* Updates of the spec and of a resource that is being deleted enqueue the key, those of the status
\* do not.
Deliver ==
    /\ Len(log) > 1
    /\ log' = Tail(log)
    /\ LET old == log[1]
           new == log[2]
       IN queue' = (queue \/ old = None \/ new = None \/ new.deleting
                    \/ old.config # new.config \/ old.protected # new.protected)
    /\ UNCHANGED <<pc, copy, owner, guests, creations, cache, dvars>>

\* A poll of the watcher: it looks at the cached guest, so what changes on Proxmox is not seen.
Poll ==
    /\ Seen # None
    /\ \E i \in Ids :
        /\ GetVirtualMachine(i)
        /\ queue' = (queue \/ Snapshot(i).config # Seen.config)
    /\ UNCHANGED <<log, pc, copy, owner, guests, creations, dvars>>

------------------------------------------------------------------------------
(* Reconcile *)

Deletion(o) == IF ~o.marked THEN "mark" ELSE IF o.protected THEN "release" ELSE "destroy"

\* Mutant of Get: a resource that is gone is reconciled as an empty one.
GetMissing ==
    /\ pc = "idle" /\ queue
    /\ queue' = FALSE
    /\ pc' = IF Seen = None THEN "image" ELSE IF Seen.disabled THEN "idle"
             ELSE IF ~Seen.deleting THEN (IF Seen.finalizer THEN "image" ELSE "finalizer")
             ELSE IF Seen.finalizer THEN Deletion(Seen) ELSE "idle"
    /\ copy' = IF pc' = "idle" THEN None ELSE Seen
    /\ UNCHANGED <<log, owner, guests, creations, cache, dvars>>

Get ==
    /\ pc = "idle" /\ queue
    /\ queue' = FALSE
    /\ pc' = IF Seen = None \/ Seen.disabled THEN "idle"
             ELSE IF ~Seen.deleting THEN (IF Seen.finalizer THEN "image" ELSE "finalizer")
             ELSE IF Seen.finalizer THEN Deletion(Seen) ELSE "idle"
    /\ copy' = IF pc' = "idle" THEN None ELSE Seen
    /\ astray' = (astray /\ ~InOrder)
    /\ UNCHANGED <<log, owner, guests, making, target, cache, dvars>>

HandleFinalizer ==
    /\ pc = "finalizer"
    /\ LET new == [copy EXCEPT !.finalizer = TRUE] IN
        \/ Stored = copy /\ Store(new) /\ GotoWith("image", new)
        \/ Stored = None /\ Return /\ UNCHANGED log
        \/ Stored \notin {None, copy} /\ Requeue /\ UNCHANGED log
    /\ UNCHANGED <<owner, guests, creations, cache, dvars>>

CreatedDownload == [finalizer |-> FALSE, deleting |-> FALSE, marked |-> FALSE, completed |-> FALSE]

\* The StorageDownloadURL is found by its name, whoever owns it.  One that the informer has not
\* seen yet cannot be created again.
HandleImageOperations ==
    /\ pc = "image"
    /\ IF DSeen # None THEN Goto("available") /\ UNCHANGED <<dlog, owner>>
       ELSE IF DStored # None THEN Requeue /\ UNCHANGED <<dlog, owner>>
       ELSE /\ DStore(CreatedDownload)
            /\ owner' = (Stored # None) /\ Goto("available")
    /\ UNCHANGED <<log, guests, creations, cache, dqueue, worker, storage, trouble>>

\* The key comes back every ten seconds until the download is completed.  Available is set before
\* there is a guest, with a merge patch that is ignored when the resource is gone.
HandleStorageDownloadURL ==
    /\ pc = "available"
    /\ IF DSeen = None \/ ~DSeen.completed THEN Requeue /\ UNCHANGED log
       ELSE IF copy.available THEN Goto("check") /\ UNCHANGED log
       ELSE IF Stored = None THEN Goto("check") /\ UNCHANGED log
       ELSE LET new == [Stored EXCEPT !.available = TRUE] IN Store(new) /\ GotoWith("check", new)
    /\ UNCHANGED <<owner, guests, creations, cache, dvars>>

\* Where the reconcile goes on when the guest is made: without a cloud-init config nothing is
\* imported, and the guest never becomes a template.
AfterCreation == IF copy.cloudInit THEN "import" ELSE "idle"

\* CheckVirtualMachineTemplateDelta.  The config is compared with that of the cached guest; a
\* cloud-init config counts as different always, since a pointer to it is compared with a value.
Differs(i) == copy.cloudInit \/ Snapshot(i).config # copy.config

\* A guest that cannot be read is left as it is.
CheckVM ==
    /\ pc = "check"
    /\ \/ Sought = {} /\ Goto("create") /\ UNCHANGED cache
       \/ Sought # {} /\ Lost /\ Goto(AfterCreation) /\ UNCHANGED cache
       \/ \E i \in Ids :
            /\ GetVirtualMachine(i)
            /\ Goto(IF Differs(i) THEN "update" ELSE AfterCreation)
    /\ UNCHANGED <<log, owner, guests, creations, dvars>>

\* The request.  It fails, maybe after the creation started: then nobody waits for it, and it is
\* not listed when the next reconcile looks.
CreateVMTemplate ==
    /\ pc = "create"
    /\ \E i \in Ids :
        /\ NextId(i)
        /\ LET started == [making EXCEPT ![i] = [config |-> copy.config, done |-> {}, disks |-> 0]] IN
            \/ making' = started /\ target' = i /\ UNCHANGED astray /\ Goto("await") /\ NoFault
            \/ UNCHANGED creations /\ Requeue /\ Error
            \/ making' = started /\ astray' = TRUE /\ UNCHANGED target /\ Requeue /\ Error
    /\ UNCHANGED <<log, owner, guests, cache, download>>

\* Mutant of AwaitVMTemplate: a task that is not completed in time is taken for one that is.
AwaitReturns ==
    /\ pc = "await"
    /\ Goto("extra") /\ NoFault /\ target' = None
    /\ UNCHANGED <<log, owner, guests, making, astray, cache, download>>

\* WaitForCompleteStatus.  A wait that fails, a task that fails and one that is not seen to end in
\* time are errors: the key is retried, and the task runs on.  Neither the VMID nor the guest is
\* cached.
AwaitVMTemplate ==
    /\ pc = "await"
    /\ \/ target \notin Making /\ Goto("extra") /\ NoFault /\ UNCHANGED <<making, astray>>
       \/ /\ making' \in {making, [making EXCEPT ![target] = None]}
          /\ astray' = (astray \/ making'[target] # None)
          /\ Requeue /\ Error
    /\ target' = None
    /\ UNCHANGED <<log, owner, guests, cache, download>>

\* The configuration of a guest that was there: the calls only have to be accepted.
UpdateVirtualMachineTemplate ==
    /\ pc = "update"
    /\ LET Do(i) == Trusted([guests EXCEPT ![i].config = copy.config],
                            IF copy.cloudInit THEN "empty again" ELSE "idle")
       IN OnGuest(Do)
    /\ UNCHANGED <<log, owner, creations, download>>

\* The steps that follow the creation of a guest and no other reconcile repeats.
ApplyAdditionalConfiguration ==
    /\ pc = "extra"
    /\ LET Do(i) == Call(guests, "tag") IN OnGuest(Do)
    /\ UNCHANGED <<log, owner, creations, download>>

AddTagToVMTemplate ==
    /\ pc = "tag"
    /\ LET Do(i) == Call(guests, AfterCreation) IN OnGuest(Do)
    /\ UNCHANGED <<log, owner, creations, download>>

Imported(i) == [guests EXCEPT ![i].disks = IF @ < MaxDisks THEN @ + 1 ELSE @]

\* The file of the StorageDownloadURL becomes the disk, unless the cached guest has one.
ImportDiskToVM ==
    /\ pc = "import"
    /\ LET Do(i) == IF Snapshot(i).disks > 0 THEN Goto("drive") /\ UNCHANGED guests /\ NoFault
                    ELSE IF file /\ DSeen # None THEN Call(Imported(i), "drive")
                    ELSE Refused
       IN OnGuest(Do)
    /\ UNCHANGED <<log, owner, creations, download>>

\* Skipped when the cached guest has the drive, which is as if it was added once more.
AddCloudInitDrive ==
    /\ pc = "drive"
    /\ LET Do(i) == Call(guests, "empty") IN OnGuest(Do)
    /\ UNCHANGED <<log, owner, creations, download>>

\* The cloud-init config of the cached guest may be as desired; SSH keys never compare equal.
MayBeAsDesired(i) == "cloudinit" \in Snapshot(i).done

\* SetCloudInitConfig empties the cloud-init config first, unless it is as desired.  It runs in the
\* update of a guest and in the making of a template.
EmptyCloudInitConfig ==
    /\ pc \in {"empty again", "empty"}
    /\ LET rest == IF pc = "empty" THEN "boot" ELSE "import"
           set == IF pc = "empty" THEN "set" ELSE "set again"
           Do(i) == \/ MayBeAsDesired(i) /\ Goto(rest) /\ UNCHANGED guests /\ NoFault
                    \/ Careless([guests EXCEPT ![i].done = @ \ {"cloudinit"}], set)
       IN OnGuest(Do)
    /\ UNCHANGED <<log, owner, creations, download>>

\* The guest with every option of the cloud-init config.
Filled(i) == With(i, "cloudinit")

\* Then it sets it, and regenerates the drive.  In an update an error is only logged.
SetCloudInitConfig ==
    /\ pc \in {"set again", "set"}
    /\ LET Do(i) == IF pc = "set" THEN Trusted(Filled(i), "boot") ELSE Careless(Filled(i), "import")
       IN OnGuest(Do)
    /\ UNCHANGED <<log, owner, creations, download>>

SetBootOrder ==
    /\ pc = "boot"
    /\ LET Do(i) == Trusted(With(i, "boot"), "convert") IN OnGuest(Do)
    /\ UNCHANGED <<log, owner, creations, download>>

\* Proxmox refuses to convert a template, which the cached guest does not show.
ConvertVMToTemplate ==
    /\ pc = "convert"
    /\ LET Do(i) == IF "template" \in Snapshot(i).done THEN Return /\ UNCHANGED guests /\ NoFault
                    ELSE IF "template" \in guests[i].done THEN Refused
                    ELSE Trusted(With(i, "template"), "idle")
       IN OnGuest(Do)
    /\ UNCHANGED <<log, owner, creations, download>>

MarkDeleting ==
    /\ pc = "mark"
    /\ IF Stored = None THEN Return /\ UNCHANGED log
       ELSE LET new == [Stored EXCEPT !.marked = TRUE] IN Store(new) /\ GotoWith(Deletion(new), new)
    /\ UNCHANGED <<owner, guests, creations, cache, dvars>>

\* DeleteVM: a guest that cannot be found is an error here, and so is one that is gone.  The caches
\* are told when the task is seen to be done; when its answer is lost the guest has vanished.
DeleteVM ==
    /\ pc = "destroy"
    /\ \/ Lost /\ Refused /\ UNCHANGED cache
       \/ \E i \in Ids :
            /\ Found(i)
            /\ IF guests[i] = None THEN Refused /\ GetVirtualMachine(i)
               ELSE /\ \/ guests' = [guests EXCEPT ![i] = None] /\ Goto("release") /\ NoFault
                       \/ UNCHANGED guests /\ Requeue /\ Error
                       \/ guests' = [guests EXCEPT ![i] = None] /\ Requeue /\ Fault("vanished")
                    /\ IF pc' = "release"
                       THEN cachedId' = None /\ cachedObj' = [cachedObj EXCEPT ![i] = None]
                       ELSE GetVirtualMachine(i)
    /\ UNCHANGED <<log, owner, creations, download>>

\* A deleted resource goes with its finalizer.  The status patch may have turned the copy into a
\* resource that was created since and is not deleted.
RemoveFinalizer ==
    /\ pc = "release"
    /\ \/ /\ Stored = copy /\ Return
          /\ LET v == IF copy.deleting THEN None ELSE [copy EXCEPT !.finalizer = FALSE]
             IN Store(v) /\ Gone(v)
       \/ Stored = None /\ Return /\ UNCHANGED <<log, owner>>
       \/ Stored \notin {None, copy} /\ Requeue /\ UNCHANGED <<log, owner>>
    /\ UNCHANGED <<guests, creations, cache, dvars>>

\* Any other call fails: the error is returned and the key retried.
ReconcileError ==
    /\ pc \notin {"idle", "await"}
    /\ Requeue /\ Error
    /\ UNCHANGED <<log, owner, guests, creations, cache, download>>

\* The process restarts, maybe while it waits for a creation, which goes on, and lists its resources.
Restart ==
    /\ log' = <<Stored>> /\ dlog' = <<DStored>>
    /\ pc' = "idle" /\ copy' = None /\ queue' = (Stored # None)
    /\ dpc' = "idle" /\ dcopy' = None /\ dqueue' = (DStored # None)
    /\ cachedId' = None /\ cachedObj' = [i \in Ids |-> None]
    /\ IF dpc = "wait" THEN Fault("unwatched") ELSE Error
    /\ target' = None /\ astray' = (astray \/ Making # {})
    /\ UNCHANGED <<owner, guests, making, storage>>

------------------------------------------------------------------------------

Init ==
    /\ log = <<None>> /\ queue = FALSE /\ pc = "idle" /\ copy = None
    /\ owner = FALSE /\ guests = [i \in Ids |-> None]
    /\ making = [i \in Ids |-> None] /\ target = None /\ astray = FALSE
    /\ cachedId = None /\ cachedObj = [i \in Ids |-> None]
    /\ DInit

Reconcile ==
    \/ Get \/ HandleFinalizer \/ HandleImageOperations \/ HandleStorageDownloadURL \/ CheckVM
    \/ CreateVMTemplate \/ AwaitVMTemplate \/ UpdateVirtualMachineTemplate
    \/ ApplyAdditionalConfiguration \/ AddTagToVMTemplate \/ ImportDiskToVM \/ AddCloudInitDrive
    \/ EmptyCloudInitConfig \/ SetCloudInitConfig \/ SetBootOrder \/ ConvertVMToTemplate
    \/ MarkDeleting \/ DeleteVM \/ RemoveFinalizer

\* The steps of the StorageDownloadURL's controller, its informer, and of its file.
Apart == UNCHANGED <<reconcile, owner, guests, creations, cache>>

DownloadReconcile == DReconcile /\ Apart
DownloadDeliver == DDeliver /\ Apart
DownloadEnds == TaskEnds /\ Apart
DownloadTrouble == (FileRemoved \/ DReconcileError) /\ Apart

Next ==
    \/ UserCreate \/ UserEdit \/ UserDelete \/ CollectGarbage \/ UserDeleteDownload
    \/ \E i \in Ids : Destroyed(i) \/ CreationEnds(i)
    \/ Deliver \/ Poll \/ Reconcile \/ ReconcileError \/ Restart
    \/ DownloadReconcile \/ DownloadDeliver \/ DownloadEnds \/ DownloadTrouble

Spec == Init /\ [][Next]_vars

\* Workers take queued keys and retry what failed, watches deliver, tasks end, the garbage
\* collector runs.
FairSpec ==
    /\ Spec
    /\ WF_vars(Reconcile)
    /\ WF_vars(DownloadReconcile \/ DownloadEnds)
    /\ WF_vars(Deliver \/ DownloadDeliver \/ CollectGarbage)
    /\ \A i \in Ids : WF_vars(CreationEnds(i))

------------------------------------------------------------------------------
(* Properties *)

\* The type of the state; a reconcile has a copy, and no VMID is of two guests.
TypeOK ==
    /\ DownloadTypeOK
    /\ log \in Seq(Objects \cup {None}) /\ Len(log) \in 1..(MaxLag + 1)
    /\ queue \in BOOLEAN
    /\ pc \in {"idle", "finalizer", "image", "available", "check", "create", "await", "extra", "tag",
               "update", "import", "drive", "empty again", "empty", "set again", "set", "boot", "convert", "mark",
               "destroy", "release"}
    /\ copy \in Objects \cup {None}
    /\ (pc = "idle") = (copy = None)
    /\ owner \in BOOLEAN
    /\ guests \in [Ids -> Guests \cup {None}] /\ making \in [Ids -> Guests \cup {None}]
    /\ \A i \in Ids : guests[i] = None \/ making[i] = None
    /\ target \in Ids \cup {None} /\ (pc = "await") = (target # None)
    /\ astray \in BOOLEAN
    /\ cachedId \in Ids \cup {None}
    /\ cachedObj \in [Ids -> Guests \cup {None}]

Lifecycle == INSTANCE GuestLifecycle WITH
    resource <- IF Stored = None THEN "none" ELSE IF Stored.finalizer THEN "held" ELSE "bare",
    own <- Own, making <- Making, astray <- astray,
    loose <- FALSE,
    spared <- Stored # None /\ Stored.protected

\* Never two guests of one template, those under way included, none for a resource without its
\* finalizer, and none left behind, however old the copy is, whatever fails and wherever the process
\* stops, as long as no creation is left under way (astray), because its answer was lost, the wait
\* timed out or the process restarted, so that the next reconcile does not find the guest by name.
KeepsLifecycle == Lifecycle!Spec

LeftAlone == Stored # None /\ ~Stored.deleting /\ ~Stored.disabled /\ Stored.cloudInit

Made == Stored # None /\
    \E i \in Named : guests[i].config = Stored.config /\ guests[i].disks > 0
                     /\ Steps \subseteq guests[i].done

\* A template with a cloud-init config ends up with a guest that is a template with a disk and the
\* settings last desired, also when it takes over the StorageDownloadURL of the one before it, after
\* one edit or fault, unless the file did not arrive or went away, or a task failed unseen.  Not for
\* good: a reconcile that Proxmox refuses to convert the guest again is retried for ever, and empties
\* the cloud-init config each time before it fills it.
TemplateConverges ==
    <>[](LeftAlone /\ happened \cap {"unwatched", "unseen", "vanished"} = {})
    => []<>Made

\* What a deleted template leaves is cleared: its guest goes, unless it is protected, and so does
\* its StorageDownloadURL when the template has gone.
LeavesNothing ==
    /\ ~<>[](Stored # None /\ Stored.deleting /\ ~Stored.disabled
             /\ (Stored.protected \/ Named # {}) /\ "vanished" \notin happened)
    /\ ~<>[](Stored = None /\ DStored # None)

\* "Make the error as not found error to complete the deletion": a deleted template goes.
DeletionCompletes == ~<>[](Stored # None /\ Stored.deleting /\ ~Stored.disabled)

\* "Check if scsi0 is already imported or not": a guest gets one disk.
ImportsOnce == \A i \in Named : guests[i].disks <= 1
=============================================================================
