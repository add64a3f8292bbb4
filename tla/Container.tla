---------------------------- MODULE Container ----------------------------
(* One Container resource against Proxmox: the Container controller, the LXC calls of          *)
(* pkg/proxmox it makes, the client's cache of container IDs and objects, the images on        *)
(* storage, and the external watcher.  The controller reads the resource from an informer      *)
(* cache that lags.  Cores and memory are one value, config; the reference and the storage of  *)
(* an image are one value too.                                                                 *)
EXTENDS Naturals, Sequences, SequencesExt

CONSTANTS
    Images,         \* spec.template.image
    Stems,          \* what file names and tags are made of
    Stem,           \* ociReferenceToFileBase: the stem of an image
    Within,         \* the pairs <<s, t>> of stems such that a file named after t has s in its name
    Configs,        \* cores and memory
    Kinds,          \* what a user creates: the image (None: cloned from a template), its settings,
                    \* autostart, the mode
    TemplateConfig, \* the settings of the template that clones start from
    Ids,            \* bound: VMIDs
    None,           \* no object, no copy, no container, no cache entry, no image, no tag
    MaxLag,         \* bound: versions of the resource the informer cache has not seen
    MaxFaults,      \* bound: failed calls, restarts and changes made outside of the operator
    MaxTurns        \* bound: edits of the spec and faults together

Modes == {"Reconcile", "EnsureExists", "WatchOnly"}

AllKinds == [image: Images \cup {None}, config: Configs, autostart: BOOLEAN, mode: Modes]

Objects == [image: Images \cup {None}, config: Configs, autostart: BOOLEAN, mode: Modes,
            protected: BOOLEAN, deleting: BOOLEAN, finalizer: BOOLEAN, marked: BOOLEAN,
            applied: Images \cup {None}]

\* own: it has the name of the resource.  image: what its rootfs was made from.
Guests == [own: BOOLEAN, image: Images \cup {None}, tag: Stems \cup {None}, config: Configs,
           running: BOOLEAN]

\* What a client caches of a container.
Snapshots == [config: Configs, running: BOOLEAN, tag: Stems \cup {None}]

ASSUME ContainerAssumption ==
    /\ Stem \in [Images -> Stems] /\ Within \subseteq Stems \X Stems
    /\ \A s \in Stems : <<s, s>> \in Within
    /\ TemplateConfig \in Configs /\ Kinds \subseteq AllKinds
    /\ Ids \subseteq Nat
    /\ None \notin Objects \cup Guests \cup Snapshots \cup Ids \cup Images \cup Stems
    /\ MaxLag \in Nat /\ MaxTurns \in Nat /\ MaxFaults \in Nat

VARIABLES
    log,       \* the versions of the resource from the informer's to the API server's
    queue,     \* whether its key is in the workqueue
    pc,        \* where its reconcile is
    copy,      \* the object that reconcile works on
    target,    \* the VMID that DeleteContainer checked, or whose creation is waited for
    guests,    \* the containers that the node lists, by VMID
    making,    \* the containers whose creation is under way: their VMIDs are taken
    astray,    \* ghost: a creation was left under way, and things are not in order again
    volumes,   \* the image in the file of each stem on the storage
    cachedId,  \* nodesCache.containers[spec.name]
    cachedObj, \* nodesCache.containerObjs: the snapshot of each VMID
    edits,     \* edits so far
    faults,    \* faults so far
    happened   \* the kinds of faults so far

cache == <<cachedId, cachedObj>>
proxmox == <<guests, volumes>>
creations == <<making, astray>>
counters == <<edits, faults, happened>>
vars == <<log, queue, pc, copy, target, proxmox, creations, cache, counters>>

Seen == Head(log)
Stored == Last(log)

------------------------------------------------------------------------------
(* Faults, outcomes and writes *)

Fault(kind) ==
    /\ faults < MaxFaults /\ edits + faults < MaxTurns
    /\ faults' = faults + 1 /\ happened' = happened \cup {kind} /\ UNCHANGED edits

NoFault == UNCHANGED counters

\* A reconcile goes on, or returns and leaves its copy.
Return == pc' = "idle" /\ copy' = None /\ UNCHANGED queue
Requeue == pc' = "idle" /\ copy' = None /\ queue' = TRUE
Goto(s) == IF s = "idle" THEN Return ELSE pc' = s /\ UNCHANGED <<queue, copy>>

\* It goes on with the object c that a write returned.
GotoWith(s, c) == pc' = s /\ copy' = c /\ UNCHANGED queue

\* A call that turns the containers into g, waits for its task and goes on at s.  It may fail
\* before or after it took effect.
Call(g, s) ==
    \/ guests' = g /\ Goto(s) /\ NoFault
    \/ guests' \in {guests, g} /\ Requeue /\ Fault("error")

\* A call that Proxmox refuses.
Refused == UNCHANGED guests /\ Requeue /\ NoFault

\* A TaskError in a deletion is a TerminalError, which is not retried.
GivenUp(g) == copy.deleting /\ guests' \in {guests, g} /\ Return /\ Fault("gave up")

\* The API server stores a version; a write that changes nothing makes none.
Store(v) ==
    /\ log' = IF v = Stored THEN log ELSE Append(log, v)
    /\ Len(log') <= MaxLag + 1

------------------------------------------------------------------------------
(* The client's lookups *)

Named == {i \in Ids : guests[i] # None /\ guests[i].own}

Fresh(g) == [config |-> g.config, running |-> g.running, tag |-> g.tag]

\* GetContainerID: the cached VMID, else the one that the name has.
Sought == IF cachedId # None THEN {cachedId} ELSE Named

Found(i) == i \in Sought /\ (cachedObj[i] # None \/ guests[i] # None)

Snapshot(i) == IF cachedObj[i] # None THEN cachedObj[i] ELSE Fresh(guests[i])

\* GetContainer leaves the container in the caches.
GetContainer(i) ==
    /\ Found(i)
    /\ cachedId' = i /\ cachedObj' = [cachedObj EXCEPT ![i] = Snapshot(i)]

\* What a Ping reads: not the tag, and nothing when the container is gone.
Read(i) == IF guests[i] = None THEN Snapshot(i) ELSE [Fresh(guests[i]) EXCEPT !.tag = Snapshot(i).tag]

\* GetContainer, and a Ping that reads the state into the cached object.  It may fail when the
\* container does not run: the cached object stays as it was.
GetAndPing(i) ==
    /\ Found(i)
    /\ cachedId' = i
    /\ \/ cachedObj' = [cachedObj EXCEPT ![i] = Read(i)]
       \/ /\ guests[i] # None /\ ~guests[i].running
          /\ cachedObj' = [cachedObj EXCEPT ![i] = Snapshot(i)]

\* GetContainer fails: refreshContainer drops a VMID that is gone.
NotFound ==
    /\ \A i \in Ids : ~Found(i)
    /\ cachedId' = None /\ UNCHANGED cachedObj

Forget(i) == cachedId' = None /\ cachedObj' = [cachedObj EXCEPT ![i] = None]

DropObject(i) == cachedId' = i /\ cachedObj' = [cachedObj EXCEPT ![i] = None]

\* The lowest VMID that is free: cluster/nextid.  A creation takes its VMID when it starts.
Free(i) == guests[i] = None /\ making[i] = None
NextId(i) == Free(i) /\ \A j \in Ids : j < i => ~Free(j)

\* The VMIDs of the containers under way, and of all that are made for the resource.
Making == {i \in Ids : making[i] # None}
Own == Making \cup Named

\* Things are in order: nothing is under way, there is one container at most, and the client
\* remembers no other.
InOrder == Making = {} /\ (\A i, j \in Own : i = j) /\ \A i \in Own : cachedId \in {None, i}

------------------------------------------------------------------------------
(* Users, and what happens on Proxmox without the operator *)

UserCreate ==
    /\ Stored = None
    /\ \E k \in Kinds :
        Store([image |-> k.image, config |-> k.config, autostart |-> k.autostart, mode |-> k.mode,
               protected |-> FALSE, deleting |-> FALSE, finalizer |-> FALSE, marked |-> FALSE,
               applied |-> None])
    /\ UNCHANGED <<queue, pc, copy, target, proxmox, creations, cache, counters>>

\* An edit of the spec: another image, other settings, deletion protection.
UserEdit ==
    /\ Stored # None /\ edits + faults < MaxTurns
    /\ \/ \E x \in (Images \cup {None}) \ {Stored.image} : Store([Stored EXCEPT !.image = x])
       \/ \E c \in Configs \ {Stored.config} : Store([Stored EXCEPT !.config = c])
       \/ Store([Stored EXCEPT !.protected = ~@])
    /\ edits' = edits + 1
    /\ UNCHANGED <<queue, pc, copy, target, proxmox, creations, cache, faults, happened>>

UserDelete ==
    /\ Stored # None /\ ~Stored.deleting
    /\ Store(IF Stored.finalizer THEN [Stored EXCEPT !.deleting = TRUE] ELSE None)
    /\ UNCHANGED <<queue, pc, copy, target, proxmox, creations, cache, counters>>

\* Someone destroys a container; when it is given, another container takes the VMID.
Destroyed(i, next) ==
    /\ guests[i] # None /\ guests[i].own
    /\ guests' = [guests EXCEPT ![i] = next]
    /\ Fault(IF next = None THEN "vanished" ELSE IF pc = "destroy" THEN "reused at once" ELSE "reused")
    /\ UNCHANGED <<log, queue, pc, copy, target, volumes, creations, cache>>

\* The task of a creation ends, and the container is listed, maybe some time later; one that nobody
\* waits for may fail.
CreationEnds(i) ==
    /\ making[i] # None
    /\ making' = [making EXCEPT ![i] = None]
    /\ \/ guests' = [guests EXCEPT ![i] = making[i]]
       \/ target # i /\ UNCHANGED guests
    /\ UNCHANGED <<log, queue, pc, copy, target, volumes, astray, cache, counters>>

Strangers == [own: {FALSE}, image: {None}, tag: {None}, config: {TemplateConfig}, running: BOOLEAN]

\* Someone stops or reconfigures a container.
Stopped(i) ==
    /\ guests[i] # None /\ guests[i].running
    /\ guests' = [guests EXCEPT ![i].running = FALSE]
    /\ Fault("stopped")
    /\ UNCHANGED <<log, queue, pc, copy, target, volumes, creations, cache>>

Reconfigured(i) ==
    /\ guests[i] # None
    /\ \E c \in Configs \ {guests[i].config} : guests' = [guests EXCEPT ![i].config = c]
    /\ Fault("reconfigured")
    /\ UNCHANGED <<log, queue, pc, copy, target, volumes, creations, cache>>

------------------------------------------------------------------------------
(* Events *)

Spec0(v) == <<v.image, v.config, v.autostart, v.protected>>

\* Mutant of Deliver: deletions do not enqueue the key of a resource that was marked.
DeliverSpecOnly ==
    /\ Len(log) > 1
    /\ log' = Tail(log)
    /\ LET old == log[1]
           new == log[2]
       IN queue' = (queue \/ old = None \/ new = None \/ Spec0(old) # Spec0(new)
                    \/ (new.deleting /\ ~old.deleting))
    /\ UNCHANGED <<pc, copy, target, proxmox, creations, cache, counters>>

\* The informer delivers a version.  Of the updates, those of the spec and those of a resource
\* that is being deleted enqueue the key; those of the status alone do not.
Deliver ==
    /\ Len(log) > 1
    /\ log' = Tail(log)
    /\ LET old == log[1]
           new == log[2]
       IN queue' = (queue \/ old = None \/ new = None \/ new.deleting \/ Spec0(old) # Spec0(new))
    /\ UNCHANGED <<pc, copy, target, proxmox, creations, cache, counters>>

Drift(g) == g.config # Seen.config \/ (Seen.autostart /\ ~g.running)

\* Mutant of Poll: a container that is gone stays in the caches.
PollKeepsGone ==
    /\ Seen # None
    /\ \E i \in Sought :
        /\ guests[i] # None
        /\ cachedId' = i /\ cachedObj' = [cachedObj EXCEPT ![i] = Fresh(guests[i])]
        /\ queue' = (queue \/ (Seen.mode = "Reconcile" /\ Drift(guests[i])))
    /\ UNCHANGED <<log, pc, copy, target, proxmox, creations, counters>>

\* A poll of the watcher reads the container past the cached object.  Drift enqueues the key in
\* Reconcile mode, and a container that is gone does, since the reconcile makes it again.
Poll ==
    /\ Seen # None
    /\ \/ \E i \in Sought :
            /\ guests[i] # None
            /\ cachedId' = i /\ cachedObj' = [cachedObj EXCEPT ![i] = Fresh(guests[i])]
            /\ queue' = (queue \/ (Seen.mode = "Reconcile" /\ Drift(guests[i])))
       \/ /\ \A i \in Sought : guests[i] = None
          /\ cachedId' = None
          /\ cachedObj' = [i \in Ids |-> IF i = cachedId THEN None ELSE cachedObj[i]]
          /\ queue' = (queue \/ Named = {})
    /\ UNCHANGED <<log, pc, copy, target, proxmox, creations, counters>>

------------------------------------------------------------------------------
(* Reconcile *)

\* A protected container is not deleted, its resource is.
Deletion(o) == IF ~o.marked THEN "mark" ELSE IF o.protected THEN "unfinalize" ELSE "stop"

\* Mutant of Get: an object that is not found is reconciled all the same.
GetMissing ==
    /\ pc = "idle" /\ queue
    /\ queue' = FALSE /\ copy' = Seen
    /\ pc' = IF Seen = None THEN "finalizer" ELSE IF Seen.deleting THEN Deletion(Seen) ELSE "exists"
    /\ UNCHANGED <<log, target, proxmox, creations, cache, counters>>

Get ==
    /\ pc = "idle" /\ queue
    /\ queue' = FALSE
    /\ pc' = IF Seen = None \/ Seen.mode = "WatchOnly" THEN "idle"
             ELSE IF Seen.mode = "EnsureExists" THEN "exists"
             ELSE IF ~Seen.deleting THEN (IF Seen.finalizer THEN "exists" ELSE "finalizer")
             ELSE IF Seen.finalizer THEN Deletion(Seen) ELSE "idle"
    /\ copy' = IF pc' = "idle" THEN None ELSE Seen
    /\ astray' = (astray /\ ~InOrder)
    /\ UNCHANGED <<log, target, proxmox, making, cache, counters>>

\* An Update is refused when the object is not the one that was read.
HandleFinalizer ==
    /\ pc = "finalizer"
    /\ LET new == [copy EXCEPT !.finalizer = TRUE] IN
        \/ Stored = copy /\ Store(new) /\ GotoWith("exists", new)
        \/ Stored = None /\ Return /\ UNCHANGED log
        \/ Stored \notin {None, copy} /\ Requeue /\ UNCHANGED log
    /\ UNCHANGED <<target, proxmox, creations, cache, counters>>

\* Marks that a container is to be made from an image while the status records another one, which
\* an old copy or mode EnsureExists do not clear before.
MarkMisrecorded ==
    /\ happened' = happened \cup {x \in {"misrecorded"} :
            /\ pc' = "create" /\ copy'.image # None
            /\ Stored' # None /\ Stored'.applied \notin {None, copy'.image}}
    /\ UNCHANGED <<edits, faults>>

\* A VMID in the cache is taken for a container that exists.
Exists == Sought # {}

\* What reconcileOCIImageDrift decides without looking at the container: the recorded image is
\* the desired one, it is another one, or there is none.
ReconcileOCIImageDrift ==
    CASE copy.image \in {None, copy.applied} -> IF Exists THEN "update" ELSE "create"
      [] copy.image # None /\ copy.applied \notin {None, copy.image} -> "stop"
      [] OTHER -> IF Exists THEN "tags" ELSE "create"

HandleContainerOperations ==
    /\ pc = "exists"
    /\ cachedId' \in IF Exists THEN Sought ELSE {None}
    /\ Goto(IF copy.mode # "EnsureExists" THEN ReconcileOCIImageDrift ELSE IF Exists THEN "idle" ELSE "create")
    /\ UNCHANGED <<log, target, proxmox, creations, cachedObj>>
    /\ MarkMisrecorded

\* patchAppliedOCIImageStatus: a merge patch against the copy, whose answer the copy becomes.
PatchApplied(x, s) ==
    LET new == IF copy.applied = x THEN Stored ELSE [Stored EXCEPT !.applied = x]
    IN Store(new) /\ GotoWith(s, [new EXCEPT !.applied = x])

\* LXCHasOCIImageTag: images that differ in punctuation only have one tag.
HasImageTag(tag) == tag = Stem[copy.image]

\* Mutant of BootstrapFromTags: any tag will do.
BootstrapAnyTag ==
    /\ pc = "tags" /\ Stored # None
    /\ \/ NotFound /\ Requeue /\ UNCHANGED log
       \/ \E i \in Ids : GetContainer(i) /\ PatchApplied(copy.image, "update")
    /\ UNCHANGED <<target, proxmox, creations, counters>>

\* reconcileOCIImageDrift when no image is recorded: the container's tag tells, and a container
\* without tags is taken for one of the image.
BootstrapFromTags ==
    /\ pc = "tags" /\ Stored # None
    /\ \/ NotFound /\ Requeue /\ UNCHANGED log
       \/ \E i \in Ids :
            /\ GetContainer(i)
            /\ IF Snapshot(i).tag = None \/ HasImageTag(Snapshot(i).tag)
               THEN PatchApplied(copy.image, "update")
               ELSE Goto("stop") /\ UNCHANGED log
    /\ UNCHANGED <<target, proxmox, creations, counters>>

\* A container that is gone needs no deleting.
AfterDelete == IF copy.deleting THEN "unfinalize" ELSE "clear"

\* Mutant of StopContainer: the name of the container is not compared.
StopAnyContainer ==
    /\ pc = "stop"
    /\ \/ NotFound /\ Goto(AfterDelete) /\ UNCHANGED <<guests, target>> /\ NoFault
       \/ \E i \in Ids :
            /\ Found(i) /\ guests[i] = None
            /\ Forget(i) /\ Goto(AfterDelete) /\ UNCHANGED <<guests, target>> /\ NoFault
       \/ \E i \in Ids :
            /\ GetAndPing(i) /\ guests[i] # None
            /\ LET stopped == [guests EXCEPT ![i].running = FALSE] IN
                \/ guests[i].running /\ (Call(stopped, "destroy") \/ GivenUp(stopped))
                \/ ~guests[i].running /\ Goto("destroy") /\ UNCHANGED guests /\ NoFault
            /\ target' = IF pc' = "destroy" THEN i ELSE None
    /\ UNCHANGED <<log, volumes, creations>>

\* DeleteContainer, for a deletion or a replacement, up to the Stop task: a VMID that another
\* container has by now counts as gone.
StopContainer ==
    /\ pc = "stop"
    /\ \/ NotFound /\ Goto(AfterDelete) /\ UNCHANGED <<guests, target>> /\ NoFault
       \/ \E i \in Ids :
            /\ Found(i) /\ i \notin Named
            /\ Forget(i) /\ Goto(AfterDelete) /\ UNCHANGED <<guests, target>> /\ NoFault
       \/ \E i \in Ids :
            /\ GetAndPing(i) /\ i \in Named
            /\ LET stopped == [guests EXCEPT ![i].running = FALSE] IN
                \/ guests[i].running /\ (Call(stopped, "destroy") \/ GivenUp(stopped))
                \/ ~guests[i].running /\ Goto("destroy") /\ UNCHANGED guests /\ NoFault
            /\ target' = IF pc' = "destroy" THEN i ELSE None
    /\ UNCHANGED <<log, volumes, creations>>

\* The Delete task.  Only when it is seen to be done are the caches told.
DestroyContainer ==
    /\ pc = "destroy"
    /\ IF guests[target] = None \/ guests[target].running THEN Refused /\ UNCHANGED cache
       ELSE LET gone == [guests EXCEPT ![target] = None] IN
        /\ Call(gone, AfterDelete) \/ GivenUp(gone)
        /\ IF pc' = AfterDelete THEN Forget(target) ELSE UNCHANGED cache
    /\ target' = None
    /\ UNCHANGED <<log, volumes, creations>>

\* The container was deleted for replacement: no image is recorded until there is a new one.
\* When the copy is so old that it has no image recorded, the patch has nothing to clear.
ClearApplied ==
    /\ pc = "clear" /\ Stored # None
    /\ PatchApplied(None, "create")
    /\ MarkMisrecorded
    /\ UNCHANGED <<target, proxmox, creations, cache>>

\* findOCIVolumeID, and a pull when nothing is found: the file that the container is made from,
\* and the files that are on the storage then.
Volume(s, files) ==
    LET t == Stem[copy.image]
        hits == {h \in Stems : volumes[h] # None /\ <<t, h>> \in Within}
    IN \/ s \in hits /\ files = volumes
       \/ hits = {} /\ s = t /\ files = [volumes EXCEPT ![t] = copy.image]

Made(image, tag, config) ==
    [own |-> TRUE, image |-> image, tag |-> tag, config |-> config, running |-> FALSE]

\* What is made: a container from the volume of the image, with the tag of the image, else a clone
\* of the template.
NewContainer(c) ==
    IF copy.image = None THEN c = Made(None, None, TemplateConfig) /\ UNCHANGED volumes
    ELSE \E s \in Stems : Volume(s, volumes') /\ c = Made(volumes'[s], Stem[copy.image], copy.config)

\* The request.  It fails, maybe after the creation started: then nobody waits for it, and it is
\* not listed when the next reconcile looks.
CloneContainer ==
    /\ pc = "create"
    /\ \E i \in Ids, c \in Guests :
        /\ NextId(i) /\ NewContainer(c)
        /\ LET started == [making EXCEPT ![i] = c] IN
            \/ making' = started /\ target' = i /\ UNCHANGED astray /\ Goto("await") /\ NoFault
            \/ UNCHANGED <<making, target, astray>> /\ Requeue /\ Fault("error")
            \/ making' = started /\ astray' = TRUE /\ UNCHANGED target /\ Requeue /\ Fault("left")
    /\ UNCHANGED <<log, guests, cache>>

\* Mutant of AwaitContainer: a task that is not completed in time is taken for one that is.
AwaitReturns ==
    /\ pc = "await"
    /\ cachedId' = target /\ target' = None /\ Goto("start")
    /\ UNCHANGED <<log, proxmox, creations, cachedObj, counters>>

\* WaitForCompleteStatus, and for an image the wait for a container of the name to be listed, be
\* it another one.  A task that fails, one that is not seen to end in time and a container that is
\* not listed in time are errors: the key is retried, and what is under way goes on.  Only at its
\* end is a VMID cached.
AwaitContainer ==
    /\ pc = "await"
    /\ \/ /\ IF copy.image = None THEN target \notin Making /\ cachedId' = target ELSE cachedId' \in Sought
          /\ astray' = (astray \/ making[target] # None)
          /\ Goto("start") /\ UNCHANGED making /\ NoFault
       \/ copy.image # None /\ Own = {} /\ Requeue /\ UNCHANGED <<creations, cachedId>> /\ NoFault
       \/ /\ making' \in {making, [making EXCEPT ![target] = None]}
          /\ astray' = (astray \/ making'[target] # None)
          /\ Fault(IF making'[target] # None THEN "left" ELSE "error")
          /\ Requeue /\ UNCHANGED cachedId
    /\ target' = None
    /\ UNCHANGED <<log, proxmox, cachedObj>>

\* Where a reconcile goes on that has started a container: a new one, one that was found
\* stopped, or one that handleAutoStart found stopped.
AfterStart ==
    CASE pc = "start" /\ copy.image # None -> "record"
      [] pc = "start" /\ copy.mode = "EnsureExists" -> "idle"
      [] OTHER -> "autostart"

StartContainer ==
    /\ pc \in {"start", "resume", "kick"}
    /\ \/ NotFound /\ Refused
       \/ \E i \in Ids :
            /\ Found(i)
            /\ LET started == [guests EXCEPT ![i].running = TRUE]
                   done == IF pc = "kick" THEN Requeue ELSE Goto(AfterStart)
               IN \/ guests[i] = None /\ Refused /\ GetAndPing(i)
                  \/ /\ guests[i] # None /\ guests[i].running /\ GetAndPing(i)
                     /\ done /\ UNCHANGED guests /\ NoFault
                  \/ /\ guests[i] # None /\ ~guests[i].running
                     /\ \/ guests' = started /\ done /\ NoFault /\ DropObject(i)
                        \/ guests' \in {guests, started} /\ Requeue /\ Fault("error") /\ GetAndPing(i)
    /\ UNCHANGED <<log, target, volumes, creations>>

\* handleCloneContainer records the image of the copy when the container is made and started.
RecordApplied ==
    /\ pc = "record"
    /\ IF Stored = None \/ copy.mode = "EnsureExists"
       THEN /\ Return
            /\ IF Stored = None \/ copy.applied = copy.image THEN UNCHANGED log
               ELSE Store([Stored EXCEPT !.applied = copy.image])
       ELSE PatchApplied(copy.image, "autostart")
    /\ UNCHANGED <<target, proxmox, creations, cache, counters>>

\* UpdateContainer configures container i when its cached settings are not those of the copy.
UpdateContainer(i) ==
    IF Snapshot(i).config = copy.config
    THEN GetContainer(i) /\ Goto("write") /\ UNCHANGED guests /\ NoFault
    ELSE IF guests[i] = None THEN GetContainer(i) /\ Refused
    ELSE /\ Call([guests EXCEPT ![i].config = copy.config], "write")
         /\ IF pc' = "write" THEN DropObject(i) ELSE GetContainer(i)

\* StartOrUpdateContainer goes by the cached state.
StartOrUpdateContainer ==
    /\ pc = "update"
    /\ \/ NotFound /\ Refused
       \/ \E i \in Ids :
            /\ Found(i)
            /\ IF Snapshot(i).running THEN UpdateContainer(i)
               ELSE GetContainer(i) /\ Goto("resume") /\ UNCHANGED guests /\ NoFault
    /\ UNCHANGED <<log, target, volumes, creations>>

\* UpdateContainer ends with an Update of the copy, which is refused when the copy is old.
WriteBack ==
    /\ pc = "write"
    /\ IF Stored = copy THEN Goto("autostart") ELSE Requeue
    /\ UNCHANGED <<log, target, proxmox, creations, cache, counters>>

\* handleAutoStart goes by the cached state too.
HandleAutoStart ==
    /\ pc = "autostart"
    /\ \/ ~copy.autostart /\ Return /\ UNCHANGED cache
       \/ copy.autostart /\ NotFound /\ Requeue
       \/ copy.autostart /\ \E i \in Ids : GetContainer(i) /\ Goto(IF Snapshot(i).running THEN "idle" ELSE "kick")
    /\ UNCHANGED <<log, target, proxmox, creations, counters>>

\* handleDelete first sets the Deleting condition and returns: the event of this patch is what
\* brings the deletion back, since Reconcile drops the result that asks for it.
MarkDeleting ==
    /\ pc = "mark"
    /\ IF Stored = None THEN UNCHANGED log ELSE Store([Stored EXCEPT !.marked = TRUE])
    /\ Return
    /\ UNCHANGED <<target, proxmox, creations, cache, counters>>

RemoveFinalizer ==
    /\ pc = "unfinalize"
    /\ \/ Stored = copy /\ Store(None) /\ Return
       \/ Stored = None /\ Return /\ UNCHANGED log
       \/ Stored \notin {None, copy} /\ Requeue /\ UNCHANGED log
    /\ UNCHANGED <<target, proxmox, creations, cache, counters>>

\* Any other call fails: the error is returned and the key retried.
ReconcileError ==
    /\ pc \notin {"idle", "await"}
    /\ Requeue /\ Fault("error")
    /\ target' = None
    /\ UNCHANGED <<log, proxmox, creations, cache>>

\* The process restarts, maybe while it waits for a creation, which goes on, and lists its
\* resources.
Restart ==
    /\ log' = <<Stored>>
    /\ pc' = "idle" /\ copy' = None /\ target' = None /\ queue' = (Stored # None)
    /\ cachedId' = None /\ cachedObj' = [i \in Ids |-> None]
    /\ astray' = (astray \/ Making # {})
    /\ Fault(IF Making # {} THEN "left" ELSE "restart")
    /\ UNCHANGED <<proxmox, making>>

\* The connection is written, and its next client starts with empty caches.
NewClient ==
    /\ cachedId # None
    /\ cachedId' = None /\ cachedObj' = [i \in Ids |-> None]
    /\ Fault("new client")
    /\ UNCHANGED <<log, queue, pc, copy, target, proxmox, creations>>

------------------------------------------------------------------------------

Init ==
    /\ log = <<None>> /\ queue = FALSE /\ pc = "idle" /\ copy = None /\ target = None
    /\ guests = [i \in Ids |-> None] /\ volumes = [s \in Stems |-> None]
    /\ making = [i \in Ids |-> None] /\ astray = FALSE
    /\ cachedId = None /\ cachedObj = [i \in Ids |-> None]
    /\ edits = 0 /\ faults = 0 /\ happened = {}

Reconcile ==
    \/ Get \/ HandleFinalizer \/ HandleContainerOperations \/ BootstrapFromTags
    \/ StopContainer \/ DestroyContainer \/ ClearApplied \/ CloneContainer \/ AwaitContainer
    \/ StartContainer \/ RecordApplied \/ StartOrUpdateContainer \/ WriteBack \/ HandleAutoStart \/ MarkDeleting \/ RemoveFinalizer

Next ==
    \/ UserCreate \/ UserEdit \/ UserDelete
    \/ \E i \in Ids, g \in Strangers \cup {None} : Destroyed(i, g)
    \/ \E i \in Ids : Stopped(i) \/ Reconfigured(i) \/ CreationEnds(i)
    \/ Deliver \/ Poll \/ Reconcile \/ ReconcileError \/ Restart \/ NewClient

Spec == Init /\ [][Next]_vars

\* The worker takes a queued key and retries what failed, watches deliver, the watcher polls, and
\* creations end.
FairSpec ==
    /\ Spec /\ WF_vars(Reconcile) /\ WF_vars(Deliver) /\ WF_vars(Poll)
    /\ \A i \in Ids : WF_vars(CreationEnds(i))

------------------------------------------------------------------------------
(* Properties *)

Stages == {"idle", "finalizer", "exists", "tags", "stop", "destroy", "clear", "create", "await", "start",
           "record", "update", "resume", "write", "autostart", "kick", "mark", "unfinalize"}

\* The type of the state; a reconcile has a copy, and one that destroys a container has checked it.
TypeOK ==
    /\ log \in Seq(Objects \cup {None}) /\ Len(log) \in 1..(MaxLag + 1)
    /\ queue \in BOOLEAN
    /\ pc \in Stages
    /\ copy \in Objects \cup {None}
    /\ (pc = "idle") = (copy = None)
    /\ target \in Ids \cup {None}
    /\ (pc \in {"destroy", "await"}) = (target # None)
    /\ guests \in [Ids -> Guests \cup {None}]
    /\ volumes \in [Stems -> Images \cup {None}]
    /\ making \in [Ids -> Guests \cup {None}] /\ astray \in BOOLEAN
    /\ cachedId \in Ids \cup {None}
    /\ cachedObj \in [Ids -> Snapshots \cup {None}]
    /\ edits \in 0..MaxTurns /\ faults \in 0..MaxFaults

Lifecycle == INSTANCE GuestLifecycle WITH
    resource <- IF Stored = None THEN "none" ELSE IF Stored.finalizer THEN "held" ELSE "bare",
    own <- Own,
    making <- Making,
    loose <- copy # None /\ copy.mode = "EnsureExists",
    spared <- Stored # None /\ Stored.protected

\* The controller does what a guest's controller promises, step by step, however old its copy and
\* whatever fails: two containers come only of a creation that was left under way.
KeepsLifecycle == Lifecycle!Spec

\* "AppliedImageReference is the OCI reference the running Proxmox CT was created from": when the
\* controller rests and the recorded image is the desired one, the container was made from it.
\* Containers without a tag, which a template made, are taken for one of the image.
AppliedIsTheImage ==
    pc = "idle" /\ Stored # None /\ Stored.image # None /\ Stored.applied = Stored.image
    => \A i \in Named : guests[i].tag # None => guests[i].image = Stored.applied

\* The container is never of another image than the one recorded, wherever its making or its
\* replacement is cut short, whatever is edited or destroyed meanwhile, however old copies are and
\* whatever the client remembers of an earlier one, unless it was made while another was recorded
\* or a creation was left under way: a container that is listed later may be of an earlier image.
ImageIsRecorded ==
    Stored # None /\ Stored.applied # None /\ happened \cap {"misrecorded", "left"} = {}
    => \A i \in Named : guests[i].tag # None => guests[i].image = Stored.applied

\* "A different name means Proxmox gave the cached VMID to another container": a deletion or a
\* replacement neither stops nor destroys a container of another name, except one that took the
\* VMID after the name was compared.
TouchesOnlyItsOwn ==
    [][pc' # pc /\ pc \in {"stop", "destroy"} /\ "reused at once" \notin happened
       => \A i \in Ids : guests[i] # None /\ ~guests[i].own => guests'[i] = guests[i]]_vars

Reflected == Stored # None /\
    \E i \in Named :
        /\ guests[i].config = Stored.config
        /\ Stored.autostart => guests[i].running
        /\ Stored.image # None /\ guests[i].tag # None /\ "left" \notin happened
           => guests[i].image = Stored.image

LeftAlone == Stored # None /\ ~Stored.deleting /\ Stored.mode = "Reconcile"

\* Whatever is edited, fails, goes stale or is done to the container on Proxmox, a resource ends
\* up with a container of its settings and image, one that was destroyed included, unless
\* another container got its VMID or it was made while another image was recorded; after a creation
\* was left under way it may be the container of an earlier image.
ContainerConverges ==
    <>[](LeftAlone /\ happened \cap {"reused", "reused at once", "misrecorded"} = {}) => <>[]Reflected

\* A deleted resource goes away: the event of the status patch brings the deletion back, and a
\* container that is gone or replaced does not hold it up, unless a task gave up.
DeletionCompletes == ~<>[](Stored # None /\ Stored.deleting /\ "gave up" \notin happened)
=============================================================================
