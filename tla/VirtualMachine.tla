---------------------------- MODULE VirtualMachine ----------------------------
(* One VirtualMachine resource against Proxmox: the VirtualMachine controller, the calls of    *)
(* pkg/proxmox it makes, the client's cache of VMIDs and of guest snapshots, and the external  *)
(* watcher that polls for drift.  The request for a guest, its task and the wait for that task  *)
(* are steps of their own; any other call is one step with the wait for its task, with every   *)
(* outcome the controller tells apart.  Cores, memory and the rest of the machine's settings   *)
(* are one value, its config.                                                                  *)
EXTENDS Naturals, FiniteSets

CONSTANTS
    Configs,        \* machine settings
    Kinds,          \* what a user creates: from a template or not, with autostart or not, the mode
    TemplateConfig, \* the settings of the template that clones start from
    SpecName,       \* spec.name
    CloneName,      \* metadata.name, which CreateVMFromTemplate gives to a clone
    Foreign,        \* the name of a guest that is none of this resource's
    Ids,            \* bound: VMIDs
    None,           \* no object, no copy, no guest, no cache entry
    MaxFaults       \* bound: failed calls, restarts and changes made outside of the operator

Modes == {"Reconcile", "EnsureExists"}

AllKinds == [template: BOOLEAN, autostart: BOOLEAN, mode: Modes]

Objects == [config: Configs, template: BOOLEAN, autostart: BOOLEAN, protected: BOOLEAN, mode: Modes,
            deleting: BOOLEAN, finalizer: BOOLEAN, marked: BOOLEAN]

\* A guest's config takes effect when it starts; active is what a running guest runs with.
Guests == [name: {SpecName, CloneName, Foreign}, config: Configs, active: Configs, running: BOOLEAN]

\* What a client caches of a guest.
Snapshots == [config: Configs, running: BOOLEAN]

ASSUME VirtualMachineAssumption ==
    /\ TemplateConfig \in Configs /\ Kinds \subseteq AllKinds
    /\ Foreign \notin {SpecName, CloneName}
    /\ Ids \subseteq Nat /\ IsFiniteSet(Ids)
    /\ None \notin Objects \cup Guests \cup Snapshots \cup Ids
    /\ MaxFaults \in Nat

VARIABLES
    obj,      \* the resource in the API server
    queue,    \* whether its key is in the workqueue
    pc,       \* where its reconcile is
    copy,     \* the object that reconcile works on
    target,   \* the VMID that the reconcile is about to delete, or waits for
    guests,   \* the QEMU guests that the node lists, by VMID
    making,   \* the guests whose clone or creation is under way: their VMIDs are taken
    astray,   \* ghost: a creation was left under way, and things are not in order again
    cachedId, \* nodesCache.vms[spec.name]
    cachedVM, \* nodesCache.vmObjs: the snapshot of each VMID
    watched,  \* whether the external watcher polls this resource
    faults,   \* faults so far
    happened  \* the kinds of faults so far

cache == <<cachedId, cachedVM>>
creations == <<making, astray>>
vars == <<obj, queue, pc, copy, target, guests, creations, cache, watched, faults, happened>>

------------------------------------------------------------------------------
(* Faults and outcomes *)

Fault(kind) ==
    /\ faults < MaxFaults
    /\ faults' = faults + 1 /\ happened' = happened \cup {kind}

NoFault == UNCHANGED <<faults, happened>>

Return == pc' = "idle" /\ copy' = None /\ UNCHANGED <<queue, watched>>
Requeue == pc' = "idle" /\ copy' = None /\ queue' = TRUE /\ UNCHANGED watched
Goto(s) == IF s = "idle" THEN Return ELSE pc' = s /\ UNCHANGED <<copy, queue, watched>>
GotoWith(s, c) == pc' = s /\ copy' = c /\ UNCHANGED <<queue, watched>>

\* A TaskError: the watcher stops polling and a TerminalError is not retried.
GiveUp == pc' = "idle" /\ copy' = None /\ watched' = FALSE /\ UNCHANGED queue

\* A call that turns the guests into g, waits for its task and goes on at s: it starts, stops,
\* configures or reboots a guest.  It may fail before or after it took effect, and the wait may
\* time out or find a failed task.
Call(g, s) ==
    \/ guests' = g /\ Goto(s) /\ NoFault
    \/ guests' \in {guests, g} /\ Requeue /\ Fault("error")
    \/ guests' \in {guests, g} /\ GiveUp /\ Fault("gave up")

\* A call that Proxmox refuses: there is no such guest, or not in a state for it.
Refused == UNCHANGED guests /\ Requeue /\ NoFault

------------------------------------------------------------------------------
(* The client's lookups *)

Named == {i \in Ids : guests[i] # None /\ guests[i].name = SpecName}

Fresh(g) == [config |-> IF g.running THEN g.active ELSE g.config, running |-> g.running]

\* getVMID and getVirtualMachine find guest i: by the cached VMID, else by name.
Found(i) ==
    \/ cachedId = i /\ (cachedVM[i] # None \/ guests[i] # None)
    \/ cachedId = None /\ i \in Named

Lost == \A i \in Ids : ~Found(i)

Snapshot(i) == IF cachedVM[i] # None THEN cachedVM[i] ELSE Fresh(guests[i])

\* The lookup leaves guest i in the caches.
LookUp(i) ==
    /\ Found(i)
    /\ cachedId' = i /\ cachedVM' = [cachedVM EXCEPT ![i] = Snapshot(i)]

\* The lookup, and a Ping that reads the state of the guest again.
LookUpAndPing(i) ==
    /\ Found(i)
    /\ cachedId' = i
    /\ cachedVM' = [cachedVM EXCEPT ![i] = IF guests[i] = None THEN @ ELSE Fresh(guests[i])]

\* The lowest VMID that is free: cluster/nextid.  A creation takes its VMID when it starts.
Free(i) == guests[i] = None /\ making[i] = None
NextId(i) == Free(i) /\ \A j \in Ids : j < i => ~Free(j)

\* The VMIDs of the guests under way, and of all that the operator made.
Making == {i \in Ids : making[i] # None}
Own == Making \cup {i \in Ids : guests[i] # None /\ guests[i].name # Foreign}

\* Things are in order: nothing is under way, there is one guest at most, and the client
\* remembers no other.
InOrder == Making = {} /\ (\A i, j \in Own : i = j) /\ \A i \in Own : cachedId \in {None, i}

------------------------------------------------------------------------------
(* Users, and what happens on Proxmox without the operator *)

UserCreate ==
    /\ obj = None
    /\ \E c \in Configs, k \in Kinds :
        obj' = [config |-> c, template |-> k.template, autostart |-> k.autostart, mode |-> k.mode,
                protected |-> FALSE, deleting |-> FALSE, finalizer |-> FALSE, marked |-> FALSE]
    /\ queue' = TRUE /\ watched' = TRUE
    /\ UNCHANGED <<pc, copy, target, guests, creations, cache, faults, happened>>

\* An edit of the spec enqueues the key, and its new generation registers the watcher again.
UserEdit ==
    /\ obj # None
    /\ \/ \E c \in Configs \ {obj.config} : obj' = [obj EXCEPT !.config = c]
       \/ obj' = [obj EXCEPT !.protected = ~@]
    /\ queue' = TRUE /\ watched' = TRUE
    /\ UNCHANGED <<pc, copy, target, guests, creations, cache, faults, happened>>

UserDelete ==
    /\ obj # None /\ ~obj.deleting
    /\ obj' = IF obj.finalizer THEN [obj EXCEPT !.deleting = TRUE] ELSE None
    /\ queue' = TRUE /\ watched' = TRUE
    /\ UNCHANGED <<pc, copy, target, guests, creations, cache, faults, happened>>

\* Someone destroys, stops or reconfigures and reboots a guest.
Destroyed(i) ==
    /\ guests[i] # None /\ guests[i].name # Foreign
    /\ guests' = [guests EXCEPT ![i] = None]
    /\ Fault("vanished")
    /\ UNCHANGED <<obj, queue, pc, copy, target, creations, cache, watched>>

Stopped(i) ==
    /\ guests[i] # None /\ guests[i].running
    /\ guests' = [guests EXCEPT ![i].running = FALSE]
    /\ Fault("stopped")
    /\ UNCHANGED <<obj, queue, pc, copy, target, creations, cache, watched>>

Reconfigured(i) ==
    /\ guests[i] # None
    /\ \E c \in Configs \ {guests[i].config} :
        guests' = [guests EXCEPT ![i].config = c, ![i].active = c]
    /\ Fault("reconfigured")
    /\ UNCHANGED <<obj, queue, pc, copy, target, creations, cache, watched>>

\* The task of a creation ends, and the guest is listed; one that nobody waits for may fail.
CreationEnds(i) ==
    /\ making[i] # None
    /\ making' = [making EXCEPT ![i] = None]
    /\ \/ guests' = [guests EXCEPT ![i] = making[i]]
       \/ target # i /\ UNCHANGED guests
    /\ UNCHANGED <<obj, queue, pc, copy, target, astray, cache, watched, faults, happened>>

\* Someone creates a guest of another name.
ForeignCreated(i) ==
    /\ NextId(i)
    /\ guests' = [guests EXCEPT ![i] = [name |-> Foreign, config |-> TemplateConfig,
                                        active |-> TemplateConfig, running |-> TRUE]]
    /\ Fault("foreign")
    /\ UNCHANGED <<obj, queue, pc, copy, target, creations, cache, watched>>

------------------------------------------------------------------------------
(* The external watcher *)

\* Mutant of Poll: the fetched guest does not replace the cached one.
PollOnly ==
    /\ watched /\ obj # None
    /\ \E i \in Ids :
        /\ Found(i) /\ guests[i] # None
        /\ cachedId' = i /\ UNCHANGED cachedVM
        /\ queue' = (queue \/ (obj.mode = "Reconcile" /\ guests[i].config # obj.config))
    /\ UNCHANGED <<obj, pc, copy, target, guests, creations, watched, faults, happened>>

\* A poll fetches the guest past the cache, caches it, and enqueues the key when the guest's
\* settings are not the desired ones.
Poll ==
    /\ watched /\ obj # None
    /\ \E i \in Ids :
        /\ Found(i) /\ guests[i] # None
        /\ cachedId' = i /\ cachedVM' = [cachedVM EXCEPT ![i] = Fresh(guests[i])]
        /\ queue' = (queue \/ (obj.mode = "Reconcile" /\ guests[i].config # obj.config))
    /\ UNCHANGED <<obj, pc, copy, target, guests, creations, watched, faults, happened>>

------------------------------------------------------------------------------
(* Reconcile *)

\* Mutant of Get: an object that is not found is reconciled all the same.
GetMissing ==
    /\ pc = "idle" /\ queue
    /\ queue' = FALSE /\ copy' = obj
    /\ pc' = IF obj # None /\ obj.deleting THEN "mark" ELSE "check"
    /\ UNCHANGED <<obj, target, guests, creations, cache, watched, faults, happened>>

Get ==
    /\ pc = "idle" /\ queue
    /\ queue' = FALSE
    /\ pc' = IF obj = None THEN "idle"
             ELSE IF obj.mode = "EnsureExists" THEN "check"
             ELSE IF ~obj.deleting THEN (IF obj.finalizer THEN "check" ELSE "finalizer")
             ELSE IF obj.finalizer THEN "mark" ELSE "idle"
    /\ copy' = IF pc' = "idle" THEN None ELSE obj
    /\ astray' = (astray /\ ~InOrder)
    /\ UNCHANGED <<obj, target, guests, making, cache, watched, faults, happened>>

\* An Update is refused when the object is not the one that was read.
HandleFinalizer ==
    /\ pc = "finalizer"
    /\ \/ obj = copy /\ obj' = [obj EXCEPT !.finalizer = TRUE] /\ GotoWith("check", obj')
       \/ obj = None /\ Return /\ UNCHANGED obj
       \/ obj \notin {None, copy} /\ Requeue /\ UNCHANGED obj
    /\ UNCHANGED <<target, guests, creations, cache, faults, happened>>

\* A VMID in the cache is taken for an existing guest; otherwise the list of guests decides.
CheckVM ==
    /\ pc = "check"
    /\ IF cachedId # None \/ Named # {}
       THEN /\ cachedId' \in IF cachedId # None THEN {cachedId} ELSE Named
            /\ Goto(IF copy.mode = "EnsureExists" THEN "idle" ELSE "update")
       ELSE Goto("create") /\ UNCHANGED cachedId
    /\ UNCHANGED <<obj, target, guests, creations, cachedVM, faults, happened>>

\* The guest a clone or a creation from scratch makes.
NewGuest ==
    IF copy.template
    THEN [name |-> CloneName, config |-> TemplateConfig, active |-> TemplateConfig, running |-> FALSE]
    ELSE [name |-> SpecName, config |-> copy.config, active |-> copy.config, running |-> FALSE]

\* The request of CreateVMFromTemplate or CreateVMFromScratch.  It fails, maybe after the creation
\* started: then nobody waits for it, and it is not listed when the next reconcile looks.
CreateVM ==
    /\ pc = "create"
    /\ \E i \in Ids :
        /\ NextId(i)
        /\ LET started == [making EXCEPT ![i] = NewGuest] IN
            \/ making' = started /\ target' = i /\ Goto("await") /\ NoFault /\ UNCHANGED astray
            \/ UNCHANGED <<creations, target>> /\ Requeue /\ Fault("error")
            \/ making' = started /\ astray' = TRUE /\ UNCHANGED target /\ Requeue /\ Fault("error")
    /\ UNCHANGED <<obj, guests, cache>>

\* Mutant of AwaitVM: a task that is not completed in time is taken for one that is.
AwaitReturns ==
    /\ pc = "await"
    /\ Goto("start") /\ NoFault
    /\ target' = None /\ UNCHANGED <<obj, guests, creations, cache>>

\* WaitForCompleteStatus.  The VMID is cached, under the name the guest got, when the task is seen
\* to be done.  A task that fails, and one that is not seen to end in time, give a TaskError:
\* retried when a clone's says "timeout", else final.  The task runs on.
AwaitVM ==
    /\ pc = "await"
    /\ \/ /\ target \notin Making
          /\ Goto("start") /\ NoFault
          /\ cachedId' = IF NewGuest.name = SpecName THEN target ELSE cachedId
          /\ UNCHANGED creations
       \/ /\ making' \in {making, [making EXCEPT ![target] = None]}
          /\ astray' = (astray \/ making'[target] # None)
          /\ \/ GiveUp /\ Fault("gave up")
             \/ copy.template /\ Requeue /\ Fault("error")
          /\ UNCHANGED cachedId
    /\ target' = None
    /\ UNCHANGED <<obj, guests, cachedVM>>

Started(i) == [guests EXCEPT ![i].running = TRUE, ![i].active = guests[i].config]

\* StartVM, of a new guest or of one that was found stopped.
StartVM ==
    /\ pc = "start"
    /\ LET next == IF copy.mode = "EnsureExists" THEN "idle" ELSE "tag" IN
        \/ Lost /\ Refused /\ UNCHANGED cache
        \/ \E i \in Ids :
            /\ LookUpAndPing(i)
            /\ IF guests[i] = None THEN Refused
               ELSE IF guests[i].running THEN Goto(next) /\ UNCHANGED guests /\ NoFault
               ELSE Call(Started(i), next)
    /\ UNCHANGED <<obj, target, creations>>

\* UpdateVM compares the cached guest with the spec, configures the guest when they differ and,
\* when the cached guest was running, reboots it.
UpdateVM ==
    /\ pc = "update"
    /\ \/ Lost /\ Refused /\ UNCHANGED cache
       \/ \E i \in Ids :
            /\ LookUp(i)
            /\ IF Snapshot(i).config = copy.config
               THEN Goto("autostart") /\ UNCHANGED guests /\ NoFault
               ELSE IF guests[i] = None THEN Refused
               ELSE Call([guests EXCEPT ![i].config = copy.config],
                         IF Snapshot(i).running THEN "reboot" ELSE "autostart")
    /\ UNCHANGED <<obj, target, creations>>

\* RestartVM: Proxmox applies the pending settings.
Reboot ==
    /\ pc = "reboot"
    /\ \/ Lost /\ Refused /\ UNCHANGED cache
       \/ \E i \in Ids :
            /\ LookUp(i)
            /\ IF guests[i] = None \/ ~guests[i].running THEN Refused
               ELSE Call(Started(i), "autostart")
    /\ UNCHANGED <<obj, target, creations>>

\* handleAutoStart goes by the cached state.
HandleAutoStart ==
    /\ pc = "autostart"
    /\ \/ ~copy.autostart /\ Goto("tag") /\ UNCHANGED cache
       \/ copy.autostart /\ Lost /\ Requeue /\ UNCHANGED cache
       \/ copy.autostart /\ \E i \in Ids : LookUp(i) /\ Goto(IF Snapshot(i).running THEN "tag" ELSE "start")
    /\ UNCHANGED <<obj, target, guests, creations, faults, happened>>

\* EnsureVMTag, and handleStatus after it, end the reconcile.
EnsureVMTag ==
    /\ pc = "tag"
    /\ \/ Lost /\ Requeue /\ UNCHANGED cache
       \/ \E i \in Ids : LookUp(i) /\ Return
    /\ UNCHANGED <<obj, target, guests, creations, faults, happened>>

\* handleDelete: the Deleting condition, whose event enqueues the key again, and the watcher is
\* told to stop.  The patch loads the answer into the copy.
MarkDeleting ==
    /\ pc = "mark"
    /\ \/ copy.marked /\ queue' = queue /\ UNCHANGED <<obj, copy>>
       \/ /\ ~copy.marked
          /\ obj' = [obj EXCEPT !.marked = TRUE] /\ copy' = obj' /\ queue' = (queue \/ ~obj.marked)
    /\ pc' = IF copy'.protected THEN "unfinalize" ELSE "stop"
    /\ watched' = FALSE
    /\ UNCHANGED <<target, guests, creations, cache, faults, happened>>

\* DeleteVM up to the Stop task.  A guest that is not found, and a lookup that fails, count as
\* deleted.
StopForDelete ==
    /\ pc = "stop"
    /\ \/ Lost /\ Goto("unfinalize") /\ UNCHANGED <<cache, guests, target>> /\ NoFault
       \/ /\ \A i \in Ids : cachedId # i \/ cachedVM[i] = None
          /\ Goto("unfinalize") /\ Fault("lookup") /\ UNCHANGED <<cache, guests, target>>
       \/ \E i \in Ids :
            /\ LookUpAndPing(i)
            /\ IF guests[i] = None THEN Refused
               ELSE IF guests[i].running THEN Call([guests EXCEPT ![i].running = FALSE], "delete")
               ELSE Goto("delete") /\ UNCHANGED guests /\ NoFault
            /\ target' = IF pc' = "delete" THEN i ELSE None
    /\ UNCHANGED <<obj, creations>>

\* Mutant of DeleteVM: the caches keep the deleted guest.
DeleteKeepsCache ==
    /\ pc = "delete"
    /\ IF guests[target] = None \/ guests[target].running THEN Refused
       ELSE \/ Goto("unfinalize") /\ guests' = [guests EXCEPT ![target] = None] /\ NoFault
            \/ Requeue /\ Fault("error") /\ UNCHANGED guests
    /\ target' = None /\ UNCHANGED <<obj, creations, cache>>

\* The Delete task.  Only when it is seen to be done are the caches told.
DeleteVM ==
    /\ pc = "delete"
    /\ IF guests[target] = None \/ guests[target].running THEN Refused /\ UNCHANGED cache
       ELSE LET gone == [guests EXCEPT ![target] = None] IN
        \/ /\ guests' = gone /\ Goto("unfinalize") /\ NoFault
           /\ cachedId' = None /\ cachedVM' = [cachedVM EXCEPT ![target] = None]
        \/ Requeue /\ Fault("error") /\ UNCHANGED <<guests, cache>>
        \/ guests' = gone /\ Requeue /\ Fault("vanished") /\ UNCHANGED cache
        \/ guests' \in {guests, gone} /\ GiveUp /\ Fault("gave up") /\ UNCHANGED cache
    /\ target' = None /\ UNCHANGED <<obj, creations>>

\* An Update again; when it goes through, the resource goes, and the event enqueues the key.
RemoveFinalizer ==
    /\ pc = "unfinalize"
    /\ obj' = IF obj = copy THEN None ELSE obj
    /\ Requeue
    /\ UNCHANGED <<target, guests, creations, cache, faults, happened>>

\* Any other call fails: the error is returned and the key retried.
ReconcileError ==
    /\ pc \notin {"idle", "await"}
    /\ Requeue /\ Fault("error")
    /\ target' = None /\ UNCHANGED <<obj, guests, creations, cache>>

\* The connection is written, and its next client starts with empty caches.
NewClient ==
    /\ cachedId # None
    /\ cachedId' = None /\ cachedVM' = [i \in Ids |-> None]
    /\ Fault("new client")
    /\ UNCHANGED <<obj, queue, pc, copy, target, guests, creations, watched>>

\* The process restarts, maybe while it waits for a creation, which goes on.
Restart ==
    /\ pc' = "idle" /\ copy' = None /\ queue' = (obj # None) /\ watched' = (obj # None)
    /\ cachedId' = None /\ cachedVM' = [i \in Ids |-> None]
    /\ astray' = (astray \/ Making # {})
    /\ Fault("restart")
    /\ target' = None /\ UNCHANGED <<obj, guests, making>>

------------------------------------------------------------------------------

Init ==
    /\ obj = None /\ queue = FALSE /\ pc = "idle" /\ copy = None /\ target = None
    /\ guests = [i \in Ids |-> None] /\ making = [i \in Ids |-> None] /\ astray = FALSE
    /\ cachedId = None /\ cachedVM = [i \in Ids |-> None]
    /\ watched = FALSE /\ faults = 0 /\ happened = {}

Reconcile ==
    \/ Get \/ HandleFinalizer \/ CheckVM \/ CreateVM \/ AwaitVM \/ StartVM \/ UpdateVM
    \/ Reboot \/ HandleAutoStart \/ EnsureVMTag \/ MarkDeleting \/ StopForDelete \/ DeleteVM \/ RemoveFinalizer

Next ==
    \/ UserCreate \/ UserEdit \/ UserDelete
    \/ \E i \in Ids : Destroyed(i) \/ Stopped(i) \/ Reconfigured(i) \/ ForeignCreated(i) \/ CreationEnds(i)
    \/ Poll \/ Reconcile \/ ReconcileError \/ NewClient \/ Restart

Spec == Init /\ [][Next]_vars

\* The worker takes a queued key, retries what failed, the watcher polls every minute, and a task
\* ends.
FairSpec ==
    /\ Spec /\ WF_vars(Reconcile) /\ WF_vars(Poll)
    /\ \A i \in Ids : WF_vars(CreationEnds(i))

------------------------------------------------------------------------------
(* Properties *)

Stages == {"idle", "finalizer", "check", "create", "await", "start", "update", "reboot", "autostart",
           "tag", "mark", "stop", "delete", "unfinalize"}

\* The type of the state: a reconcile has a copy, one that deletes a guest or waits for it has its
\* VMID, and no VMID is of two.
TypeOK ==
    /\ obj \in Objects \cup {None} /\ copy \in Objects \cup {None}
    /\ queue \in BOOLEAN /\ watched \in BOOLEAN
    /\ pc \in Stages
    /\ (pc = "idle") = (copy = None)
    /\ target \in Ids \cup {None}
    /\ pc \in {"delete", "await"} => target # None
    /\ guests \in [Ids -> Guests \cup {None}] /\ making \in [Ids -> Guests \cup {None}]
    /\ \A i \in Ids : guests[i] = None \/ making[i] = None
    /\ astray \in BOOLEAN
    /\ cachedId \in Ids \cup {None}
    /\ cachedVM \in [Ids -> Snapshots \cup {None}]
    /\ faults \in 0..MaxFaults

\* "Retrying those after a connection drop mid-flight can ... spawn duplicate tasks or VMs": a
\* resource never has two guests, those under way included, whatever is retried, as long as no
\* creation is left under way (astray): its answer was lost, its wait timed out or the process
\* restarted, and the next reconcile lists the guests while the task still runs.  An answer that
\* is lost when the guest can be listed in time is not an exception.
OneGuest == astray \/ Cardinality(Own) <= 1

\* A resource with a finalizer goes away only when its guest has: a reconcile that was stopped,
\* repeated or overtaken by an edit of the spec leaves no guest behind, and none under way, unless
\* the resource was protected, DeleteVM could not look the guest up, or a creation that nobody
\* waits for went astray.
GuestGoesFirst ==
    [][obj # None /\ obj' = None /\ obj.finalizer /\ ~obj.protected /\ "lookup" \notin happened
       /\ ~astray
       => Own = {}]_vars

\* What a user takes OneGuest and GuestGoesFirst to say, without the exception.  The code does not
\* keep either of them.
NeverTwo == Cardinality(Own) <= 1
NothingLeft ==
    [][obj # None /\ obj' = None /\ obj.finalizer /\ ~obj.protected /\ "lookup" \notin happened
       => Own = {}]_vars

\* The finalizer comes first: no guest is made for a resource that is not there to delete it
\* again, even when it changes or goes while its reconcile is under way.
FinalizerComesFirst ==
    [][Own = {} /\ Own' # {} /\ copy.mode = "Reconcile" => obj # None /\ obj.finalizer]_vars

Lifecycle == INSTANCE GuestLifecycle WITH
    resource <- IF obj = None THEN "none" ELSE IF obj.finalizer THEN "held" ELSE "bare",
    own <- Own, making <- Making, astray <- astray,
    loose <- copy # None /\ copy.mode = "EnsureExists",
    spared <- (obj # None /\ obj.protected) \/ "lookup" \in happened

\* The controller does what a guest's controller promises, step by step; a guest that DeleteVM
\* could not look up is spared.
KeepsLifecycle == Lifecycle!Spec

\* The user leaves the spec as it is.
Settled(c, p) == obj # None /\ obj.config = c /\ obj.protected = p

\* The settings of the guest of a resource that the user leaves alone, in Reconcile mode.
LeftAlone(c, p) == Settled(c, p) /\ ~obj.deleting /\ obj.mode = "Reconcile"

\* "Every change on the VirtualMachine resource will be reflected to Proxmox": the guest of a
\* resource that stays as it is ends up configured or running with its settings, unless a task
\* gave up or the guest was taken away.
ChangesReflected ==
    \A c \in Configs, p \in BOOLEAN :
        <>[](LeftAlone(c, p) /\ happened \cap {"gave up", "vanished"} = {})
        => <>[](\E i \in Named : c \in {guests[i].config, Fresh(guests[i]).config})

\* "UpdateVM checks the delta for CPU and Memory and updates the VM with a restart": a guest
\* that runs ends up running with the settings of its resource, when nothing fails.
ChangesTakeEffect ==
    \A c \in Configs, p \in BOOLEAN :
        <>[](LeftAlone(c, p) /\ happened = {})
        => <>[](\E i \in Named : guests[i].running => guests[i].active = c)

\* A deleted resource whose spec is left alone goes away, however its reconcile is interrupted,
\* unless a task gave up or the guest vanished, which the client's cache does not notice.
DeletionCompletes ==
    \A c \in Configs, p \in BOOLEAN :
        ~<>[](Settled(c, p) /\ obj.deleting /\ happened \cap {"gave up", "vanished"} = {})

\* "Make the error as not found error to complete the deletion": a deleted resource goes away
\* when its guest is gone already.
DeletionOfGoneCompletes ==
    \A c \in Configs, p \in BOOLEAN :
        ~<>[](Settled(c, p) /\ obj.deleting /\ Own = {} /\ "gave up" \notin happened)

\* "Deleting a VirtualMachine deletes the guest": DeleteVM destroys no other guest.
DeletesItsGuest ==
    [][pc = "delete" => \A i \in Ids : guests[i] # None /\ guests'[i] = None => guests[i].name # Foreign]_vars
=============================================================================
