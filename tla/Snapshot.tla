------------------------------ MODULE Snapshot ------------------------------
(* One VirtualMachineSnapshot resource: its controller, the snapshots it takes of the guest of a *)
(* VirtualMachine, and an informer cache that lags.  The resource may be made before the machine *)
(* is, and may be deleted and made again under its name; the snapshots on Proxmox stay.          *)
EXTENDS Naturals, Sequences, SequencesExt

CONSTANTS
    None,       \* no object, no copy
    Always,     \* what Proxmox lists for every guest beside its snapshots
    MaxCreated, \* bound: resources made under the name
    MaxEdits,   \* bound: edits of the metadata, the mode among it
    MaxLag,     \* bound: versions the informer cache has not seen
    MaxFaults   \* bound: failures and restarts

Uids == 1..MaxCreated

\* named: spec.snapshotName is given.  matches: its connection is that of the machine.
Objects == [uid: Uids, named: BOOLEAN, matches: BOOLEAN, disabled: BOOLEAN, edit: 0..MaxEdits,
            owned: BOOLEAN, stamp: Nat, created: BOOLEAN]

ASSUME SnapshotAssumption ==
    /\ MaxCreated \in Nat /\ MaxEdits \in Nat /\ MaxLag \in Nat /\ MaxFaults \in Nat
    /\ None \notin Objects /\ "desired" \notin Always

VARIABLES
    log,      \* the versions of the resource from the informer's to the API server's
    queue,    \* whether its key is in the workqueue
    pc,       \* where its reconcile is
    copy,     \* the object that reconcile works on
    machine,  \* the VirtualMachine: "none", "waiting" for its guest's name, its "owner", or "gone"
    listed,   \* whether the guest has a snapshot with the desired name
    taken,    \* how many snapshots were taken for each resource
    created,  \* resources made so far
    edits,    \* edits so far
    faults,   \* faults so far
    happened  \* the marks of what happened so far

reconcile == <<log, queue, pc, copy>>
proxmox == <<listed, taken>>
trouble == <<faults, happened>>
users == <<machine, created, edits>>
vars == <<reconcile, proxmox, trouble, users>>

Seen == Head(log)
Stored == Last(log)

------------------------------------------------------------------------------
(* Outcomes, faults and writes *)

Return == pc' = "idle" /\ copy' = None /\ UNCHANGED queue
Requeue == pc' = "idle" /\ copy' = None /\ queue' = TRUE
GotoWith(s, c) == pc' = s /\ copy' = c /\ UNCHANGED queue
Goto(s) == GotoWith(s, copy)

Fault(kind) ==
    /\ faults < MaxFaults
    /\ faults' = faults + 1 /\ happened' = happened \cup {kind}

Mark(kind) == UNCHANGED faults /\ happened' = happened \cup {kind}

NoFault == UNCHANGED trouble

Store(v) ==
    /\ log' = IF v = Stored THEN log ELSE Append(log, v)
    /\ Len(log') <= MaxLag + 1

------------------------------------------------------------------------------
(* Users and events *)

UserCreate ==
    /\ Stored = None /\ created < MaxCreated
    /\ created' = created + 1
    /\ \E n, m \in BOOLEAN :
        Store([uid |-> created + 1, named |-> n, matches |-> m, disabled |-> FALSE, edit |-> 0,
               owned |-> FALSE, stamp |-> 0, created |-> FALSE])
    /\ UNCHANGED <<queue, pc, copy, proxmox, trouble, machine, edits>>

\* A label, or the annotation of the mode.
UserEdit ==
    /\ Stored # None /\ edits < MaxEdits
    /\ edits' = edits + 1
    /\ \E d \in BOOLEAN : Store([Stored EXCEPT !.edit = @ + 1, !.disabled = d])
    /\ UNCHANGED <<queue, pc, copy, proxmox, trouble, machine, created>>

\* The resource has no finalizer.  What it owns through its machine goes with the machine.
UserDelete ==
    /\ Stored # None /\ Store(None)
    /\ UNCHANGED <<queue, pc, copy, proxmox, trouble, users>>

CollectGarbage == machine = "gone" /\ Stored # None /\ Stored.owned /\ UserDelete

\* The machine is made, gets the name of its guest, and is deleted with its guest.
MachineChanges ==
    /\ \/ machine = "none" /\ machine' \in {"waiting", "owner"}
       \/ machine = "waiting" /\ machine' = "owner"
       \/ machine \in {"waiting", "owner"} /\ machine' = "gone"
    /\ UNCHANGED <<reconcile, proxmox, trouble, created, edits>>

\* Only changes of the spec enqueue the key: the timestamp is one.
Deliver ==
    /\ Len(log) > 1
    /\ log' = Tail(log)
    /\ LET old == log[1]
           new == log[2]
       IN queue' = (queue \/ old = None \/ new = None \/ new.stamp # old.stamp)
    /\ UNCHANGED <<pc, copy, proxmox, trouble, users>>

------------------------------------------------------------------------------
(* Reconcile *)

\* Mutant of Get: a resource that is gone is reconciled.
GetMissing ==
    /\ pc = "idle" /\ queue
    /\ queue' = FALSE /\ pc' = "own" /\ copy' = Seen
    /\ NoFault /\ UNCHANGED <<log, proxmox, users>>

\* When it is disabled or without its machine there is nothing to be done, and no retry.
Get ==
    /\ pc = "idle" /\ queue
    /\ queue' = FALSE
    /\ IF Seen # None /\ ~Seen.disabled /\ machine \in {"waiting", "owner"}
       THEN pc' = "own" /\ copy' = Seen /\ NoFault
       ELSE /\ UNCHANGED <<pc, copy>>
            /\ IF Seen # None THEN Mark("early") ELSE NoFault
    /\ UNCHANGED <<log, proxmox, users>>

\* Mutant of SetOwner: a merge patch, which an object that is out of date does not stop.
PatchOwner ==
    /\ pc = "own"
    /\ IF Stored = None THEN Requeue /\ UNCHANGED log
       ELSE /\ Store([Stored EXCEPT !.owned = TRUE])
            /\ IF ~copy.matches THEN Return
               ELSE IF machine = "waiting" THEN Requeue
               ELSE GotoWith("list", copy)
    /\ NoFault /\ UNCHANGED <<proxmox, users>>

\* Mutant of SetOwner: a machine that waits for the name of its guest is not waited for.
SetOwnerOnce ==
    /\ pc = "own"
    /\ IF Stored # copy THEN Requeue /\ UNCHANGED log
       ELSE LET new == [copy EXCEPT !.owned = TRUE] IN
            /\ Store(new)
            /\ IF copy.matches /\ machine # "waiting" THEN GotoWith("list", new) ELSE Return
    /\ NoFault /\ UNCHANGED <<proxmox, users>>

\* The Update is refused when the object is not the one that was read.  A machine that waits for
\* the name of its guest is waited for.
SetOwner ==
    /\ pc = "own"
    /\ IF Stored # copy THEN Requeue /\ UNCHANGED log
       ELSE LET new == [copy EXCEPT !.owned = TRUE] IN
            /\ Store(new)
            /\ IF ~copy.matches THEN Return
               ELSE IF machine = "waiting" THEN Requeue
               ELSE GotoWith("list", new)
    /\ NoFault /\ UNCHANGED <<proxmox, users>>

\* utils.ExistsIn: whether the second is part of the first.
ExistsIn(first, second) == second \subseteq first

Listing == Always \cup (IF listed THEN {"desired"} ELSE {})

\* The name of a snapshot: the one in the spec, or one made of the time.
SnapshotName == IF copy.named THEN "desired" ELSE "now"

\* Mutant of HandleSnapshotCreation: the snapshot is recorded before it is taken.
RecordFirst ==
    /\ pc = "list"
    /\ IF machine = "gone" THEN Requeue
       ELSE IF copy.created THEN Return ELSE Goto("mark")
    /\ NoFault /\ UNCHANGED <<log, proxmox, users>>

\* The existing snapshots are looked for in the desired name.
HandleSnapshotCreation ==
    /\ pc = "list"
    /\ IF machine = "gone" THEN Requeue
       ELSE IF ExistsIn({SnapshotName}, Listing) THEN Goto("mark")
       ELSE IF copy.created THEN Return ELSE Goto("take")
    /\ NoFault /\ UNCHANGED <<log, proxmox, users>>

Taken ==
    /\ taken' = [taken EXCEPT ![copy.uid] = @ + 1]
    /\ listed' = (listed \/ copy.named)

\* Proxmox refuses a second snapshot with one name.  The task may fail, or it outlasts the wait and
\* counts as failed.
CreateVMSnapshot ==
    /\ pc = "take"
    /\ IF machine = "gone" \/ (copy.named /\ listed) THEN Requeue /\ NoFault /\ UNCHANGED proxmox
       ELSE \/ Taken /\ Goto("stamp") /\ NoFault
            \/ Requeue /\ Fault("failed") /\ UNCHANGED proxmox
            \/ Taken /\ Requeue /\ Fault("lost")
    /\ UNCHANGED <<log, users>>

\* An Update that is refused when somebody edited the resource since.
SetTimestamp ==
    /\ pc = "stamp"
    /\ IF Stored = copy
       THEN LET new == [copy EXCEPT !.stamp = @ + 1] IN Store(new) /\ GotoWith("mark", new) /\ NoFault
       ELSE IF Stored = None THEN Return /\ UNCHANGED log /\ NoFault
       ELSE Requeue /\ UNCHANGED log /\ Mark("unrecorded")
    /\ UNCHANGED <<proxmox, users>>

\* A merge patch of the status of whatever has the name.
SetCreated ==
    /\ pc = "mark"
    /\ Return
    /\ IF Stored = None THEN UNCHANGED log ELSE Store([Stored EXCEPT !.created = TRUE])
    /\ NoFault /\ UNCHANGED <<proxmox, users>>

Interrupted == Fault(IF pc \in {"stamp", "mark"} THEN "unrecorded" ELSE "failed")

\* Any other call fails: the error is returned and the key retried.
ReconcileError ==
    /\ pc # "idle" /\ Requeue /\ Interrupted
    /\ UNCHANGED <<log, proxmox, users>>

Restart ==
    /\ log' = <<Stored>> /\ queue' = (Stored # None)
    /\ pc' = "idle" /\ copy' = None
    /\ Interrupted
    /\ UNCHANGED <<proxmox, users>>

------------------------------------------------------------------------------

\* A snapshot with the desired name may be on Proxmox before the resource is made.
Init ==
    /\ log = <<None>> /\ queue = FALSE /\ pc = "idle" /\ copy = None
    /\ machine = "none" /\ created = 0 /\ edits = 0
    /\ listed \in BOOLEAN /\ taken = [u \in Uids |-> 0]
    /\ faults = 0 /\ happened = {}

Reconcile ==
    \/ Get \/ SetOwner \/ HandleSnapshotCreation \/ CreateVMSnapshot \/ SetTimestamp \/ SetCreated

Next ==
    \/ UserCreate \/ UserEdit \/ UserDelete \/ CollectGarbage \/ MachineChanges
    \/ Deliver \/ Reconcile \/ ReconcileError \/ Restart

Spec == Init /\ [][Next]_vars

\* Workers take queued keys and retry what failed, the watch delivers.
FairSpec == Spec /\ WF_vars(Reconcile) /\ WF_vars(Deliver)

------------------------------------------------------------------------------
(* Properties *)

\* The type of the state; a reconcile has a copy.
TypeOK ==
    /\ log \in Seq(Objects \cup {None}) /\ Len(log) \in 1..(MaxLag + 1)
    /\ queue \in BOOLEAN
    /\ pc \in {"idle", "own", "list", "take", "stamp", "mark"}
    /\ copy \in Objects \cup {None}
    /\ (pc = "idle") = (copy = None)
    /\ machine \in {"none", "waiting", "owner", "gone"}
    /\ listed \in BOOLEAN /\ taken \in [Uids -> Nat]
    /\ created \in 0..MaxCreated /\ edits \in 0..MaxEdits
    /\ faults \in 0..MaxFaults /\ happened \subseteq {"early", "failed", "lost", "unrecorded"}

\* "This will create only one snapshot": although the timestamp that is stored once it is taken
\* brings the key back before the status says Created, and the copy may be older than either.  A
\* task that outlasts the wait, or an error, restart or edit between the snapshot and its record,
\* makes one more.
TakenOnce ==
    happened \cap {"lost", "unrecorded"} = {} => \A u \in Uids : taken[u] <= 1

\* Whatever fails, no snapshot is taken for a resource that is Created.
CreatedIsFinal ==
    [][\A u \in Uids : taken'[u] > taken[u]
        => (Stored # None /\ Stored.uid = u => ~Stored.created)]_vars

\* A resource is Created only when there is a snapshot: one with its name, or one that was taken
\* for it or for the resource that had its name before.
CreatedMeansTaken ==
    Stored # None /\ Stored.created =>
        (listed /\ Stored.named) \/ (\E u \in Uids : u <= Stored.uid /\ taken[u] > 0)

\* The resource is not Created, although its machine has its guest, and it was not looked at before
\* the machine was there or while it was disabled.
Outstanding ==
    /\ Stored # None /\ ~Stored.created /\ Stored.matches
    /\ machine = "owner" /\ "early" \notin happened

\* There is a snapshot with the name in its spec.
Exists == Stored.named /\ listed

\* A resource does not stay without a record of its snapshot, unless one with its name exists that
\* is not its own, or that is its own and was lost sight of: the task outlasted the wait, or an
\* error, restart or edit came before the record.  Proxmox refuses the name then, for ever.
SnapshotCompletes ==
    ~<>[](Outstanding /\ (Exists => /\ taken[Stored.uid] > 0
                                  /\ happened \cap {"lost", "unrecorded"} = {}))

\* No run checks this, and TLC finds it violated: HandleSnapshotCreation is meant to record a
\* snapshot that exists, but looks for what is listed in the name instead of the name in the list.
ExistingIsCreated == ~<>[](Outstanding /\ Exists)
=============================================================================
