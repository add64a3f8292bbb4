---------------------------- MODULE MachineConfig ----------------------------
(* The devices of one virtual machine: how ConfigureVirtualMachine brings the NICs, the disks  *)
(* and the PCI devices of the guest to the lists of the spec, from the configuration that the  *)
(* client has cached and the watcher's polls refresh.  A stage of a reconcile reads the cached *)
(* configuration once, plans its calls, and makes them one by one.                             *)
EXTENDS Integers, Sequences, FiniteSets, SequencesExt

CONSTANTS
    Nets,      \* models and bridges of NICs
    NetSlots,  \* bound: the numbers of NICs, 0..n
    Devices,   \* names of disk devices
    Storages,  \* where disks are
    PCIs,      \* PCI devices with their options
    PCISlots,  \* bound: the numbers of PCI devices, 0..n
    Unit,      \* megabytes in a gigabyte
    Specs,     \* what users ask for
    Templates, \* the configurations that clones start with
    None,      \* no device, no copy, no cached configuration, no plan
    MaxFaults  \* bound: failed calls, restarts and changes made outside of the operator

\* A desired disk, in gigabytes, and one of a guest, in megabytes.
Disks == [device : Devices, storage : Storages, size : Nat \ {0}]
Volumes == [storage : Storages, size : Nat \ {0}]

IsSpec(s) ==
    /\ s \in [nets : Seq(Nets), disks : Seq(Disks), pcis : Seq(PCIs)]
    /\ Len(s.nets) <= Cardinality(NetSlots) /\ Len(s.pcis) <= Cardinality(PCISlots)
    /\ \A j, k \in DOMAIN s.disks : s.disks[j].device = s.disks[k].device => j = k

Configs ==
    [net : [NetSlots -> Nets \cup {None}],
     disk : [Devices -> Volumes \cup {None}],
     pci : [PCISlots -> PCIs \cup {None}]]

ASSUME MachineConfigAssumption ==
    /\ Unit \in Nat \ {0} /\ MaxFaults \in Nat /\ IsFiniteSet(Devices)
    /\ IsFiniteSet(NetSlots) /\ NetSlots = 0..Cardinality(NetSlots) - 1
    /\ IsFiniteSet(PCISlots) /\ PCISlots = 0..Cardinality(PCISlots) - 1
    /\ \A s \in Specs : IsSpec(s)
    /\ Templates \subseteq Configs
    /\ None \notin Nets \cup PCIs /\ None \notin Volumes /\ None \notin Configs /\ None \notin Specs

VARIABLES
    spec,     \* the lists of devices in the resource
    queue,    \* whether its key is in the workqueue
    stage,    \* where its reconcile is
    copy,     \* the spec that reconcile works on
    plan,     \* the calls its stage has still to make; None before it has read the configuration
    guest,    \* the guest's configuration
    active,   \* the PCI devices that the guest runs with; None when it does not run
    view,     \* the configuration in the client's cache
    watched,  \* whether the external watcher polls this resource
    faults,   \* faults so far
    exact     \* ghost: the plan was made from the devices of its stage as they are, and since then
              \* nothing failed and nobody else changed them

vars == <<spec, queue, stage, copy, plan, guest, active, view, watched, faults, exact>>

------------------------------------------------------------------------------
(* Faults and outcomes *)

Fault == faults < MaxFaults /\ faults' = faults + 1 /\ exact' = FALSE

NoFault == UNCHANGED <<faults, exact>>

After == [net |-> "disk", disk |-> "pci", pci |-> "idle"]

\* Go on with the calls in p, or with the next stage when there are none.
Onward(p) ==
    /\ IF p # <<>> THEN plan' = p /\ UNCHANGED stage ELSE plan' = None /\ stage' = After[stage]
    /\ copy' = IF stage' = "idle" THEN None ELSE copy
    /\ UNCHANGED <<queue, watched>>

Idle == stage' = "idle" /\ plan' = None /\ copy' = None

Requeue == Idle /\ queue' = TRUE /\ UNCHANGED watched

\* A TaskError: the watcher stops polling and a TerminalError is not retried.
GiveUp == Idle /\ watched' = FALSE /\ UNCHANGED queue

\* A call that makes the guest's configuration c and its running devices a, and the wait for its
\* task.  The call may fail before or after it took effect, and so may the task.
Call(c, a) ==
    LET Done == guest' = c /\ active' = a IN
    \/ Done /\ Onward(Tail(plan)) /\ NoFault
    \/ (Done \/ UNCHANGED <<guest, active>>) /\ Requeue /\ Fault
    \/ (Done \/ UNCHANGED <<guest, active>>) /\ GiveUp /\ Fault

\* A call that Proxmox refuses, and an index out of range, whose panic ends the reconcile.
Refused == Requeue /\ NoFault /\ UNCHANGED <<guest, active>>

------------------------------------------------------------------------------
(* What is read and what is planned *)

View == IF view # None THEN view ELSE guest

\* parseNetworkConfiguration ranges over a map: the NICs come in any order, without their numbers.
NetOrders(c) == SetToSeqs({n \in NetSlots : c.net[n] # None})
ParsedNets(c, order) == [k \in DOMAIN order |-> c.net[order[k]]]

\* parseDiskConfiguration truncates megabytes to gigabytes.
ParsedDisks(c) ==
    {[device |-> d, storage |-> c.disk[d].storage, size |-> c.disk[d].size \div Unit] :
        d \in {e \in Devices : c.disk[e] # None}}

Set(kind, slot, to) == [do |-> "set", kind |-> kind, slot |-> slot, to |-> to]
Unset(kind, slot) == Set(kind, slot, None)
Detach(device) == [do |-> "detach", slot |-> device]
Resize(disk) == [do |-> "resize", slot |-> disk.device, to |-> disk]
Panic == [do |-> "panic"]
Stop == [do |-> "stop"]
Start == [do |-> "start"]

\* A new volume of the desired size.
Volume(disk) == [storage |-> disk.storage, size |-> disk.size * Unit]

\* The numbers from a up to b, without b; those of S, from the lowest on; Op for each element of s.
UpTo(a, b) == [k \in 1..(IF b > a THEN b - a ELSE 0) |-> a + k - 1]
Ascending(S) == {s \in SetToSeqs(S) : \A j, k \in DOMAIN s : j < k => s[j] < s[k]}
Each(Op(_), s) == [k \in DOMAIN s |-> Op(s[k])]

\* Mutant of NetPlans: a NIC that is there is not compared.
NetPlansOfCounts(nets, parsed) ==
    LET SetNet(n) == Set("net", n, nets[n + 1])
        RemoveNet(n) == Unset("net", n)
    IN  {Each(RemoveNet, UpTo(Len(nets), Len(parsed))) \o Each(SetNet, UpTo(Len(parsed), Len(nets)))}

\* configureVirtualMachineNetwork: the surplus NICs are deleted, the missing ones added, and the
\* others updated where they differ.  The last loop runs over the parsed NICs, so with fewer
\* desired ones, unless with none, it ends in a panic.
NetPlans(nets, parsed) ==
    LET Desired == Len(nets)
        Actual == Len(parsed)
        SetNet(n) == Set("net", n, nets[n + 1])
        RemoveNet(n) == Unset("net", n)
        Different == {n \in 0..Desired - 1 : n < Actual /\ nets[n + 1] # parsed[n + 1]}
    IN  IF nets = parsed THEN {<<>>}
        ELSE {Each(RemoveNet, UpTo(Desired, Actual))
              \o Each(SetNet, UpTo(Actual, Desired))
              \o Each(SetNet, different)
              \o (IF 0 < Desired /\ Desired < Actual THEN <<Panic>> ELSE <<>>) :
                different \in Ascending(Different)}

\* classifyItems for disks: the desired ones that the guest lacks, those that it has otherwise, and
\* the devices of the guest that the spec does not name.
NewDisks(disks, parsed) == {k \in DOMAIN disks : \A p \in parsed : p.device # disks[k].device}
ChangedDisks(disks, parsed) == {k \in DOMAIN disks \ NewDisks(disks, parsed) : disks[k] \notin parsed}
UnwantedDisks(disks, parsed) ==
    {p.device : p \in {q \in parsed : \A k \in DOMAIN disks : disks[k].device # q.device}}

\* applyChanges for disks: the additions, the updates and the deletions.
DiskPlan(disks, new, changed, unwanted) ==
    LET AddDisk(k) == Set("disk", disks[k].device, Volume(disks[k]))
        UpdateDisk(k) == Resize(disks[k])
    IN  Each(AddDisk, new) \o Each(UpdateDisk, changed) \o Each(Detach, unwanted)

\* The desired disks come in their order, and the deletions in any.
DiskPlans(disks, parsed) ==
    {DiskPlan(disks, new, changed, unwanted) :
        new \in Ascending(NewDisks(disks, parsed)),
        changed \in Ascending(ChangedDisks(disks, parsed)),
        unwanted \in SetToSeqs(UnwantedDisks(disks, parsed))}

\* An empty list in the spec leaves the guest's PCI devices alone.
DifferentPCIs(pcis, c) == {n \in 0..Len(pcis) - 1 : c.pci[n] # pcis[n + 1]}
UnwantedPCIs(pcis, c) == {n \in PCISlots : pcis # <<>> /\ n >= Len(pcis) /\ c.pci[n] # None}

\* ApplyPCIChanges: the additions and updates, and the deletions.
PCICalls(pcis, different, unwanted) ==
    LET SetPCI(n) == Set("pci", n, pcis[n + 1])
        RemovePCI(n) == Unset("pci", n)
    IN  Each(SetPCI, different) \o Each(RemovePCI, unwanted)

PCIChanges(pcis, c) ==
    {PCICalls(pcis, different, unwanted) :
        different \in Ascending(DifferentPCIs(pcis, c)), unwanted \in SetToSeqs(UnwantedPCIs(pcis, c))}

\* Mutant of PCIPlan: the guest is not started again.
PCIPlanRuns(changes) == changes

\* Mutant of PCIPlan: the guest is restarted before the changes.
PCIPlanFirst(changes) == IF changes = <<>> THEN <<>> ELSE <<Stop, Start>> \o changes

\* A stop and a start when anything changed.
PCIPlan(changes) == IF changes = <<>> THEN <<>> ELSE changes \o <<Stop, Start>>

------------------------------------------------------------------------------
(* Users, the watcher, and what happens on Proxmox without the operator *)

\* An edit of the lists, or of the rest of the resource, enqueues the key; a new generation
\* registers the watcher again.
UserEdit ==
    /\ spec' \in Specs
    /\ queue' = TRUE /\ watched' = TRUE
    /\ UNCHANGED <<stage, copy, plan, guest, active, view, faults, exact>>

\* Someone takes a device away, adds one or changes one.
Tamper ==
    /\ guest' \in {[guest EXCEPT !.net[n] = v] : n \in NetSlots, v \in Nets \cup {None}}
                  \cup {[guest EXCEPT !.disk[d] = None] : d \in Devices}
    /\ guest' # guest
    /\ Fault
    /\ UNCHANGED <<spec, queue, stage, copy, plan, active, view, watched>>

\* The state that the watcher compares: NICs in the order of a map, and sorted disks, but no PCI
\* devices.  An empty list is never equal to the nil that an absent one is.
Delta(order) ==
    \/ spec.nets # ParsedNets(guest, order) \/ spec.nets = <<>>
    \/ ToSet(spec.disks) # ParsedDisks(guest) \/ spec.disks = <<>>

\* Mutant of Poll: the fetched guest does not replace the cached one.
PollOnly ==
    /\ watched
    /\ \E order \in NetOrders(guest) : queue' = (queue \/ Delta(order))
    /\ UNCHANGED <<spec, stage, copy, plan, guest, active, view, watched, faults, exact>>

\* A poll fetches the guest past the cache, caches it, and enqueues the key when it finds a delta.
Poll ==
    /\ watched
    /\ view' = guest
    /\ \E order \in NetOrders(guest) : queue' = (queue \/ Delta(order))
    /\ UNCHANGED <<spec, stage, copy, plan, guest, active, watched, faults, exact>>

------------------------------------------------------------------------------
(* Reconcile *)

Get ==
    /\ stage = "idle" /\ queue
    /\ queue' = FALSE /\ copy' = spec /\ stage' = "net" /\ plan' = None
    /\ exact' = FALSE
    /\ UNCHANGED <<spec, guest, active, view, watched, faults>>

\* A stage reads the configuration, which the lookup leaves in the cache, and goes on with p.
Planned(p) ==
    /\ view' = View /\ Onward(p)
    /\ UNCHANGED <<spec, guest, active, faults>>

PlanNets(orders) ==
    /\ stage = "net" /\ plan = None
    /\ \E order \in orders :
        /\ \E p \in NetPlans(copy.nets, ParsedNets(View, order)) : Planned(p)
        /\ exact' = (View.net = guest.net /\ \A k \in DOMAIN order : order[k] = k - 1)

PlanDisks ==
    /\ stage = "disk" /\ plan = None
    /\ \E p \in DiskPlans(copy.disks, ParsedDisks(View)) : Planned(p)
    /\ exact' = (View.disk = guest.disk)

PlanPCIs ==
    /\ stage = "pci" /\ plan = None
    /\ \E changes \in PCIChanges(copy.pcis, View) : Planned(PCIPlan(changes))
    /\ exact' = (View.pci = guest.pci)

Doing(what) == plan # None /\ Head(plan).do = what

\* The configuration call of updateNetworkConfig, deleteVirtualMachineOption, addDiskConfig or
\* updatePCIConfig.  A new disk takes the place of the one that has its name.
SetOption ==
    /\ Doing("set")
    /\ LET op == Head(plan) IN Call([guest EXCEPT ![op.kind][op.slot] = op.to], active)
    /\ UNCHANGED <<spec, view>>

\* A call whose task nobody waits for.
Unawaited(c) ==
    /\ \/ guest' = c /\ Onward(Tail(plan)) /\ NoFault
       \/ guest' = guest /\ Onward(Tail(plan)) /\ Fault
       \/ guest' \in {guest, c} /\ Requeue /\ Fault
    /\ UNCHANGED active

\* applyChanges does not wait for the deletion of a disk.
DetachDisk ==
    /\ Doing("detach")
    /\ Unawaited([guest EXCEPT !.disk[Head(plan).slot] = None])
    /\ UNCHANGED <<spec, view>>

\* updateDiskConfig reads the configuration again and leaves a disk of another storage alone.
\* Proxmox refuses to shrink a disk.
ResizeDisk ==
    /\ Doing("resize")
    /\ LET d == Head(plan).slot
           size == Head(plan).to.size * Unit
       IN  IF View.disk[d] # None /\ View.disk[d].storage # Head(plan).to.storage
           THEN Onward(Tail(plan)) /\ NoFault /\ UNCHANGED <<guest, active>>
           ELSE IF guest.disk[d] = None \/ guest.disk[d].size > size THEN Refused
           ELSE Unawaited([guest EXCEPT !.disk[d].size = size])
    /\ view' = View
    /\ UNCHANGED spec

\* The index out of range.
PanicInLoop ==
    /\ Doing("panic") /\ Refused
    /\ UNCHANGED <<spec, view>>

\* Mutant of StopVM: the reconcile returns with calls left to make.
StopVMReturns ==
    /\ Doing("stop")
    /\ active' = None /\ stage' = "idle" /\ copy' = None
    /\ UNCHANGED <<spec, queue, plan, guest, view, watched, faults, exact>>

StopVM ==
    /\ Doing("stop")
    /\ Call(guest, None)
    /\ UNCHANGED <<spec, view>>

\* A guest takes its PCI devices when it starts.
StartVM ==
    /\ Doing("start")
    /\ Call(guest, guest.pci)
    /\ UNCHANGED <<spec, view>>

\* Any other call fails: the error is returned and the key retried.
ReconcileError ==
    /\ stage # "idle"
    /\ Requeue /\ Fault
    /\ UNCHANGED <<spec, guest, active, view>>

\* The process restarts.
Restart ==
    /\ Idle /\ queue' = TRUE /\ watched' = TRUE /\ view' = None
    /\ Fault
    /\ UNCHANGED <<spec, guest, active>>

------------------------------------------------------------------------------

\* The guest has been made and started.
Init ==
    /\ spec \in Specs /\ queue \in BOOLEAN
    /\ stage = "idle" /\ copy = None /\ plan = None
    /\ guest \in Templates /\ active = guest.pci /\ view = None
    /\ watched = TRUE /\ faults = 0 /\ exact = FALSE

Reconcile ==
    \/ Get \/ PlanNets(NetOrders(View)) \/ PlanDisks \/ PlanPCIs
    \/ SetOption \/ DetachDisk \/ ResizeDisk \/ PanicInLoop \/ StopVM \/ StartVM

Next == UserEdit \/ Tamper \/ Poll \/ Reconcile \/ ReconcileError \/ Restart

Spec == Init /\ [][Next]_vars

\* A reading that has the NICs in the order of their numbers.
Straight == PlanNets({SetToSortSeq({n \in NetSlots : View.net[n] # None}, <)})

\* The worker takes a queued key and makes its calls, the watcher polls every minute, and no
\* order of a map, which Go picks at random, is missed for ever.
FairSpec == Spec /\ WF_vars(Reconcile) /\ WF_vars(Poll) /\ SF_vars(Straight)

------------------------------------------------------------------------------
(* Properties *)

Calls ==
    [do : {"set"}, kind : {"net"}, slot : NetSlots, to : Nets \cup {None}]
    \cup [do : {"set"}, kind : {"disk"}, slot : Devices, to : Volumes]
    \cup [do : {"set"}, kind : {"pci"}, slot : PCISlots, to : PCIs \cup {None}]
    \cup [do : {"detach"}, slot : Devices] \cup [do : {"resize"}, slot : Devices, to : Disks]
    \cup {Panic, Stop, Start}

\* The type of the state; a plan belongs to a stage, and a stage to a copy of the spec.
TypeOK ==
    /\ spec \in Specs /\ copy \in Specs \cup {None}
    /\ queue \in BOOLEAN /\ watched \in BOOLEAN
    /\ stage \in {"idle", "net", "disk", "pci"}
    /\ stage = "idle" <=> copy = None
    /\ plan # None => stage # "idle" /\ plan \in Seq(Calls) /\ Len(plan) > 0
    /\ guest \in Configs /\ view \in Configs \cup {None}
    /\ active \in [PCISlots -> PCIs \cup {None}] \cup {None}
    /\ faults \in 0..MaxFaults /\ exact \in BOOLEAN

\* The NICs are numbered without gaps.
NoGap == \A n \in NetSlots : guest.net[n] # None => \A m \in 0..n : guest.net[m] # None

\* No desired disk is smaller than the one the guest has.
Growable(s) ==
    \A k \in DOMAIN s.disks : LET have == guest.disk[s.disks[k].device] IN
        have # None => have.size \div Unit <= s.disks[k].size \/ have.storage # s.disks[k].storage

\* A list of devices that are told by their numbers, as a guest has it.
Wanted(list, n) == IF n < Len(list) THEN list[n + 1] ELSE None

NetsAre(c, nets) == \A n \in NetSlots : c.net[n] = Wanted(nets, n)

\* A disk of another storage is left as it is.
DiskIs(volume, disk) ==
    volume # None /\ (volume.storage # disk.storage \/ volume.size \div Unit = disk.size)

DisksAre(c, disks) ==
    \A d \in Devices :
        IF \E k \in DOMAIN disks : disks[k].device = d
        THEN \E k \in DOMAIN disks : disks[k].device = d /\ DiskIs(c.disk[d], disks[k])
        ELSE c.disk[d] = None

\* A stage that plans from the devices as they are, and whose calls are done with nobody meddling,
\* ends with the devices of the spec: one loop sets what another one does not, no call undoes
\* another, and a guest that got other PCI devices runs with them.
StagesAchieve ==
    [][exact' =>
        /\ stage = "net" /\ stage' = "disk" => NetsAre(guest', copy.nets)
        /\ stage = "disk" /\ stage' = "pci" => DisksAre(guest', copy.disks)
        /\ stage = "pci" /\ stage' = "idle" =>
            /\ copy.pcis # <<>> => \A n \in PCISlots : guest'.pci[n] = Wanted(copy.pcis, n)
            /\ plan # None => active' = guest'.pci]_vars

\* "Every change on the VirtualMachine resource will be reflected to Proxmox": in spite of stale
\* caches, map orders, panics and one call after another, the NICs and disks of a machine whose
\* spec stays as it is end up as in the spec.  The code gets stuck when the NICs have a gap
\* between their numbers or a disk is larger than it should be, and when a task gave up.
DevicesConverge ==
    \A s \in Specs :
        <>[](spec = s /\ NoGap /\ Growable(s) /\ watched) => <>[](NetsAre(guest, s.nets) /\ DisksAre(guest, s.disks))

PCIsAre(pcis) == \A n \in PCISlots : active # None /\ active[n] = Wanted(pcis, n)

\* A change of a list of PCI devices that a reconcile sees with a fresh configuration ends with
\* a guest that runs with exactly these devices, unless the user changes his mind or a call fails.
PCIsTakeEffect ==
    \A s \in Specs :
        (queue /\ stage = "idle" /\ spec = s /\ s.pcis # <<>> /\ view = guest /\ NoGap /\ Growable(s)
            /\ active = guest.pci)
        ~> (spec # s \/ PCIsAre(s.pcis) \/ faults > 0)
=============================================================================
