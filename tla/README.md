# A TLA+ model of kubemox

kubemox is a Kubernetes operator that manages Proxmox VE: users apply custom resources
(`VirtualMachine`, `Container`, `VirtualMachineSet`, ...) and nine controllers create, change and
delete guests, templates, snapshots, downloads and certificates through the Proxmox API. The code
is short loops over two remote systems. What makes it hard is what the loops cannot see: informer
caches that lag, answers that get lost, caches of their own that go stale, and deletions that must
not be forgotten when a step fails.

This directory holds TLA+ modules of the operator, the TLC runs that check them on small instances,
and TLAPS proofs for every value of the constants. `PROJECT.json` lists components, runs, mutated
definitions each property is able to tell from the code, theorems, hazards at their lines, findings,
and for every definition the lines it models.

## 1. The system

One process, elected leader, runs the controllers of `internal/controller/proxmox` on
controller-runtime: every controller has informer caches that follow the API server, a workqueue
that never hands one key to two workers, and an update predicate that decides which events enqueue
a key. All of them get their Proxmox client from `pkg/proxmox`. `kube-external-watcher` polls
Proxmox once a minute and enqueues what drifted.

| Component | State it keeps | Operations | What makes it correct | Module |
|---|---|---|---|---|
| Guest-name ownership (`pkg/guestname`, `claimGuest`, name webhook) | the `NameConflict` condition, 30 s timers | list the claims on a guest name from two caches; admit, mark, clear, release | one resource works on a guest: the oldest claim; the next one takes over | `GuestName` |
| Client cache and credentials (`connection.go`, `credentials.go`, ProxmoxConnection controller) | one client per connection, `clientCacheMutex`, `status.observedSecrets` | build or reuse a client; follow Secrets | a rotated credential reaches every client, and an old one never returns | `ClientCache` |
| VirtualMachine controller and QEMU calls (`virtualmachine_controller.go`, `virtualmachine.go`) | finalizer, conditions; cached VMIDs and guest snapshots | find, clone or create, start, reconfigure, reboot, tag, stop, delete | one guest per resource as long as no creation is lost sight of, changes reflected, guest gone before its resource | `VirtualMachine` |
| Configuration deltas (`generics.go`; NICs, disks, PCI devices) | the cached configuration | plan the calls of a stage from the cached configuration, make them one by one; reboot for PCI devices | the guest ends up with the devices of the spec | `MachineConfig` |
| External watcher glue (`fetcher.go`, `cmd/main.go`) | registrations by generation | poll, compare, refresh the cached snapshot, enqueue | every drift is noticed | `Poll` of each guest's module |
| VirtualMachineSet controller | finalizer, conditions, owned machines | scale up, update, scale down, delete all | exactly `replicas` machines of the template; nothing wanted is deleted | `VirtualMachineSet` |
| Container controller and LXC calls | cached containers, `appliedImage` status | clone or create from an OCI image, replace when the image changes, start, update, delete | one container, of the recorded image; nothing of another guest deleted | `Container` |
| VirtualMachineTemplate controller | finalizer, Available; cached guests | create the StorageDownloadURL, wait for it, create, import, set up cloud-init, convert, delete | one guest, a template in the end; deletion leaves nothing | `Template` |
| StorageDownloadURL controller | finalizer, status; a file, a task | download, wait, delete | the file goes with the resource | `StorageDownload` |
| VirtualMachineSnapshot controller | timestamp, status Created | take once | one snapshot; Created means taken | `Snapshot` |
| VirtualMachineSnapshotPolicy controller | crons in memory, one per policy | start, change, stop a cron; a snapshot resource for each machine | a policy has one cron, of its last spec | `SnapshotPolicy` |
| Node, VMID and guest caches (`nodesCache`) | maps under two mutexes | read, fill, drop | no entry outlives its guest | the caches of each guest's module |
| VMID allocation | `cluster/nextid` with a mutex around some creators | next id, then create | two creations never share a VMID | not modelled |
| CustomCertificate controller | condition, finalizer, Proxmox certificate | issue through cert-manager, upload, delete | deletion ends after a failure in between | not modelled |
| Webhook certificates (`internal/webhook/certs`) | a Secret and the `caBundle`s | create or renew, inject | served certificate and CA match | not modelled |
| HTTP transport (`RetryRoundTripper`) | none | retry idempotent requests | no request that creates something is repeated | not modelled |
| API types, generated code, process set-up, metrics, tracing, helpers | - | - | - | - |

How they interact: a reconcile starts with `claimGuest` (ownership), asks `NewProxmoxClientFromRef`
for a client (client cache), looks its guest up in the client's caches or on Proxmox, waits for
Proxmox tasks, patches its status and returns; events of its own writes, of the watcher and of
owned objects bring it back. The VirtualMachineSet controller only writes VirtualMachine resources,
a policy's cron only VirtualMachineSnapshots, a template a StorageDownloadURL, which is garbage
collected with it. The informer caches are separate per kind, so two kinds, or a set and its
machines, are seen at different moments.

## 2. Modules

| Module | Models | Runs (through `MC<module>`) | Proved in |
|---|---|---|---|
| `GuestName` | ownership of guest names | `guest_owner`, `guest_takeover` | `GuestNameProofs` |
| `ClientCache` | clients, credentials and their rotation | `client_rotation` | `ClientCacheProofs` |
| `GuestLifecycle` | the abstract specification of every controller of guests | as a property of the next three | as the theorems `LifecycleKept` of these |
| `VirtualMachine` | one VirtualMachine and its guest | `vm_lifecycle` | `VirtualMachineProofs` |
| `Container` | one Container, its guest and the images on storage | `container_lifecycle`, `container_image` | `ContainerProofs` |
| `Template` | one VirtualMachineTemplate and its guest, composed with `StorageDownload` | `template_download`, `template_stuck` | `TemplateProofs` |
| `StorageDownload` | one StorageDownloadURL, its file and its tasks | as part of `Template` | `TemplateProofs` |
| `MachineConfig` | the NICs, disks and PCI devices of one guest | `machine_config` | `MachineConfigProofs` |
| `ReplicaLifecycle` | the abstract specification of a set | as a property of `VirtualMachineSet` | as its theorem `ReplicasKept` |
| `VirtualMachineSet` | one set and its machines | `vmset_scaling` | `VirtualMachineSetProofs` |
| `Snapshot` | one VirtualMachineSnapshot and the snapshots taken for it | `snapshot_once` | `SnapshotProofs` |
| `SnapshotPolicy` | the policies, their crons and the runs of these | `policy_rounds` | `SnapshotProofs` |

Conventions shared by the modules: a cache that lags is a sequence of states (`log`) whose first
element the cache holds and whose last one the API server holds; delivering a watch event drops the
first. A reconcile is a program counter with the copy it read, and every call that reads or writes
something another actor may change is a step of its own. An `Update` is refused when the copy is not
the stored version, a merge patch is not, and a patch loads the answer into the copy. An error puts
the key back in the queue. Restarts empty the caches and the queue, list again and enqueue
everything.

### GuestName

`log` is the history of every kind between its cache and the API server, `obj`/`pc` the running
reconciles, `requests` what the webhook has admitted and the API server has not stored yet. `Rivals`
is `guestname.List`, `Owns` is `Owner`, `Before` is `Claim.before`, and `Claim`, `ClearConflict`,
`MarkConflict` and `Release` are the branches of `claimGuest`; `TimerFires` is its `RequeueAfter`.
`Dispatch` to `RemoveFinalizer` is the skeleton of the VirtualMachine controller after it, reduced to
when the guest is worked on. Stages `operate`, `ensure` and `delete` are the moments a reconcile
works on Proxmox. A guest is a pair of its space (LXC or QEMU) and its folded name, for
`Claim.SameGuest`.

Abstracted: nodes and connections are part of a name; the template and container controllers run the
same `claimGuest` first and are represented by resources of their kinds that go on with the same
skeleton; the webhook's lookup on Proxmox, which only rejects more.

### ClientCache

Workers are reconciles calling `NewProxmoxClientFromRef`: `GetConnection` reads the connection from
the cache before `clientCacheMutex` is taken, `CacheHit`/`CacheMiss` compare the version and the age,
`Resolve` reads the Secret from the API server and `StoreClient` replaces the client, the mutex held
from the miss on. `ControllerGet`, `ControllerResolve` and `ControllerPatch` are the ProxmoxConnection
controller, which records the Secret version it read in the status. That status write is a new
`resourceVersion`, and the version is what keys the client cache: this is how a rotation gets
through. `Expire` is the one-hour limit of session clients. The initial state chooses between a
connection with a token and one with a session whose controller is disabled.

### VirtualMachine

`obj` is the resource, `copy` the reconcile's, `guests` what Proxmox lists, `cachedId` and `cachedVM`
the caches of the client, `watched` the registration with the watcher. The making of a guest takes its
time: `CreateVM` is the request, from which on the guest is in `making` and has its VMID; `CreationEnds`
is the end of the task, after which the guest is listed under its name; `AwaitVM` is
`WaitForCompleteStatus`, which may see the end of the task, its failure, or neither in time, and caches
the VMID only in the first case. When the answer of the request is lost, the wait ends first or the
process restarts, the task runs on, and the reconciles that come meanwhile do not find the guest by its
name. A ghost, `astray`, says so, until a reconcile starts with nothing under way, one guest at most, and
no other VMID remembered (`InOrder`). Any other call to Proxmox is one step with the wait for its task
and all outcomes the controller tells apart (`Call`): done; refused; done or not with the answer lost; and
a task that times out in the wait, which is a terminal error that also unregisters the watcher
(`GiveUp`). `happened` collects what went wrong so that liveness properties can say which failures they
survive. `CheckVM`, `CreateVM`, `AwaitVM`, `StartVM`, `UpdateVM`,
`Reboot`, `HandleAutoStart`, `EnsureVMTag`, `MarkDeleting`, `StopForDelete`, `DeleteVM` and
`RemoveFinalizer` follow the order of the controller; `Poll` is one round of the watcher, which
refreshes the snapshot and enqueues on drift. `Destroyed`, `Stopped`, `Reconfigured` and
`ForeignCreated` are people on the Proxmox console.

`GuestLifecycle` is what this controller promises: `KeepsLifecycle` is `Lifecycle!Spec` under the
mapping that takes the resource and its finalizer to `resource`, the guests the operator made to
`own` and those of them that are under way to `making`, `astray` to itself, mode EnsureExists to `loose`
and deletion protection to `spared`. The promise is: a creation starts for a resource with a finalizer
and never beside another guest, unless something is astray; things go astray only by a creation that
nobody waits for, and are in order again only when none is under way and there is one guest at most; the
finalizer goes after the guests.

Abstracted: cores, memory and cloud-init are one `config` with a pending (`config`) and an active
(`active`) value, the devices are `MachineConfig`'s; name conflicts, which are `GuestName`'s; the lag
of the informer cache, whose effects on finalizer and copy `Container`, `Template` and
`VirtualMachineSet` have; the sockets, of which more in section 5.

### Container

`log` holds the versions of the resource between the informer's and the API server's, `guests` the
containers that the node lists with the image their rootfs was really made from and the tag they carry,
`making` those whose creation is under way, `volumes` which image is in the file of each stem. `Get` to
`RemoveFinalizer` follow the reconcile: `HandleContainerOperations` is the decision of
`reconcileOCIImageDrift`, `BootstrapFromTags` its case without a recorded image, `StopContainer` and
`DestroyContainer` are `DeleteContainer`, which serves deletions and replacements, `ClearApplied`,
`CloneContainer`, `AwaitContainer` and `RecordApplied` the rest of a replacement. `CloneContainer`,
`CreationEnds` and `AwaitContainer` part a creation as `VirtualMachine` does; the wait for a container
of an image goes on until one of the name is listed, be it another one, and its failure is an error that
is retried. `MarkDeleting` is the status patch whose own event brings a deletion back. `Destroyed` puts
another container in the place of a destroyed one, with its VMID.

Abstracted: the text of an image reference is its `Stem`, and `Within` says which file names have
which stem in them; cores and memory are one `config`; status reports.

### StorageDownload and Template

`StorageDownload` has one resource (`dlog`, `dqueue`, `dpc`, `dcopy`), its `file` and a download `task`
that runs on when nobody waits for it. `Template` EXTENDS it: the template's reconcile makes the
resource (`HandleImageOperations`), waits until its status says completed (`HandleStorageDownloadURL`),
and makes the guest in steps (`CreateVMTemplate` to `ConvertVMToTemplate`). The creation is parted as in
`VirtualMachine`: `CreateVMTemplate` is the request, `CreationEnds` the end of its task and
`AwaitVMTemplate` the wait, which caches nothing. Each of the other steps looks the guest up in the
cache, makes a call and waits for its task. How much of an outcome the code looks at differs from call
to call: `Call` checks the task, `Trusted` only that the call was accepted, `Careless` not even that.
`CollectGarbage` deletes the StorageDownloadURL once its owner is gone; `owner` says whether the
reference points to the template that is there, since a template made again takes over the resource of
the one before it by name.

Abstracted: sockets, cores and memory are one `config`; the additional configuration, tag and
cloud-init drive are calls that can fail but leave nothing behind; an edit of the spec of the
StorageDownloadURL, and mode Disable for it, which the template controller never writes.

### MachineConfig

A reconcile goes through three stages (`net`, `disk`, `pci`). A stage reads the configuration once
(`View`: the cached one if there is one), turns it into a sequence of calls (`NetPlans`, the loops of
`configureVirtualMachineNetwork`; `DiskPlans`, that is `classifyItems` with `applyChanges`;
`PCIChanges` and `PCIPlan`, that is `ApplyPCIChanges` and the restart after it), and makes them one by
one (`SetOption`, `DetachDisk`, `ResizeDisk`, `StopVM`, `StartVM`). Some of what these loops go through
is in no fixed order, since Go's maps have none: NICs are parsed from a map (`NetOrders`), and disks and
PCI devices to delete come from one, so that several plans are possible. Sizes are truncated to
gigabytes; a plan can end in the index that is out of range (`Panic`). `Poll` refreshes the cached
configuration and compares NICs and disks, not PCI devices. `exact` is a ghost: the stage planned from
its devices as they are on Proxmox, read in the order of their numbers, and since then nothing failed
and nobody else changed them. No action reads it.

Abstracted: models and bridges are a value, options of a PCI device are part of it; names of PCI
mappings.

### Snapshot and SnapshotPolicy

`Snapshot` has one resource with its informer's lag, the `machine` it belongs to in the stages that
`SetOwner` tells apart, whether the desired name is `listed` on Proxmox and how often a snapshot was
`taken` for each resource that had the name. `ExistsIn` is `utils.ExistsIn` with its arguments in the
order of the call. `SetTimestamp` and `SetCreated` are the update and the status patch afterwards.
The run's `Always` has the entry of the current state, as Proxmox lists it, so `ExistsIn` is never true
in it.

In `SnapshotPolicy` a reconcile is one step, since all of it happens in memory: `registered` is
`cronJobs`, `running` what the cron library runs. `Due` is a tick of the schedule, which starts a run
(`jobs`) of every cron; `GetMatchingVirtualMachines` and `SnapshotMachine` are the steps of a run.
`machines` is what the informer cache has of the machines, which is all that this controller sees of
them: `MachineComesOrGoes` is an event of the watch, whenever the machine was stored.
`flipped` remembers the policies whose annotation was changed since their spec was, which the
predicate does not let through.

### VirtualMachineSet

`versions` is every version of the set, `seen` the one in its cache, `log` the machines from their
cache to the API server, `run` the reconcile. `List` reads the machines by label from the cache;
`Scale` chooses between `ScaleDown` and `ScaleUp`, which are `scaleDownVMs` with the ScalingDown
condition after it and `createOrUpdateVirtualMachineCRs`, one machine per step; `CreateOrUpdate`
goes by the cache and is refused by the API server when the cache is behind. `MarkDeleting`,
`DeleteMachines` and `RemoveFinalizer` are `handleDelete`. `Generation` is what
`GenerationChangedPredicate` lets through. What deletes a machine in the end (`Finalize`) and the
garbage collector (`Collect`) are the environment. `made` is a ghost field: the version of the set a
machine was made from.

`ReplicaLifecycle` is what this controller promises: machines are made only for a set with a finalizer,
and only those that it asked for; they are deleted only when the set has done without them since they
were decided on, or with the set. `KeepsReplicas` is `Replicas!Spec` under the mapping that takes the stored
version of the set to its `Phase`, a stored machine to its `State`, the indices below the replicas of some
version to `asked`, and the machines that a version after theirs does without to `spare`.

Abstracted: the machine template, its dedicated PCI devices and the other copied fields are one value
that is compared as a whole.

## 3. What the runs check

Passing runs explore every reachable state of their instance. For each property `PROJECT.json` names
a mutated definition, a plausible bug of that code, with which TLC finds the property violated on
the same instance. The runs of `GuestName`, `VirtualMachineSet`, `Snapshot` and `SnapshotPolicy` do not
look for deadlocks, since these systems come to rest when the resources, edits and ticks of the
instance are used up; the others do, and have none. Each passing run also checks the type invariant of
its module, except `guest_takeover`.

| Run | Question | Answer |
|---|---|---|
| `guest_owner` | Two VirtualMachines with names equal up to case, created in either order, in three modes, deleted and marked, with one failure or restart: does a reconcile ever work on a guest an older live resource claims (`OperatorIsOldest`), or beside that of an earlier resource that is still there (`HandedOverWhenGone`)? | no |
| `guest_takeover` | A VirtualMachine and a template with webhook and renames: does the oldest remaining claimant get the name? (`NextTakesTheName`) | yes |
| `client_rotation` | Two workers, a rotation or deletion of the Secret, an edit, a failure or a restart, tokens and sessions: do clients follow (`RotationReachesClients`), never behind what the status says (`ObservedReachesClients`), and does the cache never go back (`CredentialNeverGoesBack`)? | they do |
| `vm_lifecycle` | One VirtualMachine of three kinds with one fault anywhere, a creation that outlasts its wait, its answer or the process among them: the promises of `GuestLifecycle` (`KeepsLifecycle`: none without a finalizer; never two guests and none left behind, except by a creation that nobody waits for), changes reach the guest (`ChangesReflected`), deletions end (`DeletionCompletes`) | all hold, with that exception |
| `vmset_scaling` | A set of up to two replicas, made from one of two templates, two caches that lag independently: the promises of `ReplicaLifecycle` (`KeepsReplicas`: machines made only under a finalizer and when asked for, deleted only when done without or with the set), the set converges (`Converges`) and its deletion ends (`DeletionCompletes`) | all hold |
| `container_lifecycle` | One Container of two kinds, two edits, or one and a fault, anywhere, a container destroyed and its VMID reused, or a creation left under way among them: `KeepsLifecycle`; the recorded image is the one the container was made from (`ImageIsRecorded`); a deletion or replacement touches no other container (`TouchesOnlyItsOwn`); the resource converges (`ContainerConverges`) and deletions end (`DeletionCompletes`) | all hold, with the exceptions that the properties name |
| `container_image` | is the recorded image the one the container was made from, when the stem of one image is part of another's? (`AppliedIsTheImage`) | no: a finding |
| `template_download` | One template with its StorageDownloadURL, an edit or a fault anywhere (a creation left under way among them), deletions and re-creations of both: `KeepsLifecycle`; the file goes with its resource (`FileGoesWithDownload`); the guest becomes a template with a disk (`TemplateConverges`); a deletion leaves neither guest nor StorageDownloadURL (`LeavesNothing`) | all hold, with the exceptions that the properties name |
| `template_stuck` | does the deletion of a template end? (`DeletionCompletes`) | no: a finding |
| `snapshot_once` | One VirtualMachineSnapshot that is made, edited, deleted and made again, before or after its machine, and two faults: is one snapshot taken (`TakenOnce`), none after Created (`CreatedIsFinal`), Created only when one is there (`CreatedMeansTaken`), and is it taken and recorded in the end (`SnapshotCompletes`)? | yes, with the exceptions that the properties name: a resource whose snapshot exists already, from before it or as its own that was lost sight of, is never recorded (section 5) |
| `policy_rounds` | Two policies that may select one machine, four edits, a tick and a fault: does only one cron run for a policy (`NoLeakedCron`), of its last spec in the end (`PolicyTakesEffect`), and does a run reach all machines (`RoundReachesAll`)? | yes, with the exceptions that the properties name |
| `machine_config` | Two specs, a clone of a template, a fault or someone else's change anywhere: does a stage that nothing disturbs do all that the spec asks for (`StagesAchieve`), do the NICs and disks end up as in the spec (`DevicesConverge`), and does a change of the PCI devices end with a guest that runs with them (`PCIsTakeEffect`)? | yes, when no NIC is missing in the middle and no disk is to shrink |

The exceptions are `astray` and marks in `happened`, set where the code loses track: they say which
failures a property does not survive.

### Bounds

* `guest_*`: two resources are enough for every pairwise property; `MaxLag` of two or three events
  lets a cache miss both a creation and a deletion; `MaxTime` bounds creations and renames;
  `MaxFaults` counts failures, drifts and restarts. The theorems `OldestOperates` and
  `HandoverAfterOwner` remove these bounds.
* `client_rotation`: two workers, since the mutex and the cache are the only things they share; one
  rotation has an old and a new credential; an event behind is what a late copy of the connection
  needs; one edit, failure or restart. The theorems of `ClientCacheProofs` remove these bounds.
* `vm_lifecycle`: two VMIDs, so that a second guest or a foreign one has a place; two configs; one
  fault, which is all that a second guest needs: the retry after a creation that was left under way makes
  it. The theorems of `VirtualMachineProofs` remove these bounds for the safety properties.
* `container_*`: two VMIDs and two images, the least for a wrong container and a replacement; two
  edits change an image and change it back; one version of lag makes a reconcile work with an old
  copy, and a fault is enough to cut a replacement at every step. `MaxTurns` 2 is two edits, or one and
  a fault. The theorems of `ContainerProofs` remove these bounds for all but liveness; the run was also
  made once with `MaxTurns` 3, two edits and a fault or three edits (3,103,853 states), which holds, and with
  three edits and three versions of lag, which is how the exception of `ImageIsRecorded` was found.
* `template_*`: two VMIDs for a second guest, one version of lag for each resource, and one
  edit or fault (`MaxFaults` counts both); two are too much for `TemplateConverges` (section 5).
  `MaxDisks` 1 does not count further imports; with 2, `ImportsOnce` is violated (section 5).
  The theorems of `TemplateProofs` remove these bounds for the safety properties.
* `snapshot_once`: two resources under one name, one edit, two versions of lag, so that the copy can
  be older than the timestamp and the status, two faults. The theorems of `SnapshotProofs` remove
  these bounds.
* `policy_rounds`: one tick, since runs of different ticks make different names; four edits disable,
  change, delete and make again. The theorem `OnlyRegisteredCronsRun` removes these bounds.
* `machine_config`: the specs differ in number, order and kind of NICs, in size and storage of disks
  and in PCI devices, so each loop adds, changes and deletes (that of PCI devices
  adds and deletes); two of each kind are the least for a
  call to fail between two; a gigabyte of two megabytes has a half. With the two PCI
  devices in the other order, so that each is changed as well, the properties hold too (339,727 states).
  The theorems of `MachineConfigProofs` remove these bounds for the safety properties.
* `vmset_scaling`: two replicas make machines that stay, go and come back; `MaxLag` 1 lets the machines'
  cache be two events behind, while the set's cache may be any number of versions behind; `MaxTurns` 2
  is two edits (down and up again), or one and a fault. The first version has the first of the two
  templates (`OneTemplateSpec`), which stands for the other by symmetry; all initial templates give
  990,314 states, which hold as well. `ScaleDownKeepsWanted` and `ReplicasKept` remove these bounds.

### Fairness

Liveness properties use `FairSpec` of their module (`FairPolicies` in `SnapshotPolicy`). Weak fairness
of a controller's steps: a worker takes a queued key and goes on, since the workqueue retries what
failed and the number of failures in a behaviour is bounded by a constant. Weak fairness of `Deliver`,
`DeliverMade`, `DDeliver` and `SecretEvent`: watches are re-established by client-go until the events
arrive. `TimerFires`, `Expire` and `Poll` are clocks; download tasks and the tasks that create guests
(`CreationEnds`, for each VMID) end, since Proxmox's do, at any time, also long after the wait for them;
the steps of a cron's run go on. Strong fairness is assumed in two places: for taking `clientCacheMutex`
in `ClientCache`, since Go's mutexes hand over to a waiter that starves, and for the reading of the NICs
in the order of their numbers in `MachineConfig`, since Go starts each iteration of a map at a random
place; with weak fairness only, an order that hides a difference could come up at every poll. `Finalize`
and `Collect` in `VirtualMachineSet` are fair because machines' deletions end, which is `vm_lifecycle`'s
`DeletionCompletes`, and because the garbage collector retries, as in `Template`. No user action, fault,
edit or restart is ever fair.

## 4. What is proved

**`GuestNameProofs`**, for any resources, kinds, names, spellings, modes, lag and number of faults,
without and with the webhook:

* `TypeCorrect`: `Spec => []TypeOK`.
* `OldestOperates`: with `~Renames`, `~Recreates` and `~SameSecond`, `Spec => []OperatorIsOldest`.
  Each of the three assumptions is needed: with the same timestamp for two creations ties are broken
  by name, whichever was first, and the other two let a claim become older than those already decided
  on. `OperatorIsOldest` is not
  inductive: that the owner is the oldest of what its cache shows says nothing of what the cache
  misses. `IInv` adds `LogStamps` (every logged state is from the past, and a key has one creation
  and one name), `LogOrder` (a cache that holds a resource holds every live one of its kind that is
  not younger, because one watch delivers creations in order) and `CopyInv` (what a reconcile at each
  stage knows: before the claim, that its cache has every older live rival; after it, that there is
  none). New creations are younger than everything logged, so no step can make an older rival appear.
* `HandoverAfterOwner`: with the same assumptions, `Spec => []HandedOverWhenGone`. When reconciles of two
  resources work on one guest, that of the later one is the oldest live claimant by `CopyInv`; a
  stored earlier resource has the claim its copies have (`Same`), so it can only be gone.

**`VirtualMachineSetProofs`**, for any number of replicas, templates, edits, faults and events in
flight:

* `TypeCorrect`, as above.
* `ScaleDownKeepsWanted`: `Spec => KeepsWanted` (which `KeepsReplicas` contains). A reconcile works with
  a copy that may be older than the machines it deletes were made from; why is that harmless? `Made`: a
  machine was made from a version that asks for it, and no reconcile from now on is older, where older
  versions than the one that carries the finalizer do not count (`NotAfter`): the reconcile that adds
  the finalizer goes on with a version its cache has not seen yet, and a reconcile with an older copy
  fails at the finalizer. `Reconciling` says what each stage has: after the finalizer stage a copy with
  a finalizer, in `down` only indices beyond its replicas, in `up` only those below.
* `MachinesMadeUnderFinalizer`: `Spec => MadeUnderFinalizer`. `History` says that the finalizer stays
  until the set goes and that deletions are not taken back; `Gone` that once the set is gone, whatever
  its cache may still hold is being deleted or never had a finalizer. It is part of what the run checks
  as `KeepsReplicas`.
* `ReplicasKept`: `Spec => KeepsReplicas`, the refinement. Two facts carry it. Each write of the set asks
  for its replicas and can spare the others, and a write that leaves the replicas changes neither
  (`SetWrites`). Each write of a machine shows at that machine alone (`MachineWrites`). The step from there
  to the promise is the lag: the copy that a reconcile scales down by may be older than the set, but not
  older than the version the machine was made from (`Made`), so that machine is one to spare
  (`DownIsSpare`); and a copy with a finalizer that is not deleted means that the stored set has one
  (`Held`: so has a set that is being deleted).

**`ClientCacheProofs`**, for any number of workers, rotations, edits, faults and events in flight, and
for connections with tokens and with sessions:

* `TypeCorrect`, with the mutex: whoever is between the check and the update of the cache holds it.
* `ClientsAreUpToDate`: `Spec => []ObservedReachesClients`, and `CacheIsMonotone`:
  `Spec => CredentialNeverGoesBack`. Workers come with copies of the connection of any age, in any
  order, and the last one to come replaces the client, so neither is inductive. `Past` says that
  whatever was read of the Secret, by a worker or by the controller and through the status by
  everyone, is not newer than the Secret; hence a worker that reads the Secret under the mutex reads
  something at least as new as the cached credential and as its copy's `observedSecrets`, and as
  nobody else can store before it does, this still holds when it stores (`Storing`).

**`VirtualMachineProofs`**, for any settings, kinds of machine, VMIDs and number of faults:

* `TypeCorrect`. It is not inductive alone: `MarkDeleting` writes to the resource without looking
  whether it is still there. `Guarded` says it is, past the finalizer, and `Ending` that only resources
  that are reconciled with a finalizer get to `handleDelete`.
* `FinalizerBeforeGuest`: `Spec => FinalizerComesFirst`, from the same two.
* `NeverTwoGuests`: `Spec => []OneGuest`, and `GuestBeforeResource`: `Spec => GuestGoesFirst`, with
  `SpecName = CloneName` (both are part of what the run checks as `KeepsLifecycle`): without it a clone
  is never found again, and each reconcile makes another. Neither says that there are never two guests,
  or that none stays behind: the code does not keep that (section 5). They say that there is one way to
  it only, a creation that is left under way, with its task running and nobody waiting for it. `astray`
  is true from there until a reconcile starts with things in order again (`InOrder`); while it is false,
  a resource has one guest at most, those under way included, and one that goes has none. Every other
  call can take effect and lose its answer and the caches go stale, so why is that the only way? A guest
  under way is the one that the reconcile waits for (`Attended`), so a lookup that finds nothing means
  that there is nothing; there is one at most (`Single`), a remembered VMID is never that of a second
  one (`Remembered`), and `CreateVM` is only reached when there is no guest and none is remembered, and
  only waits for the one it asked for (`Creating`). `Gone` carries that a guest was found and destroyed,
  or not found and not there, to the end of the finalizer. `Ordered` is their conjunction, and `astray
  \/ Ordered` what is inductive; that a step which clears `astray` makes `Ordered` true again is the
  lemma `GetKeepsOrder`.
* `LifecycleKept`: `Spec => KeepsLifecycle`, the refinement. `GuestLifecycle` has the creation as it is
  on Proxmox: it starts (`Make`), may be left (`Stray`), and ends (`Finish`) or fails (`Lose`), and only
  a creation that went astray lets a second one start or the resource go before its guest. From the
  invariants above, every step that changes the resource, the set of its guests or those under way is
  one of `GuestLifecycle`'s: those that write the resource leave the guests (`OwnSteps`), and the kind
  of the resource moves from none to bare to held and back (`KindSteps`).

**`ContainerProofs`**, for any VMIDs, images, lags, edits and faults:

* `TypeCorrect`.
* `OnlyItsOwn`: `Spec => TouchesOnlyItsOwn`. `Targeted`: between the comparison of the name and the
  `Delete` task there is no container of the resource but the one that was compared, and that VMID has
  it or nothing, unless another container took it in between.
* `LifecycleKept`: `Spec => KeepsLifecycle`, with the same histories as `TemplateProofs`. Clients
  remember VMIDs, a replacement destroys a container and makes another one, and any answer may be lost.
  While nothing is astray, `Remembered` says that a remembered VMID is not that of a second container
  and `Attended` that one under way is waited for, so that a lookup that finds nothing means that there
  is none; `Creating` that from there to the creation there is still none, and none is remembered, and
  during the wait none but the one that is waited for; `Left` that only a fault leaves a creation;
  `Past` that at each stage a reconcile whose copy is not being deleted acts for a resource that is
  stored with a finalizer, and one whose copy is being deleted for one that is going.
* `ImageRecorded`: `StemsTell => (Spec => []ImageIsRecorded)`. `StemsTell` says that no two images share
  a stem and no name of a file has the stem of another image in it; `container_image` shows what happens
  otherwise. The recorded image is written from a copy, from a creation that was several calls ago, or
  from tags that a client remembers. `MadeFrom` says that after the creation the container is of the
  image of the copy, `Known` that a client remembers tags of no other container than the one whose VMID
  it remembers, `Filed` and `Tagged` that a file and a tag tell the image, and `Making` that when a
  container is made another image is only recorded if that was marked. Both exceptions are needed: a
  patch against a copy that already has the desired image recorded, or none, changes nothing
  (`misrecorded`), and a container whose creation was left under way may be listed when another image is
  recorded (`left`).

**`TemplateProofs`**, for any VMIDs, images, lags, edits and faults, with the StorageDownloadURL:

* `TypeCorrect`.
* `FileGoes`: `Spec => FileGoesWithDownload`. A download task runs on when nobody waits for it. `Watched`
  says that, as long as nothing was lost or failed unseen, a task that runs is waited for, and that at
  the release of the resource its file is gone.
* `LifecycleKept`: `Spec => KeepsLifecycle`. A reconcile goes by a copy that may be from before a
  deletion, or of a resource that had the name before: why does it make no guest for a resource without
  a finalizer? `History` is about the versions the informer has yet to see: a resource that is being
  deleted is not kept, so whatever has a finalizer after it is the same resource. `Forgotten`: when the
  stored resource has no finalizer, all versions that have one are being deleted (`Spent`). So a
  reconcile that sees a resource with a finalizer that is not deleted acts for the one that is stored.
  `Single`, `Attended`, `Creating` and `Released` follow the one guest from there, through the wait for
  its task, to the release, as long as no creation was left under way.

**`SnapshotProofs`**, for any number of re-creations, edits, faults and versions of lag:

* `TypeCorrect`.
* `OneSnapshot`: `Spec => []TakenOnce`, and `NothingAfterCreated`: `Spec => CreatedIsFinal`. The
  timestamp that is stored once the snapshot is taken brings the key back, and copies are old: why is
  no second one taken? `SetOwner` writes the resource, so whoever gets past it has the status of the
  resource that is stored, which nobody else writes (`Agree`), unless the name has another resource by
  now (`Ages`); and a snapshot that was taken for a resource that is there is either recorded or about
  to be (`Once`).
* `CreatedIsTrue`: `Spec => []CreatedMeansTaken`, when Proxmox lists anything beside the snapshots of a
  guest (it lists the current state): only then does the swapped test for an existing snapshot never
  succeed (`NeverExists`), and what is recorded was taken (`Recorded`).

The same module proves about `SnapshotPolicy`, whose definitions have names of their own (`PolicySpec`,
`PolicyTypeOK`, ...), for any policies, machines, selectors, ticks, edits and faults:

* `PolicyTypeCorrect`, and `OnlyRegisteredCronsRun`: `PolicySpec => []NoLeakedCron`. A cron carries its
  policy, so replacing or stopping that of one leaves those of the others.

**`MachineConfigProofs`**, for any lists of devices, templates, sizes and faults:

* `TypeCorrect`: whatever a configuration and a spec differ in, the plans are sequences of calls to
  devices that the guest can have. The lemmas before it say what the helpers on sequences return.
* `StagesEndAsWanted`: `Spec => StagesAchieve`. What a stage achieves is only seen at its end, several
  calls after it was planned, while every call changes the guest, so the property is not inductive.
  `PlansFit`: `Spec => []IInv` relates the guest to the calls that are left. While the plan is `exact`,
  each NIC and PCI device is as wanted or there is a call that sets it so (`NetsPlanned`,
  `PCIsPlanned`); each disk is as wanted or there is one call about it, and one that is to be resized is
  cached where it is, so that the call is not skipped (`DisksPlanned`); and what is left of a plan of PCI
  devices ends with a start. That the plans have these properties when they are made is the lemmas
  `NetPlanned`, `DiskPlanned` and `PCIPlanned` on the loops; that a call that is done loses none of them
  is `NetsGoOn`, `DisksGoOn` and `PCIsGoOn`. When no call is left, every device is as wanted.

Each proof is: `Init` implies the invariant, one lemma per conjunct with a step for every action, and
a last step that combines them with temporal logic. All constants' assumptions are the named `ASSUME`
of the modules, which TLC evaluates in the runs.

**Only model-checked**: everything under fairness (`NextTakesTheName`, `RotationReachesClients`,
`ChangesReflected`, `DeletionCompletes`, `Converges`, `ContainerConverges`, `TemplateConverges`,
`LeavesNothing`, `SnapshotCompletes`, `PolicyTakesEffect`, `RoundReachesAll`, `DevicesConverge`,
`PCIsTakeEffect`), since liveness and `ENABLED` are outside what the prover does. Every invariant and
every action property that a passing run checks is a theorem.

## 5. Where the code differs from what is said about it

Shown by runs (`findings` in `PROJECT.json`):

* `container_image`: an image whose stem is part of the name of a file that is on the storage already
  is never pulled; the container is made from the other image and recorded as one of the desired.
* `template_stuck`: the deletion of a template whose guest is not there never ends, since the
  not-found error that should complete it is not recognised.

Found with properties of the modules that no run checks now (each is defined in its module, and TLC
finds it violated on the instance named):

* `OperatorIsOldest` with `SameSecond = TRUE`: ties between creations of one second are broken by name.
* `SingleOperator` of `GuestName` (`guest_owner`): two reconciles can work on one guest around a
  deletion that is reconciled a second time from an old copy. `HandedOverWhenGone` is what is left of
  it: the earlier resource is gone by then. It can go on longer: `claimGuest` ignores that the resource is
  gone when it clears a `NameConflict` (guestname.go:46), so with four events of lag and two faults a
  reconcile of such a copy gets to `operate` and makes a guest that nothing deletes (with two events
  this does not happen). `LosersAreMarked` (`guest_takeover`): a
  claimant that does not own its name is not marked when the rival was not in its cache.
* `NeverTwo` and `NothingLeft` of `VirtualMachine`, that is `OneGuest` and `GuestGoesFirst` without their
  exception, on the instance of `vm_lifecycle`: the wait for a clone ends with an error while the clone's
  task runs (virtualmachine.go:110-140), or its answer or the process is lost. The next reconcile looks
  the guest up by name (virtualmachine.go:186-199), does not find it and makes another one; or, when
  the resource is deleted meanwhile, finds nothing to delete and removes the finalizer, and the clone
  that ends later belongs to nobody. Templates
  (virtualmachinetemplate_controller.go:260-267, "VM creation task timed out") and containers
  (containers.go:119-131; container_oci.go:343-365 gives up when the name is not listed in 24 tries) do
  the same. The three `KeepsLifecycle` and their theorems say that there is no other way to it.
* `TemplateConverges` with `MaxFaults = 2`. After an edit and a creation that was left under way there
  are two guests of one name, and the steps of a reconcile that follow the second creation go to the
  first one, which they find by name. Without a second guest: a conversion that fails before a restart,
  and then a failure between the two configurations of the cloud-init drive, leave a cached guest that
  shows the desired configuration while the real one has none, so it is converted without.
* `ExistingIsCreated` of `Snapshot` (`snapshot_once`, no faults needed): the resource of a snapshot that
  exists already is never Created. The test for it has its arguments swapped
  (virtualmachinesnapshot_controller.go:203-204), so it never succeeds as long as Proxmox lists the
  current state beside the snapshots; virtualmachinesnapshot_test.go expects Created with a listing that
  has nothing else. The same goes for a resource whose own snapshot outlasted the wait of 30 s, or whose
  record was lost: every retry is refused for its name. docs/upgrading/v0.8.0.md:140 "A snapshot that
  already exists on Proxmox is not taken again." holds only because Proxmox refuses the name, and :155
  "Check that every object reaches its desired state." does not hold for restored snapshots.
  `CreatedMeansTaken` with `Always = {}`, a guest with an empty listing: its first snapshot is recorded
  and never taken.
* `RoundReachesAll` without its mark for two policies that select one machine in the same second: the
  later run ends for its remaining machines.
* `DeletesItsGuest` of `VirtualMachine` (two faults): a deletion by a cached VMID that was reused destroys the
  other guest (the container's does compare names). `OneGuest` when `metadata.name` and `spec.name`
  differ: one clone per reconcile. `DeletionOfGoneCompletes`: a deletion does not end while a guest that
  is gone is cached. `ChangesTakeEffect`: a change does not take effect on a running guest before the
  first poll after its start.
* `ImportsOnce` of `Template` with `Spec`, `MaxDisks = 2` and no faults: later reconciles import
  another disk, since the cached guest shows none, and converting the guest again is refused and
  retried for ever.

Read in the code while modelling it.

*Virtual machines.* `DryRun` (docs/reconciliation-modes.md:11 "will not handle the operations on Proxmox
VE") has no case in the switch of virtualmachine_controller.go:109-139 and is reconciled like the
default, and the documented annotation `reconciliation-mode` is `reconcile-mode` in the code. With
several sockets the comparison of cores with `CPUs` (virtualmachine.go:643) never agrees, so such a
guest is configured and rebooted by every reconcile. A task that times out ends in a terminal error
after which neither watcher nor workqueue comes back to the resource. A guest destroyed by someone
else is not made again until the cache is dropped. `EnsureExists` never adds a finalizer.

*Devices.* With fewer NICs in the spec than on the guest, and more than none, the last loop panics
until a poll has refreshed the cached configuration. NICs are deleted from the low end by their count,
so a failure between two deletions, or a gap that a user left, keeps a NIC, or the panic, for ever. A
disk larger than desired is refused by Proxmox, retried for ever, and holds up deletions of disks and
all PCI changes. A disk that the cached configuration does not show yet is added again, which puts a
new volume in its place. Deletions and resizes of disks are not waited for, and a change of storage is
skipped. An empty PCI list leaves the guest's devices (virtualmachine.go:1290); PCI devices are not in
the watcher's delta, so an edit that is undone within a poll is not, and a clone gets its devices with
another reconcile; the need for a restart is forgotten when a call fails. A spec without NICs or disks
is enqueued at each poll, because an empty list is not nil.

*Containers.* A patch against an old copy that already has the image, or none, changes nothing, so a
replacement may leave the old image recorded while the new container is made, or the new one unrecorded
(`ImageIsRecorded` marks this as `misrecorded`); a container made in mode `EnsureExists` does not clear
what is recorded either. A stale copy also replaces a container needlessly. Starting and updating do not
compare names, so a container that took a cached VMID is started and configured. A container without
tags, as templates make them, is taken for one of the image when the spec turns from a template to an
image. `Disable` behaves as `WatchOnly`.

*Templates and downloads.* The additional configuration and the tag are skipped when a creation is
retried. An edit of the image does not change the StorageDownloadURL. `Available` is set before there is
a guest. Drift is not noticed, since the watcher compares the cached guest. Without a cloud-init config
nothing is imported and the guest never becomes a template. A download that failed is `Completed`, and
one that outlasts the wait is not looked at again. A template made again under a name takes over the
StorageDownloadURL of the one before it, which the garbage collector deletes.

*Snapshots.* A task that outlasts the wait of 30 s makes an unnamed snapshot twice (README.md:73 "only
one snapshot"), and so does an edit between the snapshot and the update of its timestamp. A resource
made before its machine, or while disabled, is not looked at again. Deleting a policy leaves its cron
running (README.md:75), annotations are not seen. A set or a policy that is disabled, edited and enabled
again is not reconciled, since `GenerationChangedPredicate` drops updates of annotations.

## 6. Not modelled

* VMID allocation by several creators, the locks of `nodesCache`, the CustomCertificate controller, the
  webhook certificates and the retries of the HTTP transport: protocols of their own, planned below.
  Every module has one resource of its kind, whose reconcile asks for the lowest free VMID and creates
  with it in one step, so nobody races for the VMID; the task that follows is not part of that step.
* Metrics, tracing, schemas, generated deep copies and process set-up have no protocol. String and slice
  helpers appear only through what they decide.
* The sockets of a machine, status reports, an edit of `spec.snapshotName` and of a StorageDownloadURL.
* Library code (controller-runtime, go-proxmox, kube-external-watcher, cron, cert-manager) is modelled
  from how this code uses it and marked `external` in the map.

## 7. Plan

1. Done: the modules of section 2, with the proofs of section 4.
2. `VmidAllocation`: creators with and without the mutex around `cluster/nextid`, and the two mutexes of
   `nodesCache`; a theorem for any number of creators that take it.
3. `CustomCertificate` and `WebhookCerts`: deletion after a crash; two replicas that issue and inject.
