--------------------------- MODULE SnapshotPolicy ---------------------------
(* VirtualMachineSnapshotPolicy resources: the cron that the controller keeps in memory for each *)
(* policy, and the runs of the crons, which make a VirtualMachineSnapshot for every machine that *)
(* is selected.  What becomes of these is the module Snapshot's.  The delay of the policies'     *)
(* informer is part of the time that a key waits in the workqueue.                               *)
EXTENDS Naturals

CONSTANTS
    Policies,
    Machines,
    Selectors,  \* for each policy, the sets of machines that its selector may choose
    Nothing,    \* no policy, no cron
    MaxTime,    \* bound: times that the schedule comes due
    MaxChanges, \* bound: changes of policies and machines
    MaxFailures \* bound: failures and restarts

\* valid: the schedule can be parsed.
Specs == [selects: SUBSET Machines, valid: BOOLEAN, disabled: BOOLEAN]
Crons == [policy: Policies, selects: SUBSET Machines]

\* A run of a cron: the machines that are left, once they are listed.
Jobs == [policy: Policies, selects: SUBSET Machines, time: 1..MaxTime,
         listed: BOOLEAN, left: SUBSET Machines]

\* The names of the resources are made of the machine's and of the time in seconds.
Snapshots == Machines \X (1..MaxTime)

ASSUME PolicyAssumption ==
    /\ Selectors \in [Policies -> SUBSET SUBSET Machines]
    /\ MaxTime \in Nat /\ MaxChanges \in Nat /\ MaxFailures \in Nat
    /\ Nothing \notin Specs \cup Crons

VARIABLES
    policy,     \* the policies of the API server
    flipped,    \* policies whose annotation was changed since their spec was
    keys,       \* the policies whose keys are in the workqueue
    running,    \* the crons that run
    registered, \* cronJobs: the cron of each policy
    jobs,       \* the runs of crons under way
    machines,   \* the machines that the informer cache has, be it behind what is stored or not
    made,       \* the snapshot resources made so far
    known,      \* those that the informer cache has
    time,       \* times that the schedule came due
    changes,    \* edits so far
    failures,   \* faults so far
    marks       \* the marks of what happened so far

api == <<policy, flipped, machines>>
process == <<running, registered>>
resources == <<made, known>>
bounds == <<time, changes>>
mishaps == <<failures, marks>>
policyVars == <<api, keys, process, jobs, resources, bounds, mishaps>>

Failure(kind) ==
    /\ failures < MaxFailures
    /\ failures' = failures + 1 /\ marks' = marks \cup {kind}

------------------------------------------------------------------------------
(* Users, time and events *)

Edit == changes < MaxChanges /\ changes' = changes + 1

Specified(p, v) == /\ policy' = [policy EXCEPT ![p] = v]
                   /\ keys' = keys \cup {p} /\ flipped' = flipped \ {p}

\* Only changes of the generation enqueue the key, which an annotation does not change.
UserSpecifies(p) ==
    /\ Edit
    /\ \E s \in Selectors[p], v, d \in BOOLEAN :
        /\ policy[p] # Nothing => d = policy[p].disabled
        /\ Specified(p, [selects |-> s, valid |-> v, disabled |-> d])
    /\ UNCHANGED <<machines, process, jobs, resources, time, mishaps>>

UserDisables(p) ==
    /\ Edit /\ policy[p] # Nothing
    /\ policy' = [policy EXCEPT ![p].disabled = ~@] /\ flipped' = flipped \cup {p}
    /\ UNCHANGED <<keys, machines, process, jobs, resources, time, mishaps>>

UserDeletes(p) ==
    /\ Edit /\ policy[p] # Nothing /\ Specified(p, Nothing)
    /\ UNCHANGED <<machines, process, jobs, resources, time, mishaps>>

\* The watch brings a machine into the cache, or its deletion.
MachineComesOrGoes(m) ==
    /\ Edit
    /\ machines' = IF m \in machines THEN machines \ {m} ELSE machines \cup {m}
    /\ UNCHANGED <<policy, flipped, keys, process, jobs, resources, time, mishaps>>

\* Every cron that runs starts a run of its own.
Due ==
    /\ time < MaxTime /\ time' = time + 1
    /\ jobs' = jobs \cup {[policy |-> c.policy, selects |-> c.selects, time |-> time + 1,
                           listed |-> FALSE, left |-> {}] : c \in running}
    /\ UNCHANGED <<api, keys, process, resources, changes, mishaps>>

DeliverMade ==
    /\ known # made /\ known' = made
    /\ UNCHANGED <<api, keys, process, jobs, made, bounds, mishaps>>

------------------------------------------------------------------------------
(* Reconcile: all of it happens in memory *)

Stop(p) ==
    /\ running' = running \ {registered[p]}
    /\ registered' = [registered EXCEPT ![p] = Nothing]

\* Mutant of Start: the cron of before is not stopped.
StartAnother(p) ==
    LET cron == [policy |-> p, selects |-> policy[p].selects] IN
    /\ running' = running \cup {cron}
    /\ registered' = [registered EXCEPT ![p] = cron]

\* Mutant of Start: what is stored is the policy, not its cron.
RegisterPolicy(p) ==
    LET cron == [policy |-> p, selects |-> policy[p].selects] IN
    /\ running' = (running \ {registered[p]}) \cup {cron}
    /\ registered' = [registered EXCEPT ![p] = policy[p]]

Start(p) ==
    LET cron == [policy |-> p, selects |-> policy[p].selects] IN
    /\ running' = (running \ {registered[p]}) \cup {cron}
    /\ registered' = [registered EXCEPT ![p] = cron]

\* Mutant of ReconcilePolicy: a schedule that cannot be parsed leaves the cron of before.
ReconcileValid(p) ==
    /\ p \in keys
    /\ IF policy[p] = Nothing \/ ~policy[p].valid THEN keys' = keys \ {p} /\ UNCHANGED process
       ELSE IF policy[p].disabled THEN Stop(p) /\ keys' = keys \ {p}
       ELSE Start(p) /\ keys' = keys \ {p}
    /\ UNCHANGED <<api, jobs, resources, bounds, mishaps>>

\* A policy that is gone leaves its cron.  A schedule that cannot be parsed is an error, and is
\* retried once the cron of before is stopped.
ReconcilePolicy(p) ==
    /\ p \in keys
    /\ IF policy[p] = Nothing THEN keys' = keys \ {p} /\ UNCHANGED process
       ELSE IF policy[p].disabled THEN Stop(p) /\ keys' = keys \ {p}
       ELSE IF policy[p].valid THEN Start(p) /\ keys' = keys \ {p}
       ELSE Stop(p) /\ UNCHANGED keys
    /\ UNCHANGED <<api, jobs, resources, bounds, mishaps>>

------------------------------------------------------------------------------
(* A run of a cron *)

Become(j, k) == jobs' = (jobs \ {j}) \cup {k}
End(j) == jobs' = jobs \ {j}

\* The list is that of the informer cache.  An error of it is taken for an empty list.
GetMatchingVirtualMachines(j) ==
    /\ ~j.listed
    /\ \/ Become(j, [j EXCEPT !.listed = TRUE, !.left = j.selects \cap machines]) /\ UNCHANGED mishaps
       \/ End(j) /\ Failure("failed")
    /\ UNCHANGED <<api, keys, process, resources, bounds>>

\* Mutant of SnapshotMachine: the first machine that is done is the last.
SnapshotOne(j) ==
    /\ j.listed
    /\ \E m \in j.left : LET s == <<m, j.time>> IN
        /\ made' = made \cup {s}
        /\ End(j)
        /\ UNCHANGED mishaps
    /\ UNCHANGED <<api, keys, process, known, bounds>>

\* A resource that the cache has is left alone.  One that it does not have yet, as another policy
\* makes it in the same second, cannot be made again, and like every error of the creation that ends
\* the run for the machines that are left; an error of the lookup only passes over one.
SnapshotMachine(j) ==
    /\ j.listed
    /\ \/ j.left = {} /\ End(j) /\ UNCHANGED <<made, mishaps>>
       \/ \E m \in j.left : LET s == <<m, j.time>>
                                next == [j EXCEPT !.left = @ \ {m}] IN
            \/ s \in known /\ Become(j, next) /\ UNCHANGED <<made, mishaps>>
            \/ s \notin made /\ made' = made \cup {s} /\ Become(j, next) /\ UNCHANGED mishaps
            \/ /\ s \in made \ known /\ End(j) /\ UNCHANGED made
               /\ UNCHANGED failures /\ marks' = marks \cup {"clash"}
            \/ s \notin known /\ End(j) /\ Failure("failed") /\ UNCHANGED made
            \/ Become(j, next) /\ Failure("failed") /\ UNCHANGED made
    /\ UNCHANGED <<api, keys, process, known, bounds>>

\* The crons and their runs are lost, and every policy is reconciled.
RestartCrons ==
    /\ running' = {} /\ registered' = [p \in Policies |-> Nothing] /\ jobs' = {}
    /\ keys' = {p \in Policies : policy[p] # Nothing} /\ flipped' = {}
    /\ known' = made
    /\ Failure("failed")
    /\ UNCHANGED <<policy, machines, made, bounds>>

------------------------------------------------------------------------------

PolicyInit ==
    /\ policy = [p \in Policies |-> Nothing] /\ flipped = {} /\ keys = {}
    /\ running = {} /\ registered = [p \in Policies |-> Nothing] /\ jobs = {}
    /\ machines = Machines /\ made = {} /\ known = {}
    /\ time = 0 /\ changes = 0 /\ failures = 0 /\ marks = {}

Job(p) == \E j \in jobs : j.policy = p /\ (GetMatchingVirtualMachines(j) \/ SnapshotMachine(j))

PolicyNext ==
    \/ \E p \in Policies :
        UserSpecifies(p) \/ UserDisables(p) \/ UserDeletes(p) \/ ReconcilePolicy(p) \/ Job(p)
    \/ \E m \in Machines : MachineComesOrGoes(m)
    \/ Due \/ DeliverMade \/ RestartCrons

PolicySpec == PolicyInit /\ [][PolicyNext]_policyVars

\* Workers take queued keys and retry what failed, and the runs of crons go on.
FairPolicies ==
    PolicySpec /\ \A p \in Policies : WF_policyVars(ReconcilePolicy(p)) /\ WF_policyVars(Job(p))

------------------------------------------------------------------------------
(* Properties *)

\* The type of the state; what the informer cache has was made, and no run is ahead of the time.
PolicyTypeOK ==
    /\ policy \in [Policies -> Specs \cup {Nothing}] /\ flipped \subseteq Policies
    /\ keys \subseteq Policies
    /\ running \subseteq Crons /\ registered \in [Policies -> Crons \cup {Nothing}]
    /\ jobs \subseteq Jobs /\ \A j \in jobs : j.time <= time
    /\ machines \subseteq Machines
    /\ known \subseteq made /\ made \subseteq Snapshots
    /\ time \in 0..MaxTime /\ changes \in 0..MaxChanges
    /\ failures \in 0..MaxFailures /\ marks \subseteq {"failed", "clash"}

\* "Stop any existing cron for this policy to prevent goroutine leaks": only registered crons run,
\* so one policy never snapshots by two specs, whatever happened to it, also when it was deleted
\* and made again under its name.
NoLeakedCron ==
    /\ running = {registered[p] : p \in Policies} \ {Nothing}
    /\ \A p \in Policies : registered[p] # Nothing => registered[p].policy = p

\* What a policy says last is what its cron does in the end: a schedule that cannot be parsed stops
\* the cron of the one before, and so does a policy that is disabled before a change of its
\* spec.  A change of the annotation alone is not seen, and a deletion leaves the cron.
PolicyTakesEffect ==
    \A p \in Policies :
        <>[](policy[p] # Nothing /\ p \notin flipped =>
                IF policy[p].valid /\ ~policy[p].disabled
                THEN registered[p] # Nothing /\ registered[p].selects = policy[p].selects
                ELSE registered[p] = Nothing)

DueFor(m, t) == \E j \in jobs : ~j.listed /\ j.time = t /\ m \in j.selects \cap machines

\* Every machine of the cache that a cron selects when it comes due gets its snapshot, unless a call
\* fails, or two policies make the snapshot of one machine in the same second: then the machines
\* after it are passed over, which is a fault of the code that this property leaves out.
RoundReachesAll ==
    \A m \in Machines, t \in 1..MaxTime :
        DueFor(m, t) ~> (<<m, t>> \in made \/ m \notin machines \/ marks # {})
=============================================================================
