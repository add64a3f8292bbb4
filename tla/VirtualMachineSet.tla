-------------------------- MODULE VirtualMachineSet --------------------------
(* One VirtualMachineSet and its machines, the VirtualMachine resources <set>-0, <set>-1, ...: *)
(* the VirtualMachineSet controller over the API server and two informer caches that lag       *)
(* behind it on their own, the set's and the machines'.  What happens to a machine that is     *)
(* being deleted is left to the VirtualMachine controller, and the machines of a set that is   *)
(* gone to the garbage collector.                                                              *)
EXTENDS Naturals, Sequences, FiniteSets

CONSTANTS
    MaxReplicas, \* bound: spec.replicas
    Templates,   \* what spec.template, and the other fields copied to a machine, may be
    None,        \* no set, no machine
    MaxLag,      \* bound: watch events of machines that their cache has yet to receive
    MaxTurns     \* bound: edits of the set, machines deleted by users, failed calls and restarts

\* Of the set's status.
Conditions == {"Deleting", "ScalingDown"}

ASSUME VirtualMachineSetAssumption ==
    /\ {MaxReplicas, MaxLag, MaxTurns} \subseteq Nat
    /\ None \notin [replicas: Nat, template: Templates, disabled: BOOLEAN, deleting: BOOLEAN,
                    finalizer: BOOLEAN, conditions: SUBSET Conditions]
    /\ None \notin [template: Templates, deleting: BOOLEAN, made: Nat]

Indices == 0..(MaxReplicas - 1)

\* A version of the set.  disabled is its reconcile-mode annotation.
Versions == [replicas: 0..MaxReplicas, template: Templates, disabled: BOOLEAN, deleting: BOOLEAN,
             finalizer: BOOLEAN, conditions: SUBSET Conditions]

\* A machine.  made is the version of the set it was made from, for the properties.
Machines == [template: Templates, deleting: BOOLEAN, made: Nat]

VARIABLES
    versions, \* every version of the set, by resourceVersion; the last one is the API server's
    seen,     \* the version in the set's cache
    log,      \* the states of the machines from the one in their cache to the API server's
    queue,    \* whether the set's key is in the workqueue
    run,      \* its reconcile: the stage, the version it works on, the machines it has listed, and
              \* those it has yet to make, update or delete
    turns     \* edits, deletions of machines by users, failed calls and restarts so far

vars == <<versions, seen, log, queue, run, turns>>

Api == versions[Len(versions)]
Copy == versions[run.copy]

Live == log[Len(log)]
Cached == log[1]

------------------------------------------------------------------------------
(* The API server, its watches, users and the other controllers *)

WriteSet(x) == versions' = Append(versions, x) /\ UNCHANGED log

WriteMachine(i, x) ==
    /\ Len(log) <= MaxLag
    /\ log' = Append(log, [Live EXCEPT ![i] = x])
    /\ UNCHANGED versions

NoWrite == UNCHANGED <<versions, log>>

UserEdit ==
    /\ Api # None /\ turns < MaxTurns
    /\ \/ \E n \in 0..MaxReplicas \ {Api.replicas} : WriteSet([Api EXCEPT !.replicas = n])
       \/ \E t \in Templates \ {Api.template} : WriteSet([Api EXCEPT !.template = t])
    /\ turns' = turns + 1
    /\ UNCHANGED <<seen, queue, run>>

UserDelete ==
    /\ Api # None /\ ~Api.deleting
    /\ WriteSet(IF Api.finalizer THEN [Api EXCEPT !.deleting = TRUE] ELSE None)
    /\ UNCHANGED <<seen, queue, run, turns>>

UserDeletesMachine(i) ==
    /\ Live[i] # None /\ ~Live[i].deleting /\ turns < MaxTurns
    /\ WriteMachine(i, [Live[i] EXCEPT !.deleting = TRUE])
    /\ turns' = turns + 1
    /\ UNCHANGED <<seen, queue, run>>

\* The VirtualMachine controller is done with the guest and drops its finalizer.
Finalize(i) ==
    /\ Live[i] # None /\ Live[i].deleting
    /\ WriteMachine(i, None)
    /\ UNCHANGED <<seen, queue, run, turns>>

\* The garbage collector deletes what a set that is gone owned.
Collect(i) ==
    /\ Api = None /\ Live[i] # None /\ ~Live[i].deleting
    /\ WriteMachine(i, [Live[i] EXCEPT !.deleting = TRUE])
    /\ UNCHANGED <<seen, queue, run, turns>>

\* Mutant of Generation: a deletion does not count.
GenerationOfSpec(x) ==
    IF x = None THEN None ELSE [x EXCEPT !.finalizer = FALSE, !.conditions = {}, !.deleting = FALSE]

\* GenerationChangedPredicate: of the updates, those of the spec and deletions pass.
Generation(x) == IF x = None THEN None ELSE [x EXCEPT !.finalizer = FALSE, !.conditions = {}]

DeliverSet ==
    /\ seen < Len(versions)
    /\ seen' = seen + 1
    /\ queue' = (queue \/ Generation(versions[seen]) # Generation(versions[seen']))
    /\ UNCHANGED <<versions, log, run, turns>>

\* Every event of an owned machine that passes it enqueues the owner.
DeliverMachine ==
    /\ Len(log) > 1
    /\ log' = Tail(log) /\ queue' = TRUE
    /\ UNCHANGED <<versions, seen, run, turns>>

------------------------------------------------------------------------------
(* Reconcile *)

Idle == [stage |-> "idle", copy |-> 1, listed |-> {}, todo |-> {}]

Goto(x) == run' = x /\ UNCHANGED queue
Return == Goto(Idle)

\* An error and RequeueAfter alike.
Requeue == run' = Idle /\ queue' = TRUE

\* Mutant of Get: a missing set is worked on.
GetMissing ==
    /\ run.stage = "idle" /\ queue
    /\ queue' = FALSE
    /\ run' = IF versions[seen] # None /\ versions[seen].disabled THEN Idle
              ELSE [Idle EXCEPT !.stage = "list", !.copy = seen]
    /\ UNCHANGED <<versions, seen, log, turns>>

Get ==
    /\ run.stage = "idle" /\ queue
    /\ queue' = FALSE
    /\ run' = IF versions[seen] = None \/ versions[seen].disabled THEN Idle
              ELSE [Idle EXCEPT !.stage = "list", !.copy = seen]
    /\ UNCHANGED <<versions, seen, log, turns>>

\* The machines are listed by label from their cache; then deletion is told from the rest.
List ==
    /\ run.stage = "list"
    /\ LET next(s) == [run EXCEPT !.stage = s, !.listed = {i \in Indices : Cached[i] # None}] IN
        \/ ~Copy.deleting /\ Goto(next(IF Copy.finalizer THEN "scale" ELSE "finalizer"))
        \/ Copy.deleting /\ Copy.finalizer /\ Goto(next("mark"))
        \/ Copy.deleting /\ ~Copy.finalizer /\ Requeue
    /\ UNCHANGED <<versions, seen, log, turns>>

\* Mutant of HandleFinalizer: the error of a refused Update is only logged.
HandleFinalizerLogged ==
    /\ run.stage = "finalizer"
    /\ \/ Api = None /\ Return /\ NoWrite
       \/ Api # None /\ run.copy # Len(versions) /\ Goto([run EXCEPT !.stage = "scale"]) /\ NoWrite
       \/ /\ Api # None /\ run.copy = Len(versions)
          /\ WriteSet([Api EXCEPT !.finalizer = TRUE])
          /\ Goto([run EXCEPT !.stage = "scale", !.copy = @ + 1])
    /\ UNCHANGED <<seen, turns>>

\* An Update is refused when the version is not the API server's; a missing set ends the
\* reconcile.
HandleFinalizer ==
    /\ run.stage = "finalizer"
    /\ \/ Api = None /\ Return /\ NoWrite
       \/ Api # None /\ run.copy # Len(versions) /\ Requeue /\ NoWrite
       \/ /\ Api # None /\ run.copy = Len(versions)
          /\ WriteSet([Api EXCEPT !.finalizer = TRUE])
          /\ Goto([run EXCEPT !.stage = "scale", !.copy = @ + 1])
    /\ UNCHANGED <<seen, turns>>

\* Mutant of Scale: as many machines as replicas are scaled down too.
ScaleFrom ==
    /\ run.stage = "scale"
    /\ LET wanted == 0..(Copy.replicas - 1) IN
        IF Cardinality(run.listed) >= Copy.replicas
        THEN Goto([run EXCEPT !.stage = "down", !.todo = run.listed \ wanted])
        ELSE Goto([run EXCEPT !.stage = "up", !.todo = wanted])
    /\ UNCHANGED <<versions, seen, log, turns>>

\* handleVMsetOperations: more machines than replicas are scaled down, otherwise those of the
\* replicas are made or updated.
Scale ==
    /\ run.stage = "scale"
    /\ LET wanted == 0..(Copy.replicas - 1) IN
        IF Cardinality(run.listed) > Copy.replicas
        THEN Goto([run EXCEPT !.stage = "down", !.todo = run.listed \ wanted])
        ELSE Goto([run EXCEPT !.stage = "up", !.todo = wanted])
    /\ UNCHANGED <<versions, seen, log, turns>>

\* A merge patch of the status replaces the list of conditions by the copy's with one more.
Condition(c) ==
    LET x == [Api EXCEPT !.conditions = Copy.conditions \cup {c}] IN
    IF x = Api THEN NoWrite ELSE WriteSet(x)

Step(i) == Goto([run EXCEPT !.todo = @ \ {i}])

\* Delete of a machine: nothing new for one that is being deleted.
Delete(i) ==
    IF Live[i].deleting THEN NoWrite ELSE WriteMachine(i, [Live[i] EXCEPT !.deleting = TRUE])

\* scaleDownVMs deletes the machines that are not expected; one that is gone ends the reconcile.
\* The condition comes last.
ScaleDown ==
    /\ run.stage = "down"
    /\ \/ /\ run.todo = {} /\ Return
          /\ IF Api = None \/ "ScalingDown" \in Copy.conditions THEN NoWrite ELSE Condition("ScalingDown")
       \/ \E i \in run.todo :
            \/ Live[i] = None /\ Return /\ NoWrite
            \/ Live[i] # None /\ Step(i) /\ Delete(i)
    /\ UNCHANGED <<seen, turns>>

\* createOrUpdateVirtualMachineCRs, for the lowest index left: CreateOrUpdate goes by the cache.
\* One that exists already is left for its event; one that is gone ends the reconcile.
ScaleUp ==
    /\ run.stage = "up"
    /\ \/ run.todo = {} /\ Return /\ NoWrite
       \/ \E i \in run.todo :
            /\ \A j \in run.todo : i <= j
            /\ \/ /\ Cached[i] = None /\ Live[i] = None /\ Step(i)
                  /\ WriteMachine(i, [template |-> Copy.template, deleting |-> FALSE, made |-> run.copy])
               \/ Cached[i] = None /\ Live[i] # None /\ Step(i) /\ NoWrite
               \/ Cached[i] # None /\ Cached[i].template = Copy.template /\ Step(i) /\ NoWrite
               \/ /\ Cached[i] # None /\ Cached[i].template # Copy.template
                  /\ \/ Live[i] = None /\ Return /\ NoWrite
                     \/ Live[i] \notin {None, Cached[i]} /\ Requeue /\ NoWrite
                     \/ /\ Live[i] = Cached[i] /\ Step(i)
                        /\ WriteMachine(i, [Live[i] EXCEPT !.template = Copy.template])
    /\ UNCHANGED <<seen, turns>>

\* handleDelete: the Deleting condition; the patch loads its answer into the copy.
MarkDeleting ==
    /\ run.stage = "mark"
    /\ LET next == [run EXCEPT !.stage = "delete", !.todo = run.listed] IN
        \/ "Deleting" \in Copy.conditions /\ Goto(next) /\ NoWrite
        \/ "Deleting" \notin Copy.conditions /\ Api = None /\ Requeue /\ NoWrite
        \/ /\ "Deleting" \notin Copy.conditions /\ Api # None /\ Condition("Deleting")
           /\ Goto([next EXCEPT !.copy = Len(versions')])
    /\ UNCHANGED <<seen, turns>>

\* Then every listed machine; one that is gone, and the end of the list, put the rest off.
DeleteMachines ==
    /\ run.stage = "delete" /\ run.listed # {}
    /\ \/ run.todo = {} /\ Requeue /\ NoWrite
       \/ \E i \in run.todo :
            \/ Live[i] = None /\ Requeue /\ NoWrite
            \/ Live[i] # None /\ Step(i) /\ Delete(i)
    /\ UNCHANGED <<seen, turns>>

\* When there was none, the finalizer.  Whatever the outcome, the key is looked at again.
RemoveFinalizer ==
    /\ run.stage = "delete" /\ run.listed = {}
    /\ IF run.copy # Len(versions) THEN NoWrite ELSE WriteSet(None)
    /\ Requeue
    /\ UNCHANGED <<seen, turns>>

\* A call fails: the error is returned and the key retried.
ReconcileError ==
    /\ run.stage # "idle" /\ turns < MaxTurns
    /\ turns' = turns + 1
    /\ Requeue /\ NoWrite
    /\ UNCHANGED seen

\* The process restarts and lists everything again.
Restart ==
    /\ turns < MaxTurns
    /\ turns' = turns + 1
    /\ seen' = Len(versions) /\ log' = <<Live>>
    /\ run' = Idle /\ queue' = TRUE
    /\ UNCHANGED versions

------------------------------------------------------------------------------

Init ==
    /\ versions \in {<<x>> : x \in [replicas: 0..MaxReplicas, template: Templates, disabled: BOOLEAN,
                                    deleting: {FALSE}, finalizer: {FALSE}, conditions: {{}}]}
    /\ seen = 1
    /\ log = << [i \in Indices |-> None] >>
    /\ queue = TRUE /\ run = Idle
    /\ turns = 0

Reconcile ==
    \/ Get \/ List \/ HandleFinalizer \/ Scale \/ ScaleDown \/ ScaleUp
    \/ MarkDeleting \/ DeleteMachines \/ RemoveFinalizer

Next ==
    \/ UserEdit \/ UserDelete
    \/ \E i \in Indices : UserDeletesMachine(i) \/ Finalize(i) \/ Collect(i)
    \/ DeliverSet \/ DeliverMachine
    \/ Reconcile \/ ReconcileError \/ Restart

Spec == Init /\ [][Next]_vars

\* The worker runs and retries, watches deliver, and deletions of machines come to their end.
Fairness ==
    /\ WF_vars(Reconcile) /\ WF_vars(DeliverSet) /\ WF_vars(DeliverMachine)
    /\ \A i \in Indices : WF_vars(Finalize(i)) /\ WF_vars(Collect(i))

FairSpec == Spec /\ Fairness

------------------------------------------------------------------------------
(* Properties *)

Stages == {"idle", "list", "finalizer", "scale", "down", "up", "mark", "delete"}

\* The type of the state; a reconcile has a set to work on.
TypeOK ==
    /\ versions \in Seq(Versions \cup {None}) /\ Len(versions) >= 1
    /\ seen \in 1..Len(versions)
    /\ log \in Seq([Indices -> Machines \cup {None}]) /\ Len(log) >= 1
    /\ queue \in BOOLEAN
    /\ run \in [stage: Stages, copy: 1..Len(versions), listed: SUBSET Indices, todo: SUBSET Indices]
    /\ run.stage # "idle" => Copy # None
    /\ turns \in Nat

\* The controller makes a machine.
Makes(i) == run.stage = "up" /\ Live[i] = None /\ Live'[i] # None

\* The controller deletes a machine to scale down.
GivesUp(i) ==
    /\ run.stage = "down" /\ run'.todo # run.todo
    /\ Live[i] # None /\ ~Live[i].deleting /\ Live'[i] # None /\ Live'[i].deleting

\* Scaling down deletes only what was given up: between the version of the set that a machine
\* was made from and the API server's there is one that does without it, however far the two
\* caches lag behind each other.
KeepsWanted ==
    [][\A i \in Indices : GivesUp(i) =>
         \E v \in (Live[i].made + 1)..Len(versions) : versions[v] # None /\ versions[v].replicas <= i]_vars

\* A machine is only made for a set that is there with its finalizer, so that the set's deletion
\* finds it, even when the set changes or is deleted while its reconcile is under way.
MadeUnderFinalizer ==
    [][\A i \in Indices : Makes(i) => Api # None /\ Api.finalizer]_vars

\* The set and its machines as ReplicaLifecycle has them.
Phase ==
    IF Api = None THEN "none"
    ELSE IF ~Api.finalizer THEN "bare" ELSE IF Api.deleting THEN "leaving" ELSE "held"

State(x) == IF x = None THEN "none" ELSE IF x.deleting THEN "going" ELSE "there"

Status == [i \in Indices |-> State(Live[i])]

\* Some version of the set asks for i.
Asked == {i \in Indices : \E v \in 1..Len(versions) : versions[v] # None /\ i < versions[v].replicas}

\* A version after the one that machine i was made from does without it.
Spare ==
    {i \in Indices :
        /\ Live[i] # None
        /\ \E v \in (Live[i].made + 1)..Len(versions) : versions[v] # None /\ versions[v].replicas <= i}

Replicas == INSTANCE ReplicaLifecycle WITH
    set <- Phase, machine <- Status, asked <- Asked, spare <- Spare, meddled <- turns

\* The controller does what a set's controller promises, step by step: between any two writes the
\* set, its machines and both caches may change.
KeepsReplicas == Replicas!Spec

\* The set asks for n machines of template t.
Asks(n, t) == Api # None /\ ~Api.deleting /\ ~Api.disabled /\ Api.replicas = n /\ Api.template = t

\* "VirtualMachineSet creates multiple VirtualMachine resources": a set that is left alone ends
\* up with exactly its replicas, all of its template.
Converges ==
    \A n \in 0..MaxReplicas, t \in Templates :
        <>[]Asks(n, t) => <>[](\A i \in Indices :
            IF i < n THEN Live[i] # None /\ ~Live[i].deleting /\ Live[i].template = t
            ELSE Live[i] = None)

\* "Requeue the request until the vmSet has no VirtualMachines": a set that is deleted goes
\* away with all of its machines.
DeletionCompletes ==
    ~<>[](Api # None /\ Api.deleting /\ ~Api.disabled)
    /\ [](Api = None => <>(\A i \in Indices : Live[i] = None))
=============================================================================
