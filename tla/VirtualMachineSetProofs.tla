---------------------- MODULE VirtualMachineSetProofs ----------------------
(* For any number of replicas, templates and events in flight: scaling down deletes nothing    *)
(* that the set has asked for ever since it was made, and machines are only made for a set     *)
(* that has its finalizer.                                                                     *)
EXTENDS VirtualMachineSet, TLAPS

Finalized(v) == versions[v] # None /\ versions[v].finalizer
Leaving(v) == versions[v] = None \/ versions[v].deleting

\* The finalizer stays while the set does, deletion is not taken back, and no version follows the
\* set's removal.
History ==
    \A v, w \in 1..Len(versions) : v <= w =>
        /\ Finalized(v) => versions[w] = None \/ Finalized(w)
        /\ Leaving(v) => Leaving(w)
        /\ versions[v] = None => versions[w] = None

\* When the set is gone, no version that a reconcile may still read from the cache makes it work on
\* machines.
Gone == versions[Len(versions)] = None => \A v \in seen..Len(versions) : Leaving(v) \/ ~Finalized(v)

\* A reconcile that works with version c, and so found the finalizer in it or added it, is not
\* older than a machine made from version m.
NotAfter(m, c) == m <= c \/ \A v \in 1..(m - 1) : ~Finalized(v)

\* A machine was made from a version that asks for it, and that no reconcile from now on precedes.
Made ==
    \A k \in 1..Len(log), i \in Indices : log[k][i] # None =>
        /\ log[k][i].made \in 1..Len(versions) /\ versions[log[k][i].made] # None
        /\ i < versions[log[k][i].made].replicas
        /\ NotAfter(log[k][i].made, seen)
        /\ run.stage # "idle" => NotAfter(log[k][i].made, run.copy)

\* What a reconcile knows at each of its stages.
Reconciling ==
    /\ run.stage = "list" =>
         /\ run.copy <= seen
         /\ Finalized(run.copy) /\ ~Leaving(run.copy) => Api # None
    /\ run.stage = "finalizer" => ~Copy.finalizer /\ ~Copy.deleting
    /\ run.stage \in {"scale", "down", "up"} =>
         Copy.finalizer /\ NotAfter(run.copy, seen) /\ Api # None
    /\ run.stage = "down" => \A i \in run.todo : i >= Copy.replicas
    /\ run.stage = "up" => \A i \in run.todo : i < Copy.replicas
    /\ run.stage \in {"mark", "delete"} => Leaving(seen)

IInv == TypeOK /\ History /\ Gone /\ Made /\ Reconciling

------------------------------------------------------------------------------
(* What the two kinds of write do *)

\* The current states of the set (versions) and of the machines (log), the cached states, and the
\* version a reconcile works on are all of their types.
LEMMA Shapes ==
    ASSUME TypeOK
    PROVE  /\ Len(versions) \in Nat /\ Len(versions) >= 1
           /\ \A v \in 1..Len(versions) : versions[v] \in Versions \cup {None}
           /\ Api \in Versions \cup {None} /\ Copy \in Versions \cup {None}
           /\ Len(log) \in Nat /\ Len(log) >= 1
           /\ \A k \in 1..Len(log) : log[k] \in [Indices -> Machines \cup {None}]
           /\ Live \in [Indices -> Machines \cup {None}]
           /\ Cached \in [Indices -> Machines \cup {None}]
           /\ run.copy \in 1..Len(versions) /\ seen \in 1..Len(versions)
           /\ Indices \subseteq Nat
<1>1. Len(versions) \in Nat /\ Len(versions) >= 1 /\ Len(log) \in Nat /\ Len(log) >= 1
      /\ run.copy \in 1..Len(versions) /\ seen \in 1..Len(versions)
  BY DEF TypeOK
<1>2. \A v \in 1..Len(versions) : versions[v] \in Versions \cup {None}
  BY DEF TypeOK
<1>3. \A k \in 1..Len(log) : log[k] \in [Indices -> Machines \cup {None}]
  BY DEF TypeOK
<1>4. Indices \subseteq Nat
  BY VirtualMachineSetAssumption DEF Indices
<1> QED
  BY <1>1, <1>2, <1>3, <1>4 DEF Api, Copy, Live, Cached

\* A missing set (None) is no version of one.
LEMMA NoneIsNoVersion ==
    None \notin Versions
<1>1. Versions \subseteq [replicas: Nat, template: Templates, disabled: BOOLEAN, deleting: BOOLEAN,
                          finalizer: BOOLEAN, conditions: SUBSET Conditions]
  BY VirtualMachineSetAssumption DEF Versions
<1> QED
  BY <1>1, VirtualMachineSetAssumption

\* Nor is it a machine.
LEMMA NoneIsNoMachine == None \notin Machines
  BY VirtualMachineSetAssumption DEF Machines

\* WriteSet adds one version and keeps the earlier ones.
LEMMA SetWritten ==
    ASSUME TypeOK, NEW x \in Versions \cup {None}, WriteSet(x)
    PROVE  /\ versions' \in Seq(Versions \cup {None}) /\ Len(versions') = Len(versions) + 1
           /\ \A v \in 1..Len(versions) : versions'[v] = versions[v]
           /\ versions'[Len(versions) + 1] = x
           /\ log' = log
  BY DEF WriteSet, TypeOK

\* WriteMachine adds one state of the machines, which differs at the one written.
LEMMA MachineWritten ==
    ASSUME TypeOK, NEW i \in Indices, NEW x \in Machines \cup {None}, WriteMachine(i, x)
    PROVE  /\ log' \in Seq([Indices -> Machines \cup {None}]) /\ Len(log') = Len(log) + 1
           /\ \A k \in 1..Len(log) : log'[k] = log[k]
           /\ \A j \in Indices : log'[Len(log) + 1][j] = IF j = i THEN x ELSE log[Len(log)][j]
           /\ versions' = versions
<1> DEFINE N == [log[Len(log)] EXCEPT ![i] = x]
<1>1. N \in [Indices -> Machines \cup {None}]
      /\ \A j \in Indices : N[j] = IF j = i THEN x ELSE log[Len(log)][j]
  BY Shapes
<1>2. log' = Append(log, N) /\ versions' = versions
  BY DEF WriteMachine, Live
<1>3. log \in Seq([Indices -> Machines \cup {None}])
  BY DEF TypeOK
<1> QED
  BY <1>1, <1>2, <1>3

\* A write of the set as every action makes it: of a set that is there, taking back neither its
\* finalizer nor its deletion.
Lawful(x) ==
    /\ WriteSet(x) /\ x \in Versions \cup {None} /\ Api # None
    /\ x # None => /\ Api.finalizer => x.finalizer
                   /\ Api.deleting => x.deleting
                   /\ x.deleting => Api.deleting \/ Api.finalizer

SetStep == versions' = versions \/ \E x : Lawful(x)

\* The machines of a step were there before, or are made by a reconcile that works with version m.
Continued(i, x) == \E k \in 1..Len(log) : log[k][i] # None /\ log[k][i].made = x.made
New(i, x) ==
    /\ run.stage = "up" /\ run.copy = run'.copy /\ x.made = run.copy
    /\ Copy # None /\ i < Copy.replicas

MachineStep ==
    \A k \in 1..Len(log'), i \in Indices :
        log'[k][i] # None => Continued(i, log'[k][i]) \/ New(i, log'[k][i])

\* A reconcile begins with the cached version and only goes on to later ones.
CopyStep == run'.stage = "idle" \/ run'.copy >= IF run.stage = "idle" THEN seen ELSE run.copy

\* Under lawful writes the recorded versions only grow (the API server's resourceVersion).
LEMMA SetGrows ==
    ASSUME TypeOK, SetStep
    PROVE  /\ Len(versions') >= Len(versions) /\ Len(versions') \in Nat
           /\ \A v \in 1..Len(versions) : versions'[v] = versions[v]
  BY SetWritten, Shapes DEF SetStep, Lawful

\* Lawful writes of the set (its finalizer, conditions, spec and deletion) keep its history.
LEMMA HistoryKept ==
    ASSUME TypeOK, History, SetStep
    PROVE  History'
<1>1. CASE versions' = versions
  BY <1>1 DEF History, Finalized, Leaving
<1>2. ASSUME NEW x, Lawful(x) PROVE History'
  <2> DEFINE L == Len(versions)
  <2>1. /\ Len(versions') = L + 1 /\ L \in Nat /\ L >= 1 /\ versions'[L + 1] = x
        /\ \A v \in 1..L : versions'[v] = versions[v]
    BY <1>2, SetWritten, Shapes DEF Lawful
  <2>2. /\ Finalized(L) => x = None \/ x.finalizer
        /\ Leaving(L) => x = None \/ x.deleting
        /\ versions[L] # None
    BY <1>2 DEF Lawful, Finalized, Leaving, Api
  <2>3. \A v \in 1..L : /\ Finalized(v) => Finalized(L)
                        /\ Leaving(v) => Leaving(L)
                        /\ versions[v] # None
    BY <2>1, <2>2 DEF History
  <2>4. \A v \in 1..L : (Finalized(v)' <=> Finalized(v)) /\ (Leaving(v)' <=> Leaving(v))
    BY <2>1 DEF Finalized, Leaving
  <2>5. \A v : v = L + 1 => /\ Finalized(v)' <=> x # None /\ x.finalizer
                            /\ Leaving(v)' <=> x = None \/ x.deleting
    BY <2>1 DEF Finalized, Leaving
  <2> SUFFICES ASSUME NEW v \in 1..(L + 1), NEW w \in 1..(L + 1), v <= w
               PROVE  /\ Finalized(v)' => versions'[w] = None \/ Finalized(w)'
                      /\ Leaving(v)' => Leaving(w)'
                      /\ versions'[v] = None => versions'[w] = None
    BY <2>1 DEF History
  <2>6. CASE w \in 1..L
    BY <2>1, <2>4, <2>6 DEF History
  <2>7. CASE w = L + 1 /\ v \in 1..L
    BY <2>1, <2>2, <2>3, <2>4, <2>5, <2>7
  <2>8. CASE w = L + 1 /\ v = L + 1
    BY <2>1, <2>5, <2>8
  <2> QED
    BY <2>1, <2>6, <2>7, <2>8
<1> QED
  BY <1>1, <1>2 DEF SetStep
------------------------------------------------------------------------------
(* What the actions write *)

\* Every action writes the set as the API server allows it to, and never lets its cache go back.
LEMMA SetSteps ==
    ASSUME TypeOK, Reconciling, [Next]_vars
    PROVE  SetStep /\ seen' \in 1..Len(versions') /\ seen' >= seen
<1> USE Shapes
<1>1. ASSUME versions' = versions, seen' = seen PROVE SetStep /\ seen' \in 1..Len(versions') /\ seen' >= seen
  BY <1>1 DEF SetStep
<1>2. ASSUME NEW x, Lawful(x), seen' = seen PROVE SetStep /\ seen' \in 1..Len(versions') /\ seen' >= seen
  BY <1>2, SetWritten DEF SetStep, Lawful
<1>3. ASSUME NEW c \in Conditions, Condition(c), Api # None, Copy # None
      PROVE  versions' = versions \/ \E x : Lawful(x)
  <2>1. [Api EXCEPT !.conditions = Copy.conditions \cup {c}] \in Versions
    BY <1>3 DEF Versions
  <2> QED
    BY <1>3, <2>1 DEF Condition, Lawful, NoWrite, Versions
<1>4. CASE UserEdit
  <2>1. seen' = seen /\ \E x : Lawful(x)
    <3>1. seen' = seen /\ Api # None
      BY <1>4 DEF UserEdit
    <3>2. ASSUME NEW n \in 0..MaxReplicas, WriteSet([Api EXCEPT !.replicas = n])
          PROVE  Lawful([Api EXCEPT !.replicas = n])
      BY <3>1, <3>2 DEF Lawful, Versions
    <3>3. ASSUME NEW t \in Templates, WriteSet([Api EXCEPT !.template = t])
          PROVE  Lawful([Api EXCEPT !.template = t])
      BY <3>1, <3>3 DEF Lawful, Versions
    <3> QED
      BY <1>4, <3>1, <3>2, <3>3, Zenon DEF UserEdit
  <2> QED
    BY <1>2, <2>1
<1>5. CASE UserDelete
  <2>1. seen' = seen /\ Api # None
      /\ WriteSet(IF Api.finalizer THEN [Api EXCEPT !.deleting = TRUE] ELSE None)
    BY <1>5 DEF UserDelete
  <2>2. Lawful(IF Api.finalizer THEN [Api EXCEPT !.deleting = TRUE] ELSE None)
    BY <2>1 DEF Lawful, Versions
  <2> QED
    BY <1>2, <2>1, <2>2
<1>6. CASE \E i \in Indices : UserDeletesMachine(i) \/ Finalize(i) \/ Collect(i)
  BY <1>1, <1>6 DEF UserDeletesMachine, Finalize, Collect, WriteMachine
<1>7. CASE DeliverSet
  BY <1>7 DEF DeliverSet, SetStep
<1>8. CASE DeliverMachine
  BY <1>1, <1>8 DEF DeliverMachine
<1>9. CASE Get \/ List \/ Scale
  BY <1>1, <1>9 DEF Get, List, Scale
<1>10. CASE HandleFinalizer
  <2>1. CASE NoWrite
    BY <1>1, <1>10, <2>1 DEF HandleFinalizer, NoWrite
  <2>2. CASE WriteSet([Api EXCEPT !.finalizer = TRUE]) /\ Api # None
    <3>1. Lawful([Api EXCEPT !.finalizer = TRUE])
      BY <2>2 DEF Lawful, Versions
    <3> QED
      BY <1>2, <1>10, <3>1 DEF HandleFinalizer
  <2> QED
    BY <1>10, <2>1, <2>2 DEF HandleFinalizer
<1>11. CASE ScaleDown
  <2>1. seen' = seen /\ run.stage = "down" /\ Copy # None
    BY <1>11 DEF ScaleDown, TypeOK
  <2>2. CASE versions' = versions
    BY <1>1, <2>1, <2>2
  <2>3. CASE Api # None /\ Condition("ScalingDown")
    BY <1>1, <1>2, <1>3, <2>1, <2>3 DEF Conditions
  <2> QED
    BY <1>11, <2>2, <2>3 DEF ScaleDown, Delete, WriteMachine, NoWrite
<1>12. CASE ScaleUp
  BY <1>1, <1>12 DEF ScaleUp, WriteMachine, NoWrite
<1>13. CASE MarkDeleting
  <2>1. seen' = seen /\ run.stage = "mark" /\ Copy # None
    BY <1>13 DEF MarkDeleting, TypeOK
  <2>2. CASE versions' = versions
    BY <1>1, <2>1, <2>2
  <2>3. CASE Api # None /\ Condition("Deleting")
    BY <1>1, <1>2, <1>3, <2>1, <2>3 DEF Conditions
  <2> QED
    BY <1>13, <2>2, <2>3 DEF MarkDeleting, NoWrite
<1>14. CASE DeleteMachines
  BY <1>1, <1>14 DEF DeleteMachines, Delete, WriteMachine, NoWrite
<1>15. CASE RemoveFinalizer
  <2>1. seen' = seen /\ run.stage = "delete" /\ Copy # None
    BY <1>15 DEF RemoveFinalizer, TypeOK
  <2>2. CASE versions' = versions
    BY <1>1, <2>1, <2>2
  <2>3. CASE run.copy = Len(versions) /\ WriteSet(None)
    BY <1>2, <2>1, <2>3 DEF Lawful, Copy, Api
  <2>4. NoWrite \/ (run.copy = Len(versions) /\ WriteSet(None))
    BY <1>15, Zenon DEF RemoveFinalizer
  <2> QED
    BY <2>2, <2>3, <2>4 DEF NoWrite
<1>16. CASE ReconcileError
  BY <1>1, <1>16 DEF ReconcileError, NoWrite
<1>17. CASE Restart
  BY <1>17 DEF Restart, SetStep
<1>18. CASE UNCHANGED vars
  BY <1>1, <1>18 DEF vars
<1> QED
  BY <1>4, <1>5, <1>6, <1>7, <1>8, <1>9, <1>10, <1>11, <1>12, <1>13, <1>14, <1>15, <1>16, <1>17, <1>18
     DEF Next, Reconcile
\* Of the machines, actions write states of those there are, and only ScaleUp
\* (createOrUpdateVirtualMachineCRs) makes new ones.
LEMMA MachineSteps ==
    ASSUME TypeOK, Reconciling, [Next]_vars
    PROVE  MachineStep /\ log' \in Seq([Indices -> Machines \cup {None}]) /\ Len(log') >= 1
<1> DEFINE Goal == MachineStep /\ log' \in Seq([Indices -> Machines \cup {None}]) /\ Len(log') >= 1
<1> USE Shapes
<1> SUFFICES Goal
  OBVIOUS
<1>1. ASSUME log' = log PROVE Goal
  BY <1>1 DEF MachineStep, Continued, TypeOK
<1>2. ASSUME NEW i \in Indices, NEW x \in Machines \cup {None}, WriteMachine(i, x),
             x # None => Continued(i, x) \/ New(i, x)
      PROVE  Goal
  <2>1. /\ log' \in Seq([Indices -> Machines \cup {None}]) /\ Len(log') = Len(log) + 1
        /\ \A k \in 1..Len(log) : log'[k] = log[k]
        /\ \A j \in Indices : log'[Len(log) + 1][j] = IF j = i THEN x ELSE log[Len(log)][j]
    BY <1>2, MachineWritten
  <2>2. ASSUME NEW k \in 1..Len(log'), NEW j \in Indices, log'[k][j] # None
        PROVE  Continued(j, log'[k][j]) \/ New(j, log'[k][j])
    <3>1. CASE k \in 1..Len(log)
      BY <2>1, <2>2, <3>1 DEF Continued
    <3>2. CASE k = Len(log) + 1 /\ j = i
      BY <1>2, <2>1, <2>2, <3>2
    <3>3. CASE k = Len(log) + 1 /\ j # i
      BY <2>1, <2>2, <3>3 DEF Continued
    <3> QED
      BY <2>1, <3>1, <3>2, <3>3
  <2> QED
    BY <2>1, <2>2 DEF MachineStep
\* A state of a machine that is there, with its made.
<1>3. ASSUME NEW i \in Indices, NEW x \in Machines, WriteMachine(i, x),
             Live[i] # None, x.made = Live[i].made
      PROVE  Goal
  BY <1>2, <1>3 DEF Continued, Live
<1>4. ASSUME NEW i \in Indices, WriteMachine(i, None) PROVE Goal
  BY <1>2, <1>4
<1>5. ASSUME NEW i \in Indices, Live[i] # None, WriteMachine(i, [Live[i] EXCEPT !.deleting = TRUE])
      PROVE  Goal
  BY <1>3, <1>5 DEF Machines
<1>6. ASSUME NEW i \in Indices, Live[i] # None, Delete(i) PROVE Goal
  BY <1>1, <1>5, <1>6 DEF Delete, NoWrite
<1>7. CASE UserEdit \/ UserDelete \/ HandleFinalizer \/ MarkDeleting \/ RemoveFinalizer
  <2>1. log' = log
    BY <1>7 DEF UserEdit, UserDelete, HandleFinalizer, MarkDeleting, RemoveFinalizer, WriteSet,
                NoWrite, Condition
  <2> QED
    BY <1>1, <2>1
<1>8. CASE \E i \in Indices : UserDeletesMachine(i) \/ Finalize(i) \/ Collect(i)
  BY <1>4, <1>5, <1>8 DEF UserDeletesMachine, Finalize, Collect
<1>9. CASE DeliverSet \/ Get \/ List \/ Scale \/ ReconcileError \/ UNCHANGED vars
  BY <1>1, <1>9 DEF DeliverSet, Get, List, Scale, ReconcileError, NoWrite, vars
<1>10. CASE DeliverMachine
  <2>1. log' = Tail(log) /\ Len(log) > 1 /\ log \in Seq([Indices -> Machines \cup {None}])
    BY <1>10 DEF DeliverMachine, TypeOK
  <2>2. /\ Len(log') = Len(log) - 1 /\ log' \in Seq([Indices -> Machines \cup {None}])
        /\ \A k \in 1..Len(log') : log'[k] = log[k + 1]
    BY <2>1
  <2> QED
    BY <2>1, <2>2 DEF MachineStep, Continued
<1>11. CASE ScaleDown
  <2>1. run.stage = "down"
    BY <1>11 DEF ScaleDown
  <2>2. CASE log' = log
    BY <1>1, <2>2
  <2>3. CASE \E i \in run.todo : Live[i] # None /\ Delete(i)
    BY <1>6, <2>3 DEF TypeOK
  <2> QED
    BY <1>11, <2>2, <2>3 DEF ScaleDown, WriteSet, NoWrite, Condition
<1>12. CASE ScaleUp
  <2>1. run.stage = "up" /\ Copy # None /\ run.todo \subseteq Indices
        /\ \A i \in run.todo : i < Copy.replicas
    BY <1>12 DEF ScaleUp, Reconciling, TypeOK
  <2>2. CASE log' = log
    BY <1>1, <2>2
  <2>3. ASSUME NEW i \in run.todo, Step(i),
               WriteMachine(i, [template |-> Copy.template, deleting |-> FALSE, made |-> run.copy])
        PROVE  Goal
    <3>1. [template |-> Copy.template, deleting |-> FALSE, made |-> run.copy] \in Machines
      BY <2>1 DEF Machines, Versions
    <3>2. New(i, [template |-> Copy.template, deleting |-> FALSE, made |-> run.copy])
      BY <2>1, <2>3 DEF New, Step, Goto, TypeOK
    <3> QED
      BY <1>2, <2>1, <2>3, <3>1, <3>2
  <2>4. ASSUME NEW i \in run.todo, Live[i] # None,
               WriteMachine(i, [Live[i] EXCEPT !.template = Copy.template])
        PROVE  Goal
    BY <1>3, <2>1, <2>4 DEF Machines, Versions
  <2>5. \/ log' = log
        \/ \E i \in run.todo : Step(i)
             /\ WriteMachine(i, [template |-> Copy.template, deleting |-> FALSE, made |-> run.copy])
        \/ \E i \in run.todo : Live[i] # None /\ Live[i] = Cached[i]
             /\ WriteMachine(i, [Live[i] EXCEPT !.template = Copy.template])
    BY <1>12 DEF ScaleUp, NoWrite
  <2> QED
    BY <2>2, <2>3, <2>4, <2>5
<1>13. CASE DeleteMachines
  <2>1. CASE log' = log
    BY <1>1, <2>1
  <2>2. CASE \E i \in run.todo : Live[i] # None /\ Delete(i)
    BY <1>6, <2>2 DEF TypeOK
  <2> QED
    BY <1>13, <2>1, <2>2 DEF DeleteMachines, NoWrite
<1>14. CASE Restart
  <2>1. log' = <<Live>> /\ Live = log[Len(log)]
    BY <1>14 DEF Restart, Live
  <2>2. log' \in Seq([Indices -> Machines \cup {None}]) /\ Len(log') = 1 /\ log'[1] = log[Len(log)]
    BY <2>1
  <2>3. ASSUME NEW k \in 1..Len(log'), NEW i \in Indices, log'[k][i] # None
        PROVE  Continued(i, log'[k][i])
    <3>1. log'[k] = log[Len(log)] /\ Len(log) \in 1..Len(log)
      BY <2>2
    <3> QED
      BY <2>3, <3>1 DEF Continued
  <2> QED
    BY <2>2, <2>3 DEF MachineStep
<1> QED
  BY <1>7, <1>8, <1>9, <1>10, <1>11, <1>12, <1>13, <1>14 DEF Next, Reconcile
\* The stage a reconcile goes to, and the version and the machines it goes there with, are of
\* their types, and it has a set to work on.
LEMMA RunSteps ==
    ASSUME TypeOK, Reconciling, [Next]_vars
    PROVE  /\ run' \in [stage: Stages, copy: 1..Len(versions'), listed: SUBSET Indices, todo: SUBSET Indices]
           /\ run'.stage # "idle" => Copy' # None
           /\ CopyStep
           /\ queue' \in BOOLEAN /\ turns' \in Nat
<1> DEFINE RunType == [stage: Stages, copy: 1..Len(versions'), listed: SUBSET Indices, todo: SUBSET Indices]
           Goal == run' \in RunType /\ (run'.stage # "idle" => Copy' # None) /\ CopyStep
<1> USE Shapes
<1>1. /\ Len(versions') >= Len(versions) /\ Len(versions') \in Nat
      /\ \A v \in 1..Len(versions) : versions'[v] = versions[v]
  BY SetSteps, SetGrows
<1>2. queue' \in BOOLEAN /\ turns' \in Nat
  <2>1. queue' \in {queue, TRUE, FALSE} \/ DeliverSet
    BY DEF Next, Reconcile, vars, UserEdit, UserDelete, UserDeletesMachine, Finalize, Collect,
           DeliverMachine, Get, List, HandleFinalizer, Scale, ScaleDown, ScaleUp, MarkDeleting,
           DeleteMachines, RemoveFinalizer, ReconcileError, Restart, Return, Requeue, Goto, Step
  <2>2. turns' \in {turns, turns + 1}
    BY DEF Next, Reconcile, vars, UserEdit, UserDelete, UserDeletesMachine, Finalize, Collect,
           DeliverSet, DeliverMachine, Get, List, HandleFinalizer, Scale, ScaleDown, ScaleUp,
           MarkDeleting, DeleteMachines, RemoveFinalizer, ReconcileError, Restart
  <2>3. ASSUME DeliverSet PROVE queue' \in BOOLEAN
    <3>1. queue' = (queue \/ Generation(versions[seen]) # Generation(versions[seen']))
      BY <2>3 DEF DeliverSet
    <3> QED
      BY <3>1, Zenon DEF TypeOK
  <2>4. queue' \in BOOLEAN
    BY <2>1, <2>3 DEF TypeOK
  <2>5. turns' \in Nat
    BY <2>2 DEF TypeOK
  <2> QED
    BY <2>4, <2>5
<1>3. ASSUME run' = run PROVE Goal
  BY <1>1, <1>3 DEF TypeOK, CopyStep, Copy
<1>4. ASSUME run' = Idle PROVE Goal
  BY <1>1, <1>4 DEF Idle, Stages, CopyStep
<1> SUFFICES Goal
  BY <1>2
\* The fields of a record.
<1>0. ASSUME NEW s \in Stages, NEW c \in 1..Len(versions'), NEW l \in SUBSET Indices, NEW t \in SUBSET Indices,
             run' = [stage |-> s, copy |-> c, listed |-> l, todo |-> t]
      PROVE  run'.stage = s /\ run'.copy = c /\ run' \in RunType
  BY <1>0
\* Further with the same version.
<1>5. ASSUME NEW s \in Stages, NEW l \in SUBSET Indices, NEW t \in SUBSET Indices,
             run.stage # "idle", run' = [run EXCEPT !.stage = s, !.listed = l, !.todo = t]
      PROVE  Goal
  <2>1. run'.stage = s /\ run'.copy = run.copy /\ run' \in RunType
    <3>1. run' = [stage |-> s, copy |-> run.copy, listed |-> l, todo |-> t]
      BY <1>5 DEF TypeOK
    <3>2. run.copy \in 1..Len(versions')
      BY <1>1
    <3> QED
      BY <1>0, <3>1, <3>2
  <2>2. Copy' = Copy /\ Copy # None
    BY <1>1, <1>5, <2>1 DEF Copy, TypeOK
  <2> QED
    BY <1>5, <2>1, <2>2 DEF CopyStep
<1>6. ASSUME NEW i, Step(i), run.stage # "idle" PROVE Goal
  <2>1. run' = [run EXCEPT !.stage = run.stage, !.listed = run.listed, !.todo = run.todo \ {i}]
    BY <1>6 DEF Step, Goto, TypeOK
  <2> QED
    BY <1>5, <1>6, <2>1, run.stage \in Stages, run.listed \in SUBSET Indices,
       run.todo \ {i} \in SUBSET Indices DEF TypeOK
<1>7. CASE Get
  <2>1. CASE run' = [Idle EXCEPT !.stage = "list", !.copy = seen] /\ versions[seen] # None
    <3>1. run'.stage = "list" /\ run'.copy = seen /\ run' \in RunType
      <4>1. run' = [stage |-> "list", copy |-> seen, listed |-> {}, todo |-> {}]
        BY <2>1 DEF Idle
      <4>2. "list" \in Stages /\ seen \in 1..Len(versions')
        BY <1>1 DEF Stages
      <4> QED
        BY <1>0, <4>1, <4>2
    <3>2. Copy' # None
      BY <1>1, <2>1, <3>1 DEF Copy
    <3> QED
      BY <1>7, <3>1, <3>2 DEF Get, CopyStep
  <2> QED
    BY <1>4, <1>7, <2>1 DEF Get
<1>8. CASE List
  <2>1. run.stage = "list" /\ run.stage # "idle" /\ {i \in Indices : Cached[i] # None} \subseteq Indices
    BY <1>8 DEF List
  <2>2. \/ run' = Idle
        \/ \E s \in {"scale", "finalizer", "mark"} :
             run' = [run EXCEPT !.stage = s, !.listed = {i \in Indices : Cached[i] # None}]
    BY <1>8 DEF List, Goto, Requeue
  <2>3. ASSUME NEW s \in {"scale", "finalizer", "mark"},
               run' = [run EXCEPT !.stage = s, !.listed = {i \in Indices : Cached[i] # None}]
        PROVE  Goal
    <3>1. run' = [run EXCEPT !.stage = s, !.listed = {i \in Indices : Cached[i] # None}, !.todo = run.todo]
      BY <2>3 DEF TypeOK
    <3> QED
      BY <1>5, <2>1, <3>1 DEF Stages, TypeOK
  <2> QED
    BY <1>4, <2>2, <2>3
<1>9. CASE HandleFinalizer
  <2>1. CASE WriteSet([Api EXCEPT !.finalizer = TRUE]) /\ Api # None /\ run.copy = Len(versions)
             /\ run' = [run EXCEPT !.stage = "scale", !.copy = @ + 1]
    <3>1. [Api EXCEPT !.finalizer = TRUE] \in Versions
      BY <2>1 DEF Versions
    <3>2. Len(versions') = Len(versions) + 1 /\ versions'[Len(versions) + 1] # None
      BY <2>1, <3>1, SetWritten, NoneIsNoVersion
    <3>3. run'.stage = "scale" /\ run'.copy = Len(versions) + 1 /\ run' \in RunType
      <4>1. run' = [stage |-> "scale", copy |-> Len(versions) + 1, listed |-> run.listed, todo |-> run.todo]
        BY <2>1 DEF TypeOK
      <4>2. "scale" \in Stages /\ Len(versions) + 1 \in 1..Len(versions')
            /\ run.listed \in SUBSET Indices /\ run.todo \in SUBSET Indices
        BY <3>2 DEF Stages, TypeOK
      <4> QED
        BY <1>0, <4>1, <4>2
    <3>4. Copy' # None
      BY <3>2, <3>3 DEF Copy
    <3> QED
      BY <1>9, <2>1, <3>3, <3>4 DEF HandleFinalizer, CopyStep
  <2> QED
    BY <1>4, <1>9, <2>1 DEF HandleFinalizer, Return, Requeue, Goto
<1>10. CASE Scale
  <2>1. run.stage = "scale" /\ run.listed \subseteq Indices /\ Copy # None
    BY <1>10 DEF Scale, TypeOK
  <2>2. 0..(Copy.replicas - 1) \subseteq Indices
    BY <2>1, VirtualMachineSetAssumption DEF Versions, Indices
  <2>3. \E s \in {"down", "up"}, t \in SUBSET Indices : run' = [run EXCEPT !.stage = s, !.todo = t]
    BY <1>10, <2>1, <2>2 DEF Scale, Goto
  <2>4. ASSUME NEW s \in {"down", "up"}, NEW t \in SUBSET Indices, run' = [run EXCEPT !.stage = s, !.todo = t]
        PROVE  Goal
    <3>1. run' = [run EXCEPT !.stage = s, !.listed = run.listed, !.todo = t]
      BY <2>4 DEF TypeOK
    <3>2. s \in Stages /\ run.listed \in SUBSET Indices /\ run.stage # "idle"
      BY <2>1 DEF Stages
    <3> QED
      BY <1>5, <3>1, <3>2
  <2> QED
    BY <2>3, <2>4
<1>11. CASE ScaleDown
  BY <1>4, <1>6, <1>11 DEF ScaleDown, Return, Goto
<1>12. CASE ScaleUp
  BY <1>4, <1>6, <1>12 DEF ScaleUp, Return, Requeue, Goto
<1>13. CASE MarkDeleting
  <2>1. run.stage = "mark" /\ Copy # None /\ run.listed \subseteq Indices
    BY <1>13 DEF MarkDeleting, TypeOK
  <2>2. CASE run' = [run EXCEPT !.stage = "delete", !.todo = run.listed]
    <3>1. run' = [run EXCEPT !.stage = "delete", !.listed = run.listed, !.todo = run.listed]
      BY <2>2 DEF TypeOK
    <3> QED
      BY <1>5, <2>1, <3>1 DEF Stages
  <2>3. CASE Api # None /\ Condition("Deleting")
             /\ run' = [run EXCEPT !.stage = "delete", !.todo = run.listed, !.copy = Len(versions')]
    <3>1. [Api EXCEPT !.conditions = Copy.conditions \cup {"Deleting"}] \in Versions
      BY <2>1, <2>3 DEF Versions, Conditions
    <3>2. versions'[Len(versions')] # None
      <4>1. CASE versions' = versions
        BY <2>3, <4>1 DEF Api
      <4>2. CASE WriteSet([Api EXCEPT !.conditions = Copy.conditions \cup {"Deleting"}])
        BY <3>1, <4>2, SetWritten, NoneIsNoVersion
      <4> QED
        BY <2>3, <4>1, <4>2 DEF Condition, NoWrite
    <3> QED
      <4>1. run'.stage = "delete" /\ run'.copy = Len(versions') /\ run' \in RunType
        <5>1. run' = [stage |-> "delete", copy |-> Len(versions'), listed |-> run.listed, todo |-> run.listed]
          BY <2>3 DEF TypeOK
        <5>2. "delete" \in Stages /\ Len(versions') \in 1..Len(versions')
          BY <1>1 DEF Stages
        <5> QED
          BY <1>0, <2>1, <5>1, <5>2
      <4>2. Copy' # None
        BY <3>2, <4>1 DEF Copy
      <4> QED
        BY <1>1, <2>1, <4>1, <4>2 DEF CopyStep
  <2> QED
    BY <1>4, <1>13, <2>2, <2>3 DEF MarkDeleting, Requeue, Goto
<1>14. CASE DeleteMachines
  BY <1>4, <1>6, <1>14 DEF DeleteMachines, Requeue
<1>15. CASE RemoveFinalizer \/ ReconcileError \/ Restart
  BY <1>4, <1>15 DEF RemoveFinalizer, ReconcileError, Restart, Requeue
<1>16. CASE UserEdit \/ UserDelete \/ DeliverSet \/ DeliverMachine \/ UNCHANGED vars
            \/ \E i \in Indices : UserDeletesMachine(i) \/ Finalize(i) \/ Collect(i)
  BY <1>3, <1>16 DEF UserEdit, UserDelete, DeliverSet, DeliverMachine, vars, UserDeletesMachine,
                    Finalize, Collect
<1> QED
  BY <1>2, <1>7, <1>8, <1>9, <1>10, <1>11, <1>12, <1>13, <1>14, <1>15, <1>16 DEF Next, Reconcile
------------------------------------------------------------------------------
(* The parts of the invariant *)

\* Every action keeps the types of the state.
LEMMA TypeKept ==
    ASSUME TypeOK, Reconciling, [Next]_vars
    PROVE  TypeOK'
<1>1. versions' \in Seq(Versions \cup {None}) /\ Len(versions') >= 1
  BY SetSteps, SetWritten, Shapes DEF SetStep, Lawful, TypeOK
<1> QED
  BY <1>1, SetSteps, MachineSteps, RunSteps DEF TypeOK

\* What a version of the set is does not change, and a version that no reconcile may follow stays
\* that: NotAfter goes on to hold, also for a later second version.
LEMMA NotAfterKept ==
    ASSUME TypeOK, SetStep, NEW m \in 1..Len(versions), NEW c \in Nat, NEW d \in Nat, c <= d, NotAfter(m, c)
    PROVE  NotAfter(m, d)'
<1> SUFFICES ASSUME ~(m <= d) PROVE \A v \in 1..(m - 1) : ~Finalized(v)'
  BY DEF NotAfter
<1>1. \A v \in 1..(m - 1) : ~Finalized(v)
  BY Shapes DEF NotAfter
<1> QED
  BY <1>1, SetGrows, Shapes DEF Finalized

\* Whatever is written, the machines that are there were made from a version that asks for them
\* and that no later reconcile precedes.
LEMMA MadeKept ==
    ASSUME TypeOK, History, Made, Reconciling, [Next]_vars
    PROVE  Made'
<1>1. /\ SetStep /\ Len(versions') >= Len(versions) /\ Len(versions') \in Nat
      /\ \A v \in 1..Len(versions) : versions'[v] = versions[v]
      /\ seen' >= seen /\ seen' \in Nat /\ seen \in Nat /\ run.copy \in 1..Len(versions)
      /\ run'.copy \in Nat /\ CopyStep /\ MachineStep /\ Len(versions) \in Nat
  BY SetSteps, SetGrows, MachineSteps, RunSteps, Shapes
<1> SUFFICES ASSUME NEW k \in 1..Len(log'), NEW i \in Indices, NEW m, m = log'[k][i].made, log'[k][i] # None
             PROVE  /\ m \in 1..Len(versions') /\ versions'[m] # None
                    /\ i < versions'[m].replicas
                    /\ NotAfter(m, seen)'
                    /\ run'.stage # "idle" => NotAfter(m, run.copy)'
  BY DEF Made
<1>2. /\ m \in 1..Len(versions) /\ versions[m] # None /\ i < versions[m].replicas
      /\ NotAfter(m, seen)
      /\ run.stage # "idle" => NotAfter(m, run.copy)
  <2>1. CASE Continued(i, log'[k][i])
    BY <2>1 DEF Continued, Made
  <2>2. CASE New(i, log'[k][i])
    BY <1>1, <2>2 DEF New, Copy, Reconciling, NotAfter
  <2> QED
    BY <1>1, <2>1, <2>2 DEF MachineStep
<1>3. \A d \in Nat : d = seen' => NotAfter(m, d)'
  BY <1>1, <1>2, NotAfterKept
<1>4. \A d \in Nat : d = run'.copy /\ run'.stage # "idle" => NotAfter(m, d)'
  <2> SUFFICES ASSUME NEW d \in Nat, d = run'.copy, run'.stage # "idle" PROVE NotAfter(m, d)'
    OBVIOUS
  <2>1. CASE run.stage # "idle" /\ run.copy <= d
    BY <1>1, <1>2, <2>1, NotAfterKept
  <2>2. CASE seen <= d
    BY <1>1, <1>2, <2>2, NotAfterKept
  <2> QED
    BY <1>1, <2>1, <2>2 DEF CopyStep
<1> QED
  BY <1>1, <1>2, <1>3, <1>4 DEF NotAfter

\* The set goes away only without a finalizer (a user's deletion), or by the last write of
\* handleDelete.
LEMMA Removals ==
    ASSUME TypeOK, [Next]_vars, Api # None, Api' = None
    PROVE  (UserDelete /\ ~Api.finalizer) \/ RemoveFinalizer
<1> USE Shapes, NoneIsNoVersion
<1>1. ASSUME versions' = versions PROVE FALSE
  BY <1>1 DEF Api
<1>2. ASSUME NEW x \in Versions, WriteSet(x) PROVE FALSE
  BY <1>2, SetWritten DEF Api
<1>3. ASSUME NEW c \in Conditions, Condition(c), Copy # None PROVE FALSE
  <2>1. [Api EXCEPT !.conditions = Copy.conditions \cup {c}] \in Versions
    BY <1>3 DEF Versions
  <2> QED
    BY <1>1, <1>2, <1>3, <2>1 DEF Condition, NoWrite
<1>4. CASE UserEdit
  <2>1. \A n \in 0..MaxReplicas : [Api EXCEPT !.replicas = n] \in Versions
    BY DEF Versions
  <2>2. \A t \in Templates : [Api EXCEPT !.template = t] \in Versions
    BY DEF Versions
  <2> QED
    BY <1>2, <1>4, <2>1, <2>2 DEF UserEdit
<1>5. CASE UserDelete
  <2>1. WriteSet(IF Api.finalizer THEN [Api EXCEPT !.deleting = TRUE] ELSE None)
    BY <1>5 DEF UserDelete
  <2>2. CASE Api.finalizer
    <3>1. [Api EXCEPT !.deleting = TRUE] \in Versions
      BY DEF Versions
    <3> QED
      BY <1>2, <2>1, <2>2, <3>1
  <2> QED
    BY <1>5, <2>2
<1>6. CASE HandleFinalizer
  <2>1. [Api EXCEPT !.finalizer = TRUE] \in Versions
    BY DEF Versions
  <2> QED
    BY <1>1, <1>2, <1>6, <2>1 DEF HandleFinalizer, NoWrite
<1>7. CASE ScaleDown
  <2>1. Copy # None
    BY <1>7 DEF ScaleDown, TypeOK
  <2> QED
    BY <1>1, <1>3, <1>7, <2>1 DEF ScaleDown, Delete, NoWrite, WriteMachine, Conditions
<1>8. CASE MarkDeleting
  <2>1. Copy # None
    BY <1>8 DEF MarkDeleting, TypeOK
  <2> QED
    BY <1>1, <1>3, <1>8, <2>1 DEF MarkDeleting, NoWrite, Conditions
<1>9. CASE \/ \E i \in Indices : UserDeletesMachine(i) \/ Finalize(i) \/ Collect(i)
           \/ DeliverSet \/ DeliverMachine \/ Get \/ List \/ Scale \/ ScaleUp \/ DeleteMachines
           \/ ReconcileError \/ Restart \/ UNCHANGED vars
  <2>1. versions' = versions
    BY <1>9 DEF UserDeletesMachine, Finalize, Collect, DeliverSet, DeliverMachine, Get, List, Scale,
                ScaleUp, DeleteMachines, Delete, ReconcileError, Restart, WriteMachine, NoWrite, vars
  <2> QED
    BY <1>1, <2>1
<1> QED
  BY <1>4, <1>5, <1>6, <1>7, <1>8, <1>9 DEF Next, Reconcile

\* When the set goes, its cache is past the start of its deletion, or it never had a finalizer.
LEMMA GoneKept ==
    ASSUME TypeOK, History, Gone, Reconciling, [Next]_vars
    PROVE  Gone'
<1> DEFINE L == Len(versions)
<1> SUFFICES ASSUME versions'[Len(versions')] = None, NEW v \in seen'..Len(versions'), Finalized(v)'
             PROVE  Leaving(v)'
  BY DEF Gone
<1>1. /\ SetStep /\ Len(versions') \in Nat /\ seen' >= seen /\ seen' \in 1..Len(versions')
      /\ \A w \in 1..L : versions'[w] = versions[w]
      /\ L \in Nat /\ seen \in 1..L
  BY SetSteps, SetGrows, Shapes
<1>2. v \in 1..L /\ v >= seen
  <2>1. CASE versions' = versions
    BY <1>1, <2>1
  <2>2. CASE Len(versions') = L + 1
    BY <1>1, <2>2 DEF Finalized
  <2> QED
    BY <1>1, <2>1, <2>2, SetWritten DEF SetStep, Lawful
<1>3. versions'[v] = versions[v] /\ Finalized(v)
  BY <1>1, <1>2 DEF Finalized
<1>4. Leaving(v)
  <2>1. CASE Api = None
    BY <1>1, <1>2, <1>3, <2>1 DEF Gone, Api
  <2>2. CASE Api # None /\ UserDelete /\ ~Api.finalizer
    BY <1>1, <1>2, <1>3, <2>2 DEF History, Finalized, Api
  <2>3. CASE Api # None /\ RemoveFinalizer
    <3>1. Leaving(seen)
      BY <2>3 DEF RemoveFinalizer, Reconciling
    <3> QED
      BY <1>1, <1>2, <3>1 DEF History
  <2> QED
    BY <2>1, <2>2, <2>3, Removals DEF Api
<1> QED
  BY <1>3, <1>4 DEF Leaving
\* What the reconcile knows outlives the steps of the others: a set with its finalizer is not
\* removed under it.
LEMMA ReconcilingOutlives ==
    ASSUME TypeOK, History, Reconciling, [Next]_vars, run' = run, ~RemoveFinalizer
    PROVE  Reconciling'
<1>1. /\ SetStep /\ seen' >= seen /\ seen' \in 1..Len(versions') /\ Len(versions') \in Nat
      /\ Len(versions) \in Nat /\ Len(versions') >= Len(versions)
      /\ \A v \in 1..Len(versions) : versions'[v] = versions[v]
      /\ run.copy \in 1..Len(versions) /\ seen \in 1..Len(versions)
  BY SetSteps, SetGrows, Shapes
<1>2. Copy' = Copy /\ Copy = versions[run.copy]
      /\ (Finalized(run.copy)' <=> Finalized(run.copy)) /\ (Leaving(run.copy)' <=> Leaving(run.copy))
  BY <1>1 DEF Copy, Finalized, Leaving
<1>3. Finalized(run.copy) /\ Api # None => Api' # None
  <2>1. Finalized(run.copy) /\ Api # None => Api.finalizer
    BY <1>1 DEF History, Finalized, Api
  <2> QED
    BY <2>1, Removals
<1>4. run.stage = "list" => run.copy <= seen' /\ (Finalized(run.copy)' /\ ~Leaving(run.copy)' => Api' # None)
  BY <1>1, <1>2, <1>3 DEF Reconciling
<1>5. run.stage \in {"scale", "down", "up"} => NotAfter(run.copy, seen)' /\ Api' # None
  <2>1. ASSUME run.stage \in {"scale", "down", "up"} PROVE \A d \in Nat : d = seen' => NotAfter(run.copy, d)'
    <3>1. NotAfter(run.copy, seen)
      BY <2>1 DEF Reconciling
    <3>2. ASSUME NEW m \in 1..Len(versions), m = run.copy, NEW d \in Nat, d = seen' PROVE NotAfter(m, d)'
      BY <1>1, <3>1, <3>2, NotAfterKept
    <3> QED
      BY <1>1, <3>2 DEF NotAfter
  <2>2. run.stage \in {"scale", "down", "up"} => Finalized(run.copy) /\ Api # None
    BY <1>2 DEF Reconciling, Finalized, TypeOK
  <2> QED
    BY <1>1, <1>3, <2>1, <2>2 DEF NotAfter
<1>6. run.stage \in {"mark", "delete"} => Leaving(seen)'
  <2>1. Leaving(seen) => \A v \in seen..Len(versions) : Leaving(v)
    BY <1>1 DEF History
  <2>2. ASSUME Leaving(seen) PROVE Leaving(seen)'
    <3>1. History'
      BY <1>1, HistoryKept
    <3>2. \A v \in 1..Len(versions) : v = seen => Leaving(v)'
      BY <1>1, <2>2 DEF Leaving
    <3> QED
      BY <1>1, <3>1, <3>2 DEF History, Leaving
  <2> QED
    BY <2>2 DEF Reconciling
<1> QED
  BY <1>2, <1>4, <1>5, <1>6 DEF Reconciling

\* Every stage is reached with what it relies on: the finalizer before machines are made, the
\* machines to delete from the version that does without them.
LEMMA ReconcilingKept ==
    ASSUME TypeOK, History, Gone, Reconciling, [Next]_vars
    PROVE  Reconciling'
<1> USE Shapes
<1>1. ASSUME run' = Idle PROVE Reconciling'
  BY <1>1 DEF Idle, Reconciling
<1>2. CASE run' = run /\ ~RemoveFinalizer
  BY <1>2, ReconcilingOutlives
<1>3. CASE Get
  <2>1. CASE run' = [Idle EXCEPT !.stage = "list", !.copy = seen] /\ UNCHANGED <<versions, seen>>
    <3>1. run'.stage = "list" /\ run'.copy = seen
      BY <2>1 DEF Idle
    <3>2. Finalized(seen) /\ ~Leaving(seen) => Api # None
      BY DEF Gone, Api
    <3> QED
      BY <2>1, <3>1, <3>2 DEF Reconciling, Finalized, Leaving, Api
  <2> QED
    BY <1>1, <1>3, <2>1 DEF Get
<1>4. CASE List
  <2>1. UNCHANGED <<versions, seen>> /\ run.stage = "list" /\ run.copy <= seen /\ Copy # None
    BY <1>4 DEF List, Reconciling, TypeOK
  <2>2. CASE ~Copy.deleting /\ run'.stage = "scale" /\ Copy.finalizer /\ run'.copy = run.copy
    <3>1. Api # None
      BY <2>1, <2>2 DEF Reconciling, Finalized, Leaving, Copy
    <3> QED
      BY <2>1, <2>2, <3>1 DEF Reconciling, NotAfter, Copy, Api
  <2>3. CASE ~Copy.deleting /\ run'.stage = "finalizer" /\ ~Copy.finalizer /\ run'.copy = run.copy
    BY <2>1, <2>3 DEF Reconciling, Copy
  <2>4. CASE Copy.deleting /\ run'.stage = "mark"
    <3>1. Leaving(seen)
      BY <2>1, <2>4 DEF History, Leaving, Copy
    <3> QED
      BY <2>1, <2>4, <3>1 DEF Reconciling, Leaving
  <2> QED
    BY <1>1, <1>4, <2>2, <2>3, <2>4 DEF List, Goto, Requeue, TypeOK
<1>5. CASE HandleFinalizer
  <2>1. CASE WriteSet([Api EXCEPT !.finalizer = TRUE]) /\ Api # None /\ run.copy = Len(versions)
             /\ run' = [run EXCEPT !.stage = "scale", !.copy = @ + 1] /\ seen' = seen
             /\ ~Copy.finalizer
    <3>1. [Api EXCEPT !.finalizer = TRUE] \in Versions
      BY <2>1 DEF Versions
    <3>2. /\ Len(versions') = Len(versions) + 1
          /\ versions'[Len(versions) + 1] = [Api EXCEPT !.finalizer = TRUE]
          /\ \A v \in 1..Len(versions) : versions'[v] = versions[v]
      BY <2>1, <3>1, SetWritten
    <3>3. run'.stage = "scale" /\ run'.copy = Len(versions) + 1
      BY <2>1 DEF TypeOK
    <3>4. \A v \in 1..Len(versions) : ~Finalized(v)
      BY <2>1 DEF History, Finalized, Copy, Api
    <3>5. \A v \in 1..Len(versions) : ~Finalized(v)'
      BY <3>2, <3>4 DEF Finalized
    <3>6. NotAfter(run.copy, seen)'
      BY <3>3, <3>5 DEF NotAfter
    <3>7. Copy'.finalizer /\ Api' # None
      BY <3>1, <3>2, <3>3, NoneIsNoVersion DEF Copy, Api, Versions
    <3> QED
      BY <3>3, <3>6, <3>7 DEF Reconciling
  <2> QED
    BY <1>1, <1>5, <2>1 DEF HandleFinalizer, Return, Requeue, Goto, Reconciling
<1>6. CASE Scale
  <2>1. UNCHANGED <<versions, seen>> /\ run.stage = "scale" /\ Copy \in Versions /\ run.listed \subseteq Nat
        /\ Copy.finalizer /\ NotAfter(run.copy, seen) /\ Api # None
    BY <1>6 DEF Scale, Reconciling, TypeOK
  <2>2. /\ run'.stage \in {"down", "up"} /\ run'.copy = run.copy
        /\ run'.stage = "down" => run'.todo = run.listed \ (0..(Copy.replicas - 1))
        /\ run'.stage = "up" => run'.todo = 0..(Copy.replicas - 1)
    BY <1>6 DEF Scale, Goto, TypeOK
  <2>3. Copy' = Copy /\ Api' = Api /\ NotAfter(run.copy, seen)' /\ Copy.replicas \in Nat
    BY <2>1, <2>2, VirtualMachineSetAssumption DEF Copy, Api, NotAfter, Finalized, Versions
  <2>4. run'.stage = "down" => \A i \in run'.todo : i >= Copy.replicas
    BY <2>1, <2>2, <2>3
  <2>5. run'.stage = "up" => \A i \in run'.todo : i < Copy.replicas
    BY <2>1, <2>2, <2>3
  <2> QED
    BY <2>1, <2>2, <2>3, <2>4, <2>5 DEF Reconciling
<1>7. ASSUME NEW i, Step(i), UNCHANGED <<versions, seen>>, run.stage # "idle" PROVE Reconciling'
  <2>1. run'.stage = run.stage /\ run'.copy = run.copy /\ run'.todo = run.todo \ {i}
    BY <1>7 DEF Step, Goto, TypeOK
  <2>2. Copy' = Copy /\ Api' = Api /\ (NotAfter(run.copy, seen)' <=> NotAfter(run.copy, seen))
        /\ (Leaving(seen)' <=> Leaving(seen)) /\ (Finalized(run.copy)' <=> Finalized(run.copy))
        /\ (Leaving(run.copy)' <=> Leaving(run.copy))
    BY <1>7, <2>1 DEF Copy, Api, NotAfter, Finalized, Leaving
  <2> QED
    BY <1>7, <2>1, <2>2 DEF Reconciling
<1>8. CASE ScaleDown \/ ScaleUp \/ DeleteMachines
  BY <1>1, <1>7, <1>8 DEF ScaleDown, ScaleUp, DeleteMachines, Delete, WriteMachine, NoWrite, Return,
                          Requeue, Goto
<1>9. CASE MarkDeleting
  <2>1. CASE run'.stage = "delete" /\ run.stage = "mark"
    <3>1. Leaving(seen) /\ seen' = seen /\ seen \in 1..Len(versions)
      BY <1>9, <2>1 DEF MarkDeleting, Reconciling
    <3>2. \A v \in 1..Len(versions) : versions'[v] = versions[v]
      BY SetSteps, SetGrows
    <3> QED
      BY <2>1, <3>1, <3>2 DEF Reconciling, Leaving
  <2> QED
    BY <1>1, <1>9, <2>1 DEF MarkDeleting, Requeue, Goto, TypeOK
<1>10. CASE RemoveFinalizer \/ ReconcileError \/ Restart
  BY <1>1, <1>10 DEF RemoveFinalizer, ReconcileError, Restart, Requeue
<1>11. CASE \/ \E i \in Indices : UserDeletesMachine(i) \/ Finalize(i) \/ Collect(i)
            \/ UserEdit \/ UserDelete \/ DeliverSet \/ DeliverMachine \/ UNCHANGED vars
  <2>1. run' = run
    BY <1>11 DEF UserDeletesMachine, Finalize, Collect, UserEdit, UserDelete, DeliverSet,
                 DeliverMachine, vars
  <2> QED
    BY <1>2, <1>10, <2>1
<1> QED
  BY <1>3, <1>4, <1>5, <1>6, <1>8, <1>9, <1>10, <1>11 DEF Next, Reconcile
------------------------------------------------------------------------------
(* The theorems *)

\* The invariant holds when the controller starts with a set that it has not seen.
LEMMA Initially ==
    ASSUME Init
    PROVE  IInv
<1>1. PICK x \in [replicas: 0..MaxReplicas, template: Templates, disabled: BOOLEAN,
                  deleting: {FALSE}, finalizer: {FALSE}, conditions: {{}}] : versions = <<x>>
  BY DEF Init
<1>2. x \in Versions
  BY <1>1 DEF Versions
<1>3. versions \in Seq(Versions \cup {None}) /\ Len(versions) = 1 /\ versions[1] = x /\ x # None
  BY <1>1, <1>2, NoneIsNoVersion
<1>4. log = << [i \in Indices |-> None] >> /\ seen = 1 /\ queue = TRUE /\ turns = 0
      /\ run = [stage |-> "idle", copy |-> 1, listed |-> {}, todo |-> {}]
  BY DEF Init, Idle
<1>5. log \in Seq([Indices -> Machines \cup {None}]) /\ Len(log) = 1
      /\ \A i \in Indices : log[1][i] = None
  BY <1>4
<1>6. TypeOK
  BY <1>3, <1>4, <1>5 DEF TypeOK, Stages
<1>7. History /\ Gone /\ Made /\ Reconciling
  BY <1>3, <1>4, <1>5 DEF History, Gone, Made, Reconciling
<1> QED
  BY <1>6, <1>7 DEF IInv

\* Every step keeps it.
LEMMA Inductive ==
    ASSUME IInv, [Next]_vars
    PROVE  IInv'
<1>1. SetStep
  BY SetSteps DEF IInv
<1> QED
  BY <1>1, TypeKept, HistoryKept, GoneKept, MadeKept, ReconcilingKept DEF IInv

\* The state of the controller, its caches and the API server is always of its type, and a
\* reconcile always has a set to work on.
THEOREM TypeCorrect == Spec => []TypeOK
<1>1. Init => IInv
  BY Initially
<1>2. IInv /\ [Next]_vars => IInv'
  BY Inductive
<1>3. IInv => TypeOK
  BY DEF IInv
<1> QED
  BY <1>1, <1>2, <1>3, PTL DEF Spec

\* What scaleDownVMs has left to delete, the set has done without since it was made: the version
\* that the reconcile works on does, and is a later one.
LEMMA DownIsSpare ==
    ASSUME IInv, run.stage = "down", NEW i \in run.todo, Live[i] # None
    PROVE  i \in Spare
<1>1. TypeOK /\ History /\ Made /\ Reconciling /\ i \in Indices
  BY DEF IInv, TypeOK
<1>2. Copy \in Versions /\ Copy.finalizer /\ i >= Copy.replicas /\ Copy # None
  BY <1>1, Shapes DEF Reconciling, TypeOK
<1>3. /\ Live[i].made \in 1..Len(versions) /\ i < versions[Live[i].made].replicas
      /\ NotAfter(Live[i].made, run.copy)
  BY <1>1, Shapes DEF Made, Live
<1>4. Live[i].made <= run.copy
  BY <1>1, <1>2, <1>3, Shapes DEF NotAfter, Finalized, Copy
<1>5. Live[i].made # run.copy
  BY <1>1, <1>2, <1>3, Shapes, VirtualMachineSetAssumption DEF Copy, Versions
<1> QED
  BY <1>1, <1>2, <1>3, <1>4, <1>5, Shapes DEF Copy, Spare

\* scaleDownVMs only deletes machines that a later version of the set did without, whatever the
\* number of replicas and however far the caches lag.
THEOREM ScaleDownKeepsWanted == Spec => KeepsWanted
<1> DEFINE Kept ==
      \A i \in Indices : GivesUp(i) =>
         \E v \in (Live[i].made + 1)..Len(versions) : versions[v] # None /\ versions[v].replicas <= i
<1>1. ASSUME IInv, Next PROVE Kept
  <2> SUFFICES ASSUME NEW i \in Indices, GivesUp(i)
               PROVE  \E v \in (Live[i].made + 1)..Len(versions) :
                          versions[v] # None /\ versions[v].replicas <= i
    OBVIOUS
  <2> USE Shapes
  <2>0. TypeOK /\ History /\ Made /\ Reconciling
    BY <1>1 DEF IInv
  <2>1. run.stage = "down" /\ Live[i] # None /\ Live' # Live /\ run' # run
    BY DEF GivesUp
  <2>2. ScaleDown
    <3>1. ReconcileError => log' = log
      BY DEF ReconcileError, NoWrite
    <3>2. Restart => Live' = Live
      BY DEF Restart, Live
    <3>3. UserEdit \/ UserDelete \/ DeliverSet \/ DeliverMachine => run' = run
      BY DEF UserEdit, UserDelete, DeliverSet, DeliverMachine
    <3>4. (\E j \in Indices : UserDeletesMachine(j) \/ Finalize(j) \/ Collect(j)) => run' = run
      BY DEF UserDeletesMachine, Finalize, Collect
    <3>5. Reconcile => ScaleDown
      BY <2>1 DEF Reconcile, Get, List, HandleFinalizer, Scale, ScaleUp, MarkDeleting,
                  DeleteMachines, RemoveFinalizer
    <3> QED
      BY <1>1, <2>1, <3>1, <3>2, <3>3, <3>4, <3>5 DEF Next, Live
  <2>3. PICK j \in run.todo : WriteMachine(j, [Live[j] EXCEPT !.deleting = TRUE]) /\ Live[j] # None
    <3>1. log' # log
      BY <2>1 DEF Live
    <3> QED
      BY <2>2, <3>1 DEF ScaleDown, Delete, NoWrite, WriteSet, Condition
  <2>4. j \in Indices /\ [Live[j] EXCEPT !.deleting = TRUE] \in Machines \cup {None}
    BY <2>0, <2>3 DEF TypeOK, Machines
  <2>5. j = i
    <3>1. Live'[i] # Live[i]
      BY DEF GivesUp
    <3>2. ASSUME j # i PROVE Live'[i] = Live[i]
      BY <2>0, <2>3, <2>4, <3>2, MachineWritten DEF Live
    <3> QED
      BY <3>1, <3>2
  <2> QED
    BY <1>1, <2>1, <2>3, <2>5, DownIsSpare DEF Spare
<1>2. ASSUME IInv, UNCHANGED vars PROVE Kept
  BY <1>2 DEF GivesUp, Live, vars
<1>3. IInv /\ [Next]_vars => [Kept]_vars
  BY <1>1, <1>2
<1>4. Init => IInv
  BY Initially
<1>5. IInv /\ [Next]_vars => IInv'
  BY Inductive
<1> QED
  BY <1>3, <1>4, <1>5, PTL DEF Spec, KeepsWanted

\* handleVMsetOperations makes machines only for a set that is there with its finalizer, whenever
\* the set is edited or deleted during the reconcile.
THEOREM MachinesMadeUnderFinalizer == Spec => MadeUnderFinalizer
<1> DEFINE Under == \A i \in Indices : Makes(i) => Api # None /\ Api.finalizer
<1>1. ASSUME IInv PROVE Under
  <2> SUFFICES ASSUME NEW i \in Indices, Makes(i) PROVE Api # None /\ Api.finalizer
    OBVIOUS
  <2>1. TypeOK /\ History /\ Reconciling /\ run.stage = "up"
    BY <1>1 DEF IInv, Makes
  <2>2. Api # None /\ Copy # None /\ Copy.finalizer
    BY <2>1 DEF Reconciling, TypeOK
  <2> QED
    BY <2>1, <2>2, Shapes DEF History, Finalized, Copy, Api
<1>2. IInv /\ [Next]_vars => [Under]_vars
  BY <1>1
<1>3. Init => IInv
  BY Initially
<1>4. IInv /\ [Next]_vars => IInv'
  BY Inductive
<1> QED
  BY <1>2, <1>3, <1>4, PTL DEF Spec, MadeUnderFinalizer

------------------------------------------------------------------------------
(* The controller implements ReplicaLifecycle *)

\* A set that is being deleted has its finalizer.
Held == Api # None /\ Api.deleting => Api.finalizer

LEMMA HeldKept ==
    ASSUME TypeOK, Held, SetStep
    PROVE  Held'
<1>1. CASE versions' = versions
  BY <1>1 DEF Held, Api
<1>2. ASSUME NEW x, Lawful(x) PROVE Held'
  <2>1. Api' = x /\ Api # None
    BY <1>2, SetWritten, Shapes DEF Lawful, Api
  <2> QED
    BY <1>2, <2>1 DEF Held, Lawful
<1> QED
  BY <1>1, <1>2 DEF SetStep

\* A version that is added to the set asks for its machines, and can spare the others.
LEMMA SetWrites ==
    ASSUME TypeOK, Made, NEW x, Lawful(x)
    PROVE  /\ Status' = Status /\ Api' = x
           /\ x # None => /\ Asked' = Asked \cup {i \in Indices : i < x.replicas}
                          /\ Spare' = Spare \cup {i \in Indices : x.replicas <= i /\ Live[i] # None}
           /\ x = None \/ x.replicas = Api.replicas => Asked' = Asked /\ Spare' = Spare
<1> DEFINE L == Len(versions)
<1>1. /\ Len(versions') = L + 1 /\ L \in Nat /\ L >= 1 /\ versions'[L + 1] = x
      /\ \A v \in 1..L : versions'[v] = versions[v]
      /\ log' = log /\ Api = versions[L] /\ Api # None
  BY SetWritten, Shapes DEF Lawful, Api
<1>2. Live' = Live /\ Status' = Status /\ Api' = x
  BY <1>1 DEF Live, Status, Api
<1>3. ASSUME NEW i \in Indices
      PROVE  i \in Asked' <=> i \in Asked \/ (x # None /\ i < x.replicas)
  BY <1>1 DEF Asked
<1>4. ASSUME NEW i \in Indices, Live[i] # None PROVE Live[i].made \in 1..L /\ i < versions[Live[i].made].replicas
  BY <1>4, Shapes DEF Made, Live
<1>5. ASSUME NEW i \in Indices
      PROVE  i \in Spare' <=> i \in Spare \/ (x # None /\ Live[i] # None /\ x.replicas <= i)
  BY <1>1, <1>2, <1>4 DEF Spare
<1>6. ASSUME x # None
      PROVE  /\ Asked' = Asked \cup {i \in Indices : i < x.replicas}
             /\ Spare' = Spare \cup {i \in Indices : x.replicas <= i /\ Live[i] # None}
  <2>1. Asked \subseteq Indices /\ Asked' \subseteq Indices /\ Spare \subseteq Indices /\ Spare' \subseteq Indices
    BY DEF Asked, Spare
  <2> QED
    BY <1>3, <1>5, <1>6, <2>1
<1>7. ASSUME x = None \/ x.replicas = Api.replicas PROVE Asked' = Asked /\ Spare' = Spare
  <2>1. Asked \subseteq Indices /\ Asked' \subseteq Indices /\ Spare \subseteq Indices /\ Spare' \subseteq Indices
    BY DEF Asked, Spare
  <2>2. ASSUME NEW i \in Indices, x # None, i < x.replicas PROVE i \in Asked
    BY <1>1, <1>7, <2>2 DEF Asked
  <2>3. ASSUME NEW i \in Indices, x # None, Live[i] # None, x.replicas <= i PROVE i \in Spare
    <3>1. Live[i].made \in 1..L /\ i < versions[Live[i].made].replicas /\ versions[L].replicas <= i
      BY <1>1, <1>4, <1>7, <2>3
    <3>2. \A v \in 1..L : versions[v] # None => versions[v].replicas \in Nat
      BY Shapes, VirtualMachineSetAssumption DEF Versions
    <3>3. versions[Live[i].made] # None
      BY <2>3, Shapes DEF Made, Live
    <3>4. i \in Nat /\ Live[i].made # L
      BY <1>1, <3>1, <3>2, <3>3, Shapes
    <3>5. L \in (Live[i].made + 1)..L
      BY <1>1, <3>1, <3>4
    <3> QED
      BY <1>1, <2>3, <3>1, <3>5 DEF Spare
  <2> QED
    BY <1>3, <1>5, <2>1, <2>2, <2>3
<1> QED
  BY <1>2, <1>6, <1>7

\* A state that is written to a machine is seen at that machine only.
LEMMA MachineWrites ==
    ASSUME TypeOK, NEW i \in Indices, NEW x \in Machines \cup {None}, WriteMachine(i, x)
    PROVE  /\ Phase' = Phase /\ Asked' = Asked
           /\ Status' = [Status EXCEPT ![i] = State(x)]
           /\ Live[i] = None => Spare' \in {Spare, Spare \cup {i}}
           /\ x = None => Spare' = Spare \ {i}
           /\ x # None /\ Live[i] # None /\ x.made = Live[i].made => Spare' = Spare
<1>1. /\ Live' \in [Indices -> Machines \cup {None}] /\ versions' = versions
      /\ \A j \in Indices : Live'[j] = IF j = i THEN x ELSE Live[j]
  BY MachineWritten, Shapes DEF Live
<1>2. Phase' = Phase /\ Asked' = Asked
  BY <1>1 DEF Phase, Api, Asked
<1>3. Status' = [Status EXCEPT ![i] = State(x)]
  BY <1>1, Shapes DEF Status
<1>4. ASSUME NEW j \in Indices, j # i PROVE j \in Spare' <=> j \in Spare
  BY <1>1, <1>4 DEF Spare
<1>5. Spare \subseteq Indices /\ Spare' \subseteq Indices
  BY DEF Spare
<1>6. Live[i] = None => i \notin Spare
  BY DEF Spare
<1>7. x = None => i \notin Spare'
  BY <1>1 DEF Spare
<1>8. x # None /\ Live[i] # None /\ x.made = Live[i].made => (i \in Spare' <=> i \in Spare)
  BY <1>1 DEF Spare
<1>9. Live[i] = None => Spare' \in {Spare, Spare \cup {i}}
  <2>1. CASE i \in Spare'
    BY <1>4, <1>5, <2>1
  <2>2. CASE i \notin Spare' /\ Live[i] = None
    BY <1>4, <1>5, <1>6, <2>2
  <2> QED
    BY <2>1, <2>2
<1> QED
  BY <1>2, <1>3, <1>4, <1>5, <1>7, <1>8, <1>9

\* Every step is one of ReplicaLifecycle's, or one that it does not see.
LEMMA Implements ==
    ASSUME IInv, Held, [Next]_vars
    PROVE  [Replicas!Next]_(Replicas!vars)
<1> DEFINE Goal == [Replicas!Next]_(Replicas!vars)
<1> USE Shapes
<1>1. TypeOK /\ History /\ Made /\ Reconciling /\ turns \in Nat
  BY DEF IInv, TypeOK
\* The kinds of step, one after the other.
<1>2. ASSUME versions' = versions, Live' = Live, turns' \in {turns, turns + 1} PROVE Goal
  <2>1. Phase' = Phase /\ Status' = Status /\ Asked' = Asked /\ Spare' = Spare
    BY <1>2 DEF Phase, Api, Status, Asked, Spare
  <2>2. CASE turns' = turns
    BY <2>1, <2>2 DEF Replicas!vars
  <2>3. CASE turns' = turns + 1
    BY <2>1, <2>3 DEF Replicas!Next, Replicas!Fail
  <2> QED
    BY <1>2, <2>2, <2>3
<1>3. ASSUME NEW x, Lawful(x), turns' = turns, x = None \/ x.replicas = Api.replicas,
             \/ Phase' = Phase
             \/ Phase = "bare" /\ Phase' = "held"
             \/ Phase = "held" /\ Phase' = "leaving"
             \/ Phase \in {"bare", "leaving"} /\ Phase' = "none"
      PROVE  Goal
  <2>1. Status' = Status /\ Asked' = Asked /\ Spare' = Spare
    BY <1>1, <1>3, SetWrites
  <2>2. CASE Phase' = Phase
    BY <1>3, <2>1, <2>2 DEF Replicas!vars
  <2>3. CASE Phase = "bare" /\ Phase' = "held"
    BY <1>3, <2>1, <2>3 DEF Replicas!Next, Replicas!Hold
  <2>4. CASE Phase = "held" /\ Phase' = "leaving"
    BY <1>3, <2>1, <2>4 DEF Replicas!Next, Replicas!Leave
  <2>5. CASE Phase \in {"bare", "leaving"} /\ Phase' = "none"
    BY <1>3, <2>1, <2>5 DEF Replicas!Next, Replicas!Go
  <2> QED
    BY <1>3, <2>2, <2>3, <2>4, <2>5
<1>4. ASSUME NEW i \in Indices, Live[i] # None, ~Live[i].deleting,
             WriteMachine(i, [Live[i] EXCEPT !.deleting = TRUE])
      PROVE  /\ Phase' = Phase /\ Asked' = Asked /\ Spare' = Spare
             /\ Status[i] = "there" /\ Status' = [Status EXCEPT ![i] = "going"]
  <2>1. [Live[i] EXCEPT !.deleting = TRUE] \in Machines /\ Live[i] \in Machines
    BY <1>1, <1>4 DEF Machines
  <2>2. [Live[i] EXCEPT !.deleting = TRUE] # None
    BY <2>1, NoneIsNoMachine
  <2> DEFINE y == [Live[i] EXCEPT !.deleting = TRUE]
  <2>3. State(y) = "going" /\ Status[i] = "there" /\ y.made = Live[i].made
    BY <1>4, <2>1, <2>2 DEF State, Status, Machines
  <2>4. WriteMachine(i, y) /\ y \in Machines \cup {None} /\ y # None
    BY <1>4, <2>1, <2>2
  <2> HIDE DEF y
  <2> QED
    BY <1>1, <1>4, <2>3, <2>4, MachineWrites
<1>5. ASSUME NEW i \in Indices, Live[i] # None, Delete(i), turns' = turns,
             Phase \in {"leaving", "none"} \/ (Phase = "held" /\ i \in Spare)
      PROVE  Goal
  <2>1. CASE Live[i].deleting
    BY <1>2, <1>5, <2>1 DEF Delete, NoWrite, Live
  <2>2. CASE ~Live[i].deleting
    <3>1. WriteMachine(i, [Live[i] EXCEPT !.deleting = TRUE])
      BY <1>5, <2>2 DEF Delete
    <3>2. Replicas!GiveUp(i)
      BY <1>4, <1>5, <2>2, <3>1 DEF Replicas!GiveUp
    <3> QED
      BY <3>2 DEF Replicas!Next
  <2> QED
    BY <2>1, <2>2
\* The actions.
<1>6. CASE UserEdit
  <2>1. PICK x : Lawful(x) /\ x # None /\ (x.replicas = Api.replicas \/ x.replicas \in 0..MaxReplicas)
                 /\ x.finalizer = Api.finalizer /\ x.deleting = Api.deleting
    <3>1. Api \in Versions /\ Api # None
      BY <1>1, <1>6 DEF UserEdit
    <3>2. ASSUME NEW n \in 0..MaxReplicas, WriteSet([Api EXCEPT !.replicas = n])
          PROVE  \E x : Lawful(x) /\ x # None /\ (x.replicas = Api.replicas \/ x.replicas \in 0..MaxReplicas)
                        /\ x.finalizer = Api.finalizer /\ x.deleting = Api.deleting
      <4>1. [Api EXCEPT !.replicas = n] \in Versions
        BY <3>1 DEF Versions
      <4> QED
        BY <3>1, <3>2, <4>1, NoneIsNoVersion DEF Lawful, Versions
    <3>3. ASSUME NEW t \in Templates, WriteSet([Api EXCEPT !.template = t])
          PROVE  \E x : Lawful(x) /\ x # None /\ (x.replicas = Api.replicas \/ x.replicas \in 0..MaxReplicas)
                        /\ x.finalizer = Api.finalizer /\ x.deleting = Api.deleting
      <4>1. [Api EXCEPT !.template = t] \in Versions
        BY <3>1 DEF Versions
      <4> QED
        BY <3>1, <3>3, <4>1, NoneIsNoVersion DEF Lawful, Versions
    <3> QED
      BY <1>6, <3>2, <3>3, Zenon DEF UserEdit
  <2> DEFINE S == {i \in Indices : i < x.replicas}
  <2>2. /\ Status' = Status /\ Api' = x
        /\ Asked' = Asked \cup S
        /\ Spare' = Spare \cup {i \in Indices : x.replicas <= i /\ Live[i] # None}
    BY <1>1, <2>1, SetWrites
  <2>3. Phase' = Phase /\ Phase # "none"
    BY <2>1, <2>2 DEF Phase, Lawful
  <2>4. Api \in Versions /\ x.replicas \in Nat
    BY <1>1, <2>1, VirtualMachineSetAssumption DEF Lawful, Versions
  <2>5. {i \in Indices : x.replicas <= i /\ Live[i] # None} = {i \in Indices \ S : Status[i] # "none"}
    BY <2>4 DEF Status, State
  <2>6. turns' = turns + 1
    BY <1>6 DEF UserEdit
  <2>7. Replicas!Ask(S)
    BY <2>2, <2>3, <2>5, <2>6 DEF Replicas!Ask
  <2> QED
    BY <2>7 DEF Replicas!Next
<1>7. CASE UserDelete
  <2>1. Api \in Versions /\ Api # None /\ ~Api.deleting /\ turns' = turns
        /\ WriteSet(IF Api.finalizer THEN [Api EXCEPT !.deleting = TRUE] ELSE None)
    BY <1>1, <1>7 DEF UserDelete
  <2>2. CASE Api.finalizer
    <3> DEFINE x == [Api EXCEPT !.deleting = TRUE]
    <3>1. x \in Versions /\ x # None /\ x.replicas = Api.replicas /\ x.finalizer /\ x.deleting
      BY <2>1, <2>2, NoneIsNoVersion DEF Versions
    <3>2. Lawful(x)
      BY <2>1, <2>2, <3>1 DEF Lawful
    <3> HIDE DEF x
    <3>3. Phase = "held" /\ Phase' = "leaving"
      BY <1>1, <2>1, <2>2, <3>1, <3>2, SetWrites DEF Phase
    <3> QED
      BY <1>3, <2>1, <3>1, <3>2, <3>3
  <2>3. CASE ~Api.finalizer
    <3>1. Lawful(None)
      BY <2>1, <2>3 DEF Lawful
    <3>2. Phase = "bare" /\ Phase' = "none"
      BY <1>1, <2>1, <2>3, <3>1, SetWrites DEF Phase
    <3> QED
      BY <1>3, <2>1, <3>1, <3>2
  <2> QED
    BY <2>2, <2>3
<1>8. ASSUME NEW i \in Indices, UserDeletesMachine(i) PROVE Goal
  <2>1. Replicas!Dismiss(i)
    BY <1>4, <1>8 DEF UserDeletesMachine, Replicas!Dismiss
  <2> QED
    BY <2>1 DEF Replicas!Next
<1>9. ASSUME NEW i \in Indices, Finalize(i) PROVE Goal
  <2>1. Status[i] = "going" /\ State(None) = "none"
    BY <1>9 DEF Finalize, Status, State
  <2>2. Replicas!Finish(i)
    BY <1>1, <1>9, <2>1, MachineWrites DEF Finalize, Replicas!Finish
  <2> QED
    BY <2>2 DEF Replicas!Next
<1>10. ASSUME NEW i \in Indices, Collect(i) PROVE Goal
  <2>1. Phase = "none"
    BY <1>10 DEF Collect, Phase
  <2>2. Replicas!GiveUp(i)
    BY <1>4, <1>10, <2>1 DEF Collect, Replicas!GiveUp
  <2> QED
    BY <2>2 DEF Replicas!Next
<1>11. CASE DeliverMachine
  <2>1. log' = Tail(log) /\ Len(log) > 1 /\ log \in Seq([Indices -> Machines \cup {None}])
    BY <1>1, <1>11 DEF DeliverMachine, TypeOK
  <2>2. Live' = Live
    BY <2>1 DEF Live
  <2> QED
    BY <1>2, <1>11, <2>2 DEF DeliverMachine
<1>12. CASE DeliverSet \/ Get \/ List \/ Scale \/ ReconcileError \/ UNCHANGED vars
  BY <1>2, <1>12 DEF DeliverSet, Get, List, Scale, ReconcileError, NoWrite, Live, vars
<1>13. CASE Restart
  <2>1. Live' = Live
    BY <1>13 DEF Restart, Live
  <2> QED
    BY <1>2, <1>13, <2>1 DEF Restart
<1>14. CASE HandleFinalizer
  <2>1. CASE NoWrite
    BY <1>2, <1>14, <2>1 DEF HandleFinalizer, NoWrite, Live
  <2>2. CASE WriteSet([Api EXCEPT !.finalizer = TRUE]) /\ Api # None /\ run.copy = Len(versions)
    <3> DEFINE x == [Api EXCEPT !.finalizer = TRUE]
    <3>1. ~Api.finalizer /\ ~Api.deleting /\ Api \in Versions
      BY <1>1, <1>14, <2>2 DEF HandleFinalizer, Reconciling, Copy, Api
    <3>2. x \in Versions /\ x # None /\ x.replicas = Api.replicas /\ x.finalizer /\ ~x.deleting
      BY <3>1, NoneIsNoVersion DEF Versions
    <3>3. Lawful(x)
      BY <2>2, <3>1, <3>2 DEF Lawful
    <3>4. turns' = turns
      BY <1>14 DEF HandleFinalizer
    <3> HIDE DEF x
    <3>5. Phase = "bare" /\ Phase' = "held"
      BY <1>1, <2>2, <3>1, <3>2, <3>3, SetWrites DEF Phase
    <3> QED
      BY <1>3, <3>2, <3>3, <3>4, <3>5
  <2> QED
    BY <1>14, <2>1, <2>2 DEF HandleFinalizer
\* A status patch changes neither the finalizer nor the deletion.
<1>15. ASSUME NEW c \in Conditions, Condition(c), Api # None, Copy # None, turns' = turns PROVE Goal
  <2> DEFINE x == [Api EXCEPT !.conditions = Copy.conditions \cup {c}]
  <2>0. Api \in Versions /\ Copy \in Versions /\ Copy.conditions \cup {c} \in SUBSET Conditions
    <3>1. Api \in Versions /\ Copy \in Versions
      BY <1>1, <1>15
    <3> QED
      BY <3>1 DEF Versions
  <2>1. x \in Versions /\ x # None /\ x.replicas = Api.replicas /\ x.finalizer = Api.finalizer
        /\ x.deleting = Api.deleting
    BY <2>0, NoneIsNoVersion DEF Versions
  <2>2. CASE NoWrite
    BY <1>2, <1>15, <2>2 DEF NoWrite, Live
  <2>3. CASE WriteSet(x)
    <3>1. Lawful(x)
      BY <1>15, <2>1, <2>3 DEF Lawful
    <3> HIDE DEF x
    <3>2. Phase' = Phase
      BY <1>1, <1>15, <2>1, <3>1, SetWrites DEF Phase
    <3> QED
      BY <1>3, <1>15, <2>1, <3>1, <3>2
  <2> QED
    BY <1>15, <2>2, <2>3 DEF Condition
<1>16. CASE ScaleDown
  <2>1. run.stage = "down" /\ Copy # None /\ run.todo \subseteq Indices /\ turns' = turns
    BY <1>1, <1>16 DEF ScaleDown, TypeOK
  <2>2. CASE NoWrite
    BY <1>2, <2>1, <2>2 DEF NoWrite, Live
  <2>3. CASE Api # None /\ Condition("ScalingDown")
    BY <1>15, <2>1, <2>3 DEF Conditions
  <2>4. ASSUME NEW i \in run.todo, Live[i] # None, Delete(i) PROVE Goal
    <3>1. Phase \in {"held", "leaving"}
      BY <1>1, <2>1 DEF Reconciling, History, Finalized, Phase, Copy, Api
    <3>2. i \in Spare
      BY <2>1, <2>4, DownIsSpare
    <3> QED
      BY <1>5, <2>1, <2>4, <3>1, <3>2
  <2> QED
    BY <1>16, <2>2, <2>3, <2>4 DEF ScaleDown
<1>17. CASE ScaleUp
  <2>1. run.stage = "up" /\ Copy # None /\ run.todo \subseteq Indices /\ turns' = turns
    BY <1>1, <1>17 DEF ScaleUp, TypeOK
  <2>2. CASE NoWrite
    BY <1>2, <2>1, <2>2 DEF NoWrite, Live
  <2>3. ASSUME NEW i \in run.todo, Live[i] = None,
               WriteMachine(i, [template |-> Copy.template, deleting |-> FALSE, made |-> run.copy])
        PROVE  Goal
    <3> DEFINE x == [template |-> Copy.template, deleting |-> FALSE, made |-> run.copy]
    <3>1. Phase \in {"held", "leaving"}
      BY <1>1, <2>1 DEF Reconciling, History, Finalized, Phase, Copy, Api
    <3>2. x \in Machines /\ i \in Indices
      BY <1>1, <2>1, <2>3 DEF Machines, Versions
    <3>3. x # None /\ State(x) = "there" /\ Status[i] = "none"
      BY <2>3, <3>2, NoneIsNoMachine DEF State, Status
    <3>4. i \in Asked
      BY <1>1, <2>1, <3>2 DEF Reconciling, Asked, Copy
    <3>5. Replicas!Make(i)
      BY <1>1, <2>1, <2>3, <3>1, <3>2, <3>3, <3>4, MachineWrites DEF Replicas!Make
    <3> QED
      BY <3>2, <3>5 DEF Replicas!Next
  <2>4. ASSUME NEW i \in run.todo, Live[i] # None, WriteMachine(i, [Live[i] EXCEPT !.template = Copy.template])
        PROVE  Goal
    <3> DEFINE x == [Live[i] EXCEPT !.template = Copy.template]
    <3>1. x \in Machines /\ i \in Indices /\ x.made = Live[i].made /\ x.deleting = Live[i].deleting
      <4>1. i \in Indices /\ Live[i] \in Machines /\ Copy.template \in Templates
        BY <1>1, <2>1, <2>4 DEF Versions
      <4> QED
        BY <4>1 DEF Machines
    <3>2. x # None /\ State(x) = Status[i]
      BY <2>4, <3>1, NoneIsNoMachine DEF State, Status
    <3>3. Status' = [Status EXCEPT ![i] = Status[i]]
      BY <1>1, <2>4, <3>1, <3>2, MachineWrites
    <3>4. Status' = Status
      BY <3>1, <3>3 DEF Status
    <3>5. Phase' = Phase /\ Asked' = Asked /\ Spare' = Spare
      <4>1. WriteMachine(i, x) /\ x.made = Live[i].made /\ Live[i] # None
        BY <2>4, <3>1
      <4> HIDE DEF x
      <4> QED
        BY <1>1, <3>1, <3>2, <4>1, MachineWrites
    <3> QED
      BY <2>1, <3>4, <3>5 DEF Replicas!vars
  <2> QED
    BY <1>17, <2>2, <2>3, <2>4 DEF ScaleUp
<1>18. CASE MarkDeleting
  <2>1. run.stage = "mark" /\ Copy # None /\ turns' = turns
    BY <1>1, <1>18 DEF MarkDeleting, TypeOK
  <2>2. CASE NoWrite
    BY <1>2, <2>1, <2>2 DEF NoWrite, Live
  <2>3. CASE Api # None /\ Condition("Deleting")
    BY <1>15, <2>1, <2>3 DEF Conditions
  <2> QED
    BY <1>18, <2>2, <2>3 DEF MarkDeleting
<1>19. Reconciling /\ run.stage = "delete" => Phase \in {"leaving", "none"}
  BY <1>1 DEF Reconciling, History, Leaving, Held, Phase, Api
<1>20. CASE DeleteMachines
  <2>1. run.stage = "delete" /\ run.todo \subseteq Indices /\ turns' = turns
    BY <1>1, <1>20 DEF DeleteMachines, TypeOK
  <2>2. CASE NoWrite
    BY <1>2, <2>1, <2>2 DEF NoWrite, Live
  <2>3. ASSUME NEW i \in run.todo, Live[i] # None, Delete(i) PROVE Goal
    BY <1>1, <1>5, <1>19, <2>1, <2>3
  <2> QED
    BY <1>20, <2>2, <2>3 DEF DeleteMachines
<1>21. CASE RemoveFinalizer
  <2>1. run.stage = "delete" /\ Copy # None /\ turns' = turns
    BY <1>1, <1>21 DEF RemoveFinalizer, TypeOK
  <2>2. CASE NoWrite
    BY <1>2, <2>1, <2>2 DEF NoWrite, Live
  <2>3. CASE run.copy = Len(versions) /\ WriteSet(None)
    <3>1. Lawful(None) /\ Phase # "none"
      BY <2>1, <2>3 DEF Lawful, Copy, Api, Phase
    <3>2. Phase' = "none"
      BY <1>1, <3>1, SetWrites DEF Phase
    <3> QED
      BY <1>1, <1>3, <1>19, <2>1, <3>1, <3>2
  <2>4. NoWrite \/ (run.copy = Len(versions) /\ WriteSet(None))
    BY <1>21, Zenon DEF RemoveFinalizer
  <2> QED
    BY <2>2, <2>3, <2>4
<1> QED
  BY <1>6, <1>7, <1>8, <1>9, <1>10, <1>11, <1>12, <1>13, <1>14, <1>16, <1>17, <1>18, <1>20, <1>21
     DEF Next, Reconcile

\* The VirtualMachineSet controller implements ReplicaLifecycle, for any number of replicas,
\* versions and events in flight.
THEOREM ReplicasKept == Spec => KeepsReplicas
<1>1. ASSUME Init PROVE Replicas!Init /\ Held
  <2>1. PICK x \in [replicas: 0..MaxReplicas, template: Templates, disabled: BOOLEAN,
                    deleting: {FALSE}, finalizer: {FALSE}, conditions: {{}}] : versions = <<x>>
    BY <1>1 DEF Init
  <2>2. Api = x /\ ~x.finalizer /\ ~x.deleting /\ x # None
    <3>1. x \in Versions
      BY <2>1 DEF Versions
    <3> QED
      BY <2>1, <3>1, NoneIsNoVersion DEF Api
  <2>3. Phase = "bare" /\ Held
    BY <2>2 DEF Phase, Held
  <2>4. log = << [i \in Indices |-> None] >> /\ turns = 0
    BY <1>1 DEF Init
  <2>5. \A i \in Indices : Live[i] = None
    BY <2>4 DEF Live
  <2>6. Status = [i \in Indices |-> "none"] /\ Spare = {} /\ Asked \subseteq Indices
    BY <2>5 DEF Status, State, Spare, Asked
  <2> QED
    BY <2>3, <2>4, <2>6 DEF Replicas!Init
<1>2. ASSUME IInv, Held, [Next]_vars PROVE IInv' /\ Held'
  BY <1>2, Inductive, HeldKept, SetSteps DEF IInv
<1>3. IInv /\ Held /\ [Next]_vars => [Replicas!Next]_(Replicas!vars)
  BY Implements
<1>4. Init => IInv
  BY Initially
<1> QED
  BY <1>1, <1>2, <1>3, <1>4, PTL DEF Spec, KeepsReplicas, Replicas!Spec
=============================================================================
