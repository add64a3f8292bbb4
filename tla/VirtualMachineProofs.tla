------------------------- MODULE VirtualMachineProofs -------------------------
(* For any settings, VMIDs, faults and interleavings of one VirtualMachine with its users, the *)
(* watcher and Proxmox: the finalizer precedes the guest and, when a clone has the name that   *)
(* is looked for, there is one guest at most and it goes before its resource does, as long as  *)
(* no creation is left under way by the reconcile that asked for it.                           *)
EXTENDS VirtualMachine, FiniteSetTheorems, TLAPS

\* Past the finalizer, a resource that is deleted with its guest is there and has the finalizer.
Guarded ==
    pc \notin {"idle", "finalizer"} /\ copy.mode = "Reconcile"
    => obj # None /\ obj.finalizer /\ obj.mode = "Reconcile"

\* Only such a resource is reconciled towards its end.
Ending == pc \in {"mark", "stop", "delete", "unfinalize"} => copy.mode = "Reconcile"

IInv == TypeOK /\ Guarded /\ Ending

\* g is a map of guests with none of the operator's that is not there already, and none where one
\* is under way.
NoNewGuest(g) ==
    /\ g \in [Ids -> Guests \cup {None}]
    /\ \A i \in Ids : g[i] # None => guests[i] # None \/ making[i] = None
    /\ \A i \in Ids : g[i] # None /\ g[i].name # Foreign => guests[i] # None /\ guests[i].name # Foreign

------------------------------------------------------------------------------
(* What the calls and the helpers do *)

\* The assumption that None is no object, guest, snapshot or VMID, one by one.
LEMMA NoneIsApart ==
    /\ None \notin Objects /\ None \notin Guests /\ None \notin Snapshots /\ None \notin Ids
    /\ TemplateConfig \in Configs /\ Foreign \notin {SpecName, CloneName} /\ MaxFaults \in Nat
    /\ Ids \subseteq Nat /\ IsFiniteSet(Ids) /\ Kinds \subseteq AllKinds
BY VirtualMachineAssumption

\* Faults are counted and never forgotten.
LEMMA Faults ==
    ASSUME TypeOK
    PROVE  /\ \A k : Fault(k) => faults' \in 0..MaxFaults /\ k \in happened'
           /\ (NoFault \/ \E k : Fault(k)) => faults' \in 0..MaxFaults /\ happened \subseteq happened'
BY NoneIsApart DEF Fault, NoFault, TypeOK

\* A step of the reconcile keeps the copy until the reconcile is over.
Follows == copy' = IF pc' = "idle" THEN None ELSE copy
Flags == queue' \in BOOLEAN /\ watched' \in BOOLEAN

\* Where the reconcile is after each of the ways to leave a step.
LEMMA Ways ==
    ASSUME TypeOK
    PROVE  /\ \A s : Goto(s) => pc' = s /\ Follows /\ Flags
           /\ Return \/ Requeue \/ GiveUp => pc' = "idle" /\ Follows /\ Flags
<1>1. Return \/ Requeue \/ GiveUp => pc' = "idle" /\ Follows /\ Flags
  BY DEF Return, Requeue, GiveUp, Follows, Flags, TypeOK
<1>2. ASSUME NEW s, Goto(s) PROVE pc' = s /\ Follows /\ Flags
  <2>1. CASE s = "idle"
    BY <1>1, <1>2, <2>1 DEF Goto
  <2>2. CASE s # "idle"
    BY <1>2, <2>2 DEF Goto, Follows, Flags, TypeOK
  <2> QED
    BY <2>1, <2>2
<1> QED
  BY <1>1, <1>2

\* A call has its effect or none; the reconcile goes on only when it has.
LEMMA Calls ==
    ASSUME TypeOK, NEW g, NEW s, Call(g, s)
    PROVE  /\ guests' \in {guests, g}
           /\ pc' \in {s, "idle"}
           /\ pc' # "idle" => guests' = g
           /\ Follows /\ Flags
           /\ faults' \in 0..MaxFaults /\ happened \subseteq happened'
<1>1. CASE guests' = g /\ Goto(s) /\ NoFault
  BY <1>1, Ways, Faults
<1>2. CASE guests' \in {guests, g} /\ Requeue /\ Fault("error")
  BY <1>2, Ways, Faults
<1>3. CASE guests' \in {guests, g} /\ GiveUp /\ Fault("gave up")
  BY <1>3, Ways, Faults
<1> QED
  BY <1>1, <1>2, <1>3 DEF Call

\* What a guest that is already there becomes.
LEMMA Changes ==
    ASSUME TypeOK, NEW i \in Ids
    PROVE  /\ NoNewGuest(guests)
           /\ NoNewGuest([guests EXCEPT ![i] = None])
           /\ guests[i] # None =>
                /\ NoNewGuest(Started(i))
                /\ NoNewGuest([guests EXCEPT ![i].running = FALSE])
                /\ \A c \in Configs : NoNewGuest([guests EXCEPT ![i].config = c])
                /\ \A c \in Configs : NoNewGuest([guests EXCEPT ![i].config = c, ![i].active = c])
           /\ Free(i) => NoNewGuest([guests EXCEPT ![i] = [name |-> Foreign, config |-> TemplateConfig,
                                                          active |-> TemplateConfig, running |-> TRUE]])
<1> DEFINE x == guests[i]
<1>1. guests \in [Ids -> Guests \cup {None}]
  BY DEF TypeOK
<1>2. \A g \in Guests \cup {None} :
         (g = None \/ (g.name = Foreign /\ Free(i)) \/ (x # None /\ g.name = x.name)) => NoNewGuest([guests EXCEPT ![i] = g])
  BY <1>1 DEF NoNewGuest, Free
<1>3. NoNewGuest(guests)
  BY <1>1 DEF NoNewGuest
<1>4. ASSUME x # None PROVE x \in Guests
  BY <1>1, <1>4
<1>5. ASSUME x # None PROVE NoNewGuest(Started(i))
  <2> DEFINE y == [[x EXCEPT !.running = TRUE] EXCEPT !.active = x.config]
  <2>1. y \in Guests /\ y.name = x.name
    BY <1>4, <1>5 DEF Guests
  <2>2. Started(i) = [guests EXCEPT ![i] = y]
    BY <1>1 DEF Started
  <2> HIDE DEF y
  <2> QED
    BY <1>2, <1>5, <2>1, <2>2
<1>6. ASSUME x # None PROVE NoNewGuest([guests EXCEPT ![i].running = FALSE])
  <2> DEFINE y == [x EXCEPT !.running = FALSE]
  <2>1. y \in Guests /\ y.name = x.name
    BY <1>4, <1>6 DEF Guests
  <2>2. [guests EXCEPT ![i].running = FALSE] = [guests EXCEPT ![i] = y]
    BY <1>1
  <2> HIDE DEF y
  <2> QED
    BY <1>2, <1>6, <2>1, <2>2
<1>7. ASSUME x # None, NEW c \in Configs PROVE NoNewGuest([guests EXCEPT ![i].config = c])
  <2> DEFINE y == [x EXCEPT !.config = c]
  <2>1. y \in Guests /\ y.name = x.name
    BY <1>4, <1>7 DEF Guests
  <2>2. [guests EXCEPT ![i].config = c] = [guests EXCEPT ![i] = y]
    BY <1>1
  <2> HIDE DEF y
  <2> QED
    BY <1>2, <1>7, <2>1, <2>2
<1>8. ASSUME x # None, NEW c \in Configs PROVE NoNewGuest([guests EXCEPT ![i].config = c, ![i].active = c])
  <2> DEFINE y == [[x EXCEPT !.config = c] EXCEPT !.active = c]
  <2>1. y \in Guests /\ y.name = x.name
    BY <1>4, <1>8 DEF Guests
  <2>2. [guests EXCEPT ![i].config = c, ![i].active = c] = [guests EXCEPT ![i] = y]
    BY <1>1
  <2> HIDE DEF y
  <2> QED
    BY <1>2, <1>8, <2>1, <2>2
<1>9. NoNewGuest([guests EXCEPT ![i] = None])
  BY <1>2
<1>10. ASSUME Free(i)
       PROVE  NoNewGuest([guests EXCEPT ![i] = [name |-> Foreign, config |-> TemplateConfig,
                                                active |-> TemplateConfig, running |-> TRUE]])
  <2> DEFINE y == [name |-> Foreign, config |-> TemplateConfig, active |-> TemplateConfig, running |-> TRUE]
  <2>1. y \in Guests /\ y.name = Foreign
    BY NoneIsApart DEF Guests
  <2> HIDE DEF y
  <2>2. NoNewGuest([guests EXCEPT ![i] = y])
    BY <1>2, <1>10, <2>1
  <2> QED
    BY <2>2 DEF y
<1> QED
  BY <1>3, <1>5, <1>6, <1>7, <1>8, <1>9, <1>10

\* A creation starts, at one VMID that is free, or it does not.
LEMMA Creation ==
    ASSUME TypeOK, CreateVM
    PROVE  /\ pc = "create" /\ UNCHANGED <<obj, guests, cachedId, cachedVM>>
           /\ \E i \in Ids :
                /\ Free(i)
                /\ \/ making' = [making EXCEPT ![i] = NewGuest] /\ target' = i /\ pc' = "await" /\ astray' = astray
                   \/ making' = making /\ target' = target /\ pc' = "idle" /\ astray' = astray
                   \/ making' = [making EXCEPT ![i] = NewGuest] /\ target' = target /\ pc' = "idle" /\ astray' = TRUE
           /\ NewGuest \in Guests
           /\ Follows /\ Flags
           /\ faults' \in 0..MaxFaults /\ happened \subseteq happened'
<1>1. copy \in Objects
  BY DEF TypeOK, CreateVM
<1>2. NewGuest \in Guests
  BY <1>1, NoneIsApart DEF NewGuest, Guests, Objects
<1>3. PICK i \in Ids : /\ NextId(i)
                       /\ LET started == [making EXCEPT ![i] = NewGuest] IN
                           \/ making' = started /\ target' = i /\ Goto("await") /\ NoFault /\ UNCHANGED astray
                           \/ UNCHANGED <<creations, target>> /\ Requeue /\ Fault("error")
                           \/ making' = started /\ astray' = TRUE /\ UNCHANGED target /\ Requeue /\ Fault("error")
  BY DEF CreateVM
<1>4. pc = "create" /\ UNCHANGED <<obj, guests, cachedId, cachedVM>>
  BY DEF CreateVM, cache
<1>5. Free(i)
  BY <1>3 DEF NextId
<1>6. CASE making' = [making EXCEPT ![i] = NewGuest] /\ target' = i /\ Goto("await") /\ NoFault /\ UNCHANGED astray
  BY <1>2, <1>4, <1>5, <1>6, Ways, Faults
<1>7. CASE UNCHANGED <<creations, target>> /\ Requeue /\ Fault("error")
  <2>1. making' = making /\ target' = target /\ astray' = astray
    BY <1>7 DEF creations
  <2> QED
    BY <1>2, <1>4, <1>5, <1>7, <2>1, Ways, Faults
<1>8. CASE /\ making' = [making EXCEPT ![i] = NewGuest] /\ astray' = TRUE /\ UNCHANGED target
           /\ Requeue /\ Fault("error")
  BY <1>2, <1>4, <1>5, <1>8, Ways, Faults
<1> QED
  BY <1>3, <1>6, <1>7, <1>8

\* The wait ends with the task done, failed, or left under way.
LEMMA Waiting ==
    ASSUME TypeOK, AwaitVM
    PROVE  /\ pc = "await" /\ target \in Ids /\ UNCHANGED <<obj, guests, cachedVM>> /\ target' = None
           /\ \/ /\ target \notin Making /\ pc' = "start" /\ making' = making /\ astray' = astray
                 /\ cachedId' = IF NewGuest.name = SpecName THEN target ELSE cachedId
              \/ /\ pc' = "idle" /\ cachedId' = cachedId
                 /\ making' \in {making, [making EXCEPT ![target] = None]}
                 /\ astray' = (astray \/ making'[target] # None)
           /\ Follows /\ Flags
           /\ faults' \in 0..MaxFaults /\ happened \subseteq happened'
<1>1. pc = "await" /\ target \in Ids /\ UNCHANGED <<obj, guests, cachedVM>> /\ target' = None
  BY DEF AwaitVM, TypeOK
<1>2. CASE /\ target \notin Making
           /\ Goto("start") /\ NoFault
           /\ cachedId' = IF NewGuest.name = SpecName THEN target ELSE cachedId
           /\ UNCHANGED creations
  <2>1. making' = making /\ astray' = astray
    BY <1>2 DEF creations
  <2> HIDE DEF NewGuest
  <2> QED
    BY <1>1, <1>2, <2>1, Ways, Faults
<1>3. CASE /\ making' \in {making, [making EXCEPT ![target] = None]}
           /\ astray' = (astray \/ making'[target] # None)
           /\ \/ GiveUp /\ Fault("gave up")
              \/ copy.template /\ Requeue /\ Fault("error")
           /\ UNCHANGED cachedId
  <2>1. pc' = "idle" /\ Follows /\ Flags
    BY <1>3, Ways
  <2>2. faults' \in 0..MaxFaults /\ happened \subseteq happened'
    BY <1>3, Faults
  <2> QED
    BY <1>1, <1>3, <2>1, <2>2
<1> QED
  BY <1>2, <1>3 DEF AwaitVM

\* A creation ends, and the guest is listed or not.
LEMMA CreationOver ==
    ASSUME TypeOK, NEW i \in Ids, CreationEnds(i)
    PROVE  /\ i \in Making /\ making[i] \in Guests /\ guests[i] = None
           /\ making' = [making EXCEPT ![i] = None]
           /\ guests' = guests \/ guests' = [guests EXCEPT ![i] = making[i]]
           /\ UNCHANGED <<obj, queue, pc, copy, target, astray, cachedId, cachedVM, watched, faults, happened>>
BY DEF CreationEnds, TypeOK, Making, cache

\* The steps of a creation.
Creates == CreateVM \/ AwaitVM \/ \E i \in Ids : CreationEnds(i)

\* No other step makes a guest for the resource.
LEMMA GuestSteps ==
    ASSUME TypeOK, [Next]_vars, ~Creates
    PROVE  NoNewGuest(guests') /\ making' = making
<1> USE Changes
<1>1. \A i \in Ids : Destroyed(i) \/ Stopped(i) \/ Reconfigured(i) \/ ForeignCreated(i) => NoNewGuest(guests')
  <2>1. ASSUME NEW i \in Ids, Destroyed(i) PROVE NoNewGuest(guests')
    BY <2>1 DEF Destroyed
  <2>2. ASSUME NEW i \in Ids, Stopped(i) PROVE NoNewGuest(guests')
    BY <2>2 DEF Stopped
  <2>3. ASSUME NEW i \in Ids, Reconfigured(i) PROVE NoNewGuest(guests')
    BY <2>3 DEF Reconfigured
  <2>4. ASSUME NEW i \in Ids, ForeignCreated(i) PROVE NoNewGuest(guests')
    BY <2>4 DEF ForeignCreated, NextId
  <2> QED
    BY <2>1, <2>2, <2>3, <2>4
<1>2. NoNewGuest(guests)
  BY DEF NoNewGuest, TypeOK
<1>3. ASSUME NEW g, NEW s, Call(g, s), NoNewGuest(g) PROVE NoNewGuest(guests')
  <2>1. guests' = guests \/ guests' = g
    BY <1>3, Calls
  <2> QED
    BY <1>3, <1>2, <2>1
<1>4. ASSUME StartVM PROVE NoNewGuest(guests')
  <2>1. ASSUME UNCHANGED guests PROVE NoNewGuest(guests')
    BY <1>2, <2>1
  <2>2. ASSUME NEW i \in Ids, NEW s, guests[i] # None, Call(Started(i), s) PROVE NoNewGuest(guests')
    BY <1>3, <2>2
  <2> QED
    BY <1>4, <2>1, <2>2 DEF StartVM, Refused
<1>5. ASSUME UpdateVM PROVE NoNewGuest(guests')
  <2>1. ASSUME UNCHANGED guests PROVE NoNewGuest(guests')
    BY <1>2, <2>1
  <2>2. copy.config \in Configs
    BY <1>5 DEF UpdateVM, TypeOK, Objects
  <2>3. ASSUME NEW i \in Ids, NEW s, guests[i] # None, Call([guests EXCEPT ![i].config = copy.config], s)
        PROVE NoNewGuest(guests')
    BY <1>3, <2>2, <2>3
  <2> QED
    BY <1>5, <2>1, <2>3 DEF UpdateVM, Refused
<1>6. ASSUME Reboot PROVE NoNewGuest(guests')
  <2>1. ASSUME UNCHANGED guests PROVE NoNewGuest(guests')
    BY <1>2, <2>1
  <2>2. ASSUME NEW i \in Ids, NEW s, guests[i] # None, Call(Started(i), s) PROVE NoNewGuest(guests')
    BY <1>3, <2>2
  <2> QED
    BY <1>6, <2>1, <2>2 DEF Reboot, Refused
<1>7. ASSUME StopForDelete PROVE NoNewGuest(guests')
  <2>1. ASSUME UNCHANGED guests PROVE NoNewGuest(guests')
    BY <1>2, <2>1
  <2>2. ASSUME NEW i \in Ids, NEW s, guests[i] # None, Call([guests EXCEPT ![i].running = FALSE], s)
        PROVE NoNewGuest(guests')
    BY <1>3, <2>2
  <2> QED
    BY <1>7, <2>1, <2>2 DEF StopForDelete, Refused
<1>8. ASSUME DeleteVM PROVE NoNewGuest(guests')
  <2>1. guests' = guests \/ guests' = [guests EXCEPT ![target] = None]
    BY <1>8 DEF DeleteVM, Refused
  <2>2. target \in Ids
    BY <1>8 DEF DeleteVM, TypeOK
  <2> QED
    BY <1>2, <2>1, <2>2
<1>9. ASSUME UNCHANGED guests PROVE NoNewGuest(guests')
  BY <1>2, <1>9
<1>10. NoNewGuest(guests')
  BY <1>1, <1>4, <1>5, <1>6, <1>7, <1>8, <1>9
     DEF Next, Creates, Reconcile, UserCreate, UserEdit, UserDelete, Poll, Get, HandleFinalizer, CheckVM,
         HandleAutoStart, EnsureVMTag, MarkDeleting, RemoveFinalizer, ReconcileError, NewClient,
         Restart, vars
<1>11. making' = making
  BY DEF Next, Creates, Reconcile, UserCreate, UserEdit, UserDelete, Destroyed, Stopped, Reconfigured,
         ForeignCreated, Poll, Get, HandleFinalizer, CheckVM, StartVM, UpdateVM, Reboot, HandleAutoStart,
         EnsureVMTag, MarkDeleting, StopForDelete, DeleteVM, RemoveFinalizer, ReconcileError, NewClient,
         Restart, creations, vars
<1> QED
  BY <1>10, <1>11

\* What is under way and what is listed after any step.
LEMMA GuestTypes ==
    ASSUME TypeOK, [Next]_vars
    PROVE  /\ guests' \in [Ids -> Guests \cup {None}] /\ making' \in [Ids -> Guests \cup {None}]
           /\ \A i \in Ids : guests'[i] = None \/ making'[i] = None
<1>1. /\ guests \in [Ids -> Guests \cup {None}] /\ making \in [Ids -> Guests \cup {None}]
      /\ \A i \in Ids : guests[i] = None \/ making[i] = None
  BY DEF TypeOK
<1>2. CASE CreateVM
  <2>1. PICK i \in Ids : Free(i) /\ making' \in {making, [making EXCEPT ![i] = NewGuest]}
    BY <1>2, Creation
  <2>2. NewGuest \in Guests /\ guests' = guests /\ guests[i] = None
    BY <1>2, <2>1, Creation DEF Free
  <2> HIDE DEF NewGuest
  <2> QED
    BY <1>1, <2>1, <2>2
<1>3. CASE AwaitVM
  <2>1. guests' = guests /\ making' \in {making, [making EXCEPT ![target] = None]}
    BY <1>3, Waiting
  <2> QED
    BY <1>1, <2>1
<1>4. ASSUME NEW i \in Ids, CreationEnds(i)
      PROVE  /\ guests' \in [Ids -> Guests \cup {None}] /\ making' \in [Ids -> Guests \cup {None}]
             /\ \A j \in Ids : guests'[j] = None \/ making'[j] = None
  <2>1. /\ making[i] \in Guests /\ making' = [making EXCEPT ![i] = None]
        /\ guests' = guests \/ guests' = [guests EXCEPT ![i] = making[i]]
    BY <1>4, CreationOver
  <2> QED
    BY <1>1, <2>1
<1>5. CASE ~Creates
  <2>1. NoNewGuest(guests') /\ making' = making
    BY <1>5, GuestSteps
  <2> QED
    BY <1>1, <2>1 DEF NoNewGuest
<1> QED
  BY <1>2, <1>3, <1>4, <1>5 DEF Creates

\* Only the request for a creation adds to what the operator made.
LEMMA OwnShrinks ==
    ASSUME TypeOK, [Next]_vars, ~CreateVM
    PROVE  Own' \subseteq Own /\ Making' \subseteq Making
<1>1. /\ guests \in [Ids -> Guests \cup {None}] /\ making \in [Ids -> Guests \cup {None}]
  BY DEF TypeOK
<1>2. CASE AwaitVM
  <2>1. guests' = guests /\ making' \in {making, [making EXCEPT ![target] = None]}
    BY <1>2, Waiting
  <2>2. Making' \subseteq Making
    BY <1>1, <2>1 DEF Making
  <2> QED
    BY <2>1, <2>2 DEF Own
<1>3. ASSUME NEW i \in Ids, CreationEnds(i) PROVE Own' \subseteq Own /\ Making' \subseteq Making
  <2>1. /\ i \in Making /\ making' = [making EXCEPT ![i] = None]
        /\ guests' = guests \/ guests' = [guests EXCEPT ![i] = making[i]]
    BY <1>3, CreationOver
  <2>2. Making' \subseteq Making
    BY <1>1, <2>1 DEF Making
  <2>3. \A j \in Ids : guests'[j] = guests[j] \/ j = i
    BY <1>1, <2>1
  <2> QED
    BY <2>1, <2>2, <2>3 DEF Own
<1>4. CASE ~Creates
  <2>1. NoNewGuest(guests') /\ making' = making
    BY <1>4, GuestSteps
  <2> QED
    BY <2>1 DEF NoNewGuest, Own, Making
<1> QED
  BY <1>2, <1>3, <1>4 DEF Creates

\* Whatever the lookups find or the watcher fetches is a snapshot of a guest.
LEMMA LookUps ==
    ASSUME TypeOK, NEW i \in Ids, Found(i)
    PROVE  /\ cachedId \in {None, i}
           /\ cachedId = None => i \in Named
           /\ guests[i] # None => Fresh(guests[i]) \in Snapshots
           /\ LookUp(i) \/ LookUpAndPing(i) =>
                cachedId' = i /\ cachedVM' \in [Ids -> Snapshots \cup {None}]
<1>1. guests[i] # None => Fresh(guests[i]) \in Snapshots
  <2>1. guests[i] # None => /\ guests[i].config \in Configs /\ guests[i].active \in Configs
                            /\ guests[i].running \in BOOLEAN
    BY DEF TypeOK, Guests
  <2> QED
    BY <2>1 DEF Fresh, Snapshots
<1>2. cachedVM[i] = None => guests[i] # None
  BY DEF Found, Named
<1>3. Snapshot(i) \in Snapshots
  BY <1>1, <1>2 DEF Snapshot, TypeOK
<1>4. cachedVM \in [Ids -> Snapshots \cup {None}]
  BY DEF TypeOK
<1>5. LookUp(i) => cachedId' = i /\ cachedVM' \in [Ids -> Snapshots \cup {None}]
  BY <1>3, <1>4 DEF LookUp
<1>6. LookUpAndPing(i) => cachedId' = i /\ cachedVM' \in [Ids -> Snapshots \cup {None}]
  <2> HIDE DEF Fresh
  <2> QED
    BY <1>1, <1>4 DEF LookUpAndPing
<1> QED
  BY <1>1, <1>5, <1>6, NoneIsApart DEF Found

\* The cached VMID is forgotten, kept, or that of a guest found by its name.
LEMMA CacheSteps ==
    ASSUME TypeOK, [Next]_vars
    PROVE  /\ cachedId' \in Ids \cup {None}
           /\ cachedVM' \in [Ids -> Snapshots \cup {None}]
           /\ ~AwaitVM => cachedId' \in {None, cachedId} \/ (cachedId = None /\ cachedId' \in Named)
<1> DEFINE Goal == /\ cachedId' \in Ids \cup {None}
                   /\ cachedVM' \in [Ids -> Snapshots \cup {None}]
                   /\ ~AwaitVM => cachedId' \in {None, cachedId} \/ (cachedId = None /\ cachedId' \in Named)
<1>1. ASSUME NEW i \in Ids, LookUp(i) \/ LookUpAndPing(i) PROVE Goal
  <2>1. Found(i)
    BY <1>1 DEF LookUp, LookUpAndPing
  <2> QED
    BY <1>1, <2>1, LookUps
<1>2. CASE UNCHANGED cache
  BY <1>2 DEF cache, TypeOK
<1>3. CASE cachedId' = None /\ cachedVM' = [i \in Ids |-> None]
  BY <1>3
<1>4. CASE CheckVM
  <2>1. cachedVM' = cachedVM /\ (cachedId' \in {cachedId} \/ (cachedId = None /\ cachedId' \in Named))
    BY <1>4 DEF CheckVM
  <2> QED
    BY <2>1 DEF TypeOK, Named
<1>5. CASE AwaitVM
  <2>1. target \in Ids /\ cachedVM' = cachedVM /\ cachedId' \in {target, cachedId}
    BY <1>5, Waiting
  <2> QED
    BY <1>5, <2>1 DEF TypeOK
<1>6. CASE DeleteVM
  <2>1. UNCHANGED cache \/ (cachedId' = None /\ cachedVM' = [cachedVM EXCEPT ![target] = None])
    BY <1>6 DEF DeleteVM
  <2> QED
    BY <1>2, <2>1 DEF TypeOK
<1>7. CASE Poll
  <2>1. PICK i \in Ids : /\ Found(i) /\ guests[i] # None
                         /\ cachedId' = i /\ cachedVM' = [cachedVM EXCEPT ![i] = Fresh(guests[i])]
    BY <1>7 DEF Poll
  <2>2. Fresh(guests[i]) \in Snapshots /\ cachedId \in {None, i} /\ (cachedId = None => i \in Named)
    BY <2>1, LookUps
  <2> QED
    BY <2>1, <2>2 DEF TypeOK
<1>8. CASE StartVM \/ UpdateVM \/ Reboot \/ HandleAutoStart \/ EnsureVMTag \/ StopForDelete
  BY <1>1, <1>2, <1>8 DEF StartVM, UpdateVM, Reboot, HandleAutoStart, EnsureVMTag, StopForDelete
<1> QED
  BY <1>2, <1>3, <1>4, <1>5, <1>6, <1>7, <1>8
     DEF Next, Reconcile, UserCreate, UserEdit, UserDelete, Destroyed, Stopped, Reconfigured,
         ForeignCreated, CreationEnds, Get, HandleFinalizer, CreateVM, MarkDeleting, RemoveFinalizer, ReconcileError,
         NewClient, Restart, vars, cache

------------------------------------------------------------------------------
(* The resource, its reconcile, and the queue *)

\* What a write does to a resource.
LEMMA Writes ==
    ASSUME NEW o \in Objects, NEW p,
           (\E c \in Configs : p = [o EXCEPT !.config = c]) \/ p = [o EXCEPT !.protected = ~@]
           \/ p = [o EXCEPT !.deleting = TRUE] \/ p = [o EXCEPT !.marked = TRUE]
           \/ p = [o EXCEPT !.finalizer = TRUE]
    PROVE  /\ p \in Objects /\ p # None
           /\ p.mode = o.mode
           /\ o.finalizer => p.finalizer
           /\ p = [o EXCEPT !.finalizer = TRUE] => p.finalizer
<1>1. ASSUME NEW c \in Configs, p = [o EXCEPT !.config = c] PROVE p \in Objects /\ p.mode = o.mode /\ p.finalizer = o.finalizer
  BY <1>1 DEF Objects
<1>2. ASSUME p = [o EXCEPT !.protected = ~@] PROVE p \in Objects /\ p.mode = o.mode /\ p.finalizer = o.finalizer
  BY <1>2 DEF Objects
<1>3. ASSUME p = [o EXCEPT !.deleting = TRUE] PROVE p \in Objects /\ p.mode = o.mode /\ p.finalizer = o.finalizer
  BY <1>3 DEF Objects
<1>4. ASSUME p = [o EXCEPT !.marked = TRUE] PROVE p \in Objects /\ p.mode = o.mode /\ p.finalizer = o.finalizer
  BY <1>4 DEF Objects
<1>5. ASSUME p = [o EXCEPT !.finalizer = TRUE] PROVE p \in Objects /\ p.mode = o.mode /\ p.finalizer
  BY <1>5 DEF Objects
<1>6. p \in Objects /\ p.mode = o.mode
  BY <1>1, <1>2, <1>3, <1>4, <1>5
<1>7. o.finalizer => p.finalizer
  BY <1>1, <1>2, <1>3, <1>4, <1>5
<1> QED
  BY <1>5, <1>6, <1>7, NoneIsApart

\* Everything about the resource and its reconcile, after a step.
Resource ==
    /\ obj \in Objects \cup {None} /\ copy \in Objects \cup {None}
    /\ queue \in BOOLEAN /\ watched \in BOOLEAN
    /\ pc \in Stages
    /\ (pc = "idle") = (copy = None)
    /\ target \in Ids \cup {None}
    /\ pc \in {"delete", "await"} => target # None
    /\ astray \in BOOLEAN
    /\ faults \in 0..MaxFaults
    /\ Guarded /\ Ending

\* Users write to the resource but never take its finalizer, and nobody else does while it is
\* reconciled.
LEMMA UsersKeep ==
    ASSUME IInv, UserCreate \/ UserEdit \/ UserDelete
    PROVE  Resource'
<1>1. IInv /\ TypeOK /\ Resource
  BY DEF IInv, TypeOK, Resource
<1>2. UNCHANGED <<pc, copy, target, astray, faults>> /\ queue' = TRUE /\ watched' = TRUE
  BY DEF UserCreate, UserEdit, UserDelete, creations
<1>3. obj' \in Objects \cup {None}
      /\ (obj # None /\ obj.finalizer /\ obj.mode = "Reconcile"
          => obj' # None /\ obj'.finalizer /\ obj'.mode = "Reconcile")
  <2>1. CASE UserCreate
    <3>1. PICK c \in Configs, k \in AllKinds :
            obj' = [config |-> c, template |-> k.template, autostart |-> k.autostart, mode |-> k.mode,
                    protected |-> FALSE, deleting |-> FALSE, finalizer |-> FALSE, marked |-> FALSE]
      BY <2>1, NoneIsApart DEF UserCreate
    <3>2. obj = None
      BY <2>1 DEF UserCreate
    <3> QED
      BY <3>1, <3>2 DEF AllKinds, Objects
  <2>2. CASE UserEdit
    <3>1. obj \in Objects
      BY <1>1, <2>2 DEF Resource, UserEdit
    <3>2. (\E c \in Configs : obj' = [obj EXCEPT !.config = c]) \/ obj' = [obj EXCEPT !.protected = ~@]
      BY <2>2 DEF UserEdit
    <3>3. obj' \in Objects /\ obj' # None /\ obj'.mode = obj.mode /\ (obj.finalizer => obj'.finalizer)
      BY <3>1, <3>2, Writes
    <3> QED
      BY <3>3
  <2>3. CASE UserDelete
    <3>1. obj \in Objects
      BY <1>1, <2>3 DEF Resource, UserDelete
    <3>2. obj' = IF obj.finalizer THEN [obj EXCEPT !.deleting = TRUE] ELSE None
      BY <2>3 DEF UserDelete
    <3>3. CASE obj' = [obj EXCEPT !.deleting = TRUE]
      <4>1. obj' \in Objects /\ obj' # None /\ obj'.mode = obj.mode /\ (obj.finalizer => obj'.finalizer)
        BY <3>1, <3>3, Writes
      <4> QED
        BY <4>1
    <3> QED
      BY <3>2, <3>3
  <2> QED
    BY <2>1, <2>2, <2>3
<1> QED
  BY <1>1, <1>2, <1>3 DEF Resource, Guarded, Ending, creations

EndStages == {"mark", "stop", "delete", "unfinalize"}

\* The steps that leave the resource alone only move the reconcile.
LEMMA Moves ==
    ASSUME IInv, UNCHANGED obj, Follows, Flags,
           pc' \in {"idle", pc} \/ (pc \notin {"idle", "finalizer"} /\ pc' \in Stages \ ({"finalizer"} \cup EndStages))
           \/ (pc \in EndStages /\ pc' \in EndStages),
           target' \in Ids \cup {None}, pc' \in {"delete", "await"} => target' # None,
           astray' \in BOOLEAN, faults' \in 0..MaxFaults
    PROVE  Resource'
<1>1. pc' \in Stages /\ (pc' # "idle" => pc # "idle")
  BY DEF IInv, TypeOK, Stages, EndStages
<1>2. pc' \notin {"idle", "finalizer"} => pc \notin {"idle", "finalizer"}
  BY DEF EndStages
<1>3. pc' \in EndStages => pc \in EndStages
  BY DEF EndStages
<1> QED
  BY <1>1, <1>2, <1>3 DEF IInv, TypeOK, Follows, Flags, Resource, Guarded, Ending, EndStages

\* What Proxmox, its other users, the watcher and failures do leaves the resource alone.
LEMMA SurroundingsKeep ==
    ASSUME IInv,
           (\E i \in Ids : Destroyed(i) \/ Stopped(i) \/ Reconfigured(i) \/ ForeignCreated(i)
                           \/ CreationEnds(i))
           \/ Poll \/ ReconcileError \/ NewClient \/ Restart \/ UNCHANGED vars
    PROVE  Resource'
<1>1. TypeOK
  BY DEF IInv
<1>2. obj' = obj /\ (UNCHANGED <<pc, copy, target>> \/ (pc' = "idle" /\ copy' = None /\ target' = None))
  BY DEF Destroyed, Stopped, Reconfigured, ForeignCreated, CreationEnds, Poll, ReconcileError, Requeue,
         NewClient, Restart, vars
<1>3. faults' \in 0..MaxFaults
  <2>1. (\E k : Fault(k)) \/ UNCHANGED <<faults, happened>>
    BY DEF Destroyed, Stopped, Reconfigured, ForeignCreated, CreationEnds, Poll, ReconcileError,
           NewClient, Restart, vars
  <2> QED
    BY <1>1, <2>1, Faults DEF NoFault
<1>4. Flags
  <2>1. CASE Poll
    <3>1. watched' = watched
      BY <2>1 DEF Poll
    <3>2. PICK i \in Ids : queue' = (queue \/ (obj.mode = "Reconcile" /\ guests[i].config # obj.config))
      BY <2>1 DEF Poll
    <3>3. queue' \in BOOLEAN
      BY <3>2, Zenon
    <3> QED
      BY <1>1, <3>1, <3>3 DEF TypeOK, Flags
  <2>2. CASE Restart
    BY <2>2 DEF Restart, Flags
  <2>3. CASE ReconcileError
    BY <1>1, <2>3, Ways DEF ReconcileError
  <2>4. CASE ~Poll /\ ~Restart /\ ~ReconcileError
    BY <1>1, <2>4
       DEF Flags, TypeOK, Destroyed, Stopped, Reconfigured, ForeignCreated, CreationEnds, NewClient, vars
  <2> QED
    BY <2>1, <2>2, <2>3, <2>4
<1>5. astray' \in BOOLEAN
  <2>1. CASE Restart
    <3>1. astray' = (astray \/ Making # {})
      BY <2>1 DEF Restart
    <3> QED
      BY <3>1, Zenon
  <2>2. CASE ~Restart
    BY <1>1, <2>2
       DEF TypeOK, Destroyed, Stopped, Reconfigured, ForeignCreated, CreationEnds, Poll, ReconcileError,
           NewClient, creations, vars
  <2> QED
    BY <2>1, <2>2
<1>6. Follows
  BY <1>1, <1>2 DEF Follows, TypeOK
<1>7. target' \in Ids \cup {None} /\ (pc' \in {"delete", "await"} => target' # None)
  BY <1>1, <1>2 DEF TypeOK
<1> QED
  BY <1>2, <1>3, <1>4, <1>5, <1>6, <1>7, Moves

\* From the finalizer to the end of a reconcile that does not delete.
LEMMA ReconcileKeeps ==
    ASSUME IInv, Get \/ HandleFinalizer \/ CheckVM \/ CreateVM \/ AwaitVM \/ StartVM \/ UpdateVM
                 \/ Reboot \/ HandleAutoStart \/ EnsureVMTag
    PROVE  Resource'
<1>1. TypeOK /\ astray \in BOOLEAN /\ target \in Ids \cup {None}
  BY DEF IInv, TypeOK
<1> DEFINE Counted == Follows /\ Flags /\ faults' \in 0..MaxFaults
           Waits == {"create", "await", "start", "update", "reboot", "autostart", "tag", "idle"}
           Middle == Waits \ {"await"}
<1>2. ASSUME obj' = obj, astray' \in BOOLEAN, target' \in Ids \cup {None}, pc' = "await" => target' # None,
             pc \in Waits \cup {"check"}, pc # "idle", pc' \in Waits, Counted
      PROVE  Resource'
  BY <1>1, <1>2, Moves DEF Stages, EndStages
<1>3. NoFault => faults' \in 0..MaxFaults
  BY <1>1, Faults
<1>4. CASE Get
  <2>1. /\ queue' = FALSE /\ copy' = (IF pc' = "idle" THEN None ELSE obj)
        /\ UNCHANGED <<obj, target, watched, faults>>
    BY <1>4 DEF Get
  <2>2. pc' = IF obj = None THEN "idle"
             ELSE IF obj.mode = "EnsureExists" THEN "check"
             ELSE IF ~obj.deleting THEN (IF obj.finalizer THEN "check" ELSE "finalizer")
             ELSE IF obj.finalizer THEN "mark" ELSE "idle"
    BY <1>4 DEF Get
  <2>3. obj # None => obj.mode \in {"Reconcile", "EnsureExists"}
    BY <1>1 DEF TypeOK, Objects, Modes
  <2>4. astray' \in BOOLEAN
    <3>1. astray' = (astray /\ ~InOrder)
      BY <1>4 DEF Get
    <3> QED
      BY <3>1, Zenon
  <2> QED
    BY <1>1, <2>1, <2>2, <2>3, <2>4 DEF TypeOK, Resource, Guarded, Ending, Stages
<1>5. CASE HandleFinalizer
  <2>1. pc = "finalizer" /\ UNCHANGED <<target, astray, faults>>
    BY <1>5 DEF HandleFinalizer, creations
  <2>2. CASE obj = copy /\ obj' = [obj EXCEPT !.finalizer = TRUE] /\ GotoWith("check", obj')
    <3>1. obj \in Objects
      BY <1>1, <2>1, <2>2 DEF TypeOK
    <3>2. obj' \in Objects /\ obj' # None /\ obj'.finalizer /\ obj'.mode = obj.mode
      BY <2>2, <3>1, Writes
    <3> QED
      BY <1>1, <2>1, <2>2, <3>2 DEF GotoWith, TypeOK, Resource, Guarded, Ending, Stages
  <2>3. CASE obj' = obj /\ (Return \/ Requeue)
    BY <1>1, <2>1, <2>3, Ways, Moves DEF TypeOK
  <2> QED
    BY <1>5, <2>2, <2>3 DEF HandleFinalizer
<1>6. CASE CheckVM
  <2>1. pc = "check" /\ UNCHANGED <<obj, target, astray, faults>>
        /\ \E s \in {"idle", "update", "create"} : Goto(s)
    BY <1>6 DEF CheckVM, creations
  <2> QED
    BY <1>1, <1>2, <2>1, Ways DEF TypeOK
<1>7. CASE CreateVM
  <2>1. pc = "create" /\ obj' = obj /\ Counted
    BY <1>1, <1>7, Creation
  <2>2. pc' \in {"await", "idle"} /\ target' \in Ids \cup {None} /\ (pc' = "await" => target' # None)
        /\ astray' \in BOOLEAN
    BY <1>1, <1>7, Creation, NoneIsApart
  <2> QED
    BY <1>2, <2>1, <2>2
<1>8. CASE AwaitVM
  <2>1. pc = "await" /\ obj' = obj /\ target' = None /\ pc' \in {"start", "idle"} /\ Counted
    BY <1>1, <1>8, Waiting
  <2>2. astray' = astray \/ astray' = (astray \/ making'[target] # None)
    BY <1>1, <1>8, Waiting
  <2>3. astray' \in BOOLEAN
    BY <1>1, <2>2, Zenon
  <2> QED
    BY <1>2, <2>1, <2>3
<1>9. ASSUME Refused PROVE pc' = "idle" /\ Counted
  BY <1>1, <1>3, <1>9, Ways DEF Refused
<1>10. ASSUME NEW s \in Middle, NEW g, Call(g, s) \/ (Goto(s) /\ NoFault) PROVE pc' \in Middle /\ Counted
  <2>1. CASE Call(g, s)
    BY <1>1, <2>1, Calls
  <2>2. CASE Goto(s) /\ NoFault
    BY <1>1, <1>3, <2>2, Ways
  <2> QED
    BY <1>10, <2>1, <2>2
<1>11. ASSUME UNCHANGED <<obj, target, astray>>, pc \in Middle \cup {"check"}, pc # "idle",
              pc' \in Middle, Counted
       PROVE  Resource'
  BY <1>1, <1>2, <1>11
<1> HIDE DEF Counted
<1>12. CASE StartVM
  <2> DEFINE next == IF copy.mode = "EnsureExists" THEN "idle" ELSE "tag"
  <2>1. pc = "start" /\ UNCHANGED <<obj, target, astray>>
    BY <1>12 DEF StartVM, creations
  <2>2. Refused \/ \E i \in Ids : Call(Started(i), next) \/ (Goto(next) /\ NoFault)
    BY <1>12 DEF StartVM
  <2> QED
    BY <1>9, <1>10, <1>11, <2>1, <2>2
<1>13. CASE UpdateVM
  <2>1. pc = "update" /\ UNCHANGED <<obj, target, astray>>
    BY <1>13 DEF UpdateVM, creations
  <2>2. Refused \/ (Goto("autostart") /\ NoFault)
        \/ \E i \in Ids : \E s \in {"reboot", "autostart"} : Call([guests EXCEPT ![i].config = copy.config], s)
    BY <1>13 DEF UpdateVM
  <2> QED
    BY <1>9, <1>10, <1>11, <2>1, <2>2
<1>14. CASE Reboot
  <2>1. pc = "reboot" /\ UNCHANGED <<obj, target, astray>>
    BY <1>14 DEF Reboot, creations
  <2>2. Refused \/ \E i \in Ids : Call(Started(i), "autostart")
    BY <1>14 DEF Reboot
  <2> QED
    BY <1>9, <1>10, <1>11, <2>1, <2>2
<1>15. CASE HandleAutoStart
  <2>1. pc = "autostart" /\ UNCHANGED <<obj, target, astray, faults>>
        /\ (Requeue \/ \E s \in {"tag", "start"} : Goto(s))
    BY <1>15 DEF HandleAutoStart, creations
  <2>2. pc' \in Middle /\ Counted
    BY <1>1, <2>1, Ways DEF TypeOK, Counted
  <2> QED
    BY <1>11, <2>1, <2>2
<1>16. CASE EnsureVMTag
  <2>1. pc = "tag" /\ UNCHANGED <<obj, target, astray, faults>> /\ (Requeue \/ Return)
    BY <1>16 DEF EnsureVMTag, creations
  <2>2. pc' \in Middle /\ Counted
    BY <1>1, <2>1, Ways DEF TypeOK, Counted
  <2> QED
    BY <1>11, <2>1, <2>2
<1> QED
  BY <1>4, <1>5, <1>6, <1>7, <1>8, <1>12, <1>13, <1>14, <1>15, <1>16

\* handleDelete.
LEMMA DeletionKeeps ==
    ASSUME IInv, MarkDeleting \/ StopForDelete \/ DeleteVM \/ RemoveFinalizer
    PROVE  Resource'
<1>1. TypeOK /\ (NoFault => faults' \in 0..MaxFaults)
  BY Faults DEF IInv
<1>2. astray' = astray /\ astray \in BOOLEAN
  BY <1>1 DEF MarkDeleting, StopForDelete, DeleteVM, RemoveFinalizer, creations, TypeOK
<1>3. CASE MarkDeleting
  <2>1. pc = "mark" /\ UNCHANGED <<target, faults>> /\ watched' = FALSE /\ pc' \in {"unfinalize", "stop"}
    BY <1>3 DEF MarkDeleting
  <2>2. obj \in Objects /\ obj # None /\ obj.finalizer /\ obj.mode = "Reconcile" /\ copy.mode = "Reconcile"
    BY <2>1 DEF IInv, TypeOK, Guarded, Ending
  <2>3. CASE copy.marked /\ queue' = queue /\ UNCHANGED <<obj, copy>>
    BY <1>1, <1>2, <2>1, <2>3, Moves DEF TypeOK, EndStages, Follows, Flags
  <2>4. CASE obj' = [obj EXCEPT !.marked = TRUE] /\ copy' = obj' /\ queue' = (queue \/ ~obj.marked)
    <3>1. obj' \in Objects /\ obj' # None /\ obj'.mode = "Reconcile" /\ obj'.finalizer
      BY <2>2, <2>4, Writes
    <3>2. queue' \in BOOLEAN
      BY <2>4, Zenon
    <3> QED
      BY <1>1, <1>2, <2>1, <2>4, <3>1, <3>2 DEF TypeOK, Resource, Guarded, Ending, Stages
  <2> QED
    BY <1>3, <2>3, <2>4 DEF MarkDeleting
<1>4. ASSUME Refused PROVE pc' = "idle" /\ Follows /\ Flags /\ faults' \in 0..MaxFaults
  BY <1>1, <1>4, Ways DEF Refused
<1>5. CASE StopForDelete
  <2>1. pc = "stop" /\ obj' = obj
    BY <1>5 DEF StopForDelete
  <2>2. CASE Goto("unfinalize") /\ (NoFault \/ Fault("lookup")) /\ target' = target
    BY <1>1, <1>2, <2>1, <2>2, Ways, Faults, Moves DEF EndStages, TypeOK
  <2>3. ASSUME NEW i \in Ids, target' = IF pc' = "delete" THEN i ELSE None,
               Refused \/ Call([guests EXCEPT ![i].running = FALSE], "delete") \/ (Goto("delete") /\ NoFault)
        PROVE  Resource'
    <3>1. pc' \in {"idle", "delete"} /\ Follows /\ Flags /\ faults' \in 0..MaxFaults
      <4>1. CASE Refused
        BY <1>4, <4>1
      <4>2. CASE Call([guests EXCEPT ![i].running = FALSE], "delete")
        BY <1>1, <4>2, Calls
      <4>3. CASE Goto("delete") /\ NoFault
        BY <1>1, <4>3, Ways
      <4> QED
        BY <2>3, <4>1, <4>2, <4>3
    <3> QED
      BY <1>2, <2>1, <2>3, <3>1, Moves, NoneIsApart DEF EndStages
  <2> QED
    BY <1>5, <2>2, <2>3 DEF StopForDelete
<1>6. CASE DeleteVM
  <2>1. pc = "delete" /\ obj' = obj /\ target' = None
    BY <1>6 DEF DeleteVM
  <2>2. Refused \/ ((Goto("unfinalize") \/ Requeue \/ GiveUp) /\ (NoFault \/ \E k : Fault(k)))
    BY <1>6 DEF DeleteVM
  <2>3. pc' \in {"idle", "unfinalize"} /\ Follows /\ Flags /\ faults' \in 0..MaxFaults
    BY <1>1, <1>4, <2>2, Ways, Faults
  <2> QED
    BY <1>2, <2>1, <2>3, Moves DEF EndStages
<1>7. CASE RemoveFinalizer
  <2>1. pc = "unfinalize" /\ UNCHANGED <<target, faults>> /\ obj' \in {obj, None} /\ Requeue
    BY <1>7 DEF RemoveFinalizer
  <2>2. pc' = "idle" /\ copy' = None /\ Flags
    BY <1>1, <2>1, Ways DEF Requeue
  <2> QED
    BY <1>1, <1>2, <2>1, <2>2 DEF TypeOK, Flags, Resource, Guarded, Ending, Stages
<1> QED
  BY <1>3, <1>5, <1>6, <1>7

\* Every step keeps the invariant.
LEMMA Inductive ==
    ASSUME IInv, [Next]_vars
    PROVE  IInv'
<1>1. Resource'
  BY UsersKeep, SurroundingsKeep, ReconcileKeeps, DeletionKeeps DEF Next, Reconcile
<1>2. /\ guests' \in [Ids -> Guests \cup {None}] /\ making' \in [Ids -> Guests \cup {None}]
      /\ \A i \in Ids : guests'[i] = None \/ making'[i] = None
  BY GuestTypes DEF IInv
<1>3. cachedId' \in Ids \cup {None} /\ cachedVM' \in [Ids -> Snapshots \cup {None}]
  BY CacheSteps DEF IInv
<1> QED
  BY <1>1, <1>2, <1>3 DEF Resource, IInv, TypeOK

\* The invariant holds before there is a resource.
LEMMA Initially ==
    ASSUME Init
    PROVE  IInv
<1>1. /\ guests \in [Ids -> Guests \cup {None}] /\ making \in [Ids -> Guests \cup {None}]
      /\ \A i \in Ids : guests[i] = None
      /\ cachedVM \in [Ids -> Snapshots \cup {None}]
  BY DEF Init
<1>2. faults \in 0..MaxFaults
  BY NoneIsApart DEF Init
<1>3. TypeOK
  BY <1>1, <1>2 DEF Init, TypeOK, Stages
<1> QED
  BY <1>3 DEF Init, IInv, Guarded, Ending

------------------------------------------------------------------------------
(* The theorems that hold whatever a clone is called *)

\* The state of the resource, its reconcile, Proxmox and the client's caches is always of its
\* type: a running reconcile has a copy, one that deletes a guest has found it.
THEOREM TypeCorrect == Spec => []TypeOK
<1>1. IInv => TypeOK
  BY DEF IInv
<1> QED
  BY <1>1, Initially, Inductive, PTL DEF Spec

\* No guest is made for a resource that is not there with its finalizer, whatever users do to the
\* resource while its reconcile is under way.
THEOREM FinalizerBeforeGuest == Spec => FinalizerComesFirst
<1> DEFINE A == Own = {} /\ Own' # {} /\ copy.mode = "Reconcile" => obj # None /\ obj.finalizer
<1>1. ASSUME IInv, [Next]_vars PROVE A
  <2>1. CASE CreateVM
    <3>1. pc = "create"
      BY <2>1 DEF CreateVM
    <3> QED
      BY <1>1, <3>1 DEF IInv, Guarded
  <2>2. CASE ~CreateVM
    <3>1. Own' \subseteq Own
      BY <1>1, <2>2, OwnShrinks DEF IInv
    <3> QED
      BY <3>1
  <2> QED
    BY <2>1, <2>2
<1>2. IInv /\ [Next]_vars => [A]_vars
  BY <1>1
<1> QED
  BY <1>2, Initially, Inductive, PTL DEF Spec, FinalizerComesFirst

------------------------------------------------------------------------------
(* One guest, when a clone gets the name that lookups go by *)

\* There is one guest of the resource at most, those under way included.
Single == \A i, j \in Own : i = j

\* When the client remembers a VMID, no other guest is the resource's.
Remembered == \A i \in Own : cachedId \in {None, i}

\* A guest under way is the one that the reconcile waits for.
Attended == \A i \in Making : pc = "await" /\ target = i

\* A creation is only asked for when there is no guest and none is remembered; then there is no
\* other guest than that one.
Creating ==
    /\ pc = "create" => Own = {} /\ cachedId = None
    /\ pc = "await" => Own \subseteq {target}

\* DeleteVM is at the resource's guest, and after it there is none.
Gone ==
    /\ pc = "delete" => Own \subseteq {target}
    /\ pc = "unfinalize" => copy.protected \/ "lookup" \in happened \/ Own = {}

Ordered == Single /\ Remembered /\ Attended /\ Creating /\ Gone

\* All is well until a creation is left under way.
GuestInv == IInv /\ (astray \/ Ordered)

\* A name finds guests of the resource, and all that are not under way.
LEMMA OwnIsNamed ==
    ASSUME SpecName = CloneName, TypeOK
    PROVE  Named \subseteq Own /\ Own \subseteq Named \cup Making
<1>1. \A i \in Ids : guests[i] # None => guests[i].name \in {SpecName, CloneName, Foreign}
  BY DEF TypeOK, Guests
<1> QED
  BY <1>1, NoneIsApart DEF Own, Named, Making

\* A lookup that finds nothing is right, when nothing is under way.
LEMMA NothingLost ==
    ASSUME SpecName = CloneName, TypeOK, Remembered, Lost, Making = {}
    PROVE  Own = {}
<1>1. CASE cachedId = None
  <2>1. Named = {}
    BY <1>1 DEF Lost, Found, Named
  <2> QED
    BY <2>1, OwnIsNamed
<1>2. CASE cachedId # None
  <2>1. cachedId \in Ids /\ guests[cachedId] = None
    BY <1>2 DEF TypeOK, Lost, Found
  <2>2. \A i \in Own : i = cachedId
    BY <1>2 DEF Remembered
  <2> QED
    BY <2>1, <2>2 DEF Own
<1> QED
  BY <1>1, <1>2

\* The reconcile only comes to a creation, a deletion or the end of the finalizer from the step
\* before it; in between it keeps its copy, its target and what has happened.
LEMMA Arrivals ==
    ASSUME TypeOK, [Next]_vars, ~CreateVM, ~AwaitVM, ~CheckVM, ~MarkDeleting, ~StopForDelete, ~DeleteVM,
           pc' \in {"create", "await", "delete", "unfinalize"}
    PROVE  pc' = pc /\ UNCHANGED <<copy, target>> /\ happened \subseteq happened'
<1> DEFINE Elsewhere == pc' \notin {"create", "await", "delete", "unfinalize"}
<1>1. ~(Get \/ HandleFinalizer \/ HandleAutoStart \/ EnsureVMTag \/ RemoveFinalizer
        \/ ReconcileError \/ Restart)
  <2>1. Get => Elsewhere
    BY DEF Get
  <2>2. HandleFinalizer \/ HandleAutoStart \/ EnsureVMTag \/ RemoveFinalizer \/ ReconcileError \/ Restart => Elsewhere
    BY DEF HandleFinalizer, HandleAutoStart, EnsureVMTag, RemoveFinalizer, ReconcileError, Restart,
           Goto, GotoWith, Return, Requeue
  <2> QED
    BY <2>1, <2>2
<1>2. \A s, g : Call(g, s) => pc' \in {s, "idle"}
  BY Calls
<1>3. ~Refused
  BY DEF Refused, Requeue
<1>4. \A s : Goto(s) => pc' = s
  BY Ways
<1>5. ~StartVM
  BY <1>2, <1>3, <1>4 DEF StartVM
<1>6. ~UpdateVM
  <2>1. UpdateVM => Goto("autostart") \/ \E g : \E s \in {"reboot", "autostart"} : Call(g, s)
    BY <1>3 DEF UpdateVM
  <2> QED
    BY <1>2, <1>4, <2>1
<1>7. ~Reboot
  BY <1>2, <1>3, <1>4 DEF Reboot
<1>8. ASSUME (\E i \in Ids : Destroyed(i) \/ Stopped(i) \/ Reconfigured(i) \/ ForeignCreated(i) \/ CreationEnds(i))
             \/ UserCreate \/ UserEdit \/ UserDelete \/ Poll \/ NewClient \/ UNCHANGED vars
      PROVE  pc' = pc /\ UNCHANGED <<copy, target>> /\ happened \subseteq happened'
  <2>1. UNCHANGED <<pc, copy, target>> /\ ((\E k : Fault(k)) \/ UNCHANGED happened)
    BY <1>8 DEF Destroyed, Stopped, Reconfigured, ForeignCreated, CreationEnds, UserCreate, UserEdit, UserDelete,
                Poll, NewClient, vars
  <2> QED
    BY <2>1, Faults
<1> QED
  BY <1>1, <1>5, <1>6, <1>7, <1>8 DEF Next, Reconcile

\* A reconcile that waits goes on waiting, unless the process restarts.
LEMMA StaysAwaiting ==
    ASSUME [Next]_vars, pc = "await", ~AwaitVM, ~Restart
    PROVE  pc' = "await" /\ target' = target
BY DEF Next, Reconcile, UserCreate, UserEdit, UserDelete, Destroyed, Stopped, Reconfigured, ForeignCreated,
       CreationEnds, Poll, Get, HandleFinalizer, CheckVM, CreateVM, StartVM, UpdateVM, Reboot,
       HandleAutoStart, EnsureVMTag, MarkDeleting, StopForDelete, DeleteVM, RemoveFinalizer,
       ReconcileError, NewClient, vars

\* What happens to astray.
LEMMA AstraySteps ==
    ASSUME TypeOK, [Next]_vars, ~CreateVM, ~AwaitVM
    PROVE  \/ astray' = astray
           \/ Get /\ InOrder /\ astray' = FALSE
           \/ Restart /\ Making # {} /\ astray' = TRUE
<1> astray \in BOOLEAN
  BY DEF TypeOK
<1>1. CASE Get
  <2>1. astray' = (astray /\ ~InOrder)
    BY <1>1 DEF Get
  <2>2. CASE astray /\ ~InOrder
    BY <2>1, <2>2
  <2>3. CASE ~astray
    BY <2>1, <2>3
  <2>4. CASE InOrder
    BY <1>1, <2>1, <2>4
  <2> QED
    BY <2>2, <2>3, <2>4
<1>2. CASE Restart
  <2>1. astray' = (astray \/ Making # {})
    BY <1>2 DEF Restart
  <2>2. CASE Making = {}
    BY <2>1, <2>2
  <2>3. CASE Making # {}
    BY <1>2, <2>1, <2>3
  <2> QED
    BY <2>2, <2>3
<1>3. CASE ~Get /\ ~Restart
  BY <1>3
     DEF Next, Reconcile, UserCreate, UserEdit, UserDelete, Destroyed, Stopped, Reconfigured, ForeignCreated,
         CreationEnds, Poll, HandleFinalizer, CheckVM, StartVM, UpdateVM, Reboot,
         HandleAutoStart, EnsureVMTag, MarkDeleting, StopForDelete, DeleteVM, RemoveFinalizer,
         ReconcileError, NewClient, creations, vars
<1> QED
  BY <1>1, <1>2, <1>3

\* The request starts the one guest, and the reconcile waits for it.
LEMMA CreateKeepsOrder ==
    ASSUME GuestInv, CreateVM, [Next]_vars, ~astray'
    PROVE  Ordered'
<1>1. TypeOK /\ pc = "create"
  BY DEF GuestInv, IInv, CreateVM
<1>2. PICK i \in Ids :
        /\ Free(i)
        /\ \/ making' = [making EXCEPT ![i] = NewGuest] /\ target' = i /\ pc' = "await" /\ astray' = astray
           \/ making' = making /\ target' = target /\ pc' = "idle" /\ astray' = astray
           \/ making' = [making EXCEPT ![i] = NewGuest] /\ target' = target /\ pc' = "idle" /\ astray' = TRUE
  BY <1>1, Creation
<1>3. UNCHANGED <<guests, cachedId>>
  BY <1>1, Creation
<1>4. Ordered /\ Own = {} /\ Making = {} /\ cachedId = None
  BY <1>1, <1>2 DEF GuestInv, Ordered, Creating, Own
<1>5. CASE making' = making /\ pc' = "idle"
  <2>1. Own' = {} /\ Making' = {}
    BY <1>3, <1>4, <1>5 DEF Own, Making
  <2> QED
    BY <1>5, <2>1 DEF Ordered, Single, Remembered, Attended, Creating, Gone
<1>6. CASE making' = [making EXCEPT ![i] = NewGuest] /\ target' = i /\ pc' = "await"
  <2>1. \A j \in Ids : j # i => making'[j] = making[j]
    BY <1>1, <1>6 DEF TypeOK
  <2>2. Making' \subseteq {i}
    BY <1>4, <2>1 DEF Making
  <2>3. Own' \subseteq {i}
    BY <1>3, <1>4, <2>2 DEF Own
  <2>4. cachedId' = None
    BY <1>3, <1>4
  <2> QED
    BY <1>6, <2>2, <2>3, <2>4 DEF Ordered, Single, Remembered, Attended, Creating, Gone
<1> QED
  BY <1>2, <1>5, <1>6

\* The wait ends with the guest remembered, without one, or left under way.
LEMMA AwaitKeepsOrder ==
    ASSUME SpecName = CloneName, GuestInv, AwaitVM, [Next]_vars, ~astray'
    PROVE  Ordered'
<1>1. TypeOK /\ pc = "await" /\ target \in Ids
  BY Waiting DEF GuestInv, IInv
<1>2. /\ UNCHANGED guests
      /\ \/ /\ target \notin Making /\ pc' = "start" /\ making' = making /\ astray' = astray
            /\ cachedId' = IF NewGuest.name = SpecName THEN target ELSE cachedId
         \/ /\ pc' = "idle" /\ cachedId' = cachedId
            /\ making' \in {making, [making EXCEPT ![target] = None]}
            /\ astray' = (astray \/ making'[target] # None)
  BY <1>1, Waiting
<1>3. Ordered /\ Own \subseteq {target} /\ Making \subseteq {target}
  <2>1. ~astray
    BY <1>2
  <2> QED
    BY <1>1, <2>1 DEF GuestInv, Ordered, Creating, Attended
<1>4. Own' \subseteq {target} /\ Making' \subseteq {target}
  <2>1. ~CreateVM
    BY <1>1 DEF CreateVM
  <2> QED
    BY <1>1, <1>3, <2>1, OwnShrinks
<1>5. CASE target \notin Making /\ pc' = "start" /\ making' = making /\ cachedId' = target
  <2>1. Making' = {}
    BY <1>3, <1>5 DEF Making
  <2> QED
    BY <1>4, <1>5, <2>1 DEF Ordered, Single, Remembered, Attended, Creating, Gone
<1>6. NewGuest.name = SpecName
  BY DEF NewGuest
<1>7. CASE pc' = "idle" /\ cachedId' = cachedId /\ making'[target] = None
  <2>1. Making' = {}
    BY <1>4, <1>7 DEF Making
  <2>2. \A i \in Own' : cachedId' \in {None, i}
    <3>1. Own' \subseteq Own
      BY <1>1, <1>2, OwnShrinks DEF CreateVM
    <3> QED
      BY <1>3, <1>7, <3>1 DEF Ordered, Remembered
  <2> QED
    BY <1>4, <1>7, <2>1, <2>2 DEF Ordered, Single, Remembered, Attended, Creating, Gone
<1> HIDE DEF NewGuest
<1>8. ~(astray \/ making'[target] # None) \/ pc' = "start"
  BY <1>2
<1> QED
  BY <1>2, <1>5, <1>6, <1>7, <1>8

\* A reconcile starts in order, whatever went astray before.
LEMMA GetKeepsOrder ==
    ASSUME GuestInv, Get, ~astray'
    PROVE  Ordered'
<1>1. pc = "idle" /\ pc' \notin {"create", "await", "delete", "unfinalize"}
      /\ UNCHANGED <<guests, making, cachedId>>
  BY DEF Get, cache
<1>2. ~astray \/ InOrder
  BY DEF Get
<1>3. Single /\ Remembered /\ Making = {}
  <2>1. CASE InOrder
    BY <2>1 DEF InOrder, Single, Remembered
  <2>2. CASE ~astray
    BY <1>1, <2>2 DEF GuestInv, Ordered, Attended
  <2> QED
    BY <1>2, <2>1, <2>2
<1>4. Own' = Own /\ Making' = Making
  BY <1>1 DEF Own, Making
<1> QED
  BY <1>1, <1>3, <1>4 DEF Ordered, Single, Remembered, Attended, Creating, Gone

\* No other step adds a guest or makes the client remember another.
LEMMA OthersKeepOrder ==
    ASSUME SpecName = CloneName, IInv, Ordered, [Next]_vars, ~CreateVM, ~AwaitVM, ~Get,
           Restart => Making = {}
    PROVE  Ordered'
<1>1. TypeOK
  BY DEF IInv
<1>2. Own' \subseteq Own /\ Making' \subseteq Making
  BY <1>1, OwnShrinks
<1>3. Single'
  BY <1>2 DEF Ordered, Single
<1>4. cachedId' \in {None, cachedId} \/ (cachedId = None /\ cachedId' \in Own)
  BY <1>1, CacheSteps, OwnIsNamed
<1>5. Remembered'
  BY <1>2, <1>4 DEF Ordered, Single, Remembered
<1>6. Attended'
  <2>1. CASE Restart
    BY <1>2, <2>1 DEF Attended
  <2>2. CASE ~Restart
    <3>1. ASSUME NEW i \in Making' PROVE pc' = "await" /\ target' = i
      <4>1. pc = "await" /\ target = i
        BY <1>2, <3>1 DEF Ordered, Attended
      <4> QED
        BY <2>2, <4>1, StaysAwaiting
    <3> QED
      BY <3>1 DEF Attended
  <2> QED
    BY <2>1, <2>2
<1>7. pc # "await" => Making = {}
  BY DEF Ordered, Attended
<1>8. ASSUME pc' = pc, UNCHANGED <<copy, target>>, happened \subseteq happened' PROVE Creating' /\ Gone'
  <2>1. pc = "create" => Own' = {} /\ cachedId' = None
    BY <1>2, <1>4 DEF Ordered, Creating
  <2> QED
    BY <1>2, <1>8, <2>1 DEF Ordered, Creating, Gone
<1>9. CASE CheckVM
  <2>1. pc' = "create" => cachedId = None /\ Named = {} /\ UNCHANGED cachedId
    BY <1>1, <1>9, Ways DEF CheckVM
  <2>2. pc = "check" /\ pc' \in {"create", "idle", "update"}
    BY <1>1, <1>9, Ways DEF CheckVM
  <2>3. pc' = "create" => Own = {}
    BY <1>1, <1>7, <2>1, <2>2, OwnIsNamed
  <2> QED
    BY <1>2, <1>3, <1>5, <1>6, <2>1, <2>2, <2>3 DEF Ordered, Creating, Gone
<1>10. CASE MarkDeleting
  <2>1. /\ pc' = (IF copy'.protected THEN "unfinalize" ELSE "stop")
    BY <1>10 DEF MarkDeleting
  <2> QED
    BY <1>3, <1>5, <1>6, <2>1 DEF Ordered, Creating, Gone
<1>11. CASE StopForDelete
  <2>1. pc = "stop" /\ Making = {}
    BY <1>7, <1>11 DEF StopForDelete
  <2>2. CASE Lost /\ Goto("unfinalize")
    <3>1. Own = {} /\ pc' = "unfinalize"
      BY <1>1, <2>1, <2>2, NothingLost, Ways DEF Ordered
    <3> QED
      BY <1>2, <1>3, <1>5, <1>6, <3>1 DEF Ordered, Creating, Gone
  <2>3. CASE Goto("unfinalize") /\ Fault("lookup")
    <3>1. pc' = "unfinalize" /\ "lookup" \in happened'
      BY <1>1, <2>3, Faults, Ways
    <3> QED
      BY <1>3, <1>5, <1>6, <3>1 DEF Ordered, Creating, Gone
  <2>4. ASSUME NEW i \in Ids, LookUpAndPing(i), target' = (IF pc' = "delete" THEN i ELSE None),
               Refused \/ Call([guests EXCEPT ![i].running = FALSE], "delete") \/ Goto("delete")
        PROVE  Ordered'
    <3>1. cachedId' = i
      BY <2>4 DEF LookUpAndPing
    <3>2. pc' \in {"idle", "delete"}
      BY <1>1, <2>4, Calls, Ways DEF Refused
    <3>3. Own' \subseteq {i}
      BY <1>5, <3>1, NoneIsApart DEF Remembered
    <3> QED
      BY <1>3, <1>5, <1>6, <2>4, <3>2, <3>3 DEF Ordered, Creating, Gone
  <2> QED
    BY <1>11, <2>2, <2>3, <2>4 DEF StopForDelete
<1>12. CASE DeleteVM
  <2>1. pc' = "idle" \/ (pc' = "unfinalize" /\ guests' = [guests EXCEPT ![target] = None])
    BY <1>1, <1>12, Ways DEF DeleteVM, Refused
  <2>2. Own \subseteq {target} /\ target \in Ids /\ Making = {}
    BY <1>1, <1>7, <1>12 DEF DeleteVM, Ordered, Gone, TypeOK
  <2>3. guests' = [guests EXCEPT ![target] = None] => Own' = {}
    <3> SUFFICES ASSUME guests' = [guests EXCEPT ![target] = None] PROVE target \notin Own'
      BY <1>2, <2>2
    <3>1. guests'[target] = None
      BY <1>1, <2>2 DEF TypeOK
    <3> QED
      BY <1>2, <2>2, <3>1 DEF Own
  <2> QED
    BY <1>3, <1>5, <1>6, <2>1, <2>3 DEF Ordered, Creating, Gone
<1>13. CASE ~CheckVM /\ ~MarkDeleting /\ ~StopForDelete /\ ~DeleteVM
  <2>1. CASE pc' \in {"create", "await", "delete", "unfinalize"}
    BY <1>1, <1>3, <1>5, <1>6, <1>8, <1>13, <2>1, Arrivals DEF Ordered
  <2>2. CASE pc' \notin {"create", "await", "delete", "unfinalize"}
    BY <1>3, <1>5, <1>6, <2>2 DEF Ordered, Creating, Gone
  <2> QED
    BY <2>1, <2>2
<1> QED
  BY <1>9, <1>10, <1>11, <1>12, <1>13

\* Every step keeps all this.
LEMMA GuestInvKept ==
    ASSUME SpecName = CloneName, GuestInv, [Next]_vars
    PROVE  GuestInv'
<1>1. IInv /\ IInv' /\ TypeOK
  BY Inductive DEF GuestInv, IInv
<1> SUFFICES ASSUME ~astray' PROVE Ordered'
  BY <1>1 DEF GuestInv
<1>2. CASE CreateVM
  BY <1>2, CreateKeepsOrder
<1>3. CASE AwaitVM
  BY <1>3, AwaitKeepsOrder
<1>4. CASE Get
  BY <1>4, GetKeepsOrder
<1>5. CASE ~CreateVM /\ ~AwaitVM /\ ~Get
  <2>1. astray' = astray
    BY <1>1, <1>5, AstraySteps
  <2>2. Restart => Making = {}
    BY <2>1 DEF Restart
  <2>3. Ordered
    BY <2>1 DEF GuestInv
  <2> QED
    BY <1>1, <1>5, <2>2, <2>3, OthersKeepOrder
<1> QED
  BY <1>2, <1>3, <1>4, <1>5

\* Without a resource there is no guest, and none under way.
LEMMA GuestInvInitially ==
    ASSUME Init
    PROVE  GuestInv /\ Own = {} /\ Making = {} /\ ~astray
<1>1. Own = {} /\ Making = {} /\ pc = "idle" /\ ~astray
  BY DEF Init, Own, Making
<1> QED
  BY <1>1, Initially DEF GuestInv, Ordered, Single, Remembered, Attended, Creating, Gone

\* A resource never has two guests, those under way included, whatever calls fail or lose their
\* answers, caches are dropped and processes restart, until a creation is left under way (astray:
\* its answer was lost, its wait timed out or the process restarted while it ran) and again once
\* things are in order: as long as CreateVMFromTemplate gives a clone the name that the lookups
\* go by, that is metadata.name is spec.name.
THEOREM NeverTwoGuests ==
    ASSUME SpecName = CloneName
    PROVE  Spec => []OneGuest
<1>1. GuestInv => OneGuest
  <2>1. ASSUME Single PROVE Cardinality(Own) <= 1
    <3>1. CASE Own = {}
      BY <3>1, FS_EmptySet
    <3>2. ASSUME NEW i \in Own PROVE Cardinality(Own) <= 1
      <4>1. Own = {i}
        BY <2>1, <3>2 DEF Single
      <4> QED
        BY <4>1, FS_Singleton
    <3> QED
      BY <3>1, <3>2
  <2> QED
    BY <2>1 DEF GuestInv, Ordered, OneGuest
<1>2. GuestInv /\ [Next]_vars => GuestInv'
  BY GuestInvKept
<1> QED
  BY <1>1, <1>2, GuestInvInitially, PTL DEF Spec

\* A resource with a finalizer only goes when its guest has gone and none is under way, under the
\* same assumption, unless it was protected, DeleteVM could not look the guest up, or a creation
\* was left under way.
THEOREM GuestBeforeResource ==
    ASSUME SpecName = CloneName
    PROVE  Spec => GuestGoesFirst
<1> DEFINE A == obj # None /\ obj' = None /\ obj.finalizer /\ ~obj.protected /\ "lookup" \notin happened
                /\ ~astray => Own = {}
<1>1. ASSUME GuestInv, [Next]_vars PROVE A
  <2>1. CASE RemoveFinalizer
    <3> SUFFICES ASSUME ~astray, obj # None, obj' = None PROVE copy.protected \/ "lookup" \in happened \/ Own = {}
      BY <2>1 DEF RemoveFinalizer
    <3> QED
      BY <1>1, <2>1 DEF GuestInv, Ordered, Gone, RemoveFinalizer
  <2>2. CASE UNCHANGED obj
    BY <2>2
  <2>3. TypeOK
    BY <1>1 DEF GuestInv, IInv
  <2>4. CASE UserCreate
    BY <2>4 DEF UserCreate
  <2>5. CASE UserEdit \/ UserDelete \/ HandleFinalizer \/ MarkDeleting
    <3> SUFFICES ASSUME obj # None, obj.finalizer, obj' = None PROVE FALSE
      OBVIOUS
    <3>1. obj \in Objects
      BY <2>3 DEF TypeOK
    <3>2. (\E c \in Configs : obj' = [obj EXCEPT !.config = c]) \/ obj' = [obj EXCEPT !.protected = ~@]
          \/ obj' = [obj EXCEPT !.deleting = TRUE] \/ obj' = [obj EXCEPT !.marked = TRUE]
          \/ obj' = [obj EXCEPT !.finalizer = TRUE]
      BY <2>5 DEF UserEdit, UserDelete, HandleFinalizer, MarkDeleting
    <3> QED
      BY <3>1, <3>2, Writes
  <2> QED
    BY <1>1, <2>1, <2>2, <2>4, <2>5
       DEF Next, Reconcile, Destroyed, Stopped, Reconfigured, ForeignCreated, CreationEnds, Poll, Get, CheckVM,
           CreateVM, AwaitVM, StartVM, UpdateVM, Reboot, HandleAutoStart, EnsureVMTag, StopForDelete, DeleteVM,
           ReconcileError, NewClient, Restart, vars
<1>2. GuestInv /\ [Next]_vars => [A]_vars
  BY <1>1
<1>3. GuestInv /\ [Next]_vars => GuestInv'
  BY GuestInvKept
<1> QED
  BY <1>2, <1>3, GuestInvInitially, PTL DEF Spec, GuestGoesFirst

------------------------------------------------------------------------------
(* The controller keeps the lifecycle that GuestLifecycle promises *)

\* What GuestLifecycle sees of the resource, and whether it may make and leave a guest.
Kind == IF obj = None THEN "none" ELSE IF obj.finalizer THEN "held" ELSE "bare"
Loose == copy # None /\ copy.mode = "EnsureExists"
Spared == (obj # None /\ obj.protected) \/ "lookup" \in happened

\* A write other than of the finalizer.
LEMMA WritesKeepKind ==
    ASSUME NEW o \in Objects, NEW p,
           (\E c \in Configs : p = [o EXCEPT !.config = c]) \/ p = [o EXCEPT !.protected = ~@]
           \/ p = [o EXCEPT !.deleting = TRUE] \/ p = [o EXCEPT !.marked = TRUE]
    PROVE  p # None /\ p.finalizer = o.finalizer
<1>1. ASSUME NEW c \in Configs, p = [o EXCEPT !.config = c] PROVE p \in Objects /\ p.finalizer = o.finalizer
  BY <1>1 DEF Objects
<1>2. ASSUME p = [o EXCEPT !.protected = ~@] PROVE p \in Objects /\ p.finalizer = o.finalizer
  BY <1>2 DEF Objects
<1>3. ASSUME p = [o EXCEPT !.deleting = TRUE] PROVE p \in Objects /\ p.finalizer = o.finalizer
  BY <1>3 DEF Objects
<1>4. ASSUME p = [o EXCEPT !.marked = TRUE] PROVE p \in Objects /\ p.finalizer = o.finalizer
  BY <1>4 DEF Objects
<1> QED
  BY <1>1, <1>2, <1>3, <1>4, NoneIsApart

\* A resource is created without a finalizer, gets one, and goes; with one, it goes after its guest.
LEMMA KindSteps ==
    ASSUME GuestInv, UserCreate \/ UserEdit \/ UserDelete \/ HandleFinalizer \/ MarkDeleting \/ RemoveFinalizer
    PROVE  /\ UNCHANGED <<guests, making, astray>>
           /\ \/ Kind' = Kind
              \/ Kind = "none" /\ Kind' = "bare"
              \/ Kind = "bare" /\ Kind' = "held"
              \/ Kind = "bare" /\ Kind' = "none"
              \/ Kind = "held" /\ Kind' = "none" /\ (Own = {} \/ Spared \/ astray)
<1>1. TypeOK /\ Guarded /\ Ending
  BY DEF GuestInv, IInv
<1>2. UNCHANGED <<guests, making, astray>>
  BY DEF UserCreate, UserEdit, UserDelete, HandleFinalizer, MarkDeleting, RemoveFinalizer, creations
<1>3. CASE UserCreate
  <2>1. Kind = "none"
    BY <1>3 DEF UserCreate, Kind
  <2>2. PICK c \in Configs, k \in Kinds :
          obj' = [config |-> c, template |-> k.template, autostart |-> k.autostart, mode |-> k.mode,
                  protected |-> FALSE, deleting |-> FALSE, finalizer |-> FALSE, marked |-> FALSE]
    BY <1>3 DEF UserCreate
  <2>3. obj'.finalizer = FALSE
    BY <2>2
  <2>4. Kind' \in {"none", "bare"}
    BY <2>3 DEF Kind
  <2> QED
    BY <1>2, <2>1, <2>4
<1>4. CASE UserEdit
  <2>1. obj \in Objects /\ obj # None
    BY <1>1, <1>4 DEF UserEdit, TypeOK
  <2>2. obj' # None /\ obj'.finalizer = obj.finalizer
    BY <1>4, <2>1, WritesKeepKind DEF UserEdit
  <2> QED
    BY <1>2, <2>1, <2>2 DEF Kind
<1>5. CASE UserDelete
  <2>1. obj \in Objects /\ obj # None
    BY <1>1, <1>5 DEF UserDelete, TypeOK
  <2>2. CASE obj.finalizer
    <3>1. obj' # None /\ obj'.finalizer = obj.finalizer
      BY <1>5, <2>1, <2>2, WritesKeepKind DEF UserDelete
    <3> QED
      BY <1>2, <2>1, <3>1 DEF Kind
  <2>3. CASE ~obj.finalizer
    <3>1. obj' = None
      BY <1>5, <2>3 DEF UserDelete
    <3> QED
      BY <1>2, <2>1, <2>3, <3>1 DEF Kind
  <2> QED
    BY <2>2, <2>3
<1>6. CASE HandleFinalizer
  <2>1. CASE UNCHANGED obj
    BY <1>2, <2>1 DEF Kind
  <2>2. CASE obj = copy /\ obj' = [obj EXCEPT !.finalizer = TRUE]
    <3>1. obj \in Objects /\ obj # None
      BY <1>1, <1>6, <2>2 DEF HandleFinalizer, TypeOK
    <3>2. obj' # None /\ obj'.finalizer
      BY <2>2, <3>1, Writes
    <3> QED
      BY <1>2, <3>1, <3>2 DEF Kind
  <2> QED
    BY <1>6, <2>1, <2>2 DEF HandleFinalizer
<1>7. CASE MarkDeleting
  <2>1. CASE UNCHANGED obj
    BY <1>2, <2>1 DEF Kind
  <2>2. CASE obj' = [obj EXCEPT !.marked = TRUE]
    <3>1. obj \in Objects /\ obj # None
      BY <1>1, <1>7 DEF MarkDeleting, TypeOK, Guarded, Ending
    <3>2. obj' # None /\ obj'.finalizer = obj.finalizer
      BY <2>2, <3>1, WritesKeepKind
    <3> QED
      BY <1>2, <3>1, <3>2 DEF Kind
  <2> QED
    BY <1>7, <2>1, <2>2 DEF MarkDeleting
<1>8. CASE RemoveFinalizer
  <2>1. CASE UNCHANGED obj
    BY <1>2, <2>1 DEF Kind
  <2>2. CASE obj = copy /\ obj' = None
    <3>1. obj # None /\ (Own = {} \/ Spared \/ astray)
      BY <1>1, <1>8, <2>2 DEF RemoveFinalizer, TypeOK, GuestInv, Ordered, Gone, Spared
    <3> QED
      BY <1>2, <2>2, <3>1 DEF Kind
  <2> QED
    BY <1>8, <2>1, <2>2 DEF RemoveFinalizer
<1> QED
  BY <1>3, <1>4, <1>5, <1>6, <1>7, <1>8

\* What a step does to the guests: it leaves them, starts the creation of one, sees it listed,
\* leaves it under way, finds things in order, or loses a guest.
Unmoved == Own' = Own /\ Making' = Making /\ astray' = astray
Made ==
    /\ Kind = "held" \/ Loose
    /\ Own = {} \/ astray
    /\ \E i \in Ids \ Own : Own' = Own \cup {i} /\ Making' = Making \cup {i}
    /\ astray' \in {astray, TRUE}
Finished == Own' = Own /\ Making' \subseteq Making /\ astray' = astray
Strayed == Own' = Own /\ Making' = Making /\ Making # {} /\ astray' = TRUE
Settles == Own' = Own /\ Making' = Making /\ Making = {} /\ Single /\ astray' = FALSE
Loses == Own' \subseteq Own /\ Own' # Own /\ Making' = Making \cap Own' /\ astray' = astray

\* A creation starts, for a resource with a finalizer or in mode EnsureExists.
LEMMA CreateStep ==
    ASSUME GuestInv, CreateVM
    PROVE  Unmoved \/ Made
<1>1. TypeOK /\ Guarded /\ pc = "create" /\ copy \in Objects
  BY DEF GuestInv, IInv, CreateVM, TypeOK
<1>2. Kind = "held" \/ Loose
  <2>1. copy.mode \in Modes /\ copy # None
    BY <1>1, NoneIsApart DEF Objects
  <2> QED
    BY <1>1, <2>1 DEF Guarded, Kind, Loose, Modes
<1>3. Own = {} \/ astray
  BY <1>1 DEF GuestInv, Ordered, Creating
<1>4. PICK i \in Ids :
        /\ Free(i)
        /\ \/ making' = [making EXCEPT ![i] = NewGuest] /\ target' = i /\ pc' = "await" /\ astray' = astray
           \/ making' = making /\ target' = target /\ pc' = "idle" /\ astray' = astray
           \/ making' = [making EXCEPT ![i] = NewGuest] /\ target' = target /\ pc' = "idle" /\ astray' = TRUE
  BY <1>1, Creation
<1>5. UNCHANGED guests /\ NewGuest \in Guests
  BY <1>1, Creation
<1> HIDE DEF NewGuest
<1>6. CASE making' = making /\ astray' = astray
  BY <1>5, <1>6 DEF Unmoved, Own, Making
<1>7. CASE making' = [making EXCEPT ![i] = NewGuest] /\ astray' \in {astray, TRUE}
  <2>1. \A j \in Ids : j # i => making'[j] = making[j]
    BY <1>1, <1>7 DEF TypeOK
  <2>2. making'[i] # None
    BY <1>1, <1>5, <1>7, NoneIsApart DEF TypeOK
  <2>3. Making' = Making \cup {i}
    BY <2>1, <2>2 DEF Making
  <2>4. Own' = Own \cup {i}
    BY <1>5, <2>3 DEF Own
  <2>5. i \notin Own
    BY <1>4 DEF Free, Own, Making
  <2> QED
    BY <1>2, <1>3, <1>7, <2>3, <2>4, <2>5 DEF Made
<1> QED
  BY <1>4, <1>6, <1>7

\* The guest that was under way at i is none any more.
LEMMA CreationGone ==
    ASSUME TypeOK, NEW i \in Making, making' = [making EXCEPT ![i] = None], UNCHANGED <<guests, astray>>
    PROVE  Loses
<1>1. i \in Ids /\ making[i] # None /\ guests[i] = None
  BY DEF TypeOK, Making
<1>2. Making' = Making \ {i}
  BY <1>1 DEF Making, TypeOK
<1>3. Own' = Own \ {i}
  BY <1>1, <1>2 DEF Own
<1>4. i \in Own
  BY DEF Own
<1> QED
  BY <1>2, <1>3, <1>4 DEF Loses, Own

\* The wait ends.
LEMMA AwaitStep ==
    ASSUME TypeOK, AwaitVM
    PROVE  Unmoved \/ Strayed \/ Loses
<1>1. /\ UNCHANGED guests /\ target \in Ids
      /\ \/ making' = making /\ astray' = astray
         \/ /\ making' \in {making, [making EXCEPT ![target] = None]}
            /\ astray' = (astray \/ making'[target] # None)
  BY Waiting
<1>2. CASE making' = making /\ astray' = astray
  BY <1>1, <1>2 DEF Unmoved, Own, Making
<1> astray \in BOOLEAN
  BY DEF TypeOK
<1>3. CASE making' = making /\ astray' = (astray \/ making'[target] # None)
  <2>1. CASE making[target] # None
    <3>1. astray' = TRUE
      BY <1>3, <2>1
    <3>2. target \in Making /\ Own' = Own /\ Making' = Making
      BY <1>1, <1>3, <2>1 DEF Own, Making
    <3> QED
      BY <3>1, <3>2 DEF Strayed
  <2>2. CASE making[target] = None
    BY <1>2, <1>3, <2>2
  <2> QED
    BY <2>1, <2>2
<1>4. CASE making' = [making EXCEPT ![target] = None] /\ astray' = (astray \/ making'[target] # None)
  <2>1. making'[target] = None
    BY <1>1, <1>4 DEF TypeOK
  <2>2. astray' = astray
    BY <1>4, <2>1
  <2>3. CASE target \in Making
    BY <1>1, <1>4, <2>2, <2>3, CreationGone
  <2>4. CASE target \notin Making
    <3>1. making' = making
      BY <1>1, <1>4, <2>4 DEF Making, TypeOK
    <3> QED
      BY <1>2, <2>2, <3>1
  <2> QED
    BY <2>3, <2>4
<1> QED
  BY <1>1, <1>2, <1>3, <1>4

\* A creation ends.
LEMMA FinishStep ==
    ASSUME TypeOK, NEW i \in Ids, CreationEnds(i)
    PROVE  Finished \/ Loses
<1>1. /\ i \in Making /\ making[i] \in Guests /\ guests[i] = None
      /\ making' = [making EXCEPT ![i] = None]
      /\ guests' = guests \/ guests' = [guests EXCEPT ![i] = making[i]]
      /\ astray' = astray
  BY CreationOver
<1>2. CASE guests' = guests
  BY <1>1, <1>2, CreationGone
<1>3. CASE guests' = [guests EXCEPT ![i] = making[i]]
  <2>1. Making' = Making \ {i}
    BY <1>1 DEF Making, TypeOK
  <2>2. \A j \in Ids : j # i => guests'[j] = guests[j]
    BY <1>3 DEF TypeOK
  <2>3. i \in Own /\ Making \subseteq Own
    BY <1>1 DEF Own
  <2>4. Own' \subseteq Own /\ Own \ {i} \subseteq Own'
    BY <2>1, <2>2, <2>3 DEF Own
  <2>5. CASE i \in Own'
    <3>1. Own' = Own
      BY <2>4, <2>5
    <3> QED
      BY <1>1, <2>1, <3>1 DEF Finished
  <2>6. CASE i \notin Own'
    <3>1. Own' = Own \ {i}
      BY <2>4, <2>6
    <3>2. Making' = Making \cap Own'
      BY <2>1, <2>3, <3>1
    <3> QED
      BY <1>1, <2>3, <3>1, <3>2 DEF Loses
  <2> QED
    BY <2>5, <2>6
<1> QED
  BY <1>1, <1>2, <1>3

\* Every step does one of these.
LEMMA OwnSteps ==
    ASSUME GuestInv, [Next]_vars
    PROVE  Unmoved \/ Made \/ Finished \/ Strayed \/ Settles \/ Loses
<1>1. TypeOK
  BY DEF GuestInv, IInv
<1>2. CASE CreateVM
  BY <1>2, CreateStep
<1>3. CASE AwaitVM
  BY <1>1, <1>3, AwaitStep
<1>4. ASSUME NEW i \in Ids, CreationEnds(i) PROVE Finished \/ Loses
  BY <1>1, <1>4, FinishStep
<1>5. CASE ~Creates
  <2>1. UNCHANGED making /\ Making' = Making
    BY <1>1, <1>5, GuestSteps DEF Making
  <2>2. Own' \subseteq Own
    BY <1>1, <1>5, OwnShrinks DEF Creates
  <2>3. CASE astray' = astray
    <3>1. Making' \subseteq Own'
      BY DEF Own, Making
    <3>2. CASE Own' = Own
      BY <2>1, <2>3, <3>2 DEF Unmoved
    <3>3. CASE Own' # Own
      BY <2>1, <2>2, <2>3, <3>1, <3>3 DEF Loses
    <3> QED
      BY <3>2, <3>3
  <2>4. CASE Get /\ InOrder /\ astray' = FALSE
    <3>1. UNCHANGED <<guests, making>>
      BY <2>4 DEF Get
    <3> QED
      BY <2>4, <3>1 DEF Settles, InOrder, Single, Own, Making
  <2>5. CASE Restart /\ Making # {} /\ astray' = TRUE
    <3>1. UNCHANGED <<guests, making>>
      BY <2>5 DEF Restart
    <3> QED
      BY <2>5, <3>1 DEF Strayed, Own, Making
  <2> QED
    BY <1>1, <1>5, <2>3, <2>4, <2>5, AstraySteps DEF Creates
<1> QED
  BY <1>2, <1>3, <1>4, <1>5 DEF Creates

\* Under the same assumption, the controller implements GuestLifecycle: a guest is made only for a
\* resource that holds on to it and has no other, and is gone before the resource is unless it is
\* spared; both until a creation is left under way, and again once things are in order.
THEOREM LifecycleKept ==
    ASSUME SpecName = CloneName
    PROVE  Spec => KeepsLifecycle
<1>1. Init => Lifecycle!Init
  <2>1. ASSUME Init PROVE obj = None /\ Own = {} /\ Making = {} /\ ~astray
    BY <2>1, GuestInvInitially DEF Init
  <2> QED
    BY <2>1 DEF Lifecycle!Init
<1>2. ASSUME GuestInv, [Next]_vars PROVE [Lifecycle!Next]_(Lifecycle!vars)
  <2>1. CASE UserCreate \/ UserEdit \/ UserDelete \/ HandleFinalizer \/ MarkDeleting \/ RemoveFinalizer
    <3>1. Own' = Own /\ Making' = Making /\ astray' = astray
      <4>1. UNCHANGED <<guests, making, astray>>
        BY <1>2, <2>1, KindSteps
      <4> QED
        BY <4>1 DEF Own, Making
    <3>2. CASE Kind' = Kind
      BY <3>1, <3>2 DEF Lifecycle!Next, Lifecycle!Decide, Lifecycle!SameGuests, Kind
    <3>3. CASE Kind = "none" /\ Kind' = "bare"
      BY <3>1, <3>3 DEF Lifecycle!Next, Lifecycle!Create, Lifecycle!SameGuests, Kind
    <3>4. CASE Kind = "bare" /\ Kind' = "held"
      BY <3>1, <3>4 DEF Lifecycle!Next, Lifecycle!Hold, Lifecycle!SameGuests, Kind
    <3>5. CASE Kind = "bare" /\ Kind' = "none"
      BY <3>1, <3>5 DEF Lifecycle!Next, Lifecycle!Abandon, Lifecycle!SameGuests, Kind
    <3>6. CASE Kind = "held" /\ Kind' = "none" /\ (Own = {} \/ Spared \/ astray)
      BY <3>1, <3>6 DEF Lifecycle!Next, Lifecycle!Release, Lifecycle!SameGuests, Kind, Spared
    <3> QED
      BY <1>2, <2>1, <3>2, <3>3, <3>4, <3>5, <3>6, KindSteps
  <2>2. CASE ~(UserCreate \/ UserEdit \/ UserDelete \/ HandleFinalizer \/ MarkDeleting \/ RemoveFinalizer)
    <3>1. obj' = obj
      BY <1>2, <2>2
         DEF Next, Reconcile, Destroyed, Stopped, Reconfigured, ForeignCreated, CreationEnds, Poll, Get, CheckVM,
             CreateVM, AwaitVM, StartVM, UpdateVM, Reboot, HandleAutoStart, EnsureVMTag, StopForDelete, DeleteVM,
             ReconcileError, NewClient, Restart, vars
    <3>2. CASE Unmoved
      BY <3>1, <3>2 DEF Lifecycle!Next, Lifecycle!Decide, Lifecycle!SameGuests, Unmoved
    <3>3. CASE Loses
      BY <3>1, <3>3 DEF Lifecycle!Next, Lifecycle!Lose, Loses
    <3>4. CASE Made
      BY <3>1, <3>4 DEF Lifecycle!Next, Lifecycle!Make, Made, Kind, Loose
    <3>5. CASE Finished
      BY <3>1, <3>5 DEF Lifecycle!Next, Lifecycle!Finish, Finished
    <3>6. CASE Strayed
      BY <3>1, <3>6 DEF Lifecycle!Next, Lifecycle!Stray, Strayed
    <3>7. CASE Settles
      BY <3>1, <3>7 DEF Lifecycle!Next, Lifecycle!Settle, Settles, Single
    <3> QED
      BY <1>2, <3>2, <3>3, <3>4, <3>5, <3>6, <3>7, OwnSteps
  <2> QED
    BY <2>1, <2>2
<1>3. GuestInv /\ [Next]_vars => GuestInv'
  BY GuestInvKept
<1> QED
  BY <1>1, <1>2, <1>3, GuestInvInitially, PTL DEF Spec, KeepsLifecycle, Lifecycle!Spec
=============================================================================
