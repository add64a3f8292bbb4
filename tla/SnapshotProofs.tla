---------------------------- MODULE SnapshotProofs ----------------------------
(* For any bounds, edits, faults and re-creations: one snapshot for each resource, which is *)
(* recorded only once it is there.  For any policies, machines, selectors, times, edits and *)
(* faults: only registered crons run.                                                       *)
EXTENDS Snapshot, SnapshotPolicy, TLAPS

\* The assumption on the constants, one by one.
LEMMA Constants ==
    /\ MaxCreated \in Nat /\ MaxEdits \in Nat /\ MaxLag \in Nat /\ MaxFaults \in Nat
    /\ None \notin Objects
BY SnapshotAssumption

Versions == Objects \cup {None}

\* The parts of the type of the state.
LogOK == log \in Seq(Versions) /\ Len(log) \in 1..(MaxLag + 1)
PlaceOK ==
    /\ queue \in BOOLEAN
    /\ pc \in {"idle", "own", "list", "take", "stamp", "mark"}
    /\ copy \in Versions
    /\ (pc = "idle") = (copy = None)
GuestOK == listed \in BOOLEAN /\ taken \in [Uids -> Nat]
UsersOK == /\ machine \in {"none", "waiting", "owner", "gone"}
           /\ created \in 0..MaxCreated /\ edits \in 0..MaxEdits
TroubleOK == faults \in 0..MaxFaults /\ happened \subseteq {"early", "failed", "lost", "unrecorded"}

\* The resource that is stored is no newer than the last one made, and its edits were counted.
Counted == Stored # None => Stored.uid <= created /\ Stored.edit <= edits

Parts == LogOK /\ PlaceOK /\ GuestOK /\ UsersOK /\ TroubleOK /\ Counted

LEMMA PartsType == Parts => TypeOK
BY DEF Parts, TypeOK, LogOK, PlaceOK, GuestOK, UsersOK, TroubleOK, Versions

------------------------------------------------------------------------------
(* The versions of the resource *)

LEMMA LogEnds ==
    ASSUME LogOK
    PROVE  Stored \in Versions /\ Seen \in Versions /\ log # <<>>
<1>1. MaxLag \in Nat
  BY Constants
<1>2. Len(log) \in 1..Len(log) /\ 1 \in 1..Len(log)
  BY <1>1 DEF LogOK
<1>3. log[Len(log)] \in Versions /\ log[1] \in Versions
  BY <1>2 DEF LogOK
<1> QED
  BY <1>2, <1>3 DEF Stored, Seen, Last, LogOK

LEMMA StoreKeepsLog ==
    ASSUME LogOK, NEW v \in Versions, Store(v)
    PROVE  LogOK' /\ Stored' = v
<1>1. MaxLag \in Nat
  BY Constants
<1>2. CASE v = Stored
  BY <1>2 DEF Store, LogOK, Stored
<1>3. CASE v # Stored
  <2>1. log' = Append(log, v) /\ Len(log') <= MaxLag + 1
    BY <1>3 DEF Store
  <2>2. log' \in Seq(Versions) /\ Len(log') = Len(log) + 1 /\ log'[Len(log) + 1] = v
    BY <2>1 DEF LogOK
  <2> QED
    BY <1>1, <2>1, <2>2 DEF LogOK, Stored, Last
<1> QED
  BY <1>2, <1>3

LEMMA DeliverKeepsLog ==
    ASSUME LogOK, Deliver
    PROVE  LogOK' /\ Stored' = Stored
<1>1. MaxLag \in Nat
  BY Constants
<1>2. log' = Tail(log) /\ Len(log) > 1 /\ log \in Seq(Versions)
  BY DEF Deliver, LogOK
<1>3. log' \in Seq(Versions) /\ Len(log') = Len(log) - 1
  BY <1>2
<1>4. log'[Len(log')] = log[Len(log)]
  BY <1>2, <1>3
<1> QED
  BY <1>1, <1>2, <1>3, <1>4 DEF LogOK, Stored, Last

LEMMA RestartKeepsLog ==
    ASSUME LogOK, log' = <<Stored>>
    PROVE  LogOK' /\ Stored' = Stored
<1>1. MaxLag \in Nat /\ Stored \in Versions
  BY Constants, LogEnds
<1>2. log' \in Seq(Versions) /\ Len(log') = 1 /\ log'[1] = Stored
  BY <1>1
<1>3. LogOK'
  BY <1>1, <1>2 DEF LogOK
<1>4. Stored' = log'[Len(log')]
  BY DEF Stored, Last
<1> QED
  BY <1>2, <1>3, <1>4

------------------------------------------------------------------------------
(* The type of the state *)

LEMMA TroubleKept ==
    ASSUME TroubleOK
    PROVE  /\ \A kind \in {"failed", "lost", "unrecorded"} : Fault(kind) => TroubleOK'
           /\ \A kind \in {"early", "unrecorded"} : Mark(kind) => TroubleOK'
           /\ Interrupted => TroubleOK'
           /\ UNCHANGED trouble => TroubleOK'
<1>1. MaxFaults \in Nat
  BY Constants
<1>2. ASSUME NEW kind \in {"failed", "lost", "unrecorded"}, Fault(kind) PROVE TroubleOK'
  BY <1>1, <1>2 DEF TroubleOK, Fault
<1>3. ASSUME NEW kind \in {"early", "unrecorded"}, Mark(kind) PROVE TroubleOK'
  BY <1>3 DEF TroubleOK, Mark
<1>4. Interrupted => TroubleOK'
  BY <1>2 DEF Interrupted
<1>5. UNCHANGED trouble => TroubleOK'
  BY DEF TroubleOK, trouble
<1> QED
  BY <1>2, <1>3, <1>4, <1>5

\* The parts that a step leaves alone.
LEMMA Kept ==
    ASSUME Parts
    PROVE  /\ UNCHANGED log => LogOK' /\ Stored' = Stored
           /\ UNCHANGED <<pc, copy, queue>> => PlaceOK'
           /\ UNCHANGED proxmox => GuestOK'
           /\ UNCHANGED users => UsersOK'
           /\ UNCHANGED users /\ Stored' = Stored => Counted'
<1>1. UNCHANGED log => LogOK' /\ Stored' = Stored
  BY DEF Parts, LogOK, Stored
<1>2. UNCHANGED <<pc, copy, queue>> => PlaceOK'
  BY DEF Parts, PlaceOK
<1>3. UNCHANGED proxmox => GuestOK'
  BY DEF Parts, GuestOK, proxmox
<1>4. UNCHANGED users => UsersOK'
  BY DEF Parts, UsersOK, users
<1>5. UNCHANGED users /\ Stored' = Stored => Counted'
  BY DEF Parts, Counted, users
<1> QED
  BY <1>1, <1>2, <1>3, <1>4, <1>5

\* What a user stores.
LEMMA UserSteps ==
    ASSUME Parts, UserCreate \/ UserEdit \/ UserDelete \/ CollectGarbage
    PROVE  /\ LogOK' /\ UsersOK' /\ Counted'
           /\ UNCHANGED <<queue, pc, copy, proxmox, trouble>>
           /\ created <= created'
           /\ \/ Stored' = None
              \/ Stored' # None /\ Stored'.uid = created + 1 /\ created' = created + 1 /\ ~Stored'.created
              \/ /\ Stored # None /\ Stored' # None
                 /\ Stored'.uid = Stored.uid /\ Stored'.created = Stored.created
<1>1. MaxCreated \in Nat /\ MaxEdits \in Nat /\ LogOK /\ UsersOK /\ None \notin Objects
  BY Constants DEF Parts
<1>2. created \in Nat /\ edits \in Nat /\ Stored \in Versions
  BY <1>1, LogEnds DEF UsersOK
<1>3. CASE UserCreate
  <2>1. PICK n \in BOOLEAN, m \in BOOLEAN :
          Store([uid |-> created + 1, named |-> n, matches |-> m, disabled |-> FALSE, edit |-> 0,
                 owned |-> FALSE, stamp |-> 0, created |-> FALSE])
    BY <1>3 DEF UserCreate
  <2> DEFINE new == [uid |-> created + 1, named |-> n, matches |-> m, disabled |-> FALSE, edit |-> 0,
                     owned |-> FALSE, stamp |-> 0, created |-> FALSE]
  <2>2. created + 1 \in Uids /\ created' = created + 1 /\ created' \in 0..MaxCreated
    BY <1>1, <1>2, <1>3 DEF UserCreate, UsersOK, Uids
  <2>3. new \in Objects
    BY <1>1, <2>2 DEF Objects
  <2>4. LogOK' /\ Stored' = new
    BY <1>1, <2>1, <2>3, StoreKeepsLog DEF Versions
  <2>5. new.uid = created + 1 /\ new.edit = 0 /\ new.created = FALSE
    OBVIOUS
  <2>6. Stored' # None /\ Stored'.uid = created + 1 /\ Stored'.edit = 0 /\ ~Stored'.created
    BY <1>1, <2>3, <2>4, <2>5
  <2>7. UNCHANGED <<queue, pc, copy, proxmox, trouble, machine, edits>>
    BY <1>3 DEF UserCreate
  <2>8. UsersOK'
    BY <1>1, <2>2, <2>7 DEF UsersOK
  <2>9. Counted'
    BY <1>2, <2>2, <2>6, <2>7 DEF Counted
  <2> HIDE DEF new
  <2>10. UNCHANGED <<queue, pc, copy, proxmox, trouble>> /\ created <= created'
    BY <1>2, <2>2, <2>7
  <2> QED
    BY <2>2, <2>4, <2>6, <2>8, <2>9, <2>10
<1>4. CASE UserEdit
  <2>1. PICK d \in BOOLEAN : Store([Stored EXCEPT !.edit = @ + 1, !.disabled = d])
    BY <1>4 DEF UserEdit
  <2> DEFINE new == [Stored EXCEPT !.edit = @ + 1, !.disabled = d]
  <2>2. Stored \in Objects /\ edits < MaxEdits /\ edits' = edits + 1 /\ Stored.edit <= edits
    BY <1>2, <1>4 DEF UserEdit, Versions, Parts, Counted
  <2>3. Stored.edit + 1 \in 0..MaxEdits /\ Stored.edit + 1 <= edits'
    BY <1>1, <1>2, <2>2 DEF Objects
  <2>4. /\ new \in Objects
        /\ new.uid = Stored.uid /\ new.created = Stored.created /\ new.edit = Stored.edit + 1
    BY <2>2, <2>3 DEF Objects
  <2>5. LogOK' /\ Stored' = new
    BY <1>1, <2>1, <2>4, StoreKeepsLog DEF Versions
  <2>6. UNCHANGED <<queue, pc, copy, proxmox, trouble, machine, created>>
    BY <1>4 DEF UserEdit
  <2>7. UsersOK'
    BY <1>1, <1>2, <2>2, <2>6 DEF UsersOK
  <2>8. Stored' # None /\ Stored'.uid = Stored.uid /\ Stored'.created = Stored.created /\ Stored'.edit <= edits'
    BY <1>1, <2>3, <2>4, <2>5
  <2>9. Counted'
    <3>1. created' = created /\ Stored.uid <= created
      BY <2>2, <2>6, <1>1 DEF Counted, Parts, Versions
    <3>2. Stored'.uid <= created'
      BY <2>8, <3>1
    <3> QED
      BY <2>8, <3>2 DEF Counted
  <2> HIDE DEF new
  <2>10. UNCHANGED <<queue, pc, copy, proxmox, trouble>> /\ created <= created'
    BY <1>2, <2>6
  <2>11. Stored # None
    BY <1>4 DEF UserEdit
  <2> QED
    BY <2>5, <2>7, <2>8, <2>9, <2>10, <2>11
<1>5. CASE UserDelete
  <2>1. Store(None) /\ UNCHANGED <<queue, pc, copy, proxmox, trouble, users>>
    BY <1>5 DEF UserDelete
  <2>2. LogOK' /\ Stored' = None
    BY <1>1, <2>1, StoreKeepsLog DEF Versions
  <2>3. Counted'
    BY <2>2 DEF Counted
  <2> QED
    BY <1>2, <2>1, <2>2, <2>3, Kept DEF users
<1> QED
  BY <1>3, <1>4, <1>5 DEF CollectGarbage

\* A step of the reconcile, as far as the resource and its copy go.
LEMMA ReconcileSteps ==
    ASSUME Parts, Reconcile \/ ReconcileError
    PROVE  /\ LogOK' /\ PlaceOK' /\ UNCHANGED users
           /\ \/ Stored' = Stored
              \/ /\ Stored # None /\ Stored' # None
                 /\ Stored'.uid = Stored.uid /\ Stored'.edit = Stored.edit
<1>1. LogOK /\ PlaceOK /\ None \notin Objects
  BY Constants DEF Parts
<1>2. Stored \in Versions /\ Seen \in Versions /\ copy \in Versions
  BY <1>1, LogEnds DEF PlaceOK
<1>3. (Return \/ Requeue) => PlaceOK'
  BY <1>1 DEF Return, Requeue, PlaceOK, Versions
<1>4. ASSUME NEW s \in {"own", "list", "take", "stamp", "mark"}, NEW c \in Objects, GotoWith(s, c)
      PROVE  PlaceOK'
  BY <1>1, <1>4 DEF GotoWith, PlaceOK, Versions
<1>5. ASSUME NEW s \in {"own", "list", "take", "stamp", "mark"}, copy # None, Goto(s)
      PROVE  PlaceOK'
  BY <1>2, <1>4, <1>5 DEF Goto, Versions
<1>6. CASE Get
  <2>1. UNCHANGED log /\ UNCHANGED users
    BY <1>6 DEF Get
  <2>2. PlaceOK'
    BY <1>1, <1>2, <1>6 DEF Get, PlaceOK, Versions
  <2> QED
    BY <2>1, <2>2, Kept
<1>7. CASE SetOwner
  <2>1. UNCHANGED users
    BY <1>7 DEF SetOwner
  <2>2. CASE Stored # copy
    BY <1>3, <1>7, <2>1, <2>2, Kept DEF SetOwner
  <2>3. CASE Stored = copy
    <3> DEFINE new == [copy EXCEPT !.owned = TRUE]
    <3>1. copy \in Objects
      BY <1>1, <1>2, <1>7 DEF SetOwner, PlaceOK, Versions
    <3>2. new \in Objects /\ new.uid = copy.uid /\ new.edit = copy.edit
      BY <3>1 DEF Objects
    <3>3. Store(new)
      BY <1>7, <2>3 DEF SetOwner
    <3>4. LogOK' /\ Stored' = new
      BY <1>1, <3>2, <3>3, StoreKeepsLog DEF Versions
    <3>5. Return \/ Requeue \/ GotoWith("list", new)
      BY <1>7, <2>3 DEF SetOwner
    <3>6. PlaceOK'
      BY <1>3, <1>4, <3>2, <3>5
    <3>7. Stored # None /\ Stored' # None /\ Stored'.uid = Stored.uid /\ Stored'.edit = Stored.edit
      BY <1>1, <2>3, <3>1, <3>2, <3>4
    <3> QED
      BY <2>1, <3>4, <3>6, <3>7
  <2> QED
    BY <2>2, <2>3
<1>8. CASE HandleSnapshotCreation
  <2>1. UNCHANGED log /\ UNCHANGED users
    BY <1>8 DEF HandleSnapshotCreation
  <2>2. copy # None
    BY <1>1, <1>8 DEF HandleSnapshotCreation, PlaceOK
  <2>3. Requeue \/ Return \/ Goto("mark") \/ Goto("take")
    BY <1>8 DEF HandleSnapshotCreation
  <2> QED
    BY <1>3, <1>5, <2>1, <2>2, <2>3, Kept
<1>9. CASE CreateVMSnapshot
  <2>1. UNCHANGED log /\ UNCHANGED users
    BY <1>9 DEF CreateVMSnapshot
  <2>2. copy # None
    BY <1>1, <1>9 DEF CreateVMSnapshot, PlaceOK
  <2>3. Requeue \/ Goto("stamp")
    BY <1>9 DEF CreateVMSnapshot
  <2> QED
    BY <1>3, <1>5, <2>1, <2>2, <2>3, Kept
<1>10. CASE SetTimestamp
  <2>1. UNCHANGED users
    BY <1>10 DEF SetTimestamp
  <2>2. CASE Stored # copy
    BY <1>3, <1>10, <2>1, <2>2, Kept DEF SetTimestamp
  <2>3. CASE Stored = copy
    <3> DEFINE new == [copy EXCEPT !.stamp = @ + 1]
    <3>1. copy \in Objects
      BY <1>1, <1>2, <1>10 DEF SetTimestamp, PlaceOK, Versions
    <3>2. new \in Objects /\ new.uid = copy.uid /\ new.edit = copy.edit
      BY <3>1 DEF Objects
    <3>3. Store(new) /\ GotoWith("mark", new)
      BY <1>10, <2>3 DEF SetTimestamp
    <3>4. LogOK' /\ Stored' = new
      BY <1>1, <3>2, <3>3, StoreKeepsLog DEF Versions
    <3>5. PlaceOK'
      BY <1>4, <3>2, <3>3
    <3>6. Stored # None /\ Stored' # None /\ Stored'.uid = Stored.uid /\ Stored'.edit = Stored.edit
      BY <1>1, <2>3, <3>1, <3>2, <3>4
    <3> QED
      BY <2>1, <3>4, <3>5, <3>6
  <2> QED
    BY <2>2, <2>3
<1>11. CASE SetCreated
  <2>1. PlaceOK' /\ UNCHANGED users
    BY <1>3, <1>11 DEF SetCreated
  <2>2. CASE Stored = None
    BY <1>11, <2>1, <2>2, Kept DEF SetCreated
  <2>3. CASE Stored # None
    <3> DEFINE new == [Stored EXCEPT !.created = TRUE]
    <3>1. Stored \in Objects
      BY <1>2, <2>3 DEF Versions
    <3>2. new \in Objects /\ new.uid = Stored.uid /\ new.edit = Stored.edit
      BY <3>1 DEF Objects
    <3>3. LogOK' /\ Stored' = new
      BY <1>1, <1>11, <2>3, <3>2, StoreKeepsLog DEF SetCreated, Versions
    <3>4. Stored' # None /\ Stored'.uid = Stored.uid /\ Stored'.edit = Stored.edit
      BY <1>1, <3>2, <3>3
    <3> QED
      BY <2>1, <2>3, <3>3, <3>4
  <2> QED
    BY <2>2, <2>3
<1>12. CASE ReconcileError
  BY <1>3, <1>12, Kept DEF ReconcileError
<1> QED
  BY <1>6, <1>7, <1>8, <1>9, <1>10, <1>11, <1>12 DEF Reconcile

\* What is taken is counted for the resource that the reconcile works on.
LEMMA TakenCounts ==
    ASSUME Parts, pc = "take", Taken
    PROVE  /\ GuestOK' /\ copy \in Objects /\ copy.uid \in Uids
           /\ taken'[copy.uid] = taken[copy.uid] + 1
           /\ \A u \in Uids : u # copy.uid => taken'[u] = taken[u]
<1>1. copy \in Objects
  BY DEF Parts, PlaceOK, Versions
<1>2. copy.uid \in Uids
  BY <1>1 DEF Objects
<1>3. taken \in [Uids -> Nat] /\ listed \in BOOLEAN
  BY DEF Parts, GuestOK
<1>4. taken' = [taken EXCEPT ![copy.uid] = taken[copy.uid] + 1] /\ listed' \in BOOLEAN
  BY <1>1, <1>3 DEF Taken, Objects
<1> QED
  BY <1>1, <1>2, <1>3, <1>4 DEF GuestOK

LEMMA TypeKept ==
    ASSUME Parts, [Next]_vars
    PROVE  Parts'
<1>1. CASE UserCreate \/ UserEdit \/ UserDelete \/ CollectGarbage
  BY <1>1, UserSteps, Kept, TroubleKept DEF Parts
<1>2. CASE MachineChanges
  <2>1. UNCHANGED <<log, queue, pc, copy>> /\ UNCHANGED proxmox /\ UNCHANGED trouble
    BY <1>2 DEF MachineChanges, reconcile
  <2>2. machine' \in {"waiting", "owner", "gone"} /\ UNCHANGED <<created, edits>>
    BY <1>2 DEF MachineChanges
  <2>3. UsersOK' /\ Counted'
    BY <2>1, <2>2, Kept DEF Parts, UsersOK, Counted
  <2> QED
    BY <2>1, <2>3, Kept, TroubleKept DEF Parts
<1>3. CASE Deliver
  <2>1. LogOK' /\ Stored' = Stored
    BY <1>3, DeliverKeepsLog DEF Parts
  <2>2. UNCHANGED <<pc, copy>> /\ UNCHANGED proxmox /\ UNCHANGED trouble /\ UNCHANGED users
    BY <1>3 DEF Deliver
  <2>3. queue' \in BOOLEAN
    BY <1>3, Zenon DEF Deliver
  <2>4. PlaceOK'
    BY <2>2, <2>3 DEF Parts, PlaceOK
  <2> QED
    BY <2>1, <2>2, <2>4, Kept, TroubleKept DEF Parts
<1>4. CASE Reconcile \/ ReconcileError
  <2>1. LogOK' /\ PlaceOK' /\ UNCHANGED users /\ UsersOK'
    BY <1>4, ReconcileSteps, Kept
  <2>2. Counted'
    BY <1>4, ReconcileSteps DEF Parts, Counted, users
  <2>3. GuestOK'
    <3>1. UNCHANGED proxmox \/ (pc = "take" /\ Taken)
      BY <1>4 DEF Reconcile, ReconcileError, Get, SetOwner, HandleSnapshotCreation, CreateVMSnapshot,
                  SetTimestamp, SetCreated
    <3> QED
      BY <3>1, Kept, TakenCounts
  <2>4. TroubleOK'
    <3>1. \/ UNCHANGED trouble \/ Mark("early") \/ Mark("unrecorded")
          \/ Fault("failed") \/ Fault("lost") \/ Interrupted
      BY <1>4 DEF Reconcile, ReconcileError, Get, SetOwner, HandleSnapshotCreation, CreateVMSnapshot,
                  SetTimestamp, SetCreated, NoFault
    <3> QED
      BY <3>1, TroubleKept DEF Parts
  <2> QED
    BY <2>1, <2>2, <2>3, <2>4 DEF Parts
<1>5. CASE Restart
  <2>1. LogOK' /\ Stored' = Stored
    BY <1>5, RestartKeepsLog DEF Restart, Parts
  <2>2. PlaceOK'
    BY <1>5 DEF Restart, PlaceOK, Versions
  <2> QED
    BY <1>5, <2>1, <2>2, Kept, TroubleKept DEF Restart, Parts
<1>6. CASE UNCHANGED vars
  BY <1>6, Kept, TroubleKept DEF vars, reconcile, Parts
<1> QED
  BY <1>1, <1>2, <1>3, <1>4, <1>5, <1>6 DEF Next

LEMMA Initially ==
    ASSUME Init
    PROVE  Parts /\ Stored = None
<1>1. MaxCreated \in Nat /\ MaxEdits \in Nat /\ MaxLag \in Nat /\ MaxFaults \in Nat
  BY Constants
<1>2. log = <<None>> /\ None \in Versions
  BY DEF Init, Versions
<1>3. LogOK
  BY <1>1, <1>2 DEF LogOK
<1>4. Stored = None
  BY <1>2 DEF Stored, Last
<1>5. PlaceOK
  BY DEF Init, PlaceOK, Versions
<1>6. GuestOK /\ UsersOK /\ TroubleOK
  BY <1>1 DEF Init, GuestOK, UsersOK, TroubleOK
<1> QED
  BY <1>3, <1>4, <1>5, <1>6 DEF Parts, Counted

\* Every state of the resource, of its versions on the way to the informer cache, of the snapshots
\* and of the reconcile has its type: a reconcile has a copy exactly while it runs.
THEOREM TypeCorrect == Spec => []TypeOK
<1>1. Init => Parts
  BY Initially
<1>2. Parts /\ [Next]_vars => Parts'
  BY TypeKept
<1> QED
  BY <1>1, <1>2, PartsType, PTL DEF Spec

------------------------------------------------------------------------------
(* One snapshot for each resource *)

Working == pc \in {"list", "take", "stamp", "mark"}
Recording == pc \in {"stamp", "mark"}
Alive(u) == Stored # None /\ Stored.uid = u
Quiet == happened \cap {"lost", "unrecorded"} = {}

\* Snapshots are taken for resources that were made, the copy's is none of the newer ones.
Ages ==
    /\ \A u \in Uids : taken[u] > 0 => u <= created
    /\ Working => copy.uid <= created /\ (Stored # None => copy.uid <= Stored.uid)

\* The copy that is worked on has the status of its resource, which only this worker writes.
Agree ==
    /\ Working /\ Alive(copy.uid) => Stored.created = copy.created
    /\ pc = "take" => ~copy.created

\* A snapshot that was taken is recorded, or it is about to be.
Once ==
    Quiet => \A u \in Uids :
        /\ taken[u] <= 1
        /\ taken[u] > 0 /\ Alive(u) => Stored.created \/ (Recording /\ copy.uid = u)
        /\ pc \in {"list", "take"} /\ copy.uid = u /\ ~copy.created => taken[u] = 0

Inv == Ages /\ Agree /\ Once

\* The resource that is stored keeps its identity and its status.
SameStored ==
    /\ Stored' = None <=> Stored = None
    /\ Stored # None => Stored'.uid = Stored.uid /\ Stored'.created = Stored.created

\* A step that does nothing to the reconcile and to the resource.
LEMMA SteadyKeeps ==
    ASSUME Parts, Inv, Stored' = Stored, UNCHANGED <<pc, copy, taken, created, happened>>
    PROVE  Inv'
BY DEF Inv, Ages, Agree, Once, Working, Recording, Alive, Quiet

LEMMA UsersKeep ==
    ASSUME Parts, Inv, UserCreate \/ UserEdit \/ UserDelete \/ CollectGarbage
    PROVE  Inv'
<1>1. /\ UNCHANGED <<pc, copy, taken, happened>>
      /\ created <= created'
      /\ \/ Stored' = None
         \/ Stored' # None /\ Stored'.uid = created + 1 /\ created' = created + 1 /\ ~Stored'.created
         \/ /\ Stored # None /\ Stored' # None
            /\ Stored'.uid = Stored.uid /\ Stored'.created = Stored.created
  BY UserSteps DEF proxmox, trouble
<1>2. created \in Nat /\ created' \in Nat /\ Uids \subseteq Nat
  BY Constants, UserSteps DEF Parts, UsersOK, Uids
<1>3. Working => copy.uid \in Nat
  BY <1>2 DEF Working, Parts, PlaceOK, Versions, Objects
<1>4. Ages'
  BY <1>1, <1>2, <1>3 DEF Inv, Ages, Working
<1>5. Agree'
  BY <1>1, <1>2, <1>3 DEF Inv, Ages, Agree, Working, Alive
<1>6. Once'
  BY <1>1, <1>2 DEF Inv, Ages, Once, Recording, Alive, Quiet
<1> QED
  BY <1>4, <1>5, <1>6 DEF Inv

\* A reconcile begins, or ends with what it took recorded or given up.
LEMMA EndsKeep ==
    ASSUME Parts, Inv, SameStored, UNCHANGED <<taken, created>>, happened \subseteq happened',
           pc' \in {"idle", "own"},
           Recording /\ Alive(copy.uid) => ~Quiet'
    PROVE  Inv'
<1>1. ~Working' /\ ~Recording' /\ (Quiet' => Quiet)
  BY DEF Working, Recording, Quiet
<1>2. Ages' /\ Agree'
  BY <1>1 DEF Inv, Ages, Agree, Working
<1>3. Once'
  BY <1>1 DEF Inv, Once, SameStored, Alive, Recording
<1> QED
  BY <1>2, <1>3 DEF Inv

\* A reconcile goes on with the same resource.
LEMMA GoesOnKeeps ==
    ASSUME Parts, Inv, SameStored, UNCHANGED <<taken, created, happened>>,
           Working, Working', copy'.uid = copy.uid, copy'.created = copy.created,
           pc' = "take" => pc = "list" /\ ~copy.created,
           pc' # "list",
           Recording => Recording'
    PROVE  Inv'
<1>1. Ages'
  BY DEF Inv, Ages, SameStored
<1>2. Agree'
  BY DEF Inv, Agree, SameStored, Alive
<1>3. Once'
  BY DEF Inv, Once, SameStored, Alive, Recording, Quiet
<1> QED
  BY <1>1, <1>2, <1>3 DEF Inv

LEMMA SetOwnerKeeps ==
    ASSUME Parts, Inv, SetOwner
    PROVE  Inv'
<1>1. UNCHANGED <<taken, created, happened>> /\ ~Working /\ ~Recording
  BY DEF SetOwner, proxmox, users, NoFault, trouble, Working, Recording
<1>2. copy \in Objects /\ None \notin Objects /\ LogOK
  BY Constants DEF SetOwner, Parts, PlaceOK, Versions
<1>3. CASE Stored # copy
  <2>1. Stored' = Stored /\ pc' = "idle"
    BY <1>3, Kept DEF SetOwner, Requeue
  <2>2. SameStored
    BY <2>1 DEF SameStored
  <2> QED
    BY <1>1, <2>1, <2>2, EndsKeep
<1>4. CASE Stored = copy
  <2> DEFINE new == [copy EXCEPT !.owned = TRUE]
  <2>1. new \in Objects /\ new.uid = copy.uid /\ new.created = copy.created
    BY <1>2 DEF Objects
  <2>2. Stored' = new
    BY <1>2, <1>4, <2>1, StoreKeepsLog DEF SetOwner, Versions
  <2>3. SameStored
    BY <1>2, <1>4, <2>1, <2>2 DEF SameStored
  <2>4. (pc' = "idle") \/ (pc' = "list" /\ copy' = new)
    BY <1>4 DEF SetOwner, Return, Requeue, GotoWith
  <2>5. CASE pc' = "idle"
    BY <1>1, <2>3, <2>5, EndsKeep
  <2>6. CASE pc' = "list" /\ copy' = new
    <3> HIDE DEF new
    <3>1. copy'.uid = copy.uid /\ copy'.created = copy.created /\ Stored # None
      BY <1>2, <1>4, <2>1, <2>6
    <3>2. Stored'.uid = copy.uid /\ Stored'.created = copy.created /\ copy.uid <= created /\ copy.uid \in Nat
      BY <1>2, <1>4, <2>1, <2>2 DEF Parts, Counted, Objects, Uids
    <3>3. Ages'
      BY <1>1, <3>1, <3>2 DEF Inv, Ages
    <3>4. Agree'
      BY <2>6, <3>1, <3>2 DEF Agree, Alive
    <3>5. ASSUME Quiet', NEW u \in Uids
          PROVE  /\ taken'[u] <= 1
                 /\ taken'[u] > 0 /\ Alive(u)' => Stored'.created
                 /\ copy'.uid = u /\ ~copy'.created => taken'[u] = 0
      <4>1. taken[u] \in Nat /\ taken'[u] = taken[u] /\ Quiet
        BY <1>1, <3>5 DEF Parts, GuestOK, Quiet
      <4>2. taken[u] <= 1 /\ (taken[u] > 0 /\ Alive(u) => Stored.created)
        BY <1>1, <4>1 DEF Inv, Once
      <4>3. Alive(u)' <=> Alive(u)
        BY <2>3 DEF SameStored, Alive
      <4>4. Alive(u) => Stored'.created = Stored.created
        BY <2>3 DEF SameStored, Alive
      <4>5. copy'.uid = u /\ ~copy'.created => Alive(u) /\ ~Stored.created
        BY <1>4, <3>1 DEF Alive
      <4> QED
        BY <4>1, <4>2, <4>3, <4>4, <4>5
    <3>6. Once'
      BY <3>5 DEF Once
    <3> QED
      BY <3>3, <3>4, <3>6 DEF Inv
  <2> QED
    BY <2>4, <2>5, <2>6
<1> QED
  BY <1>3, <1>4

LEMMA ListKeeps ==
    ASSUME Parts, Inv, HandleSnapshotCreation
    PROVE  Inv'
<1>1. UNCHANGED <<taken, created, happened>> /\ pc = "list" /\ Stored' = Stored
  BY Kept DEF HandleSnapshotCreation, proxmox, users, NoFault, trouble
<1>2. SameStored /\ Working /\ ~Recording
  BY <1>1 DEF SameStored, Working, Recording
<1>3. \/ pc' = "idle"
      \/ pc' = "mark" /\ copy' = copy
      \/ pc' = "take" /\ copy' = copy /\ ~copy.created
  BY DEF HandleSnapshotCreation, Requeue, Return, Goto, GotoWith
<1>4. CASE pc' = "idle"
  BY <1>1, <1>2, <1>4, EndsKeep
<1>5. CASE pc' # "idle"
  <2>1. Working' /\ copy' = copy /\ pc' # "list" /\ (pc' = "take" => ~copy.created)
    BY <1>3, <1>5 DEF Working
  <2> QED
    BY <1>1, <1>2, <2>1, GoesOnKeeps
<1> QED
  BY <1>4, <1>5

LEMMA TakeKeeps ==
    ASSUME Parts, Inv, CreateVMSnapshot
    PROVE  Inv'
<1>1. UNCHANGED created /\ pc = "take" /\ Stored' = Stored /\ happened \subseteq happened'
  BY Kept DEF CreateVMSnapshot, users, NoFault, trouble, Fault
<1>2. SameStored /\ Working /\ ~Recording
  BY <1>1 DEF SameStored, Working, Recording
<1>3. CASE Requeue /\ UNCHANGED proxmox
  BY <1>1, <1>2, <1>3, EndsKeep DEF Requeue, proxmox
<1>4. CASE Taken
  <2>1. /\ copy.uid \in Uids /\ Uids \subseteq Nat /\ taken \in [Uids -> Nat] /\ created \in Nat
        /\ taken'[copy.uid] = taken[copy.uid] + 1
        /\ \A u \in Uids : u # copy.uid => taken'[u] = taken[u]
    BY <1>1, <1>4, TakenCounts, Constants DEF Parts, GuestOK, UsersOK, Uids
  <2>2. \/ pc' = "stamp" /\ copy' = copy /\ UNCHANGED happened
        \/ pc' = "idle" /\ ~Quiet'
    <3>1. \/ Goto("stamp") /\ NoFault
          \/ Requeue /\ Fault("lost")
          \/ Requeue /\ UNCHANGED proxmox
      BY DEF CreateVMSnapshot
    <3>2. ~(UNCHANGED proxmox)
      <4>1. taken'[copy.uid] # taken[copy.uid]
        <5>1. taken[copy.uid] \in Nat
          BY <2>1
        <5> QED
          BY <2>1, <5>1
      <4> QED
        BY <4>1 DEF proxmox
    <3> QED
      BY <3>1, <3>2 DEF Goto, GotoWith, NoFault, trouble, Requeue, Fault, Quiet
  <2>3. copy.uid <= created /\ (Stored # None => copy.uid <= Stored.uid)
    BY <1>2 DEF Inv, Ages
  <2>4. Ages'
    BY <1>1, <2>1, <2>2, <2>3 DEF Inv, Ages, Working
  <2>5. Agree'
    BY <1>1, <1>2, <2>2 DEF Inv, Agree, Working, Alive
  <2>6. Once'
    <3>1. CASE pc' = "idle" /\ ~Quiet'
      BY <3>1 DEF Once
    <3>2. CASE pc' = "stamp" /\ copy' = copy /\ UNCHANGED happened
      <4>1. ASSUME Quiet PROVE taken[copy.uid] = 0 /\ \A u \in Uids : taken[u] <= 1
        BY <1>1, <2>1, <4>1 DEF Inv, Agree, Once
      <4>2. ASSUME Quiet', NEW u \in Uids
            PROVE  /\ taken'[u] <= 1
                   /\ taken'[u] > 0 /\ Alive(u)' => Stored'.created \/ (Recording' /\ copy'.uid = u)
        <5>1. Quiet
          BY <3>2, <4>2 DEF Quiet
        <5>2. CASE u = copy.uid
          BY <2>1, <3>2, <4>1, <5>1, <5>2 DEF Recording
        <5>3. CASE u # copy.uid
          BY <1>1, <1>2, <2>1, <4>2, <5>1, <5>3 DEF Inv, Once, Alive
        <5> QED
          BY <5>2, <5>3
      <4> QED
        BY <3>2, <4>2 DEF Once
    <3> QED
      BY <2>2, <3>1, <3>2
  <2> QED
    BY <2>4, <2>5, <2>6 DEF Inv
<1> QED
  BY <1>3, <1>4 DEF CreateVMSnapshot

LEMMA TimestampKeeps ==
    ASSUME Parts, Inv, SetTimestamp
    PROVE  Inv'
<1>1. UNCHANGED <<taken, created>> /\ Working /\ Recording /\ pc = "stamp"
  BY DEF SetTimestamp, proxmox, users, Working, Recording
<1>2. copy \in Objects /\ None \notin Objects /\ LogOK
  BY Constants DEF SetTimestamp, Parts, PlaceOK, Versions
<1>3. CASE Stored # copy
  <2>1. Stored' = Stored /\ pc' = "idle" /\ happened \subseteq happened' /\ (Stored = None \/ ~Quiet')
    BY <1>3, Kept DEF SetTimestamp, Requeue, Return, NoFault, trouble, Mark, Quiet
  <2>2. SameStored /\ (Alive(copy.uid) => ~Quiet')
    BY <2>1 DEF SameStored, Alive
  <2> QED
    BY <1>1, <2>1, <2>2, EndsKeep
<1>4. CASE Stored = copy
  <2> DEFINE new == [copy EXCEPT !.stamp = @ + 1]
  <2>1. new \in Objects /\ new.uid = copy.uid /\ new.created = copy.created
    BY <1>2 DEF Objects
  <2>2. Store(new) /\ GotoWith("mark", new) /\ NoFault
    BY <1>4 DEF SetTimestamp
  <2>3. Stored' = new
    BY <1>2, <2>1, <2>2, StoreKeepsLog DEF Versions
  <2>4. SameStored
    BY <1>2, <1>4, <2>1, <2>3 DEF SameStored
  <2>5. pc' = "mark" /\ copy' = new /\ UNCHANGED happened
    BY <2>2 DEF GotoWith, NoFault, trouble
  <2>6. Working' /\ Recording'
    BY <2>5 DEF Working, Recording
  <2> QED
    BY <1>1, <2>1, <2>4, <2>5, <2>6, GoesOnKeeps
<1> QED
  BY <1>3, <1>4

LEMMA CreatedKeeps ==
    ASSUME Parts, Inv, SetCreated
    PROVE  Inv'
<1>1. UNCHANGED <<taken, created, happened>> /\ pc' = "idle" /\ Recording /\ ~Recording' /\ ~Working'
  BY DEF SetCreated, Return, proxmox, users, NoFault, trouble, Working, Recording
<1>2. None \notin Objects /\ LogOK /\ Stored \in Versions
  BY Constants, LogEnds DEF Parts
<1>3. CASE Stored = None
  <2>1. SameStored /\ ~Alive(copy.uid)
    BY <1>3, Kept DEF SetCreated, SameStored, Alive
  <2> QED
    BY <1>1, <2>1, EndsKeep
<1>4. CASE Stored # None
  <2> DEFINE new == [Stored EXCEPT !.created = TRUE]
  <2>1. Stored \in Objects
    BY <1>2, <1>4 DEF Versions
  <2>2. new \in Objects /\ new.uid = Stored.uid /\ new.created
    BY <2>1 DEF Objects
  <2>3. Stored' = new
    BY <1>2, <1>4, <2>2, StoreKeepsLog DEF SetCreated, Versions
  <2>4. Stored'.created
    BY <2>2, <2>3
  <2>5. Ages' /\ Agree'
    BY <1>1 DEF Inv, Ages, Agree
  <2>6. Once'
    BY <1>1, <2>4 DEF Inv, Once, Quiet
  <2> QED
    BY <2>5, <2>6 DEF Inv
<1> QED
  BY <1>3, <1>4

LEMMA InvKept ==
    ASSUME Parts, Inv, [Next]_vars
    PROVE  Inv'
<1>1. CASE MachineChanges \/ UNCHANGED vars
  BY <1>1, Kept, SteadyKeeps DEF MachineChanges, vars, reconcile, proxmox, trouble, users
<1>2. CASE Deliver
  <2>1. Stored' = Stored
    BY <1>2, DeliverKeepsLog DEF Parts
  <2> QED
    BY <1>2, <2>1, SteadyKeeps DEF Deliver, proxmox, trouble, users
<1>3. CASE Get
  <2>1. UNCHANGED <<taken, created>> /\ Stored' = Stored /\ happened \subseteq happened'
    BY <1>3, Kept DEF Get, proxmox, users, NoFault, trouble, Mark
  <2>2. pc' \in {"idle", "own"} /\ ~Recording
    BY <1>3 DEF Get, Recording
  <2>3. SameStored
    BY <2>1 DEF SameStored
  <2> QED
    BY <2>1, <2>2, <2>3, EndsKeep
<1>4. CASE ReconcileError \/ Restart
  <2>1. UNCHANGED <<taken, created>> /\ pc' = "idle" /\ Interrupted
    BY <1>4 DEF ReconcileError, Restart, Requeue, proxmox, users
  <2>2. Stored' = Stored
    BY <1>4, Kept, RestartKeepsLog DEF ReconcileError, Restart, Parts
  <2>3. happened \subseteq happened' /\ (Recording => ~Quiet')
    BY <2>1 DEF Interrupted, Fault, Recording, Quiet
  <2>4. SameStored
    BY <2>2 DEF SameStored
  <2> QED
    BY <2>1, <2>3, <2>4, EndsKeep
<1> QED
  BY <1>1, <1>2, <1>3, <1>4, UsersKeep, SetOwnerKeeps, ListKeeps, TakeKeeps, TimestampKeeps, CreatedKeeps
     DEF Next, Reconcile

LEMMA InvInitially ==
    ASSUME Init
    PROVE  Inv
<1>1. Stored = None /\ pc = "idle" /\ \A u \in Uids : taken[u] = 0
  BY Initially DEF Init
<1> QED
  BY <1>1 DEF Inv, Ages, Agree, Once, Working, Recording, Alive

\* One snapshot is taken for a resource at most, however its copy lags, whoever edits, deletes and
\* makes it again, and whatever call fails before the snapshot, unless the outcome of the task is
\* lost or the record of the snapshot is.
THEOREM OneSnapshot == Spec => []TakenOnce
<1>1. Init => Parts /\ Inv
  BY Initially, InvInitially
<1>2. Parts /\ Inv /\ [Next]_vars => Parts' /\ Inv'
  BY TypeKept, InvKept
<1>3. Inv => TakenOnce
  BY DEF Inv, Once, Quiet, TakenOnce
<1> QED
  BY <1>1, <1>2, <1>3, PTL DEF Spec

\* Only CreateVMSnapshot takes a snapshot, for a copy that has the status of its resource.
LEMMA OnlyForUncreated ==
    ASSUME Parts, Inv, [Next]_vars
    PROVE  \A u \in Uids : taken'[u] > taken[u] => (Stored # None /\ Stored.uid = u => ~Stored.created)
<1>1. CASE UNCHANGED taken
  BY <1>1 DEF Parts, GuestOK
<1>2. CASE pc = "take" /\ Taken
  <2>1. /\ copy.uid \in Uids /\ taken \in [Uids -> Nat]
        /\ \A u \in Uids : u # copy.uid => taken'[u] = taken[u]
    BY <1>2, TakenCounts DEF Parts, GuestOK
  <2>2. Alive(copy.uid) => ~Stored.created
    BY <1>2 DEF Inv, Agree, Working
  <2>3. ASSUME NEW u \in Uids, taken'[u] > taken[u] PROVE u = copy.uid
    BY <2>1, <2>3
  <2> QED
    BY <2>2, <2>3 DEF Alive
<1>3. UNCHANGED taken \/ (pc = "take" /\ Taken)
  BY UserSteps DEF Next, Reconcile, ReconcileError, Restart, Deliver, MachineChanges, Get, SetOwner,
     HandleSnapshotCreation, CreateVMSnapshot, SetTimestamp, SetCreated, proxmox, vars
<1> QED
  BY <1>1, <1>2, <1>3

\* Whatever fails, however the copy lags and whenever the process restarts, no snapshot is taken for
\* a resource whose status says Created.
THEOREM NothingAfterCreated == Spec => CreatedIsFinal
<1>1. Init => Parts /\ Inv
  BY Initially, InvInitially
<1>2. Parts /\ Inv /\ [Next]_vars => Parts' /\ Inv'
  BY TypeKept, InvKept
<1>3. Parts /\ Inv /\ [Next]_vars
      => (\A u \in Uids : taken'[u] > taken[u] => (Stored # None /\ Stored.uid = u => ~Stored.created))
  BY OnlyForUncreated
<1> QED
  BY <1>1, <1>2, <1>3, PTL DEF Spec, CreatedIsFinal

------------------------------------------------------------------------------
(* The status *)

\* What a reconcile records was taken, and so was what is recorded.
Recorded ==
    /\ Recording => taken[copy.uid] > 0
    /\ Stored # None /\ Stored.created => \E u \in Uids : u <= Stored.uid /\ taken[u] > 0

\* Proxmox lists something that is no snapshot, so the name alone is never all that it lists.
LEMMA NeverExists ==
    ASSUME NEW a \in Always, a \notin {"desired", "now"}
    PROVE  ~ExistsIn({SnapshotName}, Listing)
BY DEF ExistsIn, SnapshotName, Listing

\* What is recorded stays so while the resource keeps its status and no snapshot is forgotten.
LEMMA RecordStays ==
    ASSUME Parts, Recorded, \A u \in Uids : taken[u] > 0 => taken'[u] > 0,
           Stored' = None \/ ~Stored'.created
           \/ (Stored # None /\ Stored'.uid = Stored.uid /\ Stored'.created = Stored.created)
    PROVE  Stored' # None /\ Stored'.created => \E u \in Uids : u <= Stored'.uid /\ taken'[u] > 0
BY DEF Recorded

LEMMA RecordedKept ==
    ASSUME NEW a \in Always, a \notin {"desired", "now"}, Parts, Inv, Recorded, [Next]_vars
    PROVE  Recorded'
<1>1. None \notin Objects /\ LogOK /\ Stored \in Versions /\ copy \in Versions /\ taken \in [Uids -> Nat]
  BY Constants, LogEnds DEF Parts, PlaceOK, GuestOK
<1>2. \A u \in Uids : taken[u] > 0 => taken'[u] > 0
  <2>1. CASE UNCHANGED taken
    BY <2>1
  <2>2. CASE pc = "take" /\ Taken
    <3>1. /\ taken'[copy.uid] = taken[copy.uid] + 1
          /\ \A u \in Uids : u # copy.uid => taken'[u] = taken[u]
      BY <2>2, TakenCounts
    <3> QED
      BY <1>1, <3>1
  <2>3. UNCHANGED taken \/ (pc = "take" /\ Taken)
    BY UserSteps DEF Next, Reconcile, ReconcileError, Restart, Deliver, MachineChanges, Get, SetOwner,
       HandleSnapshotCreation, CreateVMSnapshot, SetTimestamp, SetCreated, proxmox, vars
  <2> QED
    BY <2>1, <2>2, <2>3
<1>3. ASSUME pc' \in {"idle", "own", "list", "take"}, Stored' = Stored PROVE Recorded'
  BY <1>2, <1>3 DEF Recorded, Recording
<1>4. CASE UserCreate \/ UserEdit \/ UserDelete \/ CollectGarbage
  <2>1. UNCHANGED <<pc, copy, taken>>
    BY <1>4, UserSteps DEF proxmox
  <2>2. \/ Stored' = None \/ ~Stored'.created
        \/ Stored # None /\ Stored'.uid = Stored.uid /\ Stored'.created = Stored.created
    BY <1>4, UserSteps
  <2> QED
    BY <1>2, <2>1, <2>2, RecordStays DEF Recorded, Recording
<1>5. CASE MachineChanges \/ Deliver \/ UNCHANGED vars
  <2>1. Stored' = Stored /\ UNCHANGED <<pc, copy, taken>>
    BY <1>5, Kept, DeliverKeepsLog DEF MachineChanges, Deliver, vars, reconcile, proxmox, Parts
  <2> QED
    BY <2>1 DEF Recorded, Recording
<1>6. CASE Get \/ ReconcileError \/ Restart
  <2>1. pc' \in {"idle", "own"}
    BY <1>6 DEF Get, ReconcileError, Restart, Requeue
  <2>2. Stored' = Stored
    BY <1>6, Kept, RestartKeepsLog DEF Get, ReconcileError, Restart, Parts
  <2> QED
    BY <1>3, <2>1, <2>2
<1>7. CASE SetOwner
  <2>1. pc' \in {"idle", "list"}
    BY <1>7 DEF SetOwner, Requeue, Return, GotoWith
  <2>2. CASE Stored # copy
    BY <1>3, <1>7, <2>1, <2>2, Kept DEF SetOwner
  <2>3. CASE Stored = copy
    <3> DEFINE new == [copy EXCEPT !.owned = TRUE]
    <3>1. copy \in Objects /\ new \in Objects /\ new.uid = copy.uid /\ new.created = copy.created
      BY <1>1, <1>7 DEF SetOwner, Parts, PlaceOK, Versions, Objects
    <3>2. Stored' = new
      BY <1>1, <1>7, <2>3, <3>1, StoreKeepsLog DEF SetOwner, Versions
    <3>3. Stored # None /\ Stored'.uid = Stored.uid /\ Stored'.created = Stored.created
      BY <1>1, <2>3, <3>1, <3>2
    <3> QED
      BY <1>2, <2>1, <3>3, RecordStays DEF Recorded, Recording
  <2> QED
    BY <2>2, <2>3
<1>8. CASE HandleSnapshotCreation
  <2>1. pc' \in {"idle", "take"}
    BY <1>8, NeverExists DEF HandleSnapshotCreation, Requeue, Return, Goto, GotoWith
  <2>2. Stored' = Stored
    BY <1>8, Kept DEF HandleSnapshotCreation
  <2> QED
    BY <1>3, <2>1, <2>2
<1>9. CASE CreateVMSnapshot
  <2>1. Stored' = Stored /\ pc = "take"
    BY <1>9, Kept DEF CreateVMSnapshot
  <2>2. CASE Requeue
    BY <1>3, <2>1, <2>2 DEF Requeue
  <2>3. CASE Taken /\ Goto("stamp")
    <3>1. copy.uid \in Uids /\ taken'[copy.uid] = taken[copy.uid] + 1 /\ copy' = copy
      BY <2>1, <2>3, TakenCounts DEF Goto, GotoWith
    <3>2. taken[copy.uid] \in Nat
      BY <1>1, <3>1
    <3>3. taken'[copy'.uid] > 0
      BY <3>1, <3>2
    <3> QED
      BY <1>2, <2>1, <3>3 DEF Recorded
  <2> QED
    BY <1>9, <2>2, <2>3 DEF CreateVMSnapshot
<1>10. CASE SetTimestamp
  <2>1. CASE Stored # copy
    <3>1. Stored' = Stored /\ pc' = "idle"
      BY <1>10, <2>1, Kept DEF SetTimestamp, Requeue, Return
    <3> QED
      BY <1>3, <3>1
  <2>2. CASE Stored = copy
    <3> DEFINE new == [copy EXCEPT !.stamp = @ + 1]
    <3>1. copy \in Objects /\ new \in Objects /\ new.uid = copy.uid /\ new.created = copy.created
      BY <1>1, <1>10 DEF SetTimestamp, Parts, PlaceOK, Versions, Objects
    <3>2. Stored' = new /\ copy' = new /\ UNCHANGED taken
      BY <1>1, <1>10, <2>2, <3>1, StoreKeepsLog DEF SetTimestamp, Versions, GotoWith, proxmox
    <3>3. Stored # None /\ Stored'.uid = Stored.uid /\ Stored'.created = Stored.created
      BY <1>1, <2>2, <3>1, <3>2
    <3>4. taken'[copy'.uid] > 0
      BY <1>10, <3>1, <3>2 DEF SetTimestamp, Recorded, Recording
    <3> QED
      BY <1>2, <3>3, <3>4, RecordStays DEF Recorded
  <2> QED
    BY <2>1, <2>2
<1>11. CASE SetCreated
  <2>1. pc' = "idle" /\ UNCHANGED taken /\ Recording /\ Working
    BY <1>11 DEF SetCreated, Return, proxmox, Recording, Working
  <2>2. CASE Stored = None
    BY <1>3, <1>11, <2>1, <2>2, Kept DEF SetCreated
  <2>3. CASE Stored # None
    <3> DEFINE new == [Stored EXCEPT !.created = TRUE]
    <3>1. Stored \in Objects /\ new \in Objects /\ new.uid = Stored.uid
      BY <1>1, <2>3 DEF Versions, Objects
    <3>2. Stored' = new
      BY <1>1, <1>11, <2>3, <3>1, StoreKeepsLog DEF SetCreated, Versions
    <3>3. Stored'.uid = Stored.uid
      BY <3>1, <3>2
    <3>4. copy.uid \in Uids /\ copy.uid <= Stored.uid /\ taken[copy.uid] > 0
      BY <1>1, <1>11, <2>1, <2>3 DEF SetCreated, Parts, PlaceOK, Versions, Objects, Inv, Ages, Recorded
    <3>5. \E u \in Uids : u <= Stored'.uid /\ taken'[u] > 0
      BY <2>1, <3>3, <3>4
    <3> QED
      BY <2>1, <3>5 DEF Recorded, Recording
  <2> QED
    BY <2>2, <2>3
<1> QED
  BY <1>4, <1>5, <1>6, <1>7, <1>8, <1>9, <1>10, <1>11 DEF Next, Reconcile

\* A resource says Created only when a snapshot was taken for it or for one that had its name
\* before, as long as Proxmox lists for every guest something besides its snapshots: the current
\* state, which keeps HandleSnapshotCreation from taking the desired name for all that is listed.
THEOREM CreatedIsTrue ==
    ASSUME NEW a \in Always, a \notin {"desired", "now"}
    PROVE  Spec => []CreatedMeansTaken
<1>1. Init => Parts /\ Inv /\ Recorded
  <2>1. Init => pc = "idle" /\ Stored = None
    BY Initially DEF Init
  <2> QED
    BY <2>1, Initially, InvInitially DEF Recorded, Recording
<1>2. Parts /\ Inv /\ Recorded /\ [Next]_vars => Parts' /\ Inv' /\ Recorded'
  BY TypeKept, InvKept, RecordedKept
<1>3. Recorded => CreatedMeansTaken
  BY DEF Recorded, CreatedMeansTaken
<1> QED
  BY <1>1, <1>2, <1>3, PTL DEF Spec

------------------------------------------------------------------------------
(* The crons of the policies *)

\* The assumption on the constants of the policies, one by one.
LEMMA PolicyConstants ==
    /\ Selectors \in [Policies -> SUBSET SUBSET Machines]
    /\ MaxTime \in Nat /\ MaxChanges \in Nat /\ MaxFailures \in Nat
    /\ Nothing \notin Specs /\ Nothing \notin Crons
BY PolicyAssumption

\* The parts of the type of the state, which the steps change one at a time.
ApiOK == policy \in [Policies -> Specs \cup {Nothing}] /\ flipped \subseteq Policies /\ machines \subseteq Machines
CronsOK == running \subseteq Crons /\ registered \in [Policies -> Crons \cup {Nothing}]
JobsOK == jobs \subseteq Jobs /\ \A j \in jobs : j.time <= time
MadeOK == known \subseteq made /\ made \subseteq Snapshots
BoundsOK == time \in 0..MaxTime /\ changes \in 0..MaxChanges
PolicyTroubleOK == failures \in 0..MaxFailures /\ marks \subseteq {"failed", "clash"}

PolicyParts == ApiOK /\ keys \subseteq Policies /\ CronsOK /\ JobsOK /\ MadeOK /\ BoundsOK /\ PolicyTroubleOK

LEMMA PolicyPartsAreAll == PolicyParts <=> PolicyTypeOK
BY DEF PolicyParts, PolicyTypeOK, ApiOK, CronsOK, JobsOK, MadeOK, BoundsOK, PolicyTroubleOK

\* Faults and edits are counted up to their bounds.
LEMMA PolicyCounters ==
    ASSUME PolicyParts
    PROVE  /\ Failure("failed") => PolicyTroubleOK'
           /\ UNCHANGED mishaps => PolicyTroubleOK'
           /\ Edit /\ UNCHANGED time => BoundsOK'
           /\ UNCHANGED bounds => BoundsOK'
<1>1. MaxFailures \in Nat /\ MaxChanges \in Nat
  BY PolicyConstants
<1>2. Failure("failed") => PolicyTroubleOK'
  BY <1>1 DEF PolicyParts, PolicyTroubleOK, Failure
<1>3. UNCHANGED mishaps => PolicyTroubleOK'
  BY DEF PolicyParts, PolicyTroubleOK, mishaps
<1>4. Edit /\ UNCHANGED time => BoundsOK'
  BY <1>1 DEF PolicyParts, BoundsOK, Edit
<1>5. UNCHANGED bounds => BoundsOK'
  BY DEF PolicyParts, BoundsOK, bounds
<1> QED
  BY <1>2, <1>3, <1>4, <1>5

\* The parts that a step leaves alone.
LEMMA PolicyKept ==
    ASSUME PolicyParts
    PROVE  /\ UNCHANGED api => ApiOK'
           /\ UNCHANGED process => CronsOK'
           /\ UNCHANGED <<jobs, time>> => JobsOK'
           /\ UNCHANGED resources => MadeOK'
<1>1. UNCHANGED api => ApiOK'
  BY DEF PolicyParts, ApiOK, api
<1>2. UNCHANGED process => CronsOK'
  BY DEF PolicyParts, CronsOK, process
<1>3. UNCHANGED <<jobs, time>> => JobsOK'
  BY DEF PolicyParts, JobsOK
<1>4. UNCHANGED resources => MadeOK'
  BY DEF PolicyParts, MadeOK, resources
<1> QED
  BY <1>1, <1>2, <1>3, <1>4

------------------------------------------------------------------------------
(* The type of the state *)

LEMMA UsersKeepType ==
    ASSUME PolicyParts,
           (\E p \in Policies : UserSpecifies(p) \/ UserDisables(p) \/ UserDeletes(p))
           \/ \E m \in Machines : MachineComesOrGoes(m)
    PROVE  PolicyParts'
<1>1. /\ Edit /\ UNCHANGED <<process, jobs, resources, time, mishaps>>
  BY DEF UserSpecifies, UserDisables, UserDeletes, MachineComesOrGoes
<1>2. CronsOK' /\ JobsOK' /\ MadeOK' /\ BoundsOK' /\ PolicyTroubleOK'
  BY <1>1, PolicyCounters, PolicyKept
<1>3. ASSUME NEW p \in Policies, NEW v \in Specs \cup {Nothing}, Specified(p, v), UNCHANGED machines
      PROVE  ApiOK' /\ keys' \subseteq Policies
  BY <1>3 DEF Specified, PolicyParts, ApiOK
<1>4. ASSUME NEW p \in Policies, UserSpecifies(p) PROVE ApiOK' /\ keys' \subseteq Policies
  <2>1. PICK s \in Selectors[p], v \in BOOLEAN, d \in BOOLEAN :
          Specified(p, [selects |-> s, valid |-> v, disabled |-> d])
    BY <1>4 DEF UserSpecifies
  <2>2. [selects |-> s, valid |-> v, disabled |-> d] \in Specs
    BY PolicyConstants DEF Specs
  <2>3. UNCHANGED machines
    BY <1>4 DEF UserSpecifies
  <2> QED
    BY <1>3, <2>1, <2>2, <2>3
<1>5. ASSUME NEW p \in Policies, UserDisables(p) PROVE ApiOK' /\ keys' \subseteq Policies
  <2>1. policy[p] \in Specs
    BY <1>5 DEF UserDisables, PolicyParts, ApiOK
  <2>2. [policy[p] EXCEPT !.disabled = ~@] \in Specs
    BY <2>1 DEF Specs
  <2>3. policy' = [policy EXCEPT ![p] = [policy[p] EXCEPT !.disabled = ~@]]
    BY <1>5 DEF UserDisables, PolicyParts, ApiOK
  <2>4. policy' \in [Policies -> Specs \cup {Nothing}]
    BY <2>2, <2>3 DEF PolicyParts, ApiOK
  <2> QED
    BY <1>5, <2>4 DEF UserDisables, PolicyParts, ApiOK
<1>6. ASSUME NEW p \in Policies, UserDeletes(p) PROVE ApiOK' /\ keys' \subseteq Policies
  BY <1>3, <1>6 DEF UserDeletes
<1>7. ASSUME NEW m \in Machines, MachineComesOrGoes(m) PROVE ApiOK' /\ keys' \subseteq Policies
  BY <1>7 DEF MachineComesOrGoes, PolicyParts, ApiOK
<1> QED
  BY <1>2, <1>4, <1>5, <1>6, <1>7 DEF PolicyParts

LEMMA TimeKeepsType ==
    ASSUME PolicyParts, Due
    PROVE  PolicyParts'
<1>1. time \in 0..MaxTime /\ MaxTime \in Nat /\ time < MaxTime /\ time' = time + 1
  BY PolicyConstants DEF Due, PolicyParts, BoundsOK
<1>2. JobsOK'
  <2>1. ASSUME NEW c \in running
        PROVE  [policy |-> c.policy, selects |-> c.selects, time |-> time + 1,
                listed |-> FALSE, left |-> {}] \in Jobs
    <3>1. c \in Crons /\ time + 1 \in 1..MaxTime
      BY <1>1 DEF PolicyParts, CronsOK
    <3> QED
      BY <3>1 DEF Crons, Jobs
  <2>2. jobs' \subseteq Jobs
    BY <2>1 DEF Due, PolicyParts, JobsOK
  <2>3. ASSUME NEW j \in jobs PROVE j.time <= time'
    <3>1. j \in Jobs /\ j.time <= time
      BY DEF PolicyParts, JobsOK
    <3>2. j.time \in Nat
      BY <1>1, <3>1 DEF Jobs
    <3> QED
      BY <1>1, <3>1, <3>2
  <2>4. ASSUME NEW j \in jobs' PROVE j.time <= time'
    BY <1>1, <2>3, <2>4 DEF Due
  <2> QED
    BY <2>2, <2>4 DEF JobsOK
<1>3. BoundsOK'
  BY <1>1 DEF Due, PolicyParts, BoundsOK
<1> QED
  BY <1>2, <1>3, PolicyCounters, PolicyKept DEF Due, PolicyParts

\* The cron that Start makes.
LEMMA Started ==
    ASSUME ApiOK, NEW p \in Policies, policy[p] # Nothing
    PROVE  [policy |-> p, selects |-> policy[p].selects] \in Crons
<1>1. policy[p] \in Specs
  BY DEF ApiOK
<1> QED
  BY <1>1 DEF Specs, Crons

LEMMA ReconcileKeepsType ==
    ASSUME PolicyParts, NEW p \in Policies, ReconcilePolicy(p)
    PROVE  PolicyParts'
<1>1. UNCHANGED <<api, jobs, resources, bounds, mishaps>> /\ keys' \subseteq Policies
  BY DEF ReconcilePolicy, PolicyParts
<1>2. UNCHANGED time
  BY <1>1 DEF bounds
<1>3. UNCHANGED process => CronsOK'
  BY PolicyKept
<1>4. ASSUME Stop(p) PROVE CronsOK'
  BY <1>4 DEF Stop, PolicyParts, CronsOK
<1>5. ASSUME Start(p), policy[p] # Nothing PROVE CronsOK'
  <2>1. [policy |-> p, selects |-> policy[p].selects] \in Crons
    BY <1>5, Started DEF PolicyParts
  <2> QED
    BY <1>5, <2>1 DEF Start, PolicyParts, CronsOK
<1>6. UNCHANGED process \/ Stop(p) \/ (Start(p) /\ policy[p] # Nothing)
  BY DEF ReconcilePolicy
<1>7. CronsOK'
  BY <1>3, <1>4, <1>5, <1>6
<1>8. ApiOK' /\ MadeOK' /\ BoundsOK' /\ PolicyTroubleOK'
  BY <1>1, PolicyCounters, PolicyKept
<1>9. JobsOK'
  BY <1>1, <1>2, PolicyKept
<1> QED
  BY <1>1, <1>7, <1>8, <1>9 DEF PolicyParts

\* A run keeps its time, and what it makes is a snapshot of a machine at that time.
LEMMA JobsKeepType ==
    ASSUME PolicyParts, NEW j \in jobs, GetMatchingVirtualMachines(j) \/ SnapshotMachine(j)
    PROVE  PolicyParts'
<1>1. UNCHANGED <<api, keys, process, bounds>>
  BY DEF GetMatchingVirtualMachines, SnapshotMachine
<1>2. j \in Jobs /\ j.time <= time /\ UNCHANGED time
  BY <1>1 DEF PolicyParts, JobsOK, bounds
<1>3. ASSUME NEW k \in Jobs, k.time = j.time, Become(j, k) PROVE JobsOK'
  BY <1>2, <1>3 DEF Become, PolicyParts, JobsOK
<1>4. End(j) => JobsOK'
  BY <1>2 DEF End, PolicyParts, JobsOK
<1>5. CASE GetMatchingVirtualMachines(j)
  <2>1. MadeOK'
    BY <1>5, PolicyKept DEF GetMatchingVirtualMachines
  <2>2. CASE Become(j, [j EXCEPT !.listed = TRUE, !.left = j.selects \cap machines]) /\ UNCHANGED mishaps
    <3>1. [j EXCEPT !.listed = TRUE, !.left = j.selects \cap machines] \in Jobs
      BY <1>2 DEF PolicyParts, ApiOK, Jobs
    <3>2. [j EXCEPT !.listed = TRUE, !.left = j.selects \cap machines].time = j.time
      BY <1>2 DEF Jobs
    <3> QED
      BY <1>1, <1>3, <2>1, <2>2, <3>1, <3>2, PolicyCounters, PolicyKept DEF PolicyParts
  <2>3. CASE End(j) /\ Failure("failed")
    BY <1>1, <1>4, <2>1, <2>3, PolicyCounters, PolicyKept DEF PolicyParts
  <2> QED
    BY <1>5, <2>2, <2>3 DEF GetMatchingVirtualMachines
<1>6. CASE SnapshotMachine(j)
  <2>1. ASSUME NEW m \in j.left
        PROVE  /\ [j EXCEPT !.left = @ \ {m}] \in Jobs /\ [j EXCEPT !.left = @ \ {m}].time = j.time
               /\ <<m, j.time>> \in Snapshots
    BY <1>2 DEF Jobs, Snapshots
  <2>2. JobsOK'
    BY <1>3, <1>4, <1>6, <2>1 DEF SnapshotMachine
  <2>3. MadeOK'
    <3>1. UNCHANGED known /\ (UNCHANGED made \/ \E m \in j.left : made' = made \cup {<<m, j.time>>})
      BY <1>6 DEF SnapshotMachine
    <3> QED
      BY <2>1, <3>1 DEF PolicyParts, MadeOK
  <2>4. PolicyTroubleOK'
    <3>1. \/ UNCHANGED mishaps \/ Failure("failed")
          \/ UNCHANGED failures /\ marks' = marks \cup {"clash"}
      BY <1>6 DEF SnapshotMachine
    <3>2. UNCHANGED failures /\ marks' = marks \cup {"clash"} => PolicyTroubleOK'
      BY DEF PolicyParts, PolicyTroubleOK
    <3> QED
      BY <3>1, <3>2, PolicyCounters
  <2> QED
    BY <1>1, <2>2, <2>3, <2>4, PolicyCounters, PolicyKept DEF PolicyParts
<1> QED
  BY <1>5, <1>6

LEMMA ProcessKeepsType ==
    ASSUME PolicyParts, DeliverMade \/ RestartCrons \/ UNCHANGED policyVars
    PROVE  PolicyParts'
<1>1. CASE DeliverMade
  <2>1. MadeOK'
    BY <1>1 DEF DeliverMade, PolicyParts, MadeOK
  <2> QED
    BY <1>1, <2>1, PolicyCounters, PolicyKept DEF DeliverMade, PolicyParts, bounds
<1>2. CASE RestartCrons
  <2>1. ApiOK' /\ keys' \subseteq Policies /\ MadeOK'
    BY <1>2 DEF RestartCrons, PolicyParts, ApiOK, MadeOK
  <2>2. CronsOK' /\ JobsOK'
    BY <1>2 DEF RestartCrons, CronsOK, JobsOK
  <2> QED
    BY <1>2, <2>1, <2>2, PolicyCounters DEF RestartCrons, PolicyParts
<1>3. CASE UNCHANGED policyVars
  BY <1>3, PolicyCounters, PolicyKept DEF policyVars, PolicyParts, bounds
<1> QED
  BY <1>1, <1>2, <1>3

LEMMA PolicyTypeKept ==
    ASSUME PolicyParts, [PolicyNext]_policyVars
    PROVE  PolicyParts'
BY UsersKeepType, TimeKeepsType, ReconcileKeepsType, JobsKeepType, ProcessKeepsType DEF PolicyNext, Job

LEMMA PolicyInitially ==
    ASSUME PolicyInit
    PROVE  PolicyParts /\ NoLeakedCron
<1>1. ApiOK /\ keys \subseteq Policies /\ CronsOK /\ JobsOK /\ MadeOK
  BY DEF PolicyInit, ApiOK, CronsOK, JobsOK, MadeOK
<1>2. BoundsOK /\ PolicyTroubleOK
  BY PolicyConstants DEF PolicyInit, BoundsOK, PolicyTroubleOK
<1>3. NoLeakedCron
  BY DEF PolicyInit, NoLeakedCron
<1> QED
  BY <1>1, <1>2, <1>3 DEF PolicyParts

\* Every state of the policies, their crons, the runs of these and the resources they make has its
\* type: a run has the time of a cron that came due, and makes snapshots of machines at that time.
THEOREM PolicyTypeCorrect == PolicySpec => []PolicyTypeOK
<1>1. PolicyInit => PolicyParts
  BY PolicyInitially
<1>2. PolicyParts /\ [PolicyNext]_policyVars => PolicyParts'
  BY PolicyTypeKept
<1> QED
  BY <1>1, <1>2, PolicyPartsAreAll, PTL DEF PolicySpec

------------------------------------------------------------------------------
(* Only registered crons run *)

\* The cron of one policy is not that of another, so stopping or replacing it leaves the others.
LEMMA CronsKept ==
    ASSUME PolicyParts, NoLeakedCron, NEW p \in Policies, ReconcilePolicy(p)
    PROVE  NoLeakedCron'
<1>1. CronsOK /\ Nothing \notin running
  BY PolicyConstants DEF PolicyParts, CronsOK
<1>2. \A q \in Policies : q # p /\ registered[q] # Nothing => registered[q] # registered[p]
  BY DEF NoLeakedCron
<1>3. CASE UNCHANGED process
  BY <1>3 DEF process, NoLeakedCron
<1>4. CASE Stop(p)
  <2>1. registered' = [registered EXCEPT ![p] = Nothing] /\ running' = running \ {registered[p]}
    BY <1>4 DEF Stop
  <2>2. registered'[p] = Nothing /\ \A q \in Policies : q # p => registered'[q] = registered[q]
    BY <1>1, <2>1 DEF CronsOK
  <2>3. running' = {registered'[q] : q \in Policies} \ {Nothing}
    BY <1>1, <1>2, <2>1, <2>2 DEF NoLeakedCron
  <2> QED
    BY <2>2, <2>3 DEF NoLeakedCron
<1>5. CASE Start(p) /\ policy[p] # Nothing
  <2> DEFINE cron == [policy |-> p, selects |-> policy[p].selects]
  <2>1. cron \in Crons /\ cron # Nothing /\ cron.policy = p
    BY <1>5, Started, PolicyConstants DEF PolicyParts
  <2>2. registered' = [registered EXCEPT ![p] = cron] /\ running' = (running \ {registered[p]}) \cup {cron}
    BY <1>5 DEF Start
  <2> HIDE DEF cron
  <2>3. registered'[p] = cron /\ \A q \in Policies : q # p => registered'[q] = registered[q]
    BY <1>1, <2>2 DEF CronsOK
  <2>4. running' = {registered'[q] : q \in Policies} \ {Nothing}
    BY <1>1, <1>2, <2>1, <2>2, <2>3 DEF NoLeakedCron
  <2> QED
    BY <2>1, <2>3, <2>4 DEF NoLeakedCron
<1> QED
  BY <1>3, <1>4, <1>5 DEF ReconcilePolicy

\* A policy has one cron at most, which snapshots by one spec, however often it is edited, disabled,
\* deleted and made again, and however often the process restarts.
THEOREM OnlyRegisteredCronsRun == PolicySpec => []NoLeakedCron
<1>1. ASSUME PolicyParts, NoLeakedCron, [PolicyNext]_policyVars PROVE NoLeakedCron'
  <2>1. CASE \E p \in Policies : ReconcilePolicy(p)
    BY <1>1, <2>1, CronsKept
  <2>2. CASE RestartCrons
    BY <2>2 DEF RestartCrons, NoLeakedCron
  <2>3. CASE UNCHANGED process
    BY <1>1, <2>3 DEF process, NoLeakedCron
  <2> QED
    BY <1>1, <2>1, <2>2, <2>3
       DEF PolicyNext, Job, UserSpecifies, UserDisables, UserDeletes, MachineComesOrGoes, Due, DeliverMade,
           GetMatchingVirtualMachines, SnapshotMachine, policyVars
<1>2. PolicyInit => PolicyParts /\ NoLeakedCron
  BY PolicyInitially
<1>3. PolicyParts /\ [PolicyNext]_policyVars => PolicyParts'
  BY PolicyTypeKept
<1> QED
  BY <1>1, <1>2, <1>3, PTL DEF PolicySpec
=============================================================================
