---------------------------- MODULE ContainerProofs ----------------------------
(* For any VMIDs, images, lags, edits and faults: the type of the state, one container for each   *)
(* resource and none left behind until a creation is left under way, no container of another name *)
(* that is stopped or destroyed, and the image of the container.                                  *)
EXTENDS Container, TLAPS

\* The assumptions on the constants, one by one.
LEMMA Constants ==
    /\ MaxLag \in Nat /\ MaxFaults \in Nat /\ MaxTurns \in Nat
    /\ None \notin Objects /\ None \notin Guests /\ None \notin Ids /\ None \notin Images
    /\ Kinds \subseteq AllKinds /\ Stem \in [Images -> Stems] /\ TemplateConfig \in Configs
BY ContainerAssumption

Versions == Objects \cup {None}

\* The parts of the type of the state.
LogOK == log \in Seq(Versions) /\ Len(log) \in 1..(MaxLag + 1)
PlaceOK ==
    /\ queue \in BOOLEAN /\ pc \in Stages /\ copy \in Versions
    /\ (pc = "idle") = (copy = None)
TargetOK ==
    /\ target \in Ids \cup {None} /\ (pc \in {"destroy", "await"}) = (target # None)
    /\ astray \in BOOLEAN
GuestOK ==
    /\ guests \in [Ids -> Guests \cup {None}] /\ making \in [Ids -> Guests \cup {None}]
    /\ \A i \in Ids : guests[i] = None \/ making[i] = None
    /\ \A i \in Ids : making[i] # None => making[i].own
VolumeOK == volumes \in [Stems -> Images \cup {None}]
CacheOK == cachedId \in Ids \cup {None} /\ cachedObj \in [Ids -> Snapshots \cup {None}]
CountOK == edits \in 0..MaxTurns /\ faults \in 0..MaxFaults

Parts == LogOK /\ PlaceOK /\ TargetOK /\ GuestOK /\ VolumeOK /\ CacheOK /\ CountOK

LEMMA PartsType == Parts => TypeOK
BY DEF Parts, TypeOK, LogOK, PlaceOK, TargetOK, GuestOK, VolumeOK, CacheOK, CountOK, Versions

------------------------------------------------------------------------------
(* The versions of the resource *)

LEMMA LogEnds ==
    ASSUME LogOK
    PROVE  Stored \in Versions /\ Seen \in Versions /\ Stored = log[Len(log)] /\ Seen = log[1]
<1>1. MaxLag \in Nat
  BY Constants
<1>2. Len(log) \in 1..Len(log) /\ 1 \in 1..Len(log)
  BY <1>1 DEF LogOK
<1>3. log[Len(log)] \in Versions /\ log[1] \in Versions
  BY <1>2 DEF LogOK
<1> QED
  BY <1>2, <1>3 DEF Stored, Seen, Last, LogOK

\* A version that is stored is appended, unless nothing changes.
LEMMA StoreKeepsLog ==
    ASSUME LogOK, NEW v \in Versions, Store(v)
    PROVE  /\ LogOK' /\ Stored' = v
           /\ \/ v = Stored /\ log' = log
              \/ /\ Len(log') = Len(log) + 1 /\ log'[Len(log) + 1] = v
                 /\ \A k \in 1..Len(log) : log'[k] = log[k]
<1>1. MaxLag \in Nat
  BY Constants
<1>2. CASE v = Stored
  BY <1>2 DEF Store, LogOK, Stored
<1>3. CASE v # Stored
  <2>1. log' = Append(log, v) /\ Len(log') <= MaxLag + 1
    BY <1>3 DEF Store
  <2>2. log' \in Seq(Versions) /\ Len(log') = Len(log) + 1 /\ log'[Len(log) + 1] = v
    BY <2>1 DEF LogOK
  <2>3. \A k \in 1..Len(log) : log'[k] = log[k]
    BY <2>1 DEF LogOK
  <2> QED
    BY <1>1, <2>1, <2>2, <2>3 DEF LogOK, Stored, Last
<1> QED
  BY <1>2, <1>3

LEMMA DeliverKeepsLog ==
    ASSUME LogOK, Deliver
    PROVE  /\ LogOK' /\ Stored' = Stored
           /\ Len(log') = Len(log) - 1 /\ \A k \in 1..Len(log') : log'[k] = log[k + 1]
<1>1. MaxLag \in Nat
  BY Constants
<1>2. log' = Tail(log) /\ Len(log) > 1 /\ log \in Seq(Versions)
  BY DEF Deliver, LogOK
<1>3. log' \in Seq(Versions) /\ Len(log') = Len(log) - 1
  BY <1>2
<1>4. \A k \in 1..Len(log') : log'[k] = log[k + 1]
  BY <1>2, <1>3
<1>5. log'[Len(log')] = log[Len(log)]
  BY <1>2, <1>3
<1> QED
  BY <1>1, <1>2, <1>3, <1>4, <1>5 DEF LogOK, Stored, Last

LEMMA RestartKeepsLog ==
    ASSUME LogOK, log' = <<Stored>>
    PROVE  LogOK' /\ Stored' = Stored /\ Len(log') = 1 /\ log'[1] = Stored
<1>1. MaxLag \in Nat /\ Stored \in Versions
  BY Constants, LogEnds
<1>2. log' \in Seq(Versions) /\ Len(log') = 1 /\ log'[1] = Stored
  BY <1>1
<1>3. LogOK'
  BY <1>1, <1>2 DEF LogOK
<1>4. Stored' = log'[Len(log')]
  BY DEF Stored, Last
<1> QED
  BY <1>2, <1>3, <1>4

------------------------------------------------------------------------------
(* What the informer has yet to see *)

Held(v) == v # None /\ v.finalizer
Going(v) == Held(v) /\ v.deleting

\* A resource that is being deleted is not kept: what has a finalizer after it is the same resource.
History ==
    \A j, k \in 1..Len(log) : j <= k /\ Going(log[j]) /\ Held(log[k]) => \A i \in j..k : Going(log[i])

\* All that had a finalizer is gone, or going.
Spent == \A k \in 1..Len(log) : Held(log[k]) => \A i \in 1..k : Going(log[i])

Forgotten == ~Held(Stored) => Spent

Untouched == \A k \in 1..Len(log) : ~Held(log[k])

\* A write that neither adds nor removes the finalizer, nor takes a deletion back.
Holds(v) == (Held(v) <=> Held(Stored)) /\ (Going(Stored) => Going(v))

LEMMA HeldType ==
    ASSUME NEW v \in Versions
    PROVE  Held(v) \in BOOLEAN /\ Going(v) \in BOOLEAN
BY DEF Held, Going, Versions, Objects

LEMMA SameHistory ==
    ASSUME log' = log
    PROVE  /\ Stored' = Stored
           /\ History => History'
           /\ Spent => Spent'
           /\ Forgotten => Forgotten'
           /\ Untouched => Untouched'
BY DEF Stored, History, Spent, Forgotten, Untouched

LEMMA StoreKeepsHistory ==
    ASSUME LogOK, NEW v \in Versions, Store(v), Holds(v), History, Forgotten
    PROVE  History' /\ Forgotten' /\ (Spent => Spent') /\ (Untouched => Untouched')
<1>1. Stored \in Versions /\ Stored = log[Len(log)] /\ Len(log) \in Nat /\ Len(log) >= 1
  BY Constants, LogEnds DEF LogOK
<1>2. CASE log' = log
  BY <1>2, SameHistory
<1>3. CASE /\ Len(log') = Len(log) + 1 /\ log'[Len(log) + 1] = v
           /\ \A k \in 1..Len(log) : log'[k] = log[k]
  <2> DEFINE n == Len(log)
  <2>1. History'
    <3> SUFFICES ASSUME NEW j \in 1..(n + 1), NEW k \in 1..(n + 1), j <= k,
                        Going(log'[j]), Held(log'[k]), NEW i \in j..k
                 PROVE  Going(log'[i])
      BY <1>3 DEF History
    <3>1. CASE k <= n
      <4>1. j \in 1..n /\ k \in 1..n /\ i \in 1..n
        BY <1>1, <3>1
      <4>2. Going(log[j]) /\ Held(log[k])
        BY <1>3, <4>1
      <4> QED
        BY <1>3, <4>1, <4>2 DEF History
    <3>2. CASE k = n + 1 /\ j <= n
      <4>1. j \in 1..n /\ n \in 1..n
        BY <1>1, <3>2
      <4>2. Held(Stored) /\ Going(log[j])
        BY <1>3, <3>2, <4>1 DEF Holds
      <4>3. \A m \in j..n : Going(log[m])
        BY <1>1, <4>1, <4>2 DEF History
      <4>4. Going(v)
        BY <1>1, <4>1, <4>3 DEF Holds
      <4>5. i \in j..n \/ i = n + 1
        BY <1>1, <3>2
      <4> QED
        BY <1>1, <1>3, <4>1, <4>3, <4>4, <4>5
    <3>3. CASE k = n + 1 /\ j = n + 1
      <4>1. i = j
        BY <1>1, <3>3
      <4> QED
        BY <4>1
    <3> QED
      BY <1>1, <3>1, <3>2, <3>3
  <2>2. Spent => Spent'
    <3> SUFFICES ASSUME Spent, NEW k \in 1..(n + 1), Held(log'[k]), NEW i \in 1..k
                 PROVE  Going(log'[i])
      BY <1>3 DEF Spent
    <3>1. CASE k <= n
      <4>1. k \in 1..n /\ i \in 1..n
        BY <1>1, <3>1
      <4> QED
        BY <1>3, <4>1 DEF Spent
    <3>2. CASE k = n + 1
      <4>1. Held(log[n]) /\ n \in 1..n
        BY <1>1, <1>3, <3>2 DEF Holds
      <4>2. \A m \in 1..n : Going(log[m])
        BY <4>1 DEF Spent
      <4>3. Going(v)
        BY <1>1, <4>1, <4>2 DEF Holds
      <4>4. i \in 1..n \/ i = n + 1
        BY <1>1, <3>2
      <4> QED
        BY <1>3, <4>2, <4>3, <4>4
    <3> QED
      BY <1>1, <3>1, <3>2
  <2>3. Stored' = v
    BY StoreKeepsLog
  <2>4. Forgotten'
    BY <2>2, <2>3 DEF Forgotten, Holds
  <2>5. Untouched => Untouched'
    <3> SUFFICES ASSUME Untouched, NEW k \in 1..(n + 1) PROVE ~Held(log'[k])
      BY <1>3 DEF Untouched
    <3>1. n \in 1..n /\ ~Held(v)
      BY <1>1 DEF Untouched, Holds
    <3>2. k \in 1..n \/ k = n + 1
      BY <1>1
    <3> QED
      BY <1>3, <3>1, <3>2 DEF Untouched
  <2> QED
    BY <2>1, <2>2, <2>4, <2>5
<1> QED
  BY <1>2, <1>3, StoreKeepsLog

\* The finalizer is removed when all that had one is going.
LEMMA ReleaseKeepsHistory ==
    ASSUME LogOK, NEW v \in Versions, Store(v), ~Held(v), Spent
    PROVE  History' /\ Forgotten'
<1>1. Len(log) \in Nat /\ Len(log) >= 1
  BY Constants DEF LogOK
<1>2. Spent'
  <2>1. CASE log' = log
    BY <2>1, SameHistory
  <2>2. CASE /\ Len(log') = Len(log) + 1 /\ log'[Len(log) + 1] = v
             /\ \A k \in 1..Len(log) : log'[k] = log[k]
    <3> SUFFICES ASSUME NEW k \in 1..(Len(log) + 1), Held(log'[k]), NEW i \in 1..k
                 PROVE  Going(log'[i])
      BY <2>2 DEF Spent
    <3>1. k # Len(log) + 1
      BY <2>2
    <3>2. k \in 1..Len(log) /\ i \in 1..Len(log)
      BY <1>1, <3>1
    <3> QED
      BY <2>2, <3>2 DEF Spent
  <2> QED
    BY <2>1, <2>2, StoreKeepsLog
<1>3. Len(log') \in Nat
  BY StoreKeepsLog, Constants DEF LogOK
<1>4. History'
  <2> SUFFICES ASSUME NEW j \in 1..Len(log'), NEW k \in 1..Len(log'), Held(log'[k]), NEW i \in j..k
               PROVE  Going(log'[i])
    BY DEF History
  <2>1. i \in 1..k
    BY <1>3
  <2> QED
    BY <1>2, <2>1 DEF Spent
<1> QED
  BY <1>2, <1>4 DEF Forgotten

\* It is added to a resource that is not deleted, when nothing has one.
LEMMA HoldKeepsHistory ==
    ASSUME LogOK, NEW v \in Versions, Store(v), Held(v), ~v.deleting, Untouched
    PROVE  History' /\ Forgotten'
<1>1. Len(log) \in Nat /\ Len(log) >= 1 /\ Len(log') \in Nat
  BY Constants, StoreKeepsLog DEF LogOK
<1>2. \A k \in 1..Len(log') : ~Going(log'[k])
  <2>1. CASE log' = log
    BY <2>1 DEF Untouched, Going
  <2>2. CASE /\ Len(log') = Len(log) + 1 /\ log'[Len(log) + 1] = v
             /\ \A k \in 1..Len(log) : log'[k] = log[k]
    <3> SUFFICES ASSUME NEW k \in 1..(Len(log) + 1) PROVE ~Going(log'[k])
      BY <2>2
    <3>1. k \in 1..Len(log) \/ k = Len(log) + 1
      BY <1>1
    <3> QED
      BY <2>2, <3>1 DEF Untouched, Going
  <2> QED
    BY <2>1, <2>2, StoreKeepsLog
<1>3. Stored' = v
  BY StoreKeepsLog
<1> QED
  BY <1>2, <1>3 DEF History, Forgotten

LEMMA DeliverKeepsHistory ==
    ASSUME LogOK, Deliver
    PROVE  (History => History') /\ (Spent => Spent') /\ (Forgotten => Forgotten')
           /\ (Untouched => Untouched')
<1>1. /\ Stored' = Stored /\ Len(log) \in Nat /\ Len(log') = Len(log) - 1 /\ Len(log') \in Nat
      /\ \A k \in 1..Len(log') : log'[k] = log[k + 1]
  BY DeliverKeepsLog, Constants DEF LogOK
<1>2. History => History'
  <2> SUFFICES ASSUME History, NEW j \in 1..Len(log'), NEW k \in 1..Len(log'), j <= k,
                      Going(log'[j]), Held(log'[k]), NEW i \in j..k
               PROVE  Going(log'[i])
    BY DEF History
  <2>1. /\ j + 1 \in 1..Len(log) /\ k + 1 \in 1..Len(log) /\ j + 1 <= k + 1
        /\ i + 1 \in (j + 1)..(k + 1) /\ i \in 1..Len(log')
    BY <1>1
  <2>2. Going(log[j + 1]) /\ Held(log[k + 1])
    BY <1>1
  <2> QED
    BY <1>1, <2>1, <2>2 DEF History
<1>3. Spent => Spent'
  <2> SUFFICES ASSUME Spent, NEW k \in 1..Len(log'), Held(log'[k]), NEW i \in 1..k
               PROVE  Going(log'[i])
    BY DEF Spent
  <2>1. k + 1 \in 1..Len(log) /\ i + 1 \in 1..(k + 1) /\ i \in 1..Len(log')
    BY <1>1
  <2>2. Held(log[k + 1])
    BY <1>1
  <2> QED
    BY <1>1, <2>1, <2>2 DEF Spent
<1>4. Untouched => Untouched'
  <2> SUFFICES ASSUME Untouched, NEW k \in 1..Len(log') PROVE ~Held(log'[k])
    BY DEF Untouched
  <2>1. k + 1 \in 1..Len(log)
    BY <1>1
  <2> QED
    BY <1>1, <2>1 DEF Untouched
<1> QED
  BY <1>1, <1>2, <1>3, <1>4 DEF Forgotten

LEMMA RestartKeepsHistory ==
    ASSUME LogOK, log' = <<Stored>>
    PROVE  History' /\ Forgotten'
<1>1. Stored' = Stored /\ Len(log') = 1 /\ log'[1] = Stored
  BY RestartKeepsLog
<1>2. History'
  <2> SUFFICES ASSUME NEW j \in 1..Len(log'), NEW k \in 1..Len(log'), Going(log'[j]), NEW i \in j..k
               PROVE  Going(log'[i])
    BY DEF History
  <2>1. i = j
    BY <1>1
  <2> QED
    BY <2>1
<1>3. Forgotten'
  <2> SUFFICES ASSUME ~Held(Stored), NEW k \in 1..1 PROVE ~Held(log'[k])
    BY <1>1 DEF Forgotten, Spent
  <2> QED
    BY <1>1
<1> QED
  BY <1>2, <1>3

\* What the controller sees is held and not deleted only if the resource is still held, and
\* when what it sees is being deleted all that had a finalizer is going.
LEMMA SeenAndStored ==
    ASSUME LogOK, History, Forgotten
    PROVE  /\ Held(Seen) /\ ~Seen.deleting => Held(Stored)
           /\ Going(Seen) => Spent
           /\ ~Held(Seen) /\ ~Held(Stored) => Untouched
<1>1. Len(log) \in Nat /\ Len(log) >= 1 /\ Seen = log[1]
  BY Constants, LogEnds DEF LogOK
<1>2. 1 \in 1..Len(log) /\ \A k \in 1..Len(log) : 1 \in 1..k /\ 1 <= k
  BY <1>1
<1>3. Held(Seen) /\ ~Seen.deleting => Held(Stored)
  BY <1>1, <1>2 DEF Forgotten, Spent, Going
<1>4. Going(Seen) => Spent
  BY <1>1, <1>2 DEF History, Spent
<1>5. ~Held(Seen) /\ ~Held(Stored) => Untouched
  BY <1>1, <1>2 DEF Forgotten, Spent, Untouched, Going
<1> QED
  BY <1>3, <1>4, <1>5

------------------------------------------------------------------------------
(* The state of a reconcile, and the containers *)

\* The stages after a container was found or made.
Plain == {"start", "record", "update", "resume", "write", "autostart", "kick"}

Ensures(o) == o.mode = "EnsureExists"

\* What the place of a reconcile says of the resource and its versions.
Past ==
    /\ History /\ Forgotten
    /\ pc \in {"mark", "unfinalize"} => Spent
    /\ pc \in {"stop", "destroy"} => (copy.deleting => Spent) /\ (~copy.deleting => Held(Stored))
    /\ pc = "finalizer" => ~copy.finalizer /\ ~copy.deleting /\ (~Held(Stored) => Untouched)
    /\ pc \in {"exists", "create"} => Ensures(copy) \/ Held(Stored)
    /\ pc \in {"tags", "clear"} => Held(Stored)
    /\ pc = "exists" => Ensures(copy) \/ ~copy.deleting
    /\ pc = "tags" => ~copy.deleting

\* There is one container at most, those under way included, and one that is under way is waited for.
Single == \A i, j \in Own : i = j
Attended == \A i \in Making : pc = "await" /\ target = i

\* A VMID that is remembered is not that of a second container.
Remembered == cachedId # None => Own \subseteq {cachedId}

\* A container is asked for when there is none and none is remembered; then there is no other.
Creating ==
    /\ pc \in {"clear", "create"} => Own = {} /\ cachedId = None
    /\ pc = "await" => Own \subseteq {target} /\ (target \in Making => cachedId = None)

\* The container to be destroyed is the only one, and after a deletion there is none.
Targeted == pc = "destroy" => Own \subseteq {target}
Released == pc = "unfinalize" => Own = {} \/ copy.protected

Ordered == Single /\ Attended /\ Remembered /\ Creating /\ Targeted /\ Released

\* All is well until a creation is left under way, which is a fault.
OrderOK == astray \/ Ordered
Left == astray => "left" \in happened

\* The container to be destroyed has the name, or its VMID was reused at once.
Checked ==
    pc = "destroy" /\ "reused at once" \notin happened => guests[target] = None \/ guests[target].own

CInv == Parts /\ Past /\ OrderOK /\ Left /\ Checked

\* What GuestLifecycle sees of the resource, and whether it may make and leave a guest.
Kind == IF Stored = None THEN "none" ELSE IF Stored.finalizer THEN "held" ELSE "bare"
Loose == copy # None /\ copy.mode = "EnsureExists"
Spared == Stored # None /\ Stored.protected

KindStep ==
    \/ Kind' = Kind
    \/ Kind = "none" /\ Kind' = "bare"
    \/ Kind = "bare" /\ Kind' = "held"
    \/ Kind = "bare" /\ Kind' = "none"
    \/ Kind = "held" /\ Kind' = "none" /\ (Own = {} \/ Spared \/ astray)

\* What a step does to the containers: it leaves them, starts the creation of one, sees it listed,
\* leaves it under way, finds things in order, or loses a container.
Unmoved == Own' = Own /\ Making' = Making /\ astray' = astray
Makes ==
    /\ Kind = "held" \/ Loose
    /\ Own = {} \/ astray
    /\ \E i \in Ids \ Own : Own' = Own \cup {i} /\ Making' = Making \cup {i}
    /\ astray' \in {astray, TRUE}
Finishes == Own' = Own /\ Making' \subseteq Making /\ astray' = astray
Strays == Own' = Own /\ Making' = Making /\ Making # {} /\ astray' = TRUE
Settles == Own' = Own /\ Making' = Making /\ Making = {} /\ Single /\ astray' = FALSE
Loses == Own' \subseteq Own /\ Own' # Own /\ Making' = Making \cap Own' /\ astray' = astray

OwnStep == Makes \/ Finishes \/ Strays \/ Settles \/ Loses

\* A step of the lifecycle changes the resource, or the containers.
LifecycleStep == (Unmoved /\ KindStep) \/ (Kind' = Kind /\ OwnStep)

\* A reconcile that stops or destroys a container leaves those of another name as they are.
Spares ==
    pc' # pc /\ pc \in {"stop", "destroy"} /\ "reused at once" \notin happened
    => \A i \in Ids : guests[i] # None /\ ~guests[i].own => guests'[i] = guests[i]

Outcome == CInv' /\ LifecycleStep /\ Spares

LEMMA InvParts ==
    ASSUME CInv
    PROVE  /\ LogOK /\ PlaceOK /\ TargetOK /\ GuestOK /\ VolumeOK /\ CacheOK /\ CountOK
           /\ Past /\ OrderOK /\ Left /\ Checked
           /\ History /\ Forgotten
           /\ Stored \in Versions /\ Seen \in Versions /\ None \notin Objects
           /\ pc # "idle" => copy \in Objects /\ copy # None
<1>1. /\ LogOK /\ PlaceOK /\ TargetOK /\ GuestOK /\ VolumeOK /\ CacheOK /\ CountOK
      /\ Past /\ OrderOK /\ Left /\ Checked
  BY DEF CInv, Parts
<1>2. None \notin Objects
  BY Constants
<1>3. pc # "idle" => copy \in Objects /\ copy # None
  BY <1>1, <1>2 DEF PlaceOK, Versions
<1> QED
  BY <1>1, <1>2, <1>3, LogEnds DEF Past

LEMMA SameResource ==
    ASSUME CInv, log' = log
    PROVE  /\ LogOK' /\ Stored' = Stored /\ Kind' = Kind /\ History' /\ Forgotten'
           /\ (Spent => Spent') /\ (Untouched => Untouched') /\ (Held(Stored)' <=> Held(Stored))
<1>1. LogOK' /\ Stored' = Stored
  BY InvParts DEF LogOK, Stored
<1>2. Kind' = Kind /\ (Held(Stored)' <=> Held(Stored))
  BY <1>1 DEF Kind, Held
<1> QED
  BY <1>1, <1>2, InvParts, SameHistory

LEMMA PastStays ==
    ASSUME Past, pc' = pc, copy' = copy, History', Forgotten', Spent => Spent',
           Untouched => Untouched', Held(Stored)' <=> Held(Stored)
    PROVE  Past'
BY DEF Past

\* A reconcile that is over, or that found or made a container, says nothing of the resource.
LEMMA NowhereSpecial ==
    ASSUME History', Forgotten', pc' \in Plain \cup {"idle"}
    PROVE  Past' /\ Released'
BY DEF Past, Released, Plain

LEMMA Outcomes ==
    ASSUME PlaceOK
    PROVE  /\ (Return \/ Requeue) => PlaceOK' /\ pc' = "idle"
           /\ \A s \in Stages : copy # None /\ Goto(s) =>
                 PlaceOK' /\ pc' = s /\ (s # "idle" => copy' = copy)
           /\ \A s \in Stages \ {"idle"}, c \in Objects : GotoWith(s, c) =>
                 PlaceOK' /\ pc' = s /\ copy' = c
<1>1. None \notin Objects
  BY Constants
<1>2. (Return \/ Requeue) => PlaceOK' /\ pc' = "idle"
  BY DEF Return, Requeue, PlaceOK, Stages, Versions
<1>3. ASSUME NEW s \in Stages, copy # None, Goto(s)
      PROVE  PlaceOK' /\ pc' = s /\ (s # "idle" => copy' = copy)
  <2>1. CASE s = "idle"
    BY <1>2, <1>3, <2>1 DEF Goto
  <2>2. CASE s # "idle"
    BY <1>3, <2>2 DEF Goto, PlaceOK
  <2> QED
    BY <2>1, <2>2
<1>4. ASSUME NEW s \in Stages \ {"idle"}, NEW c \in Objects, GotoWith(s, c)
      PROVE  PlaceOK' /\ pc' = s /\ copy' = c
  BY <1>1, <1>4 DEF GotoWith, PlaceOK, Versions
<1> QED
  BY <1>2, <1>3, <1>4

LEMMA Troubles ==
    ASSUME CountOK
    PROVE  /\ \A kind : Fault(kind) => CountOK' /\ happened' = happened \cup {kind}
           /\ NoFault => CountOK' /\ happened' = happened
<1>1. MaxFaults \in Nat /\ faults \in 0..MaxFaults /\ edits \in 0..MaxTurns
  BY Constants DEF CountOK
<1>2. ASSUME NEW kind, Fault(kind) PROVE CountOK' /\ happened' = happened \cup {kind}
  BY <1>1, <1>2 DEF Fault, CountOK
<1>3. ASSUME NoFault PROVE CountOK' /\ happened' = happened
  BY <1>1, <1>3 DEF NoFault, counters, CountOK
<1> QED
  BY <1>2, <1>3

------------------------------------------------------------------------------
(* The containers *)

\* They change, but none comes, none goes, and each keeps its name.
SameGuests(g) ==
    /\ g \in [Ids -> Guests \cup {None}]
    /\ \A i \in Ids : (g[i] = None <=> guests[i] = None) /\ (g[i] # None => g[i].own = guests[i].own)

LEMMA GuestWrites ==
    ASSUME GuestOK, NEW i \in Ids, guests[i] # None
    PROVE  /\ \A b \in BOOLEAN : SameGuests([guests EXCEPT ![i].running = b])
           /\ \A c \in Configs : SameGuests([guests EXCEPT ![i].config = c])
<1>1. guests[i] \in Guests /\ None \notin Guests
  BY Constants DEF GuestOK
<1>2. ASSUME NEW x \in Guests, x.own = guests[i].own PROVE SameGuests([guests EXCEPT ![i] = x])
  BY <1>1, <1>2 DEF SameGuests, GuestOK
<1>3. ASSUME NEW b \in BOOLEAN PROVE SameGuests([guests EXCEPT ![i].running = b])
  <2>1. [guests[i] EXCEPT !.running = b] \in Guests /\ [guests[i] EXCEPT !.running = b].own = guests[i].own
    BY <1>1 DEF Guests
  <2> QED
    BY <1>2, <2>1
<1>4. ASSUME NEW c \in Configs PROVE SameGuests([guests EXCEPT ![i].config = c])
  <2>1. [guests[i] EXCEPT !.config = c] \in Guests /\ [guests[i] EXCEPT !.config = c].own = guests[i].own
    BY <1>1 DEF Guests
  <2> QED
    BY <1>2, <2>1
<1> QED
  BY <1>3, <1>4

LEMMA SameGuestsStay ==
    ASSUME GuestOK, SameGuests(guests') \/ guests' = guests, making' = making
    PROVE  /\ GuestOK' /\ Own' = Own /\ Making' = Making /\ Named' = Named
           /\ \A i \in Ids : (guests'[i] = None <=> guests[i] = None)
                             /\ (guests'[i] # None => guests'[i].own = guests[i].own)
<1>1. SameGuests(guests')
  BY DEF SameGuests, GuestOK
<1>2. Making' = Making /\ Named' = Named
  BY <1>1 DEF SameGuests, Making, Named
<1>3. GuestOK'
  BY <1>1 DEF SameGuests, GuestOK
<1> QED
  BY <1>1, <1>2, <1>3 DEF SameGuests, Own

\* Looking for the container finds the only one there may be.
LEMMA SoughtIsIt ==
    ASSUME CInv, NEW i \in Sought
    PROVE  i \in Ids /\ i # None /\ (Ordered => Own \subseteq {i})
<1>1. CacheOK /\ None \notin Ids
  BY InvParts, Constants
<1>2. CASE cachedId # None
  BY <1>1, <1>2 DEF Sought, Ordered, Remembered, CacheOK
<1>3. CASE cachedId = None
  <2>1. i \in Named
    BY <1>3 DEF Sought
  <2> QED
    BY <1>1, <2>1 DEF Ordered, Single, Named, Own
<1> QED
  BY <1>2, <1>3

\* What lookups leave in the caches, and what is known then.
LEMMA Lookups ==
    ASSUME CInv, NEW i \in Ids
    PROVE  /\ GetContainer(i) => CacheOK' /\ cachedId' = i /\ (Ordered => Own \subseteq {i})
           /\ GetAndPing(i) => CacheOK' /\ cachedId' = i /\ (Ordered => Own \subseteq {i})
           /\ Found(i) /\ DropObject(i) => CacheOK' /\ cachedId' = i /\ (Ordered => Own \subseteq {i})
           /\ Forget(i) => CacheOK' /\ cachedId' = None
<1>1. GuestOK /\ CacheOK
  BY InvParts
<1>2. Found(i) => (Ordered => Own \subseteq {i})
  BY SoughtIsIt DEF Found
<1>3. ASSUME NEW j \in Ids, guests[j] # None PROVE Fresh(guests[j]) \in Snapshots
  BY <1>1, <1>3 DEF GuestOK, Fresh, Guests, Snapshots
<1>4. ASSUME Found(i) PROVE Snapshot(i) \in Snapshots
  <2>1. CASE cachedObj[i] # None
    BY <1>1, <2>1 DEF Snapshot, CacheOK
  <2>2. CASE cachedObj[i] = None
    BY <1>3, <1>4, <2>2 DEF Snapshot, Found
  <2> QED
    BY <2>1, <2>2
<1>5. GetContainer(i) => CacheOK' /\ cachedId' = i /\ (Ordered => Own \subseteq {i})
  BY <1>1, <1>2, <1>4 DEF GetContainer, CacheOK
<1>6. ASSUME GetAndPing(i) PROVE CacheOK' /\ cachedId' = i /\ (Ordered => Own \subseteq {i})
  <2>1. Found(i) /\ cachedId' = i
    BY <1>6 DEF GetAndPing
  <2>2. ASSUME NEW x \in Snapshots, cachedObj' = [cachedObj EXCEPT ![i] = x] PROVE CacheOK'
    BY <1>1, <2>1, <2>2 DEF CacheOK
  <2>3. Read(i) \in Snapshots
    <3>1. CASE guests[i] = None
      BY <1>4, <2>1, <3>1 DEF Read
    <3>2. CASE guests[i] # None
      BY <1>3, <1>4, <2>1, <3>2 DEF Read, Snapshots
    <3> QED
      BY <3>1, <3>2
  <2>4. CacheOK'
    BY <1>4, <1>6, <2>1, <2>2, <2>3 DEF GetAndPing
  <2> QED
    BY <1>2, <2>1, <2>4
<1>7. Found(i) /\ DropObject(i) => CacheOK' /\ cachedId' = i /\ (Ordered => Own \subseteq {i})
  BY <1>1, <1>2 DEF DropObject, CacheOK
<1>8. Forget(i) => CacheOK' /\ cachedId' = None
  BY <1>1 DEF Forget, CacheOK
<1> QED
  BY <1>5, <1>6, <1>7, <1>8

LEMMA NotFoundLeaves ==
    ASSUME CInv, NotFound
    PROVE  CacheOK' /\ cachedId' = None /\ (Ordered /\ pc # "await" => Own = {})
<1>1. \A j \in Ids : ~Found(j)
  BY DEF NotFound
<1>2. Sought \cap Named = {}
  BY <1>1 DEF Found, Named
<1>3. ASSUME Ordered, pc # "await" PROVE Own = {}
  <2>1. Making = {}
    BY <1>3 DEF Ordered, Attended
  <2>2. CASE cachedId = None
    BY <1>2, <2>1, <2>2 DEF Sought, Own
  <2>3. CASE cachedId # None
    BY <1>2, <1>3, <2>1, <2>3 DEF Sought, Ordered, Remembered, Own
  <2> QED
    BY <2>2, <2>3
<1>4. CacheOK' /\ cachedId' = None
  BY InvParts DEF NotFound, CacheOK
<1> QED
  BY <1>3, <1>4

------------------------------------------------------------------------------
(* Steps that leave the containers' names *)

\* A reconcile goes on, and what it knows of the containers is still so.
LEMMA OrderMoves ==
    ASSUME CInv, pc # "await", pc' # "await", Own' \subseteq Own, Making' = Making, astray' = astray,
           Ordered => /\ cachedId' # None => Own' \subseteq {cachedId'}
                      /\ pc' \in {"clear", "create"} => Own' = {} /\ cachedId' = None
                      /\ pc' = "destroy" => Own' \subseteq {target'}
                      /\ Released'
    PROVE  OrderOK'
<1>1. CASE astray
  BY <1>1 DEF OrderOK
<1>2. CASE Ordered
  BY <1>2 DEF OrderOK, Ordered, Single, Attended, Remembered, Creating, Targeted
<1> QED
  BY <1>1, <1>2, InvParts DEF OrderOK

\* A reconcile is over, or goes on with the container it found or made.
LEMMA RestingSteps ==
    ASSUME CInv, LogOK', History', Forgotten', KindStep, pc # "await",
           PlaceOK', pc' \in Plain \cup {"idle"}, target' = None, UNCHANGED <<making, astray>>,
           GuestOK, SameGuests(guests') \/ guests' = guests,
           VolumeOK', CacheOK', CountOK', happened \subseteq happened', Ordered => Remembered', Spares
    PROVE  Outcome
<1>1. Past' /\ Released'
  BY NowhereSpecial
<1>2. GuestOK' /\ Own' = Own /\ Making' = Making
  BY SameGuestsStay
<1>3. TargetOK' /\ Checked'
  <2>1. pc' \notin {"destroy", "await"}
    BY DEF Plain
  <2>2. TargetOK'
    BY <2>1, InvParts DEF TargetOK
  <2> QED
    BY <2>1, <2>2 DEF Checked
<1>4. OrderOK'
  BY <1>1, <1>2, OrderMoves DEF Remembered, Plain
<1>5. Left'
  BY InvParts DEF Left
<1>6. LifecycleStep
  BY <1>2 DEF LifecycleStep, Unmoved
<1> QED
  BY <1>1, <1>2, <1>3, <1>4, <1>5, <1>6 DEF Outcome, CInv, Parts

\* A reconcile stays where it is, and containers may go or be listed.
LEMMA OrderStays ==
    ASSUME CInv, UNCHANGED <<pc, copy, target, astray>>, Own' \subseteq Own, Making' \subseteq Making,
           Ordered => Remembered', cachedId = None /\ Named = {} => cachedId' = None
    PROVE  TargetOK' /\ OrderOK'
<1>1. TargetOK /\ OrderOK /\ GuestOK
  BY InvParts
<1>2. TargetOK'
  BY <1>1 DEF TargetOK
<1>3. CASE astray
  BY <1>2, <1>3 DEF OrderOK
<1>4. CASE Ordered
  <2>1. pc \in {"clear", "create"} => Named = {}
    BY <1>4 DEF Ordered, Creating, Own
  <2>2. ASSUME pc = "await", target \in Making PROVE Named = {}
    <3>1. Named \subseteq {target}
      BY <1>4, <2>2 DEF Ordered, Creating, Own
    <3>2. target \in Ids /\ making[target] # None
      BY <2>2 DEF Making
    <3>3. guests[target] = None
      BY <1>1, <3>2 DEF GuestOK
    <3>4. target \notin Named
      BY <3>3 DEF Named
    <3> QED
      BY <3>1, <3>4
  <2>3. Creating'
    BY <1>4, <2>1, <2>2 DEF Ordered, Creating
  <2> QED
    BY <1>2, <1>4, <2>3 DEF OrderOK, Ordered, Single, Attended, Targeted, Released
<1> QED
  BY <1>1, <1>3, <1>4 DEF OrderOK

\* What is remembered stays so.
LEMMA SameRemembered ==
    ASSUME GuestOK, SameGuests(guests') \/ guests' = guests, making' = making
    PROVE  /\ cachedId' = cachedId => (Ordered => Remembered')
           /\ cachedId' = None => Remembered'
           /\ \A i : cachedId' = i /\ (Ordered => Own \subseteq {i}) => (Ordered => Remembered')
<1>1. Own' = Own
  BY SameGuestsStay
<1> QED
  BY <1>1 DEF Ordered, Remembered

\* A reconcile stays where it is.
LEMMA OutsideSteps ==
    ASSUME CInv, LogOK', History', Forgotten', KindStep,
           Spent => Spent', Untouched => Untouched', Held(Stored)' <=> Held(Stored),
           pc' = pc, copy' = copy, target' = target, queue' \in BOOLEAN, UNCHANGED <<making, astray>>,
           GuestOK, SameGuests(guests') \/ guests' = guests,
           VolumeOK', CacheOK', CountOK', happened \subseteq happened',
           Ordered => Remembered', cachedId = None /\ Named = {} => cachedId' = None
    PROVE  Outcome
<1>1. /\ GuestOK' /\ Own' = Own /\ Making' = Making
      /\ \A i \in Ids : (guests'[i] = None <=> guests[i] = None)
                        /\ (guests'[i] # None => guests'[i].own = guests[i].own)
  BY SameGuestsStay
<1>2. Past'
  BY PastStays, InvParts
<1>3. PlaceOK'
  BY InvParts DEF PlaceOK
<1>4. TargetOK' /\ OrderOK'
  BY <1>1, OrderStays
<1>5. Checked'
  <2>1. pc = "destroy" => target \in Ids
    BY InvParts DEF TargetOK
  <2> QED
    BY <1>1, <2>1, InvParts DEF Checked
<1>6. Left'
  BY InvParts DEF Left
<1>7. LifecycleStep /\ Spares
  BY <1>1 DEF LifecycleStep, Unmoved, Spares
<1> QED
  BY <1>1, <1>2, <1>3, <1>4, <1>5, <1>6, <1>7 DEF Outcome, CInv, Parts

\* Writes of the resource.
LEMMA KeptWrites ==
    ASSUME CInv, NEW v \in Versions, Store(v), Holds(v)
    PROVE  /\ LogOK' /\ Stored' = v /\ History' /\ Forgotten'
           /\ (Spent => Spent') /\ (Untouched => Untouched') /\ (Held(Stored)' <=> Held(Stored))
<1>1. LogOK' /\ Stored' = v
  BY InvParts, StoreKeepsLog
<1>2. Held(Stored)' <=> Held(Stored)
  BY <1>1 DEF Holds, Held
<1> QED
  BY <1>1, <1>2, InvParts, StoreKeepsHistory

\* A write of anything but the finalizer, or a deletion that stops there.
LEMMA FieldWrites ==
    ASSUME CInv, NEW v \in Objects, Store(v), Stored # None, v.finalizer = Stored.finalizer,
           Stored.deleting => v.deleting
    PROVE  /\ LogOK' /\ Stored' = v /\ History' /\ Forgotten' /\ KindStep
           /\ (Spent => Spent') /\ (Untouched => Untouched') /\ (Held(Stored)' <=> Held(Stored))
<1>1. v # None /\ v \in Versions
  BY InvParts DEF Versions
<1>2. Holds(v)
  BY <1>1 DEF Holds, Held, Going
<1>3. Stored' = v
  BY <1>1, <1>2, KeptWrites
<1>4. Kind' = Kind
  BY <1>1, <1>3 DEF Kind
<1> QED
  BY <1>1, <1>2, <1>4, KeptWrites DEF KindStep

\* The image is recorded in a patch.
LEMMA Patches ==
    ASSUME CInv, Stored # None, copy # None, NEW x \in Images \cup {None}, NEW s \in Stages \ {"idle"},
           PatchApplied(x, s)
    PROVE  /\ LogOK' /\ History' /\ Forgotten' /\ KindStep
           /\ (Spent => Spent') /\ (Untouched => Untouched') /\ (Held(Stored)' <=> Held(Stored))
           /\ PlaceOK' /\ pc' = s
<1> DEFINE new == IF copy.applied = x THEN Stored ELSE [Stored EXCEPT !.applied = x]
<1>1. Stored \in Objects /\ PlaceOK
  BY InvParts DEF Versions
<1>2. /\ new \in Objects /\ new.finalizer = Stored.finalizer /\ new.deleting = Stored.deleting
      /\ [new EXCEPT !.applied = x] \in Objects
  BY <1>1 DEF Objects
<1>3. Store(new) /\ GotoWith(s, [new EXCEPT !.applied = x])
  BY DEF PatchApplied
<1> HIDE DEF new
<1>4. PlaceOK' /\ pc' = s
  BY <1>1, <1>2, <1>3, Outcomes
<1>5. Stored.deleting => new.deleting
  BY <1>2
<1> QED
  BY <1>2, <1>3, <1>4, <1>5, FieldWrites

------------------------------------------------------------------------------
(* Steps of the user, of Proxmox, of the watch and of the process *)

LEMMA Fields ==
    ASSUME NEW o \in Objects
    PROVE  /\ \A x \in Images \cup {None} : [o EXCEPT !.image = x] \in Objects
           /\ \A c \in Configs : [o EXCEPT !.config = c] \in Objects
           /\ \A x \in Images \cup {None} : [o EXCEPT !.applied = x] \in Objects
           /\ [o EXCEPT !.protected = ~@] \in Objects
           /\ [o EXCEPT !.deleting = TRUE] \in Objects
           /\ [o EXCEPT !.marked = TRUE] \in Objects
           /\ [o EXCEPT !.finalizer = TRUE] \in Objects
BY DEF Objects

LEMMA UserSteps ==
    ASSUME CInv, UserCreate \/ UserEdit \/ UserDelete
    PROVE  Outcome
<1>1. /\ VolumeOK /\ CacheOK /\ CountOK /\ GuestOK /\ PlaceOK
      /\ Stored \in Versions /\ None \notin Objects
  BY InvParts
<1>2. /\ pc' = pc /\ copy' = copy /\ target' = target /\ queue' = queue
      /\ guests' = guests /\ volumes' = volumes /\ cachedId' = cachedId /\ cachedObj' = cachedObj
      /\ happened' = happened /\ UNCHANGED <<making, astray>>
  BY DEF UserCreate, UserEdit, UserDelete, proxmox, creations, cache, counters
<1>3. queue' \in BOOLEAN /\ VolumeOK' /\ CacheOK' /\ (Ordered => Remembered')
  BY <1>1, <1>2, SameRemembered DEF PlaceOK, VolumeOK, CacheOK
<1>4. CountOK'
  BY <1>1, Constants DEF UserCreate, UserEdit, UserDelete, CountOK, counters
<1>5. /\ LogOK' /\ History' /\ Forgotten' /\ KindStep
      /\ (Spent => Spent') /\ (Untouched => Untouched') /\ (Held(Stored)' <=> Held(Stored))
  <2>1. CASE UserCreate
    <3>1. PICK k \in Kinds :
            Store([image |-> k.image, config |-> k.config, autostart |-> k.autostart, mode |-> k.mode,
                   protected |-> FALSE, deleting |-> FALSE, finalizer |-> FALSE, marked |-> FALSE,
                   applied |-> None])
      BY <2>1 DEF UserCreate
    <3> DEFINE v == [image |-> k.image, config |-> k.config, autostart |-> k.autostart, mode |-> k.mode,
                     protected |-> FALSE, deleting |-> FALSE, finalizer |-> FALSE, marked |-> FALSE,
                     applied |-> None]
    <3>2. k \in AllKinds
      BY Constants
    <3>3. v \in Objects /\ ~v.finalizer
      BY <3>2 DEF AllKinds, Objects
    <3>4. Store(v)
      BY <3>1
    <3> HIDE DEF v
    <3>5. Stored = None /\ v # None
      BY <1>1, <2>1, <3>3 DEF UserCreate
    <3>6. Holds(v) /\ v \in Versions
      BY <3>3, <3>5 DEF Holds, Held, Going, Versions
    <3>7. Stored' = v
      BY <3>4, <3>6, KeptWrites
    <3>8. KindStep
      BY <3>3, <3>5, <3>7 DEF KindStep, Kind
    <3> QED
      BY <3>4, <3>6, <3>8, KeptWrites
  <2>2. CASE UserEdit
    <3>1. Stored # None /\ Stored \in Objects
      BY <1>1, <2>2 DEF UserEdit, Versions
    <3>2. PICK v \in Objects : Store(v) /\ v.finalizer = Stored.finalizer /\ v.deleting = Stored.deleting
      <4>1. CASE \E x \in (Images \cup {None}) \ {Stored.image} : Store([Stored EXCEPT !.image = x])
        BY <3>1, <4>1, Fields DEF Objects
      <4>2. CASE \E c \in Configs \ {Stored.config} : Store([Stored EXCEPT !.config = c])
        BY <3>1, <4>2, Fields DEF Objects
      <4>3. CASE Store([Stored EXCEPT !.protected = ~@])
        <5> DEFINE v == [Stored EXCEPT !.protected = ~@]
        <5>1. v \in Objects /\ v.finalizer = Stored.finalizer /\ v.deleting = Stored.deleting
          BY <3>1 DEF Objects
        <5>2. Store(v)
          BY <4>3
        <5> HIDE DEF v
        <5> QED
          BY <5>1, <5>2
      <4> QED
        BY <2>2, <4>1, <4>2, <4>3 DEF UserEdit
    <3> QED
      BY <3>1, <3>2, FieldWrites
  <2>3. CASE UserDelete /\ Stored.finalizer
    <3>1. Stored # None /\ Stored \in Objects /\ Store([Stored EXCEPT !.deleting = TRUE])
      BY <1>1, <2>3 DEF UserDelete, Versions
    <3> DEFINE v == [Stored EXCEPT !.deleting = TRUE]
    <3>2. v \in Objects /\ v.finalizer = Stored.finalizer /\ v.deleting
      BY <3>1 DEF Objects
    <3>3. Store(v)
      BY <3>1
    <3> HIDE DEF v
    <3> QED
      BY <3>1, <3>2, <3>3, FieldWrites
  <2>4. CASE UserDelete /\ ~Stored.finalizer
    <3>1. Stored # None /\ Store(None)
      BY <2>4 DEF UserDelete
    <3>2. Holds(None) /\ None \in Versions
      BY <2>4 DEF Holds, Held, Going, Versions
    <3>3. Stored' = None
      BY <3>1, <3>2, KeptWrites
    <3>4. KindStep
      BY <2>4, <3>1, <3>3 DEF KindStep, Kind
    <3> QED
      BY <3>1, <3>2, <3>4, KeptWrites
  <2> QED
    BY <2>1, <2>2, <2>3, <2>4
<1>6. cachedId = None /\ Named = {} => cachedId' = None
  BY <1>2
<1> QED
  BY <1>1, <1>2, <1>3, <1>4, <1>5, <1>6, OutsideSteps

\* What leaves the resource and its reconcile alone, and only takes containers away or lists them.
LEMMA ElsewhereSteps ==
    ASSUME CInv, UNCHANGED <<log, queue, pc, copy, target, volumes, astray, cachedId, cachedObj>>,
           GuestOK', CountOK', happened \subseteq happened', Finishes \/ Loses, Checked'
    PROVE  Outcome
<1>1. /\ LogOK' /\ History' /\ Forgotten' /\ Kind' = Kind
      /\ (Spent => Spent') /\ (Untouched => Untouched') /\ (Held(Stored)' <=> Held(Stored))
  BY SameResource
<1>2. Past'
  BY <1>1, InvParts, PastStays
<1>3. Own' \subseteq Own /\ Making' \subseteq Making
  BY DEF Finishes, Loses
<1>4. Ordered => Remembered'
  BY <1>3 DEF Ordered, Remembered
<1>5. TargetOK' /\ OrderOK'
  BY <1>3, <1>4, OrderStays
<1>6. PlaceOK' /\ VolumeOK' /\ CacheOK' /\ Left'
  BY InvParts DEF PlaceOK, VolumeOK, CacheOK, Left
<1>7. LifecycleStep /\ Spares
  BY <1>1 DEF LifecycleStep, OwnStep, Spares
<1> QED
  BY <1>1, <1>2, <1>5, <1>6, <1>7 DEF Outcome, CInv, Parts

\* A container of the resource goes, and maybe a stranger has its VMID.
LEMMA GuestGoes ==
    ASSUME GuestOK, NEW i \in Named, NEW next \in Guests \cup {None}, next # None => ~next.own,
           guests' = [guests EXCEPT ![i] = next], UNCHANGED <<making, astray>>
    PROVE  /\ GuestOK' /\ Loses /\ Making' = Making /\ Own' = Own \ {i}
           /\ guests'[i] = next /\ \A j \in Ids \ {i} : guests'[j] = guests[j]
<1>1. i \in Ids /\ guests[i] # None /\ making[i] = None
  BY DEF Named, GuestOK
<1>2. guests'[i] = next /\ \A j \in Ids \ {i} : guests'[j] = guests[j]
  BY <1>1 DEF GuestOK
<1>3. GuestOK'
  BY <1>1, <1>2 DEF GuestOK
<1>4. Named' = Named \ {i} /\ Making' = Making /\ i \notin Making
  BY <1>1, <1>2 DEF Named, Making
<1> QED
  BY <1>2, <1>3, <1>4 DEF Loses, Own

LEMMA DestroyedSteps ==
    ASSUME CInv, NEW i \in Ids, NEW next \in Strangers \cup {None}, Destroyed(i, next)
    PROVE  Outcome
<1>1. /\ UNCHANGED <<log, queue, pc, copy, target, volumes, making, astray, cachedId, cachedObj>>
      /\ guests' = [guests EXCEPT ![i] = next]
  BY DEF Destroyed, creations, cache
<1>2. GuestOK /\ TargetOK /\ CountOK /\ Checked
  BY InvParts
<1>3. next \in Guests \cup {None} /\ (next # None => ~next.own)
  <2>1. TemplateConfig \in Configs
    BY Constants
  <2> QED
    BY <2>1 DEF Strangers, Guests
<1>4. /\ GuestOK' /\ Loses
      /\ guests'[i] = next /\ \A j \in Ids \ {i} : guests'[j] = guests[j]
  <2>1. i \in Named
    BY DEF Destroyed, Named
  <2> QED
    BY <1>1, <1>2, <1>3, <2>1, GuestGoes
<1>5. CountOK' /\ happened' = happened \cup {IF next = None THEN "vanished"
                                              ELSE IF pc = "destroy" THEN "reused at once" ELSE "reused"}
  BY <1>2, Troubles DEF Destroyed
<1>6. Checked'
  <2>1. CASE pc = "destroy" /\ target = i
    BY <1>1, <1>4, <1>5, <2>1 DEF Checked
  <2>2. CASE pc = "destroy" /\ target # i
    <3>1. target \in Ids \ {i}
      BY <1>2, <2>2 DEF TargetOK
    <3> QED
      BY <1>1, <1>2, <1>4, <1>5, <3>1 DEF Checked
  <2> QED
    BY <1>1, <2>1, <2>2 DEF Checked
<1> QED
  BY <1>1, <1>4, <1>5, <1>6, ElsewhereSteps

\* The container that was under way at i is none any more.
LEMMA CreationGone ==
    ASSUME GuestOK, NEW i \in Making, making' = [making EXCEPT ![i] = None], UNCHANGED <<guests, astray>>
    PROVE  GuestOK' /\ Loses /\ Own' = Own \ {i} /\ Making' = Making \ {i}
<1>1. i \in Ids /\ making[i] # None /\ guests[i] = None
  BY DEF GuestOK, Making
<1>2. making'[i] = None /\ \A j \in Ids \ {i} : making'[j] = making[j]
  BY <1>1 DEF GuestOK
<1>3. GuestOK'
  BY <1>1, <1>2 DEF GuestOK
<1>4. Making' = Making \ {i}
  BY <1>1, <1>2 DEF Making
<1>5. Named' = Named /\ i \notin Named
  BY <1>1 DEF Named
<1> QED
  BY <1>3, <1>4, <1>5 DEF Loses, Own

\* The task of a creation ends.
LEMMA CreationEndsSteps ==
    ASSUME CInv, NEW i \in Ids, CreationEnds(i)
    PROVE  Outcome
<1>1. UNCHANGED <<log, queue, pc, copy, target, volumes, astray, cachedId, cachedObj, edits, faults, happened>>
  BY DEF CreationEnds, cache, counters
<1>2. /\ GuestOK /\ CountOK /\ Checked /\ TargetOK /\ i \in Making
      /\ making[i] # None /\ guests[i] = None /\ making' = [making EXCEPT ![i] = None]
  BY InvParts DEF CreationEnds, Making, GuestOK
<1>3. CountOK'
  BY <1>1, <1>2 DEF CountOK
<1>4. CASE UNCHANGED guests
  <2>1. Checked'
    BY <1>1, <1>2, <1>4 DEF Checked
  <2>2. GuestOK' /\ Loses
    BY <1>1, <1>2, <1>4, CreationGone
  <2> QED
    BY <1>1, <1>3, <2>1, <2>2, ElsewhereSteps
<1>5. CASE guests' = [guests EXCEPT ![i] = making[i]]
  <2>1. making[i] \in Guests /\ making[i].own
    BY <1>2 DEF GuestOK
  <2>2. /\ guests'[i] = making[i] /\ making'[i] = None
        /\ \A j \in Ids \ {i} : guests'[j] = guests[j] /\ making'[j] = making[j]
    BY <1>2, <1>5 DEF GuestOK
  <2>3. GuestOK'
    BY <1>2, <1>5, <2>1, <2>2 DEF GuestOK
  <2>4. Named' = Named \cup {i} /\ Making' = Making \ {i}
    BY <1>2, <2>1, <2>2 DEF Named, Making
  <2>5. Finishes
    BY <1>1, <1>2, <2>4 DEF Finishes, Own
  <2>6. Checked'
    <3>1. pc = "destroy" => target \in Ids
      BY <1>2 DEF TargetOK
    <3> QED
      BY <1>1, <1>2, <2>1, <2>2, <3>1 DEF Checked
  <2> QED
    BY <1>1, <1>3, <2>3, <2>5, <2>6, ElsewhereSteps
<1> QED
  BY <1>4, <1>5 DEF CreationEnds

LEMMA TamperedSteps ==
    ASSUME CInv, NEW i \in Ids, Stopped(i) \/ Reconfigured(i)
    PROVE  Outcome
<1>1. /\ log' = log /\ queue' = queue /\ pc' = pc /\ copy' = copy /\ target' = target
      /\ volumes' = volumes /\ cachedId' = cachedId /\ cachedObj' = cachedObj
      /\ UNCHANGED <<making, astray>>
  BY DEF Stopped, Reconfigured, creations, cache
<1>2. PlaceOK /\ GuestOK /\ VolumeOK /\ CacheOK /\ CountOK
  BY InvParts
<1>3. SameGuests(guests')
  <2>1. CASE Stopped(i)
    BY <1>2, <2>1, GuestWrites DEF Stopped
  <2>2. CASE Reconfigured(i)
    BY <1>2, <2>2, GuestWrites DEF Reconfigured
  <2> QED
    BY <2>1, <2>2
<1>4. CountOK' /\ happened \subseteq happened'
  BY <1>2, Troubles DEF Stopped, Reconfigured
<1>5. Ordered => Remembered'
  BY <1>1, <1>2, <1>3, SameRemembered
<1>6. VolumeOK' /\ CacheOK' /\ queue' \in BOOLEAN
  BY <1>1, <1>2 DEF VolumeOK, CacheOK, PlaceOK
<1>7. cachedId = None /\ Named = {} => cachedId' = None
  BY <1>1
<1>8. KindStep
  BY <1>1, SameResource DEF KindStep
<1> QED
  BY <1>1, <1>2, <1>3, <1>4, <1>5, <1>6, <1>7, <1>8, SameResource, OutsideSteps

LEMMA DeliverSteps ==
    ASSUME CInv, Deliver
    PROVE  Outcome
<1>1. /\ pc' = pc /\ copy' = copy /\ target' = target /\ guests' = guests
      /\ volumes' = volumes /\ cachedId' = cachedId /\ cachedObj' = cachedObj
      /\ edits' = edits /\ faults' = faults /\ happened' = happened
      /\ UNCHANGED <<making, astray>>
  BY DEF Deliver, proxmox, creations, cache, counters
<1>2. LogOK /\ PlaceOK /\ GuestOK /\ VolumeOK /\ CacheOK /\ CountOK /\ History /\ Forgotten
  BY InvParts
<1>3. /\ LogOK' /\ Stored' = Stored /\ History' /\ Forgotten'
      /\ (Spent => Spent') /\ (Untouched => Untouched')
  BY <1>2, DeliverKeepsLog, DeliverKeepsHistory
<1>4. KindStep /\ (Held(Stored)' <=> Held(Stored))
  BY <1>3 DEF KindStep, Kind, Held
<1>5. queue' \in BOOLEAN
  <2> DEFINE known == log[1] = None \/ log[2] = None \/ log[2].deleting \/ Spec0(log[1]) # Spec0(log[2])
  <2>1. queue' = (queue \/ known)
    BY Zenon DEF Deliver
  <2> HIDE DEF known
  <2> QED
    BY <2>1
<1>6. VolumeOK' /\ CacheOK' /\ CountOK' /\ (Ordered => Remembered')
  BY <1>1, <1>2, SameRemembered DEF VolumeOK, CacheOK, CountOK
<1>7. happened \subseteq happened' /\ (cachedId = None /\ Named = {} => cachedId' = None)
  BY <1>1
<1> QED
  BY <1>1, <1>2, <1>3, <1>4, <1>5, <1>6, <1>7, OutsideSteps

LEMMA PollSteps ==
    ASSUME CInv, Poll
    PROVE  Outcome
<1>1. /\ log' = log /\ pc' = pc /\ copy' = copy /\ target' = target /\ guests' = guests
      /\ volumes' = volumes /\ edits' = edits /\ faults' = faults /\ happened' = happened
      /\ UNCHANGED <<making, astray>>
  BY DEF Poll, proxmox, creations, counters
<1>2. PlaceOK /\ GuestOK /\ VolumeOK /\ CacheOK /\ CountOK
  BY InvParts
<1>3. VolumeOK' /\ CountOK' /\ happened \subseteq happened'
  BY <1>1, <1>2 DEF VolumeOK, CountOK
<1>4. KindStep
  BY <1>1, SameResource DEF KindStep
<1>5. /\ queue' \in BOOLEAN /\ CacheOK' /\ (Ordered => Remembered')
      /\ (cachedId = None /\ Named = {} => cachedId' = None)
  <2>1. ASSUME NEW i \in Sought, guests[i] # None, cachedId' = i,
               cachedObj' = [cachedObj EXCEPT ![i] = Fresh(guests[i])],
               queue' = (queue \/ (Seen.mode = "Reconcile" /\ Drift(guests[i])))
        PROVE  /\ queue' \in BOOLEAN /\ CacheOK' /\ (Ordered => Remembered')
               /\ (cachedId = None /\ Named = {} => cachedId' = None)
    <3>1. i \in Ids /\ (Ordered => Own \subseteq {i})
      BY SoughtIsIt
    <3>2. Fresh(guests[i]) \in Snapshots
      BY <1>2, <2>1, <3>1 DEF GuestOK, Fresh, Guests, Snapshots
    <3>3. CacheOK' /\ (Ordered => Remembered')
      BY <1>1, <1>2, <2>1, <3>1, <3>2, SameRemembered DEF CacheOK
    <3>4. queue' \in BOOLEAN
      <4> DEFINE drifted == Seen.mode = "Reconcile" /\ Drift(guests[i])
      <4>1. queue' = (queue \/ drifted)
        BY <2>1, Zenon
      <4> HIDE DEF drifted
      <4> QED
        BY <4>1
    <3>5. ~(cachedId = None /\ Named = {})
      BY <2>1 DEF Sought
    <3> QED
      BY <3>3, <3>4, <3>5
  <2>2. ASSUME cachedId' = None,
               cachedObj' = [i \in Ids |-> IF i = cachedId THEN None ELSE cachedObj[i]],
               queue' = (queue \/ Named = {})
        PROVE  /\ queue' \in BOOLEAN /\ CacheOK' /\ (Ordered => Remembered')
               /\ (cachedId = None /\ Named = {} => cachedId' = None)
    <3>1. CacheOK' /\ (Ordered => Remembered')
      BY <1>1, <1>2, <2>2, SameRemembered DEF CacheOK
    <3>2. queue' \in BOOLEAN
      BY <2>2, Zenon
    <3> QED
      BY <2>2, <3>1, <3>2
  <2> QED
    BY <2>1, <2>2 DEF Poll
<1> QED
  BY <1>1, <1>2, <1>3, <1>4, <1>5, SameResource, OutsideSteps

\* A reconcile that fails, a process that restarts and a client that is new forget what they knew.
LEMMA FaultSteps ==
    ASSUME CInv, ReconcileError \/ NewClient
    PROVE  Outcome
<1>1. /\ LogOK /\ PlaceOK /\ TargetOK /\ GuestOK /\ VolumeOK /\ CacheOK /\ CountOK
      /\ Stored \in Versions
  BY InvParts
<1>2. guests' = guests /\ volumes' = volumes /\ UNCHANGED <<making, astray>>
  BY DEF ReconcileError, NewClient, proxmox, creations
<1>3. VolumeOK' /\ Spares
  BY <1>1, <1>2 DEF VolumeOK, Spares
<1>4. CountOK' /\ happened \subseteq happened'
  BY <1>1, Troubles DEF ReconcileError, NewClient
<1>5. CASE ReconcileError
  <2>1. /\ log' = log /\ cachedId' = cachedId /\ cachedObj' = cachedObj /\ target' = None /\ Requeue
        /\ pc # "await"
    BY <1>5 DEF ReconcileError, cache
  <2>2. PlaceOK' /\ pc' \in Plain \cup {"idle"}
    BY <1>1, <2>1, Outcomes
  <2>3. CacheOK' /\ (Ordered => Remembered')
    BY <1>1, <1>2, <2>1, SameRemembered DEF CacheOK
  <2>4. KindStep
    BY <2>1, SameResource DEF KindStep
  <2> QED
    BY <1>1, <1>2, <1>3, <1>4, <2>1, <2>2, <2>3, <2>4, SameResource, RestingSteps
<1>6. CASE NewClient
  <2>1. /\ log' = log /\ queue' = queue /\ pc' = pc /\ copy' = copy /\ target' = target
        /\ cachedId' = None /\ cachedObj' = [i \in Ids |-> None]
    BY <1>6 DEF NewClient
  <2>2. CacheOK' /\ (Ordered => Remembered') /\ queue' \in BOOLEAN
    BY <1>1, <1>2, <2>1, SameRemembered DEF CacheOK, PlaceOK
  <2>3. KindStep
    BY <2>1, SameResource DEF KindStep
  <2> QED
    BY <1>1, <1>2, <1>3, <1>4, <2>1, <2>2, <2>3, SameResource, OutsideSteps
<1> QED
  BY <1>5, <1>6

\* A restart leaves what is under way.
LEMMA RestartSteps ==
    ASSUME CInv, Restart
    PROVE  Outcome
<1>1. /\ LogOK /\ PlaceOK /\ TargetOK /\ GuestOK /\ VolumeOK /\ CountOK /\ Left /\ OrderOK
      /\ Stored \in Versions
  BY InvParts
<1>2. /\ log' = <<Stored>> /\ cachedId' = None /\ cachedObj' = [i \in Ids |-> None]
      /\ target' = None /\ pc' = "idle" /\ copy' = None /\ queue' = (Stored # None)
      /\ UNCHANGED <<guests, volumes, making>>
      /\ astray' = (astray \/ Making # {})
  BY DEF Restart, proxmox
<1>3. LogOK' /\ Stored' = Stored /\ History' /\ Forgotten'
  BY <1>1, <1>2, RestartKeepsLog, RestartKeepsHistory
<1>4. Kind' = Kind
  BY <1>3 DEF Kind
<1>5. PlaceOK' /\ VolumeOK' /\ CacheOK'
  BY <1>1, <1>2 DEF PlaceOK, Stages, Versions, VolumeOK, CacheOK
<1>6. Past' /\ Released'
  BY <1>2, <1>3, NowhereSpecial
<1>7. GuestOK' /\ Own' = Own /\ Making' = Making
  BY <1>1, <1>2 DEF GuestOK, Own, Named, Making
<1>8. /\ CountOK' /\ happened \subseteq happened'
      /\ Making # {} => "left" \in happened'
  <2>1. Fault(IF Making # {} THEN "left" ELSE "restart")
    BY DEF Restart
  <2>2. CountOK' /\ happened' = happened \cup {IF Making # {} THEN "left" ELSE "restart"}
    BY <1>1, <2>1, Troubles
  <2> QED
    BY <2>2
<1>9. \/ Making = {} /\ astray' = astray
      \/ Making # {} /\ astray' = TRUE
  <2>1. astray \in BOOLEAN
    BY <1>1 DEF TargetOK
  <2>2. CASE Making = {}
    <3>1. ~(Making # {})
      BY <2>2
    <3>2. astray' = astray
      BY <1>2, <2>1, <3>1, Zenon
    <3> QED
      BY <2>2, <3>2
  <2>3. CASE Making # {}
    BY <1>2, <2>3
  <2> QED
    BY <2>2, <2>3
<1>10. TargetOK' /\ Checked'
  BY <1>1, <1>2, <1>9 DEF TargetOK, Checked
<1>11. OrderOK'
  <2>1. CASE astray'
    BY <2>1 DEF OrderOK
  <2>2. CASE ~astray'
    <3>1. Making' = {} /\ Ordered
      BY <1>1, <1>7, <1>9, <2>2 DEF OrderOK
    <3> QED
      BY <1>2, <1>6, <1>7, <3>1
         DEF OrderOK, Ordered, Single, Attended, Remembered, Creating, Targeted
  <2> QED
    BY <2>1, <2>2
<1>12. Left'
  BY <1>1, <1>8, <1>9 DEF Left
<1>13. LifecycleStep
  BY <1>4, <1>7, <1>9 DEF LifecycleStep, KindStep, OwnStep, Unmoved, Strays
<1>14. Spares
  BY <1>2 DEF Spares
<1> QED
  BY <1>3, <1>5, <1>6, <1>7, <1>8, <1>10, <1>11, <1>12, <1>13, <1>14 DEF Outcome, CInv, Parts

------------------------------------------------------------------------------
(* Steps of a reconcile up to the container *)

\* A reconcile goes on and leaves the containers.
LEMMA MovesOn ==
    ASSUME CInv, LogOK', History', Forgotten', KindStep, UNCHANGED <<guests, making, astray>>, volumes' = volumes,
           target' = None, pc \notin {"destroy", "await"}, pc' \notin {"destroy", "await"},
           CountOK', PlaceOK', CacheOK', happened \subseteq happened', Past',
           Ordered => /\ cachedId' # None => Own \subseteq {cachedId'}
                      /\ pc' \in {"clear", "create"} => Own = {} /\ cachedId' = None
                      /\ Released'
    PROVE  Outcome
<1>1. GuestOK' /\ Own' = Own /\ Making' = Making
  BY InvParts, SameGuestsStay
<1>2. VolumeOK' /\ TargetOK' /\ Left'
  BY InvParts DEF VolumeOK, TargetOK, Left
<1>3. Checked'
  BY DEF Checked
<1>4. OrderOK'
  BY <1>1, OrderMoves
<1>5. LifecycleStep /\ Spares
  BY <1>1 DEF LifecycleStep, Unmoved, Spares
<1> QED
  BY <1>1, <1>2, <1>3, <1>4, <1>5 DEF Outcome, CInv, Parts

\* What most steps leave, wherever the reconcile is but in the destruction or the creation of a
\* container.
LEMMA Aside ==
    ASSUME CInv, pc \notin {"destroy", "await"}
    PROVE  /\ target = None
           /\ cachedId' = cachedId /\ cachedObj' = cachedObj =>
                CacheOK' /\ (Ordered => (cachedId' # None => Own \subseteq {cachedId'}))
BY InvParts DEF TargetOK, CacheOK, Ordered, Remembered

LEMMA GetSteps ==
    ASSUME CInv, Get
    PROVE  Outcome
<1>1. /\ log' = log /\ guests' = guests /\ volumes' = volumes /\ target' = target /\ making' = making
      /\ cachedId' = cachedId /\ cachedObj' = cachedObj
      /\ edits' = edits /\ faults' = faults /\ happened' = happened
      /\ pc = "idle" /\ queue' = FALSE
  BY DEF Get, proxmox, cache, counters
<1>2. /\ LogOK /\ PlaceOK /\ CountOK /\ History /\ Forgotten
      /\ Seen \in Versions /\ None \notin Objects
  BY InvParts
<1>3. target = None /\ CacheOK' /\ (Ordered => (cachedId' # None => Own \subseteq {cachedId'})) /\ CountOK'
  BY <1>1, <1>2, Aside DEF CountOK
<1>4. /\ LogOK' /\ KindStep /\ History' /\ Forgotten'
      /\ (Spent => Spent') /\ (Untouched => Untouched') /\ (Held(Stored)' <=> Held(Stored))
  BY <1>1, SameResource DEF KindStep
<1>5. /\ Held(Seen) /\ ~Seen.deleting => Held(Stored)
      /\ Going(Seen) => Spent
      /\ ~Held(Seen) /\ ~Held(Stored) => Untouched
  BY <1>2, SeenAndStored
<1>6. \/ pc' = "idle" /\ copy' = None
      \/ Seen # None /\ copy' = Seen /\ pc' = "exists" /\ Ensures(Seen)
      \/ Seen # None /\ copy' = Seen /\ pc' = "exists" /\ Held(Seen) /\ ~Seen.deleting
      \/ Seen # None /\ copy' = Seen /\ pc' = "finalizer" /\ ~Held(Seen) /\ ~Seen.finalizer /\ ~Seen.deleting
      \/ Seen # None /\ copy' = Seen /\ Going(Seen) /\ pc' = Deletion(Seen)
  BY DEF Get, Held, Going, Ensures, Deletion
<1>7. PlaceOK' /\ Past' /\ Released' /\ pc' \notin {"clear", "create", "destroy"}
  <2>1. CASE pc' = "idle" /\ copy' = None
    BY <1>1, <1>4, <2>1, NowhereSpecial DEF PlaceOK, Stages, Versions
  <2>2. CASE Seen # None /\ copy' = Seen /\ pc' = "exists" /\ Ensures(Seen)
    BY <1>1, <1>2, <1>4, <2>2 DEF PlaceOK, Stages, Past, Released, Ensures
  <2>3. CASE Seen # None /\ copy' = Seen /\ pc' = "exists" /\ Held(Seen) /\ ~Seen.deleting
    BY <1>1, <1>2, <1>4, <1>5, <2>3 DEF PlaceOK, Stages, Past, Released
  <2>4. CASE Seen # None /\ copy' = Seen /\ pc' = "finalizer" /\ ~Held(Seen) /\ ~Seen.finalizer /\ ~Seen.deleting
    BY <1>1, <1>2, <1>4, <1>5, <2>4 DEF PlaceOK, Stages, Past, Released
  <2>5. CASE Seen # None /\ copy' = Seen /\ Going(Seen) /\ pc' = Deletion(Seen)
    <3>1. Seen.deleting /\ Spent'
      BY <1>4, <1>5, <2>5 DEF Going
    <3>2. pc' \in {"mark", "stop"} \/ (pc' = "unfinalize" /\ Seen.protected)
      BY <2>5 DEF Deletion
    <3>3. PlaceOK'
      BY <1>1, <1>2, <2>5, <3>2 DEF PlaceOK, Stages
    <3>4. copy'.deleting
      BY <2>5, <3>1
    <3>5. Past'
      <4>1. History' /\ Forgotten' /\ Spent'
        BY <1>4, <3>1
      <4> QED
        BY <3>2, <3>4, <4>1 DEF Past
    <3>6. Released'
      BY <2>5, <3>2 DEF Released
    <3> QED
      BY <3>2, <3>3, <3>5, <3>6
  <2> QED
    BY <1>6, <2>1, <2>2, <2>3, <2>4, <2>5
<1>8. \/ astray' = astray
      \/ InOrder /\ astray' = FALSE
  <2>1. astray \in BOOLEAN /\ astray' = (astray /\ ~InOrder)
    BY InvParts DEF Get, TargetOK
  <2>2. CASE astray /\ ~InOrder
    BY <2>1, <2>2
  <2>3. CASE ~astray
    BY <2>1, <2>3
  <2>4. CASE InOrder
    BY <2>1, <2>4
  <2> QED
    BY <2>2, <2>3, <2>4
<1>9. pc' # "await"
  BY <1>6 DEF Deletion
<1>10. CASE astray' = astray
  BY <1>1, <1>3, <1>4, <1>7, <1>9, <1>10, MovesOn
<1>11. CASE InOrder /\ astray' = FALSE
  <2>1. GuestOK' /\ Own' = Own /\ Making' = Making
    BY <1>1, InvParts, SameGuestsStay
  <2>2. Single /\ Making = {} /\ (cachedId # None => Own \subseteq {cachedId})
    BY <1>11 DEF InOrder, Single
  <2>3. OrderOK'
    BY <1>1, <1>7, <1>9, <2>1, <2>2
       DEF OrderOK, Ordered, Single, Attended, Remembered, Creating, Targeted
  <2>4. VolumeOK' /\ TargetOK' /\ Left' /\ Checked'
    <3>1. Checked'
      BY <1>7 DEF Checked
    <3>2. pc' \notin {"destroy", "await"} /\ target' = None
      BY <1>1, <1>3, <1>7, <1>9
    <3>3. astray' \in BOOLEAN
      BY <1>11
    <3>4. TargetOK'
      BY <3>2, <3>3 DEF TargetOK
    <3>5. VolumeOK'
      BY <1>1, InvParts DEF VolumeOK
    <3>6. Left'
      BY <1>11 DEF Left
    <3> QED
      BY <3>1, <3>4, <3>5, <3>6
  <2>5. Kind' = Kind
    BY <1>1, SameResource
  <2>6. LifecycleStep /\ Spares
    BY <1>1, <1>11, <2>1, <2>2, <2>5 DEF LifecycleStep, OwnStep, Settles, Spares
  <2> QED
    BY <1>3, <1>4, <1>7, <2>1, <2>3, <2>4, <2>6 DEF Outcome, CInv, Parts
<1> QED
  BY <1>8, <1>10, <1>11

LEMMA HandleFinalizerSteps ==
    ASSUME CInv, HandleFinalizer
    PROVE  Outcome
<1>1. /\ guests' = guests /\ volumes' = volumes /\ target' = target
      /\ cachedId' = cachedId /\ cachedObj' = cachedObj
      /\ edits' = edits /\ faults' = faults /\ happened' = happened
      /\ pc = "finalizer" /\ UNCHANGED <<making, astray>>
  BY DEF HandleFinalizer, proxmox, creations, cache, counters
<1>2. LogOK /\ PlaceOK /\ CountOK /\ Past /\ copy \in Objects /\ copy # None /\ None \notin Objects
  BY <1>1, InvParts
<1>3. target = None /\ CacheOK' /\ (Ordered => (cachedId' # None => Own \subseteq {cachedId'})) /\ CountOK'
  BY <1>1, <1>2, Aside DEF CountOK
<1> DEFINE new == [copy EXCEPT !.finalizer = TRUE]
<1>4. CASE Stored = copy /\ Store(new) /\ GotoWith("exists", new)
  <2>1. new \in Objects /\ new.finalizer /\ new.deleting = copy.deleting
    BY <1>2 DEF Objects
  <2> HIDE DEF new
  <2>2. ~copy.finalizer /\ ~copy.deleting /\ ~Held(Stored) /\ Untouched
    BY <1>1, <1>2, <1>4 DEF Past, Held
  <2>3. new \in Versions /\ new # None /\ Held(new) /\ ~new.deleting
    BY <1>2, <2>1, <2>2 DEF Versions, Held
  <2>4. LogOK' /\ Stored' = new /\ History' /\ Forgotten'
    BY <1>2, <1>4, <2>2, <2>3, StoreKeepsLog, HoldKeepsHistory
  <2>5. PlaceOK' /\ pc' = "exists" /\ copy' = new
    <3>1. "exists" \in Stages \ {"idle"}
      BY DEF Stages
    <3> QED
      BY <1>2, <1>4, <2>1, <3>1, Outcomes
  <2>6. Held(Stored)'
    BY <2>3, <2>4 DEF Held
  <2>7. Past' /\ Released'
    BY <2>3, <2>4, <2>5, <2>6 DEF Past, Released
  <2>8. KindStep
    BY <1>2, <1>4, <2>2, <2>3, <2>4 DEF KindStep, Kind, Held
  <2> QED
    BY <1>1, <1>3, <2>4, <2>5, <2>7, <2>8, MovesOn
<1>5. CASE log' = log /\ (Return \/ Requeue)
  <2>1. PlaceOK' /\ pc' = "idle"
    BY <1>2, <1>5, Outcomes
  <2>2. LogOK' /\ KindStep /\ History' /\ Forgotten'
    BY <1>5, SameResource DEF KindStep
  <2>3. Past' /\ Released'
    BY <2>1, <2>2, NowhereSpecial
  <2> QED
    BY <1>1, <1>3, <2>1, <2>2, <2>3, MovesOn
<1> QED
  BY <1>4, <1>5 DEF HandleFinalizer

LEMMA HandleContainerOperationsSteps ==
    ASSUME CInv, HandleContainerOperations
    PROVE  Outcome
<1>1. /\ log' = log /\ guests' = guests /\ volumes' = volumes /\ target' = target
      /\ cachedObj' = cachedObj /\ edits' = edits /\ faults' = faults
      /\ pc = "exists" /\ cachedId' \in (IF Exists THEN Sought ELSE {None})
      /\ UNCHANGED <<making, astray>> /\ happened \subseteq happened'
  BY DEF HandleContainerOperations, proxmox, creations, MarkMisrecorded
<1>2. /\ PlaceOK /\ CountOK /\ CacheOK /\ Past /\ copy \in Objects /\ copy # None
      /\ None \notin Ids
  BY <1>1, InvParts, Constants
<1>3. target = None /\ CountOK'
  BY <1>1, <1>2, Aside DEF CountOK
<1>4. CacheOK' /\ (Ordered => (cachedId' # None => Own \subseteq {cachedId'}))
  <2>1. CASE Exists
    <3>1. cachedId' \in Ids /\ (Ordered => Own \subseteq {cachedId'})
      BY <1>1, <2>1, SoughtIsIt
    <3> QED
      BY <1>1, <1>2, <3>1 DEF CacheOK
  <2>2. CASE ~Exists
    BY <1>1, <1>2, <2>2 DEF CacheOK
  <2> QED
    BY <2>1, <2>2
<1>5. ~Exists /\ Ordered => Own = {} /\ cachedId' = None
  BY <1>1 DEF Exists, Sought, Own, Ordered, Attended
<1>6. /\ LogOK' /\ KindStep /\ History' /\ Forgotten'
      /\ (Spent => Spent') /\ (Untouched => Untouched') /\ (Held(Stored)' <=> Held(Stored))
  BY <1>1, SameResource DEF KindStep
<1> DEFINE next == IF copy.mode # "EnsureExists" THEN ReconcileOCIImageDrift
                   ELSE IF Exists THEN "idle" ELSE "create"
<1>7. /\ next \in {"idle", "update", "create", "stop", "tags"}
      /\ next = "create" => ~Exists
      /\ next \in {"stop", "tags"} => ~Ensures(copy)
  BY DEF ReconcileOCIImageDrift, Ensures
<1>8. Goto(next)
  BY DEF HandleContainerOperations
<1> HIDE DEF next
<1>9. PlaceOK' /\ pc' = next /\ (next # "idle" => copy' = copy)
  <2>1. next \in Stages
    BY <1>7 DEF Stages
  <2> QED
    BY <1>2, <1>8, <2>1, Outcomes
<1>10. Past'
  <2>1. Ensures(copy) \/ (Held(Stored)' /\ ~copy.deleting)
    BY <1>1, <1>2, <1>6 DEF Past
  <2>2. CASE next \in {"idle", "update"}
    BY <1>6, <1>9, <2>2, NowhereSpecial DEF Plain
  <2>3. CASE next = "create"
    BY <1>1, <1>6, <1>9, <2>1, <2>3 DEF Past, Ensures
  <2>4. CASE next \in {"stop", "tags"}
    BY <1>1, <1>6, <1>7, <1>9, <2>1, <2>4 DEF Past
  <2> QED
    BY <1>7, <2>2, <2>3, <2>4
<1>11. /\ Released' /\ pc' \notin {"destroy", "await"}
       /\ Ordered => (pc' \in {"clear", "create"} => Own = {} /\ cachedId' = None)
  BY <1>5, <1>7, <1>9 DEF Released
<1> QED
  BY <1>1, <1>3, <1>4, <1>6, <1>9, <1>10, <1>11, MovesOn

LEMMA BootstrapSteps ==
    ASSUME CInv, BootstrapFromTags
    PROVE  Outcome
<1>1. /\ guests' = guests /\ volumes' = volumes /\ target' = target
      /\ edits' = edits /\ faults' = faults /\ happened' = happened
      /\ pc = "tags" /\ Stored # None /\ UNCHANGED <<making, astray>>
  BY DEF BootstrapFromTags, proxmox, creations, counters
<1>2. /\ PlaceOK /\ CountOK /\ Past /\ copy \in Objects /\ copy # None
      /\ None \notin Ids
  BY <1>1, InvParts, Constants
<1>3. target = None /\ CountOK'
  BY <1>1, <1>2, Aside DEF CountOK
<1>4. CacheOK' /\ (Ordered => (cachedId' # None => Own \subseteq {cachedId'}))
  <2>1. CASE NotFound
    BY <2>1, NotFoundLeaves
  <2>2. ASSUME NEW i \in Ids, GetContainer(i)
        PROVE  CacheOK' /\ (Ordered => (cachedId' # None => Own \subseteq {cachedId'}))
    BY <2>2, Lookups
  <2> QED
    BY <2>1, <2>2 DEF BootstrapFromTags
<1>5. \/ log' = log /\ Requeue
      \/ PatchApplied(copy.image, "update")
      \/ log' = log /\ Goto("stop")
  BY DEF BootstrapFromTags
<1>6. copy.image \in Images \cup {None} /\ {"update", "stop"} \subseteq Stages \ {"idle"}
  BY <1>2 DEF Objects, Stages
<1>7. CASE log' = log /\ Requeue
  <2>1. PlaceOK' /\ pc' = "idle"
    BY <1>2, <1>7, Outcomes
  <2>2. LogOK' /\ KindStep /\ History' /\ Forgotten'
    BY <1>7, SameResource DEF KindStep
  <2>3. Past' /\ Released'
    BY <2>1, <2>2, NowhereSpecial
  <2> QED
    BY <1>1, <1>3, <1>4, <2>1, <2>2, <2>3, MovesOn
<1>8. CASE PatchApplied(copy.image, "update")
  <2>1. LogOK' /\ History' /\ Forgotten' /\ KindStep /\ PlaceOK' /\ pc' = "update"
    BY <1>1, <1>2, <1>6, <1>8, Patches
  <2>2. Past' /\ Released'
    BY <2>1, NowhereSpecial DEF Plain
  <2> QED
    BY <1>1, <1>3, <1>4, <2>1, <2>2, MovesOn
<1>9. CASE log' = log /\ Goto("stop")
  <2>1. PlaceOK' /\ pc' = "stop" /\ copy' = copy
    BY <1>2, <1>6, <1>9, Outcomes
  <2>2. /\ LogOK' /\ KindStep /\ History' /\ Forgotten' /\ (Held(Stored)' <=> Held(Stored))
    BY <1>9, SameResource DEF KindStep
  <2>3. Held(Stored) /\ ~copy.deleting
    BY <1>1, <1>2 DEF Past
  <2>4. Past' /\ Released'
    BY <2>1, <2>2, <2>3 DEF Past, Released
  <2> QED
    BY <1>1, <1>3, <1>4, <2>1, <2>2, <2>4, MovesOn
<1> QED
  BY <1>5, <1>7, <1>8, <1>9

------------------------------------------------------------------------------
(* The container is destroyed, and made *)

LEMMA Afterwards ==
    /\ AfterDelete \in Stages \ {"idle", "destroy", "await"} /\ AfterDelete \in {"clear", "unfinalize"}
    /\ AfterDelete = "unfinalize" <=> copy.deleting
BY DEF AfterDelete, Stages

\* A deletion or a replacement is done with the container.
LEMMA GoesOnAfterwards ==
    ASSUME CInv, pc \in {"stop", "destroy"}, log' = log, Goto(AfterDelete), target' = None,
           Own' \subseteq Own, Making' = Making, astray' = astray, Ordered => Own' = {}, cachedId' = None,
           happened' = happened
    PROVE  /\ LogOK' /\ PlaceOK' /\ TargetOK' /\ Past' /\ OrderOK' /\ Left' /\ Checked'
           /\ Kind' = Kind /\ pc' = AfterDelete
<1>1. PlaceOK /\ Past /\ copy # None
  BY InvParts
<1>2. /\ LogOK' /\ Kind' = Kind /\ History' /\ Forgotten'
      /\ (Spent => Spent') /\ (Held(Stored)' <=> Held(Stored))
  BY SameResource
<1>3. PlaceOK' /\ pc' = AfterDelete /\ copy' = copy
  BY <1>1, Afterwards, Outcomes
<1>4. pc' \in {"clear", "unfinalize"}
  BY <1>3, Afterwards
<1>5. Past'
  <2>1. CASE copy.deleting
    <3>1. pc' = "unfinalize" /\ Spent'
      BY <1>1, <1>2, <1>3, <2>1, Afterwards DEF Past
    <3> QED
      BY <1>2, <3>1 DEF Past
  <2>2. CASE ~copy.deleting
    <3>1. pc' = "clear" /\ Held(Stored)'
      BY <1>1, <1>2, <1>3, <2>2, Afterwards DEF Past
    <3> QED
      BY <1>2, <3>1 DEF Past
  <2> QED
    BY <2>1, <2>2
<1>6. OrderOK'
  BY <1>4, OrderMoves DEF Released
<1>7. TargetOK' /\ Left' /\ Checked'
  <2>1. Checked'
    BY <1>4 DEF Checked
  <2> QED
    BY <1>4, <2>1, InvParts DEF TargetOK, Left
<1> QED
  BY <1>2, <1>3, <1>5, <1>6, <1>7

LEMMA StopContainerSteps ==
    ASSUME CInv, StopContainer
    PROVE  Outcome
<1>1. pc = "stop" /\ log' = log /\ volumes' = volumes /\ UNCHANGED <<making, astray>>
  BY DEF StopContainer, creations
<1>2. /\ PlaceOK /\ GuestOK /\ VolumeOK /\ CountOK /\ Past /\ copy \in Objects /\ copy # None
      /\ None \notin Ids
  BY <1>1, InvParts, Constants
<1>3. target = None /\ VolumeOK' /\ (Ordered => Making = {})
  BY <1>1, <1>2, Aside DEF VolumeOK, Ordered, Attended
<1>4. /\ LogOK' /\ Kind' = Kind /\ History' /\ Forgotten'
      /\ (Spent => Spent') /\ (Untouched => Untouched') /\ (Held(Stored)' <=> Held(Stored))
  BY <1>1, SameResource
<1>5. ASSUME guests' = guests, Ordered => Own = {}, target' = target, Goto(AfterDelete), NoFault,
             CacheOK', cachedId' = None
      PROVE  Outcome
  <2>1. GuestOK' /\ Own' = Own /\ Making' = Making
    BY <1>1, <1>2, <1>5, SameGuestsStay
  <2>2. CountOK' /\ happened' = happened
    BY <1>2, <1>5, Troubles
  <2>3. LogOK' /\ PlaceOK' /\ TargetOK' /\ Past' /\ OrderOK' /\ Left' /\ Checked'
    BY <1>1, <1>3, <1>5, <2>1, <2>2, GoesOnAfterwards
  <2>4. LifecycleStep /\ Spares
    BY <1>1, <1>4, <1>5, <2>1 DEF LifecycleStep, KindStep, Unmoved, Spares
  <2> QED
    BY <1>3, <1>5, <2>1, <2>2, <2>3, <2>4 DEF Outcome, CInv, Parts
<1>6. CASE NotFound /\ Goto(AfterDelete) /\ guests' = guests /\ target' = target /\ NoFault
  BY <1>1, <1>5, <1>6, NotFoundLeaves
<1>7. ASSUME NEW i \in Ids, Found(i), i \notin Named, Forget(i), Goto(AfterDelete),
             guests' = guests, target' = target, NoFault
      PROVE  Outcome
  <2>1. Ordered => Own \subseteq {i}
    BY <1>7, SoughtIsIt DEF Found
  <2>2. Ordered => Own = {}
    BY <1>3, <1>7, <2>1 DEF Own
  <2>3. CacheOK' /\ cachedId' = None
    BY <1>7, Lookups
  <2> QED
    BY <1>5, <1>7, <2>2, <2>3
<1>8. ASSUME NEW i \in Ids, GetAndPing(i), i \in Named, target' = IF pc' = "destroy" THEN i ELSE None,
             \/ guests[i].running /\ (Call([guests EXCEPT ![i].running = FALSE], "destroy")
                                       \/ GivenUp([guests EXCEPT ![i].running = FALSE]))
             \/ ~guests[i].running /\ Goto("destroy") /\ guests' = guests /\ NoFault
      PROVE  Outcome
  <2> DEFINE stopped == [guests EXCEPT ![i].running = FALSE]
  <2>1. SameGuests(stopped)
    BY <1>2, <1>8, GuestWrites DEF Named
  <2>2. /\ guests' = stopped \/ guests' = guests
        /\ \/ Goto("destroy") /\ NoFault
           \/ Requeue /\ Fault("error")
           \/ Return /\ Fault("gave up")
    BY <1>8 DEF Call, GivenUp
  <2>3. SameGuests(guests') \/ guests' = guests
    BY <2>1, <2>2
  <2>4. /\ GuestOK' /\ Own' = Own /\ Making' = Making
        /\ \A j \in Ids : (guests'[j] = None <=> guests[j] = None)
                          /\ (guests'[j] # None => guests'[j].own = guests[j].own)
    BY <1>1, <1>2, <2>3, SameGuestsStay
  <2>5. Spares
    <3>1. \A j \in Ids \ {i} : guests'[j] = guests[j]
      BY <1>2, <2>2 DEF GuestOK
    <3> QED
      BY <1>8, <3>1 DEF Spares, Named
  <2> HIDE DEF stopped
  <2>6. CountOK' /\ happened \subseteq happened'
    BY <1>2, <2>2, Troubles
  <2>7. CacheOK' /\ cachedId' = i /\ (Ordered => Own \subseteq {i})
    BY <1>8, Lookups
  <2>8. CASE pc' = "idle" /\ (Requeue \/ Return)
    <3>1. PlaceOK'
      BY <1>2, <2>8, Outcomes
    <3>2. KindStep /\ target' = None
      BY <1>4, <1>8, <2>8 DEF KindStep
    <3>3. Ordered => Remembered'
      BY <2>4, <2>7 DEF Remembered
    <3> QED
      BY <1>1, <1>2, <1>3, <1>4, <2>3, <2>5, <2>6, <2>7, <2>8, <3>1, <3>2, <3>3, RestingSteps
  <2>9. CASE Goto("destroy")
    <3>1. "destroy" \in Stages
      BY DEF Stages
    <3>2. PlaceOK' /\ pc' = "destroy" /\ copy' = copy
      BY <1>2, <2>9, <3>1, Outcomes
    <3>3. target' = i /\ guests'[i].own
      BY <1>8, <2>4, <3>2 DEF Named
    <3>4. TargetOK'
      BY <1>1, <1>2, <3>2, <3>3, InvParts DEF TargetOK
    <3>5. Checked'
      BY <3>3 DEF Checked
    <3>6. (copy'.deleting => Spent') /\ (~copy'.deleting => Held(Stored)')
      BY <1>1, <1>2, <1>4, <3>2 DEF Past
    <3>7. Past'
      BY <1>4, <3>2, <3>6 DEF Past
    <3>8. OrderOK'
      BY <1>1, <2>4, <2>7, <3>2, <3>3, OrderMoves DEF Released
    <3>9. LifecycleStep
      BY <1>1, <1>4, <2>4 DEF LifecycleStep, KindStep, Unmoved
    <3>10. Left'
      BY <1>1, <2>6, InvParts DEF Left
    <3> QED
      BY <1>3, <1>4, <2>4, <2>5, <2>6, <2>7, <3>2, <3>4, <3>5, <3>7, <3>8, <3>9, <3>10
         DEF Outcome, CInv, Parts
  <2> QED
    BY <2>2, <2>8, <2>9 DEF Return, Requeue
<1> QED
  BY <1>6, <1>7, <1>8 DEF StopContainer

LEMMA DestroyContainerSteps ==
    ASSUME CInv, DestroyContainer
    PROVE  Outcome
<1>1. pc = "destroy" /\ log' = log /\ volumes' = volumes /\ target' = None /\ UNCHANGED <<making, astray>>
  BY DEF DestroyContainer, creations
<1>2. /\ PlaceOK /\ TargetOK /\ GuestOK /\ VolumeOK /\ CacheOK /\ CountOK /\ Past /\ Checked
      /\ copy \in Objects /\ copy # None
  BY <1>1, InvParts
<1>3. /\ target \in Ids /\ target # None /\ VolumeOK'
      /\ Ordered => Own \subseteq {target} /\ Making = {}
  BY <1>1, <1>2 DEF TargetOK, Ordered, Targeted, Attended, VolumeOK
<1>4. /\ LogOK' /\ Kind' = Kind /\ History' /\ Forgotten'
  BY <1>1, SameResource
<1> DEFINE gone == [guests EXCEPT ![target] = None]
<1>5. guests' \in {guests, gone}
  BY DEF DestroyContainer, Call, GivenUp, Refused
<1>6. gone \in [Ids -> Guests \cup {None}] /\ gone[target] = None /\ \A i \in Ids \ {target} : gone[i] = guests[i]
  BY <1>2, <1>3 DEF GuestOK
<1>7. /\ GuestOK' /\ Making' = Making
      /\ \/ Own' = Own
         \/ Own' = Own \ {target} /\ Own' # Own /\ Making \subseteq Own'
      /\ guests' = gone /\ Ordered => Own' = {}
  <2>1. Making' = Making
    BY <1>1 DEF Making
  <2>2. CASE guests' = guests
    <3>1. GuestOK' /\ Named' = Named /\ Own' = Own
      BY <1>1, <1>2, <2>1, <2>2 DEF GuestOK, Named, Own
    <3>2. guests' = gone /\ Ordered => Own' = {}
      <4>1. guests' = gone => target \notin Named
        BY <1>6, <2>2 DEF Named
      <4> QED
        BY <1>3, <3>1, <4>1 DEF Own
    <3> QED
      BY <2>1, <3>1, <3>2
  <2>3. CASE guests' = gone
    <3>1. GuestOK'
      BY <1>1, <1>2, <1>6, <2>3 DEF GuestOK
    <3>2. Named' = Named \ {target}
      BY <1>3, <1>6, <2>3 DEF Named
    <3>3. target \in Named => target \notin Making
      BY <1>2 DEF GuestOK, Named, Making
    <3>4. Ordered => Own' = {}
      BY <1>3, <2>1, <3>2 DEF Own
    <3> QED
      BY <2>1, <3>1, <3>2, <3>3, <3>4 DEF Own
  <2> QED
    BY <1>5, <2>2, <2>3
<1>8. LifecycleStep
  <2>1. CASE Own' = Own
    BY <1>1, <1>4, <1>7, <2>1 DEF LifecycleStep, KindStep, Unmoved
  <2>2. CASE Own' = Own \ {target} /\ Own' # Own /\ Making \subseteq Own'
    BY <1>1, <1>4, <1>7, <2>2 DEF LifecycleStep, OwnStep, Loses
  <2> QED
    BY <1>7, <2>1, <2>2
<1>9. Spares
  BY <1>1, <1>2, <1>3, <1>5, <1>6 DEF Spares, Checked
<1>10. \/ (Requeue \/ Return) /\ cachedId' = cachedId /\ cachedObj' = cachedObj
            /\ (NoFault \/ Fault("error") \/ Fault("gave up"))
       \/ guests' = gone /\ Goto(AfterDelete) /\ NoFault /\ Forget(target)
  <2>1. CASE Refused /\ UNCHANGED cache
    BY <2>1 DEF Refused, cache
  <2>2. CASE /\ Call(gone, AfterDelete) \/ GivenUp(gone)
             /\ IF pc' = AfterDelete THEN Forget(target) ELSE UNCHANGED cache
    <3>1. CASE (Requeue /\ Fault("error")) \/ (Return /\ Fault("gave up"))
      <4>1. pc' # AfterDelete
        BY <3>1, Afterwards DEF Requeue, Return
      <4> QED
        BY <2>2, <3>1, <4>1 DEF cache
    <3>2. CASE guests' = gone /\ Goto(AfterDelete) /\ NoFault
      <4>1. pc' = AfterDelete
        BY <3>2, Afterwards DEF Goto
      <4> QED
        BY <2>2, <3>2, <4>1
    <3> QED
      BY <2>2, <3>1, <3>2 DEF Call, GivenUp
  <2> QED
    BY <2>1, <2>2 DEF DestroyContainer
<1> HIDE DEF gone
<1>11. CountOK' /\ happened \subseteq happened'
  BY <1>2, <1>10, Troubles
<1>12. CASE (Requeue \/ Return) /\ cachedId' = cachedId /\ cachedObj' = cachedObj
  <2>1. PlaceOK' /\ pc' = "idle"
    BY <1>2, <1>12, Outcomes
  <2>2. CacheOK'
    BY <1>2, <1>12 DEF CacheOK
  <2>3. Past' /\ Released'
    BY <1>4, <2>1, NowhereSpecial
  <2>4. OrderOK'
    BY <1>1, <1>7, <1>12, <2>1, <2>3, OrderMoves DEF Ordered, Remembered
  <2>5. Checked'
    BY <2>1 DEF Checked
  <2>6. TargetOK' /\ Left'
    BY <1>1, <1>11, <2>1, InvParts DEF TargetOK, Left
  <2> QED
    BY <1>3, <1>4, <1>7, <1>8, <1>9, <1>11, <2>1, <2>2, <2>3, <2>4, <2>5, <2>6 DEF Outcome, CInv, Parts
<1>13. CASE guests' = gone /\ Goto(AfterDelete) /\ NoFault /\ Forget(target)
  <2>1. CacheOK' /\ cachedId' = None
    BY <1>3, <1>13, Lookups
  <2>2. happened' = happened
    BY <1>2, <1>13, Troubles
  <2>3. Own' \subseteq Own
    BY <1>7
  <2>4. LogOK' /\ PlaceOK' /\ TargetOK' /\ Past' /\ OrderOK' /\ Left' /\ Checked'
    BY <1>1, <1>7, <1>13, <2>1, <2>2, <2>3, GoesOnAfterwards
  <2> QED
    BY <1>3, <1>7, <1>8, <1>9, <1>11, <2>1, <2>4 DEF Outcome, CInv, Parts
<1> QED
  BY <1>10, <1>12, <1>13

LEMMA ClearAppliedSteps ==
    ASSUME CInv, ClearApplied
    PROVE  Outcome
<1>1. /\ guests' = guests /\ volumes' = volumes /\ target' = target
      /\ cachedId' = cachedId /\ cachedObj' = cachedObj
      /\ edits' = edits /\ faults' = faults
      /\ pc = "clear" /\ Stored # None /\ PatchApplied(None, "create")
      /\ UNCHANGED <<making, astray>> /\ happened \subseteq happened'
  BY DEF ClearApplied, proxmox, creations, cache, MarkMisrecorded
<1>2. PlaceOK /\ CountOK /\ Past /\ copy \in Objects /\ copy # None
  BY <1>1, InvParts
<1>3. target = None /\ CacheOK' /\ (Ordered => (cachedId' # None => Own \subseteq {cachedId'})) /\ CountOK'
  BY <1>1, <1>2, Aside DEF CountOK
<1>4. /\ LogOK' /\ History' /\ Forgotten' /\ KindStep /\ PlaceOK' /\ pc' = "create"
      /\ (Held(Stored)' <=> Held(Stored))
  <2>1. "create" \in Stages \ {"idle"}
    BY DEF Stages
  <2> QED
    BY <1>1, <1>2, <2>1, Patches
<1>5. Past' /\ Released'
  BY <1>1, <1>2, <1>4 DEF Past, Released
<1>6. Ordered => Own = {} /\ cachedId' = None
  BY <1>1 DEF Ordered, Creating
<1> QED
  BY <1>1, <1>3, <1>4, <1>5, <1>6, MovesOn

\* What is made is a container of the resource.
LEMMA NewOne ==
    ASSUME CInv, copy \in Objects, NEW c \in Guests, NewContainer(c)
    PROVE  c.own /\ VolumeOK'
<1>1. VolumeOK
  BY InvParts
<1>2. CASE copy.image = None
  BY <1>1, <1>2 DEF NewContainer, Made, VolumeOK
<1>3. CASE copy.image # None
  <2>1. copy.image \in Images /\ Stem[copy.image] \in Stems
    BY <1>3, Constants DEF Objects
  <2>2. PICK s \in Stems : Volume(s, volumes') /\ c = Made(volumes'[s], Stem[copy.image], copy.config)
    BY <1>3 DEF NewContainer
  <2>3. volumes' = volumes \/ volumes' = [volumes EXCEPT ![Stem[copy.image]] = copy.image]
    BY <2>2 DEF Volume
  <2> QED
    BY <1>1, <2>1, <2>2, <2>3 DEF VolumeOK, Made
<1> QED
  BY <1>2, <1>3

\* The only step that starts the creation of a container.
LEMMA CloneContainerSteps ==
    ASSUME CInv, CloneContainer
    PROVE  Outcome
<1>1. pc = "create" /\ UNCHANGED <<log, guests, cachedId, cachedObj>>
  BY DEF CloneContainer, cache
<1>2. /\ PlaceOK /\ GuestOK /\ TargetOK /\ CountOK /\ Past /\ Left /\ copy \in Objects /\ copy # None
      /\ target = None /\ astray \in BOOLEAN
      /\ astray \/ (Ordered /\ Own = {} /\ cachedId = None)
  BY <1>1, InvParts DEF OrderOK, Ordered, Creating, TargetOK
<1>3. CacheOK' /\ Named' = Named
  BY <1>1, InvParts DEF CacheOK, Named
<1>4. LogOK' /\ Kind' = Kind /\ History' /\ Forgotten'
  BY <1>1, SameResource
<1>5. PICK i \in Ids, c \in Guests :
        /\ NextId(i) /\ NewContainer(c)
        /\ \/ making' = [making EXCEPT ![i] = c] /\ target' = i /\ UNCHANGED astray /\ Goto("await") /\ NoFault
           \/ UNCHANGED <<making, target, astray>> /\ Requeue /\ Fault("error")
           \/ /\ making' = [making EXCEPT ![i] = c] /\ astray' = TRUE /\ UNCHANGED target
              /\ Requeue /\ Fault("left")
  BY DEF CloneContainer
<1>6. c.own /\ VolumeOK'
  BY <1>2, <1>5, NewOne
<1>7. CountOK' /\ happened \subseteq happened' /\ (Fault("left") => "left" \in happened')
  BY <1>2, <1>5, Troubles
<1>8. Spares
  BY <1>1 DEF Spares
<1>9. ASSUME making' = [making EXCEPT ![i] = c], astray' \in {astray, TRUE}
      PROVE  /\ GuestOK' /\ Making' = Making \cup {i} /\ Own' = Own \cup {i} /\ Makes
  <2>1. guests[i] = None /\ making[i] = None /\ None \notin Guests
    BY <1>5, Constants DEF NextId, Free
  <2>2. making'[i] = c /\ c # None /\ \A j \in Ids \ {i} : making'[j] = making[j]
    BY <1>2, <1>9, <2>1 DEF GuestOK
  <2>3. GuestOK'
    BY <1>1, <1>2, <1>6, <1>9, <2>1, <2>2 DEF GuestOK
  <2>4. Making' = Making \cup {i}
    BY <2>2 DEF Making
  <2>5. Own' = Own \cup {i} /\ i \notin Own
    BY <1>3, <2>1, <2>4 DEF Own, Making, Named
  <2>6. Kind = "held" \/ Loose
    BY <1>1, <1>2 DEF Past, Kind, Loose, Ensures, Held
  <2> QED
    BY <1>2, <1>9, <2>3, <2>4, <2>5, <2>6 DEF Makes
<1>10. CASE UNCHANGED <<making, target, astray>> /\ Requeue
  <2>1. PlaceOK' /\ pc' \in Plain \cup {"idle"}
    BY <1>2, <1>10, Outcomes
  <2>2. Ordered => Remembered'
    BY <1>1, <1>2, <1>10, SameRemembered
  <2>3. KindStep
    BY <1>4 DEF KindStep
  <2> QED
    BY <1>1, <1>2, <1>3, <1>4, <1>6, <1>7, <1>8, <1>10, <2>1, <2>2, <2>3, RestingSteps
<1>11. CASE /\ making' = [making EXCEPT ![i] = c] /\ astray' = TRUE /\ UNCHANGED target
            /\ Requeue /\ Fault("left")
  <2>1. PlaceOK' /\ pc' = "idle"
    BY <1>2, <1>11, Outcomes
  <2>2. Past'
    BY <1>4, <2>1, NowhereSpecial
  <2>3. TargetOK' /\ OrderOK'
    BY <1>2, <1>11, <2>1 DEF TargetOK, OrderOK
  <2>4. Checked'
    BY <2>1 DEF Checked
  <2>5. Left'
    BY <1>7, <1>11 DEF Left
  <2> QED
    BY <1>3, <1>4, <1>6, <1>7, <1>8, <1>9, <1>11, <2>1, <2>2, <2>3, <2>4, <2>5
       DEF Outcome, LifecycleStep, OwnStep, CInv, Parts
<1>12. CASE /\ making' = [making EXCEPT ![i] = c] /\ target' = i /\ UNCHANGED astray
            /\ Goto("await") /\ NoFault
  <2>1. PlaceOK' /\ pc' = "await"
    <3>1. "await" \in Stages
      BY DEF Stages
    <3> QED
      BY <1>2, <1>12, <3>1, Outcomes
  <2>2. Past'
    BY <1>4, <2>1 DEF Past
  <2>3. TargetOK'
    BY <1>2, <1>12, <2>1, Constants DEF TargetOK
  <2>4. OrderOK'
    <3>1. CASE astray
      BY <1>12, <3>1 DEF OrderOK
    <3>2. CASE Own = {} /\ cachedId = None
      <4>1. Own' = {i} /\ Making' = {i}
        BY <1>9, <1>12, <3>2 DEF Own
      <4> QED
        BY <1>1, <1>12, <2>1, <3>2, <4>1
           DEF OrderOK, Ordered, Single, Attended, Remembered, Creating, Targeted, Released
    <3> QED
      BY <1>2, <3>1, <3>2
  <2>5. Checked'
    BY <2>1 DEF Checked
  <2>6. Left'
    BY <1>2, <1>7, <1>12 DEF Left
  <2> QED
    BY <1>3, <1>4, <1>6, <1>7, <1>8, <1>9, <1>12, <2>1, <2>2, <2>3, <2>4, <2>5, <2>6
       DEF Outcome, LifecycleStep, OwnStep, CInv, Parts
<1> QED
  BY <1>5, <1>10, <1>11, <1>12

\* The wait ends with the container listed, without one, or with it left under way.
LEMMA AwaitContainerSteps ==
    ASSUME CInv, AwaitContainer
    PROVE  Outcome
<1>1. UNCHANGED <<log, guests, volumes, cachedObj>> /\ pc = "await" /\ target' = None
  BY DEF AwaitContainer, proxmox
<1>2. /\ copy # None /\ PlaceOK /\ GuestOK /\ VolumeOK /\ CountOK /\ CacheOK /\ OrderOK /\ Left
      /\ target \in Ids /\ astray \in BOOLEAN
  BY <1>1, InvParts DEF TargetOK
<1>3. Named' = Named /\ VolumeOK' /\ Spares
  BY <1>1, <1>2 DEF Named, VolumeOK, Spares
<1>4. LogOK' /\ History' /\ Forgotten' /\ Kind' = Kind
  BY <1>1, SameResource
<1>5. Ordered => Own \subseteq {target} /\ Making \subseteq {target} /\ (target \in Making => cachedId = None)
  BY <1>1 DEF Ordered, Attended, Creating
<1>6. ASSUME PlaceOK', pc' \in {"idle", "start"}, GuestOK', CacheOK', CountOK', Left',
             Own' \subseteq Own, Making' \subseteq Making, LifecycleStep,
             astray' \in BOOLEAN, ~astray' => Ordered /\ target \notin Making' /\ Remembered'
      PROVE  Outcome
  <2>1. Past' /\ Released'
    BY <1>4, <1>6, NowhereSpecial DEF Plain
  <2>2. TargetOK'
    BY <1>1, <1>6 DEF TargetOK
  <2>3. ~astray' => Making' = {} /\ Own' \subseteq {target}
    BY <1>5, <1>6
  <2>4. OrderOK'
    BY <1>6, <2>1, <2>3 DEF OrderOK, Ordered, Single, Attended, Creating, Targeted
  <2>5. Checked'
    BY <1>6 DEF Checked
  <2> QED
    BY <1>3, <1>4, <1>6, <2>1, <2>2, <2>4, <2>5 DEF Outcome, CInv, Parts
<1>7. ASSUME making' = making
      PROVE  GuestOK' /\ Own' = Own /\ Making' = Making
  BY <1>1, <1>2, <1>7, SameGuestsStay
<1>8. CASE /\ IF copy.image = None THEN target \notin Making /\ cachedId' = target ELSE cachedId' \in Sought
           /\ astray' = (astray \/ making[target] # None)
           /\ Goto("start") /\ UNCHANGED making /\ NoFault
  <2>1. PlaceOK' /\ pc' = "start"
    <3>1. "start" \in Stages
      BY DEF Stages
    <3> QED
      BY <1>2, <1>8, <3>1, Outcomes
  <2>2. CountOK' /\ happened' = happened
    BY <1>2, <1>8, Troubles
  <2>3. CacheOK' /\ (Ordered => Own \subseteq {cachedId'})
    <3>1. cachedId' = target \/ cachedId' \in Sought
      BY <1>8
    <3>2. cachedId' \in Ids /\ (Ordered => Own \subseteq {cachedId'})
      BY <1>2, <1>5, <3>1, SoughtIsIt
    <3> QED
      BY <1>1, <1>2, <3>2 DEF CacheOK
  <2>4. Ordered => target \notin Making
    <3>1. ASSUME Ordered, target \in Making PROVE FALSE
      <4>1. Named = {}
        <5>1. target \notin Named
          BY <1>2, <3>1 DEF GuestOK, Making, Named
        <5> QED
          BY <1>5, <3>1, <5>1 DEF Own
      <4>2. Sought = {}
        BY <1>5, <3>1, <4>1 DEF Sought
      <4> QED
        BY <1>8, <3>1, <4>2
    <3> QED
      BY <3>1
  <2>5. astray' = (astray \/ making[target] # None)
    BY <1>8
  <2>6. CASE target \notin Making
    <3>1. making[target] = None
      BY <1>2, <2>6 DEF Making
    <3>2. astray' = astray
      BY <1>2, <2>5, <3>1, Zenon
    <3>3. LifecycleStep
      BY <1>4, <1>7, <1>8, <3>2 DEF LifecycleStep, KindStep, Unmoved
    <3>4. Left' /\ (~astray' => Ordered)
      BY <1>2, <2>2, <3>2 DEF Left, OrderOK
    <3>5. ~astray' => Remembered'
      BY <1>7, <1>8, <2>3, <3>4 DEF Remembered
    <3> QED
      BY <1>2, <1>6, <1>7, <1>8, <2>1, <2>2, <2>3, <2>6, <3>2, <3>3, <3>4, <3>5
  <2>7. CASE target \in Making
    <3>1. making[target] # None /\ Making # {}
      BY <2>7 DEF Making
    <3>2. astray' = TRUE
      BY <2>5, <3>1, Zenon
    <3>3. LifecycleStep
      BY <1>4, <1>7, <1>8, <3>1, <3>2 DEF LifecycleStep, OwnStep, Strays
    <3>4. Left'
      BY <1>2, <2>2, <2>4, <2>7 DEF Left, OrderOK
    <3> QED
      BY <1>6, <1>7, <1>8, <2>1, <2>2, <2>3, <3>2, <3>3, <3>4
  <2> QED
    BY <2>6, <2>7
<1>9. ASSUME UNCHANGED cachedId, PlaceOK', pc' = "idle", CountOK', happened \subseteq happened',
             making' = making, making[target] = None, astray' = astray
      PROVE  Outcome
  <2>1. CacheOK'
    BY <1>1, <1>2, <1>9 DEF CacheOK
  <2>2. LifecycleStep
    BY <1>4, <1>7, <1>9 DEF LifecycleStep, KindStep, Unmoved
  <2>3. Left' /\ (~astray' => Ordered)
    BY <1>2, <1>9 DEF Left, OrderOK
  <2>4. Ordered => Remembered'
    BY <1>1, <1>2, <1>9, SameRemembered
  <2> QED
    BY <1>2, <1>6, <1>7, <1>9, <2>1, <2>2, <2>3, <2>4 DEF Making
<1>10. CASE Own = {} /\ Requeue /\ UNCHANGED <<creations, cachedId>> /\ NoFault
  <2>1. PlaceOK' /\ pc' = "idle"
    BY <1>2, <1>10, Outcomes
  <2>2. CountOK' /\ happened' = happened
    BY <1>2, <1>10, Troubles
  <2>3. making[target] = None
    BY <1>2, <1>10 DEF Own, Making
  <2>4. making' = making /\ astray' = astray
    BY <1>10 DEF creations
  <2> QED
    BY <1>9, <1>10, <2>1, <2>2, <2>3, <2>4
<1>11. CASE /\ making' \in {making, [making EXCEPT ![target] = None]}
            /\ astray' = (astray \/ making'[target] # None)
            /\ Fault(IF making'[target] # None THEN "left" ELSE "error")
            /\ Requeue /\ UNCHANGED cachedId
  <2>1. PlaceOK' /\ pc' = "idle"
    BY <1>2, <1>11, Outcomes
  <2>2. /\ CountOK' /\ happened \subseteq happened'
        /\ making'[target] # None => "left" \in happened'
    <3>1. Fault(IF making'[target] # None THEN "left" ELSE "error")
      BY <1>11
    <3>2. CountOK' /\ happened' = happened \cup {IF making'[target] # None THEN "left" ELSE "error"}
      BY <1>2, <3>1, Troubles
    <3> QED
      BY <3>2
  <2>3. astray' = (astray \/ making'[target] # None)
    BY <1>11
  <2>4. CacheOK'
    BY <1>1, <1>2, <1>11 DEF CacheOK
  <2>5. CASE making' = [making EXCEPT ![target] = None] /\ target \in Making
    <3>1. making'[target] = None
      BY <1>2, <2>5 DEF GuestOK
    <3>2. astray' = astray
      BY <1>2, <2>3, <3>1, Zenon
    <3>3. GuestOK' /\ Loses /\ Own' = Own \ {target} /\ Making' = Making \ {target}
      BY <1>1, <1>2, <2>5, <3>2, CreationGone
    <3>4. LifecycleStep
      BY <1>4, <3>3 DEF LifecycleStep, OwnStep
    <3>5. Left' /\ (~astray' => Ordered)
      BY <1>2, <2>2, <3>2 DEF Left, OrderOK
    <3>6. ~astray' => Remembered'
      BY <1>11, <3>3, <3>5 DEF Ordered, Remembered
    <3>7. Own' \subseteq Own /\ Making' \subseteq Making /\ target \notin Making'
      BY <3>3
    <3> QED
      BY <1>2, <1>6, <2>1, <2>2, <2>4, <3>2, <3>3, <3>4, <3>5, <3>6, <3>7
  <2>6. CASE making' = making /\ making[target] = None
    <3>1. making'[target] = None
      BY <2>6
    <3>2. astray' = astray
      BY <1>2, <2>3, <3>1, Zenon
    <3> QED
      BY <1>9, <1>11, <2>1, <2>2, <2>6, <3>2
  <2>7. CASE making' = making /\ making[target] # None
    <3>1. astray' = TRUE /\ Making # {}
      BY <1>2, <1>11, <2>7 DEF Making
    <3>2. LifecycleStep
      BY <1>4, <1>7, <2>7, <3>1 DEF LifecycleStep, OwnStep, Strays
    <3>3. Left'
      BY <2>2, <2>7 DEF Left
    <3> QED
      BY <1>6, <1>7, <2>1, <2>2, <2>4, <2>7, <3>1, <3>2, <3>3
  <2>8. making' = [making EXCEPT ![target] = None] /\ target \notin Making => making' = making
    BY <1>2 DEF GuestOK, Making
  <2>9. target \notin Making => making[target] = None
    BY <1>2 DEF Making
  <2> QED
    BY <1>11, <2>5, <2>6, <2>7, <2>8, <2>9
<1> QED
  BY <1>8, <1>10, <1>11 DEF AwaitContainer

------------------------------------------------------------------------------
(* Steps of a reconcile that has its container, and the end of the resource *)

\* A reconcile that leaves the resource rests, or goes on with its container.
LEMMA PlainSteps ==
    ASSUME CInv, pc \notin {"idle", "stop", "destroy", "await"}, log' = log,
           SameGuests(guests') \/ guests' = guests, UNCHANGED <<making, astray>>,
           volumes' = volumes, target' = target, CountOK', CacheOK', happened \subseteq happened',
           Ordered => Remembered',
           Return \/ Requeue \/ \E s \in Plain \cup {"idle"} : Goto(s)
    PROVE  Outcome
<1>1. PlaceOK /\ GuestOK /\ VolumeOK /\ copy # None
  BY InvParts
<1>2. target = None
  BY Aside
<1>4. VolumeOK' /\ Spares
  BY <1>1 DEF VolumeOK, Spares
<1>5. LogOK' /\ KindStep /\ History' /\ Forgotten'
  BY SameResource DEF KindStep
<1>6. PlaceOK' /\ pc' \in Plain \cup {"idle"}
  <2>1. CASE Return \/ Requeue
    BY <1>1, <2>1, Outcomes
  <2>2. ASSUME NEW s \in Plain \cup {"idle"}, Goto(s), s # "idle"
        PROVE  PlaceOK' /\ pc' \in Plain \cup {"idle"}
    <3>1. pc' = s /\ copy' = copy /\ queue' = queue /\ s \in Stages
      BY <2>2 DEF Goto, Plain, Stages
    <3> QED
      BY <1>1, <2>2, <3>1 DEF PlaceOK
  <2>3. ASSUME Goto("idle") PROVE PlaceOK' /\ pc' \in Plain \cup {"idle"}
    <3>1. Return
      BY <2>3 DEF Goto
    <3> QED
      BY <1>1, <3>1, Outcomes
  <2> QED
    BY <2>1, <2>2, <2>3
<1> QED
  BY <1>1, <1>2, <1>4, <1>5, <1>6, RestingSteps

LEMMA StartContainerSteps ==
    ASSUME CInv, StartContainer
    PROVE  Outcome
<1>1. /\ pc \in {"start", "resume", "kick"} /\ log' = log /\ target' = target /\ volumes' = volumes
      /\ UNCHANGED <<making, astray>>
  BY DEF StartContainer, creations
<1>2. GuestOK /\ CountOK /\ CacheOK
  BY InvParts
<1>3. AfterStart \in Plain \cup {"idle"}
  BY DEF AfterStart, Plain
<1>4. CASE NotFound /\ Refused
  <2>1. CacheOK' /\ cachedId' = None
    BY <1>4, NotFoundLeaves
  <2>2. CountOK' /\ happened' = happened /\ Requeue /\ guests' = guests
    BY <1>2, <1>4, Troubles DEF Refused
  <2>3. Ordered => Remembered'
    BY <1>1, <1>2, <2>1, <2>2, SameRemembered
  <2> QED
    BY <1>1, <2>1, <2>2, <2>3, PlainSteps
<1>5. ASSUME NEW i \in Ids, Found(i),
             LET started == [guests EXCEPT ![i].running = TRUE]
                 done == IF pc = "kick" THEN Requeue ELSE Goto(AfterStart)
             IN \/ guests[i] = None /\ Refused /\ GetAndPing(i)
                \/ /\ guests[i] # None /\ guests[i].running /\ GetAndPing(i)
                   /\ done /\ UNCHANGED guests /\ NoFault
                \/ /\ guests[i] # None /\ ~guests[i].running
                   /\ \/ guests' = started /\ done /\ NoFault /\ DropObject(i)
                      \/ guests' \in {guests, started} /\ Requeue /\ Fault("error") /\ GetAndPing(i)
      PROVE  Outcome
  <2> DEFINE started == [guests EXCEPT ![i].running = TRUE]
  <2>1. guests[i] # None => SameGuests(started)
    BY <1>2, GuestWrites
  <2>2. SameGuests(guests') \/ guests' = guests
    BY <1>5, <2>1 DEF Refused
  <2>3. CacheOK' /\ cachedId' = i /\ (Ordered => Own \subseteq {i})
    BY <1>5, Lookups
  <2>4. Ordered => Remembered'
    BY <1>1, <1>2, <2>2, <2>3, SameRemembered
  <2>5. NoFault \/ Fault("error")
    BY <1>5 DEF Refused
  <2>6. CountOK' /\ happened \subseteq happened'
    BY <1>2, <2>5, Troubles
  <2>7. Requeue \/ Goto(AfterStart)
    BY <1>5 DEF Refused
  <2> QED
    BY <1>1, <1>3, <2>2, <2>3, <2>4, <2>6, <2>7, PlainSteps
<1> QED
  BY <1>4, <1>5 DEF StartContainer

LEMMA StartOrUpdateContainerSteps ==
    ASSUME CInv, StartOrUpdateContainer
    PROVE  Outcome
<1>1. /\ pc = "update" /\ log' = log /\ target' = target /\ volumes' = volumes
      /\ UNCHANGED <<making, astray>>
  BY DEF StartOrUpdateContainer, creations
<1>2. GuestOK /\ CountOK /\ CacheOK /\ copy \in Objects
  BY <1>1, InvParts
<1>3. {"write", "resume"} \subseteq Plain
  BY DEF Plain
<1>4. CASE NotFound /\ Refused
  <2>1. CacheOK' /\ cachedId' = None
    BY <1>4, NotFoundLeaves
  <2>2. CountOK' /\ happened' = happened /\ Requeue /\ guests' = guests
    BY <1>2, <1>4, Troubles DEF Refused
  <2>3. Ordered => Remembered'
    BY <1>1, <1>2, <2>1, <2>2, SameRemembered
  <2> QED
    BY <1>1, <2>1, <2>2, <2>3, PlainSteps
<1>5. ASSUME NEW i \in Ids, Found(i),
             \/ UpdateContainer(i)
             \/ GetContainer(i) /\ Goto("resume") /\ UNCHANGED guests /\ NoFault
      PROVE  Outcome
  <2> DEFINE configured == [guests EXCEPT ![i].config = copy.config]
  <2>1. \/ guests' = guests /\ NoFault /\ GetContainer(i) /\ (Goto("write") \/ Goto("resume") \/ Requeue)
        \/ /\ guests[i] # None /\ Call(configured, "write")
           /\ DropObject(i) \/ GetContainer(i)
    BY <1>5 DEF UpdateContainer, Refused
  <2>2. guests[i] # None => SameGuests(configured)
    BY <1>2, GuestWrites DEF Objects
  <2>3. SameGuests(guests') \/ guests' = guests
    BY <2>1, <2>2 DEF Call
  <2>4. CacheOK' /\ cachedId' = i /\ (Ordered => Own \subseteq {i})
    BY <1>5, <2>1, Lookups
  <2>5. Ordered => Remembered'
    BY <1>1, <1>2, <2>3, <2>4, SameRemembered
  <2>6. NoFault \/ Fault("error")
    BY <2>1 DEF Call
  <2>7. CountOK' /\ happened \subseteq happened'
    BY <1>2, <2>6, Troubles
  <2>8. Requeue \/ Goto("write") \/ Goto("resume")
    BY <2>1 DEF Call
  <2> QED
    BY <1>1, <1>3, <2>3, <2>4, <2>5, <2>7, <2>8, PlainSteps
<1> QED
  BY <1>4, <1>5 DEF StartOrUpdateContainer

LEMMA WriteBackSteps ==
    ASSUME CInv, WriteBack
    PROVE  Outcome
<1>1. /\ pc = "write" /\ log' = log /\ target' = target /\ volumes' = volumes /\ guests' = guests
      /\ cachedId' = cachedId /\ cachedObj' = cachedObj /\ NoFault
      /\ UNCHANGED <<making, astray>>
      /\ Goto("autostart") \/ Requeue
  BY DEF WriteBack, proxmox, creations, cache, NoFault
<1>2. CountOK' /\ happened' = happened /\ CacheOK'
  BY <1>1, InvParts, Troubles, Aside
<1>4. Ordered => Remembered'
  BY <1>1, InvParts, SameRemembered
<1>3. "autostart" \in Plain
  BY DEF Plain
<1> QED
  BY <1>1, <1>2, <1>3, <1>4, PlainSteps

LEMMA HandleAutoStartSteps ==
    ASSUME CInv, HandleAutoStart
    PROVE  Outcome
<1>1. /\ pc = "autostart" /\ log' = log /\ target' = target /\ volumes' = volumes /\ guests' = guests
      /\ NoFault /\ UNCHANGED <<making, astray>>
  BY DEF HandleAutoStart, proxmox, creations, NoFault
<1>2. GuestOK /\ CountOK' /\ happened' = happened
  BY <1>1, InvParts, Troubles
<1>3. CASE Return /\ UNCHANGED cache
  <2>1. cachedId' = cachedId /\ cachedObj' = cachedObj
    BY <1>3 DEF cache
  <2>2. CacheOK' /\ (Ordered => Remembered')
    BY <1>1, <1>2, <2>1, Aside, SameRemembered
  <2> QED
    BY <1>1, <1>2, <1>3, <2>2, PlainSteps
<1>4. CASE NotFound /\ Requeue
  <2>1. CacheOK' /\ cachedId' = None
    BY <1>4, NotFoundLeaves
  <2>2. Remembered'
    BY <1>1, <1>2, <2>1, SameRemembered
  <2> QED
    BY <1>1, <1>2, <1>4, <2>1, <2>2, PlainSteps
<1>5. ASSUME NEW i \in Ids, GetContainer(i), NEW s \in {"idle", "kick"}, Goto(s)
      PROVE  Outcome
  <2>1. CacheOK' /\ cachedId' = i /\ (Ordered => Own \subseteq {i})
    BY <1>5, Lookups
  <2>2. Ordered => Remembered'
    BY <1>1, <1>2, <2>1, SameRemembered
  <2>3. s \in Plain \cup {"idle"}
    BY DEF Plain
  <2> QED
    BY <1>1, <1>2, <1>5, <2>1, <2>2, <2>3, PlainSteps
<1>6. \/ Return /\ UNCHANGED cache
      \/ NotFound /\ Requeue
      \/ \E i \in Ids, s \in {"idle", "kick"} : GetContainer(i) /\ Goto(s)
  BY DEF HandleAutoStart
<1> QED
  BY <1>3, <1>4, <1>5, <1>6

\* The status is written, or the resource goes.
LEMMA EndingWrites ==
    ASSUME CInv, pc \notin {"stop", "destroy", "await"}, LogOK', History', Forgotten', KindStep,
           guests' = guests, volumes' = volumes, target' = target, UNCHANGED <<making, astray>>,
           cachedId' = cachedId, cachedObj' = cachedObj, edits' = edits, faults' = faults,
           happened' = happened, PlaceOK', pc' \in Plain \cup {"idle"}
    PROVE  Outcome
<1>1. target = None /\ CacheOK'
  BY Aside
<1>2. GuestOK /\ VolumeOK' /\ CountOK' /\ (Ordered => Remembered')
  BY InvParts, SameRemembered DEF VolumeOK, CountOK
<1>3. Spares
  BY DEF Spares
<1> QED
  BY <1>1, <1>2, <1>3, RestingSteps

LEMMA RecordAppliedSteps ==
    ASSUME CInv, RecordApplied
    PROVE  Outcome
<1>1. /\ pc = "record" /\ guests' = guests /\ volumes' = volumes /\ target' = target
      /\ cachedId' = cachedId /\ cachedObj' = cachedObj /\ edits' = edits /\ faults' = faults
      /\ UNCHANGED <<making, astray>> /\ happened' = happened
  BY DEF RecordApplied, proxmox, creations, cache, counters
<1>2. PlaceOK /\ copy \in Objects /\ copy # None /\ Stored \in Versions /\ copy.image \in Images \cup {None}
  BY <1>1, InvParts DEF Objects
<1>3. CASE Return /\ log' = log
  <2>1. LogOK' /\ History' /\ Forgotten' /\ KindStep
    BY <1>3, SameResource DEF KindStep
  <2>2. PlaceOK' /\ pc' = "idle"
    BY <1>2, <1>3, Outcomes
  <2> QED
    BY <1>1, <2>1, <2>2, EndingWrites
<1>4. CASE Return /\ Stored # None /\ Store([Stored EXCEPT !.applied = copy.image])
  <2> DEFINE v == [Stored EXCEPT !.applied = copy.image]
  <2>1. v \in Objects /\ v.finalizer = Stored.finalizer /\ v.deleting = Stored.deleting
    BY <1>2, <1>4 DEF Versions, Objects
  <2>2. Store(v)
    BY <1>4
  <2> HIDE DEF v
  <2>3. LogOK' /\ History' /\ Forgotten' /\ KindStep
    BY <1>4, <2>1, <2>2, FieldWrites
  <2>4. PlaceOK' /\ pc' = "idle"
    BY <1>2, <1>4, Outcomes
  <2> QED
    BY <1>1, <2>3, <2>4, EndingWrites
<1>5. CASE Stored # None /\ PatchApplied(copy.image, "autostart")
  <2>1. "autostart" \in Stages \ {"idle"} /\ "autostart" \in Plain
    BY DEF Stages, Plain
  <2>2. LogOK' /\ History' /\ Forgotten' /\ KindStep /\ PlaceOK' /\ pc' = "autostart"
    BY <1>2, <1>5, <2>1, Patches
  <2> QED
    BY <1>1, <2>1, <2>2, EndingWrites
<1> QED
  BY <1>3, <1>4, <1>5 DEF RecordApplied

LEMMA MarkDeletingSteps ==
    ASSUME CInv, MarkDeleting
    PROVE  Outcome
<1>1. /\ pc = "mark" /\ guests' = guests /\ volumes' = volumes /\ target' = target
      /\ cachedId' = cachedId /\ cachedObj' = cachedObj /\ edits' = edits /\ faults' = faults
      /\ Return /\ UNCHANGED <<making, astray>> /\ happened' = happened
  BY DEF MarkDeleting, proxmox, creations, cache, counters
<1>2. PlaceOK' /\ pc' = "idle"
  BY <1>1, InvParts, Outcomes
<1>3. LogOK' /\ History' /\ Forgotten' /\ KindStep
  <2>1. CASE Stored = None
    <3>1. log' = log
      BY <2>1 DEF MarkDeleting
    <3> QED
      BY <3>1, SameResource DEF KindStep
  <2>2. CASE Stored # None
    <3> DEFINE v == [Stored EXCEPT !.marked = TRUE]
    <3>1. v \in Objects /\ v.finalizer = Stored.finalizer /\ v.deleting = Stored.deleting
      BY <2>2, InvParts DEF Versions, Objects
    <3>2. Store(v)
      BY <2>2 DEF MarkDeleting
    <3> HIDE DEF v
    <3> QED
      BY <2>2, <3>1, <3>2, FieldWrites
  <2> QED
    BY <2>1, <2>2
<1> QED
  BY <1>1, <1>2, <1>3, EndingWrites

\* All that had the finalizer is going, and the container has gone, is spared or was left under way.
LEMMA RemoveFinalizerSteps ==
    ASSUME CInv, RemoveFinalizer
    PROVE  Outcome
<1>1. /\ pc = "unfinalize" /\ guests' = guests /\ volumes' = volumes /\ target' = target
      /\ cachedId' = cachedId /\ cachedObj' = cachedObj /\ edits' = edits /\ faults' = faults
      /\ Return \/ Requeue
      /\ UNCHANGED <<making, astray>> /\ happened' = happened
  BY DEF RemoveFinalizer, proxmox, creations, cache, counters
<1>2. PlaceOK' /\ pc' = "idle"
  BY <1>1, InvParts, Outcomes
<1>3. LogOK' /\ History' /\ Forgotten' /\ KindStep
  <2>1. CASE log' = log
    BY <2>1, SameResource DEF KindStep
  <2>2. CASE Stored = copy /\ Store(None)
    <3>1. None \in Versions /\ ~Held(None)
      BY DEF Versions, Held
    <3>2. LogOK /\ Spent /\ (Own = {} \/ copy.protected \/ astray) /\ copy # None
      BY <1>1, InvParts DEF Past, OrderOK, Ordered, Released
    <3>3. LogOK' /\ Stored' = None /\ History' /\ Forgotten'
      BY <2>2, <3>1, <3>2, StoreKeepsLog, ReleaseKeepsHistory
    <3>4. KindStep
      BY <2>2, <3>2, <3>3 DEF KindStep, Kind, Spared
    <3> QED
      BY <3>3, <3>4
  <2> QED
    BY <2>1, <2>2 DEF RemoveFinalizer
<1> QED
  BY <1>1, <1>2, <1>3, EndingWrites

------------------------------------------------------------------------------
(* The theorems *)

LEMMA ContainerSteps ==
    ASSUME CInv, [Next]_vars
    PROVE  Outcome
<1>1. CASE UNCHANGED vars
  <2>1. /\ log' = log /\ queue' = queue /\ pc' = pc /\ copy' = copy /\ target' = target
        /\ guests' = guests /\ volumes' = volumes /\ cachedId' = cachedId /\ cachedObj' = cachedObj
        /\ edits' = edits /\ faults' = faults /\ happened' = happened
        /\ UNCHANGED <<making, astray>>
    BY <1>1 DEF vars, proxmox, creations, cache, counters
  <2>2. GuestOK /\ PlaceOK /\ VolumeOK /\ CacheOK /\ CountOK
    BY InvParts
  <2>3. queue' \in BOOLEAN /\ VolumeOK' /\ CacheOK' /\ CountOK' /\ (Ordered => Remembered')
    BY <2>1, <2>2, SameRemembered DEF PlaceOK, VolumeOK, CacheOK, CountOK
  <2>4. KindStep
    BY <2>1, SameResource DEF KindStep
  <2> QED
    BY <2>1, <2>2, <2>3, <2>4, SameResource, OutsideSteps
<1>2. CASE Reconcile
  BY <1>2, GetSteps, HandleFinalizerSteps, HandleContainerOperationsSteps, BootstrapSteps,
     StopContainerSteps, DestroyContainerSteps, ClearAppliedSteps, CloneContainerSteps,
     AwaitContainerSteps, StartContainerSteps, RecordAppliedSteps, StartOrUpdateContainerSteps, WriteBackSteps,
     HandleAutoStartSteps, MarkDeletingSteps, RemoveFinalizerSteps
     DEF Reconcile
<1>3. CASE \E i \in Ids, g \in Strangers \cup {None} : Destroyed(i, g)
  BY <1>3, DestroyedSteps
<1>4. CASE \E i \in Ids : Stopped(i) \/ Reconfigured(i) \/ CreationEnds(i)
  BY <1>4, TamperedSteps, CreationEndsSteps
<1> QED
  BY <1>1, <1>2, <1>3, <1>4, UserSteps, DeliverSteps, PollSteps, FaultSteps, RestartSteps DEF Next

LEMMA InvInitially == Init => CInv
<1> SUFFICES ASSUME Init PROVE CInv
  OBVIOUS
<1>1. MaxLag \in Nat /\ MaxFaults \in Nat /\ MaxTurns \in Nat
  BY Constants
<1>2. /\ log = <<None>> /\ queue = FALSE /\ pc = "idle" /\ copy = None /\ target = None
      /\ guests = [i \in Ids |-> None] /\ volumes = [s \in Stems |-> None]
      /\ making = [i \in Ids |-> None] /\ astray = FALSE
      /\ cachedId = None /\ cachedObj = [i \in Ids |-> None]
      /\ edits = 0 /\ faults = 0
  BY DEF Init
<1>3. log \in Seq(Versions) /\ Len(log) = 1 /\ log[1] = None
  BY <1>2 DEF Versions
<1>4. LogOK
  BY <1>1, <1>3 DEF LogOK
<1>5. PlaceOK /\ TargetOK
  <2>1. PlaceOK
    BY <1>2 DEF PlaceOK, Stages, Versions
  <2>2. pc \notin {"destroy", "await"}
    BY <1>2
  <2>3. astray \in BOOLEAN
    BY <1>2
  <2>4. TargetOK
    BY <1>2, <2>2, <2>3 DEF TargetOK
  <2> QED
    BY <2>1, <2>4
<1>6. GuestOK /\ VolumeOK /\ CacheOK
  BY <1>2 DEF GuestOK, VolumeOK, CacheOK
<1>7. CountOK
  BY <1>1, <1>2 DEF CountOK
<1>8. Past
  <2>1. \A k \in 1..Len(log) : ~Held(log[k])
    BY <1>3 DEF Held
  <2> QED
    BY <1>2, <2>1 DEF Past, History, Forgotten, Spent
<1>9. Ordered
  <2>1. Own = {} /\ Making = {}
    BY <1>2 DEF Own, Making, Named
  <2> QED
    BY <1>2, <2>1 DEF Ordered, Single, Attended, Remembered, Creating, Targeted, Released
<1>10. Left /\ Checked
  BY <1>2 DEF Left, Checked
<1> QED
  BY <1>4, <1>5, <1>6, <1>7, <1>8, <1>9, <1>10 DEF CInv, Parts, OrderOK

LEMMA InvAlways == Spec => []CInv
<1>1. CInv /\ [Next]_vars => CInv'
  BY ContainerSteps DEF Outcome
<1> QED
  BY <1>1, InvInitially, PTL DEF Spec

\* For all bounds the variables keep to their types: a reconcile has a copy of the resource, and
\* one that is about to destroy a container has checked its VMID.
THEOREM TypeCorrect == Spec => []TypeOK
<1>1. CInv => TypeOK
  BY PartsType DEF CInv
<1> QED
  BY <1>1, InvAlways, PTL

\* DeleteContainer compares the name: for any settings, lag and faults, a deletion or a replacement
\* leaves the containers of other names as they are, unless one took the VMID after the comparison.
THEOREM OnlyItsOwn == Spec => TouchesOnlyItsOwn
<1>1. ASSUME CInv, [Next]_vars
      PROVE  [pc' # pc /\ pc \in {"stop", "destroy"} /\ "reused at once" \notin happened
              => \A i \in Ids : guests[i] # None /\ ~guests[i].own => guests'[i] = guests[i]]_vars
  <2>1. Spares
    BY <1>1, ContainerSteps DEF Outcome
  <2> QED
    BY <2>1 DEF Spares
<1> QED
  BY <1>1, InvAlways, PTL DEF Spec, TouchesOnlyItsOwn

\* The controller of containers implements GuestLifecycle for any lag of the informer, with the
\* replacements of a container by one of another image: a container is made only for a resource with
\* the finalizer or in mode EnsureExists and without another container, and is gone before its
\* resource unless it is protected; both until a creation is left under way, because the process
\* restarts or nobody waits for it any more, and again once things are in order.
THEOREM LifecycleKept == Spec => KeepsLifecycle
<1>1. Init => Lifecycle!Init
  <2>1. Init => Stored = None /\ Own = {} /\ Making = {} /\ ~astray
    <3>1. Init => log = <<None>> /\ Len(log) = 1 /\ log[1] = None
      BY DEF Init
    <3> QED
      BY <3>1 DEF Stored, Last, Init, Own, Named, Making
  <2>2. Init => (copy # None /\ copy.mode = "EnsureExists") \in BOOLEAN
                /\ (Stored # None /\ Stored.protected) \in BOOLEAN
    BY <2>1 DEF Init
  <2> QED
    BY <2>1, <2>2 DEF Lifecycle!Init
<1>2. ASSUME CInv, [Next]_vars PROVE [Lifecycle!Next]_(Lifecycle!vars)
  <2>1. LifecycleStep
    BY <1>2, ContainerSteps DEF Outcome
  <2>2. Loose' \in BOOLEAN /\ Spared' \in BOOLEAN
    <3>1. PlaceOK' /\ LogOK'
      BY <1>2, ContainerSteps DEF Outcome, CInv, Parts
    <3>2. Stored' \in Versions
      <4>1. log' \in Seq(Versions) /\ Len(log') \in 1..Len(log')
        BY <3>1, Constants DEF LogOK
      <4> QED
        BY <4>1 DEF Stored, Last
    <3> QED
      BY <3>1, <3>2 DEF Loose, Spared, Versions, Objects
  <2>3. CASE Unmoved /\ KindStep
    <3> USE DEF Unmoved, Lifecycle!SameGuests
    <3>1. CASE Kind' = Kind
      BY <2>3, <2>2, <3>1 DEF Lifecycle!Next, Lifecycle!Decide, Kind, Loose, Spared
    <3>2. CASE Kind = "none" /\ Kind' = "bare"
      BY <2>3, <3>2 DEF Lifecycle!Next, Lifecycle!Create, Kind
    <3>3. CASE Kind = "bare" /\ Kind' = "held"
      BY <2>3, <3>3 DEF Lifecycle!Next, Lifecycle!Hold, Kind
    <3>4. CASE Kind = "bare" /\ Kind' = "none"
      BY <2>3, <3>4 DEF Lifecycle!Next, Lifecycle!Abandon, Kind
    <3>5. CASE Kind = "held" /\ Kind' = "none" /\ (Own = {} \/ Spared \/ astray)
      BY <2>3, <3>5 DEF Lifecycle!Next, Lifecycle!Release, Kind, Spared
    <3> QED
      BY <2>3, <3>1, <3>2, <3>3, <3>4, <3>5 DEF KindStep
  <2>4. CASE Kind' = Kind /\ OwnStep
    <3>1. CASE Makes
      BY <2>4, <3>1 DEF Lifecycle!Next, Lifecycle!Make, Makes, Kind, Loose
    <3>2. CASE Finishes
      BY <2>4, <3>2 DEF Lifecycle!Next, Lifecycle!Finish, Finishes, Kind
    <3>3. CASE Strays
      BY <2>4, <3>3 DEF Lifecycle!Next, Lifecycle!Stray, Strays, Kind
    <3>4. CASE Settles
      BY <2>4, <3>4 DEF Lifecycle!Next, Lifecycle!Settle, Settles, Single, Kind
    <3>5. CASE Loses
      BY <2>4, <3>5 DEF Lifecycle!Next, Lifecycle!Lose, Loses, Kind
    <3> QED
      BY <2>4, <3>1, <3>2, <3>3, <3>4, <3>5 DEF OwnStep
  <2> QED
    BY <2>1, <2>3, <2>4 DEF LifecycleStep
<1> QED
  BY <1>1, <1>2, InvAlways, PTL DEF Spec, KeepsLifecycle, Lifecycle!Spec
------------------------------------------------------------------------------
(* The recorded image *)

\* No two images have the same stem, and no name of a file has another image's stem in it.
StemsTell ==
    /\ \A x, y \in Images : Stem[x] = Stem[y] => x = y
    /\ \A s, t \in Stems : <<s, t>> \in Within => s = t

\* The container of a VMID, be it under way.
Has(i) == IF making[i] # None THEN making[i] ELSE guests[i]

\* The tag of a container, and the name of a file, tell the image.
Tagged == \A i \in Own : Has(i).tag # None => Has(i).image \in Images /\ Has(i).tag = Stem[Has(i).image]
Filed == \A s \in Stems : volumes[s] # None => Stem[volumes[s]] = s

\* A client remembers no other container than the one whose VMID it remembers, and that one's tag.
Known == \A i \in Ids : cachedObj[i] # None =>
             cachedId = i /\ (i \in Named => cachedObj[i].tag = guests[i].tag)

\* Nor does it while a container is destroyed or made.
Aimed == pc \in {"destroy", "await"} => cachedId \in {None, target}

From(x) == \A i \in Own : Has(i).tag # None => Has(i).image = x

Recorded == Stored # None /\ Stored.applied # None /\ "misrecorded" \notin happened => From(Stored.applied)

\* The image that a container is about to be made from, and was made from.
AboutToMake ==
    pc = "create" /\ copy.image # None /\ Stored # None /\ "misrecorded" \notin happened
    => Stored.applied \in {None, copy.image}
MadeFrom ==
    /\ pc \in {"await", "start", "record"} /\ copy.image # None => From(copy.image)
    /\ pc = "record" => copy.image # None

Straight == Known /\ Aimed /\ Recorded /\ AboutToMake /\ MadeFrom

IInv == Tagged /\ Filed /\ ("left" \notin happened => Straight)

\* Containers go and change their settings, but not what they were made from: those that are listed,
\* and all of them.
KeepsGuests ==
    Named' \subseteq Named
    /\ \A i \in Named' : guests'[i].tag = guests[i].tag /\ guests'[i].image = guests[i].image
KeepsImages ==
    Own' \subseteq Own
    /\ \A i \in Own' : Has(i)'.tag = Has(i).tag /\ Has(i)'.image = Has(i).image

LEMMA SameImages == guests' = guests => KeepsGuests
BY DEF KeepsGuests, Named

LEMMA KeptImages ==
    ASSUME KeepsGuests, making' = making
    PROVE  KeepsImages
<1>1. Own' \subseteq Own
  BY DEF KeepsGuests, Own, Making
<1>2. \A i \in Own' : making[i] = None => i \in Named'
  BY DEF Own, Making, Named
<1> QED
  BY <1>1, <1>2 DEF KeepsGuests, KeepsImages, Has

LEMMA SettingsKeepImages ==
    ASSUME GuestOK, NEW i \in Ids, guests[i] # None,
           \/ guests' = guests
           \/ \E b \in BOOLEAN : guests' = [guests EXCEPT ![i].running = b]
           \/ \E c \in Configs : guests' = [guests EXCEPT ![i].config = c]
    PROVE  KeepsGuests
<1>1. guests[i] \in Guests /\ None \notin Guests
  BY Constants DEF GuestOK
<1>2. ASSUME NEW x \in Guests, x.own = guests[i].own, x.tag = guests[i].tag, x.image = guests[i].image,
             guests' = [guests EXCEPT ![i] = x]
      PROVE  KeepsGuests
  <2>1. \A j \in Ids : guests'[j] = IF j = i THEN x ELSE guests[j]
    BY <1>2 DEF GuestOK
  <2> QED
    BY <1>1, <1>2, <2>1 DEF KeepsGuests, Named
<1>3. ASSUME NEW b \in BOOLEAN, guests' = [guests EXCEPT ![i].running = b] PROVE KeepsGuests
  <2> DEFINE x == [guests[i] EXCEPT !.running = b]
  <2>1. x \in Guests /\ x.own = guests[i].own /\ x.tag = guests[i].tag /\ x.image = guests[i].image
    BY <1>1 DEF Guests
  <2>2. guests' = [guests EXCEPT ![i] = x]
    BY <1>3
  <2> HIDE DEF x
  <2> QED
    BY <1>2, <2>1, <2>2
<1>4. ASSUME NEW c \in Configs, guests' = [guests EXCEPT ![i].config = c] PROVE KeepsGuests
  <2> DEFINE x == [guests[i] EXCEPT !.config = c]
  <2>1. x \in Guests /\ x.own = guests[i].own /\ x.tag = guests[i].tag /\ x.image = guests[i].image
    BY <1>1 DEF Guests
  <2>2. guests' = [guests EXCEPT ![i] = x]
    BY <1>4
  <2> HIDE DEF x
  <2> QED
    BY <1>2, <2>1, <2>2
<1> QED
  BY <1>3, <1>4, SameImages

LEMMA GuestsKept ==
    ASSUME CInv, [Next]_vars, ~CloneContainer, ~\E i \in Ids : CreationEnds(i)
    PROVE  KeepsGuests /\ volumes' = volumes /\ (~AwaitContainer => making' = making)
<1>1. GuestOK /\ TargetOK /\ None \notin Guests
  BY InvParts, Constants
<1>2. CASE \/ UNCHANGED vars \/ UserCreate \/ UserEdit \/ UserDelete \/ Deliver \/ Poll
           \/ Get \/ HandleFinalizer \/ HandleContainerOperations \/ BootstrapFromTags \/ ClearApplied
           \/ RecordApplied \/ WriteBack \/ HandleAutoStart \/ MarkDeleting \/ RemoveFinalizer
           \/ ReconcileError \/ Restart \/ NewClient
  <2>1. guests' = guests /\ volumes' = volumes /\ making' = making
    BY <1>2
       DEF vars, UserCreate, UserEdit, UserDelete, Deliver, Poll, Get, HandleFinalizer,
           HandleContainerOperations, BootstrapFromTags, ClearApplied, RecordApplied, WriteBack,
           HandleAutoStart, MarkDeleting, RemoveFinalizer, ReconcileError, Restart, NewClient, proxmox, creations
  <2> QED
    BY <2>1, SameImages
<1>3. ASSUME NEW i \in Ids, NEW next \in Strangers \cup {None}, Destroyed(i, next)
      PROVE  KeepsGuests /\ volumes' = volumes /\ making' = making
  <2>1. guests' = [guests EXCEPT ![i] = next] /\ volumes' = volumes /\ making' = making
    BY <1>3 DEF Destroyed, creations
  <2>2. next # None => ~next.own
    BY DEF Strangers
  <2>3. \A j \in Ids : guests'[j] = IF j = i THEN next ELSE guests[j]
    BY <1>1, <2>1 DEF GuestOK
  <2> QED
    BY <2>1, <2>2, <2>3 DEF KeepsGuests, Named
<1>4. ASSUME NEW i \in Ids, Stopped(i) \/ Reconfigured(i)
      PROVE  KeepsGuests /\ volumes' = volumes /\ making' = making
  <2>1. volumes' = volumes /\ making' = making /\ guests[i] # None
    BY <1>4 DEF Stopped, Reconfigured, creations
  <2>2. \/ \E b \in BOOLEAN : guests' = [guests EXCEPT ![i].running = b]
        \/ \E c \in Configs : guests' = [guests EXCEPT ![i].config = c]
    BY <1>4 DEF Stopped, Reconfigured
  <2> QED
    BY <1>1, <2>1, <2>2, SettingsKeepImages
<1>5. CASE StopContainer
  <2>1. volumes' = volumes /\ making' = making
    BY <1>5 DEF StopContainer, creations
  <2>2. \/ guests' = guests
        \/ \E i \in Ids : i \in Named /\ (guests' = guests \/ guests' = [guests EXCEPT ![i].running = FALSE])
    BY <1>5 DEF StopContainer, Call, GivenUp
  <2>3. ASSUME NEW i \in Ids, i \in Named, guests' = [guests EXCEPT ![i].running = FALSE] PROVE KeepsGuests
    <3>1. guests[i] # None
      BY <2>3 DEF Named
    <3> QED
      BY <1>1, <2>3, <3>1, SettingsKeepImages
  <2> QED
    BY <2>1, <2>2, <2>3, SameImages
<1>6. CASE DestroyContainer
  <2>1. /\ volumes' = volumes /\ making' = making
        /\ guests' = guests \/ guests' = [guests EXCEPT ![target] = None]
    BY <1>6 DEF DestroyContainer, creations, Call, GivenUp, Refused
  <2>2. CASE guests' = [guests EXCEPT ![target] = None]
    <3>1. target \in Ids
      BY <1>1, <1>6 DEF DestroyContainer, TargetOK
    <3>2. \A j \in Ids : guests'[j] = IF j = target THEN None ELSE guests[j]
      BY <1>1, <2>2, <3>1 DEF GuestOK
    <3> QED
      BY <2>1, <3>2 DEF KeepsGuests, Named
  <2> QED
    BY <2>1, <2>2, SameImages
<1>7. CASE StartContainer
  <2>1. volumes' = volumes /\ making' = making
    BY <1>7 DEF StartContainer, creations
  <2>2. \/ guests' = guests
        \/ \E i \in Ids : guests[i] # None /\ guests' = [guests EXCEPT ![i].running = TRUE]
    BY <1>7 DEF StartContainer, Refused
  <2> QED
    BY <1>1, <2>1, <2>2, SettingsKeepImages, SameImages
<1>8. CASE StartOrUpdateContainer
  <2>1. volumes' = volumes /\ making' = making /\ copy.config \in Configs
    BY <1>8, InvParts DEF StartOrUpdateContainer, creations, Objects
  <2>2. \/ guests' = guests
        \/ \E i \in Ids : guests[i] # None /\ guests' = [guests EXCEPT ![i].config = copy.config]
    BY <1>8 DEF StartOrUpdateContainer, UpdateContainer, Refused, Call
  <2> QED
    BY <1>1, <2>1, <2>2, SettingsKeepImages, SameImages
<1>9. ASSUME AwaitContainer PROVE KeepsGuests /\ volumes' = volumes
  <2>1. guests' = guests /\ volumes' = volumes
    BY <1>9 DEF AwaitContainer, proxmox
  <2> QED
    BY <2>1, SameImages
<1> QED
  BY <1>2, <1>3, <1>4, <1>5, <1>6, <1>7, <1>8, <1>9 DEF Next, Reconcile

LEMMA ImagesStay ==
    ASSUME CInv, [Next]_vars, ~CloneContainer
    PROVE  KeepsImages /\ volumes' = volumes
<1>1. GuestOK /\ TargetOK
  BY InvParts
<1>2. ASSUME NEW i \in Ids, i \in Making, making' = [making EXCEPT ![i] = None],
             guests' = guests \/ guests' = [guests EXCEPT ![i] = making[i]]
      PROVE  KeepsImages
  <2>1. /\ guests[i] = None /\ making[i] # None /\ making'[i] = None
        /\ \A j \in Ids \ {i} : guests'[j] = guests[j] /\ making'[j] = making[j]
    BY <1>1, <1>2 DEF GuestOK, Making
  <2>2. guests'[i] = None \/ guests'[i] = making[i]
    BY <1>1, <1>2, <2>1 DEF GuestOK
  <2>3. Own' \subseteq Own
    BY <1>2, <2>1 DEF Own, Making, Named
  <2>4. \A j \in Own' : Has(j)' = Has(j)
    BY <2>1, <2>2 DEF Own, Making, Named, Has
  <2> QED
    BY <2>3, <2>4 DEF KeepsImages
<1>3. CASE \E i \in Ids : CreationEnds(i)
  BY <1>2, <1>3 DEF CreationEnds, Making
<1>4. CASE AwaitContainer
  <2>1. guests' = guests /\ volumes' = volumes /\ making' \in {making, [making EXCEPT ![target] = None]}
    BY <1>4 DEF AwaitContainer, proxmox, creations
  <2>2. target \in Ids
    BY <1>1, <1>4 DEF AwaitContainer, TargetOK
  <2>3. CASE making' = making
    BY <2>1, <2>3, SameImages, KeptImages
  <2>4. CASE making' = [making EXCEPT ![target] = None] /\ target \in Making
    BY <1>2, <2>1, <2>2, <2>4
  <2>5. making' = [making EXCEPT ![target] = None] /\ target \notin Making => making' = making
    BY <1>1, <2>2 DEF GuestOK, Making
  <2> QED
    BY <2>1, <2>3, <2>4, <2>5
<1> QED
  BY <1>3, <1>4, GuestsKept, KeptImages

\* What holds of the images of all containers still does.
LEMMA ImagesKept ==
    ASSUME KeepsImages, volumes' = volumes
    PROVE  /\ Tagged => Tagged'
           /\ Filed => Filed'
           /\ \A x : From(x) => From(x)'
BY DEF KeepsImages, Tagged, Filed, From

\* A lookup leaves no other container in the caches, and knows the tag of the one it finds.
LEMMA LookupKnows ==
    ASSUME CInv, Known, NEW i \in Ids, Found(i)
    PROVE  /\ \A j \in Ids \ {i} : cachedObj[j] = None
           /\ i \in Named => Snapshot(i).tag = guests[i].tag
<1>1. \A j \in Ids \ {i} : cachedObj[j] = None
  BY Constants DEF Known, Found, Sought
<1>2. ASSUME i \in Named PROVE Snapshot(i).tag = guests[i].tag
  BY <1>2 DEF Known, Snapshot, Fresh
<1> QED
  BY <1>1, <1>2

LEMMA CachesStay ==
    ASSUME CInv, Known, KeepsGuests, NEW i \in Ids,
           GetContainer(i) \/ GetAndPing(i) \/ (Found(i) /\ DropObject(i)) \/ (Found(i) /\ Forget(i))
    PROVE  Known'
<1>1. CacheOK /\ Found(i)
  BY InvParts DEF GetContainer, GetAndPing
<1>2. /\ \A j \in Ids \ {i} : cachedObj[j] = None
      /\ i \in Named => Snapshot(i).tag = guests[i].tag
  BY <1>1, LookupKnows
<1>3. \A j \in Ids \ {i} : cachedObj'[j] = None
  BY <1>1, <1>2 DEF CacheOK, GetContainer, GetAndPing, DropObject, Forget
<1>4. CASE GetContainer(i)
  <2>1. cachedObj'[i] = Snapshot(i) /\ cachedId' = i
    BY <1>1, <1>4 DEF GetContainer, CacheOK
  <2> QED
    BY <1>2, <1>3, <2>1 DEF Known, KeepsGuests
<1>5. CASE GetAndPing(i)
  <2>1. cachedId' = i
    BY <1>5 DEF GetAndPing
  <2>2. CASE guests[i] = None
    <3>1. i \notin Named'
      BY <2>2 DEF KeepsGuests, Named
    <3> QED
      BY <1>3, <2>1, <3>1 DEF Known
  <2>3. CASE guests[i] # None
    <3>1. \/ cachedObj'[i] = Snapshot(i)
          \/ cachedObj'[i] = [Fresh(guests[i]) EXCEPT !.tag = Snapshot(i).tag]
      BY <1>1, <1>5, <2>3 DEF GetAndPing, Read, CacheOK
    <3>2. cachedObj'[i].tag = Snapshot(i).tag
      BY <3>1 DEF Fresh
    <3> QED
      BY <1>2, <1>3, <2>1, <3>2 DEF Known, KeepsGuests
  <2> QED
    BY <2>2, <2>3
<1>6. CASE DropObject(i) \/ Forget(i)
  <2>1. cachedObj'[i] = None
    BY <1>1, <1>6 DEF DropObject, Forget, CacheOK
  <2> QED
    BY <1>3, <2>1 DEF Known
<1> QED
  BY <1>4, <1>5, <1>6

LEMMA AimedStays ==
    ASSUME CInv, Ordered, Aimed, [Next]_vars
    PROVE  Aimed'
<1>1. /\ None \notin Ids /\ Targeted /\ Creating /\ TargetOK /\ PlaceOK
      /\ (pc # "idle" => copy # None)
  BY InvParts, Constants DEF Ordered
<1> SUFFICES ASSUME pc' \in {"destroy", "await"} PROVE cachedId' \in {None, target'}
  BY DEF Aimed
<1>2. CASE Poll
  <2>1. pc' = pc /\ target' = target
    BY <1>2 DEF Poll
  <2>2. Named \subseteq {target} /\ cachedId \in {None, target}
    BY <1>1, <2>1 DEF Targeted, Creating, TargetOK, Aimed, Own
  <2>3. Sought \subseteq {target}
    BY <2>2 DEF Sought
  <2> QED
    BY <1>2, <2>1, <2>3 DEF Poll
<1>3. CASE StopContainer
  <2>1. \/ \E i \in Ids : GetAndPing(i) /\ target' = IF pc' = "destroy" THEN i ELSE None
        \/ Goto(AfterDelete)
    BY <1>3 DEF StopContainer
  <2>2. ~Goto(AfterDelete)
    BY Afterwards DEF Goto
  <2>3. pc' # "await"
    BY <1>3, <2>2 DEF StopContainer, Call, GivenUp, Goto, Return, Requeue
  <2> QED
    BY <2>1, <2>2, <2>3 DEF GetAndPing
<1>4. CASE \/ UNCHANGED vars \/ UserCreate \/ UserEdit \/ UserDelete \/ Deliver
           \/ (\E i \in Ids : Stopped(i) \/ Reconfigured(i) \/ CreationEnds(i))
           \/ (\E i \in Ids, g \in Strangers \cup {None} : Destroyed(i, g))
  <2>1. pc' = pc /\ target' = target /\ cachedId' = cachedId
    BY <1>4 DEF vars, UserCreate, UserEdit, UserDelete, Deliver, Stopped, Reconfigured, CreationEnds,
                Destroyed, cache
  <2> QED
    BY <2>1 DEF Aimed
<1>5. CASE NewClient
  BY <1>5 DEF NewClient
<1>6. ASSUME Get \/ HandleFinalizer \/ HandleContainerOperations \/ BootstrapFromTags \/ ClearApplied
             \/ RecordApplied \/ WriteBack \/ HandleAutoStart \/ MarkDeleting \/ RemoveFinalizer
             \/ ReconcileError \/ Restart \/ StartContainer \/ StartOrUpdateContainer
             \/ AwaitContainer \/ DestroyContainer
      PROVE  FALSE
  BY <1>6, Afterwards
     DEF Get, Deletion, HandleFinalizer, HandleContainerOperations, ReconcileOCIImageDrift,
         BootstrapFromTags, ClearApplied, RecordApplied, PatchApplied, WriteBack, HandleAutoStart,
         MarkDeleting, RemoveFinalizer, ReconcileError, Restart, StartContainer, AfterStart,
         StartOrUpdateContainer, UpdateContainer, AwaitContainer,
         DestroyContainer, Refused, Call, GivenUp, Goto, GotoWith, Return, Requeue
<1>7. CASE CloneContainer
  BY <1>1, <1>7 DEF CloneContainer, Creating, cache
<1> QED
  BY <1>2, <1>3, <1>4, <1>5, <1>6, <1>7 DEF Next, Reconcile

LEMMA KnownStays ==
    ASSUME CInv, Ordered, Known, Aimed, [Next]_vars
    PROVE  Known'
<1>1. GuestOK /\ CacheOK /\ Creating /\ TargetOK /\ None \notin Ids
  BY InvParts, Constants DEF Ordered
<1>2. ASSUME CloneContainer \/ \E i \in Ids : CreationEnds(i) PROVE Known'
  <2>1. cachedId = None /\ cachedObj' = cachedObj
    BY <1>1, <1>2 DEF CloneContainer, CreationEnds, Creating, Ordered, Attended, Making, cache
  <2>2. \A i \in Ids : cachedObj[i] = None
    BY <1>1, <2>1 DEF Known
  <2> QED
    BY <2>1, <2>2 DEF Known
<1> SUFFICES ASSUME ~CloneContainer, ~\E i \in Ids : CreationEnds(i) PROVE Known'
  BY <1>2
<1>3. KeepsGuests
  BY GuestsKept
<1>4. ASSUME cachedId' = cachedId, cachedObj' = cachedObj PROVE Known'
  BY <1>3, <1>4 DEF Known, KeepsGuests
<1>5. ASSUME \A i \in Ids : cachedObj'[i] = None PROVE Known'
  BY <1>5 DEF Known
<1>6. ASSUME NotFound PROVE Known'
  <2>1. ASSUME NEW i \in Ids, cachedObj[i] # None PROVE FALSE
    <3>1. cachedId = i
      BY <2>1 DEF Known
    <3>2. Found(i)
      BY <1>1, <2>1, <3>1 DEF Found, Sought
    <3> QED
      BY <1>6, <3>2 DEF NotFound
  <2>2. cachedObj' = cachedObj
    BY <1>6 DEF NotFound
  <2> QED
    BY <1>5, <2>1, <2>2
<1>7. ASSUME NEW i \in Ids,
             GetContainer(i) \/ GetAndPing(i) \/ (Found(i) /\ DropObject(i)) \/ (Found(i) /\ Forget(i))
      PROVE  Known'
  BY <1>3, <1>7, CachesStay
<1>8. CASE \/ UNCHANGED vars \/ UserCreate \/ UserEdit \/ UserDelete \/ Deliver
           \/ Get \/ HandleFinalizer \/ ClearApplied \/ RecordApplied \/ WriteBack \/ MarkDeleting
           \/ RemoveFinalizer \/ ReconcileError \/ (\E i \in Ids : Stopped(i) \/ Reconfigured(i))
           \/ (\E i \in Ids, g \in Strangers \cup {None} : Destroyed(i, g))
  <2>1. cachedId' = cachedId /\ cachedObj' = cachedObj
    BY <1>8
       DEF vars, UserCreate, UserEdit, UserDelete, Deliver, Get, HandleFinalizer, ClearApplied,
           RecordApplied, WriteBack, MarkDeleting, RemoveFinalizer, ReconcileError, Stopped,
           Reconfigured, Destroyed, cache
  <2> QED
    BY <1>4, <2>1
<1>9. CASE Restart \/ NewClient
  <2>1. \A i \in Ids : cachedObj'[i] = None
    BY <1>9 DEF Restart, NewClient
  <2> QED
    BY <1>5, <2>1
<1>10. CASE HandleContainerOperations
  <2>1. cachedObj' = cachedObj /\ cachedId' \in IF Exists THEN Sought ELSE {None}
    BY <1>10 DEF HandleContainerOperations
  <2>2. ASSUME NEW i \in Ids, cachedObj[i] # None PROVE cachedId' = i
    <3>1. cachedId = i /\ Sought = {i}
      BY <1>1, <2>2 DEF Known, Sought
    <3> QED
      BY <2>1, <3>1 DEF Exists
  <2> QED
    BY <1>3, <2>1, <2>2 DEF Known, KeepsGuests
<1>11. CASE Poll
  <2>1. ASSUME NEW i \in Sought, guests[i] # None, cachedId' = i,
               cachedObj' = [cachedObj EXCEPT ![i] = Fresh(guests[i])]
        PROVE  Known'
    <3>1. i \in Ids /\ Found(i)
      BY <2>1, SoughtIsIt DEF Found
    <3>2. \A j \in Ids \ {i} : cachedObj[j] = None
      BY <3>1, LookupKnows
    <3>3. /\ \A j \in Ids \ {i} : cachedObj'[j] = None
          /\ cachedObj'[i].tag = guests[i].tag
      BY <1>1, <2>1, <3>1, <3>2 DEF CacheOK, Fresh
    <3> QED
      BY <1>3, <2>1, <3>3 DEF Known, KeepsGuests
  <2>2. ASSUME cachedObj' = [i \in Ids |-> IF i = cachedId THEN None ELSE cachedObj[i]]
        PROVE  Known'
    <3>1. \A i \in Ids : cachedObj'[i] = None
      BY <2>2 DEF Known
    <3> QED
      BY <1>5, <3>1
  <2> QED
    BY <1>11, <2>1, <2>2 DEF Poll
<1>12. CASE BootstrapFromTags
  BY <1>6, <1>7, <1>12 DEF BootstrapFromTags
<1>13. CASE StopContainer
  BY <1>6, <1>7, <1>13 DEF StopContainer
<1>14. CASE DestroyContainer
  <2>1. Forget(target) \/ (cachedId' = cachedId /\ cachedObj' = cachedObj)
    BY <1>14 DEF DestroyContainer, cache
  <2>2. target \in Ids
    BY <1>1, <1>14 DEF DestroyContainer, TargetOK
  <2>3. CASE Forget(target)
    <3>1. cachedObj' = [cachedObj EXCEPT ![target] = None]
      BY <2>3 DEF Forget
    <3>2. \A j \in Ids : cachedObj'[j] = None
      BY <1>1, <1>14, <2>2, <3>1 DEF Known, CacheOK, Aimed, DestroyContainer
    <3> QED
      BY <1>5, <3>2
  <2> QED
    BY <1>4, <2>1, <2>3
<1>15. CASE StartContainer
  <2>1. NotFound \/ \E i \in Ids : Found(i) /\ (GetAndPing(i) \/ DropObject(i))
    BY <1>15 DEF StartContainer
  <2> QED
    BY <1>6, <1>7, <2>1
<1>16. CASE StartOrUpdateContainer
  <2>1. NotFound \/ \E i \in Ids : Found(i) /\ (GetContainer(i) \/ DropObject(i))
    BY <1>16 DEF StartOrUpdateContainer, UpdateContainer
  <2> QED
    BY <1>6, <1>7, <2>1
<1>17. CASE HandleAutoStart
  <2>1. NotFound \/ (\E i \in Ids : GetContainer(i)) \/ (cachedId' = cachedId /\ cachedObj' = cachedObj)
    BY <1>17 DEF HandleAutoStart, cache
  <2> QED
    BY <1>4, <1>6, <1>7, <2>1
<1>18. CASE AwaitContainer
  <2>1. cachedObj' = cachedObj /\ (cachedId' = cachedId \/ cachedId' = target \/ cachedId' \in Sought)
    BY <1>18 DEF AwaitContainer
  <2>2. ASSUME NEW i \in Ids, cachedObj[i] # None PROVE cachedId' = i
    <3>1. cachedId = i /\ Sought = {i} /\ i = target
      BY <1>1, <1>18, <2>2 DEF Known, Sought, Aimed, AwaitContainer
    <3> QED
      BY <2>1, <3>1
  <2> QED
    BY <1>3, <2>1, <2>2 DEF Known, KeepsGuests
<1> QED
  BY <1>8, <1>9, <1>10, <1>11, <1>12, <1>13, <1>14, <1>15, <1>16, <1>17, <1>18 DEF Next, Reconcile

LEMMA MarksStay ==
    ASSUME CInv, [Next]_vars
    PROVE  happened \subseteq happened'
<1>1. CountOK
  BY InvParts
<1>2. (NoFault \/ \E kind : Fault(kind)) => happened \subseteq happened'
  BY <1>1, Troubles
<1>3. MarkMisrecorded => happened \subseteq happened'
  BY DEF MarkMisrecorded
<1>4. CASE \/ UNCHANGED vars \/ UserCreate \/ UserEdit \/ UserDelete \/ Deliver \/ Poll
           \/ Get \/ HandleFinalizer \/ BootstrapFromTags \/ RecordApplied \/ WriteBack
           \/ HandleAutoStart \/ MarkDeleting \/ RemoveFinalizer \/ (\E i \in Ids : CreationEnds(i))
  <2>1. happened' = happened
    BY <1>4
       DEF vars, CreationEnds, UserCreate, UserEdit, UserDelete, Deliver, Poll, Get, HandleFinalizer,
           BootstrapFromTags, RecordApplied, WriteBack, HandleAutoStart, MarkDeleting,
           RemoveFinalizer, counters
  <2> QED
    BY <2>1
<1>5. CASE HandleContainerOperations \/ ClearApplied
  BY <1>3, <1>5 DEF HandleContainerOperations, ClearApplied
<1>6. CASE \/ (\E i \in Ids : Stopped(i) \/ Reconfigured(i)) \/ ReconcileError \/ Restart \/ NewClient
           \/ (\E i \in Ids, g \in Strangers \cup {None} : Destroyed(i, g))
  <2>1. \E kind : Fault(kind)
    BY <1>6 DEF Stopped, Reconfigured, Destroyed, ReconcileError, Restart, NewClient
  <2> QED
    BY <1>2, <2>1
<1>7. CASE StopContainer \/ DestroyContainer
  <2>1. NoFault \/ Fault("error") \/ Fault("gave up")
    BY <1>7 DEF StopContainer, DestroyContainer, Call, GivenUp, Refused
  <2> QED
    BY <1>2, <2>1
<1>8. CASE CloneContainer \/ AwaitContainer \/ StartContainer \/ StartOrUpdateContainer
  <2>1. NoFault \/ \E kind : Fault(kind)
    BY <1>8
       DEF CloneContainer, AwaitContainer, StartContainer, StartOrUpdateContainer, UpdateContainer,
           Call, Refused
  <2> QED
    BY <1>2, <2>1
<1> QED
  BY <1>4, <1>5, <1>6, <1>7, <1>8 DEF Next, Reconcile

LEMMA PatchWrites ==
    ASSUME CInv, Stored # None, NEW x \in Images \cup {None}, NEW s, PatchApplied(x, s)
    PROVE  Stored' # None /\ Stored'.applied \in {Stored.applied, x}
<1> DEFINE new == IF copy.applied = x THEN Stored ELSE [Stored EXCEPT !.applied = x]
<1>1. Stored \in Objects /\ LogOK /\ None \notin Objects
  BY InvParts DEF Versions
<1>2. new \in Objects /\ new.applied \in {Stored.applied, x}
  BY <1>1 DEF Objects
<1>3. Store(new)
  BY DEF PatchApplied
<1> HIDE DEF new
<1>4. Stored' = new
  BY <1>1, <1>2, <1>3, StoreKeepsLog DEF Versions
<1> QED
  BY <1>1, <1>2, <1>4

\* What is recorded changes only in the patches.
LEMMA Records ==
    ASSUME CInv, [Next]_vars
    PROVE  \/ Stored' = None
           \/ Stored'.applied = None
           \/ Stored # None /\ Stored'.applied = Stored.applied
           \/ RecordApplied /\ Stored'.applied = copy.image
           \/ BootstrapFromTags /\ PatchApplied(copy.image, "update") /\ Stored'.applied = copy.image
<1>1. LogOK /\ Stored \in Versions /\ None \notin Objects /\ (pc # "idle" => copy \in Objects)
  BY InvParts
<1> DEFINE Same == Stored' = None \/ (Stored # None /\ Stored'.applied = Stored.applied)
<1>2. ASSUME log' = log PROVE Same
  BY <1>2 DEF Stored
<1>3. ASSUME NEW v \in Objects, Store(v) PROVE Stored' = v
  BY <1>1, <1>3, StoreKeepsLog DEF Versions
<1>4. CASE \/ UNCHANGED vars \/ Poll \/ Get \/ HandleContainerOperations \/ WriteBack \/ HandleAutoStart
           \/ (\E i \in Ids : Stopped(i) \/ Reconfigured(i) \/ CreationEnds(i)) \/ ReconcileError
           \/ (\E i \in Ids, g \in Strangers \cup {None} : Destroyed(i, g)) \/ NewClient \/ AwaitContainer
           \/ StopContainer \/ DestroyContainer \/ CloneContainer \/ StartContainer \/ StartOrUpdateContainer
  <2>1. log' = log
    BY <1>4
       DEF vars, Poll, Get, HandleContainerOperations, WriteBack, HandleAutoStart, Stopped,
           Reconfigured, CreationEnds, ReconcileError, NewClient, Destroyed, StopContainer,
           DestroyContainer, CloneContainer, AwaitContainer, StartContainer, StartOrUpdateContainer
  <2> QED
    BY <1>2, <2>1
<1>5. CASE Deliver \/ Restart
  <2>1. Stored' = Stored
    BY <1>1, <1>5, DeliverKeepsLog, RestartKeepsLog DEF Restart
  <2> QED
    BY <2>1
<1>6. CASE UserCreate
  <2>1. PICK k \in Kinds :
          Store([image |-> k.image, config |-> k.config, autostart |-> k.autostart, mode |-> k.mode,
                 protected |-> FALSE, deleting |-> FALSE, finalizer |-> FALSE, marked |-> FALSE,
                 applied |-> None])
    BY <1>6 DEF UserCreate
  <2> DEFINE v == [image |-> k.image, config |-> k.config, autostart |-> k.autostart, mode |-> k.mode,
                   protected |-> FALSE, deleting |-> FALSE, finalizer |-> FALSE, marked |-> FALSE,
                   applied |-> None]
  <2>2. v \in Objects /\ v.applied = None
    BY Constants DEF AllKinds, Objects
  <2>3. Store(v)
    BY <2>1
  <2> HIDE DEF v
  <2> QED
    BY <1>3, <2>2, <2>3
<1>7. CASE UserEdit
  <2>1. Stored # None /\ Stored \in Objects
    BY <1>1, <1>7 DEF UserEdit, Versions
  <2>2. PICK v \in Objects : Store(v) /\ v.applied = Stored.applied
    <3>1. CASE \E x \in (Images \cup {None}) \ {Stored.image} : Store([Stored EXCEPT !.image = x])
      BY <2>1, <3>1, Fields DEF Objects
    <3>2. CASE \E c \in Configs \ {Stored.config} : Store([Stored EXCEPT !.config = c])
      BY <2>1, <3>2, Fields DEF Objects
    <3>3. CASE Store([Stored EXCEPT !.protected = ~@])
      <4> DEFINE v == [Stored EXCEPT !.protected = ~@]
      <4>1. v \in Objects /\ v.applied = Stored.applied
        BY <2>1 DEF Objects
      <4>2. Store(v)
        BY <3>3
      <4> HIDE DEF v
      <4> QED
        BY <4>1, <4>2
    <3> QED
      BY <1>7, <3>1, <3>2, <3>3 DEF UserEdit
  <2> QED
    BY <1>3, <2>1, <2>2
<1>8. CASE UserDelete \/ MarkDeleting
  <2>1. ASSUME Store(None) PROVE Same
    BY <1>1, <2>1, StoreKeepsLog DEF Versions
  <2>2. ASSUME Stored # None, NEW v, v \in {[Stored EXCEPT !.deleting = TRUE], [Stored EXCEPT !.marked = TRUE]},
               Store(v)
        PROVE  Same
    <3>1. v \in Objects /\ v.applied = Stored.applied
      BY <1>1, <2>2 DEF Versions, Objects
    <3> QED
      BY <1>3, <2>2, <3>1
  <2>3. \/ log' = log
        \/ Store(None)
        \/ Stored # None /\ (Store([Stored EXCEPT !.deleting = TRUE]) \/ Store([Stored EXCEPT !.marked = TRUE]))
    BY <1>8 DEF UserDelete, MarkDeleting
  <2> HIDE DEF Same
  <2>4. Same
    BY <1>2, <2>1, <2>2, <2>3
  <2> QED
    BY <2>4 DEF Same
<1>9. CASE HandleFinalizer
  <2>1. copy \in Objects
    BY <1>1, <1>9 DEF HandleFinalizer
  <2> DEFINE v == [copy EXCEPT !.finalizer = TRUE]
  <2>2. v \in Objects /\ v.applied = copy.applied
    BY <2>1 DEF Objects
  <2>3. log' = log \/ (Stored = copy /\ Store(v))
    BY <1>9 DEF HandleFinalizer
  <2> HIDE DEF v
  <2> QED
    BY <1>1, <1>2, <1>3, <2>1, <2>2, <2>3
<1>10. CASE BootstrapFromTags
  <2>1. copy.image \in Images \cup {None} /\ Stored # None
    BY <1>1, <1>10 DEF BootstrapFromTags, Objects
  <2>2. log' = log \/ PatchApplied(copy.image, "update")
    BY <1>10 DEF BootstrapFromTags
  <2> QED
    BY <1>2, <1>10, <2>1, <2>2, PatchWrites
<1>11. CASE ClearApplied
  <2>1. Stored # None /\ PatchApplied(None, "create")
    BY <1>11 DEF ClearApplied
  <2> QED
    BY <2>1, PatchWrites
<1>12. CASE RecordApplied
  <2>1. copy.image \in Images \cup {None}
    BY <1>1, <1>12 DEF RecordApplied, Objects
  <2>2. \/ log' = log
        \/ Stored # None /\ Store([Stored EXCEPT !.applied = copy.image])
        \/ Stored # None /\ PatchApplied(copy.image, "autostart")
    BY <1>12 DEF RecordApplied
  <2>3. CASE Stored # None /\ Store([Stored EXCEPT !.applied = copy.image])
    <3> DEFINE v == [Stored EXCEPT !.applied = copy.image]
    <3>1. v \in Objects /\ v.applied = copy.image
      BY <1>1, <2>1, <2>3 DEF Versions, Objects
    <3>2. Store(v)
      BY <2>3
    <3> HIDE DEF v
    <3> QED
      BY <1>3, <1>12, <3>1, <3>2
  <2> QED
    BY <1>2, <1>12, <2>1, <2>2, <2>3, PatchWrites
<1>13. CASE RemoveFinalizer
  <2>1. log' = log \/ Store(None)
    BY <1>13 DEF RemoveFinalizer
  <2>2. Store(None) => Stored' = None
    BY <1>1, StoreKeepsLog DEF Versions
  <2> QED
    BY <1>2, <2>1, <2>2
<1> QED
  BY <1>4, <1>5, <1>6, <1>7, <1>8, <1>9, <1>10, <1>11, <1>12, <1>13 DEF Next, Reconcile

\* Where a reconcile gets to the making of a container, and on from there.
LEMMA Moves ==
    ASSUME CInv, [Next]_vars
    PROVE  \/ pc' = pc /\ copy' = copy
           \/ pc' \notin {"create", "await", "start", "record"}
           \/ pc' = "create" /\ MarkMisrecorded
           \/ CloneContainer /\ pc' = "await" /\ copy' = copy
           \/ pc = "await" /\ pc' = "start" /\ copy' = copy
           \/ pc = "start" /\ pc' = "record" /\ copy' = copy /\ copy.image # None
<1>1. CASE \/ UNCHANGED vars \/ UserCreate \/ UserEdit \/ UserDelete \/ Deliver \/ Poll \/ NewClient
           \/ (\E i \in Ids : Stopped(i) \/ Reconfigured(i) \/ CreationEnds(i))
           \/ (\E i \in Ids, g \in Strangers \cup {None} : Destroyed(i, g))
  <2>1. pc' = pc /\ copy' = copy
    BY <1>1
       DEF vars, UserCreate, UserEdit, UserDelete, Deliver, Poll, NewClient, Stopped, Reconfigured,
           CreationEnds, Destroyed
  <2> QED
    BY <2>1
<1>2. CASE \/ Get \/ HandleFinalizer \/ BootstrapFromTags \/ RecordApplied \/ WriteBack
           \/ HandleAutoStart \/ MarkDeleting \/ RemoveFinalizer \/ ReconcileError \/ Restart
           \/ StopContainer \/ DestroyContainer \/ StartOrUpdateContainer
  <2>1. pc' \notin {"create", "await", "start", "record"}
    BY <1>2, Afterwards
       DEF Get, Deletion, HandleFinalizer, BootstrapFromTags, RecordApplied, PatchApplied, WriteBack,
           HandleAutoStart, MarkDeleting, RemoveFinalizer, ReconcileError, Restart, StopContainer,
           DestroyContainer, StartOrUpdateContainer, UpdateContainer, Refused, Call, GivenUp, Goto,
           GotoWith, Return, Requeue
  <2> QED
    BY <2>1
<1>3. CASE HandleContainerOperations
  <2>1. pc' \notin {"await", "start", "record"} /\ MarkMisrecorded
    BY <1>3 DEF HandleContainerOperations, ReconcileOCIImageDrift, Goto, Return
  <2> QED
    BY <2>1
<1>4. CASE ClearApplied
  <2>1. pc' = "create" /\ MarkMisrecorded
    BY <1>4 DEF ClearApplied, PatchApplied, GotoWith
  <2> QED
    BY <2>1
<1>5. CASE CloneContainer \/ AwaitContainer
  <2>1. \/ pc' = "idle"
        \/ CloneContainer /\ pc' = "await" /\ copy' = copy
        \/ pc = "await" /\ pc' = "start" /\ copy' = copy
    BY <1>5 DEF CloneContainer, AwaitContainer, Goto, Requeue
  <2> QED
    BY <2>1
<1>6. CASE StartContainer
  <2>1. Requeue \/ Goto(AfterStart)
    BY <1>6 DEF StartContainer, Refused
  <2>2. \/ AfterStart = "record" /\ pc = "start" /\ copy.image # None
        \/ AfterStart \in {"idle", "autostart"}
    BY DEF AfterStart
  <2> QED
    BY <2>1, <2>2 DEF Goto, Return, Requeue
<1> QED
  BY <1>1, <1>2, <1>3, <1>4, <1>5, <1>6 DEF Next, Reconcile

\* The container is made from the image of the copy, or from a template that leaves no tag.
LEMMA Clones ==
    ASSUME CInv, Tagged, Filed, StemsTell, CloneContainer
    PROVE  /\ Filed' /\ Tagged'
           /\ Own = {} => /\ copy.image = None => \A x : From(x)'
                          /\ copy.image # None => \A x : x = copy.image => From(x)'
<1>1. /\ GuestOK /\ VolumeOK /\ copy \in Objects /\ Stem \in [Images -> Stems] /\ None \notin Guests
      /\ guests' = guests
  BY InvParts, Constants DEF CloneContainer
<1>2. PICK i \in Ids, c \in Guests :
        NextId(i) /\ NewContainer(c) /\ making' \in {making, [making EXCEPT ![i] = c]}
  BY DEF CloneContainer
<1>3. /\ Own' \subseteq Own \cup {i}
      /\ \A j \in Own : Has(j)' = Has(j)
      /\ \A j \in Own' \ Own : Has(j)' = c
  <2>1. i \notin Own
    BY <1>2 DEF NextId, Free, Own, Making, Named
  <2>2. CASE making' = making
    BY <1>1, <2>2 DEF Own, Making, Named, Has
  <2>3. CASE making' = [making EXCEPT ![i] = c]
    <3>1. making'[i] = c /\ c # None /\ \A j \in Ids \ {i} : making'[j] = making[j]
      BY <1>1, <2>3 DEF GuestOK
    <3>2. Own \subseteq Ids
      BY DEF Own, Making, Named
    <3> QED
      BY <1>1, <2>1, <3>1, <3>2 DEF Own, Making, Named, Has
  <2> QED
    BY <1>2, <2>2, <2>3
<1>4. Filed' /\ (c.tag # None => copy.image \in Images /\ c.image = copy.image /\ c.tag = Stem[copy.image])
  <2>1. CASE copy.image = None
    BY <1>2, <2>1 DEF NewContainer, Made, Filed
  <2>2. CASE copy.image # None
    <3> DEFINE t == Stem[copy.image]
    <3>1. copy.image \in Images /\ t \in Stems
      BY <1>1, <2>2 DEF Objects
    <3>2. PICK s \in Stems : Volume(s, volumes') /\ c = Made(volumes'[s], t, copy.config)
      BY <1>2, <2>2 DEF NewContainer
    <3>3. Filed' /\ volumes'[s] = copy.image
      <4>1. CASE s \in {h \in Stems : volumes[h] # None /\ <<t, h>> \in Within} /\ volumes' = volumes
        <5>1. s = t /\ volumes[s] \in Images /\ volumes[s] # None
          BY <1>1, <3>1, <4>1 DEF StemsTell, VolumeOK
        <5>2. Stem[volumes[s]] = Stem[copy.image]
          BY <1>1, <5>1 DEF Filed
        <5>3. volumes[s] = copy.image
          BY <3>1, <5>1, <5>2 DEF StemsTell
        <5> QED
          BY <1>1, <4>1, <5>3 DEF Filed
      <4>2. CASE s = t /\ volumes' = [volumes EXCEPT ![t] = copy.image]
        <5>1. \A h \in Stems : volumes'[h] = IF h = t THEN copy.image ELSE volumes[h]
          BY <1>1, <4>2 DEF VolumeOK
        <5> QED
          BY <1>1, <3>1, <4>2, <5>1 DEF Filed
      <4> QED
        BY <3>2, <4>1, <4>2 DEF Volume
    <3> QED
      BY <3>1, <3>2, <3>3 DEF Made
  <2> QED
    BY <2>1, <2>2
<1>5. Tagged'
  BY <1>3, <1>4 DEF Tagged
<1>6. ASSUME Own = {}, NEW x, copy.image = None \/ x = copy.image PROVE From(x)'
  <2>1. \A j \in Own' : Has(j)' = c
    BY <1>3, <1>6
  <2>2. c.tag # None => c.image = x
    BY <1>4, <1>6, Constants
  <2> QED
    BY <2>1, <2>2 DEF From
<1> QED
  BY <1>4, <1>5, <1>6

LEMMA ImageSteps ==
    ASSUME CInv, IInv, StemsTell, [Next]_vars
    PROVE  IInv'
<1>1. happened \subseteq happened' /\ Tagged /\ Filed
  BY MarksStay DEF IInv
<1>2. ~CloneContainer => Tagged' /\ Filed' /\ \A x : From(x) => From(x)'
  BY <1>1, ImagesStay, ImagesKept
<1>3. Tagged' /\ Filed'
  BY <1>1, <1>2, Clones
<1> SUFFICES ASSUME "left" \notin happened' PROVE Straight'
  BY <1>3 DEF IInv
<1>4. Ordered /\ Known /\ Aimed /\ Recorded /\ AboutToMake /\ MadeFrom
  BY <1>1, InvParts DEF Left, OrderOK, IInv, Straight
<1>5. Known' /\ Aimed'
  BY <1>4, KnownStays, AimedStays
<1>6. CloneContainer => /\ Own = {} /\ pc = "create"
                        /\ copy.image = None => \A x : From(x)'
                        /\ copy.image # None => \A x : x = copy.image => From(x)'
  <2>1. CloneContainer => Own = {} /\ pc = "create"
    BY <1>4 DEF CloneContainer, Ordered, Creating
  <2> QED
    BY <1>1, <2>1, Clones
<1>7. Recorded'
  <2> SUFFICES ASSUME NEW x, Stored' # None, Stored'.applied = x, x # None, "misrecorded" \notin happened'
               PROVE  From(x)'
    BY DEF Recorded, From
  <2>1. "misrecorded" \notin happened
    BY <1>1
  <2>2. CASE CloneContainer
    <3>1. Stored' = Stored
      BY <2>2 DEF CloneContainer, Stored
    <3>2. copy.image = None \/ x = copy.image
      BY <1>4, <1>6, <2>1, <2>2, <3>1 DEF AboutToMake
    <3> QED
      BY <1>6, <2>2, <3>2
  <2>3. CASE ~CloneContainer /\ Stored # None /\ Stored'.applied = Stored.applied
    <3>1. From(x)
      BY <1>4, <2>1, <2>3 DEF Recorded
    <3> QED
      BY <1>2, <2>3, <3>1
  <2>4. CASE RecordApplied /\ Stored'.applied = copy.image
    <3>1. pc = "record" /\ ~CloneContainer
      BY <2>4 DEF RecordApplied, CloneContainer
    <3>2. From(x)
      BY <1>4, <2>4, <3>1 DEF MadeFrom
    <3> QED
      BY <1>2, <2>4, <3>1, <3>2
  <2>5. CASE BootstrapFromTags /\ PatchApplied(copy.image, "update") /\ Stored'.applied = copy.image
    <3>1. pc = "tags" /\ ~CloneContainer /\ copy.image \in Images
      BY <2>5, InvParts DEF BootstrapFromTags, CloneContainer, Objects
    <3>2. PICK i \in Ids : GetContainer(i) /\ (Snapshot(i).tag = None \/ HasImageTag(Snapshot(i).tag))
      <4>1. pc' = "update"
        BY <2>5 DEF PatchApplied, GotoWith
      <4> QED
        BY <2>5, <4>1 DEF BootstrapFromTags, Requeue, Goto
    <3>3. Own \subseteq {i} /\ Making = {} /\ Found(i)
      BY <1>4, <3>1, <3>2, Lookups DEF GetContainer, Ordered, Attended
    <3>4. i \in Named => guests[i].tag \in {None, Stem[copy.image]}
      BY <1>4, <3>2, <3>3, LookupKnows DEF HasImageTag
    <3>5. \A j \in Own : j = i /\ j \in Named /\ Has(j) = guests[j]
      BY <3>3 DEF Own, Making, Named, Has
    <3>6. From(x)
      BY <1>1, <2>5, <3>1, <3>4, <3>5 DEF Tagged, From, StemsTell
    <3> QED
      BY <1>2, <2>5, <3>1, <3>6
  <2> QED
    BY <2>2, <2>3, <2>4, <2>5, Records
<1>8. AboutToMake'
  <2> SUFFICES ASSUME pc' = "create", copy'.image # None, Stored' # None, "misrecorded" \notin happened'
               PROVE  Stored'.applied \in {None, copy'.image}
    BY DEF AboutToMake
  <2>1. "misrecorded" \notin happened
    BY <1>1
  <2>2. CASE MarkMisrecorded
    BY <2>2 DEF MarkMisrecorded
  <2>3. CASE pc' = pc /\ copy' = copy
    <3>1. ~RecordApplied /\ ~BootstrapFromTags
      BY <2>3 DEF RecordApplied, BootstrapFromTags
    <3> QED
      BY <1>4, <2>1, <2>3, <3>1, Records DEF AboutToMake
  <2> QED
    BY <2>2, <2>3, Moves
<1>9. MadeFrom'
  <2>1. CASE CloneContainer /\ pc' = "await" /\ copy' = copy
    BY <1>6, <2>1 DEF MadeFrom
  <2>2. CASE /\ copy' = copy
             /\ \/ pc = "await" /\ pc' = "start"
                \/ pc = "start" /\ pc' = "record" /\ copy.image # None
    <3>1. ~CloneContainer /\ (copy.image # None => From(copy.image))
      BY <1>4, <2>2 DEF CloneContainer, MadeFrom
    <3>2. copy.image # None => \A x : x = copy.image => From(x)'
      BY <1>2, <3>1
    <3> QED
      BY <2>2, <3>2 DEF MadeFrom
  <2>3. CASE pc' = pc /\ copy' = copy
    <3>1. pc = "record" => copy.image # None
      BY <1>4 DEF MadeFrom
    <3>2. ASSUME pc \in {"await", "start", "record"}, copy.image # None
          PROVE  \A x : x = copy.image => From(x)'
      <4>1. ~CloneContainer /\ From(copy.image)
        BY <1>4, <3>2 DEF CloneContainer, MadeFrom
      <4> QED
        BY <1>2, <4>1
    <3> QED
      BY <2>3, <3>1, <3>2 DEF MadeFrom
  <2>4. CASE pc' \notin {"await", "start", "record"}
    BY <2>4 DEF MadeFrom
  <2> QED
    BY <2>1, <2>2, <2>3, <2>4, Moves
<1> QED
  BY <1>5, <1>7, <1>8, <1>9 DEF Straight

LEMMA ImagesInitially == Init => IInv
<1> SUFFICES ASSUME Init PROVE IInv
  OBVIOUS
<1>1. Stored = None /\ Own = {} /\ pc = "idle"
  <2>1. log = <<None>> /\ Len(log) = 1 /\ log[1] = None
    BY DEF Init
  <2> QED
    BY <2>1 DEF Init, Stored, Last, Own, Making, Named
<1>2. (\A s \in Stems : volumes[s] = None) /\ (\A i \in Ids : cachedObj[i] = None)
  BY DEF Init
<1> QED
  BY <1>1, <1>2 DEF IInv, Straight, Tagged, Filed, Known, Aimed, Recorded, AboutToMake, MadeFrom

\* "AppliedImageReference is the OCI reference the running Proxmox CT was created from": when stems
\* tell the images apart, for any lag, edits and faults, a container that has the tag of an image is
\* of the image recorded, unless it was made while another was recorded, or a creation was left
\* under way.
THEOREM ImageRecorded == StemsTell => (Spec => []ImageIsRecorded)
<1> SUFFICES ASSUME StemsTell PROVE Spec => []ImageIsRecorded
  OBVIOUS
<1>1. CInv /\ IInv => ImageIsRecorded
  <2> SUFFICES ASSUME CInv, IInv, Stored # None, Stored.applied # None,
                      "misrecorded" \notin happened, "left" \notin happened,
                      NEW i \in Named, guests[i].tag # None
               PROVE  guests[i].image = Stored.applied
    BY DEF ImageIsRecorded
  <2>1. From(Stored.applied)
    BY DEF IInv, Straight, Recorded
  <2>2. i \in Own /\ Has(i) = guests[i]
    BY InvParts DEF Own, Named, Has, GuestOK
  <2> QED
    BY <2>1, <2>2 DEF From
<1>2. CInv /\ IInv /\ [Next]_vars => IInv'
  BY ImageSteps
<1> QED
  BY <1>1, <1>2, InvAlways, ImagesInitially, PTL DEF Spec

=============================================================================
