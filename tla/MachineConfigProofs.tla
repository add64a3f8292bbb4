-------------------------- MODULE MachineConfigProofs --------------------------
(* For any numbers of NICs, disks and PCI devices, specs, failures and changes by others: a stage  *)
(* that plans from the devices as they are ends with those of the spec.                            *)
EXTENDS MachineConfig, FiniteSetTheorems, TLAPS

LEMMA Constants ==
    /\ Unit \in Nat \ {0} /\ MaxFaults \in Nat /\ IsFiniteSet(Devices)
    /\ IsFiniteSet(NetSlots) /\ NetSlots = 0..Cardinality(NetSlots) - 1
    /\ IsFiniteSet(PCISlots) /\ PCISlots = 0..Cardinality(PCISlots) - 1
    /\ Cardinality(NetSlots) \in Nat /\ Cardinality(PCISlots) \in Nat
    /\ \A s \in Specs : IsSpec(s)
    /\ Templates \subseteq Configs
    /\ None \notin Nets \cup PCIs /\ None \notin Volumes /\ None \notin Configs /\ None \notin Specs
BY MachineConfigAssumption, FS_CardinalityType

------------------------------------------------------------------------------
(* Sequences of calls *)

\* The first call of a plan and the others.
LEMMA HeadAndTail ==
    ASSUME NEW T, NEW p \in Seq(T), Len(p) > 0
    PROVE  /\ Head(p) = p[1] /\ Len(p) \in Nat
           /\ Head(p) \in T /\ Tail(p) \in Seq(T) /\ Len(Tail(p)) = Len(p) - 1
           /\ ToSet(p) = {Head(p)} \cup ToSet(Tail(p))
<1>1. /\ Head(p) = p[1] /\ Len(p) \in Nat /\ Head(p) \in T /\ Tail(p) \in Seq(T) /\ Len(Tail(p)) = Len(p) - 1
      /\ DOMAIN p = 1..Len(p) /\ DOMAIN Tail(p) = 1..Len(p) - 1
      /\ \A k \in 1..Len(p) - 1 : Tail(p)[k] = p[k + 1]
  OBVIOUS
<1>2. ASSUME NEW k \in DOMAIN p PROVE p[k] = Head(p) \/ p[k] \in ToSet(Tail(p))
  <2>1. CASE k # 1
    <3>1. k - 1 \in DOMAIN Tail(p) /\ Tail(p)[k - 1] = p[k]
      BY <1>1, <2>1
    <3> QED
      BY <3>1 DEF ToSet
  <2> QED
    BY <1>1, <2>1
<1>3. ASSUME NEW k \in DOMAIN Tail(p) PROVE Tail(p)[k] \in ToSet(p)
  <2>1. k + 1 \in DOMAIN p /\ Tail(p)[k] = p[k + 1]
    BY <1>1
  <2> QED
    BY <2>1 DEF ToSet
<1>4. Head(p) \in ToSet(p)
  BY <1>1 DEF ToSet
<1> QED
  BY <1>1, <1>2, <1>3, <1>4 DEF ToSet

LEMMA Joined ==
    ASSUME NEW T, NEW p \in Seq(T), NEW q \in Seq(T)
    PROVE  /\ p \o q \in Seq(T) /\ Len(p \o q) = Len(p) + Len(q)
           /\ ToSet(p \o q) = ToSet(p) \cup ToSet(q)
<1>1. /\ p \o q \in Seq(T) /\ Len(p \o q) = Len(p) + Len(q)
      /\ DOMAIN p = 1..Len(p) /\ DOMAIN q = 1..Len(q) /\ DOMAIN (p \o q) = 1..Len(p) + Len(q)
      /\ Len(p) \in Nat /\ Len(q) \in Nat
      /\ \A k \in 1..Len(p) : (p \o q)[k] = p[k]
      /\ \A k \in 1..Len(q) : (p \o q)[Len(p) + k] = q[k]
  OBVIOUS
<1>2. ASSUME NEW k \in DOMAIN (p \o q) PROVE (p \o q)[k] \in ToSet(p) \cup ToSet(q)
  <2>1. CASE k \in 1..Len(p)
    BY <1>1, <2>1 DEF ToSet
  <2>2. CASE k \notin 1..Len(p)
    <3>1. k - Len(p) \in DOMAIN q /\ (p \o q)[k] = q[k - Len(p)]
      BY <1>1, <2>2
    <3> QED
      BY <3>1 DEF ToSet
  <2> QED
    BY <2>1, <2>2
<1>3. ASSUME NEW k \in DOMAIN p PROVE p[k] \in ToSet(p \o q)
  BY <1>1 DEF ToSet
<1>4. ASSUME NEW k \in DOMAIN q PROVE q[k] \in ToSet(p \o q)
  <2>1. Len(p) + k \in DOMAIN (p \o q) /\ (p \o q)[Len(p) + k] = q[k]
    BY <1>1
  <2> QED
    BY <2>1 DEF ToSet
<1> QED
  BY <1>1, <1>2, <1>3, <1>4 DEF ToSet

\* An order of a set is a sequence of all its elements.
LEMMA Orders ==
    ASSUME NEW S, IsFiniteSet(S), NEW s \in SetToSeqs(S)
    PROVE  s \in Seq(S) /\ Len(s) = Cardinality(S) /\ ToSet(s) = S /\ Cardinality(S) \in Nat
<1> DEFINE n == Cardinality(S)
<1>1. n \in Nat
  BY FS_CardinalityType
<1>2. s \in [1..n -> S] /\ \A i, j \in 1..n : i # j => s[i] # s[j]
  BY DEF SetToSeqs
<1>3. s \in Injection(1..n, S)
  BY <1>2 DEF Injection, IsInjective
<1>4. IsFiniteSet(1..n) /\ Cardinality(1..n) = n
  BY <1>1, FS_Interval
<1>5. s \in Surjection(1..n, S)
  BY <1>3, <1>4, FS_Injection
<1>6. \A x \in S : \E k \in 1..n : s[k] = x
  BY <1>5 DEF Surjection
<1>7. s \in Seq(S) /\ Len(s) = n /\ DOMAIN s = 1..n
  BY <1>1, <1>2
<1> QED
  BY <1>1, <1>2, <1>6, <1>7 DEF ToSet

LEMMA AscendingOrders ==
    ASSUME NEW S, IsFiniteSet(S), NEW s \in Ascending(S)
    PROVE  s \in Seq(S) /\ ToSet(s) = S
BY Orders DEF Ascending

\* What a loop over the elements of s plans.
LEMMA Looped ==
    ASSUME NEW T, NEW I, NEW s \in Seq(I), NEW p \in [DOMAIN s -> T]
    PROVE  p \in Seq(T)
<1>1. DOMAIN s = 1..Len(s) /\ Len(s) \in Nat
  OBVIOUS
<1>2. p \in [1..Len(s) -> T]
  BY <1>1
<1> QED
  BY <1>1, <1>2

\* The numbers of a loop.
LEMMA Counted ==
    ASSUME NEW a \in Nat, NEW b \in Nat
    PROVE  UpTo(a, b) \in Seq(a..b - 1) /\ ToSet(UpTo(a, b)) = a..b - 1
<1>1. CASE a < b
  <2>1. UpTo(a, b) = [k \in 1..b - a |-> a + k - 1] /\ b - a \in Nat
    BY <1>1 DEF UpTo
  <2>2. \A n \in a..b - 1 : n - a + 1 \in 1..b - a /\ UpTo(a, b)[n - a + 1] = n
    BY <1>1, <2>1
  <2>3. \A k \in 1..b - a : UpTo(a, b)[k] \in a..b - 1
    BY <1>1, <2>1
  <2>4. DOMAIN UpTo(a, b) = 1..b - a
    BY <2>1
  <2>5. UpTo(a, b) \in Seq(a..b - 1)
    BY <2>1, <2>3, <2>4
  <2> QED
    BY <2>2, <2>3, <2>4, <2>5 DEF ToSet
<1>2. CASE ~(a < b)
  <2>1. UpTo(a, b) = [k \in 1..0 |-> a + k - 1] /\ a..b - 1 = {}
    BY <1>2 DEF UpTo
  <2>2. DOMAIN UpTo(a, b) = {} /\ UpTo(a, b) \in Seq(a..b - 1)
    BY <2>1
  <2> QED
    BY <2>1, <2>2 DEF ToSet
<1> QED
  BY <1>1, <1>2

------------------------------------------------------------------------------
(* What the loops plan *)

SetNet(nets, n) == Set("net", n, Wanted(nets, n))
SetPCI(pcis, n) == Set("pci", n, Wanted(pcis, n))

\* The reading of the configuration that has the NICs in the order of their numbers.
InOrder(order) == \A k \in DOMAIN order : order[k] = k - 1

LEMMA NetCalls ==
    ASSUME NEW nets \in Seq(Nets), Len(nets) <= Cardinality(NetSlots), NEW n \in NetSlots
    PROVE  SetNet(nets, n) \in Calls /\ SetNet(nets, n) # Panic
<1>1. Wanted(nets, n) \in Nets \cup {None}
  BY Constants DEF Wanted
<1> QED
  BY <1>1 DEF SetNet, Set, Calls, Panic

\* The NICs that are read: as many as there are, and each at its number when they are in order.
LEMMA ParsedOrders ==
    ASSUME NEW c \in Configs, NEW order \in NetOrders(c)
    PROVE  /\ Len(ParsedNets(c, order)) \in 0..Cardinality(NetSlots)
           /\ ParsedNets(c, order) \in Seq(Nets)
           /\ InOrder(order) => \A n \in NetSlots :
                /\ c.net[n] # None <=> n < Len(ParsedNets(c, order))
                /\ n < Len(ParsedNets(c, order)) => ParsedNets(c, order)[n + 1] = c.net[n]
<1> DEFINE S == {n \in NetSlots : c.net[n] # None}
<1>1. IsFiniteSet(S) /\ Cardinality(S) <= Cardinality(NetSlots)
  BY Constants, FS_Subset
<1>2. order \in Seq(S) /\ Len(order) = Cardinality(S) /\ ToSet(order) = S /\ Cardinality(S) \in Nat
  BY <1>1, Orders DEF NetOrders
<1>3. DOMAIN order = 1..Len(order) /\ \A k \in DOMAIN order : order[k] \in S
  <2> HIDE DEF S
  <2> QED
    BY <1>2
<1>4. c.net \in [NetSlots -> Nets \cup {None}]
  BY DEF Configs
<1>5. ParsedNets(c, order) = [k \in 1..Len(order) |-> c.net[order[k]]]
  BY <1>3 DEF ParsedNets
<1>6. \A k \in 1..Len(order) : c.net[order[k]] \in Nets
  BY <1>3, <1>4
<1>7. ParsedNets(c, order) \in Seq(Nets) /\ Len(ParsedNets(c, order)) = Len(order)
  <2> DEFINE L == Len(order)
  <2>1. L \in Nat /\ ParsedNets(c, order) = [k \in 1..L |-> c.net[order[k]]]
        /\ \A k \in 1..L : c.net[order[k]] \in Nets
    BY <1>2, <1>5, <1>6
  <2> HIDE DEF L
  <2>2. ParsedNets(c, order) \in [1..L -> Nets]
    BY <2>1
  <2>3. ParsedNets(c, order) \in Seq(Nets) /\ Len(ParsedNets(c, order)) = L
    BY <2>1, <2>2
  <2> QED
    BY <2>3 DEF L
<1>8. ASSUME InOrder(order), NEW n \in NetSlots
      PROVE  /\ c.net[n] # None <=> n < Len(order)
             /\ n < Len(order) => ParsedNets(c, order)[n + 1] = c.net[n]
  <2>1. n \in Nat
    BY Constants
  <2>2. ASSUME n < Len(order) PROVE ParsedNets(c, order)[n + 1] = c.net[n] /\ c.net[n] # None
    <3>1. n + 1 \in DOMAIN order /\ order[n + 1] = n
      BY <1>2, <1>3, <1>8, <2>1, <2>2 DEF InOrder
    <3> QED
      BY <1>3, <1>5, <3>1
  <2>3. ASSUME c.net[n] # None PROVE n < Len(order)
    <3>1. n \in ToSet(order)
      BY <1>2, <2>3
    <3>2. PICK k \in DOMAIN order : order[k] = n
      BY <3>1 DEF ToSet
    <3> QED
      BY <1>2, <1>3, <1>8, <3>2 DEF InOrder
  <2> QED
    BY <2>2, <2>3
<1> QED
  BY <1>1, <1>2, <1>7, <1>8

\* The three loops set NICs to what the spec has for their numbers, each those that differ there,
\* when the NICs were read in their order.
LEMMA NetPlanned ==
    ASSUME NEW nets \in Seq(Nets), Len(nets) <= Cardinality(NetSlots), NEW c \in Configs,
           NEW order \in NetOrders(c), NEW p \in NetPlans(nets, ParsedNets(c, order))
    PROVE  /\ p \in Seq(Calls)
           /\ ToSet(p) \subseteq {Panic} \cup {SetNet(nets, n) : n \in NetSlots}
           /\ InOrder(order) =>
                \A n \in NetSlots : c.net[n] = Wanted(nets, n) \/ SetNet(nets, n) \in ToSet(p)
<1> DEFINE D == Len(nets)
           parsed == ParsedNets(c, order)
           A == Len(parsed)
           N == Cardinality(NetSlots)
           Goal == /\ p \in Seq(Calls)
                   /\ ToSet(p) \subseteq {Panic} \cup {SetNet(nets, n) : n \in NetSlots}
                   /\ InOrder(order) =>
                        \A n \in NetSlots : c.net[n] = Wanted(nets, n) \/ SetNet(nets, n) \in ToSet(p)
<1>1. /\ D \in Nat /\ N \in Nat /\ D <= N /\ A \in 0..N /\ A \in Nat /\ NetSlots = 0..N - 1
      /\ parsed \in Seq(Nets)
      /\ InOrder(order) => \A n \in NetSlots :
            (c.net[n] # None <=> n < A) /\ (n < A => parsed[n + 1] = c.net[n])
  BY Constants, ParsedOrders
<1>2. \A n \in NetSlots : SetNet(nets, n) \in Calls
  BY NetCalls
<1> HIDE DEF parsed
<1>3. CASE nets = parsed
  <2>1. p = <<>>
    BY <1>3 DEF NetPlans, parsed
  <2>2. p \in Seq(Calls) /\ ToSet(p) = {}
    BY <2>1 DEF ToSet
  <2>3. ASSUME InOrder(order), NEW n \in NetSlots PROVE c.net[n] = Wanted(nets, n)
    BY <1>1, <1>3, <2>3 DEF Wanted
  <2> QED
    BY <2>2, <2>3
<1>4. CASE nets # parsed
  <2> DEFINE Different == {n \in 0..D - 1 : n < A /\ nets[n + 1] # parsed[n + 1]}
             r == [k \in DOMAIN UpTo(D, A) |-> Unset("net", UpTo(D, A)[k])]
             a == [k \in DOMAIN UpTo(A, D) |-> Set("net", UpTo(A, D)[k], nets[UpTo(A, D)[k] + 1])]
             last == IF 0 < D /\ D < A THEN <<Panic>> ELSE <<>>
  <2>1. PICK s \in Ascending(Different) :
          p = r \o a \o [k \in DOMAIN s |-> Set("net", s[k], nets[s[k] + 1])] \o last
    BY <1>4 DEF NetPlans, parsed, Each
  <2> DEFINE d == [k \in DOMAIN s |-> Set("net", s[k], nets[s[k] + 1])]
  <2>2. \A n \in D..A - 1 : n \in NetSlots /\ Unset("net", n) = SetNet(nets, n)
    BY <1>1 DEF Unset, SetNet, Wanted
  <2>3. \A n \in 0..D - 1 : n \in NetSlots /\ Set("net", n, nets[n + 1]) = SetNet(nets, n)
    BY <1>1 DEF SetNet, Wanted
  <2>4. ASSUME NEW I, I \subseteq NetSlots, NEW u \in Seq(I), ToSet(u) = I, NEW q,
               q = [k \in DOMAIN u |-> SetNet(nets, u[k])]
        PROVE  q \in Seq(Calls) /\ ToSet(q) = {SetNet(nets, n) : n \in I}
    <3>1. u \in Seq(I) /\ \A k \in DOMAIN u : u[k] \in I
      BY <2>4
    <3>2. q \in [DOMAIN u -> Calls] /\ \A k \in DOMAIN u : q[k] = SetNet(nets, u[k])
      BY <1>2, <2>4, <3>1
    <3>3. q \in Seq(Calls)
      BY <3>1, <3>2, Looped, Zenon
    <3>4. /\ \A x : x \in ToSet(q) <=> \E k \in DOMAIN u : x = q[k]
          /\ \A x : x \in I <=> \E k \in DOMAIN u : x = u[k]
      BY <2>4, <3>2 DEF ToSet
    <3> QED
      BY <3>2, <3>3, <3>4
  <2>5. /\ r \in Seq(Calls) /\ ToSet(r) = {SetNet(nets, n) : n \in D..A - 1}
        /\ a \in Seq(Calls) /\ ToSet(a) = {SetNet(nets, n) : n \in A..D - 1}
        /\ d \in Seq(Calls) /\ ToSet(d) = {SetNet(nets, n) : n \in Different}
    <3>1. /\ UpTo(D, A) \in Seq(D..A - 1) /\ ToSet(UpTo(D, A)) = D..A - 1
          /\ UpTo(A, D) \in Seq(A..D - 1) /\ ToSet(UpTo(A, D)) = A..D - 1
      BY <1>1, Counted
    <3>2. s \in Seq(Different) /\ ToSet(s) = Different
      <4>1. IsFiniteSet(0..D - 1) /\ Different \in SUBSET (0..D - 1)
        <5>1. 0 \in Int /\ D - 1 \in Int
          BY <1>1
        <5> QED
          BY <5>1, FS_Interval
      <4>2. IsFiniteSet(Different)
        BY <4>1, FS_Subset
      <4> HIDE DEF Different
      <4> QED
        BY <2>1, <4>2, AscendingOrders
    <3>3. D..A - 1 \subseteq NetSlots /\ A..D - 1 \subseteq 0..D - 1 /\ 0..D - 1 \subseteq NetSlots
      BY <1>1
    <3>4. r = [k \in DOMAIN UpTo(D, A) |-> SetNet(nets, UpTo(D, A)[k])]
      <4>1. \A k \in DOMAIN UpTo(D, A) : UpTo(D, A)[k] \in D..A - 1
        BY <3>1
      <4> QED
        BY <2>2, <4>1
    <3>5. a = [k \in DOMAIN UpTo(A, D) |-> SetNet(nets, UpTo(A, D)[k])]
      <4>1. \A k \in DOMAIN UpTo(A, D) : UpTo(A, D)[k] \in 0..D - 1
        BY <3>1, <3>3
      <4> QED
        BY <2>3, <4>1
    <3>6. d = [k \in DOMAIN s |-> SetNet(nets, s[k])]
      <4>1. \A k \in DOMAIN s : s[k] \in Different
        <5> HIDE DEF Different
        <5> QED
          BY <3>2
      <4> QED
        BY <2>3, <4>1
    <3> HIDE DEF r, a, d
    <3>7. Different \subseteq NetSlots
      BY <3>3
    <3> HIDE DEF Different
    <3>8. r \in Seq(Calls) /\ ToSet(r) = {SetNet(nets, n) : n \in D..A - 1}
      <4> DEFINE I == D..A - 1
                 u == UpTo(D, A)
      <4>1. I \subseteq NetSlots /\ u \in Seq(I) /\ ToSet(u) = I /\ r = [k \in DOMAIN u |-> SetNet(nets, u[k])]
        BY <3>1, <3>3, <3>4
      <4> HIDE DEF I, u
      <4>2. r \in Seq(Calls) /\ ToSet(r) = {SetNet(nets, n) : n \in I}
        BY <2>4, <4>1
      <4> QED
        BY <4>2 DEF I
    <3>9. a \in Seq(Calls) /\ ToSet(a) = {SetNet(nets, n) : n \in A..D - 1}
      <4> DEFINE I == A..D - 1
                 u == UpTo(A, D)
      <4>1. I \subseteq NetSlots /\ u \in Seq(I) /\ ToSet(u) = I /\ a = [k \in DOMAIN u |-> SetNet(nets, u[k])]
        BY <3>1, <3>3, <3>5
      <4> HIDE DEF I, u
      <4>2. a \in Seq(Calls) /\ ToSet(a) = {SetNet(nets, n) : n \in I}
        BY <2>4, <4>1
      <4> QED
        BY <4>2 DEF I
    <3>10. d \in Seq(Calls) /\ ToSet(d) = {SetNet(nets, n) : n \in Different}
      BY <2>4, <3>2, <3>6, <3>7
    <3> QED
      BY <3>8, <3>9, <3>10
  <2>7. last \in Seq(Calls) /\ ToSet(last) \subseteq {Panic}
    <3>1. Panic \in Calls
      BY DEF Calls
    <3>2. <<Panic>> \in Seq(Calls) /\ <<>> \in Seq(Calls) /\ ToSet(<<Panic>>) = {Panic} /\ ToSet(<<>>) = {}
      BY <3>1 DEF ToSet
    <3> QED
      BY <3>2
  <2>8. p \in Seq(Calls) /\ ToSet(p) = ToSet(r) \cup ToSet(a) \cup ToSet(d) \cup ToSet(last)
    <3> HIDE DEF r, a, d, last
    <3>1. p = r \o a \o d \o last
      BY <2>1 DEF d
    <3> DEFINE ra == r \o a
               rad == ra \o d
    <3>2. ra \in Seq(Calls) /\ ToSet(ra) = ToSet(r) \cup ToSet(a)
      BY <2>5, Joined
    <3>3. p = rad \o last
      BY <3>1
    <3> HIDE DEF ra
    <3>4. rad \in Seq(Calls) /\ ToSet(rad) = ToSet(ra) \cup ToSet(d)
      BY <2>5, <3>2, Joined
    <3> HIDE DEF rad
    <3>5. p \in Seq(Calls) /\ ToSet(p) = ToSet(rad) \cup ToSet(last)
      BY <2>7, <3>3, <3>4, Joined
    <3> QED
      BY <3>2, <3>4, <3>5
  <2> HIDE DEF r, a, d, last
  <2>9. ToSet(p) \subseteq {Panic} \cup {SetNet(nets, n) : n \in NetSlots}
    BY <2>2, <2>3, <2>5, <2>7, <2>8, <1>1
  <2>10. ASSUME InOrder(order), NEW n \in NetSlots, c.net[n] # Wanted(nets, n)
         PROVE  SetNet(nets, n) \in ToSet(p)
    <3>1. n \in Nat /\ n < N
      BY <1>1
    <3>2. CASE n < A /\ n >= D
      <4>1. n \in D..A - 1
        BY <1>1, <3>1, <3>2
      <4> QED
        BY <2>5, <2>8, <4>1
    <3>3. CASE n >= A /\ n < D
      <4>1. n \in A..D - 1
        BY <1>1, <3>1, <3>3
      <4> QED
        BY <2>5, <2>8, <4>1
    <3>4. CASE n < A /\ n < D
      <4>1. n \in Different
        BY <1>1, <2>10, <3>1, <3>4 DEF Wanted
      <4> QED
        BY <2>5, <2>8, <4>1
    <3>5. CASE n >= A /\ n >= D
      BY <1>1, <2>10, <3>1, <3>5 DEF Wanted
    <3> QED
      BY <1>1, <3>1, <3>2, <3>3, <3>4, <3>5
  <2> QED
    BY <2>8, <2>9, <2>10
<1> QED
  BY <1>3, <1>4

\* The calls for disks, each of which makes its device as the spec has it.
MakeDisk(disk) == Set("disk", disk.device, Volume(disk))
Named(disks, d) == \E k \in DOMAIN disks : disks[k].device = d
DiskCalls(disks) ==
    {MakeDisk(disks[k]) : k \in DOMAIN disks} \cup {Resize(disks[k]) : k \in DOMAIN disks}
    \cup {Detach(d) : d \in {e \in Devices : ~Named(disks, e)}}

DiskDone(c, disks, d) ==
    IF Named(disks, d)
    THEN \E k \in DOMAIN disks : disks[k].device = d /\ DiskIs(c.disk[d], disks[k])
    ELSE c.disk[d] = None

\* The specs of disks that users may write.
IsDisks(disks) ==
    /\ disks \in Seq(Disks)
    /\ \A j, k \in DOMAIN disks : disks[j].device = disks[k].device => j = k

\* The disks that are read are those that there are, with their storages and gigabytes.
LEMMA DisksParsed ==
    ASSUME NEW c \in Configs
    PROVE  /\ \A p \in ParsedDisks(c) : p.device \in Devices /\ c.disk[p.device] # None
           /\ \A d \in Devices : c.disk[d] # None => \E p \in ParsedDisks(c) : p.device = d
           /\ \A x \in ParsedDisks(c) : DiskIs(c.disk[x.device], x)
<1>1. ASSUME NEW x \in ParsedDisks(c)
      PROVE  x.device \in Devices /\ c.disk[x.device] # None /\ DiskIs(c.disk[x.device], x)
  <2>1. PICK d \in Devices :
          /\ c.disk[d] # None
          /\ x = [device |-> d, storage |-> c.disk[d].storage, size |-> c.disk[d].size \div Unit]
    BY DEF ParsedDisks
  <2>2. x.device = d /\ x.storage = c.disk[d].storage /\ x.size = c.disk[d].size \div Unit
    BY <2>1
  <2> QED
    BY <2>1, <2>2 DEF DiskIs
<1>2. ASSUME NEW d \in Devices, c.disk[d] # None
      PROVE  \E p \in ParsedDisks(c) : p.device = d
  <2> DEFINE x == [device |-> d, storage |-> c.disk[d].storage, size |-> c.disk[d].size \div Unit]
  <2>1. x \in ParsedDisks(c) /\ x.device = d
    BY <1>2 DEF ParsedDisks
  <2> QED
    BY <2>1
<1> QED
  BY <1>1, <1>2

\* Every call for a disk is a call, and tells its device.
LEMMA DiskCallsAreCalls ==
    ASSUME NEW disks, IsDisks(disks)
    PROVE  /\ \A k \in DOMAIN disks : /\ disks[k] \in Disks /\ disks[k].device \in Devices
                                      /\ MakeDisk(disks[k]) \in Calls /\ Resize(disks[k]) \in Calls
                                      /\ MakeDisk(disks[k]).slot = disks[k].device
                                      /\ Resize(disks[k]).slot = disks[k].device
           /\ \A d \in Devices : Detach(d) \in Calls /\ Detach(d).slot = d
<1>1. ASSUME NEW k \in DOMAIN disks
      PROVE  /\ disks[k] \in Disks /\ disks[k].device \in Devices
             /\ MakeDisk(disks[k]) \in Calls /\ Resize(disks[k]) \in Calls
             /\ MakeDisk(disks[k]).slot = disks[k].device /\ Resize(disks[k]).slot = disks[k].device
  <2>1. disks[k] \in Disks
    BY DEF IsDisks
  <2>2. disks[k].device \in Devices /\ disks[k].storage \in Storages /\ disks[k].size \in Nat \ {0}
    BY <2>1 DEF Disks
  <2>3. disks[k].size * Unit \in Nat \ {0}
    BY <2>2, Constants
  <2>4. Volume(disks[k]) \in Volumes
    BY <2>2, <2>3 DEF Volume, Volumes
  <2>5. MakeDisk(disks[k]) \in Calls /\ MakeDisk(disks[k]).slot = disks[k].device
    BY <2>2, <2>4 DEF MakeDisk, Set, Calls
  <2>6. Resize(disks[k]) \in Calls /\ Resize(disks[k]).slot = disks[k].device
    BY <2>1, <2>2 DEF Resize, Calls
  <2> QED
    BY <2>1, <2>2, <2>5, <2>6
<1>2. \A d \in Devices : Detach(d) \in Calls /\ Detach(d).slot = d
  BY DEF Detach, Calls
<1> QED
  BY <1>1, <1>2

\* Every device that is not as in the spec has one call, and a disk that is resized is there.
LEMMA DiskPlanned ==
    ASSUME NEW disks, IsDisks(disks), NEW c \in Configs, NEW p \in DiskPlans(disks, ParsedDisks(c))
    PROVE  /\ p \in Seq(Calls) /\ ToSet(p) \subseteq DiskCalls(disks)
           /\ \A x, y \in ToSet(p) : x.slot = y.slot => x = y
           /\ \A d \in Devices : DiskDone(c, disks, d) \/ \E x \in ToSet(p) : x.slot = d
           /\ \A k \in DOMAIN disks : Resize(disks[k]) \in ToSet(p) => c.disk[disks[k].device] # None
<1> DEFINE parsed == ParsedDisks(c)
           New == NewDisks(disks, parsed)
           Changed == ChangedDisks(disks, parsed)
           Surplus == UnwantedDisks(disks, parsed)
<1>1. PICK new \in Ascending(New), changed \in Ascending(Changed), unwanted \in SetToSeqs(Surplus) :
        p = [k \in DOMAIN new |-> MakeDisk(disks[new[k]])]
            \o [k \in DOMAIN changed |-> Resize(disks[changed[k]])]
            \o [k \in DOMAIN unwanted |-> Detach(unwanted[k])]
  <2>1. PICK new \in Ascending(New), changed \in Ascending(Changed), unwanted \in SetToSeqs(Surplus) :
          p = DiskPlan(disks, new, changed, unwanted)
    BY DEF DiskPlans
  <2>2. DiskPlan(disks, new, changed, unwanted) =
          [k \in DOMAIN new |-> MakeDisk(disks[new[k]])]
          \o [k \in DOMAIN changed |-> Resize(disks[changed[k]])]
          \o [k \in DOMAIN unwanted |-> Detach(unwanted[k])]
    BY DEF DiskPlan, Each, MakeDisk
  <2> QED
    BY <2>1, <2>2
<1> DEFINE a == [k \in DOMAIN new |-> MakeDisk(disks[new[k]])]
           u == [k \in DOMAIN changed |-> Resize(disks[changed[k]])]
           r == [k \in DOMAIN unwanted |-> Detach(unwanted[k])]
<1>2. /\ \A k \in DOMAIN disks : /\ disks[k] \in Disks /\ disks[k].device \in Devices
                                 /\ MakeDisk(disks[k]) \in Calls /\ Resize(disks[k]) \in Calls
                                 /\ MakeDisk(disks[k]).slot = disks[k].device
                                 /\ Resize(disks[k]).slot = disks[k].device
      /\ \A d \in Devices : Detach(d) \in Calls /\ Detach(d).slot = d
  BY DiskCallsAreCalls
<1>3. \A j, k \in DOMAIN disks : disks[j].device = disks[k].device => j = k
  BY DEF IsDisks
<1>4. /\ \A q \in parsed : q.device \in Devices /\ c.disk[q.device] # None
      /\ \A d \in Devices : c.disk[d] # None => \E q \in parsed : q.device = d
      /\ \A x \in parsed : DiskIs(c.disk[x.device], x)
  BY DisksParsed
<1>5. New \subseteq DOMAIN disks /\ Changed \subseteq DOMAIN disks /\ New \cap Changed = {}
  BY DEF NewDisks, ChangedDisks
<1>6. \A d : d \in Surplus <=> \E q \in parsed : q.device = d /\ ~Named(disks, d)
  BY DEF UnwantedDisks, Named
<1>7. Surplus \subseteq Devices
  BY <1>4, <1>6
<1>8. \A k \in DOMAIN disks : k \in New \/ k \in Changed \/ disks[k] \in parsed
  BY DEF ChangedDisks
<1>9. \A k \in Changed : c.disk[disks[k].device] # None
  BY <1>2, <1>4 DEF NewDisks, ChangedDisks
<1>10. \A d \in Devices : d \notin Surplus /\ ~Named(disks, d) => c.disk[d] = None
  BY <1>4, <1>6
<1> HIDE DEF New, Changed, Surplus, parsed
<1>11. IsFiniteSet(New) /\ IsFiniteSet(Changed) /\ IsFiniteSet(Surplus)
  <2>1. DOMAIN disks = 1..Len(disks) /\ Len(disks) \in Nat
    BY DEF IsDisks
  <2>2. 1 \in Int /\ Len(disks) \in Int
    BY <2>1
  <2>3. IsFiniteSet(DOMAIN disks)
    BY <2>1, <2>2, FS_Interval
  <2> QED
    BY <1>5, <1>7, <2>3, Constants, FS_Subset
<1>12. /\ new \in Seq(New) /\ ToSet(new) = New
       /\ changed \in Seq(Changed) /\ ToSet(changed) = Changed
       /\ unwanted \in Seq(Surplus) /\ ToSet(unwanted) = Surplus
  BY <1>1, <1>11, AscendingOrders, Orders
<1>13. /\ \A k \in DOMAIN new : new[k] \in New
       /\ \A k \in DOMAIN changed : changed[k] \in Changed
       /\ \A k \in DOMAIN unwanted : unwanted[k] \in Surplus
  BY <1>12
<1>14. a \in [DOMAIN new -> Calls] /\ u \in [DOMAIN changed -> Calls] /\ r \in [DOMAIN unwanted -> Calls]
  BY <1>2, <1>5, <1>7, <1>13
<1>15. /\ \A x : x \in ToSet(a) <=> \E k \in New : x = MakeDisk(disks[k])
       /\ \A x : x \in ToSet(u) <=> \E k \in Changed : x = Resize(disks[k])
       /\ \A x : x \in ToSet(r) <=> \E d \in Surplus : x = Detach(d)
  <2>1. \A x : x \in New <=> \E k \in DOMAIN new : x = new[k]
    BY <1>12 DEF ToSet
  <2>2. \A x : x \in Changed <=> \E k \in DOMAIN changed : x = changed[k]
    BY <1>12 DEF ToSet
  <2>3. \A x : x \in Surplus <=> \E k \in DOMAIN unwanted : x = unwanted[k]
    BY <1>12 DEF ToSet
  <2>4. \A x : x \in ToSet(a) <=> \E k \in DOMAIN new : x = MakeDisk(disks[new[k]])
    BY DEF ToSet
  <2>5. \A x : x \in ToSet(u) <=> \E k \in DOMAIN changed : x = Resize(disks[changed[k]])
    BY DEF ToSet
  <2>6. \A x : x \in ToSet(r) <=> \E k \in DOMAIN unwanted : x = Detach(unwanted[k])
    BY DEF ToSet
  <2>7. \A x : x \in ToSet(a) <=> \E k \in New : x = MakeDisk(disks[k])
    BY <2>1, <2>4
  <2>8. \A x : x \in ToSet(u) <=> \E k \in Changed : x = Resize(disks[k])
    BY <2>2, <2>5
  <2>9. \A x : x \in ToSet(r) <=> \E d \in Surplus : x = Detach(d)
    BY <2>3, <2>6
  <2> QED
    BY <2>7, <2>8, <2>9
<1>16. p = a \o u \o r
  BY <1>1
<1> HIDE DEF a, u, r
<1>17. a \in Seq(Calls) /\ u \in Seq(Calls) /\ r \in Seq(Calls)
  <2>1. a \in Seq(Calls)
    BY <1>12, <1>14, Looped, Zenon
  <2>2. u \in Seq(Calls)
    BY <1>12, <1>14, Looped, Zenon
  <2>3. r \in Seq(Calls)
    BY <1>12, <1>14, Looped, Zenon
  <2> QED
    BY <2>1, <2>2, <2>3
<1>18. p \in Seq(Calls) /\ ToSet(p) = ToSet(a) \cup ToSet(u) \cup ToSet(r)
  <2> DEFINE au == a \o u
  <2>1. p = au \o r /\ au \in Seq(Calls) /\ ToSet(au) = ToSet(a) \cup ToSet(u)
    BY <1>16, <1>17, Joined
  <2> HIDE DEF au
  <2>2. p \in Seq(Calls) /\ ToSet(p) = ToSet(au) \cup ToSet(r)
    BY <1>17, <2>1, Joined
  <2> QED
    BY <2>1, <2>2
<1>19. ToSet(p) \subseteq DiskCalls(disks)
  <2>1. \A d \in Surplus : d \in Devices /\ ~Named(disks, d)
    BY <1>6, <1>7
  <2> QED
    BY <1>5, <1>15, <1>18, <2>1 DEF DiskCalls
<1>20. ASSUME NEW x \in ToSet(p), NEW y \in ToSet(p), x.slot = y.slot
       PROVE  x = y
  <2>1. ASSUME NEW k \in DOMAIN disks, NEW d \in Surplus
        PROVE  disks[k].device # d
    BY <1>6 DEF Named
  <2>2. \A z \in ToSet(p) :
          \/ \E k \in New : z = MakeDisk(disks[k]) /\ z.slot = disks[k].device
          \/ \E k \in Changed : z = Resize(disks[k]) /\ z.slot = disks[k].device
          \/ \E d \in Surplus : z = Detach(d) /\ z.slot = d
    BY <1>2, <1>5, <1>7, <1>15, <1>18
  <2> QED
    BY <1>3, <1>5, <1>20, <2>1, <2>2
<1>21. ASSUME NEW d \in Devices, ~DiskDone(c, disks, d)
       PROVE  \E x \in ToSet(p) : x.slot = d
  <2>1. CASE Named(disks, d)
    <3>1. PICK k \in DOMAIN disks : disks[k].device = d
      BY <2>1 DEF Named
    <3>2. disks[k] \notin parsed
      BY <1>4, <1>21, <2>1, <3>1 DEF DiskDone
    <3> QED
      BY <1>2, <1>8, <1>15, <1>18, <3>1, <3>2
  <2>2. CASE ~Named(disks, d)
    <3>1. d \in Surplus
      BY <1>10, <1>21, <2>2 DEF DiskDone
    <3> QED
      BY <1>2, <1>15, <1>18, <3>1
  <2> QED
    BY <2>1, <2>2
<1>22. ASSUME NEW k \in DOMAIN disks, Resize(disks[k]) \in ToSet(p)
       PROVE  c.disk[disks[k].device] # None
  <2>1. /\ \A j \in DOMAIN disks : Resize(disks[k]) # MakeDisk(disks[j])
        /\ \A d \in Devices : Resize(disks[k]) # Detach(d)
    BY DEF Resize, MakeDisk, Set, Detach
  <2>2. Resize(disks[k]) \notin ToSet(a) /\ Resize(disks[k]) \notin ToSet(r)
    <3>1. \A j \in New : j \in DOMAIN disks
      BY <1>5
    <3>2. \A d \in Surplus : d \in Devices
      BY <1>7
    <3>3. Resize(disks[k]) \notin ToSet(a)
      BY <1>15, <2>1, <3>1
    <3>4. Resize(disks[k]) \notin ToSet(r)
      BY <1>15, <2>1, <3>2
    <3> QED
      BY <3>3, <3>4
  <2>3. Resize(disks[k]) \in ToSet(u)
    BY <1>18, <1>22, <2>2
  <2>4. PICK j \in Changed : Resize(disks[k]) = Resize(disks[j])
    BY <1>15, <2>3
  <2>5. disks[k].device = disks[j].device
    BY <1>2, <1>5, <2>4
  <2> QED
    BY <1>9, <2>5
<1> QED
  BY <1>18, <1>19, <1>20, <1>21, <1>22

\* Every slot that is not as in the spec has its call, and a plan that is not empty ends with the
\* start of the guest.
LEMMA PCIPlanned ==
    ASSUME NEW pcis \in Seq(PCIs), Len(pcis) <= Cardinality(PCISlots), NEW c \in Configs,
           NEW changes \in PCIChanges(pcis, c), NEW p, p = PCIPlan(changes)
    PROVE  /\ p \in Seq(Calls)
           /\ ToSet(p) \subseteq {Stop, Start} \cup {SetPCI(pcis, n) : n \in PCISlots}
           /\ p # <<>> => p[Len(p)] = Start
           /\ pcis # <<>> =>
                \A n \in PCISlots : c.pci[n] = Wanted(pcis, n) \/ SetPCI(pcis, n) \in ToSet(p)
<1> DEFINE D == Len(pcis)
           N == Cardinality(PCISlots)
           Different == DifferentPCIs(pcis, c)
           Surplus == UnwantedPCIs(pcis, c)
<1>1. D \in Nat /\ N \in Nat /\ D <= N /\ PCISlots = 0..N - 1 /\ IsFiniteSet(PCISlots)
  BY Constants
<1>2. PICK different \in Ascending(Different), unwanted \in SetToSeqs(Surplus) :
        changes = PCICalls(pcis, different, unwanted)
  BY DEF PCIChanges
<1> DEFINE s == [k \in DOMAIN different |-> Set("pci", different[k], pcis[different[k] + 1])]
           r == [k \in DOMAIN unwanted |-> Unset("pci", unwanted[k])]
<1>3. changes = s \o r
  BY <1>2 DEF PCICalls, Each
<1>4. /\ Different \subseteq PCISlots /\ Surplus \subseteq PCISlots
      /\ \A n \in Different : pcis[n + 1] \in PCIs /\ pcis[n + 1] = Wanted(pcis, n)
      /\ \A n \in Surplus : None = Wanted(pcis, n)
  BY <1>1 DEF DifferentPCIs, UnwantedPCIs, Wanted
<1>5. \A n \in PCISlots : pcis # <<>> /\ c.pci[n] # Wanted(pcis, n) => n \in Different \/ n \in Surplus
  BY <1>1 DEF DifferentPCIs, UnwantedPCIs, Wanted
<1> HIDE DEF Different, Surplus
<1>6. IsFiniteSet(Different) /\ IsFiniteSet(Surplus)
  BY <1>1, <1>4, FS_Subset
<1>7. /\ different \in Seq(Different) /\ ToSet(different) = Different
      /\ unwanted \in Seq(Surplus) /\ ToSet(unwanted) = Surplus
  BY <1>2, <1>6, AscendingOrders, Orders
<1>8. /\ \A n \in Different : Set("pci", n, pcis[n + 1]) = SetPCI(pcis, n) /\ SetPCI(pcis, n) \in Calls
      /\ \A n \in Surplus : Unset("pci", n) = SetPCI(pcis, n) /\ SetPCI(pcis, n) \in Calls
  BY <1>4 DEF SetPCI, Unset, Set, Calls
<1>9. /\ \A k \in DOMAIN different : different[k] \in Different
      /\ \A k \in DOMAIN unwanted : unwanted[k] \in Surplus
  BY <1>7
<1>10. /\ s \in [DOMAIN different -> Calls] /\ \A k \in DOMAIN different : s[k] = SetPCI(pcis, different[k])
       /\ r \in [DOMAIN unwanted -> Calls] /\ \A k \in DOMAIN unwanted : r[k] = SetPCI(pcis, unwanted[k])
  BY <1>8, <1>9
<1> HIDE DEF s, r
<1>11. s \in Seq(Calls) /\ r \in Seq(Calls)
  <2>1. s \in Seq(Calls)
    BY <1>7, <1>10, Looped, Zenon
  <2>2. r \in Seq(Calls)
    BY <1>7, <1>10, Looped, Zenon
  <2> QED
    BY <2>1, <2>2
<1>12. ToSet(s) = {SetPCI(pcis, n) : n \in Different} /\ ToSet(r) = {SetPCI(pcis, n) : n \in Surplus}
  <2>1. \A n : n \in Different <=> \E k \in DOMAIN different : n = different[k]
    BY <1>7 DEF ToSet
  <2>2. \A n : n \in Surplus <=> \E k \in DOMAIN unwanted : n = unwanted[k]
    BY <1>7 DEF ToSet
  <2>3. \A x : x \in ToSet(s) <=> \E k \in DOMAIN different : x = SetPCI(pcis, different[k])
    BY <1>10 DEF ToSet
  <2>4. \A x : x \in ToSet(r) <=> \E k \in DOMAIN unwanted : x = SetPCI(pcis, unwanted[k])
    BY <1>10 DEF ToSet
  <2>5. \A x : x \in ToSet(s) <=> \E n \in Different : x = SetPCI(pcis, n)
    BY <2>1, <2>3
  <2>6. \A x : x \in ToSet(r) <=> \E n \in Surplus : x = SetPCI(pcis, n)
    BY <2>2, <2>4
  <2> QED
    BY <2>5, <2>6
<1>13. changes \in Seq(Calls) /\ ToSet(changes) = ToSet(s) \cup ToSet(r)
  BY <1>3, <1>11, Joined
<1>14. /\ ToSet(changes) \subseteq {SetPCI(pcis, n) : n \in PCISlots}
       /\ pcis # <<>> =>
            \A n \in PCISlots : c.pci[n] = Wanted(pcis, n) \/ SetPCI(pcis, n) \in ToSet(changes)
  BY <1>4, <1>5, <1>12, <1>13
<1>15. CASE changes = <<>>
  BY <1>13, <1>14, <1>15 DEF PCIPlan
<1>16. CASE changes # <<>>
  <2> DEFINE last == <<Stop, Start>>
  <2>1. p = changes \o last
    BY <1>16 DEF PCIPlan
  <2>2. last \in Seq(Calls) /\ Len(last) = 2 /\ last[2] = Start /\ ToSet(last) = {Stop, Start}
    BY DEF Calls, ToSet
  <2>3. p \in Seq(Calls) /\ ToSet(p) = ToSet(changes) \cup {Stop, Start}
    <3> HIDE DEF last
    <3> QED
      BY <1>13, <2>1, <2>2, Joined
  <2>4. Len(p) = Len(changes) + 2 /\ p[Len(changes) + 2] = Start
    BY <1>13, <2>1
  <2> QED
    BY <1>14, <2>3, <2>4
<1> QED
  BY <1>15, <1>16

------------------------------------------------------------------------------
(* The invariant: what is planned is what is wanted, and what is wanted is done or planned *)

SpecIsFit(s) ==
    /\ s.nets \in Seq(Nets) /\ Len(s.nets) <= Cardinality(NetSlots)
    /\ s.pcis \in Seq(PCIs) /\ Len(s.pcis) <= Cardinality(PCISlots)
    /\ IsDisks(s.disks)

NetsPlanned ==
    stage = "net" /\ plan # None =>
        /\ ToSet(plan) \subseteq {Panic} \cup {SetNet(copy.nets, n) : n \in NetSlots}
        /\ exact => \A n \in NetSlots :
            guest.net[n] = Wanted(copy.nets, n) \/ SetNet(copy.nets, n) \in ToSet(plan)

\* A disk that is to be resized is in the cached configuration v where it is in c.
Located(c, v, d) ==
    c.disk[d] # None /\ v # None /\ v.disk[d] # None /\ v.disk[d].storage = c.disk[d].storage

DisksPlanned ==
    stage = "disk" /\ plan # None =>
        /\ ToSet(plan) \subseteq DiskCalls(copy.disks)
        /\ \A x, y \in ToSet(plan) : x.slot = y.slot => x = y
        /\ exact => \A d \in Devices :
            DiskDone(guest, copy.disks, d) \/ \E x \in ToSet(plan) : x.slot = d
        /\ exact => \A k \in DOMAIN copy.disks :
            Resize(copy.disks[k]) \in ToSet(plan) => Located(guest, view, copy.disks[k].device)

PCIsPlanned ==
    stage = "pci" /\ plan # None =>
        /\ ToSet(plan) \subseteq {Stop, Start} \cup {SetPCI(copy.pcis, n) : n \in PCISlots}
        /\ plan[Len(plan)] = Start
        /\ exact /\ copy.pcis # <<>> => \A n \in PCISlots :
            guest.pci[n] = Wanted(copy.pcis, n) \/ SetPCI(copy.pcis, n) \in ToSet(plan)

IInv == TypeOK /\ NetsPlanned /\ DisksPlanned /\ PCIsPlanned

------------------------------------------------------------------------------
(* Types *)

LEMMA SpecsFit ==
    ASSUME NEW s \in Specs
    PROVE  SpecIsFit(s)
BY Constants DEF IsSpec, SpecIsFit, IsDisks

\* Where a reconcile is, what it works on and what it has still to do.
Flow ==
    /\ copy \in Specs \cup {None}
    /\ stage \in {"idle", "net", "disk", "pci"}
    /\ stage = "idle" <=> copy = None
    /\ plan # None => stage # "idle" /\ plan \in Seq(Calls) /\ Len(plan) > 0

LEMMA FlowOnward ==
    ASSUME TypeOK, stage # "idle", NEW p \in Seq(Calls), Onward(p)
    PROVE  Flow' /\ queue' = queue /\ watched' = watched
<1>1. CASE p # <<>>
  BY <1>1 DEF TypeOK, Flow, Onward
<1>2. CASE p = <<>>
  BY <1>2, Constants DEF TypeOK, Flow, Onward, After
<1> QED
  BY <1>1, <1>2

LEMMA FlowIdle ==
    ASSUME Idle
    PROVE  Flow'
BY DEF Idle, Flow

\* What there is left after a call.
LEMMA OnwardTail ==
    ASSUME TypeOK, plan # None, Onward(Tail(plan))
    PROVE  /\ Flow' /\ queue' = queue /\ watched' = watched
           /\ \/ /\ plan' = Tail(plan) /\ stage' = stage /\ copy' = copy
                 /\ plan'[Len(plan')] = plan[Len(plan)]
              \/ /\ plan' = None /\ stage' = After[stage] /\ Tail(plan) = <<>>
                 /\ ToSet(Tail(plan)) = {} /\ plan[Len(plan)] = Head(plan)
<1>1. plan \in Seq(Calls) /\ Len(plan) > 0 /\ stage # "idle"
  BY DEF TypeOK
<1>2. /\ Head(plan) = plan[1] /\ Len(plan) \in Nat
      /\ Tail(plan) \in Seq(Calls) /\ Len(Tail(plan)) = Len(plan) - 1
      /\ ToSet(plan) = {Head(plan)} \cup ToSet(Tail(plan))
  BY <1>1, HeadAndTail
<1>3. Flow' /\ queue' = queue /\ watched' = watched
  BY <1>1, <1>2, FlowOnward
<1>4. CASE Tail(plan) # <<>>
  <2>1. Len(plan) > 1
    BY <1>1, <1>4
  <2>2. Tail(plan)[Len(Tail(plan))] = plan[Len(plan)]
    <3>1. \A k \in 1..Len(plan) - 1 : Tail(plan)[k] = plan[k + 1]
      BY <1>1
    <3>2. Len(plan) - 1 \in 1..Len(plan) - 1 /\ Len(plan) - 1 + 1 = Len(plan)
      BY <1>1, <2>1
    <3> QED
      BY <1>2, <3>1, <3>2
  <2>3. plan' = Tail(plan) /\ stage' = stage /\ copy' = copy
    BY <1>1, <1>4 DEF Onward
  <2> QED
    BY <1>2, <1>3, <2>2, <2>3
<1>5. CASE Tail(plan) = <<>>
  <2>1. Len(plan) = 1 /\ Head(plan) = plan[1]
    <3>1. Len(Tail(plan)) = 0
      <4>1. Len(<<>>) = 0
        OBVIOUS
      <4> QED
        BY <1>5, <4>1, Zenon
    <3> DEFINE left == Len(Tail(plan))
    <3>2. left = 0 /\ left = Len(plan) - 1
      BY <1>2, <3>1, Zenon
    <3>3. Len(plan) \in Nat /\ Head(plan) = plan[1]
      BY <1>2, Zenon
    <3> HIDE DEF left
    <3>4. Len(plan) = 1
      BY <3>2, <3>3
    <3> QED
      BY <3>3, <3>4, Zenon
  <2>2. ToSet(Tail(plan)) = {}
    BY <1>5 DEF ToSet
  <2>3. plan' = None /\ stage' = After[stage]
    BY <1>5 DEF Onward
  <2> QED
    BY <1>2, <1>3, <1>5, <2>1, <2>2, <2>3
<1> QED
  BY <1>4, <1>5

\* The first call of a plan.
LEMMA FirstCall ==
    ASSUME TypeOK, plan # None
    PROVE  /\ Head(plan) \in Calls /\ Head(plan) \in ToSet(plan) /\ Tail(plan) \in Seq(Calls)
           /\ stage # "idle" /\ copy \in Specs
<1>1. plan \in Seq(Calls) /\ Len(plan) > 0 /\ stage # "idle" /\ copy \in Specs
  BY DEF TypeOK
<1> QED
  BY <1>1, HeadAndTail

\* The configuration that a call for one device makes.
LEMMA OptionSet ==
    ASSUME guest \in Configs, NEW op \in Calls, op.do = "set", NEW c,
           c = [guest EXCEPT ![op.kind][op.slot] = op.to]
    PROVE  /\ c \in Configs
           /\ op.kind = "net" =>
                /\ op.slot \in NetSlots /\ c.disk = guest.disk /\ c.pci = guest.pci
                /\ c.net = [guest.net EXCEPT ![op.slot] = op.to]
           /\ op.kind = "disk" =>
                /\ op.slot \in Devices /\ c.net = guest.net /\ c.pci = guest.pci
                /\ c.disk = [guest.disk EXCEPT ![op.slot] = op.to]
           /\ op.kind = "pci" =>
                /\ op.slot \in PCISlots /\ c.net = guest.net /\ c.disk = guest.disk
                /\ c.pci = [guest.pci EXCEPT ![op.slot] = op.to]
<1>1. /\ guest = [net |-> guest.net, disk |-> guest.disk, pci |-> guest.pci]
      /\ guest.net \in [NetSlots -> Nets \cup {None}]
      /\ guest.disk \in [Devices -> Volumes \cup {None}]
      /\ guest.pci \in [PCISlots -> PCIs \cup {None}]
  BY DEF Configs
<1>2. \/ op.kind = "net" /\ op.slot \in NetSlots /\ op.to \in Nets \cup {None}
      \/ op.kind = "disk" /\ op.slot \in Devices /\ op.to \in Volumes
      \/ op.kind = "pci" /\ op.slot \in PCISlots /\ op.to \in PCIs \cup {None}
  BY DEF Calls, Panic, Stop, Start
<1>3. CASE op.kind = "net"
  <2>1. c = [net |-> [guest.net EXCEPT ![op.slot] = op.to], disk |-> guest.disk, pci |-> guest.pci]
    BY <1>1, <1>3
  <2> QED
    BY <1>1, <1>2, <1>3, <2>1 DEF Configs
<1>4. CASE op.kind = "disk"
  <2>1. c = [net |-> guest.net, disk |-> [guest.disk EXCEPT ![op.slot] = op.to], pci |-> guest.pci]
    BY <1>1, <1>4
  <2> QED
    BY <1>1, <1>2, <1>4, <2>1 DEF Configs
<1>5. CASE op.kind = "pci"
  <2>1. c = [net |-> guest.net, disk |-> guest.disk, pci |-> [guest.pci EXCEPT ![op.slot] = op.to]]
    BY <1>1, <1>5
  <2> QED
    BY <1>1, <1>2, <1>5, <2>1 DEF Configs
<1> QED
  BY <1>2, <1>3, <1>4, <1>5

LEMMA DiskDetached ==
    ASSUME guest \in Configs, NEW d \in Devices, NEW c, c = [guest EXCEPT !.disk[d] = None]
    PROVE  c \in Configs /\ c.disk = [guest.disk EXCEPT ![d] = None]
<1>1. guest.disk \in [Devices -> Volumes \cup {None}]
  BY DEF Configs
<1> QED
  BY <1>1 DEF Configs

LEMMA DiskResized ==
    ASSUME guest \in Configs, NEW d \in Devices, guest.disk[d] # None, NEW size \in Nat \ {0},
           NEW c, c = [guest EXCEPT !.disk[d].size = size]
    PROVE  /\ c \in Configs
           /\ c.disk = [guest.disk EXCEPT ![d] = [storage |-> guest.disk[d].storage, size |-> size]]
           /\ [storage |-> guest.disk[d].storage, size |-> size] # None
<1>1. guest.disk \in [Devices -> Volumes \cup {None}] /\ guest.disk[d] \in Volumes
  BY DEF Configs
<1>2. c.disk = [guest.disk EXCEPT ![d] = [guest.disk[d] EXCEPT !.size = size]]
  BY <1>1 DEF Configs
<1>3. [guest.disk[d] EXCEPT !.size = size] = [storage |-> guest.disk[d].storage, size |-> size]
  BY <1>1 DEF Volumes
<1>4. [guest.disk[d] EXCEPT !.size = size] \in Volumes
  BY <1>1, <1>3 DEF Volumes
<1>5. c \in Configs
  BY <1>1, <1>2, <1>4 DEF Configs
<1> QED
  BY <1>2, <1>3, <1>4, <1>5, Constants

\* What a call may come to: it is done, it fails with the reconcile, or it fails and nobody knows.
CallDone(c, a) == guest' = c /\ active' = a /\ Onward(Tail(plan)) /\ NoFault
CallFails(c, a) == guest' \in {guest, c} /\ active' \in {active, a} /\ Idle /\ Fault
                   /\ queue' \in {queue, TRUE} /\ watched' \in {watched, FALSE}
CallLost == guest' = guest /\ active' = active /\ Onward(Tail(plan)) /\ Fault

LEMMA CallEnds ==
    ASSUME NEW c, NEW a, Call(c, a)
    PROVE  CallDone(c, a) \/ CallFails(c, a)
BY DEF Call, CallDone, CallFails, Requeue, GiveUp

LEMMA UnawaitedEnds ==
    ASSUME NEW c, Unawaited(c)
    PROVE  CallDone(c, active) \/ CallFails(c, active) \/ CallLost
BY DEF Unawaited, CallDone, CallFails, CallLost, Requeue

LEMMA FaultCounted ==
    ASSUME TypeOK, Fault
    PROVE  faults' \in 0..MaxFaults /\ exact' = FALSE /\ exact' \in BOOLEAN
<1>1. MaxFaults \in Nat
  BY Constants
<1>2. faults \in 0..MaxFaults /\ faults < MaxFaults /\ faults' = faults + 1
  BY DEF TypeOK, Fault
<1>3. exact' = FALSE
  BY DEF Fault
<1>4. faults' \in 0..MaxFaults
  BY <1>1, <1>2
<1>5. exact' \in BOOLEAN
  BY <1>3, Zenon
<1> QED
  BY <1>3, <1>4, <1>5, Zenon

Running == [PCISlots -> PCIs \cup {None}] \cup {None}

LEMMA CallTyped ==
    ASSUME TypeOK, plan # None, NEW c \in Configs, NEW a \in Running,
           spec' = spec, view' \in Configs \cup {None},
           CallDone(c, a) \/ CallFails(c, a) \/ CallLost
    PROVE  TypeOK'
<1>1. Flow' /\ queue' \in BOOLEAN /\ watched' \in BOOLEAN
  <2>1. CASE CallDone(c, a) \/ CallLost
    BY <2>1, OnwardTail DEF CallDone, CallLost, TypeOK
  <2>2. CASE CallFails(c, a)
    BY <2>2, FlowIdle DEF CallFails, TypeOK
  <2> QED
    BY <2>1, <2>2
<1>2. guest' \in Configs /\ active' \in Running
  BY DEF CallDone, CallFails, CallLost, TypeOK, Running
<1>3. faults' \in 0..MaxFaults /\ exact' \in BOOLEAN
  <2>1. CASE NoFault
    BY <2>1 DEF NoFault, TypeOK
  <2>2. CASE Fault
    BY <2>2, FaultCounted
  <2> QED
    BY <2>1, <2>2 DEF CallDone, CallFails, CallLost
<1> QED
  BY <1>1, <1>2, <1>3 DEF TypeOK, Flow, Running

\* What a stage reads is a configuration, and what it plans are calls.
LEMMA PlanTyped ==
    ASSUME TypeOK, stage # "idle", NEW p \in Seq(Calls), Planned(p), exact' \in BOOLEAN
    PROVE  TypeOK'
<1>1. Flow' /\ queue' = queue /\ watched' = watched
  BY FlowOnward DEF Planned
<1>2. View \in Configs
  BY DEF View, TypeOK
<1> QED
  BY <1>1, <1>2 DEF TypeOK, Flow, Planned

LEMMA Viewed ==
    ASSUME TypeOK
    PROVE  View \in Configs /\ View # None /\ (view # None => View = view)
BY Constants DEF View, TypeOK

\* The plans of the three stages.
LEMMA NetsRead ==
    ASSUME TypeOK, stage = "net", NEW order \in NetOrders(View),
           NEW p \in NetPlans(copy.nets, ParsedNets(View, order))
    PROVE  /\ p \in Seq(Calls)
           /\ ToSet(p) \subseteq {Panic} \cup {SetNet(copy.nets, n) : n \in NetSlots}
           /\ InOrder(order) => \A n \in NetSlots :
                View.net[n] = Wanted(copy.nets, n) \/ SetNet(copy.nets, n) \in ToSet(p)
<1>1. copy \in Specs
  BY DEF TypeOK
<1>2. copy.nets \in Seq(Nets) /\ Len(copy.nets) <= Cardinality(NetSlots)
  BY <1>1, SpecsFit DEF SpecIsFit
<1> QED
  BY <1>2, Viewed, NetPlanned

LEMMA DisksRead ==
    ASSUME TypeOK, stage = "disk", NEW p \in DiskPlans(copy.disks, ParsedDisks(View))
    PROVE  /\ p \in Seq(Calls) /\ ToSet(p) \subseteq DiskCalls(copy.disks)
           /\ \A x, y \in ToSet(p) : x.slot = y.slot => x = y
           /\ \A d \in Devices : DiskDone(View, copy.disks, d) \/ \E x \in ToSet(p) : x.slot = d
           /\ \A k \in DOMAIN copy.disks :
                Resize(copy.disks[k]) \in ToSet(p) => View.disk[copy.disks[k].device] # None
<1>1. copy \in Specs
  BY DEF TypeOK
<1>2. IsDisks(copy.disks)
  BY <1>1, SpecsFit DEF SpecIsFit
<1> QED
  BY <1>2, Viewed, DiskPlanned

LEMMA PCIsRead ==
    ASSUME TypeOK, stage = "pci", NEW changes \in PCIChanges(copy.pcis, View),
           NEW p, p = PCIPlan(changes)
    PROVE  /\ p \in Seq(Calls)
           /\ ToSet(p) \subseteq {Stop, Start} \cup {SetPCI(copy.pcis, n) : n \in PCISlots}
           /\ p # <<>> => p[Len(p)] = Start
           /\ copy.pcis # <<>> => \A n \in PCISlots :
                View.pci[n] = Wanted(copy.pcis, n) \/ SetPCI(copy.pcis, n) \in ToSet(p)
<1>1. copy \in Specs
  BY DEF TypeOK
<1>2. copy.pcis \in Seq(PCIs) /\ Len(copy.pcis) <= Cardinality(PCISlots)
  BY <1>1, SpecsFit DEF SpecIsFit
<1> QED
  BY <1>2, Viewed, PCIPlanned

LEMMA TypeKept ==
    ASSUME TypeOK, [Next]_vars
    PROVE  TypeOK'
<1>1. CASE UserEdit
  BY <1>1 DEF UserEdit, TypeOK
<1>2. CASE Tamper
  <2>1. guest' \in Configs
    <3>1. guest \in Configs
      BY DEF TypeOK
    <3>2. CASE \E n \in NetSlots, v \in Nets \cup {None} : guest' = [guest EXCEPT !.net[n] = v]
      BY <3>1, <3>2 DEF Configs
    <3>3. CASE \E d \in Devices : guest' = [guest EXCEPT !.disk[d] = None]
      BY <3>1, <3>3 DEF Configs
    <3> QED
      BY <1>2, <3>2, <3>3 DEF Tamper
  <2> QED
    <3>1. /\ Fault
          /\ UNCHANGED <<spec, queue, stage, copy, plan, active, view, watched>>
      BY <1>2 DEF Tamper
    <3>2. faults' \in 0..MaxFaults /\ exact' \in BOOLEAN
      BY <3>1, FaultCounted
    <3> QED
      BY <2>1, <3>1, <3>2 DEF TypeOK
<1>3. CASE Poll
  <2>1. queue' \in BOOLEAN
    BY <1>3, Zenon DEF Poll, TypeOK
  <2> QED
    BY <1>3, <2>1 DEF Poll, TypeOK
<1>4. CASE Get
  BY <1>4, Constants DEF Get, TypeOK
<1>5. CASE PlanNets(NetOrders(View))
  <2>1. PICK order \in NetOrders(View) :
          \E p \in NetPlans(copy.nets, ParsedNets(View, order)) : Planned(p)
    BY <1>5 DEF PlanNets
  <2>5. PICK p \in NetPlans(copy.nets, ParsedNets(View, order)) : Planned(p)
    BY <2>1
  <2>2. stage = "net"
    BY <1>5 DEF PlanNets
  <2>3. exact' \in BOOLEAN
    BY <1>5, Zenon DEF PlanNets
  <2>4. p \in Seq(Calls)
    BY <2>2, NetsRead
  <2> QED
    BY <2>2, <2>3, <2>4, <2>5, PlanTyped
<1>6. CASE PlanDisks
  <2>1. PICK p \in DiskPlans(copy.disks, ParsedDisks(View)) : Planned(p)
    BY <1>6 DEF PlanDisks
  <2>2. stage = "disk"
    BY <1>6 DEF PlanDisks
  <2>3. exact' \in BOOLEAN
    BY <1>6, Zenon DEF PlanDisks
  <2>4. p \in Seq(Calls)
    BY <2>2, DisksRead
  <2> QED
    BY <2>1, <2>2, <2>3, <2>4, PlanTyped
<1>7. CASE PlanPCIs
  <2>1. PICK changes \in PCIChanges(copy.pcis, View) : Planned(PCIPlan(changes))
    BY <1>7 DEF PlanPCIs
  <2>2. stage = "pci"
    BY <1>7 DEF PlanPCIs
  <2>3. exact' \in BOOLEAN
    BY <1>7, Zenon DEF PlanPCIs
  <2>4. PCIPlan(changes) \in Seq(Calls)
    BY <2>2, PCIsRead
  <2> QED
    BY <2>1, <2>2, <2>3, <2>4, PlanTyped
<1>8. CASE SetOption
  <2> DEFINE op == Head(plan)
             c == [guest EXCEPT ![op.kind][op.slot] = op.to]
  <2>1. plan # None /\ op.do = "set" /\ Call(c, active) /\ spec' = spec /\ view' = view
    BY <1>8 DEF SetOption, Doing
  <2>2. op \in Calls
    BY <2>1, FirstCall
  <2>3. guest \in Configs /\ active \in Running /\ view' \in Configs \cup {None}
    BY <2>1 DEF TypeOK, Running
  <2> HIDE DEF op
  <2>4. c \in Configs
    BY <2>1, <2>2, <2>3, OptionSet
  <2> HIDE DEF c
  <2> QED
    BY <2>1, <2>3, <2>4, CallEnds, CallTyped
<1>9. CASE DetachDisk
  <2> DEFINE c == [guest EXCEPT !.disk[Head(plan).slot] = None]
  <2>1. plan # None /\ Head(plan).do = "detach" /\ Unawaited(c) /\ spec' = spec /\ view' = view
    BY <1>9 DEF DetachDisk, Doing
  <2>2. Head(plan).slot \in Devices
    BY <2>1, FirstCall DEF Calls, Panic, Stop, Start
  <2>3. guest \in Configs /\ active \in Running /\ view' \in Configs \cup {None}
    BY <2>1 DEF TypeOK, Running
  <2>4. c \in Configs
    BY <2>2, <2>3, DiskDetached
  <2> HIDE DEF c
  <2> QED
    BY <2>1, <2>3, <2>4, UnawaitedEnds, CallTyped
<1>10. CASE ResizeDisk
  <2> DEFINE d == Head(plan).slot
             size == Head(plan).to.size * Unit
             c == [guest EXCEPT !.disk[d].size = size]
  <2>1. plan # None /\ Head(plan).do = "resize" /\ spec' = spec /\ view' = View
    BY <1>10 DEF ResizeDisk, Doing
  <2>2. d \in Devices /\ Head(plan).to \in Disks
    BY <2>1, FirstCall DEF Calls, Panic, Stop, Start
  <2>3. size \in Nat \ {0}
    BY <2>2, Constants DEF Disks
  <2>4. guest \in Configs /\ active \in Running /\ view' \in Configs \cup {None}
    BY <2>1, Viewed DEF TypeOK, Running
  <2>5. CASE Unawaited(c) /\ guest.disk[d] # None
    <3>1. c \in Configs
      BY <2>2, <2>3, <2>4, <2>5, DiskResized
    <3> HIDE DEF c
    <3> QED
      BY <2>1, <2>4, <2>5, <3>1, UnawaitedEnds, CallTyped
  <2>6. CASE Onward(Tail(plan)) /\ NoFault /\ UNCHANGED <<guest, active>>
    <3>1. CallDone(guest, active)
      BY <2>6 DEF CallDone
    <3> QED
      BY <2>1, <2>4, <3>1, CallTyped
  <2>7. CASE Refused
    BY <2>1, <2>4, <2>7, FlowIdle DEF Refused, Requeue, NoFault, TypeOK, Flow
  <2> QED
    BY <1>10, <2>5, <2>6, <2>7 DEF ResizeDisk
<1>11. CASE PanicInLoop
  BY <1>11, FlowIdle DEF PanicInLoop, Refused, Requeue, NoFault, TypeOK, Flow
<1>12. CASE StopVM
  <2>1. plan # None /\ Call(guest, None) /\ spec' = spec /\ view' = view
    BY <1>12 DEF StopVM, Doing
  <2>2. guest \in Configs /\ None \in Running /\ view' \in Configs \cup {None}
    BY <2>1 DEF TypeOK, Running
  <2> QED
    BY <2>1, <2>2, CallEnds, CallTyped
<1>13. CASE StartVM
  <2>1. plan # None /\ Call(guest, guest.pci) /\ spec' = spec /\ view' = view
    BY <1>13 DEF StartVM, Doing
  <2>2. guest \in Configs /\ guest.pci \in Running /\ view' \in Configs \cup {None}
    BY <2>1 DEF TypeOK, Running, Configs
  <2> QED
    BY <2>1, <2>2, CallEnds, CallTyped
<1>14. CASE ReconcileError
  BY <1>14, FlowIdle, FaultCounted DEF ReconcileError, Requeue, TypeOK, Flow
<1>15. CASE Restart
  BY <1>15, FlowIdle, FaultCounted DEF Restart, TypeOK, Flow
<1>16. CASE UNCHANGED vars
  BY <1>16 DEF vars, TypeOK
<1> QED
  BY <1>1, <1>2, <1>3, <1>4, <1>5, <1>6, <1>7, <1>8, <1>9, <1>10, <1>11, <1>12, <1>13, <1>14,
     <1>15, <1>16 DEF Next, Reconcile

LEMMA TypeInitially == Init => TypeOK
<1>1. MaxFaults \in Nat /\ None \notin Specs /\ Templates \subseteq Configs /\ 0 \in 0..MaxFaults
  BY Constants
<1>2. \A c \in Configs : c.pci \in [PCISlots -> PCIs \cup {None}]
  BY DEF Configs
<1> QED
  BY <1>1, <1>2 DEF Init, TypeOK

\* The state keeps its type: plans are sequences of calls for slots that there are, whatever the
\* numbers of devices in the spec and on the guest.
THEOREM TypeCorrect == Spec => []TypeOK
<1>1. Init => TypeOK
  BY TypeInitially
<1>2. TypeOK /\ [Next]_vars => TypeOK'
  BY TypeKept
<1> QED
  BY <1>1, <1>2, PTL DEF Spec

------------------------------------------------------------------------------
(* A plan goes on *)

LEMMA Divided ==
    ASSUME NEW a \in Nat, NEW b \in Nat \ {0}
    PROVE  (a * b) \div b = a
OBVIOUS

\* What every step promises about the end of a stage.
Achieve ==
    exact' =>
        /\ stage = "net" /\ stage' = "disk" => NetsAre(guest', copy.nets)
        /\ stage = "disk" /\ stage' = "pci" => DisksAre(guest', copy.disks)
        /\ stage = "pci" /\ stage' = "idle" =>
            /\ copy.pcis # <<>> => \A n \in PCISlots : guest'.pci[n] = Wanted(copy.pcis, n)
            /\ plan # None => active' = guest'.pci

Kept == NetsPlanned' /\ DisksPlanned' /\ PCIsPlanned'

\* Every plan begins with a call of its stage.
LEMMA Begins ==
    ASSUME IInv, plan # None
    PROVE  /\ stage = "net" => Head(plan) = Panic \/ \E n \in NetSlots : Head(plan) = SetNet(copy.nets, n)
           /\ stage = "disk" => Head(plan) \in DiskCalls(copy.disks)
           /\ stage = "pci" =>
                Head(plan) \in {Stop, Start} \/ \E n \in PCISlots : Head(plan) = SetPCI(copy.pcis, n)
           /\ stage \in {"net", "disk", "pci"}
<1>1. Head(plan) \in ToSet(plan) /\ stage # "idle" /\ stage \in {"idle", "net", "disk", "pci"}
  BY FirstCall DEF IInv, TypeOK
<1> QED
  BY <1>1 DEF IInv, NetsPlanned, DisksPlanned, PCIsPlanned

LEMMA Kinds ==
    ASSUME IInv, plan # None
    PROVE  /\ stage = "net" => Head(plan).do \in {"panic", "set"}
           /\ stage = "disk" => Head(plan).do \in {"set", "resize", "detach"}
           /\ stage = "pci" => Head(plan).do \in {"stop", "start", "set"}
<1>1. stage = "net" => Head(plan).do \in {"panic", "set"}
  BY Begins DEF SetNet, Set, Panic
<1>2. stage = "disk" => Head(plan).do \in {"set", "resize", "detach"}
  BY Begins DEF DiskCalls, MakeDisk, Set, Resize, Detach
<1>3. stage = "pci" => Head(plan).do \in {"stop", "start", "set"}
  BY Begins DEF SetPCI, Set, Stop, Start
<1> QED
  BY <1>1, <1>2, <1>3

\* A reconcile that ends without having done its plan.
LEMMA Ended ==
    ASSUME plan' = None, stage' = "idle", stage # "pci" \/ exact' = FALSE
    PROVE  Kept /\ Achieve
BY DEF Kept, NetsPlanned, DisksPlanned, PCIsPlanned, Achieve

LEMMA DisksAreDone ==
    ASSUME NEW c, NEW disks, \A d \in Devices : DiskDone(c, disks, d)
    PROVE  DisksAre(c, disks)
BY DEF DiskDone, DisksAre, Named

\* A call of the stage of NICs, the others of which make what is missing in c.
LEMMA NetsGoOn ==
    ASSUME IInv, plan # None, stage = "net", NEW c, NEW a,
           CallDone(c, a) \/ CallFails(c, a) \/ CallLost,
           exact => \A n \in NetSlots :
                c.net[n] = Wanted(copy.nets, n) \/ SetNet(copy.nets, n) \in ToSet(Tail(plan))
    PROVE  Kept /\ Achieve
<1>1. CASE CallFails(c, a)
  BY <1>1, Ended DEF CallFails, Idle, Fault
<1>2. CASE CallDone(c, a) \/ CallLost
  <2>1. TypeOK /\ Onward(Tail(plan))
    BY <1>2 DEF IInv, CallDone, CallLost
  <2>2. exact' => exact /\ guest' = c
    BY <1>2, Zenon DEF CallDone, CallLost, NoFault, Fault
  <2>3. ToSet(Tail(plan)) \subseteq ToSet(plan)
    BY <2>1, HeadAndTail DEF TypeOK
  <2>4. CASE plan' = Tail(plan) /\ stage' = stage /\ copy' = copy
    BY <2>2, <2>3, <2>4 DEF Kept, NetsPlanned, DisksPlanned, PCIsPlanned, Achieve, IInv
  <2>5. CASE plan' = None /\ stage' = After[stage] /\ ToSet(Tail(plan)) = {}
    <3>1. stage' = "disk"
      BY <2>5 DEF After
    <3>2. exact' => NetsAre(guest', copy.nets)
      BY <2>2, <2>5 DEF NetsAre
    <3> QED
      BY <2>5, <3>1, <3>2 DEF Kept, NetsPlanned, DisksPlanned, PCIsPlanned, Achieve
  <2> QED
    BY <2>1, <2>4, <2>5, OnwardTail
<1> QED
  BY <1>1, <1>2

\* The same of disks, where those that are to be resized have to be known as they are.
LEMMA DisksGoOn ==
    ASSUME IInv, plan # None, stage = "disk", NEW c, NEW a,
           CallDone(c, a) \/ CallFails(c, a) \/ CallLost,
           exact => \A d \in Devices :
                DiskDone(c, copy.disks, d) \/ \E x \in ToSet(Tail(plan)) : x.slot = d,
           exact => \A k \in DOMAIN copy.disks :
                Resize(copy.disks[k]) \in ToSet(Tail(plan)) => Located(c, view', copy.disks[k].device)
    PROVE  Kept /\ Achieve
<1>1. CASE CallFails(c, a)
  BY <1>1, Ended DEF CallFails, Idle, Fault
<1>2. CASE CallDone(c, a) \/ CallLost
  <2>1. TypeOK /\ Onward(Tail(plan))
    BY <1>2 DEF IInv, CallDone, CallLost
  <2>2. exact' => exact /\ guest' = c
    BY <1>2, Zenon DEF CallDone, CallLost, NoFault, Fault
  <2>3. ToSet(Tail(plan)) \subseteq ToSet(plan)
    BY <2>1, HeadAndTail DEF TypeOK
  <2>4. CASE plan' = Tail(plan) /\ stage' = stage /\ copy' = copy
    BY <2>2, <2>3, <2>4 DEF Kept, NetsPlanned, DisksPlanned, PCIsPlanned, Achieve, IInv
  <2>5. CASE plan' = None /\ stage' = After[stage] /\ ToSet(Tail(plan)) = {}
    <3>1. stage' = "pci"
      BY <2>5 DEF After
    <3>2. exact' => DisksAre(guest', copy.disks)
      BY <2>2, <2>5, DisksAreDone
    <3> QED
      BY <2>5, <3>1, <3>2 DEF Kept, NetsPlanned, DisksPlanned, PCIsPlanned, Achieve
  <2> QED
    BY <2>1, <2>4, <2>5, OnwardTail
<1> QED
  BY <1>1, <1>2

\* The same of PCI devices, where the start makes the guest run with what it has.
LEMMA PCIsGoOn ==
    ASSUME IInv, plan # None, stage = "pci", NEW c, NEW a,
           CallDone(c, a) \/ CallFails(c, a),
           Head(plan) = Start => a = c.pci,
           exact /\ copy.pcis # <<>> => \A n \in PCISlots :
                c.pci[n] = Wanted(copy.pcis, n) \/ SetPCI(copy.pcis, n) \in ToSet(Tail(plan))
    PROVE  Kept /\ Achieve
<1>1. CASE CallFails(c, a)
  BY <1>1, Ended DEF CallFails, Idle, Fault
<1>2. CASE CallDone(c, a)
  <2>1. TypeOK /\ Onward(Tail(plan))
    BY <1>2 DEF IInv, CallDone
  <2>2. (exact' => exact) /\ guest' = c /\ active' = a
    BY <1>2, Zenon DEF CallDone, NoFault
  <2>3. ToSet(Tail(plan)) \subseteq ToSet(plan)
    BY <2>1, HeadAndTail DEF TypeOK
  <2>4. CASE plan' = Tail(plan) /\ stage' = stage /\ copy' = copy /\ plan'[Len(plan')] = plan[Len(plan)]
    <3>1. /\ ToSet(plan) \subseteq {Stop, Start} \cup {SetPCI(copy.pcis, n) : n \in PCISlots}
          /\ plan[Len(plan)] = Start
      BY DEF IInv, PCIsPlanned
    <3>2. ToSet(plan') \subseteq {Stop, Start} \cup {SetPCI(copy'.pcis, n) : n \in PCISlots}
      BY <2>3, <2>4, <3>1
    <3>3. plan'[Len(plan')] = Start
      BY <2>4, <3>1, Zenon
    <3>4. exact' /\ copy'.pcis # <<>> => \A n \in PCISlots :
            guest'.pci[n] = Wanted(copy'.pcis, n) \/ SetPCI(copy'.pcis, n) \in ToSet(plan')
      BY <2>2, <2>4
    <3>5. PCIsPlanned'
      BY <3>2, <3>3, <3>4 DEF PCIsPlanned
    <3>6. NetsPlanned' /\ DisksPlanned' /\ Achieve
      BY <2>4 DEF NetsPlanned, DisksPlanned, Achieve
    <3> QED
      BY <3>5, <3>6 DEF Kept
  <2>5. CASE plan' = None /\ stage' = After[stage] /\ ToSet(Tail(plan)) = {} /\ plan[Len(plan)] = Head(plan)
    <3>1. stage' = "idle"
      BY <2>5 DEF After
    <3>2. Head(plan) = Start
      BY <2>5 DEF IInv, PCIsPlanned
    <3> QED
      BY <2>2, <2>5, <3>1, <3>2 DEF Kept, NetsPlanned, DisksPlanned, PCIsPlanned, Achieve
  <2> QED
    BY <2>1, <2>4, <2>5, OnwardTail
<1> QED
  BY <1>1, <1>2

\* The facts of a plan at hand, in the three stages.
LEMMA PlanSplit ==
    ASSUME IInv, plan # None
    PROVE  ToSet(plan) = {Head(plan)} \cup ToSet(Tail(plan))
BY HeadAndTail DEF IInv, TypeOK

\* A NIC that was set is as it should be, and the others are as they were.
LEMMA NetSet ==
    ASSUME IInv, plan # None, stage = "net", SetOption
    PROVE  Kept /\ Achieve
<1> DEFINE op == Head(plan)
           c == [guest EXCEPT ![op.kind][op.slot] = op.to]
<1>1. op.do = "set" /\ Call(c, active)
  BY DEF SetOption, Doing
<1>2. op \in Calls /\ guest \in Configs
  BY FirstCall DEF IInv, TypeOK
<1>3. PICK m \in NetSlots : op = SetNet(copy.nets, m)
  BY <1>1, Begins DEF Panic
<1>4. op.kind = "net" /\ op.slot = m /\ op.to = Wanted(copy.nets, m)
  BY <1>3 DEF SetNet, Set
<1> HIDE DEF op
<1>5. c.net = [guest.net EXCEPT ![op.slot] = op.to]
  BY <1>1, <1>2, <1>4, OptionSet
<1>6. guest.net \in [NetSlots -> Nets \cup {None}]
  BY <1>2 DEF Configs
<1> HIDE DEF c
<1>7. ASSUME exact, NEW n \in NetSlots, c.net[n] # Wanted(copy.nets, n)
      PROVE  SetNet(copy.nets, n) \in ToSet(Tail(plan))
  <2>1. n # m /\ c.net[n] = guest.net[n]
    BY <1>4, <1>5, <1>6, <1>7
  <2>2. SetNet(copy.nets, n) \in ToSet(plan)
    BY <1>7, <2>1 DEF IInv, NetsPlanned
  <2>3. SetNet(copy.nets, n).slot = n
    BY DEF SetNet, Set
  <2>4. SetNet(copy.nets, n) # op
    BY <1>4, <2>1, <2>3
  <2> QED
    BY <2>2, <2>4, PlanSplit DEF op
<1> QED
  BY <1>1, <1>7, CallEnds, NetsGoOn

LEMMA PCISet ==
    ASSUME IInv, plan # None, stage = "pci", SetOption
    PROVE  Kept /\ Achieve
<1> DEFINE op == Head(plan)
           c == [guest EXCEPT ![op.kind][op.slot] = op.to]
<1>1. op.do = "set" /\ Call(c, active)
  BY DEF SetOption, Doing
<1>2. op \in Calls /\ guest \in Configs
  BY FirstCall DEF IInv, TypeOK
<1>3. op # Start
  BY <1>1 DEF Start
<1>4. PICK m \in PCISlots : op = SetPCI(copy.pcis, m)
  BY <1>1, Begins DEF Stop, Start
<1>5. op.kind = "pci" /\ op.slot = m /\ op.to = Wanted(copy.pcis, m)
  BY <1>4 DEF SetPCI, Set
<1> HIDE DEF op
<1>6. c.pci = [guest.pci EXCEPT ![op.slot] = op.to]
  BY <1>1, <1>2, <1>5, OptionSet
<1>7. guest.pci \in [PCISlots -> PCIs \cup {None}]
  BY <1>2 DEF Configs
<1> HIDE DEF c
<1>8. ASSUME exact, copy.pcis # <<>>, NEW n \in PCISlots, c.pci[n] # Wanted(copy.pcis, n)
      PROVE  SetPCI(copy.pcis, n) \in ToSet(Tail(plan))
  <2>1. n # m /\ c.pci[n] = guest.pci[n]
    BY <1>5, <1>6, <1>7, <1>8
  <2>2. SetPCI(copy.pcis, n) \in ToSet(plan)
    BY <1>8, <2>1 DEF IInv, PCIsPlanned
  <2>3. SetPCI(copy.pcis, n).slot = n
    BY DEF SetPCI, Set
  <2>4. SetPCI(copy.pcis, n) # op
    BY <1>5, <2>1, <2>3
  <2> QED
    BY <2>2, <2>4, PlanSplit DEF op
<1>9. Head(plan) # Start
  BY <1>3 DEF op
<1> QED
  BY <1>1, <1>8, <1>9, CallEnds, PCIsGoOn

\* After a call for device d that leaves it as the spec has it, the others have what they need.
LEMMA OthersWait ==
    ASSUME IInv, plan # None, stage = "disk", exact, NEW c, NEW d, Head(plan).slot = d,
           \A e \in Devices \ {d} : c.disk[e] = guest.disk[e], DiskDone(c, copy.disks, d)
    PROVE  \A e \in Devices :
                DiskDone(c, copy.disks, e) \/ \E x \in ToSet(Tail(plan)) : x.slot = e
<1> SUFFICES ASSUME NEW e \in Devices, e # d, ~DiskDone(c, copy.disks, e)
             PROVE  \E x \in ToSet(Tail(plan)) : x.slot = e
  OBVIOUS
<1>1. ~DiskDone(guest, copy.disks, e)
  BY DEF DiskDone
<1>2. PICK x \in ToSet(plan) : x.slot = e
  BY <1>1 DEF IInv, DisksPlanned
<1> QED
  BY <1>2, PlanSplit

\* The disks that are resized later are still known as they are.
LEMMA StillLocated ==
    ASSUME IInv, plan # None, stage = "disk", exact, NEW c, NEW d, Head(plan).slot = d, view' = view,
           \A e \in Devices \ {d} : c.disk[e] = guest.disk[e],
           Head(plan).do = "resize" => c.disk[d] # None /\ c.disk[d].storage = guest.disk[d].storage
    PROVE  \A k \in DOMAIN copy.disks :
                Resize(copy.disks[k]) \in ToSet(Tail(plan)) => Located(c, view', copy.disks[k].device)
<1> SUFFICES ASSUME NEW k \in DOMAIN copy.disks, Resize(copy.disks[k]) \in ToSet(Tail(plan))
             PROVE  Located(c, view', copy.disks[k].device)
  OBVIOUS
<1> DEFINE r == Resize(copy.disks[k])
<1>1. IsDisks(copy.disks)
  BY FirstCall, SpecsFit DEF IInv, SpecIsFit
<1>2. r.slot = copy.disks[k].device /\ copy.disks[k].device \in Devices
  BY <1>1, DiskCallsAreCalls
<1>3. r \in ToSet(plan) /\ Head(plan) \in ToSet(plan)
  BY PlanSplit
<1>4. Located(guest, view, copy.disks[k].device)
  BY <1>3 DEF IInv, DisksPlanned
<1>5. CASE copy.disks[k].device # d
  BY <1>2, <1>4, <1>5 DEF Located
<1>6. CASE copy.disks[k].device = d
  <2>1. r = Head(plan)
    <3>1. \A x, y \in ToSet(plan) : x.slot = y.slot => x = y
      BY DEF IInv, DisksPlanned
    <3> HIDE DEF r
    <3> QED
      BY <1>2, <1>3, <1>6, <3>1
  <2>2. Head(plan).do = "resize"
    BY <2>1 DEF Resize
  <2> QED
    BY <1>4, <1>6, <2>2 DEF Located
<1> QED
  BY <1>5, <1>6

\* A disk that was made has the size of the spec, in gigabytes again.
LEMMA DiskSet ==
    ASSUME IInv, plan # None, stage = "disk", SetOption
    PROVE  Kept /\ Achieve
<1> DEFINE op == Head(plan)
           c == [guest EXCEPT ![op.kind][op.slot] = op.to]
<1>1. op.do = "set" /\ Call(c, active) /\ view' = view
  BY DEF SetOption, Doing
<1>2. op \in Calls /\ guest \in Configs /\ copy \in Specs
  BY FirstCall DEF IInv, TypeOK
<1>3. PICK k \in DOMAIN copy.disks : op = MakeDisk(copy.disks[k])
  BY <1>1, Begins DEF DiskCalls, Resize, Detach
<1>4. IsDisks(copy.disks)
  BY <1>2, SpecsFit DEF SpecIsFit
<1> DEFINE disk == copy.disks[k]
           d == disk.device
<1>5. disk \in Disks /\ d \in Devices /\ disk.size \in Nat
  BY <1>4, DiskCallsAreCalls DEF Disks
<1>6. op.kind = "disk" /\ op.slot = d /\ op.to = Volume(disk)
  BY <1>3 DEF MakeDisk, Set
<1>7. op.to \in Volumes
  <2>1. disk.storage \in Storages /\ disk.size \in Nat \ {0} /\ Unit \in Nat \ {0}
    BY <1>5, Constants DEF Disks
  <2>2. disk.size * Unit \in Nat \ {0}
    BY <2>1
  <2> QED
    BY <1>6, <2>1, <2>2 DEF Volume, Volumes
<1> HIDE DEF op, disk
<1>8. c.disk = [guest.disk EXCEPT ![d] = op.to]
  <2>1. c.disk = [guest.disk EXCEPT ![op.slot] = op.to]
    BY <1>1, <1>2, <1>6, OptionSet
  <2> QED
    BY <1>6, <2>1
<1>9. guest.disk \in [Devices -> Volumes \cup {None}]
  BY <1>2 DEF Configs
<1> HIDE DEF c
<1>10. c.disk[d] = Volume(disk) /\ \A e \in Devices \ {d} : c.disk[e] = guest.disk[e]
  BY <1>5, <1>6, <1>8, <1>9
<1>11. DiskIs(c.disk[d], disk)
  <2>1. (disk.size * Unit) \div Unit = disk.size
    BY <1>5, Constants, Divided
  <2>2. Volume(disk) # None
    BY <1>6, <1>7, Constants
  <2> QED
    BY <1>10, <2>1, <2>2 DEF DiskIs, Volume
<1>12. DiskDone(c, copy.disks, d)
  BY <1>11 DEF DiskDone, Named, disk
<1>13. exact => \A e \in Devices : DiskDone(c, copy.disks, e) \/ \E x \in ToSet(Tail(plan)) : x.slot = e
  BY <1>6, <1>10, <1>12, OthersWait DEF op
<1>14. exact => \A j \in DOMAIN copy.disks :
         Resize(copy.disks[j]) \in ToSet(Tail(plan)) => Located(c, view', copy.disks[j].device)
  <2>1. Head(plan).slot = d /\ Head(plan).do # "resize"
    BY <1>1, <1>6 DEF op
  <2> QED
    BY <1>1, <1>10, <2>1, StillLocated
<1>15. CallDone(c, active) \/ CallFails(c, active)
  BY <1>1, CallEnds
<1> QED
  BY <1>13, <1>14, <1>15, DisksGoOn

\* A disk that is taken away is none that the spec names.
LEMMA DiskGone ==
    ASSUME IInv, plan # None, stage = "disk", DetachDisk
    PROVE  Kept /\ Achieve
<1> DEFINE d == Head(plan).slot
           c == [guest EXCEPT !.disk[d] = None]
<1>1. Head(plan).do = "detach" /\ Unawaited(c) /\ view' = view
  BY DEF DetachDisk, Doing
<1>2. PICK e \in Devices : Head(plan) = Detach(e) /\ ~Named(copy.disks, e)
  BY <1>1, Begins DEF DiskCalls, MakeDisk, Set, Resize
<1>3. d = e
  BY <1>2 DEF Detach
<1>4. guest \in Configs
  BY DEF IInv, TypeOK
<1> HIDE DEF d
<1>5. c.disk = [guest.disk EXCEPT ![d] = None] /\ guest.disk \in [Devices -> Volumes \cup {None}]
  BY <1>3, <1>4, DiskDetached DEF Configs
<1> HIDE DEF c
<1>6. c.disk[d] = None /\ \A f \in Devices \ {d} : c.disk[f] = guest.disk[f]
  BY <1>3, <1>5
<1>7. DiskDone(c, copy.disks, d)
  BY <1>2, <1>3, <1>6 DEF DiskDone
<1>8. Head(plan).slot = d /\ Head(plan).do # "resize"
  BY <1>1 DEF d
<1>9. exact => \A f \in Devices : DiskDone(c, copy.disks, f) \/ \E x \in ToSet(Tail(plan)) : x.slot = f
  BY <1>6, <1>7, <1>8, OthersWait
<1>10. exact => \A k \in DOMAIN copy.disks :
         Resize(copy.disks[k]) \in ToSet(Tail(plan)) => Located(c, view', copy.disks[k].device)
  BY <1>1, <1>6, <1>8, StillLocated
<1>11. CallDone(c, active) \/ CallFails(c, active) \/ CallLost
  BY <1>1, UnawaitedEnds
<1> QED
  BY <1>9, <1>10, <1>11, DisksGoOn

\* A disk that was resized has the size of the spec, and one of another storage is left alone,
\* which the cached configuration tells as well as the guest's.
LEMMA DiskGrown ==
    ASSUME IInv, plan # None, stage = "disk", ResizeDisk
    PROVE  Kept /\ Achieve
<1> DEFINE d == Head(plan).slot
           to == Head(plan).to
           size == to.size * Unit
           grown == [guest EXCEPT !.disk[d].size = size]
<1>1. Head(plan).do = "resize" /\ view' = View
  BY DEF ResizeDisk, Doing
<1>2. PICK k \in DOMAIN copy.disks : Head(plan) = Resize(copy.disks[k])
  BY <1>1, Begins DEF DiskCalls, MakeDisk, Set, Detach
<1>3. d = copy.disks[k].device /\ to = copy.disks[k]
  BY <1>2 DEF Resize
<1>4. guest \in Configs /\ copy \in Specs /\ TypeOK
  BY FirstCall DEF IInv, TypeOK
<1>5. to \in Disks /\ d \in Devices
  <2>1. IsDisks(copy.disks)
    BY <1>4, SpecsFit DEF SpecIsFit
  <2> QED
    BY <1>3, <2>1, DiskCallsAreCalls
<1>6. size \in Nat \ {0} /\ size \div Unit = to.size
  <2>1. to.size \in Nat \ {0} /\ Unit \in Nat \ {0}
    BY <1>5, Constants DEF Disks
  <2> QED
    BY <2>1, Divided
<1>7. exact => Located(guest, view, d)
  <2>1. Head(plan) \in ToSet(plan)
    BY PlanSplit
  <2> QED
    BY <1>2, <1>3, <2>1 DEF IInv, DisksPlanned
<1>8. exact => view' = view
  BY <1>1, <1>4, <1>7, Viewed DEF Located
<1>9. ASSUME NEW c, NEW a, CallDone(c, a) \/ CallFails(c, a) \/ CallLost,
             \A e \in Devices \ {d} : c.disk[e] = guest.disk[e],
             exact => DiskIs(c.disk[d], to) /\ c.disk[d] # None
                      /\ c.disk[d].storage = guest.disk[d].storage
      PROVE  Kept /\ Achieve
  <2>1. exact => DiskDone(c, copy.disks, d)
    BY <1>3, <1>9 DEF DiskDone, Named
  <2>2. exact => \A e \in Devices : DiskDone(c, copy.disks, e) \/ \E x \in ToSet(Tail(plan)) : x.slot = e
    BY <1>9, <2>1, OthersWait
  <2>3. exact => \A j \in DOMAIN copy.disks :
          Resize(copy.disks[j]) \in ToSet(Tail(plan)) => Located(c, view', copy.disks[j].device)
    BY <1>8, <1>9, StillLocated
  <2> QED
    BY <1>9, <2>2, <2>3, DisksGoOn
<1>10. CASE /\ View.disk[d] # None /\ View.disk[d].storage # to.storage
            /\ Onward(Tail(plan)) /\ NoFault /\ UNCHANGED <<guest, active>>
  <2>1. CallDone(guest, active)
    BY <1>10 DEF CallDone
  <2>2. exact => /\ DiskIs(guest.disk[d], to) /\ guest.disk[d] # None
                 /\ guest.disk[d].storage = guest.disk[d].storage
    BY <1>1, <1>7, <1>8, <1>10 DEF Located, DiskIs
  <2> HIDE DEF d, to
  <2> QED
    BY <1>9, <2>1, <2>2
<1>11. CASE Refused
  BY <1>11, Ended DEF Refused, Requeue, Idle
<1>12. CASE guest.disk[d] # None /\ Unawaited(grown)
  <2> HIDE DEF d, to, size
  <2>1. /\ grown.disk[d] # None
        /\ grown.disk[d].storage = guest.disk[d].storage /\ grown.disk[d].size = size
        /\ \A e \in Devices \ {d} : grown.disk[e] = guest.disk[e]
    <3>1. guest \in Configs /\ d \in Devices /\ size \in Nat \ {0} /\ guest.disk[d] # None
      BY <1>4, <1>5, <1>6, <1>12
    <3> DEFINE volume == [storage |-> guest.disk[d].storage, size |-> size]
    <3>2. grown.disk = [guest.disk EXCEPT ![d] = volume]
      BY <3>1, DiskResized, Zenon
    <3>3. volume # None
      BY <3>1, DiskResized, Zenon
    <3>4. guest.disk \in [Devices -> Volumes \cup {None}]
      BY <3>1 DEF Configs
    <3>5. volume.storage = guest.disk[d].storage /\ volume.size = size
      OBVIOUS
    <3> HIDE DEF grown, volume
    <3> QED
      BY <3>1, <3>2, <3>3, <3>4, <3>5
  <2> HIDE DEF grown
  <2>2. DiskIs(grown.disk[d], to)
    BY <1>6, <2>1 DEF DiskIs
  <2>3. CallDone(grown, active) \/ CallFails(grown, active) \/ CallLost
    BY <1>12, UnawaitedEnds
  <2> QED
    BY <1>9, <2>1, <2>2, <2>3
<1> QED
  BY <1>10, <1>11, <1>12 DEF ResizeDisk

\* A stage that reads the configuration plans what is missing in it, and goes on when that is
\* nothing.
LEMMA NetsStart ==
    ASSUME IInv, PlanNets(NetOrders(View))
    PROVE  Kept /\ Achieve
<1>1. /\ stage = "net" /\ plan = None /\ TypeOK
      /\ \E order \in NetOrders(View) :
            /\ \E p \in NetPlans(copy.nets, ParsedNets(View, order)) : Planned(p)
            /\ exact' = (View.net = guest.net /\ \A k \in DOMAIN order : order[k] = k - 1)
  BY DEF PlanNets, IInv
<1>2. PICK order \in NetOrders(View) :
        /\ \E p \in NetPlans(copy.nets, ParsedNets(View, order)) : Planned(p)
        /\ exact' = (View.net = guest.net /\ \A k \in DOMAIN order : order[k] = k - 1)
  BY <1>1, Zenon
<1>3. PICK p \in NetPlans(copy.nets, ParsedNets(View, order)) : Planned(p)
  BY <1>2
<1>4. exact' => View.net = guest.net /\ InOrder(order)
  BY <1>2, Zenon DEF InOrder
<1>5. /\ ToSet(p) \subseteq {Panic} \cup {SetNet(copy.nets, n) : n \in NetSlots}
      /\ InOrder(order) => \A n \in NetSlots :
            View.net[n] = Wanted(copy.nets, n) \/ SetNet(copy.nets, n) \in ToSet(p)
  BY <1>1, NetsRead
<1>6. guest' = guest
  BY <1>3 DEF Planned
<1>7. exact' => \A n \in NetSlots :
        guest'.net[n] = Wanted(copy.nets, n) \/ SetNet(copy.nets, n) \in ToSet(p)
  BY <1>4, <1>5, <1>6
<1>8. CASE p # <<>>
  <2>1. plan' = p /\ stage' = "net" /\ copy' = copy
    BY <1>1, <1>3, <1>8 DEF Planned, Onward
  <2> QED
    BY <1>5, <1>7, <2>1 DEF Kept, NetsPlanned, DisksPlanned, PCIsPlanned, Achieve
<1>9. CASE p = <<>>
  <2>1. plan' = None /\ stage' = "disk"
    BY <1>1, <1>3, <1>9 DEF Planned, Onward, After
  <2>2. ToSet(p) = {}
    BY <1>9 DEF ToSet
  <2> QED
    BY <1>1, <1>7, <2>1, <2>2 DEF Kept, NetsPlanned, DisksPlanned, PCIsPlanned, Achieve, NetsAre
<1> QED
  BY <1>8, <1>9

LEMMA DisksStart ==
    ASSUME IInv, PlanDisks
    PROVE  Kept /\ Achieve
<1>1. stage = "disk" /\ plan = None /\ TypeOK
  BY DEF PlanDisks, IInv
<1>2. PICK p \in DiskPlans(copy.disks, ParsedDisks(View)) : Planned(p)
  BY DEF PlanDisks
<1>3. exact' => View.disk = guest.disk
  BY Zenon DEF PlanDisks
<1>4. /\ ToSet(p) \subseteq DiskCalls(copy.disks)
      /\ \A x, y \in ToSet(p) : x.slot = y.slot => x = y
      /\ \A d \in Devices : DiskDone(View, copy.disks, d) \/ \E x \in ToSet(p) : x.slot = d
      /\ \A k \in DOMAIN copy.disks :
            Resize(copy.disks[k]) \in ToSet(p) => View.disk[copy.disks[k].device] # None
  BY <1>1, <1>2, DisksRead
<1>5. guest' = guest /\ view' = View /\ View # None
  BY <1>1, <1>2, Viewed DEF Planned
<1>6. exact' => \A d \in Devices :
        DiskDone(guest', copy.disks, d) \/ \E x \in ToSet(p) : x.slot = d
  <2>1. ASSUME exact', NEW d \in Devices, DiskDone(View, copy.disks, d)
        PROVE  DiskDone(guest', copy.disks, d)
    BY <1>3, <1>5, <2>1 DEF DiskDone
  <2> QED
    BY <1>4, <2>1
<1>7. exact' => \A k \in DOMAIN copy.disks :
        Resize(copy.disks[k]) \in ToSet(p) => Located(guest', view', copy.disks[k].device)
  BY <1>3, <1>4, <1>5 DEF Located
<1>8. CASE p # <<>>
  <2>1. plan' = p /\ stage' = "disk" /\ copy' = copy
    BY <1>1, <1>2, <1>8 DEF Planned, Onward
  <2> QED
    <3>1. NetsPlanned' /\ PCIsPlanned' /\ Achieve
      BY <1>1, <2>1 DEF NetsPlanned, PCIsPlanned, Achieve
    <3>2. /\ ToSet(plan') \subseteq DiskCalls(copy'.disks)
          /\ \A x, y \in ToSet(plan') : x.slot = y.slot => x = y
      BY <1>4, <2>1
    <3>3. exact' => \A d \in Devices :
            DiskDone(guest', copy'.disks, d) \/ \E x \in ToSet(plan') : x.slot = d
      BY <1>6, <2>1
    <3>4. exact' => \A k \in DOMAIN copy'.disks :
            Resize(copy'.disks[k]) \in ToSet(plan') => Located(guest', view', copy'.disks[k].device)
      BY <1>7, <2>1
    <3> QED
      BY <3>1, <3>2, <3>3, <3>4 DEF Kept, DisksPlanned
<1>9. CASE p = <<>>
  <2>1. plan' = None /\ stage' = "pci"
    BY <1>1, <1>2, <1>9 DEF Planned, Onward, After
  <2>2. ToSet(p) = {}
    BY <1>9 DEF ToSet
  <2>3. exact' => DisksAre(guest', copy.disks)
    BY <1>6, <2>2, DisksAreDone
  <2> QED
    BY <1>1, <2>1, <2>3 DEF Kept, NetsPlanned, DisksPlanned, PCIsPlanned, Achieve
<1> QED
  BY <1>8, <1>9

LEMMA PCIsStart ==
    ASSUME IInv, PlanPCIs
    PROVE  Kept /\ Achieve
<1>1. stage = "pci" /\ plan = None /\ TypeOK
  BY DEF PlanPCIs, IInv
<1>2. PICK changes \in PCIChanges(copy.pcis, View) : Planned(PCIPlan(changes))
  BY DEF PlanPCIs
<1>3. exact' => View.pci = guest.pci
  BY Zenon DEF PlanPCIs
<1> DEFINE p == PCIPlan(changes)
<1>4. /\ ToSet(p) \subseteq {Stop, Start} \cup {SetPCI(copy.pcis, n) : n \in PCISlots}
      /\ p # <<>> => p[Len(p)] = Start
      /\ copy.pcis # <<>> => \A n \in PCISlots :
            View.pci[n] = Wanted(copy.pcis, n) \/ SetPCI(copy.pcis, n) \in ToSet(p)
  BY <1>1, <1>2, PCIsRead
<1>5. guest' = guest /\ Onward(p)
  BY <1>2 DEF Planned
<1> HIDE DEF p
<1>6. exact' /\ copy.pcis # <<>> => \A n \in PCISlots :
        guest'.pci[n] = Wanted(copy.pcis, n) \/ SetPCI(copy.pcis, n) \in ToSet(p)
  BY <1>3, <1>4, <1>5
<1>7. CASE p # <<>>
  <2>1. plan' = p /\ stage' = "pci" /\ copy' = copy
    BY <1>1, <1>5, <1>7 DEF Onward
  <2> QED
    <3>1. NetsPlanned' /\ DisksPlanned' /\ Achieve
      BY <1>1, <2>1 DEF NetsPlanned, DisksPlanned, Achieve
    <3>2. /\ ToSet(plan') \subseteq {Stop, Start} \cup {SetPCI(copy'.pcis, n) : n \in PCISlots}
          /\ plan'[Len(plan')] = Start
      BY <1>4, <1>7, <2>1
    <3>3. exact' /\ copy'.pcis # <<>> => \A n \in PCISlots :
            guest'.pci[n] = Wanted(copy'.pcis, n) \/ SetPCI(copy'.pcis, n) \in ToSet(plan')
      BY <1>6, <2>1
    <3> QED
      BY <3>1, <3>2, <3>3 DEF Kept, PCIsPlanned
<1>8. CASE p = <<>>
  <2>1. plan' = None /\ stage' = "idle"
    BY <1>1, <1>5, <1>8 DEF Onward, After
  <2>2. ToSet(p) = {}
    BY <1>8 DEF ToSet
  <2> QED
    BY <1>1, <1>6, <2>1, <2>2 DEF Kept, NetsPlanned, DisksPlanned, PCIsPlanned, Achieve
<1> QED
  BY <1>7, <1>8

LEMMA StepKept ==
    ASSUME IInv, [Next]_vars
    PROVE  Kept /\ (Achieve \/ UNCHANGED vars)
<1>1. CASE UserEdit \/ UNCHANGED vars
  BY <1>1 DEF UserEdit, vars, IInv, Kept, NetsPlanned, DisksPlanned, PCIsPlanned, Achieve
<1>2. CASE Tamper
  BY <1>2 DEF Tamper, Fault, IInv, Kept, NetsPlanned, DisksPlanned, PCIsPlanned, Achieve
<1>3. CASE Poll
  <2>1. /\ UNCHANGED <<stage, copy, plan, guest, active, exact>> /\ view' = guest /\ guest # None
    BY <1>3, Constants DEF Poll, IInv, TypeOK
  <2>2. \A d : Located(guest, view, d) => Located(guest', view', d)
    BY <2>1 DEF Located
  <2>3. DisksPlanned'
    BY <2>1, <2>2 DEF IInv, DisksPlanned
  <2> QED
    BY <2>1, <2>3 DEF IInv, Kept, NetsPlanned, PCIsPlanned, Achieve
<1>4. CASE Get
  BY <1>4 DEF Get, Kept, NetsPlanned, DisksPlanned, PCIsPlanned, Achieve
<1>5. CASE PlanNets(NetOrders(View)) \/ PlanDisks \/ PlanPCIs
  BY <1>5, NetsStart, DisksStart, PCIsStart
<1>6. CASE SetOption
  <2>1. plan # None
    BY <1>6 DEF SetOption, Doing
  <2> QED
    BY <1>6, <2>1, Begins, NetSet, DiskSet, PCISet
<1>7. CASE DetachDisk
  <2>1. plan # None /\ Head(plan).do = "detach"
    BY <1>7 DEF DetachDisk, Doing
  <2>2. stage = "disk"
    BY <2>1, Begins, Kinds
  <2> QED
    BY <1>7, <2>1, <2>2, DiskGone
<1>8. CASE ResizeDisk
  <2>1. plan # None /\ Head(plan).do = "resize"
    BY <1>8 DEF ResizeDisk, Doing
  <2>2. stage = "disk"
    BY <2>1, Begins, Kinds
  <2> QED
    BY <1>8, <2>1, <2>2, DiskGrown
<1>9. CASE PanicInLoop
  <2>1. plan # None /\ Head(plan).do = "panic"
    BY <1>9 DEF PanicInLoop, Doing
  <2>2. stage # "pci"
    BY <2>1, Kinds
  <2> QED
    BY <1>9, <2>2, Ended DEF PanicInLoop, Refused, Requeue, Idle
<1>10. CASE StopVM
  <2>1. plan # None /\ Head(plan).do = "stop" /\ Call(guest, None)
    BY <1>10 DEF StopVM, Doing
  <2>2. stage = "pci" /\ Head(plan) # Start
    BY <2>1, Begins, Kinds DEF Start
  <2>3. \A n \in PCISlots : SetPCI(copy.pcis, n) # Head(plan)
    BY <2>1 DEF SetPCI, Set
  <2>4. exact /\ copy.pcis # <<>> => \A n \in PCISlots :
          guest.pci[n] = Wanted(copy.pcis, n) \/ SetPCI(copy.pcis, n) \in ToSet(Tail(plan))
    BY <2>1, <2>2, <2>3, PlanSplit DEF IInv, PCIsPlanned
  <2> QED
    BY <2>1, <2>2, <2>4, CallEnds, PCIsGoOn
<1>11. CASE StartVM
  <2>1. plan # None /\ Head(plan).do = "start" /\ Call(guest, guest.pci)
    BY <1>11 DEF StartVM, Doing
  <2>2. stage = "pci"
    BY <2>1, Begins, Kinds
  <2>3. \A n \in PCISlots : SetPCI(copy.pcis, n) # Head(plan)
    BY <2>1 DEF SetPCI, Set
  <2>4. exact /\ copy.pcis # <<>> => \A n \in PCISlots :
          guest.pci[n] = Wanted(copy.pcis, n) \/ SetPCI(copy.pcis, n) \in ToSet(Tail(plan))
    BY <2>1, <2>2, <2>3, PlanSplit DEF IInv, PCIsPlanned
  <2> QED
    BY <2>1, <2>2, <2>4, CallEnds, PCIsGoOn
<1>12. CASE ReconcileError \/ Restart
  BY <1>12, Ended DEF ReconcileError, Restart, Requeue, Idle, Fault
<1> QED
  BY <1>1, <1>2, <1>3, <1>4, <1>5, <1>6, <1>7, <1>8, <1>9, <1>10, <1>11, <1>12 DEF Next, Reconcile

\* What is planned is what is missing: while nothing fails and nobody meddles, every device of the
\* stage is as the spec wants it or has a call in the plan that makes it so, and no two calls are
\* about one disk.
THEOREM PlansFit == Spec => []IInv
<1>1. Init => IInv
  BY TypeInitially DEF Init, IInv, NetsPlanned, DisksPlanned, PCIsPlanned
<1>2. IInv /\ [Next]_vars => IInv'
  BY TypeKept, StepKept DEF IInv, Kept
<1> QED
  BY <1>1, <1>2, PTL DEF Spec

\* A stage that planned from the devices as they are, and was left alone, ends with the devices of
\* the spec, and a guest that was given other PCI devices ends up running with them.
THEOREM StagesEndAsWanted == Spec => StagesAchieve
<1>1. IInv /\ [Next]_vars => [Achieve]_vars
  BY StepKept
<1>2. Spec => []IInv
  BY PlansFit
<1> QED
  BY <1>1, <1>2, PTL DEF Spec, StagesAchieve, Achieve
=============================================================================
