-------------------------- MODULE GuestNameProofs --------------------------
(* For any number of resources, names and events in flight: as long as spec.name is never      *)
(* changed, no key is used twice and no two creations share a second, a reconcile that works   *)
(* on a guest belongs to the oldest live claim on it of its kind.                              *)
EXTENDS GuestName, TLAPS

\* x is an object of the same creation and with the same claim as y.
Same(x, y) == x.created = y.created /\ x.name = y.name

\* Every state of every log is of the past, and a key holds one object over time.
LogStamps ==
    \A k \in Kinds, r \in Resources : \A i \in 1..Len(log[k]) :
        log[k][i][r] # Absent =>
            /\ log[k][i][r].created < now /\ r \in born
            /\ \A j \in 1..Len(log[k]) : log[k][j][r] # Absent => Same(log[k][i][r], log[k][j][r])

\* The watch orders same-kind claims: a cache that holds r holds every live o that is not
\* younger, and goes on doing so.
LogOrder ==
    \A r, o \in Resources : Kind[o] = Kind[r] /\ Api(o) # Absent =>
        \A i \in 1..Len(log[Kind[r]]) :
            log[Kind[r]][i][r] # Absent /\ Api(o).created <= log[Kind[r]][i][r].created =>
                \A j \in i..Len(log[Kind[r]]) : log[Kind[r]][j][o] # Absent

OwnedStages == {"clear", "owned", "finalizer", "operate", "ensure", "deleting", "delete", "unfinalize"}

\* A reconcile of r in stage s with copy x: it knows an object that existed; before the claim
\* its cache holds every live rival that is not younger; after the claim it is the oldest.
CopyInv(r, s, x) ==
    s # "idle" =>
        /\ x \in Objects /\ x.created < now /\ r \in born
        /\ \A i \in 1..Len(log[Kind[r]]) :
              log[Kind[r]][i][r] # Absent => Same(x, log[Kind[r]][i][r])
        /\ s = "claim" => \A o \in Resources :
              Kind[o] = Kind[r] /\ Api(o) # Absent /\ Api(o).created <= x.created =>
                  \A i \in 1..Len(log[Kind[r]]) : log[Kind[r]][i][o] # Absent
        /\ s \in OwnedStages => \A o \in Resources \ {r} :
              Kind[o] = Kind[r] /\ Api(o) # Absent /\ Guest(o, Api(o).name) = Guest(r, x.name) =>
                  Before(r, x, o, Api(o))

\* Nobody asks for a rename.
OnlyCreates == \A q \in requests : q.op = "create"

IInv == TypeOK /\ OnlyCreates /\ LogStamps /\ LogOrder /\ \A r \in Resources : CopyInv(r, pc[r], obj[r])

------------------------------------------------------------------------------
(* How the three kinds of step move the logs *)

\* A write to a live object that keeps its creation and its claim, or that removes it.
Edit(r, x) ==
    /\ Store(r, x)
    /\ x # Absent => Api(r) # Absent /\ Same(x, Api(r))
    /\ UNCHANGED <<now, born>>

\* The first object under key r, stamped with the current second.
Creation(r, x) ==
    /\ Store(r, x)
    /\ r \notin born /\ x # Absent /\ x.created = now
    /\ now' = now + 1 /\ born' = born \cup {r}

\* What Store does to the log of the kind: one more state, the old ones in place.
LEMMA StoreShape ==
    ASSUME TypeOK, NEW r \in Resources, NEW x \in Objects \cup {Absent}, Store(r, x)
    PROVE  /\ log' \in [Kinds -> Seq(Snapshots)]
           /\ \A k \in Kinds \ {Kind[r]} : log'[k] = log[k]
           /\ Len(log'[Kind[r]]) = Len(log[Kind[r]]) + 1
           /\ \A i \in 1..Len(log[Kind[r]]) : log'[Kind[r]][i] = log[Kind[r]][i]
           /\ \A o \in Resources : log'[Kind[r]][Len(log[Kind[r]]) + 1][o] =
                  IF o = r THEN x ELSE log[Kind[r]][Len(log[Kind[r]])][o]
<1> DEFINE K == Kind[r]
           S == log[K]
           N == [S[Len(S)] EXCEPT ![r] = x]
<1>1. K \in Kinds /\ S \in Seq(Snapshots) /\ Len(S) \in Nat /\ Len(S) >= 1
  BY GuestNameAssumption DEF TypeOK
<1>2. S[Len(S)] \in Snapshots
  BY <1>1
<1>3. N \in Snapshots /\ \A o \in Resources : N[o] = IF o = r THEN x ELSE S[Len(S)][o]
  BY <1>2 DEF Snapshots
<1>4. log' = [log EXCEPT ![K] = Append(S, N)]
  BY <1>1 DEF Store, TypeOK
<1>5. log'[K] = Append(S, N) /\ \A k \in Kinds \ {K} : log'[k] = log[k]
  BY <1>1, <1>4 DEF TypeOK
<1>6. Append(S, N) \in Seq(Snapshots) /\ Len(Append(S, N)) = Len(S) + 1
      /\ Append(S, N)[Len(S) + 1] = N
      /\ \A i \in 1..Len(S) : Append(S, N)[i] = S[i]
  BY <1>1, <1>3
<1>7. log' \in [Kinds -> Seq(Snapshots)]
  BY <1>1, <1>4, <1>6 DEF TypeOK
<1> QED
  BY <1>3, <1>5, <1>6, <1>7

\* What a delivered event does: the oldest state of the kind's log is dropped.
LEMMA DeliverShape ==
    ASSUME TypeOK, NEW k \in Kinds, Deliver(k)
    PROVE  /\ log' \in [Kinds -> Seq(Snapshots)]
           /\ \A h \in Kinds \ {k} : log'[h] = log[h]
           /\ Len(log[k]) > 1 /\ Len(log'[k]) = Len(log[k]) - 1
           /\ \A i \in 1..Len(log'[k]) : log'[k][i] = log[k][i + 1]
<1>1. log[k] \in Seq(Snapshots) /\ Len(log[k]) \in Nat /\ Len(log[k]) > 1 /\ log[k] # <<>>
  BY DEF TypeOK, Deliver
<1>2. log' = [log EXCEPT ![k] = Tail(log[k])]
  BY DEF TypeOK, Deliver
<1>3. Tail(log[k]) \in Seq(Snapshots) /\ Len(Tail(log[k])) = Len(log[k]) - 1
      /\ \A i \in 1..Len(Tail(log[k])) : Tail(log[k])[i] = log[k][i + 1]
  BY <1>1
<1> QED
  BY <1>1, <1>2, <1>3 DEF TypeOK

\* Every state of a log (the API server's object history) holds an object or nothing under
\* each key, and a cache and the API server are states of the log.
LEMMA ObjectTypes ==
    ASSUME TypeOK, NEW r \in Resources
    PROVE  /\ Kind[r] \in Kinds /\ Len(log[Kind[r]]) \in Nat /\ Len(log[Kind[r]]) >= 1
           /\ Api(r) \in Objects \cup {Absent}
           /\ Cached(r) \in Objects \cup {Absent}
           /\ \A k \in Kinds : \A i \in 1..Len(log[k]) : log[k][i][r] \in Objects \cup {Absent}
<1>1. \A k \in Kinds : log[k] \in Seq(Snapshots) /\ Len(log[k]) \in Nat /\ Len(log[k]) >= 1
  BY DEF TypeOK
<1>2. \A k \in Kinds : \A i \in 1..Len(log[k]) : log[k][i] \in Snapshots
  BY <1>1
<1>3. Kind[r] \in Kinds
  BY GuestNameAssumption
<1> QED
  BY <1>1, <1>2, <1>3 DEF Api, Cached, Snapshots

\* A write changes what the API server holds under its key, and under no other.
LEMMA StoreApi ==
    ASSUME TypeOK, NEW r \in Resources, NEW x \in Objects \cup {Absent}, Store(r, x)
    PROVE  Api(r)' = x /\ \A o \in Resources \ {r} : Api(o)' = Api(o)
<1>1. /\ Kind[r] \in Kinds /\ Len(log'[Kind[r]]) = Len(log[Kind[r]]) + 1
      /\ \A k \in Kinds \ {Kind[r]} : log'[k] = log[k]
      /\ \A o \in Resources : log'[Kind[r]][Len(log[Kind[r]]) + 1][o] =
             IF o = r THEN x ELSE log[Kind[r]][Len(log[Kind[r]])][o]
  BY StoreShape, ObjectTypes
<1>2. Api(r)' = x
  BY <1>1 DEF Api
<1>3. ASSUME NEW o \in Resources \ {r} PROVE Api(o)' = Api(o)
  <2>1. Kind[o] \in Kinds
    BY ObjectTypes
  <2> QED
    BY <1>1, <2>1 DEF Api
<1> QED
  BY <1>2, <1>3

\* Every state of a log after a write is an old one or the one written.
LEMMA StoreStates ==
    ASSUME TypeOK, NEW r \in Resources, NEW x \in Objects \cup {Absent}, Store(r, x),
           NEW k \in Kinds, NEW i \in 1..Len(log'[k]), NEW o \in Resources
    PROVE  \/ i \in 1..Len(log[k]) /\ log'[k][i][o] = log[k][i][o]
           \/ /\ k = Kind[r] /\ i = Len(log[k]) + 1
              /\ log'[k][i][o] = IF o = r THEN x ELSE log[k][Len(log[k])][o]
<1>1. /\ Kind[r] \in Kinds /\ Len(log'[Kind[r]]) = Len(log[Kind[r]]) + 1
      /\ \A h \in Kinds \ {Kind[r]} : log'[h] = log[h]
      /\ \A j \in 1..Len(log[Kind[r]]) : log'[Kind[r]][j] = log[Kind[r]][j]
      /\ \A q \in Resources : log'[Kind[r]][Len(log[Kind[r]]) + 1][q] =
             IF q = r THEN x ELSE log[Kind[r]][Len(log[Kind[r]])][q]
  BY StoreShape, ObjectTypes
<1>2. Len(log[k]) \in Nat /\ i \in Nat /\ i >= 1 /\ i <= Len(log'[k])
  BY <1>1, ObjectTypes DEF TypeOK
<1>3. CASE k # Kind[r]
  BY <1>1, <1>2, <1>3
<1>4. CASE k = Kind[r] /\ i <= Len(log[k])
  BY <1>1, <1>2, <1>4
<1>5. CASE k = Kind[r] /\ i = Len(log[k]) + 1
  BY <1>1, <1>5
<1> QED
  BY <1>1, <1>2, <1>3, <1>4, <1>5

\* A write of a reconcile or a user, or a first creation, keeps the stamps in order: the API
\* server stamps an object with its current second and no later write changes the stamp.
LEMMA WriteStamps ==
    ASSUME TypeOK, LogStamps, NEW r \in Resources, NEW x \in Objects \cup {Absent},
           Edit(r, x) \/ Creation(r, x)
    PROVE  LogStamps'
<1> USE DEF Same
<1>1. Store(r, x) /\ now \in Nat /\ now <= now' /\ now' \in Nat /\ born \subseteq born'
  BY DEF Edit, Creation, TypeOK
<1>2. SUFFICES ASSUME NEW k \in Kinds, NEW q \in Resources, NEW i \in 1..Len(log'[k]),
                      log'[k][i][q] # Absent
               PROVE  /\ log'[k][i][q].created < now' /\ q \in born'
                      /\ \A j \in 1..Len(log'[k]) : log'[k][j][q] # Absent =>
                            Same(log'[k][i][q], log'[k][j][q])
  BY DEF LogStamps
<1>3. Len(log[k]) \in Nat /\ Len(log[k]) >= 1
  BY DEF TypeOK
<1>4. CASE q # r \/ k # Kind[r]
  <2>1. \A j \in 1..Len(log'[k]) : \E h \in 1..Len(log[k]) : log'[k][j][q] = log[k][h][q]
    BY <1>1, <1>3, <1>4, StoreStates
  <2>2. PICK h \in 1..Len(log[k]) : log'[k][i][q] = log[k][h][q]
    BY <2>1
  <2>3. log[k][h][q].created < now /\ q \in born
        /\ \A j \in 1..Len(log[k]) : log[k][j][q] # Absent => Same(log[k][h][q], log[k][j][q])
    BY <1>2, <2>2 DEF LogStamps
  <2>4. log[k][h][q].created \in Nat
    BY <1>2, <2>2, ObjectTypes DEF Objects
  <2>5. ASSUME NEW j \in 1..Len(log'[k]), log'[k][j][q] # Absent
        PROVE  Same(log'[k][i][q], log'[k][j][q])
    BY <2>1, <2>2, <2>3, <2>5
  <2> QED
    BY <1>1, <2>2, <2>3, <2>4, <2>5
<1>5. CASE q = r /\ k = Kind[r] /\ Creation(r, x)
  <2>1. \A j \in 1..Len(log[k]) : log[k][j][r] = Absent
    BY <1>5 DEF LogStamps, Creation
  <2>2. \A j \in 1..Len(log'[k]) : log'[k][j][r] # Absent => log'[k][j][r] = x
    BY <1>1, <1>5, <2>1, StoreStates
  <2> QED
    BY <1>1, <1>2, <1>5, <2>2 DEF Creation
<1>6. CASE q = r /\ k = Kind[r] /\ Edit(r, x)
  <2>1. ASSUME NEW j \in 1..Len(log'[k]), log'[k][j][r] # Absent
        PROVE  \E h \in 1..Len(log[k]) : log[k][h][r] # Absent /\ Same(log'[k][j][r], log[k][h][r])
    <3>1. \/ j \in 1..Len(log[k]) /\ log'[k][j][r] = log[k][j][r]
          \/ log'[k][j][r] = x
      BY <1>1, <1>6, StoreStates
    <3>2. CASE j \in 1..Len(log[k]) /\ log'[k][j][r] = log[k][j][r]
      BY <2>1, <3>2
    <3>3. CASE log'[k][j][r] = x
      <4>1. log[k][Len(log[k])][r] # Absent /\ Same(x, log[k][Len(log[k])][r])
        BY <2>1, <3>3, <1>6 DEF Edit, Api
      <4> QED
        BY <4>1, <3>3, <1>3
    <3> QED
      BY <3>1, <3>2, <3>3
  <2>2. PICK h \in 1..Len(log[k]) : log[k][h][r] # Absent /\ Same(log'[k][i][r], log[k][h][r])
    BY <1>2, <1>6, <2>1
  <2>3. log[k][h][r].created < now /\ r \in born
        /\ \A j \in 1..Len(log[k]) : log[k][j][r] # Absent => Same(log[k][h][r], log[k][j][r])
    BY <2>2 DEF LogStamps
  <2>4. log'[k][i][r].created < now' /\ r \in born'
    BY <2>2, <2>3, <1>6 DEF Edit
  <2>5. ASSUME NEW j \in 1..Len(log'[k]), log'[k][j][r] # Absent
        PROVE  Same(log'[k][i][r], log'[k][j][r])
    <3>1. PICK g \in 1..Len(log[k]) : log[k][g][r] # Absent /\ Same(log'[k][j][r], log[k][g][r])
      BY <2>1, <2>5
    <3> QED
      BY <3>1, <2>2, <2>3
  <2> QED
    BY <2>4, <2>5, <1>6
<1> QED
  BY <1>4, <1>5, <1>6

\* A write keeps the order in which the watch will show same-kind objects to the cache that
\* guestname.List reads.
LEMMA WriteOrder ==
    ASSUME TypeOK, LogStamps, LogOrder, NEW r \in Resources, NEW x \in Objects \cup {Absent},
           Edit(r, x) \/ Creation(r, x)
    PROVE  LogOrder'
<1> USE DEF Same
<1>1. Store(r, x) /\ now \in Nat
  BY DEF Edit, Creation, TypeOK
<1>2. SUFFICES ASSUME NEW q \in Resources, NEW o \in Resources, Kind[o] = Kind[q],
                      Api(o)' # Absent, NEW i \in 1..Len(log'[Kind[q]]),
                      log'[Kind[q]][i][q] # Absent,
                      Api(o)'.created <= log'[Kind[q]][i][q].created,
                      NEW j \in i..Len(log'[Kind[q]])
               PROVE  log'[Kind[q]][j][o] # Absent
  BY DEF LogOrder
<1> DEFINE K == Kind[q]
<1>3. K \in Kinds /\ Len(log[K]) \in Nat /\ Len(log[K]) >= 1
  BY ObjectTypes
<1>4. Len(log'[K]) = Len(log[K]) \/ (K = Kind[r] /\ Len(log'[K]) = Len(log[K]) + 1)
  BY <1>1, <1>3, StoreShape
<1>5. j \in 1..Len(log'[K])
  BY <1>3, <1>4
<1>6. CASE j = Len(log'[K])
  <2>1. log' \in [Kinds -> Seq(Snapshots)]
    BY <1>1, StoreShape
  <2> QED
    BY <1>2, <1>6 DEF Api
<1>7. CASE j # Len(log'[K])
  <2>1. i \in 1..Len(log[K]) /\ j \in i..Len(log[K])
    BY <1>3, <1>4, <1>7
  <2>2. log'[K][i][q] = log[K][i][q] /\ log'[K][j][o] = log[K][j][o]
    <3>1. CASE K = Kind[r]
      <4>1. \A h \in 1..Len(log[K]) : log'[K][h] = log[K][h]
        BY <1>1, <3>1, StoreShape
      <4> QED
        BY <1>3, <2>1, <4>1
    <3>2. CASE K # Kind[r]
      BY <1>1, <1>3, <3>2, StoreShape
    <3> QED
      BY <3>1, <3>2
  <2>3. log[K][i][q].created < now
    BY <1>2, <1>3, <2>1, <2>2 DEF LogStamps
  <2>4. Api(o) # Absent /\ Api(o)'.created = Api(o).created
    <3>1. CASE o # r
      BY <1>1, <1>2, <3>1, StoreApi
    <3>2. CASE o = r /\ Edit(r, x)
      BY <1>1, <1>2, <3>2, StoreApi DEF Edit
    <3>3. CASE o = r /\ Creation(r, x)
      <4>1. Api(o)'.created = now
        BY <1>1, <3>3, StoreApi DEF Creation
      <4>2. log[K][i][q].created \in Nat
        BY <1>2, <1>3, <2>1, <2>2, ObjectTypes DEF Objects
      <4> QED
        BY <4>1, <4>2, <1>1, <1>2, <2>2, <2>3
    <3> QED
      BY <3>1, <3>2, <3>3
  <2> QED
    BY <1>2, <2>1, <2>2, <2>4 DEF LogOrder
<1> QED
  BY <1>6, <1>7

\* A write leaves what a reconcile knows in place.
LEMMA WriteCopy ==
    ASSUME TypeOK, LogStamps, NEW r \in Resources, NEW x \in Objects \cup {Absent},
           Edit(r, x) \/ Creation(r, x),
           NEW q \in Resources, NEW s, NEW y, CopyInv(q, s, y)
    PROVE  CopyInv(q, s, y)'
<1> USE DEF Same
<1>1. Store(r, x) /\ now \in Nat /\ now <= now' /\ now' \in Nat /\ born \subseteq born'
  BY DEF Edit, Creation, TypeOK
<1>2. SUFFICES ASSUME s # "idle" PROVE CopyInv(q, s, y)'
  BY DEF CopyInv
<1> DEFINE K == Kind[q]
<1>3. K \in Kinds /\ Len(log[K]) \in Nat /\ Len(log[K]) >= 1
  BY ObjectTypes
<1>4. y \in Objects /\ y.created \in Nat /\ y.created < now /\ y.created < now' /\ q \in born'
  BY <1>1, <1>2 DEF CopyInv, Objects
<1>5. ASSUME NEW i \in 1..Len(log'[K]), log'[K][i][q] # Absent
      PROVE  Same(y, log'[K][i][q])
  <2>1. CASE i \in 1..Len(log[K]) /\ log'[K][i][q] = log[K][i][q]
    BY <1>2, <1>5, <2>1 DEF CopyInv
  <2>2. CASE K = Kind[r] /\ log'[K][i][q] = IF q = r THEN x ELSE log[K][Len(log[K])][q]
    <3>1. q = r => Edit(r, x)
      BY <1>2 DEF CopyInv, Creation
    <3>2. log[K][Len(log[K])][q] # Absent /\ Same(log'[K][i][q], log[K][Len(log[K])][q])
      BY <1>5, <2>2, <3>1 DEF Edit, Api
    <3> QED
      BY <1>2, <1>3, <3>2 DEF CopyInv
  <2> QED
    BY <1>1, <1>3, <2>1, <2>2, StoreStates
\* A live object that is not younger than y was live, with the same claim, before the write.
<1>6. ASSUME NEW o \in Resources, Api(o)' # Absent, Api(o)'.created <= y.created
      PROVE  Api(o) # Absent /\ Same(Api(o)', Api(o))
  <2>1. CASE o # r
    BY <1>1, <1>6, <2>1, StoreApi
  <2>2. CASE o = r /\ Edit(r, x)
    BY <1>1, <1>6, <2>2, StoreApi DEF Edit
  <2>3. CASE o = r /\ Creation(r, x)
    BY <1>1, <1>4, <1>6, <2>3, StoreApi DEF Creation
  <2> QED
    BY <2>1, <2>2, <2>3
<1>7. ASSUME s = "claim", NEW o \in Resources, Kind[o] = K, Api(o)' # Absent,
             Api(o)'.created <= y.created, NEW i \in 1..Len(log'[K])
      PROVE  log'[K][i][o] # Absent
  <2>1. Api(o) # Absent /\ Api(o).created <= y.created
    BY <1>6, <1>7
  <2>2. \A h \in 1..Len(log[K]) : log[K][h][o] # Absent
    BY <1>2, <1>7, <2>1 DEF CopyInv
  <2>3. CASE i \in 1..Len(log[K]) /\ log'[K][i][o] = log[K][i][o]
    BY <2>2, <2>3
  <2>4. CASE K = Kind[r] /\ log'[K][i][o] = IF o = r THEN x ELSE log[K][Len(log[K])][o]
    BY <1>1, <1>3, <1>7, <2>2, <2>4, StoreApi
  <2> QED
    BY <1>1, <1>3, <2>3, <2>4, StoreStates
<1>8. ASSUME s \in OwnedStages, NEW o \in Resources \ {q}, Kind[o] = K, Api(o)' # Absent,
             Guest(o, Api(o)'.name) = Guest(q, y.name)
      PROVE  Before(q, y, o, Api(o)')
  <2>1. Api(o)' \in Objects
    BY <1>1, <1>8, StoreApi, ObjectTypes
  <2>2. CASE Api(o)'.created <= y.created
    <3>1. Api(o) # Absent /\ Same(Api(o)', Api(o))
      BY <1>6, <1>8, <2>2
    <3>2. Before(q, y, o, Api(o))
      BY <1>2, <1>8, <3>1 DEF CopyInv
    <3> QED
      BY <3>1, <3>2 DEF Before
  <2>3. CASE ~(Api(o)'.created <= y.created)
    BY <1>4, <2>1, <2>3 DEF Before, Objects
  <2> QED
    BY <2>2, <2>3
<1>9. CopyInv(q, s, y)' <=>
        /\ y \in Objects /\ y.created < now' /\ q \in born'
        /\ \A i \in 1..Len(log'[K]) : log'[K][i][q] # Absent => Same(y, log'[K][i][q])
        /\ s = "claim" => \A o \in Resources :
              Kind[o] = K /\ Api(o)' # Absent /\ Api(o)'.created <= y.created =>
                  \A i \in 1..Len(log'[K]) : log'[K][i][o] # Absent
        /\ s \in OwnedStages => \A o \in Resources \ {q} :
              Kind[o] = K /\ Api(o)' # Absent /\ Guest(o, Api(o)'.name) = Guest(q, y.name) =>
                  Before(q, y, o, Api(o)')
  BY <1>2 DEF CopyInv, Before, Guest, IsLXC
<1> QED
  BY <1>4, <1>5, <1>7, <1>8, <1>9

\* A delivered watch event leaves the API server as it is.
LEMMA DeliverApi ==
    ASSUME TypeOK, NEW k \in Kinds, Deliver(k), NEW o \in Resources
    PROVE  Api(o)' = Api(o)
<1>1. /\ Kind[o] \in Kinds /\ Len(log[k]) \in Nat /\ Len(log[k]) > 1
      /\ \A h \in Kinds \ {k} : log'[h] = log[h]
      /\ Len(log'[k]) = Len(log[k]) - 1
      /\ \A i \in 1..Len(log'[k]) : log'[k][i] = log[k][i + 1]
  BY DeliverShape, ObjectTypes DEF TypeOK
<1>2. CASE Kind[o] = k
  <2>1. Len(log'[k]) \in 1..Len(log'[k]) /\ Len(log'[k]) + 1 = Len(log[k])
    BY <1>1
  <2>2. log'[k][Len(log'[k])] = log[k][Len(log[k])]
    BY <1>1, <2>1
  <2> QED
    BY <1>2, <2>2 DEF Api
<1>3. CASE Kind[o] # k
  BY <1>1, <1>3 DEF Api
<1> QED
  BY <1>2, <1>3

\* After a delivered event every state of a log is one of the old log, and states keep their
\* order: no cache goes back in time.
LEMMA DeliverStates ==
    ASSUME TypeOK, NEW k \in Kinds, Deliver(k), NEW h \in Kinds
    PROVE  \E d \in {0, 1} : /\ Len(log'[h]) + d = Len(log[h])
                             /\ Len(log'[h]) \in Nat /\ Len(log'[h]) >= 1
                             /\ \A i \in 1..Len(log'[h]) : log'[h][i] = log[h][i + d]
<1>1. /\ Len(log[k]) \in Nat /\ Len(log[k]) > 1
      /\ Len(log[h]) \in Nat /\ Len(log[h]) >= 1
      /\ \A g \in Kinds \ {k} : log'[g] = log[g]
      /\ Len(log'[k]) = Len(log[k]) - 1
      /\ \A i \in 1..Len(log'[k]) : log'[k][i] = log[k][i + 1]
  BY DeliverShape DEF TypeOK
<1>2. CASE h = k
  <2>1. Len(log'[h]) + 1 = Len(log[h]) /\ Len(log'[h]) \in Nat /\ Len(log'[h]) >= 1
    BY <1>1, <1>2
  <2> QED
    BY <1>1, <1>2, <2>1
<1>3. CASE h # k
  <2>1. log'[h] = log[h]
    BY <1>1, <1>3
  <2>2. Len(log'[h]) + 0 = Len(log[h]) /\ \A i \in 1..Len(log'[h]) : log'[h][i] = log[h][i + 0]
    BY <1>1, <2>1
  <2> QED
    BY <1>1, <2>1, <2>2
<1> QED
  BY <1>2, <1>3

\* A delivered event keeps what the invariant says of the logs and of every reconcile.
LEMMA DeliverKeeps ==
    ASSUME TypeOK, LogStamps, LogOrder, NEW k \in Kinds, Deliver(k)
    PROVE  /\ LogStamps' /\ LogOrder'
           /\ \A r \in Resources : \A s, x : CopyInv(r, s, x) => CopyInv(r, s, x)'
<1>1. now' = now /\ born' = born
  BY DEF Deliver
<1>2. \A h \in Kinds : /\ Len(log[h]) \in Nat
                       /\ \E d \in {0, 1} : /\ Len(log'[h]) + d = Len(log[h])
                                            /\ Len(log'[h]) \in Nat /\ Len(log'[h]) >= 1
                                            /\ \A i \in 1..Len(log'[h]) : log'[h][i] = log[h][i + d]
  BY DeliverStates DEF TypeOK
<1>3. \A h \in Kinds : \A i \in 1..Len(log'[h]) : \E j \in 1..Len(log[h]) : log'[h][i] = log[h][j]
  <2>1. SUFFICES ASSUME NEW h \in Kinds, NEW i \in 1..Len(log'[h])
                 PROVE  \E j \in 1..Len(log[h]) : log'[h][i] = log[h][j]
    OBVIOUS
  <2>2. PICK d \in {0, 1} : Len(log'[h]) + d = Len(log[h]) /\ log'[h][i] = log[h][i + d]
    BY <1>2
  <2>3. i + d \in 1..Len(log[h])
    BY <1>2, <2>2
  <2> QED
    BY <2>2, <2>3
<1>4. \A o \in Resources : Api(o)' = Api(o) /\ Kind[o] \in Kinds
  BY DeliverApi, ObjectTypes
<1>5. LogStamps'
  <2>1. SUFFICES ASSUME NEW h \in Kinds, NEW q \in Resources, NEW i \in 1..Len(log'[h]),
                        log'[h][i][q] # Absent
                 PROVE  /\ log'[h][i][q].created < now /\ q \in born
                        /\ \A j \in 1..Len(log'[h]) : log'[h][j][q] # Absent =>
                              Same(log'[h][i][q], log'[h][j][q])
    BY <1>1 DEF LogStamps, Same
  <2>2. PICK g \in 1..Len(log[h]) : log'[h][i] = log[h][g]
    BY <1>3
  <2>3. log[h][g][q].created < now /\ q \in born
        /\ \A j \in 1..Len(log[h]) : log[h][j][q] # Absent => Same(log[h][g][q], log[h][j][q])
    BY <2>1, <2>2 DEF LogStamps
  <2>4. ASSUME NEW j \in 1..Len(log'[h]), log'[h][j][q] # Absent
        PROVE  Same(log'[h][i][q], log'[h][j][q])
    <3>1. PICK f \in 1..Len(log[h]) : log'[h][j] = log[h][f]
      BY <1>3
    <3> QED
      BY <2>2, <2>3, <2>4, <3>1
  <2> QED
    BY <2>2, <2>3, <2>4
<1>6. LogOrder'
  <2>1. SUFFICES ASSUME NEW q \in Resources, NEW o \in Resources, Kind[o] = Kind[q],
                        Api(o)' # Absent, NEW i \in 1..Len(log'[Kind[q]]),
                        log'[Kind[q]][i][q] # Absent,
                        Api(o)'.created <= log'[Kind[q]][i][q].created,
                        NEW j \in i..Len(log'[Kind[q]])
                 PROVE  log'[Kind[q]][j][o] # Absent
    BY DEF LogOrder
  <2> DEFINE K == Kind[q]
  <2>2. PICK d \in {0, 1} : /\ Len(log'[K]) + d = Len(log[K])
                            /\ \A h \in 1..Len(log'[K]) : log'[K][h] = log[K][h + d]
    BY <1>2, <1>4
  <2>3. i \in 1..Len(log'[K]) /\ j \in 1..Len(log'[K])
        /\ i + d \in 1..Len(log[K]) /\ j + d \in (i + d)..Len(log[K])
    BY <1>2, <1>4, <2>2
  <2>4. log'[K][i] = log[K][i + d] /\ log'[K][j] = log[K][j + d]
    BY <2>2, <2>3
  <2>5. Api(o) # Absent /\ Api(o).created <= log[K][i + d][q].created /\ log[K][i + d][q] # Absent
    BY <1>4, <2>1, <2>4
  <2> QED
    BY <2>1, <2>3, <2>4, <2>5 DEF LogOrder
<1>7. ASSUME NEW r \in Resources, NEW s, NEW x, CopyInv(r, s, x) PROVE CopyInv(r, s, x)'
  <2>1. SUFFICES ASSUME s # "idle" PROVE CopyInv(r, s, x)'
    BY DEF CopyInv
  <2>2. CopyInv(r, s, x)' <=>
        /\ x \in Objects /\ x.created < now /\ r \in born
        /\ \A i \in 1..Len(log'[Kind[r]]) :
              log'[Kind[r]][i][r] # Absent => Same(x, log'[Kind[r]][i][r])
        /\ s = "claim" => \A o \in Resources :
              Kind[o] = Kind[r] /\ Api(o) # Absent /\ Api(o).created <= x.created =>
                  \A i \in 1..Len(log'[Kind[r]]) : log'[Kind[r]][i][o] # Absent
        /\ s \in OwnedStages => \A o \in Resources \ {r} :
              Kind[o] = Kind[r] /\ Api(o) # Absent /\ Guest(o, Api(o).name) = Guest(r, x.name) =>
                  Before(r, x, o, Api(o))
    BY <1>1, <1>4, <2>1 DEF CopyInv, Before, Guest, IsLXC, Same
  <2>3. \A i \in 1..Len(log'[Kind[r]]) : \E j \in 1..Len(log[Kind[r]]) : log'[Kind[r]][i] = log[Kind[r]][j]
    BY <1>3, <1>4
  <2>4. x \in Objects /\ x.created < now /\ r \in born
        /\ \A i \in 1..Len(log'[Kind[r]]) :
              log'[Kind[r]][i][r] # Absent => Same(x, log'[Kind[r]][i][r])
    <3>1. x \in Objects /\ x.created < now /\ r \in born
          /\ \A j \in 1..Len(log[Kind[r]]) :
                log[Kind[r]][j][r] # Absent => Same(x, log[Kind[r]][j][r])
      BY <1>7, <2>1 DEF CopyInv
    <3> QED
      BY <2>3, <3>1
  <2>5. s = "claim" => \A o \in Resources :
              Kind[o] = Kind[r] /\ Api(o) # Absent /\ Api(o).created <= x.created =>
                  \A i \in 1..Len(log'[Kind[r]]) : log'[Kind[r]][i][o] # Absent
    <3>1. SUFFICES ASSUME s = "claim", NEW o \in Resources, Kind[o] = Kind[r], Api(o) # Absent,
                          Api(o).created <= x.created, NEW i \in 1..Len(log'[Kind[r]])
                   PROVE  log'[Kind[r]][i][o] # Absent
      OBVIOUS
    <3>2. PICK j \in 1..Len(log[Kind[r]]) : log'[Kind[r]][i] = log[Kind[r]][j]
      BY <2>3
    <3>3. log[Kind[r]][j][o] # Absent
      BY <1>7, <2>1, <3>1 DEF CopyInv
    <3> QED
      BY <3>2, <3>3
  <2>6. s \in OwnedStages => \A o \in Resources \ {r} :
              Kind[o] = Kind[r] /\ Api(o) # Absent /\ Guest(o, Api(o).name) = Guest(r, x.name) =>
                  Before(r, x, o, Api(o))
    BY <1>7, <2>1 DEF CopyInv
  <2> QED
    BY <2>2, <2>4, <2>5, <2>6
<1> QED
  BY <1>5, <1>6, <1>7

------------------------------------------------------------------------------
(* Type correctness *)

LogType == log \in [Kinds -> Seq(Snapshots)] /\ \A k \in Kinds : Len(log[k]) >= 1

\* A write to the API server keeps the type of the logs.
LEMMA StoreType ==
    ASSUME TypeOK, NEW r \in Resources, NEW x \in Objects \cup {Absent}, Store(r, x)
    PROVE  LogType'
<1>1. /\ log' \in [Kinds -> Seq(Snapshots)] /\ Kind[r] \in Kinds
      /\ \A k \in Kinds \ {Kind[r]} : log'[k] = log[k]
      /\ Len(log'[Kind[r]]) = Len(log[Kind[r]]) + 1
  BY StoreShape, ObjectTypes
<1>2. \A k \in Kinds : Len(log[k]) \in Nat /\ Len(log[k]) >= 1
  BY DEF TypeOK
<1>3. ASSUME NEW k \in Kinds PROVE Len(log'[k]) >= 1
  <2>1. CASE k = Kind[r]
    BY <1>1, <1>2, <2>1
  <2>2. CASE k # Kind[r]
    <3>1. log'[k] = log[k]
      BY <1>1, <2>2
    <3> QED
      BY <1>2, <3>1
  <2> QED
    BY <2>1, <2>2
<1> QED
  BY <1>1, <1>3 DEF LogType

\* An update by resourceVersion (handleFinalizer, the release of claimGuest, the end of
\* handleDelete) keeps the types of all it may change.
LEMMA UpdateType ==
    ASSUME TypeOK, NEW r \in Resources, NEW x \in Objects, NEW next \in Stages,
           pc[r] # "idle", UpdateObject(r, x, next)
    PROVE  /\ LogType' /\ queue' \subseteq Resources
           /\ pc' \in [Resources -> Stages] /\ obj' \in Snapshots
           /\ \A q \in Resources : pc'[q] # "idle" => obj'[q] # Absent
<1>1. LogType /\ queue \subseteq Resources /\ pc \in [Resources -> Stages] /\ obj \in Snapshots
      /\ \A q \in Resources : pc[q] # "idle" => obj[q] # Absent
  BY DEF TypeOK, LogType
<1>2. x # Absent /\ Settled(x) \in Objects \cup {Absent} /\ "idle" \in Stages
  BY GuestNameAssumption DEF Settled, Stages
<1>3. CASE Store(r, Settled(x)) /\ obj' = [obj EXCEPT ![r] = x] /\ Goto(r, next) /\ UNCHANGED queue
  <2>1. LogType'
    BY <1>2, <1>3, StoreType
  <2> QED
    BY <1>1, <1>2, <1>3, <2>1 DEF Goto, Snapshots
<1>4. CASE Return(r) /\ UNCHANGED <<log, obj>>
  BY <1>1, <1>2, <1>4 DEF Return, Goto, LogType
<1>5. CASE Requeue(r) /\ UNCHANGED <<log, obj>>
  BY <1>1, <1>2, <1>5 DEF Requeue, Goto, LogType
<1> QED
  BY <1>3, <1>4, <1>5 DEF UpdateObject

\* What a condition patch returns: the stored object with one condition changed.
LEMMA ApiType ==
    ASSUME TypeOK, NEW r \in Resources, Api(r) # Absent
    PROVE  /\ Api(r) \in Objects
           /\ \A b \in BOOLEAN : /\ [Api(r) EXCEPT !.conflict = b] \in Objects
                                /\ [Api(r) EXCEPT !.marked = b] \in Objects
                                /\ [Api(r) EXCEPT !.deleting = b] \in Objects
           /\ \A n \in Names : [Api(r) EXCEPT !.name = n] \in Objects
<1>1. Api(r) \in Objects
  BY ObjectTypes
<1> QED
  BY <1>1 DEF Objects

\* Every step of users, the API server, the informers and the reconciles keeps the types.
LEMMA TypeStep == TypeOK /\ [Next]_vars => TypeOK'
<1> SUFFICES ASSUME TypeOK, [Next]_vars PROVE TypeOK'
  OBVIOUS
<1>0. /\ LogType /\ now \in Nat /\ faults \in Nat
      /\ born \subseteq Resources /\ queue \subseteq Resources /\ timers \subseteq Resources
      /\ requests \subseteq Requests /\ pc \in [Resources -> Stages] /\ obj \in Snapshots
      /\ \A q \in Resources : pc[q] # "idle" => obj[q] # Absent
      /\ guests \subseteq Guests
  BY DEF TypeOK, LogType
<1>1. TypeOK' <=>
      /\ LogType' /\ now' \in Nat /\ faults' \in Nat
      /\ born' \subseteq Resources /\ queue' \subseteq Resources /\ timers' \subseteq Resources
      /\ requests' \subseteq Requests /\ pc' \in [Resources -> Stages] /\ obj' \in Snapshots
      /\ \A q \in Resources : pc'[q] # "idle" => obj'[q] # Absent
      /\ guests' \subseteq Guests
  BY DEF TypeOK, LogType
<1>2. CASE UNCHANGED vars
  BY <1>0, <1>1, <1>2 DEF vars, LogType
<1>3. ASSUME NEW r \in Resources, NEW n \in Names, NEW m \in Modes, UserCreate(r, n, m)
      PROVE  TypeOK'
  BY <1>0, <1>1, <1>3 DEF UserCreate, Admit, Requests, LogType
<1>4. ASSUME NEW r \in Resources, NEW n \in Names, UserRename(r, n) PROVE TypeOK'
  <2>1. Api(r).mode \in Modes
    BY <1>4, ObjectTypes DEF UserRename, Objects
  <2> QED
    BY <1>0, <1>1, <1>4, <2>1 DEF UserRename, Admit, Requests, LogType
<1>5. ASSUME NEW r \in Resources, UserDelete(r) PROVE TypeOK'
  <2>1. Settled([Api(r) EXCEPT !.deleting = TRUE]) \in Objects \cup {Absent}
    BY <1>5, ApiType DEF UserDelete, Settled
  <2>2. LogType'
    BY <1>5, <2>1, StoreType DEF UserDelete
  <2> QED
    BY <1>0, <1>1, <1>5, <2>2 DEF UserDelete
<1>6. ASSUME NEW q \in requests, PersistCreate(q) PROVE TypeOK'
  <2> DEFINE x == [created |-> now, name |-> q.name, mode |-> q.mode, deleting |-> FALSE,
                   finalizer |-> FALSE, conflict |-> FALSE, marked |-> FALSE]
  <2>1. q.res \in Resources /\ q.name \in Names /\ q.mode \in Modes
    BY <1>0 DEF Requests
  <2>2. x \in Objects \cup {Absent}
    BY <1>0, <2>1 DEF Objects
  <2>3. CASE Store(q.res, x) /\ now' \in {now, now + 1} /\ born' = born \cup {q.res}
    <3>1. LogType'
      BY <2>1, <2>2, <2>3, StoreType
    <3> QED
      BY <1>0, <1>1, <1>6, <2>1, <2>3, <3>1 DEF PersistCreate
  <2>4. CASE UNCHANGED <<log, now, born>>
    BY <1>0, <1>1, <1>6, <2>4 DEF PersistCreate, LogType
  <2> QED
    BY <1>6, <2>3, <2>4 DEF PersistCreate
<1>7. ASSUME NEW q \in requests, PersistRename(q) PROVE TypeOK'
  <2>1. q.res \in Resources /\ q.name \in Names
    BY <1>0 DEF Requests
  <2>2. CASE Api(q.res) # Absent /\ Store(q.res, [Api(q.res) EXCEPT !.name = q.name]) /\ now' = now + 1
    <3>1. LogType'
      BY <2>1, <2>2, ApiType, StoreType
    <3> QED
      BY <1>0, <1>1, <1>7, <2>2, <3>1 DEF PersistRename
  <2>3. CASE UNCHANGED <<log, now>>
    BY <1>0, <1>1, <1>7, <2>3 DEF PersistRename, LogType
  <2> QED
    BY <1>7, <2>2, <2>3 DEF PersistRename
<1>8. ASSUME NEW k \in Kinds, Deliver(k) PROVE TypeOK'
  <2>1. \A h \in Kinds : Len(log'[h]) >= 1
    BY <1>8, DeliverStates
  <2>2. LogType'
    BY <1>8, <2>1, DeliverShape DEF LogType
  <2> QED
    BY <1>0, <1>1, <1>8, <2>2 DEF Deliver
<1>9. ASSUME NEW r \in Resources, Reconcile(r) PROVE TypeOK'
  <2>1. CASE Get(r)
    BY <1>0, <1>1, <2>1, ObjectTypes DEF Get, Goto, Stages, Snapshots, LogType
  <2>2. CASE Claim(r)
    BY <1>0, <1>1, <2>2 DEF Claim, Goto, Stages, LogType
  <2>3. CASE ClearConflict(r)
    <3>1. CASE UNCHANGED <<log, obj>>
      BY <1>0, <1>1, <2>3, <3>1 DEF ClearConflict, Return, Goto, Stages, LogType
    <3>2. CASE /\ Api(r) # Absent /\ Store(r, [Api(r) EXCEPT !.conflict = FALSE])
               /\ obj' = [obj EXCEPT ![r] = [Api(r) EXCEPT !.conflict = FALSE]]
      <4>1. [Api(r) EXCEPT !.conflict = FALSE] \in Objects
        BY <3>2, ApiType
      <4>2. LogType'
        BY <3>2, <4>1, StoreType
      <4>3. obj' \in Snapshots /\ obj'[r] # Absent /\ \A q \in Resources \ {r} : obj'[q] = obj[q]
        BY <1>0, <3>2, <4>1, GuestNameAssumption DEF Snapshots
      <4> QED
        BY <1>0, <1>1, <2>3, <4>2, <4>3 DEF ClearConflict, Return, Goto, Stages
    <3> QED
      BY <2>3, <3>1, <3>2 DEF ClearConflict
  <2>4. CASE MarkConflict(r)
    <3>1. LogType'
      BY <1>0, <2>4, ApiType, StoreType DEF MarkConflict, LogType
    <3> QED
      BY <1>0, <1>1, <2>4, <3>1 DEF MarkConflict, Return, Goto, Stages
  <2>5. CASE Release(r)
    <3>1. [obj[r] EXCEPT !.finalizer = FALSE] \in Objects
      BY <1>0, <2>5 DEF Release, Snapshots, Objects
    <3> QED
      BY <1>0, <1>1, <2>5, <3>1, UpdateType DEF Release, Stages
  <2>6. CASE Dispatch(r)
    BY <1>0, <1>1, <2>6 DEF Dispatch, Goto, Stages, LogType
  <2>7. CASE HandleFinalizer(r)
    <3>1. [obj[r] EXCEPT !.finalizer = TRUE] \in Objects
      BY <1>0, <2>7 DEF HandleFinalizer, Snapshots, Objects
    <3> QED
      BY <1>0, <1>1, <2>7, <3>1, UpdateType DEF HandleFinalizer, Stages
  <2>8. CASE Operate(r)
    <3>1. obj[r].name \in Names
      BY <1>0, <2>8 DEF Operate, Snapshots, Objects
    <3>2. Guest(r, obj[r].name) \in Guests
      BY <3>1, GuestNameAssumption DEF Guest, Guests
    <3> QED
      BY <1>0, <1>1, <2>8, <3>2 DEF Operate, Return, Goto, Stages, LogType
  <2>9. CASE MarkDeleting(r)
    <3>1. CASE UNCHANGED <<log, obj>>
      BY <1>0, <1>1, <2>9, <3>1 DEF MarkDeleting, Return, Goto, Stages, LogType
    <3>2. CASE /\ Api(r) # Absent /\ Store(r, [Api(r) EXCEPT !.marked = TRUE])
               /\ obj' = [obj EXCEPT ![r] = [Api(r) EXCEPT !.marked = TRUE]]
      <4>1. [Api(r) EXCEPT !.marked = TRUE] \in Objects
        BY <3>2, ApiType
      <4>2. LogType'
        BY <3>2, <4>1, StoreType
      <4>3. obj' \in Snapshots /\ obj'[r] # Absent /\ \A q \in Resources \ {r} : obj'[q] = obj[q]
        BY <1>0, <3>2, <4>1, GuestNameAssumption DEF Snapshots
      <4> QED
        BY <1>0, <1>1, <2>9, <4>2, <4>3 DEF MarkDeleting, Return, Goto, Stages
    <3> QED
      BY <2>9, <3>1, <3>2 DEF MarkDeleting
  <2>10. CASE DeleteGuest(r)
    BY <1>0, <1>1, <2>10 DEF DeleteGuest, Goto, Stages, LogType
  <2>11. CASE RemoveFinalizer(r)
    <3>1. [obj[r] EXCEPT !.finalizer = FALSE] \in Objects
      BY <1>0, <2>11 DEF RemoveFinalizer, Snapshots, Objects
    <3> QED
      BY <1>0, <1>1, <2>11, <3>1, UpdateType DEF RemoveFinalizer, Stages
  <2> QED
    BY <1>9, <2>1, <2>2, <2>3, <2>4, <2>5, <2>6, <2>7, <2>8, <2>9, <2>10, <2>11 DEF Reconcile
<1>10. ASSUME NEW r \in Resources, TimerFires(r) \/ ReconcileError(r) \/ Drift(r) PROVE TypeOK'
  BY <1>0, <1>1, <1>10 DEF TimerFires, ReconcileError, Drift, Requeue, Goto, Stages, LogType
<1>11. CASE Restart
  <2>1. \A k \in Kinds : log[k][Len(log[k])] \in Snapshots
    BY <1>0 DEF LogType
  <2>2. LogType'
    BY <1>11, <2>1 DEF Restart, LogType
  <2> QED
    BY <1>0, <1>1, <1>11, <2>2 DEF Restart, Stages
<1> QED
  BY <1>2, <1>3, <1>4, <1>5, <1>6, <1>7, <1>8, <1>9, <1>10, <1>11 DEF Next, User, Persist

\* The initial state is well typed.
LEMMA TypeInit == Init => TypeOK
<1> SUFFICES ASSUME Init PROVE TypeOK
  OBVIOUS
<1>1. log \in [Kinds -> Seq(Snapshots)] /\ \A k \in Kinds : Len(log[k]) >= 1
  <2>1. [r \in Resources |-> Absent] \in Snapshots
    BY DEF Snapshots
  <2> QED
    BY <2>1 DEF Init
<1> QED
  BY <1>1 DEF Init, TypeOK, Snapshots, Stages

\* Whatever users, Proxmox and restarts do, the caches hold states of the API server and a
\* running reconcile works on an object it read.
THEOREM TypeCorrect == Spec => []TypeOK
<1> QED
  BY TypeInit, TypeStep, PTL DEF Spec

------------------------------------------------------------------------------
(* The oldest claim operates *)

\* A step of the logs: a write, a creation, an event, or none of these.
LogStep ==
    \/ \E r \in Resources, x \in Objects \cup {Absent} : Edit(r, x) \/ Creation(r, x)
    \/ \E k \in Kinds : Deliver(k)
    \/ UNCHANGED <<log, now, born>>

\* Writes and events keep what the invariant says of the logs and of what reconciles know.
LEMMA LogStepKeeps ==
    ASSUME TypeOK, LogStamps, LogOrder, LogStep
    PROVE  /\ LogStamps' /\ LogOrder'
           /\ \A r \in Resources : \A s, x : CopyInv(r, s, x) => CopyInv(r, s, x)'
<1>1. CASE \E r \in Resources, x \in Objects \cup {Absent} : Edit(r, x) \/ Creation(r, x)
  BY <1>1, WriteStamps, WriteOrder, WriteCopy
<1>2. CASE \E k \in Kinds : Deliver(k)
  BY <1>2, DeliverKeeps
<1>3. CASE UNCHANGED <<log, now, born>>
  <2>1. \A o \in Resources : Api(o)' = Api(o)
    BY <1>3 DEF Api
  <2>2. LogStamps'
    BY <1>3 DEF LogStamps, Same
  <2>3. LogOrder'
    BY <1>3, <2>1 DEF LogOrder
  <2>4. ASSUME NEW r \in Resources, NEW s, NEW x, CopyInv(r, s, x) PROVE CopyInv(r, s, x)'
    BY <1>3, <2>1, <2>4 DEF CopyInv, Same, Before, Guest, IsLXC
  <2> QED
    BY <2>2, <2>3, <2>4
<1> QED
  BY <1>1, <1>2, <1>3 DEF LogStep

\* A reconcile that goes on with a copy of the same object, and not to a stage that is the
\* owner's from one that is not, still knows what it knew.
LEMMA StageCopy ==
    ASSUME NEW r \in Resources, NEW s, NEW x, CopyInv(r, s, x), s # "idle",
           NEW t, NEW y \in Objects, Same(x, y),
           t # "claim", t \in OwnedStages => s \in OwnedStages
    PROVE  CopyInv(r, t, y)
BY DEF CopyInv, Same, Before

\* The copy that Get reads from the cache: any older rival is in the cache as well, and stays.
LEMMA GetCopy ==
    ASSUME TypeOK, LogStamps, LogOrder, NEW r \in Resources, Cached(r) # Absent
    PROVE  CopyInv(r, "claim", Cached(r))
<1> DEFINE K == Kind[r]
<1>1. K \in Kinds /\ 1 \in 1..Len(log[K]) /\ Cached(r) = log[K][1][r] /\ Cached(r) \in Objects
  BY ObjectTypes DEF Cached
<1>2. Cached(r).created < now /\ r \in born
      /\ \A i \in 1..Len(log[K]) : log[K][i][r] # Absent => Same(Cached(r), log[K][i][r])
  BY <1>1 DEF LogStamps
<1>3. \A o \in Resources : Kind[o] = K /\ Api(o) # Absent /\ Api(o).created <= Cached(r).created =>
         \A i \in 1..Len(log[K]) : log[K][i][o] # Absent
  BY <1>1 DEF LogOrder
<1> QED
  BY <1>1, <1>2, <1>3 DEF CopyInv, OwnedStages

\* guestname.Owner is right among the resources of one kind: an owner by the caches is the
\* oldest live claim, as its cache held every older one when it read its copy.
LEMMA ClaimCopy ==
    ASSUME TypeOK, LogStamps, NEW r \in Resources, CopyInv(r, "claim", obj[r]), Owns(r),
           NEW t \in OwnedStages
    PROVE  CopyInv(r, t, obj[r])
<1> DEFINE x == obj[r]
           K == Kind[r]
<1>1. K \in Kinds /\ 1 \in 1..Len(log[K]) /\ Len(log[K]) \in 1..Len(log[K]) /\ x \in Objects
  BY ObjectTypes DEF CopyInv
<1>2. ASSUME NEW o \in Resources \ {r}, Kind[o] = K, Api(o) # Absent,
             Guest(o, Api(o).name) = Guest(r, x.name)
      PROVE  Before(r, x, o, Api(o))
  <2>1. Api(o) = log[K][Len(log[K])][o] /\ Cached(o) = log[K][1][o]
    BY <1>2 DEF Api, Cached
  <2>2. Api(o) \in Objects
    BY <1>2, ObjectTypes
  <2>3. CASE Api(o).created <= x.created
    <3>1. Cached(o) # Absent
      BY <1>1, <1>2, <2>1, <2>3 DEF CopyInv
    <3>2. Same(Cached(o), Api(o))
      BY <1>1, <1>2, <2>1, <3>1 DEF LogStamps
    <3>3. o \in Rivals(r, x.name)
      BY <1>2, <3>1, <3>2 DEF Rivals, IsLXC, Same
    <3>4. ~Before(o, Cached(o), r, x)
      BY <3>3 DEF Owns
    <3>5. x.created = Api(o).created /\ ~(Rank[o] < Rank[r])
      BY <1>1, <2>2, <2>3, <3>2, <3>4 DEF Before, Same, Objects
    <3>6. Rank[o] \in Nat /\ Rank[r] \in Nat /\ Rank[o] # Rank[r]
      BY <1>2, GuestNameAssumption
    <3> QED
      BY <3>5, <3>6 DEF Before
  <2>4. CASE ~(Api(o).created <= x.created)
    BY <1>1, <2>2, <2>4 DEF Before, Objects
  <2> QED
    BY <2>3, <2>4
<1> QED
  BY <1>2 DEF CopyInv, OwnedStages

\* What a user or a reconcile may do to the logs: a first object, an edit, or nothing; or the
\* cache moves.  Renames, and keys or seconds used twice, are what this leaves out.
LEMMA NextLogStep ==
    ASSUME ~Renames, ~Recreates, ~SameSecond, TypeOK, OnlyCreates, [Next]_vars, ~Restart
    PROVE  LogStep
<1>1. ASSUME NEW r \in Resources, NEW x, Api(r) # Absent, Same(x, Api(r)), x \in Objects,
             Store(r, Settled(x)) \/ Store(r, x), UNCHANGED <<now, born>>
      PROVE  LogStep
  BY <1>1 DEF LogStep, Edit, Settled
<1>2. CASE UNCHANGED vars
  BY <1>2 DEF vars, LogStep
<1>3. CASE User
  <2>1. ASSUME NEW r \in Resources, UserDelete(r) PROVE LogStep
    BY <1>1, <2>1, ApiType DEF UserDelete, Same, Objects
  <2> QED
    BY <1>3, <2>1 DEF User, UserCreate, UserRename, Admit, LogStep
<1>4. ASSUME NEW q \in requests, PersistCreate(q) \/ PersistRename(q) PROVE LogStep
  <2>1. PersistCreate(q) /\ q.res \in Resources /\ q.name \in Names /\ q.mode \in Modes
    BY <1>4 DEF OnlyCreates, PersistRename, TypeOK, Requests
  <2> DEFINE x == [created |-> now, name |-> q.name, mode |-> q.mode, deleting |-> FALSE,
                   finalizer |-> FALSE, conflict |-> FALSE, marked |-> FALSE]
  <2>2. x \in Objects /\ x # Absent /\ x.created = now
    <3>1. now \in Nat
      BY DEF TypeOK
    <3>2. x \in Objects
      BY <2>1, <3>1 DEF Objects
    <3> QED
      BY <3>2, GuestNameAssumption
  <2>3. CASE UNCHANGED <<log, now, born>>
    BY <2>3 DEF LogStep
  <2>4. CASE ~UNCHANGED <<log, now, born>>
    <3>1. q.res \notin born /\ Store(q.res, x) /\ now' = now + 1 /\ born' = born \cup {q.res}
      BY <2>1, <2>4 DEF PersistCreate
    <3> QED
      BY <2>1, <2>2, <3>1 DEF LogStep, Creation
  <2> QED
    BY <2>3, <2>4
<1>5. ASSUME NEW k \in Kinds, Deliver(k) PROVE LogStep
  BY <1>5 DEF LogStep
<1>6. ASSUME NEW r \in Resources, NEW x \in Objects, NEW t, UpdateObject(r, x, t), obj[r] # Absent,
             Same(x, obj[r]), UNCHANGED <<now, born>>
      PROVE  LogStep
  <2>1. CASE Api(r) = obj[r] /\ Store(r, Settled(x))
    BY <1>1, <1>6, <2>1
  <2>2. CASE UNCHANGED log
    BY <1>6, <2>2 DEF LogStep
  <2> QED
    BY <1>6, <2>1, <2>2 DEF UpdateObject
<1>7. ASSUME NEW r \in Resources, Reconcile(r) PROVE LogStep
  <2>1. CASE ClearConflict(r) \/ MarkConflict(r) \/ MarkDeleting(r)
    <3>1. CASE UNCHANGED log
      BY <2>1, <3>1 DEF ClearConflict, MarkConflict, MarkDeleting, LogStep
    <3>2. CASE ~UNCHANGED log
      <4>1. PICK b \in BOOLEAN : /\ Api(r) # Absent /\ UNCHANGED <<now, born>>
                                 /\ \/ Store(r, [Api(r) EXCEPT !.conflict = b])
                                    \/ Store(r, [Api(r) EXCEPT !.marked = b])
        BY <2>1, <3>2 DEF ClearConflict, MarkConflict, MarkDeleting
      <4>2. /\ [Api(r) EXCEPT !.conflict = b] \in Objects /\ [Api(r) EXCEPT !.marked = b] \in Objects
            /\ Same([Api(r) EXCEPT !.conflict = b], Api(r))
            /\ Same([Api(r) EXCEPT !.marked = b], Api(r))
        BY <4>1, ApiType DEF Same, Objects
      <4> QED
        BY <1>1, <4>1, <4>2
    <3> QED
      BY <3>1, <3>2
  <2>2. CASE Release(r) \/ HandleFinalizer(r) \/ RemoveFinalizer(r)
    <3>1. obj[r] \in Objects /\ obj[r] # Absent
      BY <2>2 DEF Release, HandleFinalizer, RemoveFinalizer, TypeOK, Snapshots
    <3>2. \A b \in BOOLEAN : /\ [obj[r] EXCEPT !.finalizer = b] \in Objects
                            /\ Same([obj[r] EXCEPT !.finalizer = b], obj[r])
      BY <3>1 DEF Objects, Same
    <3> QED
      BY <1>6, <2>2, <3>1, <3>2 DEF Release, HandleFinalizer, RemoveFinalizer
  <2> QED
    BY <1>7, <2>1, <2>2 DEF Reconcile, Get, Claim, Dispatch, Operate, DeleteGuest, LogStep
<1>8. ASSUME NEW r \in Resources, TimerFires(r) \/ ReconcileError(r) \/ Drift(r) PROVE LogStep
  BY <1>8 DEF TimerFires, ReconcileError, Drift, LogStep
<1> QED
  BY <1>2, <1>3, <1>4, <1>5, <1>7, <1>8 DEF Next, Persist

\* A step of r's reconcile leaves it in a stage that fits its copy: the owner's stages are
\* entered through Owns alone.
LEMMA ReconcileCopy ==
    ASSUME TypeOK, LogStamps, LogOrder, NEW r \in Resources, CopyInv(r, pc[r], obj[r]), Reconcile(r)
    PROVE  /\ CopyInv(r, pc'[r], obj'[r])
           /\ \A q \in Resources \ {r} : pc'[q] = pc[q] /\ obj'[q] = obj[q]
<1>1. pc \in [Resources -> Stages] /\ obj \in Snapshots
  BY DEF TypeOK
<1>2. \A q \in Resources \ {r} : pc'[q] = pc[q] /\ obj'[q] = obj[q]
  BY <1>1 DEF Reconcile, Get, Claim, ClearConflict, MarkConflict, Release, Dispatch,
              HandleFinalizer, Operate, MarkDeleting, DeleteGuest, RemoveFinalizer, UpdateObject,
              Return, Requeue, Goto, Snapshots
<1> SUFFICES CopyInv(r, pc'[r], obj'[r])
  BY <1>2
<1>3. CASE pc'[r] = "idle"
  BY <1>3 DEF CopyInv
<1>4. CASE Get(r) /\ pc'[r] # "idle"
  <2>1. Cached(r) # Absent /\ pc'[r] = "claim" /\ obj'[r] = Cached(r)
    BY <1>1, <1>4 DEF Get, Goto, Snapshots
  <2> QED
    BY <2>1, GetCopy
<1>5. CASE Claim(r) /\ Owns(r)
  <2>1. obj'[r] = obj[r] /\ pc'[r] \in OwnedStages /\ pc[r] = "claim"
    BY <1>1, <1>5 DEF Claim, Goto, OwnedStages
  <2> QED
    BY <1>5, <2>1, ClaimCopy
<1>6. CASE pc[r] # "idle" /\ pc'[r] # "claim" /\ obj'[r] \in Objects /\ Same(obj[r], obj'[r])
           /\ (pc'[r] \in OwnedStages => pc[r] \in OwnedStages)
  BY <1>6, StageCopy
<1>7. pc[r] # "idle" => /\ obj[r] \in Objects /\ Same(obj[r], obj[r])
                        /\ \A b \in BOOLEAN : /\ [obj[r] EXCEPT !.finalizer = b] \in Objects
                                             /\ Same(obj[r], [obj[r] EXCEPT !.finalizer = b])
  BY DEF CopyInv, Objects, Same
<1>8. CASE Claim(r) /\ ~Owns(r)
  <2>1. pc[r] = "claim" /\ pc'[r] \in {"lost", "release", "idle"} /\ obj'[r] = obj[r]
    BY <1>1, <1>8 DEF Claim, Goto
  <2> QED
    BY <1>3, <1>6, <1>7, <2>1 DEF OwnedStages
<1>9. CASE ClearConflict(r) \/ MarkDeleting(r)
  <2>1. pc[r] \in {"clear", "deleting"} /\ pc'[r] \in {"owned", "delete", "idle"}
    BY <1>1, <1>9 DEF ClearConflict, MarkDeleting, Return, Goto
  <2>2. CASE obj'[r] = obj[r]
    BY <1>3, <1>6, <1>7, <2>1, <2>2 DEF OwnedStages
  <2>3. CASE obj'[r] # obj[r]
    <3>1. PICK b \in BOOLEAN : /\ Api(r) # Absent
                               /\ obj'[r] \in {[Api(r) EXCEPT !.conflict = b], [Api(r) EXCEPT !.marked = b]}
      BY <1>1, <1>9, <2>3 DEF ClearConflict, MarkDeleting, Snapshots
    <3>2. /\ [Api(r) EXCEPT !.conflict = b] \in Objects /\ [Api(r) EXCEPT !.marked = b] \in Objects
          /\ Same(Api(r), [Api(r) EXCEPT !.conflict = b])
          /\ Same(Api(r), [Api(r) EXCEPT !.marked = b])
      BY <3>1, ApiType DEF Same, Objects
    <3>3. Len(log[Kind[r]]) \in 1..Len(log[Kind[r]])
      BY ObjectTypes
    <3>4. Same(obj[r], Api(r))
      BY <2>1, <3>1, <3>3 DEF CopyInv, Api
    <3>5. obj'[r] \in Objects /\ Same(obj[r], obj'[r])
      BY <3>1, <3>2, <3>4 DEF Same
    <3> QED
      BY <1>3, <1>6, <2>1, <3>5 DEF OwnedStages
  <2> QED
    BY <2>2, <2>3
<1>10. CASE Release(r) \/ HandleFinalizer(r) \/ RemoveFinalizer(r)
  <2>1. /\ pc[r] \in {"release", "finalizer", "unfinalize"}
        /\ pc'[r] = "idle" \/ (pc'[r] = "operate" /\ pc[r] = "finalizer")
        /\ \/ obj'[r] = obj[r]
           \/ \E b \in BOOLEAN : obj'[r] = [obj[r] EXCEPT !.finalizer = b]
    BY <1>1, <1>10 DEF Release, HandleFinalizer, RemoveFinalizer, UpdateObject, Return, Requeue,
                       Goto, Snapshots
  <2> QED
    BY <1>3, <1>6, <1>7, <2>1 DEF OwnedStages
<1>11. CASE MarkConflict(r) \/ Operate(r)
  BY <1>1, <1>3, <1>11 DEF MarkConflict, Operate, Return, Goto
<1>12. CASE Dispatch(r) \/ DeleteGuest(r)
  <2>1. /\ pc[r] \in {"owned", "delete"} /\ obj'[r] = obj[r]
        /\ pc'[r] \in {"idle", "ensure", "operate", "finalizer", "deleting", "unfinalize"}
    BY <1>1, <1>12 DEF Dispatch, DeleteGuest, Goto
  <2> QED
    BY <1>3, <1>6, <1>7, <2>1 DEF OwnedStages
<1> QED
  BY <1>3, <1>4, <1>5, <1>8, <1>9, <1>10, <1>11, <1>12 DEF Reconcile

\* Every step keeps the invariant.
LEMMA InvStep ==
    ASSUME ~Renames, ~Recreates, ~SameSecond
    PROVE  IInv /\ [Next]_vars => IInv'
<1> SUFFICES ASSUME IInv, [Next]_vars PROVE IInv'
  OBVIOUS
<1>1. TypeOK /\ OnlyCreates /\ LogStamps /\ LogOrder /\ TypeOK'
  BY TypeStep DEF IInv
<1>2. \A r \in Resources : CopyInv(r, pc[r], obj[r])
  BY DEF IInv
<1>3. OnlyCreates'
  <2>1. CASE \E r \in Resources, n \in Names, m \in Modes : UserCreate(r, n, m)
    BY <1>1, <2>1 DEF UserCreate, Admit, OnlyCreates
  <2>2. CASE requests' \subseteq requests
    BY <1>1, <2>2 DEF OnlyCreates
  <2>3. ASSUME NEW r \in Resources, Reconcile(r) PROVE requests' \subseteq requests
    BY <2>3 DEF Reconcile, Get, Claim, ClearConflict, MarkConflict, Release, Dispatch,
                HandleFinalizer, Operate, MarkDeleting, DeleteGuest, RemoveFinalizer
  <2> QED
    BY <2>1, <2>2, <2>3 DEF Next, vars, User, UserRename, UserDelete, Persist, PersistCreate,
          PersistRename, Deliver, TimerFires, ReconcileError, Drift, Restart
<1>4. CASE Restart
  <2>1. /\ \A k \in Kinds : log'[k] = <<log[k][Len(log[k])]>>
        /\ \A r \in Resources : pc'[r] = "idle"
        /\ now' = now /\ born' = born
    BY <1>4 DEF Restart
  <2>2. \A k \in Kinds : /\ Len(log'[k]) = 1 /\ log'[k][1] = log[k][Len(log[k])]
                         /\ Len(log[k]) \in 1..Len(log[k])
    <3>1. ASSUME NEW k \in Kinds PROVE Len(log[k]) \in 1..Len(log[k])
      BY <1>1 DEF TypeOK
    <3>2. \A z : Len(<<z>>) = 1 /\ <<z>>[1] = z
      OBVIOUS
    <3> QED
      BY <2>1, <3>1, <3>2
  <2>3. LogStamps'
    BY <1>1, <2>1, <2>2 DEF LogStamps, Same
  <2>4. LogOrder'
    <3>1. SUFFICES ASSUME NEW q \in Resources, NEW o \in Resources, Kind[o] = Kind[q],
                          Api(o)' # Absent, NEW i \in 1..Len(log'[Kind[q]]),
                          NEW j \in i..Len(log'[Kind[q]])
                   PROVE  log'[Kind[q]][j][o] # Absent
      BY DEF LogOrder
    <3>2. Kind[q] \in Kinds
      BY <1>1, ObjectTypes
    <3>3. Len(log'[Kind[q]]) = 1 /\ j = 1
      BY <2>2, <3>2
    <3> QED
      BY <3>1, <3>3 DEF Api
  <2> QED
    BY <1>1, <1>3, <2>1, <2>3, <2>4 DEF IInv, CopyInv
<1>5. CASE ~Restart
  <2>1. /\ LogStamps' /\ LogOrder'
        /\ \A r \in Resources : \A s, x : CopyInv(r, s, x) => CopyInv(r, s, x)'
    BY <1>1, <1>5, NextLogStep, LogStepKeeps
  <2>2. ASSUME NEW q \in Resources PROVE CopyInv(q, pc'[q], obj'[q])
    <3>1. CASE \E r \in Resources : Reconcile(r)
      BY <1>1, <1>2, <3>1, ReconcileCopy
    <3>2. CASE pc'[q] = "idle"
      BY <3>2 DEF CopyInv
    <3>3. CASE pc'[q] = pc[q] /\ obj'[q] = obj[q]
      BY <1>2, <3>3
    <3>4. ASSUME NEW r \in Resources, ReconcileError(r)
          PROVE  pc'[q] = "idle" \/ (pc'[q] = pc[q] /\ obj'[q] = obj[q])
      BY <1>1, <3>4 DEF ReconcileError, Requeue, Goto, TypeOK
    <3> QED
      BY <1>5, <3>1, <3>2, <3>3, <3>4 DEF Next, vars, User, UserCreate, UserRename, UserDelete,
            Admit, Persist, PersistCreate, PersistRename, Deliver, TimerFires, Drift
  <2>3. \A q \in Resources : CopyInv(q, pc[q], obj[q])'
    BY <2>1, <2>2
  <2> QED
    BY <1>1, <1>3, <2>1, <2>3 DEF IInv
<1> QED
  BY <1>4, <1>5

\* The invariant holds all along, as long as the watch does order the claims.
LEMMA InvAlways ==
    ASSUME ~Renames, ~Recreates, ~SameSecond
    PROVE  Spec => []IInv
<1>1. Init => IInv
  <2> SUFFICES ASSUME Init PROVE IInv
    OBVIOUS
  <2>1. \A k \in Kinds : Len(log[k]) = 1 /\ \A r \in Resources : log[k][1][r] = Absent
    BY DEF Init
  <2>2. \A r \in Resources : Kind[r] \in Kinds /\ Api(r) = Absent /\ pc[r] = "idle"
    BY <2>1, GuestNameAssumption DEF Init, Api
  <2>3. LogStamps /\ LogOrder
    BY <2>1, <2>2 DEF LogStamps, LogOrder
  <2> QED
    BY <2>2, <2>3, TypeInit DEF IInv, OnlyCreates, CopyInv, Init
<1>2. IInv /\ [Next]_vars => IInv'
  BY InvStep
<1> QED
  BY <1>1, <1>2, PTL DEF Spec

\* A reconcile past claimGuest works on a guest only as the oldest live claim of its kind, for
\* any number of resources and events in flight, as long as the watch does order the claims.
THEOREM OldestOperates ==
    ASSUME ~Renames, ~Recreates, ~SameSecond
    PROVE  Spec => []OperatorIsOldest
<1>1. IInv => OperatorIsOldest
  BY DEF IInv, CopyInv, OperatorIsOldest, Working, Contends, OwnedStages
<1> QED
  BY <1>1, InvAlways, PTL

\* An object that claimed earlier than another did not claim later as well.
LEMMA BeforeOneWay ==
    ASSUME NEW r \in Resources, NEW o \in Resources, NEW x \in Objects, NEW y \in Objects,
           Before(r, x, o, y)
    PROVE  ~Before(o, y, r, x)
<1>1. x.created \in Nat /\ y.created \in Nat /\ Rank[r] \in Nat /\ Rank[o] \in Nat
  BY GuestNameAssumption DEF Objects
<1> QED
  BY <1>1 DEF Before

\* A guest isn't handed over while its owner is live: when two reconciles of one kind are past
\* claimGuest with the same guest, the resource with the earlier claim is gone.  A live one would
\* be a rival whose claim the later reconcile's own copy would have to precede.
THEOREM HandoverAfterOwner ==
    ASSUME ~Renames, ~Recreates, ~SameSecond
    PROVE  Spec => []HandedOverWhenGone
<1>1. IInv => HandedOverWhenGone
  <2> SUFFICES ASSUME IInv, NEW r \in Resources, NEW o \in Resources, Clash(r, o),
                      Before(r, obj[r], o, obj[o]), Api(r) # Absent
               PROVE  FALSE
    BY DEF HandedOverWhenGone
  <2>1. /\ r # o /\ Kind[r] = Kind[o] /\ pc[r] \in OwnedStages /\ pc[o] \in OwnedStages
        /\ pc[r] # "idle" /\ pc[o] # "idle"
        /\ Guest(r, obj[r].name) = Guest(o, obj[o].name)
    BY DEF Clash, Working, OwnedStages
  <2>2. CopyInv(r, pc[r], obj[r]) /\ CopyInv(o, pc[o], obj[o])
    BY DEF IInv
  <2>3. obj[r] \in Objects /\ obj[o] \in Objects /\ Same(obj[r], Api(r))
    <3>1. Len(log[Kind[r]]) \in 1..Len(log[Kind[r]])
      BY ObjectTypes DEF IInv
    <3> QED
      BY <2>1, <2>2, <3>1 DEF CopyInv, Api
  <2>4. Before(o, obj[o], r, Api(r))
    BY <2>1, <2>2, <2>3 DEF CopyInv, Same
  <2>5. Before(o, obj[o], r, obj[r])
    BY <2>3, <2>4 DEF Before, Same
  <2> QED
    BY <2>3, <2>5, BeforeOneWay
<1> QED
  BY <1>1, InvAlways, PTL
=============================================================================
