------------------------- MODULE ClientCacheProofs -------------------------
(* For any number of workers, rotations, edits, failures and events in flight: a cached client *)
(* never gets an older credential, and a client is never behind what the status of its         *)
(* connection says was observed.                                                               *)
EXTENDS ClientCache, TLAPS

\* Nothing that was read of the Secret is newer than the Secret.
Past ==
    /\ \A k \in 1..Len(log) : log[k].observed <= secret.rv
    /\ ctl.read <= secret.rv
    /\ ctl.copy # None => ctl.copy.observed <= secret.rv
    /\ \A w \in Workers : copy[w] # None => copy[w].observed <= secret.rv
    /\ clientCache # None => clientCache.cred <= secret.rv
    /\ \A w \in Workers : read[w] <= secret.rv

\* A client has at least the credential that its version of the connection was observed with.
Observed ==
    /\ clientCache # None => clientCache.cred >= clientCache.conn.observed
    /\ \A w \in Workers : used[w] # None => used[w].cred >= used[w].conn.observed

\* What a worker read under the mutex is not older than the cached credential, nor than what its
\* copy of the connection says was observed.
Storing ==
    \A w \in Workers : pc[w] = "store" =>
        /\ clientCache # None => read[w] >= clientCache.cred
        /\ copy[w].observed <= read[w]

IInv == TypeOK /\ Past /\ Observed /\ Storing

------------------------------------------------------------------------------

\* What a version says was observed is a version of the Secret, or -1.
LEMMA Counted ==
    ASSUME NEW v \in Versions
    PROVE  v.observed \in Int
BY DEF Versions

\* What the controller's cache and the API server hold of the connection are versions of it.
LEMMA Shapes ==
    ASSUME TypeOK
    PROVE  /\ Len(log) \in Nat /\ Len(log) >= 1
           /\ \A k \in 1..Len(log) : log[k] \in Versions
           /\ Api \in Versions /\ Cached \in Versions
           /\ Api = log[Len(log)] /\ Cached = log[1]
           /\ secret.rv \in Nat /\ secret.there \in BOOLEAN
<1>1. log \in Seq(Versions) /\ Len(log) \in Nat /\ Len(log) >= 1
  BY DEF TypeOK
<1>2. \A k \in 1..Len(log) : log[k] \in Versions
  BY <1>1
<1> QED
  BY <1>1, <1>2 DEF Api, Cached, TypeOK

\* A write adds at most one version, with what the writer says was observed.
LEMMA Written ==
    ASSUME TypeOK, NEW x \in Versions, Write(x)
    PROVE  /\ log' \in Seq(Versions) /\ Len(log') >= 1
           /\ \A k \in 1..Len(log') :
                 (k \in 1..Len(log) /\ log'[k] = log[k]) \/ log'[k].observed = x.observed
<1> DEFINE y == [x EXCEPT !.rv = Api.rv + 1]
<1>1. CASE UNCHANGED log
  BY <1>1 DEF TypeOK
<1>2. CASE log' = Append(log, y)
  <2>1. y \in Versions /\ y.observed = x.observed
    <3>1. Api.rv + 1 \in Nat
      BY Shapes DEF Versions
    <3> QED
      BY <3>1 DEF Versions
  <2>2. log \in Seq(Versions) /\ Len(log) \in Nat
    BY DEF TypeOK
  <2>3. /\ log' \in Seq(Versions) /\ Len(log') = Len(log) + 1
        /\ log'[Len(log) + 1] = y /\ \A k \in 1..Len(log) : log'[k] = log[k]
    BY <1>2, <2>1, <2>2
  <2>4. ASSUME NEW k \in 1..Len(log')
        PROVE  (k \in 1..Len(log) /\ log'[k] = log[k]) \/ log'[k].observed = x.observed
    <3>1. k \in 1..Len(log) \/ k = Len(log) + 1
      BY <2>2, <2>3
    <3> QED
      BY <2>1, <2>3, <3>1
  <2> QED
    BY <2>2, <2>3, <2>4
<1> QED
  BY <1>1, <1>2 DEF Write

\* The controller's patch leaves what was observed as it is, or sets it to what it has just read.
LEMMA PatchedShape ==
    ASSUME TypeOK, Past, ctl.stage = "patch", NEW o, o \in {ctl.copy.observed, ctl.read},
           NEW r \in {"Ready", "Error", "Unavailable"}
    PROVE  Patched(o, r) \in Versions /\ Patched(o, r).observed <= secret.rv
<1>1. ctl.copy \in Versions /\ ctl.read \in Nat \cup {-1} /\ ctl.read <= secret.rv
      /\ ctl.copy.observed <= secret.rv
  BY DEF TypeOK, Past
<1>2. Api \in Versions /\ Api.observed <= secret.rv
  BY Shapes DEF Past
<1>3. o \in Nat \cup {-1} /\ o <= secret.rv
  BY <1>1 DEF Versions
<1> QED
  BY <1>1, <1>2, <1>3, Shapes DEF Patched, Versions

\* The log of the connection's versions stays well typed, and what it says was observed stays in
\* the past; the Secret's versions only grow.
LEMMA LogKept ==
    ASSUME TypeOK, Past, [Next]_vars
    PROVE  /\ log' \in Seq(Versions) /\ Len(log') >= 1
           /\ \A k \in 1..Len(log') : log'[k].observed <= secret'.rv
           /\ secret' \in [rv: Nat, there: BOOLEAN] /\ secret'.rv >= secret.rv
<1> DEFINE Goal ==
      /\ log' \in Seq(Versions) /\ Len(log') >= 1
      /\ \A k \in 1..Len(log') : log'[k].observed <= secret'.rv
      /\ secret' \in [rv: Nat, there: BOOLEAN] /\ secret'.rv >= secret.rv
<1> USE Shapes
<1> SUFFICES Goal
  OBVIOUS
<1>1. ASSUME log' = log, secret' = secret PROVE Goal
  BY <1>1 DEF TypeOK, Past
<1>2. ASSUME NEW x \in Versions, Write(x), x.observed <= secret.rv, secret' = secret PROVE Goal
  <2>1. /\ log' \in Seq(Versions) /\ Len(log') >= 1
        /\ \A k \in 1..Len(log') :
              (k \in 1..Len(log) /\ log'[k] = log[k]) \/ log'[k].observed = x.observed
    BY <1>2, Written
  <2>2. \A k \in 1..Len(log) : log[k].observed <= secret.rv
    BY DEF Past
  <2>3. \A k \in 1..Len(log') : log'[k].observed <= secret'.rv
    <3>1. SUFFICES ASSUME NEW k \in 1..Len(log') PROVE log'[k].observed <= secret.rv
      BY <1>2
    <3> QED
      BY <1>2, <2>1, <2>2
  <2>4. secret' \in [rv: Nat, there: BOOLEAN] /\ secret'.rv >= secret.rv
    BY <1>2 DEF TypeOK
  <2> QED
    BY <2>1, <2>3, <2>4
<1>3. CASE EditSpec
  <2>1. [Api EXCEPT !.spec = @ + 1] \in Versions
        /\ [Api EXCEPT !.spec = @ + 1].observed = Api.observed
    BY DEF Versions
  <2>2. Api.observed <= secret.rv
    BY DEF Past
  <2> QED
    BY <1>2, <1>3, <2>1, <2>2 DEF EditSpec
<1>4. CASE WriteSecret
  <2>1. log' = log /\ \E there \in BOOLEAN : secret' = [rv |-> secret.rv + 1, there |-> there]
    BY <1>4 DEF WriteSecret
  <2>2. ASSUME NEW k \in 1..Len(log) PROVE log[k].observed <= secret.rv + 1
    <3>1. log[k] \in Versions /\ log[k].observed <= secret.rv /\ secret.rv \in Nat
      BY DEF Past
    <3>2. log[k].observed \in Int
      BY <3>1, Counted
    <3> QED
      BY <3>1, <3>2
  <2> QED
    BY <2>1, <2>2 DEF TypeOK
<1>5. CASE Deliver
  <2>1. log' = Tail(log) /\ Len(log) > 1 /\ log \in Seq(Versions) /\ secret' = secret
    BY <1>5 DEF Deliver, TypeOK
  <2>2. /\ log' \in Seq(Versions) /\ Len(log') = Len(log) - 1
        /\ \A k \in 1..Len(log') : log'[k] = log[k + 1]
    BY <2>1
  <2> QED
    BY <2>1, <2>2 DEF TypeOK, Past
<1>6. CASE ControllerPatch
  <2>1. secret' = secret /\ ctl.stage = "patch"
    BY <1>6 DEF ControllerPatch
  <2>2. CASE Write(Patched(ctl.copy.observed, "Unavailable"))
    BY <1>2, <2>1, <2>2, PatchedShape
  <2>3. CASE Write(Patched(ctl.read, "Ready"))
    BY <1>2, <2>1, <2>3, PatchedShape
  <2>4. CASE Write(Patched(ctl.read, "Error"))
    BY <1>2, <2>1, <2>4, PatchedShape
  <2> QED
    BY <1>6, <2>2, <2>3, <2>4 DEF ControllerPatch
<1>7. CASE Restart
  <2>1. log' = <<Api>> /\ secret' = secret
    BY <1>7 DEF Restart
  <2>2. log' \in Seq(Versions) /\ Len(log') = 1 /\ log'[1] = Api
    BY <2>1
  <2> QED
    BY <2>1, <2>2 DEF TypeOK, Past
<1>8. CASE \/ SecretEvent \/ ControllerGet \/ ControllerResolve \/ ControllerError \/ Expire
           \/ UNCHANGED vars
           \/ \E w \in Workers : FromRef(w) \/ ResolveError(w)
  <2>1. log' = log /\ secret' = secret
    BY <1>8 DEF SecretEvent, ControllerGet, ControllerResolve, ControllerError, Expire, vars, FromRef,
                GetConnection, CacheHit, CacheMiss, Resolve, StoreClient, ResolveError
  <2> QED
    BY <1>1, <2>1
<1> QED
  BY <1>3, <1>4, <1>5, <1>6, <1>7, <1>8 DEF Next, Controller
\* The rest of the state: the controller's reconcile, the workers and the cached client.
LEMMA TypeKept ==
    ASSUME TypeOK, Past, [Next]_vars
    PROVE  TypeOK'
<1> DEFINE CtlType ==
             /\ ctl' \in [stage: {"idle", "resolve", "patch"}, copy: Versions \cup {None}, read: Nat \cup {-1}]
             /\ ctl'.stage # "idle" => ctl'.copy # None
           WorkerType ==
             /\ clientCache' \in Clients \cup {None}
             /\ mutex' \in Workers \cup {None}
             /\ pc' \in [Workers -> {"idle", "lock", "resolve", "store"}]
             /\ copy' \in [Workers -> Versions \cup {None}]
             /\ \A w \in Workers : pc'[w] # "idle" => copy'[w] # None
             /\ read' \in [Workers -> Nat]
             /\ used' \in [Workers -> Clients \cup {None}]
             /\ \A w \in Workers : pc'[w] \in {"resolve", "store"} => mutex' = w
           RestType == conn' \in Connections /\ notice' \in BOOLEAN /\ queue' \in BOOLEAN /\ events' \in Nat
<1> USE Shapes
<1>1. RestType
  <2>1. conn' = conn /\ events' \in {events, events + 1}
    BY DEF Next, vars, EditSpec, WriteSecret, SecretEvent, Deliver, Controller, ControllerGet,
           ControllerResolve, ControllerPatch, ControllerError, FromRef, GetConnection, CacheHit,
           CacheMiss, Resolve, StoreClient, ResolveError, Expire, Restart
  <2>2. notice' \in {notice, TRUE, FALSE}
    BY DEF Next, vars, EditSpec, WriteSecret, SecretEvent, Deliver, Controller, ControllerGet,
           ControllerResolve, ControllerPatch, ControllerError, FromRef, GetConnection, CacheHit,
           CacheMiss, Resolve, StoreClient, ResolveError, Expire, Restart
  <2>3. Deliver => queue' \in BOOLEAN
    BY Zenon DEF Deliver, TypeOK
  <2>4. queue' \in {queue, TRUE, FALSE} \/ Deliver
    BY DEF Next, vars, EditSpec, WriteSecret, SecretEvent, Controller, ControllerGet,
           ControllerResolve, ControllerPatch, ControllerError, FromRef, GetConnection, CacheHit,
           CacheMiss, Resolve, StoreClient, ResolveError, Expire, Restart
  <2>5. queue' \in BOOLEAN
    BY <2>3, <2>4 DEF TypeOK
  <2>6. notice' \in BOOLEAN
    BY <2>2 DEF TypeOK
  <2>7. conn' \in Connections /\ events' \in Nat
    BY <2>1 DEF TypeOK
  <2> QED
    BY <2>5, <2>6, <2>7
<1>2. CtlType
  <2>1. ctl' \in {ctl, Idle} => CtlType
    BY DEF TypeOK, Idle
  <2>2. CASE ControllerGet
    <3>1. ctl' = Idle \/ ctl' = [stage |-> "resolve", copy |-> Cached, read |-> -1]
      BY <2>2 DEF ControllerGet
    <3>2. CASE ctl' = [stage |-> "resolve", copy |-> Cached, read |-> -1]
      <4>1. Cached # None
        BY ClientCacheAssumption
      <4> QED
        BY <3>2, <4>1
    <3> QED
      BY <2>1, <3>1, <3>2
  <2>3. CASE ControllerResolve
    <3>1. \E n \in Nat \cup {-1} : ctl' = [ctl EXCEPT !.stage = "patch", !.read = n]
      BY <2>3 DEF ControllerResolve
    <3>2. ctl.stage = "resolve"
      BY <2>3 DEF ControllerResolve
    <3> QED
      BY <3>1, <3>2 DEF TypeOK
  <2>4. CASE ~ControllerGet /\ ~ControllerResolve
    <3>1. ctl' \in {ctl, Idle}
      BY <2>4 DEF Next, vars, EditSpec, WriteSecret, SecretEvent, Deliver, Controller, ControllerPatch,
                  ControllerError, FromRef, GetConnection, CacheHit, CacheMiss, Resolve, StoreClient,
                  ResolveError, Expire, Restart
    <3> QED
      BY <2>1, <3>1
  <2> QED
    BY <2>2, <2>3, <2>4
<1>3. WorkerType
  <2>1. ASSUME UNCHANGED <<clientCache, mutex, pc, copy, read, used>> PROVE WorkerType
    BY <2>1 DEF TypeOK
  \* A worker that holds the mutex, or nobody, gives it back and returns.
  <2>2. ASSUME NEW w \in Workers, Return(w), mutex' = None, mutex \in {w, None},
               clientCache' \in Clients \cup {None}, used' \in [Workers -> Clients \cup {None}]
        PROVE  WorkerType
    <3>1. /\ pc' \in [Workers -> {"idle", "lock", "resolve", "store"}]
          /\ copy' \in [Workers -> Versions \cup {None}] /\ read' \in [Workers -> Nat]
      BY <2>2 DEF Return, TypeOK
    <3>2. \A v \in Workers : pc'[v] = (IF v = w THEN "idle" ELSE pc[v])
                             /\ (v # w => copy'[v] = copy[v])
      BY <2>2 DEF Return, TypeOK
    <3>3. \A v \in Workers : pc'[v] # "idle" => copy'[v] # None
      BY <3>2 DEF TypeOK
    <3>4. \A v \in Workers : v # w => pc[v] \notin {"resolve", "store"}
      BY <2>2, ClientCacheAssumption DEF TypeOK
    <3>5. \A v \in Workers : pc'[v] \notin {"resolve", "store"}
      BY <3>2, <3>4
    <3> QED
      BY <2>2, <3>1, <3>3, <3>5
  <2>3. ASSUME NEW w \in Workers, GetConnection(w) PROVE WorkerType
    <3>1. /\ pc' = [pc EXCEPT ![w] = "lock"] /\ copy' = [copy EXCEPT ![w] = Cached]
          /\ UNCHANGED <<clientCache, mutex, read, used>> /\ Cached # None
      BY <2>3, ClientCacheAssumption DEF GetConnection
    <3>2. /\ pc' \in [Workers -> {"idle", "lock", "resolve", "store"}]
          /\ copy' \in [Workers -> Versions \cup {None}]
      BY <3>1 DEF TypeOK
    <3>3. \A v \in Workers : (pc'[v] # "idle" => copy'[v] # None)
                             /\ (pc'[v] \in {"resolve", "store"} => mutex' = v)
      BY <3>1 DEF TypeOK
    <3> QED
      BY <3>1, <3>2, <3>3 DEF TypeOK
  <2>4. ASSUME NEW w \in Workers, CacheHit(w) PROVE WorkerType
    <3>1. clientCache # None /\ Return(w) /\ mutex = None /\ mutex' = None /\ clientCache' = clientCache
          /\ used' = [used EXCEPT ![w] = clientCache]
      BY <2>4 DEF CacheHit, Hit
    <3>2. used' \in [Workers -> Clients \cup {None}]
      BY <3>1 DEF TypeOK
    <3> QED
      BY <2>2, <3>1, <3>2 DEF TypeOK
  <2>5. ASSUME NEW w \in Workers, CacheMiss(w) PROVE WorkerType
    <3>1. /\ pc' = [pc EXCEPT ![w] = "resolve"] /\ mutex = None /\ mutex' = w /\ pc[w] = "lock"
          /\ UNCHANGED <<clientCache, copy, read, used>>
      BY <2>5 DEF CacheMiss
    <3>2. \A v \in Workers : pc[v] \notin {"resolve", "store"}
      BY <3>1, ClientCacheAssumption DEF TypeOK
    <3>3. \A v \in Workers : (pc'[v] # "idle" => copy'[v] # None)
                             /\ (pc'[v] \in {"resolve", "store"} => mutex' = v)
      BY <3>1, <3>2 DEF TypeOK
    <3>4. pc' \in [Workers -> {"idle", "lock", "resolve", "store"}]
      BY <3>1 DEF TypeOK
    <3> QED
      BY <3>1, <3>3, <3>4 DEF TypeOK
  <2>6. ASSUME NEW w \in Workers, Resolve(w) PROVE WorkerType
    <3>1. pc[w] = "resolve" /\ mutex = w /\ UNCHANGED <<clientCache, used>>
      BY <2>6 DEF Resolve, TypeOK
    <3>2. CASE mutex' = None /\ Return(w)
      BY <2>2, <3>1, <3>2 DEF TypeOK
    <3>3. CASE /\ pc' = [pc EXCEPT ![w] = "store"] /\ read' = [read EXCEPT ![w] = secret.rv]
               /\ UNCHANGED <<mutex, copy>>
      <4>1. /\ pc' \in [Workers -> {"idle", "lock", "resolve", "store"}] /\ read' \in [Workers -> Nat]
        BY <3>3 DEF TypeOK
      <4>2. \A v \in Workers : (pc'[v] # "idle" => copy'[v] # None)
                               /\ (pc'[v] \in {"resolve", "store"} => mutex' = v)
        BY <3>1, <3>3 DEF TypeOK
      <4> QED
        BY <3>1, <3>3, <4>1, <4>2 DEF TypeOK
    <3> QED
      BY <2>6, <3>2, <3>3 DEF Resolve
  <2>7. ASSUME NEW w \in Workers, StoreClient(w) PROVE WorkerType
    <3>1. /\ pc[w] = "store" /\ mutex = w /\ mutex' = None /\ Return(w)
          /\ clientCache' = [conn |-> copy[w], cred |-> read[w], fresh |-> TRUE]
          /\ used' = [used EXCEPT ![w] = clientCache']
      BY <2>7 DEF StoreClient, TypeOK
    <3>2. copy[w] \in Versions /\ read[w] \in Nat
      BY <3>1 DEF TypeOK
    <3>3. clientCache' \in Clients
      BY <3>1, <3>2 DEF Clients
    <3>4. used' \in [Workers -> Clients \cup {None}]
      BY <3>1, <3>3 DEF TypeOK
    <3> QED
      BY <2>2, <3>1, <3>3, <3>4
  <2>8. ASSUME NEW w \in Workers, ResolveError(w) PROVE WorkerType
    <3>1. pc[w] = "resolve" /\ mutex = w /\ mutex' = None /\ Return(w) /\ UNCHANGED <<clientCache, used>>
      BY <2>8 DEF ResolveError, TypeOK
    <3> QED
      BY <2>2, <3>1 DEF TypeOK
  <2>9. CASE Expire
    <3>1. clientCache # None /\ clientCache' = [clientCache EXCEPT !.fresh = FALSE]
          /\ UNCHANGED <<mutex, pc, copy, read, used>>
      BY <2>9 DEF Expire
    <3>2. clientCache' \in Clients
      BY <3>1 DEF TypeOK, Clients
    <3> QED
      BY <3>1, <3>2 DEF TypeOK
  <2>10. CASE Restart
    BY <2>10 DEF Restart
  <2>11. CASE EditSpec \/ WriteSecret \/ SecretEvent \/ Deliver \/ Controller \/ ControllerError \/ UNCHANGED vars
    BY <2>1, <2>11 DEF EditSpec, WriteSecret, SecretEvent, Deliver, Controller, ControllerGet,
                       ControllerResolve, ControllerPatch, ControllerError, vars
  <2> QED
    BY <2>3, <2>4, <2>5, <2>6, <2>7, <2>8, <2>9, <2>10, <2>11 DEF Next, FromRef
<1> QED
  BY <1>1, <1>2, <1>3, LogKept DEF TypeOK
------------------------------------------------------------------------------

\* A reader of the Secret (ResolveCredentials) reads what it is now, and everything else is copied
\* from what was read before.
LEMMA PastKept ==
    ASSUME TypeOK, Past, [Next]_vars
    PROVE  Past'
<1> DEFINE Rest ==
             /\ ctl'.read <= secret'.rv
             /\ ctl'.copy # None => ctl'.copy.observed <= secret'.rv
             /\ \A w \in Workers : copy'[w] # None => copy'[w].observed <= secret'.rv
             /\ clientCache' # None => clientCache'.cred <= secret'.rv
             /\ \A w \in Workers : read'[w] <= secret'.rv
<1> USE Shapes
<1>1. secret'.rv >= secret.rv /\ secret'.rv \in Nat
  BY LogKept
<1>2. Cached \in Versions /\ Cached.observed <= secret.rv /\ Cached.observed \in Int
  BY DEF Past, Versions
<1>3. /\ ctl.read \in Int /\ (ctl.copy # None => ctl.copy.observed \in Int)
      /\ \A w \in Workers : copy[w] # None => copy[w].observed \in Int
      /\ clientCache # None => clientCache.cred \in Int
      /\ read \in [Workers -> Nat]
  <2>1. \A v \in Versions : v.observed \in Int
    BY DEF Versions
  <2>2. \A c \in Clients : c.cred \in Int
    BY DEF Clients
  <2>3. ctl.read \in Int /\ (ctl.copy # None => ctl.copy \in Versions)
    BY DEF TypeOK
  <2>4. \A w \in Workers : copy[w] # None => copy[w] \in Versions
    BY DEF TypeOK
  <2>5. (clientCache # None => clientCache \in Clients) /\ read \in [Workers -> Nat]
    BY DEF TypeOK
  <2> QED
    BY <2>1, <2>2, <2>3, <2>4, <2>5
<1>4. /\ ctl.read <= secret'.rv
      /\ ctl.copy # None => ctl.copy.observed <= secret'.rv
      /\ \A w \in Workers : copy[w] # None => copy[w].observed <= secret'.rv
      /\ clientCache # None => clientCache.cred <= secret'.rv
      /\ \A w \in Workers : read[w] <= secret'.rv
  BY <1>1, <1>3 DEF Past
<1>5. ASSUME NEW w \in Workers, Return(w)
      PROVE  /\ \A v \in Workers : copy'[v] # None => copy'[v].observed <= secret'.rv
             /\ \A v \in Workers : read'[v] <= secret'.rv
  <2>1. \A v \in Workers : copy'[v] = (IF v = w THEN None ELSE copy[v])
                           /\ read'[v] = (IF v = w THEN 0 ELSE read[v])
    BY <1>5 DEF Return, TypeOK
  <2> QED
    BY <1>1, <1>4, <2>1
<1>6. Rest
  <2>1. CASE UNCHANGED <<ctl, clientCache, copy, read>>
    BY <1>4, <2>1
  <2>2. CASE ControllerGet \/ ControllerResolve \/ ControllerPatch \/ ControllerError
    <3>1. UNCHANGED <<secret, clientCache, copy, read>>
      BY <2>2 DEF ControllerGet, ControllerResolve, ControllerPatch, ControllerError
    <3>2. CASE ctl' = Idle
      BY <1>1, <1>4, <3>1, <3>2 DEF Idle
    <3>3. CASE ctl' = [stage |-> "resolve", copy |-> Cached, read |-> -1]
      BY <1>2, <1>4, <3>1, <3>3
    <3>4. CASE ControllerResolve
      <4>1. ctl'.copy = ctl.copy /\ ctl'.read \in {secret.rv, -1}
        BY <3>4 DEF ControllerResolve, TypeOK
      <4> QED
        BY <1>4, <3>1, <4>1
    <3> QED
      BY <2>2, <3>2, <3>3, <3>4 DEF ControllerGet, ControllerPatch, ControllerError
  <2>3. ASSUME NEW w \in Workers, GetConnection(w) PROVE Rest
    <3>1. UNCHANGED <<ctl, clientCache, read>> /\ copy' = [copy EXCEPT ![w] = Cached] /\ secret' = secret
      BY <2>3 DEF GetConnection
    <3>2. \A v \in Workers : copy'[v] = (IF v = w THEN Cached ELSE copy[v])
      BY <3>1 DEF TypeOK
    <3> QED
      BY <1>2, <1>4, <3>1, <3>2
  <2>4. ASSUME NEW w \in Workers, CacheHit(w) \/ ResolveError(w) PROVE Rest
    BY <1>4, <1>5, <2>4 DEF CacheHit, ResolveError
  <2>5. ASSUME NEW w \in Workers, Resolve(w) PROVE Rest
    <3>1. UNCHANGED <<ctl, clientCache, secret>>
      BY <2>5 DEF Resolve
    <3>2. CASE Return(w)
      BY <1>4, <1>5, <3>1, <3>2
    <3>3. CASE read' = [read EXCEPT ![w] = secret.rv] /\ copy' = copy
      <4>1. \A v \in Workers : read'[v] = (IF v = w THEN secret.rv ELSE read[v])
        BY <1>3, <3>3
      <4> QED
        BY <1>4, <3>1, <3>3, <4>1
    <3> QED
      BY <2>5, <3>2, <3>3 DEF Resolve
  <2>6. ASSUME NEW w \in Workers, StoreClient(w) PROVE Rest
    <3>1. ctl' = ctl /\ secret' = secret /\ Return(w) /\ clientCache'.cred = read[w]
      BY <2>6 DEF StoreClient
    <3> QED
      BY <1>4, <1>5, <3>1
  <2>7. CASE Expire
    <3>1. UNCHANGED <<ctl, copy, read>> /\ clientCache # None
          /\ clientCache' = [clientCache EXCEPT !.fresh = FALSE]
      BY <2>7 DEF Expire
    <3>2. clientCache'.cred = clientCache.cred
      BY <3>1 DEF TypeOK, Clients
    <3> QED
      BY <1>4, <3>1, <3>2
  <2>8. CASE Restart
    <3>1. /\ ctl' = Idle /\ clientCache' = None /\ secret' = secret
          /\ copy' = [w \in Workers |-> None] /\ read' = [w \in Workers |-> 0]
      BY <2>8 DEF Restart
    <3> QED
      BY <1>1, <3>1 DEF Idle
  <2>9. CASE \/ EditSpec \/ WriteSecret \/ SecretEvent \/ Deliver \/ UNCHANGED vars
             \/ \E w \in Workers : CacheMiss(w)
    BY <2>1, <2>9 DEF EditSpec, WriteSecret, SecretEvent, Deliver, CacheMiss, vars
  <2> QED
    BY <2>2, <2>3, <2>4, <2>5, <2>6, <2>7, <2>8, <2>9 DEF Next, Controller, FromRef
<1> QED
  BY <1>6, LogKept DEF Past

\* What becomes of the cached client in a step: it stays or is marked old, it is dropped by a
\* restart, or the holder of the mutex (StoreClient) replaces it.
LEMMA CacheSteps ==
    ASSUME TypeOK, [Next]_vars
    PROVE  \/ clientCache' = clientCache
           \/ clientCache # None /\ clientCache' = [clientCache EXCEPT !.fresh = FALSE]
           \/ Restart
           \/ \E w \in Workers : StoreClient(w)
  BY DEF Next, vars, EditSpec, WriteSecret, SecretEvent, Deliver, Controller, ControllerGet,
         ControllerResolve, ControllerPatch, ControllerError, FromRef, GetConnection, CacheHit,
         CacheMiss, Resolve, StoreClient, ResolveError, Expire

\* Clients are built with what was read after the copy of their connection.
LEMMA ObservedKept ==
    ASSUME TypeOK, Observed, Storing, [Next]_vars
    PROVE  Observed'
<1>1. ASSUME NEW w \in Workers, StoreClient(w)
      PROVE  clientCache'.cred >= clientCache'.conn.observed /\ used' = [used EXCEPT ![w] = clientCache']
  <2>1. /\ clientCache' = [conn |-> copy[w], cred |-> read[w], fresh |-> TRUE]
        /\ used' = [used EXCEPT ![w] = clientCache'] /\ pc[w] = "store"
    BY <1>1 DEF StoreClient
  <2>2. copy[w].observed <= read[w] /\ copy[w] \in Versions /\ read[w] \in Nat
    BY <2>1 DEF Storing, TypeOK
  <2> QED
    BY <2>1, <2>2 DEF Versions
<1>2. clientCache' # None => clientCache'.cred >= clientCache'.conn.observed
  <2>1. CASE clientCache # None /\ clientCache' = [clientCache EXCEPT !.fresh = FALSE]
    BY <2>1 DEF TypeOK, Clients, Observed
  <2>2. CASE clientCache' = clientCache
    BY <2>2 DEF Observed
  <2>3. Restart => clientCache' = None
    BY DEF Restart
  <2> QED
    BY <1>1, <2>1, <2>2, <2>3, CacheSteps
<1>3. \A v \in Workers : used'[v] # None => used'[v].cred >= used'[v].conn.observed
  <2>1. CASE used' = used
    BY <2>1 DEF Observed
  <2>2. CASE \E w \in Workers : CacheHit(w)
    <3>1. PICK w \in Workers : used' = [used EXCEPT ![w] = clientCache]
      BY <2>2 DEF CacheHit
    <3> QED
      BY <3>1 DEF TypeOK, Observed
  <2>3. ASSUME NEW w \in Workers, StoreClient(w)
        PROVE  \A v \in Workers : used'[v] # None => used'[v].cred >= used'[v].conn.observed
    BY <1>1, <2>3 DEF TypeOK, Observed
  <2>4. CASE Restart
    BY <2>4 DEF Restart
  <2> QED
    BY <2>1, <2>2, <2>3, <2>4
       DEF Next, vars, EditSpec, WriteSecret, SecretEvent, Deliver, Controller, ControllerGet,
           ControllerResolve, ControllerPatch, ControllerError, FromRef, GetConnection, CacheMiss,
           Resolve, ResolveError, Expire
<1> QED
  BY <1>2, <1>3 DEF Observed

\* The mutex keeps the cached client in place between the read of the Secret and the update.
LEMMA StoringKept ==
    ASSUME TypeOK, Past, Storing, [Next]_vars
    PROVE  Storing'
<1> SUFFICES ASSUME NEW v \in Workers, pc'[v] = "store"
             PROVE  /\ clientCache' # None => read'[v] >= clientCache'.cred
                    /\ copy'[v].observed <= read'[v]
  BY DEF Storing
<1>1. CASE \E w \in Workers : Resolve(w)
  <2>1. PICK w \in Workers : Resolve(w)
    BY <1>1
  <2>2. CASE v = w
    <3>1. read'[v] = secret.rv /\ copy'[v] = copy[v] /\ clientCache' = clientCache /\ copy[v] # None
      BY <2>1, <2>2 DEF Resolve, Return, TypeOK
    <3> QED
      BY <3>1, Shapes DEF Past, TypeOK, Clients
  <2>3. CASE v # w
    <3>1. pc[v] = "store" /\ pc[w] = "resolve"
      BY <2>1, <2>3 DEF Resolve, Return, TypeOK
    <3> QED
      BY <2>3, <3>1 DEF TypeOK
  <2> QED
    BY <2>2, <2>3
<1>2. CASE \E w \in Workers : StoreClient(w)
  <2>1. PICK w \in Workers : pc[w] = "store" /\ Return(w)
    BY <1>2 DEF StoreClient
  <2>2. v # w /\ pc[v] = "store"
    BY <2>1 DEF Return, TypeOK
  <2> QED
    BY <2>1, <2>2 DEF TypeOK
<1>3. CASE ~(\E w \in Workers : Resolve(w)) /\ ~(\E w \in Workers : StoreClient(w))
  <2>1. ~Restart
    BY DEF Restart
  <2>2. pc[v] = "store" /\ read'[v] = read[v] /\ copy'[v] = copy[v]
    <3>1. ASSUME NEW w \in Workers, Return(w) PROVE pc[v] = "store" /\ read'[v] = read[v] /\ copy'[v] = copy[v]
      BY <3>1 DEF Return, TypeOK
    <3>2. ASSUME NEW w \in Workers, GetConnection(w) \/ CacheMiss(w)
          PROVE  pc[v] = "store" /\ read'[v] = read[v] /\ copy'[v] = copy[v]
      BY <3>2 DEF GetConnection, CacheMiss, TypeOK
    <3>3. CASE UNCHANGED <<pc, copy, read>>
      BY <3>3
    <3> QED
      BY <1>3, <2>1, <3>1, <3>2, <3>3
         DEF Next, vars, EditSpec, WriteSecret, SecretEvent, Deliver, Controller, ControllerGet,
             ControllerResolve, ControllerPatch, ControllerError, FromRef, CacheHit, ResolveError, Expire
  <2>3. clientCache' # None => clientCache # None /\ clientCache'.cred = clientCache.cred
    BY <1>3, <2>1, CacheSteps DEF TypeOK, Clients
  <2> QED
    BY <2>2, <2>3 DEF Storing
<1> QED
  BY <1>1, <1>2, <1>3

------------------------------------------------------------------------------
(* The theorems *)

\* The invariant holds in a process that has just started.
LEMMA Initially ==
    ASSUME Init
    PROVE  IInv
<1> DEFINE x == [rv |-> 0, spec |-> 0, observed |-> -1, ready |-> "Unknown"]
<1>1. /\ log = <<x>> /\ secret = [rv |-> 0, there |-> TRUE] /\ conn \in Connections
      /\ notice = FALSE /\ queue = TRUE /\ ctl = [stage |-> "idle", copy |-> None, read |-> -1]
      /\ clientCache = None /\ mutex = None /\ events = 0
      /\ pc = [w \in Workers |-> "idle"] /\ copy = [w \in Workers |-> None]
      /\ read = [w \in Workers |-> 0] /\ used = [w \in Workers |-> None]
  BY DEF Init, Idle
<1>2. x \in Versions
  BY DEF Versions
<1>3. log \in Seq(Versions) /\ Len(log) = 1 /\ log[1] = x
  BY <1>1, <1>2
<1>4. TypeOK
  <2>1. secret \in [rv: Nat, there: BOOLEAN]
    BY <1>1
  <2>2. /\ ctl \in [stage: {"idle", "resolve", "patch"}, copy: Versions \cup {None}, read: Nat \cup {-1}]
        /\ ctl.stage = "idle"
    BY <1>1
  <2>3. /\ pc \in [Workers -> {"idle", "lock", "resolve", "store"}]
        /\ copy \in [Workers -> Versions \cup {None}]
        /\ read \in [Workers -> Nat]
        /\ used \in [Workers -> Clients \cup {None}]
    BY <1>1
  <2>4. \A w \in Workers : pc[w] = "idle"
    BY <1>1
  <2>5. /\ notice \in BOOLEAN /\ queue \in BOOLEAN /\ events \in Nat
        /\ clientCache \in Clients \cup {None} /\ mutex \in Workers \cup {None}
    BY <1>1
  <2> QED
    BY <1>1, <1>3, <2>1, <2>2, <2>3, <2>4, <2>5 DEF TypeOK
<1>5. Past /\ Observed /\ Storing
  BY <1>1, <1>3 DEF Past, Observed, Storing
<1> QED
  BY <1>4, <1>5 DEF IInv

\* Every step of NewProxmoxClientFromRef, the controller and their environment keeps it.
LEMMA Inductive ==
    ASSUME IInv, [Next]_vars
    PROVE  IInv'
  BY TypeKept, PastKept, ObservedKept, StoringKept DEF IInv

\* The state of the connection, its controller, the workers and the client cache is always of its
\* type, and between the check and the update of the cache a worker holds the mutex.
THEOREM TypeCorrect == Spec => []TypeOK
<1>1. IInv => TypeOK
  BY DEF IInv
<1> QED
  BY <1>1, Initially, Inductive, PTL DEF Spec

\* NewProxmoxClientFromRef never hands out a client whose credential is older than what the
\* status of the connection it was built for says was observed.
THEOREM ClientsAreUpToDate == Spec => []ObservedReachesClients
<1>1. IInv => ObservedReachesClients
  BY DEF IInv, Observed, ObservedReachesClients
<1> QED
  BY <1>1, Initially, Inductive, PTL DEF Spec

\* However many workers come with copies of whatever age, the cached credential never gets older.
THEOREM CacheIsMonotone == Spec => CredentialNeverGoesBack
<1> DEFINE Monotone == clientCache # None /\ clientCache' # None => clientCache'.cred >= clientCache.cred
<1>1. IInv /\ [Next]_vars => [Monotone]_vars
  <2> SUFFICES ASSUME IInv, [Next]_vars PROVE Monotone
    OBVIOUS
  <2>1. TypeOK /\ Storing
    BY DEF IInv
  <2>2. ASSUME NEW w \in Workers, StoreClient(w) PROVE Monotone
    <3>1. pc[w] = "store" /\ clientCache'.cred = read[w]
      BY <2>2 DEF StoreClient
    <3> QED
      BY <2>1, <3>1 DEF Storing
  <2>3. CASE Restart
    BY <2>3 DEF Restart
  <2>4. CASE clientCache' = clientCache
    BY <2>1, <2>4 DEF TypeOK, Clients
  <2>5. CASE clientCache # None /\ clientCache' = [clientCache EXCEPT !.fresh = FALSE]
    BY <2>1, <2>5 DEF TypeOK, Clients
  <2> QED
    BY <2>1, <2>2, <2>3, <2>4, <2>5, CacheSteps
<1> QED
  BY <1>1, Initially, Inductive, PTL DEF Spec, CredentialNeverGoesBack
=============================================================================
