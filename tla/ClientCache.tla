---------------------------- MODULE ClientCache ----------------------------
(* How a Proxmox credential reaches the clients: NewProxmoxClientFromRef and its cache of one  *)
(* client per ProxmoxConnection (pkg/proxmox/connection.go), ResolveCredentials                *)
(* (pkg/proxmox/credentials.go) and the ProxmoxConnection controller, for one connection whose *)
(* credential is in one Secret.  Workers are the reconciles that ask for a client.             *)
EXTENDS Integers, Sequences

CONSTANTS
    Workers,      \* reconciles that call NewProxmoxClientFromRef
    None,         \* no entry, no copy, no holder of the mutex
    Connections,  \* the connections considered: whether one has a username, so that its
                  \* clients expire, and whether its reconcile-mode annotation is Disable
    MaxRotations, \* bound: writes to the Secret
    MaxLag,       \* bound: watch events the connection's cache has yet to receive
    MaxEvents     \* bound: edits of the connection, failed calls and restarts, together

\* A version of the connection.  observed is status.observedSecrets, -1 for none yet.
Versions == [rv: Nat, spec: Nat, observed: Nat \cup {-1},
             ready: {"Unknown", "Ready", "Error", "Unavailable"}]

Clients == [conn: Versions, cred: Nat, fresh: BOOLEAN]

ASSUME ClientCacheAssumption ==
    /\ None \notin Workers \cup Versions \cup Clients
    /\ Connections \subseteq [session: BOOLEAN, disabled: BOOLEAN]
    /\ {MaxRotations, MaxLag, MaxEvents} \subseteq Nat

VARIABLES
    conn,    \* the connection: one of Connections
    log,     \* the versions of the connection from the one in the cache to the API server's
    secret,  \* the Secret: its resourceVersion, and whether it is there
    notice,  \* whether a watch event of the Secret is on its way
    queue,   \* whether the connection's key is in the controller's workqueue
    ctl,     \* the controller's reconcile: its stage, its copy, what it read from the Secret
    clientCache, \* the cached client: the version of the connection and of the Secret it is from
    mutex,   \* who holds clientCacheMutex
    pc,      \* where each worker is in NewProxmoxClientFromRef
    copy,    \* the connection each worker read
    read,    \* the Secret version each worker read under the mutex
    used,    \* the last client each worker got
    events   \* edits, failed calls and restarts so far

vars == <<conn, log, secret, notice, queue, ctl, clientCache, mutex, pc, copy, read, used, events>>

Cached == log[1]
Api == log[Len(log)]

------------------------------------------------------------------------------
(* The API server and its watches *)

\* A write that changes nothing is no new version.
Write(x) ==
    IF x = Api THEN UNCHANGED log
    ELSE /\ Len(log) <= MaxLag
         /\ log' = Append(log, [x EXCEPT !.rv = Api.rv + 1])

EditSpec ==
    /\ events < MaxEvents
    /\ events' = events + 1
    /\ Write([Api EXCEPT !.spec = @ + 1])
    /\ UNCHANGED <<conn, secret, notice, queue, ctl, clientCache, mutex, pc, copy, read, used>>

\* The Secret is written (a rotation, or made again) or deleted.
WriteSecret ==
    /\ secret.rv < MaxRotations
    /\ \E there \in BOOLEAN :
        /\ secret.there \/ there
        /\ secret' = [rv |-> secret.rv + 1, there |-> there]
    /\ notice' = TRUE
    /\ UNCHANGED <<conn, log, queue, ctl, clientCache, mutex, pc, copy, read, used, events>>

\* WatchesMetadata and connectionsForSecret.
SecretEvent ==
    /\ notice
    /\ notice' = FALSE /\ queue' = TRUE
    /\ UNCHANGED <<conn, log, secret, ctl, clientCache, mutex, pc, copy, read, used, events>>

\* The connection's cache moves on; GenerationChangedPredicate passes changes of the spec.
Deliver ==
    /\ Len(log) > 1
    /\ log' = Tail(log)
    /\ queue' = (queue \/ log[1].spec # log[2].spec)
    /\ UNCHANGED <<conn, secret, notice, ctl, clientCache, mutex, pc, copy, read, used, events>>

------------------------------------------------------------------------------
(* The ProxmoxConnection controller *)

Idle == [stage |-> "idle", copy |-> None, read |-> -1]

ControllerGet ==
    /\ ctl.stage = "idle" /\ queue
    /\ queue' = FALSE
    /\ ctl' = IF conn.disabled THEN Idle ELSE [stage |-> "resolve", copy |-> Cached, read |-> -1]
    /\ UNCHANGED <<conn, log, secret, notice, clientCache, mutex, pc, copy, read, used, events>>

\* ResolveCredentials, straight from the API server.
ControllerResolve ==
    /\ ctl.stage = "resolve"
    /\ ctl' = [ctl EXCEPT !.stage = "patch", !.read = IF secret.there THEN secret.rv ELSE -1]
    /\ UNCHANGED <<conn, log, secret, notice, queue, clientCache, mutex, pc, copy, read, used, events>>

\* The fields of the status that a merge patch against the copy carries.
Patched(observed, ready) ==
    [Api EXCEPT !.observed = IF observed = ctl.copy.observed THEN @ ELSE observed,
                !.ready = IF ready = ctl.copy.ready THEN @ ELSE ready]

\* The status patch, after GetVersion when there are credentials: Proxmox answers, or the
\* error is returned and the key retried, with what was read recorded all the same.
ControllerPatch ==
    /\ ctl.stage = "patch"
    /\ \/ ctl.read = -1 /\ Write(Patched(ctl.copy.observed, "Unavailable")) /\ queue' = TRUE
          /\ UNCHANGED events
       \/ ctl.read # -1 /\ Write(Patched(ctl.read, "Ready")) /\ UNCHANGED <<queue, events>>
       \/ /\ ctl.read # -1 /\ events < MaxEvents /\ events' = events + 1
          /\ Write(Patched(ctl.read, "Error")) /\ queue' = TRUE
    /\ ctl' = Idle
    /\ UNCHANGED <<conn, secret, notice, clientCache, mutex, pc, copy, read, used>>

\* A call fails: the error is returned and the key retried.
ControllerError ==
    /\ ctl.stage # "idle" /\ events < MaxEvents
    /\ events' = events + 1
    /\ ctl' = Idle /\ queue' = TRUE
    /\ UNCHANGED <<conn, log, secret, notice, clientCache, mutex, pc, copy, read, used>>

------------------------------------------------------------------------------
(* NewProxmoxClientFromRef *)

Return(w) ==
    /\ pc' = [pc EXCEPT ![w] = "idle"]
    /\ copy' = [copy EXCEPT ![w] = None] /\ read' = [read EXCEPT ![w] = 0]

\* The connection is read from the informer cache, before the mutex is taken.
GetConnection(w) ==
    /\ pc[w] = "idle"
    /\ pc' = [pc EXCEPT ![w] = "lock"] /\ copy' = [copy EXCEPT ![w] = Cached]
    /\ UNCHANGED <<conn, log, secret, notice, queue, ctl, clientCache, mutex, read, used, events>>

\* Mutant of Hit: any cached client will do until it expires.
HitAnyVersion(w) == clientCache # None /\ clientCache.fresh

\* A cached client of this very version that has not expired.
Hit(w) == clientCache # None /\ clientCache.conn.rv = copy[w].rv /\ clientCache.fresh

\* Under the mutex, a hit returns the cached client.
CacheHit(w) ==
    /\ pc[w] = "lock" /\ mutex = None
    /\ Hit(w)
    /\ used' = [used EXCEPT ![w] = clientCache]
    /\ Return(w)
    /\ UNCHANGED <<conn, log, secret, notice, queue, ctl, clientCache, mutex, events>>

\* Mutant of CacheMiss: the mutex is taken for the check and again for the update.
MissUnlocked(w) ==
    /\ pc[w] = "lock" /\ mutex = None
    /\ ~Hit(w)
    /\ pc' = [pc EXCEPT ![w] = "resolve"]
    /\ UNCHANGED <<conn, log, secret, notice, queue, ctl, clientCache, mutex, copy, read, used, events>>

\* A miss keeps the mutex until the new client is in the cache.
CacheMiss(w) ==
    /\ pc[w] = "lock" /\ mutex = None
    /\ ~Hit(w)
    /\ mutex' = w
    /\ pc' = [pc EXCEPT ![w] = "resolve"]
    /\ UNCHANGED <<conn, log, secret, notice, queue, ctl, clientCache, copy, read, used, events>>

\* ResolveCredentials reads the Secret from the API server; without it the call fails.
Resolve(w) ==
    /\ pc[w] = "resolve"
    /\ \/ secret.there /\ pc' = [pc EXCEPT ![w] = "store"]
          /\ read' = [read EXCEPT ![w] = secret.rv] /\ UNCHANGED <<mutex, copy>>
       \/ ~secret.there /\ mutex' = None /\ Return(w)
    /\ UNCHANGED <<conn, log, secret, notice, queue, ctl, clientCache, used, events>>

\* Mutant of StoreClient: the new client is cached under the version the cache is at now.
StoreUnderLatest(w) ==
    /\ pc[w] = "store"
    /\ clientCache' = [conn |-> Cached, cred |-> read[w], fresh |-> TRUE]
    /\ used' = [used EXCEPT ![w] = clientCache']
    /\ mutex' = None /\ Return(w)
    /\ UNCHANGED <<conn, log, secret, notice, queue, ctl, events>>

StoreClient(w) ==
    /\ pc[w] = "store"
    /\ clientCache' = [conn |-> copy[w], cred |-> read[w], fresh |-> TRUE]
    /\ used' = [used EXCEPT ![w] = clientCache']
    /\ mutex' = None /\ Return(w)
    /\ UNCHANGED <<conn, log, secret, notice, queue, ctl, events>>

\* The Secret GET fails.
ResolveError(w) ==
    /\ pc[w] = "resolve" /\ events < MaxEvents
    /\ events' = events + 1
    /\ mutex' = None /\ Return(w)
    /\ UNCHANGED <<conn, log, secret, notice, queue, ctl, clientCache, used>>

\* clientCacheTTL: an hour after it was built, the client of a session is no longer fresh.
Expire ==
    /\ conn.session /\ clientCache # None /\ clientCache.fresh
    /\ clientCache' = [clientCache EXCEPT !.fresh = FALSE]
    /\ UNCHANGED <<conn, log, secret, notice, queue, ctl, mutex, pc, copy, read, used, events>>

\* The process restarts with empty caches, lists again and reconciles the connection.
Restart ==
    /\ events < MaxEvents
    /\ events' = events + 1
    /\ log' = <<Api>> /\ notice' = FALSE /\ queue' = TRUE /\ ctl' = Idle
    /\ clientCache' = None /\ mutex' = None
    /\ pc' = [w \in Workers |-> "idle"]
    /\ copy' = [w \in Workers |-> None] /\ read' = [w \in Workers |-> 0]
    /\ used' = [w \in Workers |-> None]
    /\ UNCHANGED <<conn, secret>>

------------------------------------------------------------------------------

Init ==
    /\ conn \in Connections
    /\ log = << [rv |-> 0, spec |-> 0, observed |-> -1, ready |-> "Unknown"] >>
    /\ secret = [rv |-> 0, there |-> TRUE]
    /\ notice = FALSE /\ queue = TRUE
    /\ ctl = Idle
    /\ clientCache = None /\ mutex = None
    /\ pc = [w \in Workers |-> "idle"]
    /\ copy = [w \in Workers |-> None]
    /\ read = [w \in Workers |-> 0]
    /\ used = [w \in Workers |-> None]
    /\ events = 0

Controller == ControllerGet \/ ControllerResolve \/ ControllerPatch

FromRef(w) == GetConnection(w) \/ CacheHit(w) \/ CacheMiss(w) \/ Resolve(w) \/ StoreClient(w)

Next ==
    \/ EditSpec \/ WriteSecret \/ SecretEvent \/ Deliver
    \/ Controller \/ ControllerError
    \/ \E w \in Workers : FromRef(w) \/ ResolveError(w)
    \/ Expire \/ Restart

Spec == Init /\ [][Next]_vars

\* Watches deliver, the controller's worker runs, and reconciles go on asking for clients: a
\* call goes on, and a mutex that is free again and again is had in the end.
FairSpec ==
    /\ Spec
    /\ WF_vars(SecretEvent) /\ WF_vars(Deliver) /\ WF_vars(Controller) /\ WF_vars(Expire)
    /\ \A w \in Workers :
        /\ WF_vars(GetConnection(w)) /\ WF_vars(Resolve(w)) /\ WF_vars(StoreClient(w))
        /\ SF_vars(CacheHit(w) \/ CacheMiss(w))

------------------------------------------------------------------------------
(* Properties *)

\* The type of the state; a worker between the check and the update holds the mutex.
TypeOK ==
    /\ conn \in Connections
    /\ log \in Seq(Versions) /\ Len(log) >= 1
    /\ secret \in [rv: Nat, there: BOOLEAN]
    /\ notice \in BOOLEAN /\ queue \in BOOLEAN
    /\ ctl \in [stage: {"idle", "resolve", "patch"}, copy: Versions \cup {None}, read: Nat \cup {-1}]
    /\ ctl.stage # "idle" => ctl.copy # None
    /\ clientCache \in Clients \cup {None}
    /\ mutex \in Workers \cup {None}
    /\ pc \in [Workers -> {"idle", "lock", "resolve", "store"}]
    /\ copy \in [Workers -> Versions \cup {None}]
    /\ \A w \in Workers : pc[w] # "idle" => copy[w] # None
    /\ read \in [Workers -> Nat]
    /\ used \in [Workers -> Clients \cup {None}]
    /\ events \in Nat
    /\ \A w \in Workers : pc[w] \in {"resolve", "store"} => mutex = w

\* "Credentials read from a Secret ride on the ResourceVersion": a client that is handed out
\* for a version of the connection never has a credential older than the Secret version which
\* that version's status says was observed.
ObservedReachesClients ==
    \A w \in Workers : used[w] # None => used[w].cred >= used[w].conn.observed

\* A caller that comes late with an old copy of the connection may put an older connection into
\* the cache, but never an older credential.
CredentialNeverGoesBack ==
    [][clientCache # None /\ clientCache' # None => clientCache'.cred >= clientCache.cred]_vars

\* "A rotated credential reaches Proxmox clients right away", and so does an edited spec: once
\* the Secret and the spec stay as they are, every reconcile ends up with clients built from
\* them.
RotationReachesClients ==
    \A v \in 0..MaxRotations, e \in 0..MaxEvents :
        <>[](secret = [rv |-> v, there |-> TRUE] /\ Api.spec = e)
        => \A w \in Workers : <>[](used[w] # None /\ used[w].cred = v /\ used[w].conn.spec = e)
=============================================================================
