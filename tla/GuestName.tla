---------------------------- MODULE GuestName ----------------------------
(* Which resource owns a Proxmox guest name: pkg/guestname, claimGuest, the name webhook, and  *)
(* the reconcile skeleton of the VirtualMachine controller (the Template and Container         *)
(* controllers run the same claimGuest first).  Each kind has its informer cache, which lags   *)
(* behind the API server; a reconcile works on the copy it read from its cache, so every step  *)
(* between that read and a write is an action of its own.                                      *)
EXTENDS Naturals, Sequences, FiniteSets

CONSTANTS
    Resources,    \* keys (kind, namespace, name) of the resources users may apply
    Kind,         \* the kind of each resource
    Rank,         \* the lexical order of (kind, namespace, name)
    Names,        \* guest names: spec.name on a node of a ProxmoxConnection
    Fold,         \* the lower-case form of each name
    Modes,        \* values of the reconcile-mode annotation users apply
    Absent,       \* the value of a key that holds no object
    Webhook,      \* whether the name webhook is installed (ENABLE_WEBHOOKS)
    Renames,      \* whether users change spec.name
    Recreates,    \* whether users re-create a resource under the same key
    SameSecond,   \* whether two creations may get one creationTimestamp
    MaxTime,      \* bound: creation timestamps
    MaxLag,       \* bound: watch events a cache has yet to receive
    MaxFaults     \* bound: failed API or Proxmox calls, drifts and restarts

Kinds == {"VirtualMachine", "VirtualMachineTemplate", "Container"}

AllModes == {"Reconcile", "WatchOnly", "EnsureExists", "Disable", "DryRun"}

\* conflict and marked are the NameConflict and Deleting conditions of the status.
Objects == [created: Nat, name: Names, mode: Modes, deleting: BOOLEAN,
            finalizer: BOOLEAN, conflict: BOOLEAN, marked: BOOLEAN]

ASSUME GuestNameAssumption ==
    /\ Kind \in [Resources -> Kinds]
    /\ Rank \in [Resources -> Nat]
    /\ \A r, o \in Resources : Rank[r] = Rank[o] => r = o
    /\ Fold \in [Names -> Names]
    /\ Modes \subseteq AllModes
    /\ Absent \notin Objects
    /\ {Webhook, Renames, Recreates, SameSecond} \subseteq BOOLEAN
    /\ {MaxTime, MaxLag, MaxFaults} \subseteq Nat

VARIABLES
    log,      \* per kind: the states the API server went through since its cache last moved
    now,      \* the API server's clock, in seconds
    born,     \* the keys created so far
    requests, \* applies the webhook has admitted and the API server has not stored yet
    queue,    \* the workqueue
    timers,   \* the keys to enqueue when their 30 seconds (nameConflictRequeue) are over
    pc,       \* where the reconcile of a key is
    obj,      \* the object that reconcile works on
    guests,   \* the guests that exist on Proxmox
    faults    \* failed calls, drifts and restarts so far

vars == <<log, now, born, requests, queue, timers, pc, obj, guests, faults>>

------------------------------------------------------------------------------
(* Claims *)

IsLXC(r) == Kind[r] = "Container"

\* The guest a resource with spec.name n manages.  Two claims are for the same guest
\* (Claim.SameGuest) when these are equal.
Guest(r, n) == IF IsLXC(r) THEN <<TRUE, n>> ELSE <<FALSE, Fold[n]>>

Guests == BOOLEAN \X Names

\* Claim.before: resource r with object x claimed before resource o with object y.
Before(r, x, o, y) ==
    \/ x.created < y.created
    \/ x.created = y.created /\ Rank[r] < Rank[o]

Api(r) == log[Kind[r]][Len(log[Kind[r]])][r]
Cached(r) == log[Kind[r]][1][r]

\* Mutant of Rivals: resources being deleted no longer count.
RivalsNotDeleting(r, n) ==
    {o \in Resources \ {r} : IsLXC(o) = IsLXC(r) /\ Cached(o) # Absent
                             /\ Guest(o, Cached(o).name) = Guest(r, n) /\ ~Cached(o).deleting}

\* guestname.List over the caches of one space, without r itself.
Rivals(r, n) ==
    {o \in Resources \ {r} : IsLXC(o) = IsLXC(r) /\ Cached(o) # Absent
                             /\ Guest(o, Cached(o).name) = Guest(r, n)}

\* guestname.Owner names r itself.
Owns(r) == \A o \in Rivals(r, obj[r].name) : ~Before(o, Cached(o), r, obj[r])

------------------------------------------------------------------------------
(* The API server: a write is a new state that the cache of the kind has yet to see. *)

Store(r, x) ==
    /\ Len(log[Kind[r]]) <= MaxLag
    /\ log' = [log EXCEPT ![Kind[r]] = Append(@, [@[Len(@)] EXCEPT ![r] = x])]

\* An update that clears the last finalizer of an object being deleted removes it.
Settled(x) == IF x.deleting /\ ~x.finalizer THEN Absent ELSE x

\* nameValidator: list from the caches, then admit.  The Proxmox lookup that follows only
\* rejects more, as not taking this action does.
Admit(op, r, n, m) ==
    /\ \A q \in requests : q.res # r    \* bound: one apply of a resource at a time
    /\ Webhook /\ (op = "create" \/ Guest(r, Cached(r).name) # Guest(r, n)) => Rivals(r, n) = {}
    /\ requests' = requests \cup {[op |-> op, res |-> r, name |-> n, mode |-> m]}
    /\ UNCHANGED <<timers, log, now, born, queue, pc, obj, guests, faults>>

UserCreate(r, n, m) ==
    /\ Api(r) = Absent
    /\ r \in born => Recreates
    /\ now < MaxTime
    /\ Admit("create", r, n, m)

UserRename(r, n) ==
    /\ Renames /\ now < MaxTime
    /\ Api(r) # Absent /\ Cached(r) # Absent
    /\ Api(r).name # n
    /\ Admit("rename", r, n, Api(r).mode)

\* The API server stores an admitted object and stamps it with the current second.
PersistCreate(q) ==
    /\ q.op = "create"
    /\ requests' = requests \ {q}
    /\ IF Api(q.res) = Absent /\ (q.res \in born => Recreates) /\ now < MaxTime
       THEN /\ Store(q.res, [created |-> now, name |-> q.name, mode |-> q.mode,
                             deleting |-> FALSE, finalizer |-> FALSE, conflict |-> FALSE,
                             marked |-> FALSE])
            /\ now' \in IF SameSecond THEN {now, now + 1} ELSE {now + 1}
            /\ born' = born \cup {q.res}
       ELSE UNCHANGED <<log, now, born>>
    /\ UNCHANGED <<timers, queue, pc, obj, guests, faults>>

\* A rename takes a second as well: MaxTime bounds the applies of a run.
PersistRename(q) ==
    /\ q.op = "rename"
    /\ requests' = requests \ {q}
    /\ IF Api(q.res) # Absent /\ now < MaxTime
       THEN Store(q.res, [Api(q.res) EXCEPT !.name = q.name]) /\ now' = now + 1
       ELSE UNCHANGED <<log, now>>
    /\ UNCHANGED <<timers, born, queue, pc, obj, guests, faults>>

UserDelete(r) ==
    /\ Api(r) # Absent /\ ~Api(r).deleting
    /\ Store(r, Settled([Api(r) EXCEPT !.deleting = TRUE]))
    /\ UNCHANGED <<timers, now, born, requests, queue, pc, obj, guests, faults>>

\* The update predicate of the controllers: a changed spec or an object being deleted.
Wakes(x, y) ==
    /\ x # y
    /\ x # Absent /\ y # Absent => x.name # y.name \/ y.deleting

\* The cache of a kind receives its next watch event, and the predicate enqueues the key.
Deliver(k) ==
    /\ Len(log[k]) > 1
    /\ log' = [log EXCEPT ![k] = Tail(@)]
    /\ queue' = queue \cup {r \in Resources : Wakes(log[k][1][r], log[k][2][r])}
    /\ UNCHANGED <<timers, now, born, requests, pc, obj, guests, faults>>

------------------------------------------------------------------------------
(* The reconcile of one key, which the workqueue never runs twice at a time *)

Goto(r, s) == pc' = [pc EXCEPT ![r] = s]
Return(r) == Goto(r, "idle") /\ UNCHANGED queue
Requeue(r) == Goto(r, "idle") /\ queue' = queue \cup {r}

\* Mutant of Get: no early return for a missing object.
GetMissing(r) ==
    /\ pc[r] = "idle" /\ r \in queue
    /\ queue' = queue \ {r}
    /\ Goto(r, "claim") /\ obj' = [obj EXCEPT ![r] = Cached(r)]
    /\ UNCHANGED <<timers, log, now, born, requests, guests, faults>>

Get(r) ==
    /\ pc[r] = "idle" /\ r \in queue
    /\ queue' = queue \ {r}
    /\ IF Cached(r) = Absent THEN UNCHANGED <<pc, obj>>
       ELSE Goto(r, "claim") /\ obj' = [obj EXCEPT ![r] = Cached(r)]
    /\ UNCHANGED <<timers, log, now, born, requests, guests, faults>>

\* claimGuest: decide from the caches; the writes it then makes are the next actions.
Claim(r) ==
    /\ pc[r] = "claim"
    /\ Goto(r, IF Owns(r) THEN (IF obj[r].conflict THEN "clear" ELSE "owned")
               ELSE IF ~obj[r].deleting THEN "lost"
               ELSE IF obj[r].finalizer THEN "release" ELSE "idle")
    /\ UNCHANGED <<timers, log, now, born, requests, queue, obj, guests, faults>>

\* The status patch carries no resourceVersion and loads the answer into the copy; a
\* missing object is ignored and the reconcile goes on with the old copy.
ClearConflict(r) ==
    /\ pc[r] = "clear"
    /\ IF Api(r) = Absent THEN UNCHANGED <<log, obj>>
       ELSE /\ Store(r, [Api(r) EXCEPT !.conflict = FALSE])
            /\ obj' = [obj EXCEPT ![r] = [Api(r) EXCEPT !.conflict = FALSE]]
    /\ Goto(r, "owned")
    /\ UNCHANGED <<timers, now, born, requests, queue, guests, faults>>

\* Mutant of MarkConflict: no RequeueAfter.
MarkAndForget(r) ==
    /\ pc[r] = "lost"
    /\ Return(r)
    /\ IF obj[r].conflict \/ Api(r) = Absent THEN UNCHANGED log
                                          ELSE Store(r, [Api(r) EXCEPT !.conflict = TRUE])
    /\ UNCHANGED <<timers, now, born, requests, obj, guests, faults>>

\* Not the owner: set NameConflict unless it is set, and look again 30 seconds later.
MarkConflict(r) ==
    /\ pc[r] = "lost"
    /\ Return(r)
    /\ \/ obj[r].conflict /\ timers' = timers \cup {r} /\ UNCHANGED log
       \/ ~obj[r].conflict /\ Api(r) = Absent /\ UNCHANGED <<log, timers>>
       \/ /\ ~obj[r].conflict /\ Api(r) # Absent
          /\ Store(r, [Api(r) EXCEPT !.conflict = TRUE])
          /\ timers' = timers \cup {r}
    /\ UNCHANGED <<now, born, requests, obj, guests, faults>>

\* The delay is over.  It is long enough for the cache to have seen the condition.
TimerFires(r) ==
    /\ r \in timers /\ (Cached(r) # Absent => Cached(r).conflict)
    /\ timers' = timers \ {r} /\ queue' = queue \cup {r}
    /\ UNCHANGED <<log, now, born, requests, pc, obj, guests, faults>>

\* An Update fails with a conflict unless the copy is the stored version.  Versions are
\* compared by their contents.
UpdateObject(r, x, next) ==
    \/ Api(r) = obj[r] /\ Store(r, Settled(x)) /\ obj' = [obj EXCEPT ![r] = x]
       /\ Goto(r, next) /\ UNCHANGED queue
    \/ Api(r) = Absent /\ Return(r) /\ UNCHANGED <<log, obj>>
    \/ Api(r) \notin {Absent, obj[r]} /\ Requeue(r) /\ UNCHANGED <<log, obj>>

\* Not the owner and being deleted: drop the finalizer and leave the guest alone.
Release(r) ==
    /\ pc[r] = "release"
    /\ UpdateObject(r, [obj[r] EXCEPT !.finalizer = FALSE], "idle")
    /\ UNCHANGED <<timers, now, born, requests, guests, faults>>

\* The switch over the reconcile mode: WatchOnly and Disable stop here, EnsureExists takes
\* no finalizer, every other value is the normal mode.
Dispatch(r) ==
    /\ pc[r] = "owned"
    /\ Goto(r, CASE obj[r].mode \in {"WatchOnly", "Disable"} -> "idle"
                 [] obj[r].mode = "EnsureExists" -> "ensure"
                 [] obj[r].mode \in {"Reconcile", "DryRun"} /\ ~obj[r].deleting ->
                        IF obj[r].finalizer THEN "operate" ELSE "finalizer"
                 [] OTHER -> IF obj[r].finalizer THEN "deleting" ELSE "idle")
    /\ UNCHANGED <<timers, log, now, born, requests, queue, obj, guests, faults>>

HandleFinalizer(r) ==
    /\ pc[r] = "finalizer"
    /\ UpdateObject(r, [obj[r] EXCEPT !.finalizer = TRUE], "operate")
    /\ UNCHANGED <<timers, now, born, requests, guests, faults>>

\* CheckVM, then create or update: the guest exists afterwards.
Operate(r) ==
    /\ pc[r] \in {"operate", "ensure"}
    /\ guests' = guests \cup {Guest(r, obj[r].name)}
    /\ Return(r)
    /\ UNCHANGED <<timers, log, now, born, requests, obj, faults>>

\* handleDelete first sets the Deleting condition unless the copy has it; that patch, too,
\* loads the answer into the copy, and stops at a missing object.
MarkDeleting(r) ==
    /\ pc[r] = "deleting"
    /\ \/ obj[r].marked /\ Goto(r, "delete") /\ UNCHANGED <<log, queue, obj>>
       \/ ~obj[r].marked /\ Api(r) = Absent /\ Return(r) /\ UNCHANGED <<log, obj>>
       \/ /\ ~obj[r].marked /\ Api(r) # Absent
          /\ Store(r, [Api(r) EXCEPT !.marked = TRUE])
          /\ obj' = [obj EXCEPT ![r] = [Api(r) EXCEPT !.marked = TRUE]]
          /\ Goto(r, "delete") /\ UNCHANGED queue
    /\ UNCHANGED <<timers, now, born, requests, guests, faults>>

\* DeleteVM removes the guest.  Deletion protection, a guest that is gone and a lookup that
\* failed all leave Proxmox as it is and go on to the finalizer.
DeleteGuest(r) ==
    /\ pc[r] = "delete"
    /\ guests' \in {guests, guests \ {Guest(r, obj[r].name)}}
    /\ Goto(r, "unfinalize")
    /\ UNCHANGED <<timers, log, now, born, requests, queue, obj, faults>>

RemoveFinalizer(r) ==
    /\ pc[r] = "unfinalize"
    /\ UpdateObject(r, [obj[r] EXCEPT !.finalizer = FALSE], "idle")
    /\ UNCHANGED <<timers, now, born, requests, guests, faults>>

\* Any call of a reconcile may fail: the error is returned and the key retried.
ReconcileError(r) ==
    /\ pc[r] # "idle" /\ faults < MaxFaults
    /\ faults' = faults + 1
    /\ Requeue(r)
    /\ UNCHANGED <<timers, log, now, born, requests, obj, guests>>

\* The watcher found the guest drifted and enqueues its key.
Drift(r) ==
    /\ faults < MaxFaults
    /\ faults' = faults + 1
    /\ queue' = queue \cup {r}
    /\ UNCHANGED <<timers, log, now, born, requests, pc, obj, guests>>

\* The process restarts: reconciles and queue are lost, the caches list again and every
\* object is enqueued.
Restart ==
    /\ faults < MaxFaults
    /\ faults' = faults + 1
    /\ log' = [k \in Kinds |-> <<log[k][Len(log[k])]>>]
    /\ pc' = [r \in Resources |-> "idle"] /\ timers' = {}
    /\ queue' = {r \in Resources : Api(r) # Absent}
    /\ UNCHANGED <<now, born, requests, obj, guests>>

------------------------------------------------------------------------------

Init ==
    /\ log = [k \in Kinds |-> << [r \in Resources |-> Absent] >>]
    /\ now = 0
    /\ born = {}
    /\ requests = {}
    /\ queue = {} /\ timers = {}
    /\ pc = [r \in Resources |-> "idle"]
    /\ obj = [r \in Resources |-> Absent]
    /\ guests = {}
    /\ faults = 0

User ==
    \/ \E r \in Resources, n \in Names :
        \/ \E m \in Modes : UserCreate(r, n, m)
        \/ UserRename(r, n)
    \/ \E r \in Resources : UserDelete(r)

\* What the API server, the informers and the workers do on their own.
Persist == \E q \in requests : PersistCreate(q) \/ PersistRename(q)

Reconcile(r) ==
    \/ Get(r) \/ Claim(r) \/ ClearConflict(r) \/ MarkConflict(r) \/ Release(r) \/ Dispatch(r)
    \/ HandleFinalizer(r) \/ Operate(r) \/ MarkDeleting(r) \/ DeleteGuest(r) \/ RemoveFinalizer(r)

Next ==
    \/ User
    \/ Persist
    \/ \E k \in Kinds : Deliver(k)
    \/ \E r \in Resources : Reconcile(r) \/ TimerFires(r) \/ ReconcileError(r) \/ Drift(r)
    \/ Restart

Spec == Init /\ [][Next]_vars

\* A worker takes every queued key and runs on, timers fire and watch events arrive.
Fairness ==
    /\ \A k \in Kinds : WF_vars(Deliver(k))
    /\ \A r \in Resources : WF_vars(Reconcile(r)) /\ WF_vars(TimerFires(r))

FairSpec == Spec /\ Fairness

------------------------------------------------------------------------------
(* Properties *)

Stages == {"idle", "claim", "clear", "lost", "release", "owned", "finalizer", "operate",
           "ensure", "deleting", "delete", "unfinalize"}

Requests == [op: {"create", "rename"}, res: Resources, name: Names, mode: Modes]

Snapshots == [Resources -> Objects \cup {Absent}]

\* The type of the state: each kind's log holds at least the state its cache is in, and a
\* running reconcile has a copy.
TypeOK ==
    /\ log \in [Kinds -> Seq(Snapshots)]
    /\ \A k \in Kinds : Len(log[k]) >= 1
    /\ now \in Nat /\ faults \in Nat
    /\ born \subseteq Resources /\ queue \subseteq Resources /\ timers \subseteq Resources
    /\ requests \subseteq Requests
    /\ pc \in [Resources -> Stages]
    /\ obj \in Snapshots
    /\ \A r \in Resources : pc[r] # "idle" => obj[r] # Absent
    /\ guests \subseteq Guests

\* The stages in which the reconcile of r creates, changes or deletes its guest.
Working(r) == pc[r] \in {"operate", "ensure", "delete"}

\* o is a live resource that claims the guest r's reconcile works on, by the same lookup.
Contends(o, r) ==
    /\ o # r /\ Api(o) # Absent
    /\ Guest(o, Api(o).name) = Guest(r, obj[r].name)

\* "The oldest object owns the guest", "the other objects are not reconciled against Proxmox":
\* a reconcile that is past claimGuest and works on a guest is the reconcile of the oldest
\* live claim on it among the resources of its kind, however far the cache lags and whatever
\* was created, deleted or restarted since it read the caches.
OperatorIsOldest ==
    \A r, o \in Resources :
        Working(r) /\ Contends(o, r) /\ Kind[o] = Kind[r] => Before(r, obj[r], o, Api(o))

\* Two reconciles of one kind work on the same guest.
Clash(r, o) ==
    /\ r # o /\ Kind[o] = Kind[r] /\ Working(r) /\ Working(o)
    /\ Guest(r, obj[r].name) = Guest(o, obj[o].name)

\* "A guest isn't handed over while its owner's finalizer is deleting it": when the reconcile of
\* one resource works on a guest and that of an earlier claimant still does, the earlier resource
\* is gone.  Such a reconcile is a leftover: a deletion that runs again from a copy that is too old,
\* or a mode without a finalizer.
HandedOverWhenGone ==
    \A r, o \in Resources :
        Clash(r, o) /\ Before(r, obj[r], o, obj[o]) => Api(r) = Absent

\* No two reconciles of one kind work on the same guest at once.  The leftovers violate it.
SingleOperator == \A r, o \in Resources : ~Clash(r, o)

\* o's live claim is the oldest on its guest, over all kinds.
Oldest(r) ==
    /\ Api(r) # Absent
    /\ \A o \in Resources \ {r} :
          Api(o) # Absent /\ Guest(o, Api(o).name) = Guest(r, Api(r).name)
          => Before(r, Api(r), o, Api(o))

\* "When the owner is gone, the next object takes the name": a resource that stays the oldest
\* live claimant of its guest does not keep the NameConflict condition.
NextTakesTheName ==
    \A r \in Resources :
        <>[](Oldest(r) /\ ~Api(r).deleting) => <>[](Oldest(r) /\ ~Api(r).conflict)

\* "The other objects get the condition NameConflict=True": a resource that stays live beside
\* an older claim on its guest ends up marked.
LosersAreMarked ==
    \A r \in Resources :
        <>[](Api(r) # Absent /\ ~Api(r).deleting /\ ~Oldest(r))
        => <>[](Api(r) # Absent /\ Api(r).conflict)
=============================================================================
