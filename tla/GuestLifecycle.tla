---------------------------- MODULE GuestLifecycle ----------------------------
(* What the controllers of guests promise, whatever fails: a guest is made only for a resource *)
(* that holds on to it with a finalizer, such a resource goes only when its guest has gone, and  *)
(* a second guest is made only when a creation was left under way by the reconcile that asked    *)
(* for it, which the next reconciles cannot see.                                                 *)
CONSTANTS Ids

VARIABLES
    resource, \* "none", "bare" without a finalizer, or "held" with one
    own,      \* the VMIDs of the guests made for it, those under way included
    making,   \* the VMIDs of the guests under way
    astray,   \* whether a creation was left under way, and things are not in order again
    loose,    \* whether guests are made for resources without a finalizer: mode EnsureExists
    spared    \* whether the user wants the guest to stay when the resource goes

vars == <<resource, own, making, astray, loose, spared>>

Init ==
    /\ resource = "none" /\ own = {} /\ making = {} /\ ~astray
    /\ loose \in BOOLEAN /\ spared \in BOOLEAN

SameGuests == UNCHANGED <<own, making, astray>>

Create == resource = "none" /\ resource' = "bare" /\ SameGuests

\* The finalizer is stored.
Hold == resource = "bare" /\ resource' = "held" /\ SameGuests

Abandon == resource = "bare" /\ resource' = "none" /\ SameGuests

\* The creation of a guest starts: never of a second one, as long as nothing went astray.  Nobody
\* may wait for it from the start.
Make ==
    /\ resource = "held" \/ loose
    /\ own = {} \/ astray
    /\ \E i \in Ids \ own : own' = own \cup {i} /\ making' = making \cup {i}
    /\ astray' \in {astray, TRUE}
    /\ UNCHANGED resource

\* The guest is there.
Finish ==
    /\ making' \subseteq making
    /\ UNCHANGED <<resource, own, astray>>

\* Nobody waits for a creation that is under way.
Stray == making # {} /\ astray' = TRUE /\ UNCHANGED <<resource, own, making>>

\* Nothing is under way, and there is one guest at most.
Settle ==
    /\ making = {} /\ (\A i, j \in own : i = j) /\ astray' = FALSE
    /\ UNCHANGED <<resource, own, making>>

\* The operator destroys a guest, or somebody else does, at any time, or its creation fails.
Lose ==
    /\ own' \subseteq own /\ own' # own /\ making' = making \cap own'
    /\ UNCHANGED <<resource, astray>>

\* The finalizer is removed from a deleted resource.
Release ==
    /\ resource = "held" /\ resource' = "none"
    /\ own = {} \/ spared \/ astray
    /\ SameGuests

\* The user changes the mode, or the deletion protection.
Decide == UNCHANGED resource /\ SameGuests /\ loose' \in BOOLEAN /\ spared' \in BOOLEAN

Next ==
    \/ Create \/ Hold \/ Abandon \/ Make \/ Finish \/ Stray \/ Settle \/ Lose \/ Release \/ Decide

Spec == Init /\ [][Next]_vars
=============================================================================
