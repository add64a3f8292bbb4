--------------------------- MODULE ReplicaLifecycle ---------------------------
(* What the controller of a set of machines promises, whatever fails and however late it sees    *)
(* things: it makes only machines that were asked for, for a set that holds on to them with its  *)
(* finalizer, and deletes only those that the set has done without since, or that it leaves with *)
(* its own deletion.                                                                             *)
EXTENDS Naturals

CONSTANTS Indices

VARIABLES
    set,     \* "bare" without a finalizer, "held" with one, "leaving" when deleted, "none"
    machine, \* of each index: "none", "there", or "going" when deleted
    asked,   \* the indices that the set has ever asked for
    spare,   \* the machines that the set has done without at some time since they were decided on
    meddled  \* how often users edited the set or deleted a machine, and steps failed

vars == <<set, machine, asked, spare, meddled>>

Init ==
    /\ set = "bare"
    /\ machine = [i \in Indices |-> "none"]
    /\ asked \subseteq Indices /\ spare = {}
    /\ meddled = 0

\* The set asks for the machines of S from now on.
Ask(S) ==
    /\ set # "none"
    /\ asked' = asked \cup S
    /\ spare' = spare \cup {i \in Indices \ S : machine[i] # "none"}
    /\ meddled' = meddled + 1
    /\ UNCHANGED <<set, machine>>

\* The finalizer is stored, the user deletes the set, and it is gone.
Hold == set = "bare" /\ set' = "held" /\ UNCHANGED <<machine, asked, spare, meddled>>

Leave == set = "held" /\ set' = "leaving" /\ UNCHANGED <<machine, asked, spare, meddled>>

Go == set \in {"bare", "leaving"} /\ set' = "none" /\ UNCHANGED <<machine, asked, spare, meddled>>

\* A machine is decided on before it is made: it may be one to spare already.
Make(i) ==
    /\ set \in {"held", "leaving"}
    /\ i \in asked /\ machine[i] = "none"
    /\ machine' = [machine EXCEPT ![i] = "there"]
    /\ spare' \in {spare, spare \cup {i}}
    /\ UNCHANGED <<set, asked, meddled>>

\* The controller deletes a machine, or the garbage collector does.
GiveUp(i) ==
    /\ machine[i] = "there"
    /\ set \in {"leaving", "none"} \/ (set = "held" /\ i \in spare)
    /\ machine' = [machine EXCEPT ![i] = "going"]
    /\ UNCHANGED <<set, asked, spare, meddled>>

\* A user deletes a machine.
Dismiss(i) ==
    /\ machine[i] = "there"
    /\ machine' = [machine EXCEPT ![i] = "going"]
    /\ meddled' = meddled + 1
    /\ UNCHANGED <<set, asked, spare>>

Finish(i) ==
    /\ machine[i] = "going"
    /\ machine' = [machine EXCEPT ![i] = "none"]
    /\ spare' = spare \ {i}
    /\ UNCHANGED <<set, asked, meddled>>

Fail == meddled' = meddled + 1 /\ UNCHANGED <<set, machine, asked, spare>>

Next ==
    \/ \E S \in SUBSET Indices : Ask(S)
    \/ Hold \/ Leave \/ Go
    \/ \E i \in Indices : Make(i) \/ GiveUp(i) \/ Dismiss(i) \/ Finish(i)
    \/ Fail

Spec == Init /\ [][Next]_vars
=============================================================================
