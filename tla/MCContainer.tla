---------------------------- MODULE MCContainer ----------------------------
(* Small instances of Container for TLC. *)
EXTENDS Container

\* A container made from an image that is kept running, and a clone that must exist.
SomeKinds ==
    {[image |-> "nginx", config |-> 1, autostart |-> TRUE, mode |-> "Reconcile"],
     [image |-> None, config |-> 1, autostart |-> FALSE, mode |-> "EnsureExists"]}

OneKind == {[image |-> "nginx", config |-> 1, autostart |-> TRUE, mode |-> "Reconcile"]}

OwnStem == [x \in Images |-> x]

\* No name of a file has another image's stem in it, or nginx is in nginx-1.
Apart == {<<s, s>> : s \in Stems}
Nested == Apart \cup {<<"nginx", "nginx-1">>}
=============================================================================
