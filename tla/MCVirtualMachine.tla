------------------------ MODULE MCVirtualMachine ------------------------
(* Small instances of VirtualMachine for TLC. *)
EXTENDS VirtualMachine

\* A clone that is kept running, a machine made from scratch that is not, and one that must exist.
SomeKinds ==
    {[template |-> TRUE, autostart |-> TRUE, mode |-> "Reconcile"],
     [template |-> FALSE, autostart |-> FALSE, mode |-> "Reconcile"],
     [template |-> FALSE, autostart |-> TRUE, mode |-> "EnsureExists"]}
=============================================================================
