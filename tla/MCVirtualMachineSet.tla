----------------------- MODULE MCVirtualMachineSet -----------------------
(* Small instances of VirtualMachineSet for TLC. *)
EXTENDS VirtualMachineSet

\* The templates only differ in their names, so one that the set starts with stands for all.
OneTemplateInit == Init /\ versions[1].template = 1

OneTemplateSpec == OneTemplateInit /\ [][Next]_vars /\ Fairness
=============================================================================
