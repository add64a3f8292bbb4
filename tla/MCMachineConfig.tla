--------------------------- MODULE MCMachineConfig ---------------------------
(* Small instances of MachineConfig for TLC. *)
EXTENDS MachineConfig

Disk(d, size) == [device |-> d, storage |-> "local", size |-> size]
Asked(nets, disks, pcis) == [nets |-> nets, disks |-> disks, pcis |-> pcis]

\* Two NICs of one bridge, or one NIC; a disk of another storage, or one that is enlarged and
\* another; one PCI device, or two.
SomeSpecs ==
    {Asked(<<"b", "b">>, <<[Disk("scsi0", 1) EXCEPT !.storage = "ceph"]>>, <<"gpu">>),
     Asked(<<"a">>, <<Disk("scsi0", 2), Disk("scsi1", 1)>>, <<"gpu", "nic">>)}

\* A template whose disk has a gigabyte and a half.
Clone ==
    {[net |-> [n \in NetSlots |-> IF n = 0 THEN "a" ELSE None],
      disk |-> [d \in Devices |-> IF d = "scsi0" THEN [storage |-> "local", size |-> 3] ELSE None],
      pci |-> [n \in PCISlots |-> None]]}
=============================================================================
