SPECIFICATION FairSpec
CONSTANTS
    Nets = {"a", "b"}
    NetSlots = {0, 1}
    Devices = {"scsi0", "scsi1"}
    Storages = {"local", "ceph"}
    PCIs = {"gpu", "nic"}
    PCISlots = {0, 1}
    Unit = 2
    Specs <- SomeSpecs
    Templates <- Clone
    None = None
    MaxFaults = 1
INVARIANT TypeOK
PROPERTIES StagesAchieve DevicesConverge PCIsTakeEffect
