SPECIFICATION Spec
CONSTANTS
    c1 = c1
    c2 = c2
    c3 = c3
    d1 = d1
    d2 = d2
    d3 = d3
    NoDevice = NoDevice
    Containers <- MCContainers
    Devices <- MCDevices
    Rootfs <- MCRootfs
    DeviceInfos <- MCDeviceInfos
    Mounts <- MCMounts
    MaxBlockIndex = 2
    Faults = {"new", "plug", "unplug", "share", "storage", "request", "update"}
    MaxFaults = 1
 
 
INVARIANT UsedIsPluggedUntroubled
INVARIANT CountsMatch
CHECK_DEADLOCK FALSE
