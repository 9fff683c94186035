------------------------------ MODULE ClhModels ------------------------------
(***************************************************************************)
(* The models of the Cloud Hypervisor client, one group of tables per      *)
(* model_*.go. Fields: the struct, with the JSON tag, whether the field is *)
(* a value, a pointer or a Nullable, and its type. New: the parameters and *)
(* the defaults of the constructor. Access: what the Get, GetOk, Has and   *)
(* Set methods take the field for. MarshalJSON: the key under which a      *)
(* field is sent and when.                                                 *)
(***************************************************************************)
EXTENDS TLC

BalloonConfigFields ==
    {<<"Size", "size", "value", "one", "int64">>,
     <<"DeflateOnOom", "deflate_on_oom", "pointer", "one", "bool">>,
     <<"FreePageReporting", "free_page_reporting", "pointer", "one", "bool">>}
NewBalloonConfig ==
    [params |-> {"Size"},
     defaults |-> {<<"DeflateOnOom", "false">>, <<"FreePageReporting", "false">>}]
BalloonConfigAccess ==
    {<<"Size", "value">>, <<"DeflateOnOom", "pointer">>, <<"FreePageReporting", "pointer">>}
BalloonConfigMarshalJSON ==
    {<<"Size", "always", "size">>, <<"DeflateOnOom", "not nil", "deflate_on_oom">>,
     <<"FreePageReporting", "not nil", "free_page_reporting">>}

CmdLineConfigFields == {<<"Args", "args", "value", "one", "string">>}
NewCmdLineConfig == [params |-> {"Args"}, defaults |-> {}]
CmdLineConfigAccess == {<<"Args", "value">>}
CmdLineConfigMarshalJSON == {<<"Args", "always", "args">>}

ConsoleConfigFields ==
    {<<"File", "file", "pointer", "one", "string">>, <<"Mode", "mode", "value", "one", "string">>,
     <<"Iommu", "iommu", "pointer", "one", "bool">>}
NewConsoleConfig == [params |-> {"Mode"}, defaults |-> {<<"Iommu", "false">>}]
ConsoleConfigAccess == {<<"File", "pointer">>, <<"Mode", "value">>, <<"Iommu", "pointer">>}
ConsoleConfigMarshalJSON ==
    {<<"File", "not nil", "file">>, <<"Mode", "always", "mode">>, <<"Iommu", "not nil", "iommu">>}

CpuAffinityFields ==
    {<<"Vcpu", "vcpu", "pointer", "one", "int32">>,
     <<"HostCpus", "host_cpus", "pointer", "list", "int32">>}
NewCpuAffinity == [params |-> {}, defaults |-> {}]
CpuAffinityAccess == {<<"Vcpu", "pointer">>, <<"HostCpus", "pointer">>}
CpuAffinityMarshalJSON == {<<"Vcpu", "not nil", "vcpu">>, <<"HostCpus", "not nil", "host_cpus">>}

CpuTopologyFields ==
    {<<"ThreadsPerCore", "threads_per_core", "pointer", "one", "int32">>,
     <<"CoresPerDie", "cores_per_die", "pointer", "one", "int32">>,
     <<"DiesPerPackage", "dies_per_package", "pointer", "one", "int32">>,
     <<"Packages", "packages", "pointer", "one", "int32">>}
NewCpuTopology == [params |-> {}, defaults |-> {}]
CpuTopologyAccess ==
    {<<"ThreadsPerCore", "pointer">>, <<"CoresPerDie", "pointer">>,
     <<"DiesPerPackage", "pointer">>, <<"Packages", "pointer">>}
CpuTopologyMarshalJSON ==
    {<<"ThreadsPerCore", "not nil", "threads_per_core">>,
     <<"CoresPerDie", "not nil", "cores_per_die">>,
     <<"DiesPerPackage", "not nil", "dies_per_package">>, <<"Packages", "not nil", "packages">>}

CpusConfigFields ==
    {<<"BootVcpus", "boot_vcpus", "value", "one", "int32">>,
     <<"MaxVcpus", "max_vcpus", "value", "one", "int32">>,
     <<"Topology", "topology", "pointer", "one", "CpuTopology">>,
     <<"MaxPhysBits", "max_phys_bits", "pointer", "one", "int32">>,
     <<"Affinity", "affinity", "pointer", "list", "CpuAffinity">>}
NewCpusConfig == [params |-> {"BootVcpus", "MaxVcpus"}, defaults |-> {}]
CpusConfigAccess ==
    {<<"BootVcpus", "value">>, <<"MaxVcpus", "value">>, <<"Topology", "pointer">>,
     <<"MaxPhysBits", "pointer">>, <<"Affinity", "pointer">>}
CpusConfigMarshalJSON ==
    {<<"BootVcpus", "always", "boot_vcpus">>, <<"MaxVcpus", "always", "max_vcpus">>,
     <<"Topology", "not nil", "topology">>, <<"MaxPhysBits", "not nil", "max_phys_bits">>,
     <<"Affinity", "not nil", "affinity">>}

DeviceConfigFields ==
    {<<"Path", "path", "value", "one", "string">>, <<"Iommu", "iommu", "pointer", "one", "bool">>,
     <<"PciSegment", "pci_segment", "pointer", "one", "int32">>,
     <<"Id", "id", "pointer", "one", "string">>}
NewDeviceConfig == [params |-> {"Path"}, defaults |-> {<<"Iommu", "false">>}]
DeviceConfigAccess ==
    {<<"Path", "value">>, <<"Iommu", "pointer">>, <<"PciSegment", "pointer">>,
     <<"Id", "pointer">>}
DeviceConfigMarshalJSON ==
    {<<"Path", "always", "path">>, <<"Iommu", "not nil", "iommu">>,
     <<"PciSegment", "not nil", "pci_segment">>, <<"Id", "not nil", "id">>}

DeviceNodeFields ==
    {<<"Id", "id", "pointer", "one", "string">>,
     <<"Resources", "resources", "pointer", "list", "object">>,
     <<"Children", "children", "pointer", "list", "string">>,
     <<"PciBdf", "pci_bdf", "pointer", "one", "string">>}
NewDeviceNode == [params |-> {}, defaults |-> {}]
DeviceNodeAccess ==
    {<<"Id", "pointer">>, <<"Resources", "pointer">>, <<"Children", "pointer">>,
     <<"PciBdf", "pointer">>}
DeviceNodeMarshalJSON ==
    {<<"Id", "not nil", "id">>, <<"Resources", "not nil", "resources">>,
     <<"Children", "not nil", "children">>, <<"PciBdf", "not nil", "pci_bdf">>}

DiskConfigFields ==
    {<<"Path", "path", "value", "one", "string">>,
     <<"Readonly", "readonly", "pointer", "one", "bool">>,
     <<"Direct", "direct", "pointer", "one", "bool">>,
     <<"Iommu", "iommu", "pointer", "one", "bool">>,
     <<"NumQueues", "num_queues", "pointer", "one", "int32">>,
     <<"QueueSize", "queue_size", "pointer", "one", "int32">>,
     <<"VhostUser", "vhost_user", "pointer", "one", "bool">>,
     <<"VhostSocket", "vhost_socket", "pointer", "one", "string">>,
     <<"PollQueue", "poll_queue", "pointer", "one", "bool">>,
     <<"RateLimiterConfig", "rate_limiter_config", "pointer", "one", "RateLimiterConfig">>,
     <<"PciSegment", "pci_segment", "pointer", "one", "int32">>,
     <<"Id", "id", "pointer", "one", "string">>}
NewDiskConfig ==
    [params |-> {"Path"},
     defaults |-> {<<"Readonly", "false">>, <<"Direct", "false">>, <<"Iommu", "false">>,
                   <<"NumQueues", "1">>, <<"QueueSize", "128">>, <<"VhostUser", "false">>,
                   <<"PollQueue", "true">>}]
DiskConfigAccess ==
    {<<"Path", "value">>, <<"Readonly", "pointer">>, <<"Direct", "pointer">>,
     <<"Iommu", "pointer">>, <<"NumQueues", "pointer">>, <<"QueueSize", "pointer">>,
     <<"VhostUser", "pointer">>, <<"VhostSocket", "pointer">>, <<"PollQueue", "pointer">>,
     <<"RateLimiterConfig", "pointer">>, <<"PciSegment", "pointer">>, <<"Id", "pointer">>}
DiskConfigMarshalJSON ==
    {<<"Path", "always", "path">>, <<"Readonly", "not nil", "readonly">>,
     <<"Direct", "not nil", "direct">>, <<"Iommu", "not nil", "iommu">>,
     <<"NumQueues", "not nil", "num_queues">>, <<"QueueSize", "not nil", "queue_size">>,
     <<"VhostUser", "not nil", "vhost_user">>, <<"VhostSocket", "not nil", "vhost_socket">>,
     <<"PollQueue", "not nil", "poll_queue">>,
     <<"RateLimiterConfig", "not nil", "rate_limiter_config">>,
     <<"PciSegment", "not nil", "pci_segment">>, <<"Id", "not nil", "id">>}

FsConfigFields ==
    {<<"Tag", "tag", "value", "one", "string">>, <<"Socket", "socket", "value", "one", "string">>,
     <<"NumQueues", "num_queues", "value", "one", "int32">>,
     <<"QueueSize", "queue_size", "value", "one", "int32">>,
     <<"Dax", "dax", "value", "one", "bool">>,
     <<"CacheSize", "cache_size", "value", "one", "int64">>,
     <<"PciSegment", "pci_segment", "pointer", "one", "int32">>,
     <<"Id", "id", "pointer", "one", "string">>}
NewFsConfig ==
    [params |-> {"Tag", "Socket", "NumQueues", "QueueSize", "Dax", "CacheSize"},
     defaults |-> {}]
FsConfigAccess ==
    {<<"Tag", "value">>, <<"Socket", "value">>, <<"NumQueues", "value">>,
     <<"QueueSize", "value">>, <<"Dax", "value">>, <<"CacheSize", "value">>,
     <<"PciSegment", "pointer">>, <<"Id", "pointer">>}
FsConfigMarshalJSON ==
    {<<"Tag", "always", "tag">>, <<"Socket", "always", "socket">>,
     <<"NumQueues", "always", "num_queues">>, <<"QueueSize", "always", "queue_size">>,
     <<"Dax", "always", "dax">>, <<"CacheSize", "always", "cache_size">>,
     <<"PciSegment", "not nil", "pci_segment">>, <<"Id", "not nil", "id">>}

InitramfsConfigFields == {<<"Path", "path", "value", "one", "string">>}
NewInitramfsConfig == [params |-> {"Path"}, defaults |-> {}]
InitramfsConfigAccess == {<<"Path", "value">>}
InitramfsConfigMarshalJSON == {<<"Path", "always", "path">>}

KernelConfigFields == {<<"Path", "path", "value", "one", "string">>}
NewKernelConfig == [params |-> {"Path"}, defaults |-> {}]
KernelConfigAccess == {<<"Path", "value">>}
KernelConfigMarshalJSON == {<<"Path", "always", "path">>}

MemoryConfigFields ==
    {<<"Size", "size", "value", "one", "int64">>,
     <<"HotplugSize", "hotplug_size", "pointer", "one", "int64">>,
     <<"HotpluggedSize", "hotplugged_size", "pointer", "one", "int64">>,
     <<"Mergeable", "mergeable", "pointer", "one", "bool">>,
     <<"HotplugMethod", "hotplug_method", "pointer", "one", "string">>,
     <<"Shared", "shared", "pointer", "one", "bool">>,
     <<"Hugepages", "hugepages", "pointer", "one", "bool">>,
     <<"HugepageSize", "hugepage_size", "pointer", "one", "int64">>,
     <<"Prefault", "prefault", "pointer", "one", "bool">>,
     <<"Zones", "zones", "pointer", "list", "MemoryZoneConfig">>}
NewMemoryConfig ==
    [params |-> {"Size"},
     defaults |-> {<<"Mergeable", "false">>, <<"HotplugMethod", "Acpi">>, <<"Shared", "false">>,
                   <<"Hugepages", "false">>, <<"Prefault", "false">>}]
MemoryConfigAccess ==
    {<<"Size", "value">>, <<"HotplugSize", "pointer">>, <<"HotpluggedSize", "pointer">>,
     <<"Mergeable", "pointer">>, <<"HotplugMethod", "pointer">>, <<"Shared", "pointer">>,
     <<"Hugepages", "pointer">>, <<"HugepageSize", "pointer">>, <<"Prefault", "pointer">>,
     <<"Zones", "pointer">>}
MemoryConfigMarshalJSON ==
    {<<"Size", "always", "size">>, <<"HotplugSize", "not nil", "hotplug_size">>,
     <<"HotpluggedSize", "not nil", "hotplugged_size">>, <<"Mergeable", "not nil", "mergeable">>,
     <<"HotplugMethod", "not nil", "hotplug_method">>, <<"Shared", "not nil", "shared">>,
     <<"Hugepages", "not nil", "hugepages">>, <<"HugepageSize", "not nil", "hugepage_size">>,
     <<"Prefault", "not nil", "prefault">>, <<"Zones", "not nil", "zones">>}

MemoryZoneConfigFields ==
    {<<"Id", "id", "value", "one", "string">>, <<"Size", "size", "value", "one", "int64">>,
     <<"File", "file", "pointer", "one", "string">>,
     <<"Mergeable", "mergeable", "pointer", "one", "bool">>,
     <<"Shared", "shared", "pointer", "one", "bool">>,
     <<"Hugepages", "hugepages", "pointer", "one", "bool">>,
     <<"HugepageSize", "hugepage_size", "pointer", "one", "int64">>,
     <<"HostNumaNode", "host_numa_node", "pointer", "one", "int32">>,
     <<"HotplugSize", "hotplug_size", "pointer", "one", "int64">>,
     <<"HotpluggedSize", "hotplugged_size", "pointer", "one", "int64">>,
     <<"Prefault", "prefault", "pointer", "one", "bool">>}
NewMemoryZoneConfig ==
    [params |-> {"Id", "Size"},
     defaults |-> {<<"Mergeable", "false">>, <<"Shared", "false">>, <<"Hugepages", "false">>,
                   <<"Prefault", "false">>}]
MemoryZoneConfigAccess ==
    {<<"Id", "value">>, <<"Size", "value">>, <<"File", "pointer">>, <<"Mergeable", "pointer">>,
     <<"Shared", "pointer">>, <<"Hugepages", "pointer">>, <<"HugepageSize", "pointer">>,
     <<"HostNumaNode", "pointer">>, <<"HotplugSize", "pointer">>, <<"HotpluggedSize", "pointer">>,
     <<"Prefault", "pointer">>}
MemoryZoneConfigMarshalJSON ==
    {<<"Id", "always", "id">>, <<"Size", "always", "size">>, <<"File", "not nil", "file">>,
     <<"Mergeable", "not nil", "mergeable">>, <<"Shared", "not nil", "shared">>,
     <<"Hugepages", "not nil", "hugepages">>, <<"HugepageSize", "not nil", "hugepage_size">>,
     <<"HostNumaNode", "not nil", "host_numa_node">>,
     <<"HotplugSize", "not nil", "hotplug_size">>,
     <<"HotpluggedSize", "not nil", "hotplugged_size">>, <<"Prefault", "not nil", "prefault">>}

NetConfigFields ==
    {<<"Tap", "tap", "pointer", "one", "string">>, <<"Ip", "ip", "pointer", "one", "string">>,
     <<"Mask", "mask", "pointer", "one", "string">>, <<"Mac", "mac", "pointer", "one", "string">>,
     <<"Iommu", "iommu", "pointer", "one", "bool">>,
     <<"NumQueues", "num_queues", "pointer", "one", "int32">>,
     <<"QueueSize", "queue_size", "pointer", "one", "int32">>,
     <<"VhostUser", "vhost_user", "pointer", "one", "bool">>,
     <<"VhostSocket", "vhost_socket", "pointer", "one", "string">>,
     <<"VhostMode", "vhost_mode", "pointer", "one", "string">>,
     <<"Id", "id", "pointer", "one", "string">>,
     <<"PciSegment", "pci_segment", "pointer", "one", "int32">>,
     <<"RateLimiterConfig", "rate_limiter_config", "pointer", "one", "RateLimiterConfig">>}
NewNetConfig ==
    [params |-> {},
     defaults |-> {<<"Ip", "192.168.249.1">>, <<"Mask", "255.255.255.0">>, <<"Iommu", "false">>,
                   <<"NumQueues", "2">>, <<"QueueSize", "256">>, <<"VhostUser", "false">>,
                   <<"VhostMode", "Client">>}]
NetConfigAccess ==
    {<<"Tap", "pointer">>, <<"Ip", "pointer">>, <<"Mask", "pointer">>, <<"Mac", "pointer">>,
     <<"Iommu", "pointer">>, <<"NumQueues", "pointer">>, <<"QueueSize", "pointer">>,
     <<"VhostUser", "pointer">>, <<"VhostSocket", "pointer">>, <<"VhostMode", "pointer">>,
     <<"Id", "pointer">>, <<"PciSegment", "pointer">>, <<"RateLimiterConfig", "pointer">>}
NetConfigMarshalJSON ==
    {<<"Tap", "not nil", "tap">>, <<"Ip", "not nil", "ip">>, <<"Mask", "not nil", "mask">>,
     <<"Mac", "not nil", "mac">>, <<"Iommu", "not nil", "iommu">>,
     <<"NumQueues", "not nil", "num_queues">>, <<"QueueSize", "not nil", "queue_size">>,
     <<"VhostUser", "not nil", "vhost_user">>, <<"VhostSocket", "not nil", "vhost_socket">>,
     <<"VhostMode", "not nil", "vhost_mode">>, <<"Id", "not nil", "id">>,
     <<"PciSegment", "not nil", "pci_segment">>,
     <<"RateLimiterConfig", "not nil", "rate_limiter_config">>}

NumaConfigFields ==
    {<<"GuestNumaId", "guest_numa_id", "value", "one", "int32">>,
     <<"Cpus", "cpus", "pointer", "list", "int32">>,
     <<"Distances", "distances", "pointer", "list", "NumaDistance">>,
     <<"MemoryZones", "memory_zones", "pointer", "list", "string">>,
     <<"SgxEpcSections", "sgx_epc_sections", "pointer", "list", "string">>}
NewNumaConfig == [params |-> {"GuestNumaId"}, defaults |-> {}]
NumaConfigAccess ==
    {<<"GuestNumaId", "value">>, <<"Cpus", "pointer">>, <<"Distances", "pointer">>,
     <<"MemoryZones", "pointer">>, <<"SgxEpcSections", "pointer">>}
NumaConfigMarshalJSON ==
    {<<"GuestNumaId", "always", "guest_numa_id">>, <<"Cpus", "not nil", "cpus">>,
     <<"Distances", "not nil", "distances">>, <<"MemoryZones", "not nil", "memory_zones">>,
     <<"SgxEpcSections", "not nil", "sgx_epc_sections">>}

NumaDistanceFields ==
    {<<"Destination", "destination", "value", "one", "int32">>,
     <<"Distance", "distance", "value", "one", "int32">>}
NewNumaDistance == [params |-> {"Destination", "Distance"}, defaults |-> {}]
NumaDistanceAccess == {<<"Destination", "value">>, <<"Distance", "value">>}
NumaDistanceMarshalJSON ==
    {<<"Destination", "always", "destination">>, <<"Distance", "always", "distance">>}

PciDeviceInfoFields ==
    {<<"Id", "id", "value", "one", "string">>, <<"Bdf", "bdf", "value", "one", "string">>}
NewPciDeviceInfo == [params |-> {"Id", "Bdf"}, defaults |-> {}]
PciDeviceInfoAccess == {<<"Id", "value">>, <<"Bdf", "value">>}
PciDeviceInfoMarshalJSON == {<<"Id", "always", "id">>, <<"Bdf", "always", "bdf">>}

PlatformConfigFields ==
    {<<"NumPciSegments", "num_pci_segments", "pointer", "one", "int32">>,
     <<"IommuSegments", "iommu_segments", "pointer", "list", "int32">>}
NewPlatformConfig == [params |-> {}, defaults |-> {}]
PlatformConfigAccess == {<<"NumPciSegments", "pointer">>, <<"IommuSegments", "pointer">>}
PlatformConfigMarshalJSON ==
    {<<"NumPciSegments", "not nil", "num_pci_segments">>,
     <<"IommuSegments", "not nil", "iommu_segments">>}

PmemConfigFields ==
    {<<"File", "file", "value", "one", "string">>, <<"Size", "size", "pointer", "one", "int64">>,
     <<"Iommu", "iommu", "pointer", "one", "bool">>,
     <<"Mergeable", "mergeable", "pointer", "one", "bool">>,
     <<"DiscardWrites", "discard_writes", "pointer", "one", "bool">>,
     <<"PciSegment", "pci_segment", "pointer", "one", "int32">>,
     <<"Id", "id", "pointer", "one", "string">>}
NewPmemConfig ==
    [params |-> {"File"},
     defaults |-> {<<"Iommu", "false">>, <<"Mergeable", "false">>, <<"DiscardWrites", "false">>}]
PmemConfigAccess ==
    {<<"File", "value">>, <<"Size", "pointer">>, <<"Iommu", "pointer">>,
     <<"Mergeable", "pointer">>, <<"DiscardWrites", "pointer">>, <<"PciSegment", "pointer">>,
     <<"Id", "pointer">>}
PmemConfigMarshalJSON ==
    {<<"File", "always", "file">>, <<"Size", "not nil", "size">>, <<"Iommu", "not nil", "iommu">>,
     <<"Mergeable", "not nil", "mergeable">>, <<"DiscardWrites", "not nil", "discard_writes">>,
     <<"PciSegment", "not nil", "pci_segment">>, <<"Id", "not nil", "id">>}

RateLimiterConfigFields ==
    {<<"Bandwidth", "bandwidth", "pointer", "one", "TokenBucket">>,
     <<"Ops", "ops", "pointer", "one", "TokenBucket">>}
NewRateLimiterConfig == [params |-> {}, defaults |-> {}]
RateLimiterConfigAccess == {<<"Bandwidth", "pointer">>, <<"Ops", "pointer">>}
RateLimiterConfigMarshalJSON ==
    {<<"Bandwidth", "not nil", "bandwidth">>, <<"Ops", "not nil", "ops">>}

ReceiveMigrationDataFields == {<<"ReceiverUrl", "receiver_url", "value", "one", "string">>}
NewReceiveMigrationData == [params |-> {"ReceiverUrl"}, defaults |-> {}]
ReceiveMigrationDataAccess == {<<"ReceiverUrl", "value">>}
ReceiveMigrationDataMarshalJSON == {<<"ReceiverUrl", "always", "receiver_url">>}

RestoreConfigFields ==
    {<<"SourceUrl", "source_url", "value", "one", "string">>,
     <<"Prefault", "prefault", "pointer", "one", "bool">>}
NewRestoreConfig == [params |-> {"SourceUrl"}, defaults |-> {}]
RestoreConfigAccess == {<<"SourceUrl", "value">>, <<"Prefault", "pointer">>}
RestoreConfigMarshalJSON ==
    {<<"SourceUrl", "always", "source_url">>, <<"Prefault", "not nil", "prefault">>}

RngConfigFields ==
    {<<"Src", "src", "value", "one", "string">>, <<"Iommu", "iommu", "pointer", "one", "bool">>}
NewRngConfig == [params |-> {"Src"}, defaults |-> {<<"Iommu", "false">>}]
RngConfigAccess == {<<"Src", "value">>, <<"Iommu", "pointer">>}
RngConfigMarshalJSON == {<<"Src", "always", "src">>, <<"Iommu", "not nil", "iommu">>}

SendMigrationDataFields ==
    {<<"DestinationUrl", "destination_url", "value", "one", "string">>,
     <<"Local", "local", "pointer", "one", "bool">>}
NewSendMigrationData == [params |-> {"DestinationUrl"}, defaults |-> {}]
SendMigrationDataAccess == {<<"DestinationUrl", "value">>, <<"Local", "pointer">>}
SendMigrationDataMarshalJSON ==
    {<<"DestinationUrl", "always", "destination_url">>, <<"Local", "not nil", "local">>}

SgxEpcConfigFields ==
    {<<"Id", "id", "value", "one", "string">>, <<"Size", "size", "value", "one", "int64">>,
     <<"Prefault", "prefault", "pointer", "one", "bool">>}
NewSgxEpcConfig == [params |-> {"Id", "Size"}, defaults |-> {<<"Prefault", "false">>}]
SgxEpcConfigAccess == {<<"Id", "value">>, <<"Size", "value">>, <<"Prefault", "pointer">>}
SgxEpcConfigMarshalJSON ==
    {<<"Id", "always", "id">>, <<"Size", "always", "size">>,
     <<"Prefault", "not nil", "prefault">>}

TdxConfigFields == {<<"Firmware", "firmware", "value", "one", "string">>}
NewTdxConfig == [params |-> {"Firmware"}, defaults |-> {}]
TdxConfigAccess == {<<"Firmware", "value">>}
TdxConfigMarshalJSON == {<<"Firmware", "always", "firmware">>}

TokenBucketFields ==
    {<<"Size", "size", "value", "one", "int64">>,
     <<"OneTimeBurst", "one_time_burst", "pointer", "one", "int64">>,
     <<"RefillTime", "refill_time", "value", "one", "int64">>}
NewTokenBucket == [params |-> {"Size", "RefillTime"}, defaults |-> {}]
TokenBucketAccess ==
    {<<"Size", "value">>, <<"OneTimeBurst", "pointer">>, <<"RefillTime", "value">>}
TokenBucketMarshalJSON ==
    {<<"Size", "always", "size">>, <<"OneTimeBurst", "not nil", "one_time_burst">>,
     <<"RefillTime", "always", "refill_time">>}

VmAddDeviceFields ==
    {<<"Path", "path", "pointer", "one", "string">>,
     <<"Iommu", "iommu", "pointer", "one", "bool">>, <<"Id", "id", "pointer", "one", "string">>}
NewVmAddDevice == [params |-> {}, defaults |-> {<<"Iommu", "false">>}]
VmAddDeviceAccess == {<<"Path", "pointer">>, <<"Iommu", "pointer">>, <<"Id", "pointer">>}
VmAddDeviceMarshalJSON ==
    {<<"Path", "not nil", "path">>, <<"Iommu", "not nil", "iommu">>, <<"Id", "not nil", "id">>}

VmConfigFields ==
    {<<"Cpus", "cpus", "pointer", "one", "CpusConfig">>,
     <<"Memory", "memory", "pointer", "one", "MemoryConfig">>,
     <<"Kernel", "kernel", "value", "one", "KernelConfig">>,
     <<"Initramfs", "initramfs", "nullable", "one", "InitramfsConfig">>,
     <<"Cmdline", "cmdline", "pointer", "one", "CmdLineConfig">>,
     <<"Disks", "disks", "pointer", "list", "DiskConfig">>,
     <<"Net", "net", "pointer", "list", "NetConfig">>,
     <<"Rng", "rng", "pointer", "one", "RngConfig">>,
     <<"Balloon", "balloon", "pointer", "one", "BalloonConfig">>,
     <<"Fs", "fs", "pointer", "list", "FsConfig">>,
     <<"Pmem", "pmem", "pointer", "list", "PmemConfig">>,
     <<"Serial", "serial", "pointer", "one", "ConsoleConfig">>,
     <<"Console", "console", "pointer", "one", "ConsoleConfig">>,
     <<"Devices", "devices", "pointer", "list", "DeviceConfig">>,
     <<"Vsock", "vsock", "pointer", "one", "VsockConfig">>,
     <<"SgxEpc", "sgx_epc", "pointer", "list", "SgxEpcConfig">>,
     <<"Tdx", "tdx", "pointer", "one", "TdxConfig">>,
     <<"Numa", "numa", "pointer", "list", "NumaConfig">>,
     <<"Iommu", "iommu", "pointer", "one", "bool">>,
     <<"Watchdog", "watchdog", "pointer", "one", "bool">>,
     <<"Platform", "platform", "pointer", "one", "PlatformConfig">>}
NewVmConfig ==
    [params |-> {"Kernel"},
     defaults |-> {<<"Iommu", "false">>, <<"Watchdog", "false">>}]
VmConfigAccess ==
    {<<"Cpus", "pointer">>, <<"Memory", "pointer">>, <<"Kernel", "value">>,
     <<"Initramfs", "nullable">>, <<"Cmdline", "pointer">>, <<"Disks", "pointer">>,
     <<"Net", "pointer">>, <<"Rng", "pointer">>, <<"Balloon", "pointer">>, <<"Fs", "pointer">>,
     <<"Pmem", "pointer">>, <<"Serial", "pointer">>, <<"Console", "pointer">>,
     <<"Devices", "pointer">>, <<"Vsock", "pointer">>, <<"SgxEpc", "pointer">>,
     <<"Tdx", "pointer">>, <<"Numa", "pointer">>, <<"Iommu", "pointer">>,
     <<"Watchdog", "pointer">>, <<"Platform", "pointer">>}
VmConfigMarshalJSON ==
    {<<"Cpus", "not nil", "cpus">>, <<"Memory", "not nil", "memory">>,
     <<"Kernel", "always", "kernel">>, <<"Initramfs", "is set", "initramfs">>,
     <<"Cmdline", "not nil", "cmdline">>, <<"Disks", "not nil", "disks">>,
     <<"Net", "not nil", "net">>, <<"Rng", "not nil", "rng">>,
     <<"Balloon", "not nil", "balloon">>, <<"Fs", "not nil", "fs">>,
     <<"Pmem", "not nil", "pmem">>, <<"Serial", "not nil", "serial">>,
     <<"Console", "not nil", "console">>, <<"Devices", "not nil", "devices">>,
     <<"Vsock", "not nil", "vsock">>, <<"SgxEpc", "not nil", "sgx_epc">>,
     <<"Tdx", "not nil", "tdx">>, <<"Numa", "not nil", "numa">>, <<"Iommu", "not nil", "iommu">>,
     <<"Watchdog", "not nil", "watchdog">>, <<"Platform", "not nil", "platform">>}

VmInfoFields ==
    {<<"Config", "config", "value", "one", "VmConfig">>,
     <<"State", "state", "value", "one", "string">>,
     <<"MemoryActualSize", "memory_actual_size", "pointer", "one", "int64">>,
     <<"DeviceTree", "device_tree", "pointer", "map", "DeviceNode">>}
NewVmInfo == [params |-> {"Config", "State"}, defaults |-> {}]
VmInfoAccess ==
    {<<"Config", "value">>, <<"State", "value">>, <<"MemoryActualSize", "pointer">>,
     <<"DeviceTree", "pointer">>}
VmInfoMarshalJSON ==
    {<<"Config", "always", "config">>, <<"State", "always", "state">>,
     <<"MemoryActualSize", "not nil", "memory_actual_size">>,
     <<"DeviceTree", "not nil", "device_tree">>}

VmRemoveDeviceFields == {<<"Id", "id", "pointer", "one", "string">>}
NewVmRemoveDevice == [params |-> {}, defaults |-> {}]
VmRemoveDeviceAccess == {<<"Id", "pointer">>}
VmRemoveDeviceMarshalJSON == {<<"Id", "not nil", "id">>}

VmResizeFields ==
    {<<"DesiredVcpus", "desired_vcpus", "pointer", "one", "int32">>,
     <<"DesiredRam", "desired_ram", "pointer", "one", "int64">>,
     <<"DesiredBalloon", "desired_balloon", "pointer", "one", "int64">>}
NewVmResize == [params |-> {}, defaults |-> {}]
VmResizeAccess ==
    {<<"DesiredVcpus", "pointer">>, <<"DesiredRam", "pointer">>, <<"DesiredBalloon", "pointer">>}
VmResizeMarshalJSON ==
    {<<"DesiredVcpus", "not nil", "desired_vcpus">>, <<"DesiredRam", "not nil", "desired_ram">>,
     <<"DesiredBalloon", "not nil", "desired_balloon">>}

VmResizeZoneFields ==
    {<<"Id", "id", "pointer", "one", "string">>,
     <<"DesiredRam", "desired_ram", "pointer", "one", "int64">>}
NewVmResizeZone == [params |-> {}, defaults |-> {}]
VmResizeZoneAccess == {<<"Id", "pointer">>, <<"DesiredRam", "pointer">>}
VmResizeZoneMarshalJSON == {<<"Id", "not nil", "id">>, <<"DesiredRam", "not nil", "desired_ram">>}

VmSnapshotConfigFields == {<<"DestinationUrl", "destination_url", "pointer", "one", "string">>}
NewVmSnapshotConfig == [params |-> {}, defaults |-> {}]
VmSnapshotConfigAccess == {<<"DestinationUrl", "pointer">>}
VmSnapshotConfigMarshalJSON == {<<"DestinationUrl", "not nil", "destination_url">>}

\* Mutant: the struct tag is not the key that MarshalJSON writes.
VmmPingResponseFieldsRenamed == {<<"Version", "build_version", "value", "one", "string">>}
VmmPingResponseFields == {<<"Version", "version", "value", "one", "string">>}
NewVmmPingResponse == [params |-> {"Version"}, defaults |-> {}]
VmmPingResponseAccess == {<<"Version", "value">>}
VmmPingResponseMarshalJSON == {<<"Version", "always", "version">>}

VsockConfigFields ==
    {<<"Cid", "cid", "value", "one", "int64">>, <<"Socket", "socket", "value", "one", "string">>,
     <<"Iommu", "iommu", "pointer", "one", "bool">>,
     <<"PciSegment", "pci_segment", "pointer", "one", "int32">>,
     <<"Id", "id", "pointer", "one", "string">>}
NewVsockConfig == [params |-> {"Cid", "Socket"}, defaults |-> {<<"Iommu", "false">>}]
VsockConfigAccess ==
    {<<"Cid", "value">>, <<"Socket", "value">>, <<"Iommu", "pointer">>,
     <<"PciSegment", "pointer">>, <<"Id", "pointer">>}
VsockConfigMarshalJSON ==
    {<<"Cid", "always", "cid">>, <<"Socket", "always", "socket">>,
     <<"Iommu", "not nil", "iommu">>, <<"PciSegment", "not nil", "pci_segment">>,
     <<"Id", "not nil", "id">>}

ClhFields ==
    [BalloonConfig |-> BalloonConfigFields, CmdLineConfig |-> CmdLineConfigFields,
     ConsoleConfig |-> ConsoleConfigFields, CpuAffinity |-> CpuAffinityFields,
     CpuTopology |-> CpuTopologyFields, CpusConfig |-> CpusConfigFields,
     DeviceConfig |-> DeviceConfigFields, DeviceNode |-> DeviceNodeFields,
     DiskConfig |-> DiskConfigFields, FsConfig |-> FsConfigFields,
     InitramfsConfig |-> InitramfsConfigFields, KernelConfig |-> KernelConfigFields,
     MemoryConfig |-> MemoryConfigFields, MemoryZoneConfig |-> MemoryZoneConfigFields,
     NetConfig |-> NetConfigFields, NumaConfig |-> NumaConfigFields,
     NumaDistance |-> NumaDistanceFields, PciDeviceInfo |-> PciDeviceInfoFields,
     PlatformConfig |-> PlatformConfigFields, PmemConfig |-> PmemConfigFields,
     RateLimiterConfig |-> RateLimiterConfigFields,
     ReceiveMigrationData |-> ReceiveMigrationDataFields, RestoreConfig |-> RestoreConfigFields,
     RngConfig |-> RngConfigFields, SendMigrationData |-> SendMigrationDataFields,
     SgxEpcConfig |-> SgxEpcConfigFields, TdxConfig |-> TdxConfigFields,
     TokenBucket |-> TokenBucketFields, VmAddDevice |-> VmAddDeviceFields,
     VmConfig |-> VmConfigFields, VmInfo |-> VmInfoFields,
     VmRemoveDevice |-> VmRemoveDeviceFields, VmResize |-> VmResizeFields,
     VmResizeZone |-> VmResizeZoneFields, VmSnapshotConfig |-> VmSnapshotConfigFields,
     VmmPingResponse |-> VmmPingResponseFields, VsockConfig |-> VsockConfigFields]

ClhNew ==
    [BalloonConfig |-> NewBalloonConfig, CmdLineConfig |-> NewCmdLineConfig,
     ConsoleConfig |-> NewConsoleConfig, CpuAffinity |-> NewCpuAffinity,
     CpuTopology |-> NewCpuTopology, CpusConfig |-> NewCpusConfig,
     DeviceConfig |-> NewDeviceConfig, DeviceNode |-> NewDeviceNode, DiskConfig |-> NewDiskConfig,
     FsConfig |-> NewFsConfig, InitramfsConfig |-> NewInitramfsConfig,
     KernelConfig |-> NewKernelConfig, MemoryConfig |-> NewMemoryConfig,
     MemoryZoneConfig |-> NewMemoryZoneConfig, NetConfig |-> NewNetConfig,
     NumaConfig |-> NewNumaConfig, NumaDistance |-> NewNumaDistance,
     PciDeviceInfo |-> NewPciDeviceInfo, PlatformConfig |-> NewPlatformConfig,
     PmemConfig |-> NewPmemConfig, RateLimiterConfig |-> NewRateLimiterConfig,
     ReceiveMigrationData |-> NewReceiveMigrationData, RestoreConfig |-> NewRestoreConfig,
     RngConfig |-> NewRngConfig, SendMigrationData |-> NewSendMigrationData,
     SgxEpcConfig |-> NewSgxEpcConfig, TdxConfig |-> NewTdxConfig, TokenBucket |-> NewTokenBucket,
     VmAddDevice |-> NewVmAddDevice, VmConfig |-> NewVmConfig, VmInfo |-> NewVmInfo,
     VmRemoveDevice |-> NewVmRemoveDevice, VmResize |-> NewVmResize,
     VmResizeZone |-> NewVmResizeZone, VmSnapshotConfig |-> NewVmSnapshotConfig,
     VmmPingResponse |-> NewVmmPingResponse, VsockConfig |-> NewVsockConfig]

ClhAccess ==
    [BalloonConfig |-> BalloonConfigAccess, CmdLineConfig |-> CmdLineConfigAccess,
     ConsoleConfig |-> ConsoleConfigAccess, CpuAffinity |-> CpuAffinityAccess,
     CpuTopology |-> CpuTopologyAccess, CpusConfig |-> CpusConfigAccess,
     DeviceConfig |-> DeviceConfigAccess, DeviceNode |-> DeviceNodeAccess,
     DiskConfig |-> DiskConfigAccess, FsConfig |-> FsConfigAccess,
     InitramfsConfig |-> InitramfsConfigAccess, KernelConfig |-> KernelConfigAccess,
     MemoryConfig |-> MemoryConfigAccess, MemoryZoneConfig |-> MemoryZoneConfigAccess,
     NetConfig |-> NetConfigAccess, NumaConfig |-> NumaConfigAccess,
     NumaDistance |-> NumaDistanceAccess, PciDeviceInfo |-> PciDeviceInfoAccess,
     PlatformConfig |-> PlatformConfigAccess, PmemConfig |-> PmemConfigAccess,
     RateLimiterConfig |-> RateLimiterConfigAccess,
     ReceiveMigrationData |-> ReceiveMigrationDataAccess, RestoreConfig |-> RestoreConfigAccess,
     RngConfig |-> RngConfigAccess, SendMigrationData |-> SendMigrationDataAccess,
     SgxEpcConfig |-> SgxEpcConfigAccess, TdxConfig |-> TdxConfigAccess,
     TokenBucket |-> TokenBucketAccess, VmAddDevice |-> VmAddDeviceAccess,
     VmConfig |-> VmConfigAccess, VmInfo |-> VmInfoAccess,
     VmRemoveDevice |-> VmRemoveDeviceAccess, VmResize |-> VmResizeAccess,
     VmResizeZone |-> VmResizeZoneAccess, VmSnapshotConfig |-> VmSnapshotConfigAccess,
     VmmPingResponse |-> VmmPingResponseAccess, VsockConfig |-> VsockConfigAccess]

ClhMarshalJSON ==
    [BalloonConfig |-> BalloonConfigMarshalJSON, CmdLineConfig |-> CmdLineConfigMarshalJSON,
     ConsoleConfig |-> ConsoleConfigMarshalJSON, CpuAffinity |-> CpuAffinityMarshalJSON,
     CpuTopology |-> CpuTopologyMarshalJSON, CpusConfig |-> CpusConfigMarshalJSON,
     DeviceConfig |-> DeviceConfigMarshalJSON, DeviceNode |-> DeviceNodeMarshalJSON,
     DiskConfig |-> DiskConfigMarshalJSON, FsConfig |-> FsConfigMarshalJSON,
     InitramfsConfig |-> InitramfsConfigMarshalJSON, KernelConfig |-> KernelConfigMarshalJSON,
     MemoryConfig |-> MemoryConfigMarshalJSON, MemoryZoneConfig |-> MemoryZoneConfigMarshalJSON,
     NetConfig |-> NetConfigMarshalJSON, NumaConfig |-> NumaConfigMarshalJSON,
     NumaDistance |-> NumaDistanceMarshalJSON, PciDeviceInfo |-> PciDeviceInfoMarshalJSON,
     PlatformConfig |-> PlatformConfigMarshalJSON, PmemConfig |-> PmemConfigMarshalJSON,
     RateLimiterConfig |-> RateLimiterConfigMarshalJSON,
     ReceiveMigrationData |-> ReceiveMigrationDataMarshalJSON,
     RestoreConfig |-> RestoreConfigMarshalJSON, RngConfig |-> RngConfigMarshalJSON,
     SendMigrationData |-> SendMigrationDataMarshalJSON, SgxEpcConfig |-> SgxEpcConfigMarshalJSON,
     TdxConfig |-> TdxConfigMarshalJSON, TokenBucket |-> TokenBucketMarshalJSON,
     VmAddDevice |-> VmAddDeviceMarshalJSON, VmConfig |-> VmConfigMarshalJSON,
     VmInfo |-> VmInfoMarshalJSON, VmRemoveDevice |-> VmRemoveDeviceMarshalJSON,
     VmResize |-> VmResizeMarshalJSON, VmResizeZone |-> VmResizeZoneMarshalJSON,
     VmSnapshotConfig |-> VmSnapshotConfigMarshalJSON,
     VmmPingResponse |-> VmmPingResponseMarshalJSON, VsockConfig |-> VsockConfigMarshalJSON]
=============================================================================
