---------------------------- MODULE ClhOperations ----------------------------
(***************************************************************************)
(* The operations of the Cloud Hypervisor client (api_default.go): the     *)
(* method and the path of the request, the model that its body must be and *)
(* the type that its answer is decoded into. The second half is the other  *)
(* end, the VMM, as its API description gives it: the paths with the       *)
(* status codes it answers, and for each schema the required and the       *)
(* optional properties and the defaults of those that are left out.        *)
(***************************************************************************)
EXTENDS TLC

BootVM == [method |-> "PUT", path |-> "/vm.boot", body |-> "none", returns |-> "none"]

CreateVM == [method |-> "PUT", path |-> "/vm.create", body |-> "VmConfig", returns |-> "none"]

DeleteVM == [method |-> "PUT", path |-> "/vm.delete", body |-> "none", returns |-> "none"]

PauseVM == [method |-> "PUT", path |-> "/vm.pause", body |-> "none", returns |-> "none"]

PowerButtonVM ==
    [method |-> "PUT", path |-> "/vm.power-button", body |-> "none", returns |-> "none"]

RebootVM == [method |-> "PUT", path |-> "/vm.reboot", body |-> "none", returns |-> "none"]

ResumeVM == [method |-> "PUT", path |-> "/vm.resume", body |-> "none", returns |-> "none"]

ShutdownVM == [method |-> "PUT", path |-> "/vm.shutdown", body |-> "none", returns |-> "none"]

ShutdownVMM == [method |-> "PUT", path |-> "/vmm.shutdown", body |-> "none", returns |-> "none"]

VmAddDevicePut ==
    [method |-> "PUT", path |-> "/vm.add-device", body |-> "VmAddDevice",
     returns |-> "PciDeviceInfo"]

VmAddDiskPut ==
    [method |-> "PUT", path |-> "/vm.add-disk", body |-> "DiskConfig",
     returns |-> "PciDeviceInfo"]

VmAddFsPut ==
    [method |-> "PUT", path |-> "/vm.add-fs", body |-> "FsConfig", returns |-> "PciDeviceInfo"]

VmAddNetPut ==
    [method |-> "PUT", path |-> "/vm.add-net", body |-> "NetConfig", returns |-> "PciDeviceInfo"]

VmAddPmemPut ==
    [method |-> "PUT", path |-> "/vm.add-pmem", body |-> "PmemConfig",
     returns |-> "PciDeviceInfo"]

VmAddVsockPut ==
    [method |-> "PUT", path |-> "/vm.add-vsock", body |-> "VsockConfig",
     returns |-> "PciDeviceInfo"]

VmCountersGet ==
    [method |-> "GET", path |-> "/vm.counters", body |-> "none", returns |-> "counters"]

VmInfoGet == [method |-> "GET", path |-> "/vm.info", body |-> "none", returns |-> "VmInfo"]

VmReceiveMigrationPut ==
    [method |-> "PUT", path |-> "/vm.receive-migration", body |-> "ReceiveMigrationData",
     returns |-> "none"]

VmRemoveDevicePut ==
    [method |-> "PUT", path |-> "/vm.remove-device", body |-> "VmRemoveDevice",
     returns |-> "none"]

VmResizePut == [method |-> "PUT", path |-> "/vm.resize", body |-> "VmResize", returns |-> "none"]

VmResizeZonePut ==
    [method |-> "PUT", path |-> "/vm.resize-zone", body |-> "VmResizeZone", returns |-> "none"]

VmRestorePut ==
    [method |-> "PUT", path |-> "/vm.restore", body |-> "RestoreConfig", returns |-> "none"]

VmSendMigrationPut ==
    [method |-> "PUT", path |-> "/vm.send-migration", body |-> "SendMigrationData",
     returns |-> "none"]

VmSnapshotPut ==
    [method |-> "PUT", path |-> "/vm.snapshot", body |-> "VmSnapshotConfig", returns |-> "none"]

VmmPingGet ==
    [method |-> "GET", path |-> "/vmm.ping", body |-> "none", returns |-> "VmmPingResponse"]

ClhOps ==
    [BootVM |-> BootVM, CreateVM |-> CreateVM, DeleteVM |-> DeleteVM, PauseVM |-> PauseVM,
     PowerButtonVM |-> PowerButtonVM, RebootVM |-> RebootVM, ResumeVM |-> ResumeVM,
     ShutdownVM |-> ShutdownVM, ShutdownVMM |-> ShutdownVMM, VmAddDevicePut |-> VmAddDevicePut,
     VmAddDiskPut |-> VmAddDiskPut, VmAddFsPut |-> VmAddFsPut, VmAddNetPut |-> VmAddNetPut,
     VmAddPmemPut |-> VmAddPmemPut, VmAddVsockPut |-> VmAddVsockPut,
     VmCountersGet |-> VmCountersGet, VmInfoGet |-> VmInfoGet,
     VmReceiveMigrationPut |-> VmReceiveMigrationPut, VmRemoveDevicePut |-> VmRemoveDevicePut,
     VmResizePut |-> VmResizePut, VmResizeZonePut |-> VmResizeZonePut,
     VmRestorePut |-> VmRestorePut, VmSendMigrationPut |-> VmSendMigrationPut,
     VmSnapshotPut |-> VmSnapshotPut, VmmPingGet |-> VmmPingGet]

ClhPaths ==
    {[method |-> "GET", path |-> "/vmm.ping", body |-> "none",
      accepted |-> {200}, refused |-> {}, payload |-> "VmmPingResponse"],
     [method |-> "PUT", path |-> "/vmm.shutdown", body |-> "none",
      accepted |-> {204}, refused |-> {}, payload |-> "none"],
     [method |-> "GET", path |-> "/vm.info", body |-> "none",
      accepted |-> {200}, refused |-> {}, payload |-> "VmInfo"],
     [method |-> "GET", path |-> "/vm.counters", body |-> "none",
      accepted |-> {200}, refused |-> {}, payload |-> "counters"],
     [method |-> "PUT", path |-> "/vm.create", body |-> "VmConfig",
      accepted |-> {204}, refused |-> {}, payload |-> "none"],
     [method |-> "PUT", path |-> "/vm.delete", body |-> "none",
      accepted |-> {204}, refused |-> {}, payload |-> "none"],
     [method |-> "PUT", path |-> "/vm.boot", body |-> "none",
      accepted |-> {204}, refused |-> {404}, payload |-> "none"],
     [method |-> "PUT", path |-> "/vm.pause", body |-> "none",
      accepted |-> {204}, refused |-> {404, 405}, payload |-> "none"],
     [method |-> "PUT", path |-> "/vm.resume", body |-> "none",
      accepted |-> {204}, refused |-> {404, 405}, payload |-> "none"],
     [method |-> "PUT", path |-> "/vm.shutdown", body |-> "none",
      accepted |-> {204}, refused |-> {404, 405}, payload |-> "none"],
     [method |-> "PUT", path |-> "/vm.reboot", body |-> "none",
      accepted |-> {204}, refused |-> {404, 405}, payload |-> "none"],
     [method |-> "PUT", path |-> "/vm.power-button", body |-> "none",
      accepted |-> {204}, refused |-> {404, 405}, payload |-> "none"],
     [method |-> "PUT", path |-> "/vm.resize", body |-> "VmResize",
      accepted |-> {204}, refused |-> {404}, payload |-> "none"],
     [method |-> "PUT", path |-> "/vm.resize-zone", body |-> "VmResizeZone",
      accepted |-> {204}, refused |-> {500}, payload |-> "none"],
     [method |-> "PUT", path |-> "/vm.add-device", body |-> "VmAddDevice",
      accepted |-> {200, 204}, refused |-> {404}, payload |-> "PciDeviceInfo"],
     [method |-> "PUT", path |-> "/vm.remove-device", body |-> "VmRemoveDevice",
      accepted |-> {204}, refused |-> {404}, payload |-> "none"],
     [method |-> "PUT", path |-> "/vm.add-disk", body |-> "DiskConfig",
      accepted |-> {200, 204}, refused |-> {500}, payload |-> "PciDeviceInfo"],
     [method |-> "PUT", path |-> "/vm.add-fs", body |-> "FsConfig",
      accepted |-> {200, 204}, refused |-> {500}, payload |-> "PciDeviceInfo"],
     [method |-> "PUT", path |-> "/vm.add-pmem", body |-> "PmemConfig",
      accepted |-> {200, 204}, refused |-> {500}, payload |-> "PciDeviceInfo"],
     [method |-> "PUT", path |-> "/vm.add-net", body |-> "NetConfig",
      accepted |-> {200, 204}, refused |-> {500}, payload |-> "PciDeviceInfo"],
     [method |-> "PUT", path |-> "/vm.add-vsock", body |-> "VsockConfig",
      accepted |-> {200, 204}, refused |-> {500}, payload |-> "PciDeviceInfo"],
     [method |-> "PUT", path |-> "/vm.snapshot", body |-> "VmSnapshotConfig",
      accepted |-> {204}, refused |-> {404, 405}, payload |-> "none"],
     [method |-> "PUT", path |-> "/vm.restore", body |-> "RestoreConfig",
      accepted |-> {204}, refused |-> {404}, payload |-> "none"],
     [method |-> "PUT", path |-> "/vm.receive-migration", body |-> "ReceiveMigrationData",
      accepted |-> {204}, refused |-> {500}, payload |-> "none"],
     [method |-> "PUT", path |-> "/vm.send-migration", body |-> "SendMigrationData",
      accepted |-> {204}, refused |-> {500}, payload |-> "none"]}

BalloonConfigSchema ==
    [required |-> {"size"},
     properties |-> {<<"size", "one", "int">>, <<"deflate_on_oom", "one", "bool">>,
                     <<"free_page_reporting", "one", "bool">>},
     defaults |-> {<<"deflate_on_oom", "false">>, <<"free_page_reporting", "false">>}]

CmdLineConfigSchema ==
    [required |-> {"args"},
     properties |-> {<<"args", "one", "string">>},
     defaults |-> {}]

ConsoleConfigSchema ==
    [required |-> {"mode"},
     properties |-> {<<"file", "one", "string">>, <<"mode", "one", "string">>,
                     <<"iommu", "one", "bool">>},
     defaults |-> {<<"iommu", "false">>}]

CpuAffinitySchema ==
    [required |-> {},
     properties |-> {<<"vcpu", "one", "int">>, <<"host_cpus", "list", "int">>},
     defaults |-> {}]

CpuTopologySchema ==
    [required |-> {},
     properties |-> {<<"threads_per_core", "one", "int">>, <<"cores_per_die", "one", "int">>,
                     <<"dies_per_package", "one", "int">>, <<"packages", "one", "int">>},
     defaults |-> {}]

CpusConfigSchema ==
    [required |-> {"boot_vcpus", "max_vcpus"},
     properties |-> {<<"boot_vcpus", "one", "int">>, <<"max_vcpus", "one", "int">>,
                     <<"topology", "one", "CpuTopology">>, <<"max_phys_bits", "one", "int">>,
                     <<"affinity", "list", "CpuAffinity">>},
     defaults |-> {}]

DeviceConfigSchema ==
    [required |-> {"path"},
     properties |-> {<<"path", "one", "string">>, <<"iommu", "one", "bool">>,
                     <<"pci_segment", "one", "int">>, <<"id", "one", "string">>},
     defaults |-> {<<"iommu", "false">>}]

DeviceNodeSchema ==
    [required |-> {},
     properties |-> {<<"id", "one", "string">>, <<"resources", "list", "object">>,
                     <<"children", "list", "string">>, <<"pci_bdf", "one", "string">>},
     defaults |-> {}]

DiskConfigSchema ==
    [required |-> {"path"},
     properties |-> {<<"path", "one", "string">>, <<"readonly", "one", "bool">>,
                     <<"direct", "one", "bool">>, <<"iommu", "one", "bool">>,
                     <<"num_queues", "one", "int">>, <<"queue_size", "one", "int">>,
                     <<"vhost_user", "one", "bool">>, <<"vhost_socket", "one", "string">>,
                     <<"poll_queue", "one", "bool">>,
                     <<"rate_limiter_config", "one", "RateLimiterConfig">>,
                     <<"pci_segment", "one", "int">>, <<"id", "one", "string">>},
     defaults |-> {<<"readonly", "false">>, <<"direct", "false">>, <<"iommu", "false">>,
                   <<"num_queues", "1">>, <<"queue_size", "128">>, <<"vhost_user", "false">>,
                   <<"poll_queue", "true">>}]

FsConfigSchema ==
    [required |-> {"cache_size", "dax", "num_queues", "queue_size", "socket", "tag"},
     properties |-> {<<"tag", "one", "string">>, <<"socket", "one", "string">>,
                     <<"num_queues", "one", "int">>, <<"queue_size", "one", "int">>,
                     <<"dax", "one", "bool">>, <<"cache_size", "one", "int">>,
                     <<"pci_segment", "one", "int">>, <<"id", "one", "string">>},
     defaults |-> {}]

InitramfsConfigSchema ==
    [required |-> {"path"},
     properties |-> {<<"path", "one", "string">>},
     defaults |-> {}]

KernelConfigSchema ==
    [required |-> {"path"},
     properties |-> {<<"path", "one", "string">>},
     defaults |-> {}]

MemoryConfigSchema ==
    [required |-> {"size"},
     properties |-> {<<"size", "one", "int">>, <<"hotplug_size", "one", "int">>,
                     <<"hotplugged_size", "one", "int">>, <<"mergeable", "one", "bool">>,
                     <<"hotplug_method", "one", "string">>, <<"shared", "one", "bool">>,
                     <<"hugepages", "one", "bool">>, <<"hugepage_size", "one", "int">>,
                     <<"prefault", "one", "bool">>, <<"zones", "list", "MemoryZoneConfig">>},
     defaults |-> {<<"mergeable", "false">>, <<"hotplug_method", "Acpi">>,
                   <<"shared", "false">>, <<"hugepages", "false">>, <<"prefault", "false">>}]

MemoryZoneConfigSchema ==
    [required |-> {"id", "size"},
     properties |-> {<<"id", "one", "string">>, <<"size", "one", "int">>,
                     <<"file", "one", "string">>, <<"mergeable", "one", "bool">>,
                     <<"shared", "one", "bool">>, <<"hugepages", "one", "bool">>,
                     <<"hugepage_size", "one", "int">>, <<"host_numa_node", "one", "int">>,
                     <<"hotplug_size", "one", "int">>, <<"hotplugged_size", "one", "int">>,
                     <<"prefault", "one", "bool">>},
     defaults |-> {<<"mergeable", "false">>, <<"shared", "false">>, <<"hugepages", "false">>,
                   <<"prefault", "false">>}]

NetConfigSchema ==
    [required |-> {},
     properties |-> {<<"tap", "one", "string">>, <<"ip", "one", "string">>,
                     <<"mask", "one", "string">>, <<"mac", "one", "string">>,
                     <<"iommu", "one", "bool">>, <<"num_queues", "one", "int">>,
                     <<"queue_size", "one", "int">>, <<"vhost_user", "one", "bool">>,
                     <<"vhost_socket", "one", "string">>, <<"vhost_mode", "one", "string">>,
                     <<"id", "one", "string">>, <<"pci_segment", "one", "int">>,
                     <<"rate_limiter_config", "one", "RateLimiterConfig">>},
     defaults |-> {<<"ip", "192.168.249.1">>, <<"mask", "255.255.255.0">>, <<"iommu", "false">>,
                   <<"num_queues", "2">>, <<"queue_size", "256">>, <<"vhost_user", "false">>,
                   <<"vhost_mode", "Client">>}]

NumaConfigSchema ==
    [required |-> {"guest_numa_id"},
     properties |-> {<<"guest_numa_id", "one", "int">>, <<"cpus", "list", "int">>,
                     <<"distances", "list", "NumaDistance">>,
                     <<"memory_zones", "list", "string">>,
                     <<"sgx_epc_sections", "list", "string">>},
     defaults |-> {}]

NumaDistanceSchema ==
    [required |-> {"destination", "distance"},
     properties |-> {<<"destination", "one", "int">>, <<"distance", "one", "int">>},
     defaults |-> {}]

PciDeviceInfoSchema ==
    [required |-> {"id", "bdf"},
     properties |-> {<<"id", "one", "string">>, <<"bdf", "one", "string">>},
     defaults |-> {}]

PlatformConfigSchema ==
    [required |-> {},
     properties |-> {<<"num_pci_segments", "one", "int">>, <<"iommu_segments", "list", "int">>},
     defaults |-> {}]

PmemConfigSchema ==
    [required |-> {"file"},
     properties |-> {<<"file", "one", "string">>, <<"size", "one", "int">>,
                     <<"iommu", "one", "bool">>, <<"mergeable", "one", "bool">>,
                     <<"discard_writes", "one", "bool">>, <<"pci_segment", "one", "int">>,
                     <<"id", "one", "string">>},
     defaults |-> {<<"iommu", "false">>, <<"mergeable", "false">>, <<"discard_writes", "false">>}]

RateLimiterConfigSchema ==
    [required |-> {},
     properties |-> {<<"bandwidth", "one", "TokenBucket">>, <<"ops", "one", "TokenBucket">>},
     defaults |-> {}]

ReceiveMigrationDataSchema ==
    [required |-> {"receiver_url"},
     properties |-> {<<"receiver_url", "one", "string">>},
     defaults |-> {}]

RestoreConfigSchema ==
    [required |-> {"source_url"},
     properties |-> {<<"source_url", "one", "string">>, <<"prefault", "one", "bool">>},
     defaults |-> {}]

RngConfigSchema ==
    [required |-> {"src"},
     properties |-> {<<"src", "one", "string">>, <<"iommu", "one", "bool">>},
     defaults |-> {<<"iommu", "false">>}]

SendMigrationDataSchema ==
    [required |-> {"destination_url"},
     properties |-> {<<"destination_url", "one", "string">>, <<"local", "one", "bool">>},
     defaults |-> {}]

SgxEpcConfigSchema ==
    [required |-> {"id", "size"},
     properties |-> {<<"id", "one", "string">>, <<"size", "one", "int">>,
                     <<"prefault", "one", "bool">>},
     defaults |-> {<<"prefault", "false">>}]

TdxConfigSchema ==
    [required |-> {"firmware"},
     properties |-> {<<"firmware", "one", "string">>},
     defaults |-> {}]

TokenBucketSchema ==
    [required |-> {"size", "refill_time"},
     properties |-> {<<"size", "one", "int">>, <<"one_time_burst", "one", "int">>,
                     <<"refill_time", "one", "int">>},
     defaults |-> {}]

VmAddDeviceSchema ==
    [required |-> {},
     properties |-> {<<"path", "one", "string">>, <<"iommu", "one", "bool">>,
                     <<"id", "one", "string">>},
     defaults |-> {<<"iommu", "false">>}]

VmConfigSchema ==
    [required |-> {"kernel"},
     properties |-> {<<"cpus", "one", "CpusConfig">>, <<"memory", "one", "MemoryConfig">>,
                     <<"kernel", "one", "KernelConfig">>,
                     <<"initramfs", "one", "InitramfsConfig">>,
                     <<"cmdline", "one", "CmdLineConfig">>, <<"disks", "list", "DiskConfig">>,
                     <<"net", "list", "NetConfig">>, <<"rng", "one", "RngConfig">>,
                     <<"balloon", "one", "BalloonConfig">>, <<"fs", "list", "FsConfig">>,
                     <<"pmem", "list", "PmemConfig">>, <<"serial", "one", "ConsoleConfig">>,
                     <<"console", "one", "ConsoleConfig">>,
                     <<"devices", "list", "DeviceConfig">>, <<"vsock", "one", "VsockConfig">>,
                     <<"sgx_epc", "list", "SgxEpcConfig">>, <<"tdx", "one", "TdxConfig">>,
                     <<"numa", "list", "NumaConfig">>, <<"iommu", "one", "bool">>,
                     <<"watchdog", "one", "bool">>, <<"platform", "one", "PlatformConfig">>},
     defaults |-> {<<"iommu", "false">>, <<"watchdog", "false">>}]

VmInfoSchema ==
    [required |-> {"config", "state"},
     properties |-> {<<"config", "one", "VmConfig">>, <<"state", "one", "string">>,
                     <<"memory_actual_size", "one", "int">>,
                     <<"device_tree", "map", "DeviceNode">>},
     defaults |-> {}]

VmRemoveDeviceSchema ==
    [required |-> {},
     properties |-> {<<"id", "one", "string">>},
     defaults |-> {}]

VmResizeSchema ==
    [required |-> {},
     properties |-> {<<"desired_vcpus", "one", "int">>, <<"desired_ram", "one", "int">>,
                     <<"desired_balloon", "one", "int">>},
     defaults |-> {}]

VmResizeZoneSchema ==
    [required |-> {},
     properties |-> {<<"id", "one", "string">>, <<"desired_ram", "one", "int">>},
     defaults |-> {}]

VmSnapshotConfigSchema ==
    [required |-> {},
     properties |-> {<<"destination_url", "one", "string">>},
     defaults |-> {}]

VmmPingResponseSchema ==
    [required |-> {"version"},
     properties |-> {<<"version", "one", "string">>},
     defaults |-> {}]

VsockConfigSchema ==
    [required |-> {"cid", "socket"},
     properties |-> {<<"cid", "one", "int">>, <<"socket", "one", "string">>,
                     <<"iommu", "one", "bool">>, <<"pci_segment", "one", "int">>,
                     <<"id", "one", "string">>},
     defaults |-> {<<"iommu", "false">>}]

ClhSchemas ==
    [BalloonConfig |-> BalloonConfigSchema, CmdLineConfig |-> CmdLineConfigSchema,
     ConsoleConfig |-> ConsoleConfigSchema, CpuAffinity |-> CpuAffinitySchema,
     CpuTopology |-> CpuTopologySchema, CpusConfig |-> CpusConfigSchema,
     DeviceConfig |-> DeviceConfigSchema, DeviceNode |-> DeviceNodeSchema,
     DiskConfig |-> DiskConfigSchema, FsConfig |-> FsConfigSchema,
     InitramfsConfig |-> InitramfsConfigSchema, KernelConfig |-> KernelConfigSchema,
     MemoryConfig |-> MemoryConfigSchema, MemoryZoneConfig |-> MemoryZoneConfigSchema,
     NetConfig |-> NetConfigSchema, NumaConfig |-> NumaConfigSchema,
     NumaDistance |-> NumaDistanceSchema, PciDeviceInfo |-> PciDeviceInfoSchema,
     PlatformConfig |-> PlatformConfigSchema, PmemConfig |-> PmemConfigSchema,
     RateLimiterConfig |-> RateLimiterConfigSchema,
     ReceiveMigrationData |-> ReceiveMigrationDataSchema, RestoreConfig |-> RestoreConfigSchema,
     RngConfig |-> RngConfigSchema, SendMigrationData |-> SendMigrationDataSchema,
     SgxEpcConfig |-> SgxEpcConfigSchema, TdxConfig |-> TdxConfigSchema,
     TokenBucket |-> TokenBucketSchema, VmAddDevice |-> VmAddDeviceSchema,
     VmConfig |-> VmConfigSchema, VmInfo |-> VmInfoSchema,
     VmRemoveDevice |-> VmRemoveDeviceSchema, VmResize |-> VmResizeSchema,
     VmResizeZone |-> VmResizeZoneSchema, VmSnapshotConfig |-> VmSnapshotConfigSchema,
     VmmPingResponse |-> VmmPingResponseSchema, VsockConfig |-> VsockConfigSchema]
=============================================================================
