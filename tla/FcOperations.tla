----------------------------- MODULE FcOperations -----------------------------
(***************************************************************************)
(* The operations of the Firecracker client: the method and the path of    *)
(* the request and the type that the result of the reader is asserted to   *)
(* have; the parameters (the model of the body, the parameters in the      *)
(* path); and the cases of the response reader: the status code, the type  *)
(* made for it, whether it is returned as a result or as an error, and its *)
(* payload. The second half is the other end, the VMM, as its API          *)
(* description gives it.                                                   *)
(***************************************************************************)

GetMmds == [method |-> "GET", path |-> "/mmds", result |-> "OK"]
GetMmdsParams == [body |-> "none", path |-> {}]
GetMmdsReader == {<<200, "OK", TRUE, "object">>, <<404, "NotFound", FALSE, "Error">>}

PatchMmds == [method |-> "PATCH", path |-> "/mmds", result |-> "NoContent"]
PatchMmdsParams == [body |-> "object", path |-> {}]
PatchMmdsReader == {<<204, "NoContent", TRUE, "none">>, <<400, "BadRequest", FALSE, "Error">>}

PutMmds == [method |-> "PUT", path |-> "/mmds", result |-> "NoContent"]
PutMmdsParams == [body |-> "object", path |-> {}]
PutMmdsReader == {<<204, "NoContent", TRUE, "none">>, <<400, "BadRequest", FALSE, "Error">>}

PutMmdsConfig == [method |-> "PUT", path |-> "/mmds/config", result |-> "NoContent"]
PutMmdsConfigParams == [body |-> "MmdsConfig", path |-> {}]
PutMmdsConfigReader == {<<204, "NoContent", TRUE, "none">>, <<400, "BadRequest", FALSE, "Error">>}

CreateSnapshot == [method |-> "PUT", path |-> "/snapshot/create", result |-> "NoContent"]
CreateSnapshotParams == [body |-> "SnapshotCreateParams", path |-> {}]
CreateSnapshotReader ==
    {<<204, "NoContent", TRUE, "none">>, <<400, "BadRequest", FALSE, "Error">>}

CreateSyncAction == [method |-> "PUT", path |-> "/actions", result |-> "NoContent"]
CreateSyncActionParams == [body |-> "InstanceActionInfo", path |-> {}]
CreateSyncActionReader ==
    {<<204, "NoContent", TRUE, "none">>, <<400, "BadRequest", FALSE, "Error">>}

DescribeInstance == [method |-> "GET", path |-> "/", result |-> "OK"]
DescribeInstanceParams == [body |-> "none", path |-> {}]
DescribeInstanceReader == {<<200, "OK", TRUE, "InstanceInfo">>}

GetMachineConfiguration == [method |-> "GET", path |-> "/machine-config", result |-> "OK"]
GetMachineConfigurationParams == [body |-> "none", path |-> {}]
GetMachineConfigurationReader == {<<200, "OK", TRUE, "MachineConfiguration">>}

LoadSnapshot == [method |-> "PUT", path |-> "/snapshot/load", result |-> "NoContent"]
LoadSnapshotParams == [body |-> "SnapshotLoadParams", path |-> {}]
LoadSnapshotReader == {<<204, "NoContent", TRUE, "none">>, <<400, "BadRequest", FALSE, "Error">>}

PatchGuestDriveByID == [method |-> "PATCH", path |-> "/drives/{drive_id}", result |-> "NoContent"]
PatchGuestDriveByIDParams == [body |-> "PartialDrive", path |-> {"drive_id"}]
PatchGuestDriveByIDReader ==
    {<<204, "NoContent", TRUE, "none">>, <<400, "BadRequest", FALSE, "Error">>}

PatchGuestNetworkInterfaceByID ==
    [method |-> "PATCH", path |-> "/network-interfaces/{iface_id}", result |-> "NoContent"]
PatchGuestNetworkInterfaceByIDParams == [body |-> "PartialNetworkInterface", path |-> {"iface_id"}]
PatchGuestNetworkInterfaceByIDReader ==
    {<<204, "NoContent", TRUE, "none">>, <<400, "BadRequest", FALSE, "Error">>}

PatchMachineConfiguration ==
    [method |-> "PATCH", path |-> "/machine-config", result |-> "NoContent"]
PatchMachineConfigurationParams == [body |-> "MachineConfiguration", path |-> {}]
PatchMachineConfigurationReader ==
    {<<204, "NoContent", TRUE, "none">>, <<400, "BadRequest", FALSE, "Error">>}

PatchVM == [method |-> "PATCH", path |-> "/vm", result |-> "NoContent"]
PatchVMParams == [body |-> "VM", path |-> {}]
PatchVMReader == {<<204, "NoContent", TRUE, "none">>, <<400, "BadRequest", FALSE, "Error">>}

PutGuestBootSource == [method |-> "PUT", path |-> "/boot-source", result |-> "NoContent"]
PutGuestBootSourceParams == [body |-> "BootSource", path |-> {}]
PutGuestBootSourceReader ==
    {<<204, "NoContent", TRUE, "none">>, <<400, "BadRequest", FALSE, "Error">>}

PutGuestDriveByID == [method |-> "PUT", path |-> "/drives/{drive_id}", result |-> "NoContent"]
PutGuestDriveByIDParams == [body |-> "Drive", path |-> {"drive_id"}]
PutGuestDriveByIDReader ==
    {<<204, "NoContent", TRUE, "none">>, <<400, "BadRequest", FALSE, "Error">>}

PutGuestNetworkInterfaceByID ==
    [method |-> "PUT", path |-> "/network-interfaces/{iface_id}", result |-> "NoContent"]
PutGuestNetworkInterfaceByIDParams == [body |-> "NetworkInterface", path |-> {"iface_id"}]
PutGuestNetworkInterfaceByIDReader ==
    {<<204, "NoContent", TRUE, "none">>, <<400, "BadRequest", FALSE, "Error">>}

PutGuestVsock == [method |-> "PUT", path |-> "/vsock", result |-> "NoContent"]
PutGuestVsockParams == [body |-> "Vsock", path |-> {}]
PutGuestVsockReader == {<<204, "NoContent", TRUE, "none">>, <<400, "BadRequest", FALSE, "Error">>}

PutLogger == [method |-> "PUT", path |-> "/logger", result |-> "NoContent"]
PutLoggerParams == [body |-> "Logger", path |-> {}]
PutLoggerReader == {<<204, "NoContent", TRUE, "none">>, <<400, "BadRequest", FALSE, "Error">>}

PutMachineConfiguration == [method |-> "PUT", path |-> "/machine-config", result |-> "NoContent"]
PutMachineConfigurationParams == [body |-> "MachineConfiguration", path |-> {}]
PutMachineConfigurationReader ==
    {<<204, "NoContent", TRUE, "none">>, <<400, "BadRequest", FALSE, "Error">>}

PutMetrics == [method |-> "PUT", path |-> "/metrics", result |-> "NoContent"]
PutMetricsParams == [body |-> "Metrics", path |-> {}]
PutMetricsReader == {<<204, "NoContent", TRUE, "none">>, <<400, "BadRequest", FALSE, "Error">>}

FcOps ==
    [GetMmds |-> GetMmds, PatchMmds |-> PatchMmds, PutMmds |-> PutMmds,
     PutMmdsConfig |-> PutMmdsConfig, CreateSnapshot |-> CreateSnapshot,
     CreateSyncAction |-> CreateSyncAction, DescribeInstance |-> DescribeInstance,
     GetMachineConfiguration |-> GetMachineConfiguration, LoadSnapshot |-> LoadSnapshot,
     PatchGuestDriveByID |-> PatchGuestDriveByID,
     PatchGuestNetworkInterfaceByID |-> PatchGuestNetworkInterfaceByID,
     PatchMachineConfiguration |-> PatchMachineConfiguration, PatchVM |-> PatchVM,
     PutGuestBootSource |-> PutGuestBootSource, PutGuestDriveByID |-> PutGuestDriveByID,
     PutGuestNetworkInterfaceByID |-> PutGuestNetworkInterfaceByID,
     PutGuestVsock |-> PutGuestVsock, PutLogger |-> PutLogger,
     PutMachineConfiguration |-> PutMachineConfiguration, PutMetrics |-> PutMetrics]

FcParams ==
    [GetMmds |-> GetMmdsParams, PatchMmds |-> PatchMmdsParams, PutMmds |-> PutMmdsParams,
     PutMmdsConfig |-> PutMmdsConfigParams, CreateSnapshot |-> CreateSnapshotParams,
     CreateSyncAction |-> CreateSyncActionParams, DescribeInstance |-> DescribeInstanceParams,
     GetMachineConfiguration |-> GetMachineConfigurationParams,
     LoadSnapshot |-> LoadSnapshotParams, PatchGuestDriveByID |-> PatchGuestDriveByIDParams,
     PatchGuestNetworkInterfaceByID |-> PatchGuestNetworkInterfaceByIDParams,
     PatchMachineConfiguration |-> PatchMachineConfigurationParams, PatchVM |-> PatchVMParams,
     PutGuestBootSource |-> PutGuestBootSourceParams,
     PutGuestDriveByID |-> PutGuestDriveByIDParams,
     PutGuestNetworkInterfaceByID |-> PutGuestNetworkInterfaceByIDParams,
     PutGuestVsock |-> PutGuestVsockParams, PutLogger |-> PutLoggerParams,
     PutMachineConfiguration |-> PutMachineConfigurationParams, PutMetrics |-> PutMetricsParams]

FcReaders ==
    [GetMmds |-> GetMmdsReader, PatchMmds |-> PatchMmdsReader, PutMmds |-> PutMmdsReader,
     PutMmdsConfig |-> PutMmdsConfigReader, CreateSnapshot |-> CreateSnapshotReader,
     CreateSyncAction |-> CreateSyncActionReader, DescribeInstance |-> DescribeInstanceReader,
     GetMachineConfiguration |-> GetMachineConfigurationReader,
     LoadSnapshot |-> LoadSnapshotReader, PatchGuestDriveByID |-> PatchGuestDriveByIDReader,
     PatchGuestNetworkInterfaceByID |-> PatchGuestNetworkInterfaceByIDReader,
     PatchMachineConfiguration |-> PatchMachineConfigurationReader, PatchVM |-> PatchVMReader,
     PutGuestBootSource |-> PutGuestBootSourceReader,
     PutGuestDriveByID |-> PutGuestDriveByIDReader,
     PutGuestNetworkInterfaceByID |-> PutGuestNetworkInterfaceByIDReader,
     PutGuestVsock |-> PutGuestVsockReader, PutLogger |-> PutLoggerReader,
     PutMachineConfiguration |-> PutMachineConfigurationReader, PutMetrics |-> PutMetricsReader]

FcPaths ==
    {[method |-> "GET", path |-> "/", body |-> "none",
      accepted |-> {200}, refused |-> {500}, payload |-> "InstanceInfo"],
     [method |-> "PUT", path |-> "/actions", body |-> "InstanceActionInfo",
      accepted |-> {204}, refused |-> {400, 500}, payload |-> "none"],
     [method |-> "PUT", path |-> "/boot-source", body |-> "BootSource",
      accepted |-> {204}, refused |-> {400, 500}, payload |-> "none"],
     [method |-> "PUT", path |-> "/drives/{drive_id}", body |-> "Drive",
      accepted |-> {204}, refused |-> {400, 500}, payload |-> "none"],
     [method |-> "PATCH", path |-> "/drives/{drive_id}", body |-> "PartialDrive",
      accepted |-> {204}, refused |-> {400, 500}, payload |-> "none"],
     [method |-> "PUT", path |-> "/logger", body |-> "Logger",
      accepted |-> {204}, refused |-> {400, 500}, payload |-> "none"],
     [method |-> "GET", path |-> "/machine-config", body |-> "none",
      accepted |-> {200}, refused |-> {500}, payload |-> "MachineConfiguration"],
     [method |-> "PUT", path |-> "/machine-config", body |-> "MachineConfiguration",
      accepted |-> {204}, refused |-> {400, 500}, payload |-> "none"],
     [method |-> "PATCH", path |-> "/machine-config", body |-> "MachineConfiguration",
      accepted |-> {204}, refused |-> {400, 500}, payload |-> "none"],
     [method |-> "PUT", path |-> "/metrics", body |-> "Metrics",
      accepted |-> {204}, refused |-> {400, 500}, payload |-> "none"],
     [method |-> "PUT", path |-> "/mmds", body |-> "object",
      accepted |-> {204}, refused |-> {400, 500}, payload |-> "none"],
     [method |-> "PATCH", path |-> "/mmds", body |-> "object",
      accepted |-> {204}, refused |-> {400, 500}, payload |-> "none"],
     [method |-> "GET", path |-> "/mmds", body |-> "none",
      accepted |-> {200}, refused |-> {404, 500}, payload |-> "object"],
     [method |-> "PUT", path |-> "/mmds/config", body |-> "MmdsConfig",
      accepted |-> {204}, refused |-> {400, 500}, payload |-> "none"],
     [method |-> "PUT", path |-> "/network-interfaces/{iface_id}", body |-> "NetworkInterface",
      accepted |-> {204}, refused |-> {400, 500}, payload |-> "none"],
     [method |-> "PATCH", path |-> "/network-interfaces/{iface_id}", body |-> "PartialNetworkInterface",
      accepted |-> {204}, refused |-> {400, 500}, payload |-> "none"],
     [method |-> "PUT", path |-> "/snapshot/create", body |-> "SnapshotCreateParams",
      accepted |-> {204}, refused |-> {400, 500}, payload |-> "none"],
     [method |-> "PUT", path |-> "/snapshot/load", body |-> "SnapshotLoadParams",
      accepted |-> {204}, refused |-> {400, 500}, payload |-> "none"],
     [method |-> "PATCH", path |-> "/vm", body |-> "VM",
      accepted |-> {204}, refused |-> {400, 500}, payload |-> "none"],
     [method |-> "PUT", path |-> "/vsock", body |-> "Vsock",
      accepted |-> {204}, refused |-> {400, 500}, payload |-> "none"]}

BootSourceSchema ==
    [required |-> {"kernel_image_path"},
     properties |-> {<<"boot_args", "one", "string">>, <<"initrd_path", "one", "string">>,
                     <<"kernel_image_path", "one", "string">>},
     defaults |-> {}]

DriveSchema ==
    [required |-> {"drive_id", "is_read_only", "is_root_device", "path_on_host"},
     properties |-> {<<"drive_id", "one", "string">>, <<"is_read_only", "one", "bool">>,
                     <<"is_root_device", "one", "bool">>, <<"partuuid", "one", "string">>,
                     <<"path_on_host", "one", "string">>,
                     <<"rate_limiter", "one", "RateLimiter">>},
     defaults |-> {}]

ErrorSchema ==
    [required |-> {},
     properties |-> {<<"fault_message", "one", "string">>},
     defaults |-> {}]

InstanceActionInfoSchema ==
    [required |-> {"action_type"},
     properties |-> {<<"action_type", "one", "string">>},
     defaults |-> {}]

InstanceInfoSchema ==
    [required |-> {"id", "vmm_version"},
     properties |-> {<<"app_name", "one", "string">>, <<"id", "one", "string">>,
                     <<"started", "one", "bool">>, <<"vmm_version", "one", "string">>},
     defaults |-> {}]

LoggerSchema ==
    [required |-> {"log_path"},
     properties |-> {<<"level", "one", "string">>, <<"log_path", "one", "string">>,
                     <<"show_level", "one", "bool">>, <<"show_log_origin", "one", "bool">>},
     defaults |-> {<<"level", "Warning">>, <<"show_level", "false">>,
                   <<"show_log_origin", "false">>}]

MachineConfigurationSchema ==
    [required |-> {"ht_enabled", "mem_size_mib", "vcpu_count"},
     properties |-> {<<"cpu_template", "one", "string">>, <<"ht_enabled", "one", "bool">>,
                     <<"mem_size_mib", "one", "int">>, <<"track_dirty_pages", "one", "bool">>,
                     <<"vcpu_count", "one", "int">>},
     defaults |-> {}]

MetricsSchema ==
    [required |-> {"metrics_path"},
     properties |-> {<<"metrics_path", "one", "string">>},
     defaults |-> {}]

MmdsConfigSchema ==
    [required |-> {},
     properties |-> {<<"ipv4_address", "one", "string">>},
     defaults |-> {<<"ipv4_address", "169.254.169.254">>}]

NetworkInterfaceSchema ==
    [required |-> {"host_dev_name", "iface_id"},
     properties |-> {<<"allow_mmds_requests", "one", "bool">>, <<"guest_mac", "one", "string">>,
                     <<"host_dev_name", "one", "string">>, <<"iface_id", "one", "string">>,
                     <<"rx_rate_limiter", "one", "RateLimiter">>,
                     <<"tx_rate_limiter", "one", "RateLimiter">>},
     defaults |-> {}]

PartialDriveSchema ==
    [required |-> {"drive_id", "path_on_host"},
     properties |-> {<<"drive_id", "one", "string">>, <<"path_on_host", "one", "string">>},
     defaults |-> {}]

PartialNetworkInterfaceSchema ==
    [required |-> {"iface_id"},
     properties |-> {<<"iface_id", "one", "string">>,
                     <<"rx_rate_limiter", "one", "RateLimiter">>,
                     <<"tx_rate_limiter", "one", "RateLimiter">>},
     defaults |-> {}]

RateLimiterSchema ==
    [required |-> {},
     properties |-> {<<"bandwidth", "one", "TokenBucket">>, <<"ops", "one", "TokenBucket">>},
     defaults |-> {}]

SnapshotCreateParamsSchema ==
    [required |-> {"mem_file_path", "snapshot_path"},
     properties |-> {<<"mem_file_path", "one", "string">>, <<"snapshot_path", "one", "string">>,
                     <<"snapshot_type", "one", "string">>, <<"version", "one", "string">>},
     defaults |-> {}]

SnapshotLoadParamsSchema ==
    [required |-> {"mem_file_path", "snapshot_path"},
     properties |-> {<<"enable_diff_snapshots", "one", "bool">>,
                     <<"mem_file_path", "one", "string">>, <<"snapshot_path", "one", "string">>},
     defaults |-> {}]

TokenBucketSchema ==
    [required |-> {"refill_time", "size"},
     properties |-> {<<"one_time_burst", "one", "int">>, <<"refill_time", "one", "int">>,
                     <<"size", "one", "int">>},
     defaults |-> {}]

VMSchema ==
    [required |-> {"state"},
     properties |-> {<<"state", "one", "string">>},
     defaults |-> {}]

VsockSchema ==
    [required |-> {"guest_cid", "uds_path", "vsock_id"},
     properties |-> {<<"guest_cid", "one", "int">>, <<"uds_path", "one", "string">>,
                     <<"vsock_id", "one", "string">>},
     defaults |-> {}]

FcSchemas ==
    [BootSource |-> BootSourceSchema, Drive |-> DriveSchema, Error |-> ErrorSchema,
     InstanceActionInfo |-> InstanceActionInfoSchema, InstanceInfo |-> InstanceInfoSchema,
     Logger |-> LoggerSchema, MachineConfiguration |-> MachineConfigurationSchema,
     Metrics |-> MetricsSchema, MmdsConfig |-> MmdsConfigSchema,
     NetworkInterface |-> NetworkInterfaceSchema, PartialDrive |-> PartialDriveSchema,
     PartialNetworkInterface |-> PartialNetworkInterfaceSchema, RateLimiter |-> RateLimiterSchema,
     SnapshotCreateParams |-> SnapshotCreateParamsSchema,
     SnapshotLoadParams |-> SnapshotLoadParamsSchema, TokenBucket |-> TokenBucketSchema,
     VM |-> VMSchema, Vsock |-> VsockSchema]
=============================================================================
