------------------------------- MODULE FcModels -------------------------------
(***************************************************************************)
(* The models of the Firecracker client. Fields: the struct, with the JSON *)
(* tag of the field, whether it is a value or a pointer and left out when  *)
(* it is zero or nil, and its type. Validate: the checks of the Validate   *)
(* methods, in their order; a check of a field that is not required is     *)
(* skipped when the field is nil or zero.                                  *)
(***************************************************************************)

CPUTemplateEnum == {"C3", "T2"}

BootSourceFields ==
    {<<"BootArgs", "boot_args", "value omitempty", "one", "string">>,
     <<"InitrdPath", "initrd_path", "value omitempty", "one", "string">>,
     <<"KernelImagePath", "kernel_image_path", "pointer", "one", "string">>}
BootSourceValidate == {<<"KernelImagePath", "required">>}

DriveFields ==
    {<<"DriveID", "drive_id", "pointer", "one", "string">>,
     <<"IsReadOnly", "is_read_only", "pointer", "one", "bool">>,
     <<"IsRootDevice", "is_root_device", "pointer", "one", "bool">>,
     <<"Partuuid", "partuuid", "value omitempty", "one", "string">>,
     <<"PathOnHost", "path_on_host", "pointer", "one", "string">>,
     <<"RateLimiter", "rate_limiter", "pointer omitempty", "one", "RateLimiter">>}
DriveValidate ==
    {<<"DriveID", "required">>, <<"IsReadOnly", "required">>, <<"IsRootDevice", "required">>,
     <<"PathOnHost", "required">>, <<"RateLimiter", "model", "RateLimiter">>}

ErrorFields == {<<"FaultMessage", "fault_message", "value omitempty", "one", "string">>}
ErrorValidate == {}

InstanceActionInfoFields == {<<"ActionType", "action_type", "pointer", "one", "string">>}
InstanceActionInfoValidate ==
    {<<"ActionType", "required">>,
     <<"ActionType", "enum", {"FlushMetrics", "InstanceStart", "SendCtrlAltDel"}>>}

InstanceInfoFields ==
    {<<"AppName", "app_name", "value omitempty", "one", "string">>,
     <<"ID", "id", "pointer", "one", "string">>,
     <<"Started", "started", "value omitempty", "one", "bool">>,
     <<"VmmVersion", "vmm_version", "pointer", "one", "string">>}
InstanceInfoValidate == {<<"ID", "required">>, <<"VmmVersion", "required">>}

LoggerFields ==
    {<<"Level", "level", "pointer omitempty", "one", "string">>,
     <<"LogPath", "log_path", "pointer", "one", "string">>,
     <<"ShowLevel", "show_level", "pointer omitempty", "one", "bool">>,
     <<"ShowLogOrigin", "show_log_origin", "pointer omitempty", "one", "bool">>}
LoggerValidate ==
    {<<"Level", "enum", {"Error", "Warning", "Info", "Debug"}>>, <<"LogPath", "required">>}

MachineConfigurationFields ==
    {<<"CPUTemplate", "cpu_template", "value omitempty", "one", "string">>,
     <<"HtEnabled", "ht_enabled", "pointer", "one", "bool">>,
     <<"MemSizeMib", "mem_size_mib", "pointer", "one", "int64">>,
     <<"TrackDirtyPages", "track_dirty_pages", "value omitempty", "one", "bool">>,
     <<"VcpuCount", "vcpu_count", "pointer", "one", "int64">>}
MachineConfigurationValidate ==
    {<<"CPUTemplate", "enum", CPUTemplateEnum>>, <<"HtEnabled", "required">>,
     <<"MemSizeMib", "required">>, <<"VcpuCount", "required">>, <<"VcpuCount", "minimum", 1>>,
     <<"VcpuCount", "maximum", 32>>}

MetricsFields == {<<"MetricsPath", "metrics_path", "pointer", "one", "string">>}
MetricsValidate == {<<"MetricsPath", "required">>}

MmdsConfigFields == {<<"IPV4Address", "ipv4_address", "pointer omitempty", "one", "string">>}
MmdsConfigValidate == {}

NetworkInterfaceFields ==
    {<<"AllowMmdsRequests", "allow_mmds_requests", "value omitempty", "one", "bool">>,
     <<"GuestMac", "guest_mac", "value omitempty", "one", "string">>,
     <<"HostDevName", "host_dev_name", "pointer", "one", "string">>,
     <<"IfaceID", "iface_id", "pointer", "one", "string">>,
     <<"RxRateLimiter", "rx_rate_limiter", "pointer omitempty", "one", "RateLimiter">>,
     <<"TxRateLimiter", "tx_rate_limiter", "pointer omitempty", "one", "RateLimiter">>}
NetworkInterfaceValidate ==
    {<<"HostDevName", "required">>, <<"IfaceID", "required">>,
     <<"RxRateLimiter", "model", "RateLimiter">>, <<"TxRateLimiter", "model", "RateLimiter">>}

PartialDriveFields ==
    {<<"DriveID", "drive_id", "pointer", "one", "string">>,
     <<"PathOnHost", "path_on_host", "pointer", "one", "string">>}
\* Mutant: the path is not required.
PartialDriveValidateNoPath == {<<"DriveID", "required">>}
PartialDriveValidate == {<<"DriveID", "required">>, <<"PathOnHost", "required">>}

PartialNetworkInterfaceFields ==
    {<<"IfaceID", "iface_id", "pointer", "one", "string">>,
     <<"RxRateLimiter", "rx_rate_limiter", "pointer omitempty", "one", "RateLimiter">>,
     <<"TxRateLimiter", "tx_rate_limiter", "pointer omitempty", "one", "RateLimiter">>}
PartialNetworkInterfaceValidate ==
    {<<"IfaceID", "required">>, <<"RxRateLimiter", "model", "RateLimiter">>,
     <<"TxRateLimiter", "model", "RateLimiter">>}

RateLimiterFields ==
    {<<"Bandwidth", "bandwidth", "pointer omitempty", "one", "TokenBucket">>,
     <<"Ops", "ops", "pointer omitempty", "one", "TokenBucket">>}
RateLimiterValidate ==
    {<<"Bandwidth", "model", "TokenBucket">>, <<"Ops", "model", "TokenBucket">>}

SnapshotCreateParamsFields ==
    {<<"MemFilePath", "mem_file_path", "pointer", "one", "string">>,
     <<"SnapshotPath", "snapshot_path", "pointer", "one", "string">>,
     <<"SnapshotType", "snapshot_type", "value omitempty", "one", "string">>,
     <<"Version", "version", "value omitempty", "one", "string">>}
SnapshotCreateParamsValidate ==
    {<<"MemFilePath", "required">>, <<"SnapshotPath", "required">>,
     <<"SnapshotType", "enum", {"Full"}>>}

SnapshotLoadParamsFields ==
    {<<"EnableDiffSnapshots", "enable_diff_snapshots", "value omitempty", "one", "bool">>,
     <<"MemFilePath", "mem_file_path", "pointer", "one", "string">>,
     <<"SnapshotPath", "snapshot_path", "pointer", "one", "string">>}
SnapshotLoadParamsValidate == {<<"MemFilePath", "required">>, <<"SnapshotPath", "required">>}

TokenBucketFields ==
    {<<"OneTimeBurst", "one_time_burst", "pointer omitempty", "one", "uint64">>,
     <<"RefillTime", "refill_time", "pointer", "one", "uint64">>,
     <<"Size", "size", "pointer", "one", "uint64">>}
TokenBucketValidate ==
    {<<"OneTimeBurst", "minimum", 0>>, <<"RefillTime", "required">>,
     <<"RefillTime", "minimum", 0>>, <<"Size", "required">>, <<"Size", "minimum", 0>>}

VMFields == {<<"State", "state", "pointer", "one", "string">>}
VMValidate == {<<"State", "required">>, <<"State", "enum", {"Paused", "Resumed"}>>}

VsockFields ==
    {<<"GuestCid", "guest_cid", "pointer", "one", "int64">>,
     <<"UdsPath", "uds_path", "pointer", "one", "string">>,
     <<"VsockID", "vsock_id", "pointer", "one", "string">>}
VsockValidate ==
    {<<"GuestCid", "required">>, <<"GuestCid", "minimum", 3>>, <<"UdsPath", "required">>,
     <<"VsockID", "required">>}

FcFields ==
    [BootSource |-> BootSourceFields, Drive |-> DriveFields, Error |-> ErrorFields,
     InstanceActionInfo |-> InstanceActionInfoFields, InstanceInfo |-> InstanceInfoFields,
     Logger |-> LoggerFields, MachineConfiguration |-> MachineConfigurationFields,
     Metrics |-> MetricsFields, MmdsConfig |-> MmdsConfigFields,
     NetworkInterface |-> NetworkInterfaceFields, PartialDrive |-> PartialDriveFields,
     PartialNetworkInterface |-> PartialNetworkInterfaceFields, RateLimiter |-> RateLimiterFields,
     SnapshotCreateParams |-> SnapshotCreateParamsFields,
     SnapshotLoadParams |-> SnapshotLoadParamsFields, TokenBucket |-> TokenBucketFields,
     VM |-> VMFields, Vsock |-> VsockFields]

FcValidate ==
    [BootSource |-> BootSourceValidate, Drive |-> DriveValidate, Error |-> ErrorValidate,
     InstanceActionInfo |-> InstanceActionInfoValidate, InstanceInfo |-> InstanceInfoValidate,
     Logger |-> LoggerValidate, MachineConfiguration |-> MachineConfigurationValidate,
     Metrics |-> MetricsValidate, MmdsConfig |-> MmdsConfigValidate,
     NetworkInterface |-> NetworkInterfaceValidate, PartialDrive |-> PartialDriveValidate,
     PartialNetworkInterface |-> PartialNetworkInterfaceValidate,
     RateLimiter |-> RateLimiterValidate, SnapshotCreateParams |-> SnapshotCreateParamsValidate,
     SnapshotLoadParams |-> SnapshotLoadParamsValidate, TokenBucket |-> TokenBucketValidate,
     VM |-> VMValidate, Vsock |-> VsockValidate]
=============================================================================
