---------------------------- MODULE ProtoBase ----------------------------
(***********************************************************************************************)
(* The field tables of the remaining packages (types.pb.go, csi.pb.go, health.pb.go and the VM *)
(* cache's cache.pb.go); see ProtoAgent for how they are read.                                 *)
(***********************************************************************************************)

UnmarshalIPAddress ==
    {<<1, "int32", "Family">>, <<2, "bytes", "Address">>, <<3, "bytes", "Mask">>}
MarshalIPAddress ==
    <<<<\h1a, "bytes", "Mask">>, <<\h12, "bytes", "Address">>, <<\h08, "varint", "Family">>>>
SizeIPAddress == {<<"varint", "Family">>, <<"bytes", "Address">>, <<"bytes", "Mask">>}

UnmarshalInterface ==
    {<<1, "bytes", "Device">>, <<2, "bytes", "Name">>,
     <<3, "msgs", "IPAddresses", "IPAddress">>, <<4, "uint64", "Mtu">>,
     <<5, "bytes", "HwAddr">>, <<6, "bytes", "PciPath">>, <<7, "bytes", "Type">>,
     <<8, "uint32", "RawFlags">>}
MarshalInterface ==
    <<<<\h40, "varint", "RawFlags">>, <<\h3a, "bytes", "Type">>, <<\h32, "bytes", "PciPath">>,
      <<\h2a, "bytes", "HwAddr">>, <<\h20, "varint", "Mtu">>,
      <<\h1a, "msgs", "IPAddresses", "IPAddress">>, <<\h12, "bytes", "Name">>,
      <<\h0a, "bytes", "Device">>>>
SizeInterface ==
    {<<"bytes", "Device">>, <<"bytes", "Name">>, <<"msgs", "IPAddresses", "IPAddress">>,
     <<"varint", "Mtu">>, <<"bytes", "HwAddr">>, <<"bytes", "PciPath">>, <<"bytes", "Type">>,
     <<"varint", "RawFlags">>}

UnmarshalRoute ==
    {<<1, "bytes", "Dest">>, <<2, "bytes", "Gateway">>, <<3, "bytes", "Device">>,
     <<4, "bytes", "Source">>, <<5, "uint32", "Scope">>, <<6, "int32", "Family">>}
MarshalRoute ==
    <<<<\h30, "varint", "Family">>, <<\h28, "varint", "Scope">>, <<\h22, "bytes", "Source">>,
      <<\h1a, "bytes", "Device">>, <<\h12, "bytes", "Gateway">>, <<\h0a, "bytes", "Dest">>>>
SizeRoute ==
    {<<"bytes", "Dest">>, <<"bytes", "Gateway">>, <<"bytes", "Device">>, <<"bytes", "Source">>,
     <<"varint", "Scope">>, <<"varint", "Family">>}

UnmarshalARPNeighbor ==
    {<<1, "msg", "ToIPAddress", "IPAddress">>, <<2, "bytes", "Device">>,
     <<3, "bytes", "Lladdr">>, <<4, "int32", "State">>, <<5, "int32", "Flags">>}
MarshalARPNeighbor ==
    <<<<\h28, "varint", "Flags">>, <<\h20, "varint", "State">>, <<\h1a, "bytes", "Lladdr">>,
      <<\h12, "bytes", "Device">>, <<\h0a, "msg", "ToIPAddress", "IPAddress">>>>
SizeARPNeighbor ==
    {<<"msg", "ToIPAddress", "IPAddress">>, <<"bytes", "Device">>, <<"bytes", "Lladdr">>,
     <<"varint", "State">>, <<"varint", "Flags">>}

UnmarshalVolumeStatsResponse ==
    {<<1, "msgs", "Usage", "VolumeUsage">>, <<2, "msg", "VolumeCondition", "VolumeCondition">>}
MarshalVolumeStatsResponse ==
    <<<<\h12, "msg", "VolumeCondition", "VolumeCondition">>,
      <<\h0a, "msgs", "Usage", "VolumeUsage">>>>
SizeVolumeStatsResponse ==
    {<<"msgs", "Usage", "VolumeUsage">>, <<"msg", "VolumeCondition", "VolumeCondition">>}

UnmarshalVolumeUsage ==
    {<<1, "uint64", "Available">>, <<2, "uint64", "Total">>, <<3, "uint64", "Used">>,
     <<4, "int32", "Unit">>}
MarshalVolumeUsage ==
    <<<<\h20, "varint", "Unit">>, <<\h18, "varint", "Used">>, <<\h10, "varint", "Total">>,
      <<\h08, "varint", "Available">>>>
SizeVolumeUsage ==
    {<<"varint", "Available">>, <<"varint", "Total">>, <<"varint", "Used">>,
     <<"varint", "Unit">>}

UnmarshalVolumeCondition == {<<1, "bool", "Abnormal">>, <<2, "bytes", "Message">>}
MarshalVolumeCondition == <<<<\h12, "bytes", "Message">>, <<\h08, "bool", "Abnormal">>>>
SizeVolumeCondition == {<<"bool", "Abnormal">>, <<"bytes", "Message">>}

UnmarshalCheckRequest == {<<1, "bytes", "Service">>}
MarshalCheckRequest == <<<<\h0a, "bytes", "Service">>>>
SizeCheckRequest == {<<"bytes", "Service">>}

UnmarshalHealthCheckResponse == {<<1, "int32", "Status">>}
MarshalHealthCheckResponse == <<<<\h08, "varint", "Status">>>>
SizeHealthCheckResponse == {<<"varint", "Status">>}

UnmarshalVersionCheckResponse == {<<1, "bytes", "GrpcVersion">>, <<2, "bytes", "AgentVersion">>}
MarshalVersionCheckResponse ==
    <<<<\h12, "bytes", "AgentVersion">>, <<\h0a, "bytes", "GrpcVersion">>>>
SizeVersionCheckResponse == {<<"bytes", "GrpcVersion">>, <<"bytes", "AgentVersion">>}

UnmarshalGrpcVMConfig == {<<1, "bytes", "Data">>, <<2, "bytes", "AgentConfig">>}
MarshalGrpcVMConfig == <<<<\h12, "bytes", "AgentConfig">>, <<\h0a, "bytes", "Data">>>>
SizeGrpcVMConfig == {<<"bytes", "Data">>, <<"bytes", "AgentConfig">>}

UnmarshalGrpcVM ==
    {<<1, "bytes", "Id">>, <<2, "bytes", "Hypervisor">>, <<3, "int64", "ProxyPid">>,
     <<4, "bytes", "ProxyURL">>, <<5, "uint32", "Cpu">>, <<6, "uint32", "Memory">>,
     <<7, "uint32", "CpuDelta">>}
MarshalGrpcVM ==
    <<<<\h38, "varint", "CpuDelta">>, <<\h30, "varint", "Memory">>, <<\h28, "varint", "Cpu">>,
      <<\h22, "bytes", "ProxyURL">>, <<\h18, "varint", "ProxyPid">>,
      <<\h12, "bytes", "Hypervisor">>, <<\h0a, "bytes", "Id">>>>
SizeGrpcVM ==
    {<<"bytes", "Id">>, <<"bytes", "Hypervisor">>, <<"varint", "ProxyPid">>,
     <<"bytes", "ProxyURL">>, <<"varint", "Cpu">>, <<"varint", "Memory">>,
     <<"varint", "CpuDelta">>}

UnmarshalGrpcStatus == {<<1, "int64", "Pid">>, <<2, "msgs", "Vmstatus", "GrpcVMStatus">>}
MarshalGrpcStatus == <<<<\h12, "msgs", "Vmstatus", "GrpcVMStatus">>, <<\h08, "varint", "Pid">>>>
SizeGrpcStatus == {<<"varint", "Pid">>, <<"msgs", "Vmstatus", "GrpcVMStatus">>}

UnmarshalGrpcVMStatus ==
    {<<1, "int64", "Pid">>, <<2, "uint32", "Cpu">>, <<3, "uint32", "Memory">>}
MarshalGrpcVMStatus ==
    <<<<\h18, "varint", "Memory">>, <<\h10, "varint", "Cpu">>, <<\h08, "varint", "Pid">>>>
SizeGrpcVMStatus == {<<"varint", "Pid">>, <<"varint", "Cpu">>, <<"varint", "Memory">>}

BaseUnmarshalTables ==
    [IPAddress |-> UnmarshalIPAddress, Interface |-> UnmarshalInterface,
     Route |-> UnmarshalRoute, ARPNeighbor |-> UnmarshalARPNeighbor,
     VolumeStatsResponse |-> UnmarshalVolumeStatsResponse,
     VolumeUsage |-> UnmarshalVolumeUsage, VolumeCondition |-> UnmarshalVolumeCondition,
     CheckRequest |-> UnmarshalCheckRequest,
     HealthCheckResponse |-> UnmarshalHealthCheckResponse,
     VersionCheckResponse |-> UnmarshalVersionCheckResponse,
     GrpcVMConfig |-> UnmarshalGrpcVMConfig, GrpcVM |-> UnmarshalGrpcVM,
     GrpcStatus |-> UnmarshalGrpcStatus, GrpcVMStatus |-> UnmarshalGrpcVMStatus]

BaseMarshalTables ==
    [IPAddress |-> MarshalIPAddress, Interface |-> MarshalInterface, Route |-> MarshalRoute,
     ARPNeighbor |-> MarshalARPNeighbor, VolumeStatsResponse |-> MarshalVolumeStatsResponse,
     VolumeUsage |-> MarshalVolumeUsage, VolumeCondition |-> MarshalVolumeCondition,
     CheckRequest |-> MarshalCheckRequest, HealthCheckResponse |-> MarshalHealthCheckResponse,
     VersionCheckResponse |-> MarshalVersionCheckResponse,
     GrpcVMConfig |-> MarshalGrpcVMConfig, GrpcVM |-> MarshalGrpcVM,
     GrpcStatus |-> MarshalGrpcStatus, GrpcVMStatus |-> MarshalGrpcVMStatus]

BaseSizeTables ==
    [IPAddress |-> SizeIPAddress, Interface |-> SizeInterface, Route |-> SizeRoute,
     ARPNeighbor |-> SizeARPNeighbor, VolumeStatsResponse |-> SizeVolumeStatsResponse,
     VolumeUsage |-> SizeVolumeUsage, VolumeCondition |-> SizeVolumeCondition,
     CheckRequest |-> SizeCheckRequest, HealthCheckResponse |-> SizeHealthCheckResponse,
     VersionCheckResponse |-> SizeVersionCheckResponse, GrpcVMConfig |-> SizeGrpcVMConfig,
     GrpcVM |-> SizeGrpcVM, GrpcStatus |-> SizeGrpcStatus, GrpcVMStatus |-> SizeGrpcVMStatus]
================================================================================
