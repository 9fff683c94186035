---------------------------- MODULE ProtoAgent ----------------------------
(**************************************************************************************************)
(* The field tables of the agent's messages (agent.pb.go), one message after the other.  Each     *)
(* message has three generated methods that must agree with each other, and one table for each:   *)
(*                                                                                                *)
(*   UnmarshalM  the cases of the switch on the field number: number, decoding, field             *)
(*   MarshalM    the blocks of MarshalToSizedBuffer in the order in which they run, which is from *)
(*               the last field to the first because the buffer is filled from its end: the tag   *)
(*               byte the block writes, encoding, field                                           *)
(*   SizeM       the terms of Size(): encoding, field                                             *)
(*                                                                                                *)
(* A fourth component names the message type of a field that is itself a message.  The tables are *)
(* read off the three methods separately: no table is computed from another.  ProtoCodec gives    *)
(* them their meaning.                                                                            *)
(**************************************************************************************************)

UnmarshalCreateContainerRequest ==
    {<<1, "bytes", "ContainerId">>, <<2, "bytes", "ExecId">>,
     <<3, "msg", "StringUser", "StringUser">>, <<4, "msgs", "Devices", "Device">>,
     <<5, "msgs", "Storages", "Storage">>, <<6, "msg", "OCI", "Spec">>,
     <<7, "bool", "SandboxPidns">>}
MarshalCreateContainerRequest ==
    <<<<\h38, "bool", "SandboxPidns">>, <<\h32, "msg", "OCI", "Spec">>,
      <<\h2a, "msgs", "Storages", "Storage">>, <<\h22, "msgs", "Devices", "Device">>,
      <<\h1a, "msg", "StringUser", "StringUser">>, <<\h12, "bytes", "ExecId">>,
      <<\h0a, "bytes", "ContainerId">>>>
SizeCreateContainerRequest ==
    {<<"bytes", "ContainerId">>, <<"bytes", "ExecId">>, <<"msg", "StringUser", "StringUser">>,
     <<"msgs", "Devices", "Device">>, <<"msgs", "Storages", "Storage">>,
     <<"msg", "OCI", "Spec">>, <<"bool", "SandboxPidns">>}

UnmarshalStartContainerRequest == {<<1, "bytes", "ContainerId">>}
MarshalStartContainerRequest == <<<<\h0a, "bytes", "ContainerId">>>>
SizeStartContainerRequest == {<<"bytes", "ContainerId">>}

UnmarshalRemoveContainerRequest == {<<1, "bytes", "ContainerId">>, <<2, "uint32", "Timeout">>}
MarshalRemoveContainerRequest ==
    <<<<\h10, "varint", "Timeout">>, <<\h0a, "bytes", "ContainerId">>>>
SizeRemoveContainerRequest == {<<"bytes", "ContainerId">>, <<"varint", "Timeout">>}

UnmarshalExecProcessRequest ==
    {<<1, "bytes", "ContainerId">>, <<2, "bytes", "ExecId">>,
     <<3, "msg", "StringUser", "StringUser">>, <<4, "msg", "Process", "Process">>}
MarshalExecProcessRequest ==
    <<<<\h22, "msg", "Process", "Process">>, <<\h1a, "msg", "StringUser", "StringUser">>,
      <<\h12, "bytes", "ExecId">>, <<\h0a, "bytes", "ContainerId">>>>
SizeExecProcessRequest ==
    {<<"bytes", "ContainerId">>, <<"bytes", "ExecId">>, <<"msg", "StringUser", "StringUser">>,
     <<"msg", "Process", "Process">>}

UnmarshalSignalProcessRequest ==
    {<<1, "bytes", "ContainerId">>, <<2, "bytes", "ExecId">>, <<3, "uint32", "Signal">>}
MarshalSignalProcessRequest ==
    <<<<\h18, "varint", "Signal">>, <<\h12, "bytes", "ExecId">>,
      <<\h0a, "bytes", "ContainerId">>>>
SizeSignalProcessRequest ==
    {<<"bytes", "ContainerId">>, <<"bytes", "ExecId">>, <<"varint", "Signal">>}

UnmarshalWaitProcessRequest == {<<1, "bytes", "ContainerId">>, <<2, "bytes", "ExecId">>}
MarshalWaitProcessRequest == <<<<\h12, "bytes", "ExecId">>, <<\h0a, "bytes", "ContainerId">>>>
SizeWaitProcessRequest == {<<"bytes", "ContainerId">>, <<"bytes", "ExecId">>}

UnmarshalWaitProcessResponse == {<<1, "int32", "Status">>}
MarshalWaitProcessResponse == <<<<\h08, "varint", "Status">>>>
SizeWaitProcessResponse == {<<"varint", "Status">>}

UnmarshalUpdateContainerRequest ==
    {<<1, "bytes", "ContainerId">>, <<2, "msg", "Resources", "LinuxResources">>}
MarshalUpdateContainerRequest ==
    <<<<\h12, "msg", "Resources", "LinuxResources">>, <<\h0a, "bytes", "ContainerId">>>>
SizeUpdateContainerRequest ==
    {<<"bytes", "ContainerId">>, <<"msg", "Resources", "LinuxResources">>}

UnmarshalStatsContainerRequest == {<<1, "bytes", "ContainerId">>}
MarshalStatsContainerRequest == <<<<\h0a, "bytes", "ContainerId">>>>
SizeStatsContainerRequest == {<<"bytes", "ContainerId">>}

UnmarshalPauseContainerRequest == {<<1, "bytes", "ContainerId">>}
MarshalPauseContainerRequest == <<<<\h0a, "bytes", "ContainerId">>>>
SizePauseContainerRequest == {<<"bytes", "ContainerId">>}

UnmarshalResumeContainerRequest == {<<1, "bytes", "ContainerId">>}
MarshalResumeContainerRequest == <<<<\h0a, "bytes", "ContainerId">>>>
SizeResumeContainerRequest == {<<"bytes", "ContainerId">>}

UnmarshalCpuUsage ==
    {<<1, "uint64", "TotalUsage">>, <<2, "packed_uint64", "PercpuUsage">>,
     <<3, "uint64", "UsageInKernelmode">>, <<4, "uint64", "UsageInUsermode">>}
MarshalCpuUsage ==
    <<<<\h20, "varint", "UsageInUsermode">>, <<\h18, "varint", "UsageInKernelmode">>,
      <<\h12, "packed", "PercpuUsage">>, <<\h08, "varint", "TotalUsage">>>>
SizeCpuUsage ==
    {<<"varint", "TotalUsage">>, <<"packed", "PercpuUsage">>,
     <<"varint", "UsageInKernelmode">>, <<"varint", "UsageInUsermode">>}

UnmarshalThrottlingData ==
    {<<1, "uint64", "Periods">>, <<2, "uint64", "ThrottledPeriods">>,
     <<3, "uint64", "ThrottledTime">>}
MarshalThrottlingData ==
    <<<<\h18, "varint", "ThrottledTime">>, <<\h10, "varint", "ThrottledPeriods">>,
      <<\h08, "varint", "Periods">>>>
SizeThrottlingData ==
    {<<"varint", "Periods">>, <<"varint", "ThrottledPeriods">>, <<"varint", "ThrottledTime">>}

UnmarshalCpuStats ==
    {<<1, "msg", "CpuUsage", "CpuUsage">>, <<2, "msg", "ThrottlingData", "ThrottlingData">>}
MarshalCpuStats ==
    <<<<\h12, "msg", "ThrottlingData", "ThrottlingData">>,
      <<\h0a, "msg", "CpuUsage", "CpuUsage">>>>
SizeCpuStats ==
    {<<"msg", "CpuUsage", "CpuUsage">>, <<"msg", "ThrottlingData", "ThrottlingData">>}

UnmarshalPidsStats == {<<1, "uint64", "Current">>, <<2, "uint64", "Limit">>}
MarshalPidsStats == <<<<\h10, "varint", "Limit">>, <<\h08, "varint", "Current">>>>
SizePidsStats == {<<"varint", "Current">>, <<"varint", "Limit">>}

UnmarshalMemoryData ==
    {<<1, "uint64", "Usage">>, <<2, "uint64", "MaxUsage">>, <<3, "uint64", "Failcnt">>,
     <<4, "uint64", "Limit">>}
MarshalMemoryData ==
    <<<<\h20, "varint", "Limit">>, <<\h18, "varint", "Failcnt">>,
      <<\h10, "varint", "MaxUsage">>, <<\h08, "varint", "Usage">>>>
SizeMemoryData ==
    {<<"varint", "Usage">>, <<"varint", "MaxUsage">>, <<"varint", "Failcnt">>,
     <<"varint", "Limit">>}

UnmarshalMemoryStats ==
    {<<1, "uint64", "Cache">>, <<2, "msg", "Usage", "MemoryData">>,
     <<3, "msg", "SwapUsage", "MemoryData">>, <<4, "msg", "KernelUsage", "MemoryData">>,
     <<5, "bool", "UseHierarchy">>, <<6, "map_varint", "Stats">>}
MarshalMemoryStats ==
    <<<<\h32, "map_varint", "Stats">>, <<\h28, "bool", "UseHierarchy">>,
      <<\h22, "msg", "KernelUsage", "MemoryData">>, <<\h1a, "msg", "SwapUsage", "MemoryData">>,
      <<\h12, "msg", "Usage", "MemoryData">>, <<\h08, "varint", "Cache">>>>
SizeMemoryStats ==
    {<<"varint", "Cache">>, <<"msg", "Usage", "MemoryData">>,
     <<"msg", "SwapUsage", "MemoryData">>, <<"msg", "KernelUsage", "MemoryData">>,
     <<"bool", "UseHierarchy">>, <<"map_varint", "Stats">>}

UnmarshalBlkioStatsEntry ==
    {<<1, "uint64", "Major">>, <<2, "uint64", "Minor">>, <<3, "bytes", "Op">>,
     <<4, "uint64", "Value">>}
MarshalBlkioStatsEntry ==
    <<<<\h20, "varint", "Value">>, <<\h1a, "bytes", "Op">>, <<\h10, "varint", "Minor">>,
      <<\h08, "varint", "Major">>>>
SizeBlkioStatsEntry ==
    {<<"varint", "Major">>, <<"varint", "Minor">>, <<"bytes", "Op">>, <<"varint", "Value">>}

UnmarshalBlkioStats ==
    {<<1, "msgs", "IoServiceBytesRecursive", "BlkioStatsEntry">>,
     <<2, "msgs", "IoServicedRecursive", "BlkioStatsEntry">>,
     <<3, "msgs", "IoQueuedRecursive", "BlkioStatsEntry">>,
     <<4, "msgs", "IoServiceTimeRecursive", "BlkioStatsEntry">>,
     <<5, "msgs", "IoWaitTimeRecursive", "BlkioStatsEntry">>,
     <<6, "msgs", "IoMergedRecursive", "BlkioStatsEntry">>,
     <<7, "msgs", "IoTimeRecursive", "BlkioStatsEntry">>,
     <<8, "msgs", "SectorsRecursive", "BlkioStatsEntry">>}
MarshalBlkioStats ==
    <<<<\h42, "msgs", "SectorsRecursive", "BlkioStatsEntry">>,
      <<\h3a, "msgs", "IoTimeRecursive", "BlkioStatsEntry">>,
      <<\h32, "msgs", "IoMergedRecursive", "BlkioStatsEntry">>,
      <<\h2a, "msgs", "IoWaitTimeRecursive", "BlkioStatsEntry">>,
      <<\h22, "msgs", "IoServiceTimeRecursive", "BlkioStatsEntry">>,
      <<\h1a, "msgs", "IoQueuedRecursive", "BlkioStatsEntry">>,
      <<\h12, "msgs", "IoServicedRecursive", "BlkioStatsEntry">>,
      <<\h0a, "msgs", "IoServiceBytesRecursive", "BlkioStatsEntry">>>>
SizeBlkioStats ==
    {<<"msgs", "IoServiceBytesRecursive", "BlkioStatsEntry">>,
     <<"msgs", "IoServicedRecursive", "BlkioStatsEntry">>,
     <<"msgs", "IoQueuedRecursive", "BlkioStatsEntry">>,
     <<"msgs", "IoServiceTimeRecursive", "BlkioStatsEntry">>,
     <<"msgs", "IoWaitTimeRecursive", "BlkioStatsEntry">>,
     <<"msgs", "IoMergedRecursive", "BlkioStatsEntry">>,
     <<"msgs", "IoTimeRecursive", "BlkioStatsEntry">>,
     <<"msgs", "SectorsRecursive", "BlkioStatsEntry">>}

UnmarshalHugetlbStats ==
    {<<1, "uint64", "Usage">>, <<2, "uint64", "MaxUsage">>, <<3, "uint64", "Failcnt">>}
MarshalHugetlbStats ==
    <<<<\h18, "varint", "Failcnt">>, <<\h10, "varint", "MaxUsage">>,
      <<\h08, "varint", "Usage">>>>
SizeHugetlbStats == {<<"varint", "Usage">>, <<"varint", "MaxUsage">>, <<"varint", "Failcnt">>}

UnmarshalCgroupStats ==
    {<<1, "msg", "CpuStats", "CpuStats">>, <<2, "msg", "MemoryStats", "MemoryStats">>,
     <<3, "msg", "PidsStats", "PidsStats">>, <<4, "msg", "BlkioStats", "BlkioStats">>,
     <<5, "map_msg", "HugetlbStats", "HugetlbStats">>}
MarshalCgroupStats ==
    <<<<\h2a, "map_msg", "HugetlbStats", "HugetlbStats">>,
      <<\h22, "msg", "BlkioStats", "BlkioStats">>, <<\h1a, "msg", "PidsStats", "PidsStats">>,
      <<\h12, "msg", "MemoryStats", "MemoryStats">>, <<\h0a, "msg", "CpuStats", "CpuStats">>>>
SizeCgroupStats ==
    {<<"msg", "CpuStats", "CpuStats">>, <<"msg", "MemoryStats", "MemoryStats">>,
     <<"msg", "PidsStats", "PidsStats">>, <<"msg", "BlkioStats", "BlkioStats">>,
     <<"map_msg", "HugetlbStats", "HugetlbStats">>}

UnmarshalNetworkStats ==
    {<<1, "bytes", "Name">>, <<2, "uint64", "RxBytes">>, <<3, "uint64", "RxPackets">>,
     <<4, "uint64", "RxErrors">>, <<5, "uint64", "RxDropped">>, <<6, "uint64", "TxBytes">>,
     <<7, "uint64", "TxPackets">>, <<8, "uint64", "TxErrors">>, <<9, "uint64", "TxDropped">>}
MarshalNetworkStats ==
    <<<<\h48, "varint", "TxDropped">>, <<\h40, "varint", "TxErrors">>,
      <<\h38, "varint", "TxPackets">>, <<\h30, "varint", "TxBytes">>,
      <<\h28, "varint", "RxDropped">>, <<\h20, "varint", "RxErrors">>,
      <<\h18, "varint", "RxPackets">>, <<\h10, "varint", "RxBytes">>,
      <<\h0a, "bytes", "Name">>>>
SizeNetworkStats ==
    {<<"bytes", "Name">>, <<"varint", "RxBytes">>, <<"varint", "RxPackets">>,
     <<"varint", "RxErrors">>, <<"varint", "RxDropped">>, <<"varint", "TxBytes">>,
     <<"varint", "TxPackets">>, <<"varint", "TxErrors">>, <<"varint", "TxDropped">>}

UnmarshalStatsContainerResponse ==
    {<<1, "msg", "CgroupStats", "CgroupStats">>, <<2, "msgs", "NetworkStats", "NetworkStats">>}
MarshalStatsContainerResponse ==
    <<<<\h12, "msgs", "NetworkStats", "NetworkStats">>,
      <<\h0a, "msg", "CgroupStats", "CgroupStats">>>>
SizeStatsContainerResponse ==
    {<<"msg", "CgroupStats", "CgroupStats">>, <<"msgs", "NetworkStats", "NetworkStats">>}

UnmarshalWriteStreamRequest ==
    {<<1, "bytes", "ContainerId">>, <<2, "bytes", "ExecId">>, <<3, "bytes", "Data">>}
MarshalWriteStreamRequest ==
    <<<<\h1a, "bytes", "Data">>, <<\h12, "bytes", "ExecId">>, <<\h0a, "bytes", "ContainerId">>>>
SizeWriteStreamRequest ==
    {<<"bytes", "ContainerId">>, <<"bytes", "ExecId">>, <<"bytes", "Data">>}

UnmarshalWriteStreamResponse == {<<1, "uint32", "Len">>}
MarshalWriteStreamResponse == <<<<\h08, "varint", "Len">>>>
SizeWriteStreamResponse == {<<"varint", "Len">>}

UnmarshalReadStreamRequest ==
    {<<1, "bytes", "ContainerId">>, <<2, "bytes", "ExecId">>, <<3, "uint32", "Len">>}
MarshalReadStreamRequest ==
    <<<<\h18, "varint", "Len">>, <<\h12, "bytes", "ExecId">>, <<\h0a, "bytes", "ContainerId">>>>
SizeReadStreamRequest ==
    {<<"bytes", "ContainerId">>, <<"bytes", "ExecId">>, <<"varint", "Len">>}

UnmarshalReadStreamResponse == {<<1, "bytes", "Data">>}
MarshalReadStreamResponse == <<<<\h0a, "bytes", "Data">>>>
SizeReadStreamResponse == {<<"bytes", "Data">>}

UnmarshalCloseStdinRequest == {<<1, "bytes", "ContainerId">>, <<2, "bytes", "ExecId">>}
MarshalCloseStdinRequest == <<<<\h12, "bytes", "ExecId">>, <<\h0a, "bytes", "ContainerId">>>>
SizeCloseStdinRequest == {<<"bytes", "ContainerId">>, <<"bytes", "ExecId">>}

UnmarshalTtyWinResizeRequest ==
    {<<1, "bytes", "ContainerId">>, <<2, "bytes", "ExecId">>, <<3, "uint32", "Row">>,
     <<4, "uint32", "Column">>}
MarshalTtyWinResizeRequest ==
    <<<<\h20, "varint", "Column">>, <<\h18, "varint", "Row">>, <<\h12, "bytes", "ExecId">>,
      <<\h0a, "bytes", "ContainerId">>>>
SizeTtyWinResizeRequest ==
    {<<"bytes", "ContainerId">>, <<"bytes", "ExecId">>, <<"varint", "Row">>,
     <<"varint", "Column">>}

UnmarshalKernelModule == {<<1, "bytes", "Name">>, <<2, "strings", "Parameters">>}
MarshalKernelModule == <<<<\h12, "strings", "Parameters">>, <<\h0a, "bytes", "Name">>>>
SizeKernelModule == {<<"bytes", "Name">>, <<"strings", "Parameters">>}

UnmarshalCreateSandboxRequest ==
    {<<1, "bytes", "Hostname">>, <<2, "strings", "Dns">>, <<3, "msgs", "Storages", "Storage">>,
     <<4, "bool", "SandboxPidns">>, <<5, "bytes", "SandboxId">>,
     <<6, "bytes", "GuestHookPath">>, <<7, "msgs", "KernelModules", "KernelModule">>}
MarshalCreateSandboxRequest ==
    <<<<\h3a, "msgs", "KernelModules", "KernelModule">>, <<\h32, "bytes", "GuestHookPath">>,
      <<\h2a, "bytes", "SandboxId">>, <<\h20, "bool", "SandboxPidns">>,
      <<\h1a, "msgs", "Storages", "Storage">>, <<\h12, "strings", "Dns">>,
      <<\h0a, "bytes", "Hostname">>>>
SizeCreateSandboxRequest ==
    {<<"bytes", "Hostname">>, <<"strings", "Dns">>, <<"msgs", "Storages", "Storage">>,
     <<"bool", "SandboxPidns">>, <<"bytes", "SandboxId">>, <<"bytes", "GuestHookPath">>,
     <<"msgs", "KernelModules", "KernelModule">>}

UnmarshalDestroySandboxRequest == {}
MarshalDestroySandboxRequest == <<>>
SizeDestroySandboxRequest == {}

UnmarshalInterfaces == {<<1, "msgs", "Interfaces", "Interface">>}
MarshalInterfaces == <<<<\h0a, "msgs", "Interfaces", "Interface">>>>
SizeInterfaces == {<<"msgs", "Interfaces", "Interface">>}

UnmarshalRoutes == {<<1, "msgs", "Routes", "Route">>}
MarshalRoutes == <<<<\h0a, "msgs", "Routes", "Route">>>>
SizeRoutes == {<<"msgs", "Routes", "Route">>}

UnmarshalUpdateInterfaceRequest == {<<1, "msg", "Interface", "Interface">>}
MarshalUpdateInterfaceRequest == <<<<\h0a, "msg", "Interface", "Interface">>>>
SizeUpdateInterfaceRequest == {<<"msg", "Interface", "Interface">>}

UnmarshalUpdateRoutesRequest == {<<1, "msg", "Routes", "Routes">>}
MarshalUpdateRoutesRequest == <<<<\h0a, "msg", "Routes", "Routes">>>>
SizeUpdateRoutesRequest == {<<"msg", "Routes", "Routes">>}

UnmarshalListInterfacesRequest == {}
MarshalListInterfacesRequest == <<>>
SizeListInterfacesRequest == {}

UnmarshalListRoutesRequest == {}
MarshalListRoutesRequest == <<>>
SizeListRoutesRequest == {}

UnmarshalARPNeighbors == {<<1, "msgs", "ARPNeighbors", "ARPNeighbor">>}
MarshalARPNeighbors == <<<<\h0a, "msgs", "ARPNeighbors", "ARPNeighbor">>>>
SizeARPNeighbors == {<<"msgs", "ARPNeighbors", "ARPNeighbor">>}

UnmarshalAddARPNeighborsRequest == {<<1, "msg", "Neighbors", "ARPNeighbors">>}
MarshalAddARPNeighborsRequest == <<<<\h0a, "msg", "Neighbors", "ARPNeighbors">>>>
SizeAddARPNeighborsRequest == {<<"msg", "Neighbors", "ARPNeighbors">>}

UnmarshalOnlineCPUMemRequest ==
    {<<1, "bool", "Wait">>, <<2, "uint32", "NbCpus">>, <<3, "bool", "CpuOnly">>}
MarshalOnlineCPUMemRequest ==
    <<<<\h18, "bool", "CpuOnly">>, <<\h10, "varint", "NbCpus">>, <<\h08, "bool", "Wait">>>>
SizeOnlineCPUMemRequest == {<<"bool", "Wait">>, <<"varint", "NbCpus">>, <<"bool", "CpuOnly">>}

UnmarshalReseedRandomDevRequest == {<<2, "bytes", "Data">>}
MarshalReseedRandomDevRequest == <<<<\h12, "bytes", "Data">>>>
SizeReseedRandomDevRequest == {<<"bytes", "Data">>}

UnmarshalAgentDetails ==
    {<<1, "bytes", "Version">>, <<2, "bool", "InitDaemon">>,
     <<3, "strings", "DeviceHandlers">>, <<4, "strings", "StorageHandlers">>,
     <<5, "bool", "SupportsSeccomp">>}
MarshalAgentDetails ==
    <<<<\h28, "bool", "SupportsSeccomp">>, <<\h22, "strings", "StorageHandlers">>,
      <<\h1a, "strings", "DeviceHandlers">>, <<\h10, "bool", "InitDaemon">>,
      <<\h0a, "bytes", "Version">>>>
SizeAgentDetails ==
    {<<"bytes", "Version">>, <<"bool", "InitDaemon">>, <<"strings", "DeviceHandlers">>,
     <<"strings", "StorageHandlers">>, <<"bool", "SupportsSeccomp">>}

UnmarshalGuestDetailsRequest ==
    {<<1, "bool", "MemBlockSize">>, <<2, "bool", "MemHotplugProbe">>}
MarshalGuestDetailsRequest ==
    <<<<\h10, "bool", "MemHotplugProbe">>, <<\h08, "bool", "MemBlockSize">>>>
SizeGuestDetailsRequest == {<<"bool", "MemBlockSize">>, <<"bool", "MemHotplugProbe">>}

UnmarshalGuestDetailsResponse ==
    {<<1, "uint64", "MemBlockSizeBytes">>, <<2, "msg", "AgentDetails", "AgentDetails">>,
     <<3, "bool", "SupportMemHotplugProbe">>}
MarshalGuestDetailsResponse ==
    <<<<\h18, "bool", "SupportMemHotplugProbe">>,
      <<\h12, "msg", "AgentDetails", "AgentDetails">>, <<\h08, "varint", "MemBlockSizeBytes">>>>
SizeGuestDetailsResponse ==
    {<<"varint", "MemBlockSizeBytes">>, <<"msg", "AgentDetails", "AgentDetails">>,
     <<"bool", "SupportMemHotplugProbe">>}

UnmarshalMemHotplugByProbeRequest == {<<1, "packed_uint64", "MemHotplugProbeAddr">>}
MarshalMemHotplugByProbeRequest == <<<<\h0a, "packed", "MemHotplugProbeAddr">>>>
SizeMemHotplugByProbeRequest == {<<"packed", "MemHotplugProbeAddr">>}

UnmarshalSetGuestDateTimeRequest == {<<1, "int64", "Sec">>, <<2, "int64", "Usec">>}
MarshalSetGuestDateTimeRequest == <<<<\h10, "varint", "Usec">>, <<\h08, "varint", "Sec">>>>
SizeSetGuestDateTimeRequest == {<<"varint", "Sec">>, <<"varint", "Usec">>}

UnmarshalStorage ==
    {<<1, "bytes", "Driver">>, <<2, "strings", "DriverOptions">>, <<3, "bytes", "Source">>,
     <<4, "bytes", "Fstype">>, <<5, "strings", "Options">>, <<6, "bytes", "MountPoint">>}
MarshalStorage ==
    <<<<\h32, "bytes", "MountPoint">>, <<\h2a, "strings", "Options">>,
      <<\h22, "bytes", "Fstype">>, <<\h1a, "bytes", "Source">>,
      <<\h12, "strings", "DriverOptions">>, <<\h0a, "bytes", "Driver">>>>
SizeStorage ==
    {<<"bytes", "Driver">>, <<"strings", "DriverOptions">>, <<"bytes", "Source">>,
     <<"bytes", "Fstype">>, <<"strings", "Options">>, <<"bytes", "MountPoint">>}

UnmarshalDevice ==
    {<<1, "bytes", "Id">>, <<2, "bytes", "Type">>, <<3, "bytes", "VmPath">>,
     <<4, "bytes", "ContainerPath">>, <<5, "strings", "Options">>}
MarshalDevice ==
    <<<<\h2a, "strings", "Options">>, <<\h22, "bytes", "ContainerPath">>,
      <<\h1a, "bytes", "VmPath">>, <<\h12, "bytes", "Type">>, <<\h0a, "bytes", "Id">>>>
SizeDevice ==
    {<<"bytes", "Id">>, <<"bytes", "Type">>, <<"bytes", "VmPath">>,
     <<"bytes", "ContainerPath">>, <<"strings", "Options">>}

UnmarshalStringUser ==
    {<<1, "bytes", "Uid">>, <<2, "bytes", "Gid">>, <<3, "strings", "AdditionalGids">>}
MarshalStringUser ==
    <<<<\h1a, "strings", "AdditionalGids">>, <<\h12, "bytes", "Gid">>,
      <<\h0a, "bytes", "Uid">>>>
SizeStringUser == {<<"bytes", "Uid">>, <<"bytes", "Gid">>, <<"strings", "AdditionalGids">>}

UnmarshalCopyFileRequest ==
    {<<1, "bytes", "Path">>, <<2, "int64", "FileSize">>, <<3, "uint32", "FileMode">>,
     <<4, "uint32", "DirMode">>, <<5, "int32", "Uid">>, <<6, "int32", "Gid">>,
     <<7, "int64", "Offset">>, <<8, "bytes", "Data">>}
MarshalCopyFileRequest ==
    <<<<\h42, "bytes", "Data">>, <<\h38, "varint", "Offset">>, <<\h30, "varint", "Gid">>,
      <<\h28, "varint", "Uid">>, <<\h20, "varint", "DirMode">>, <<\h18, "varint", "FileMode">>,
      <<\h10, "varint", "FileSize">>, <<\h0a, "bytes", "Path">>>>
SizeCopyFileRequest ==
    {<<"bytes", "Path">>, <<"varint", "FileSize">>, <<"varint", "FileMode">>,
     <<"varint", "DirMode">>, <<"varint", "Uid">>, <<"varint", "Gid">>, <<"varint", "Offset">>,
     <<"bytes", "Data">>}

UnmarshalGetOOMEventRequest == {}
MarshalGetOOMEventRequest == <<>>
SizeGetOOMEventRequest == {}

UnmarshalOOMEvent == {<<1, "bytes", "ContainerId">>}
MarshalOOMEvent == <<<<\h0a, "bytes", "ContainerId">>>>
SizeOOMEvent == {<<"bytes", "ContainerId">>}

UnmarshalAddSwapRequest == {<<1, "packed_uint32", "PCIPath">>}
MarshalAddSwapRequest == <<<<\h0a, "packed", "PCIPath">>>>
SizeAddSwapRequest == {<<"packed", "PCIPath">>}

UnmarshalGetMetricsRequest == {}
MarshalGetMetricsRequest == <<>>
SizeGetMetricsRequest == {}

UnmarshalMetrics == {<<1, "bytes", "Metrics">>}
MarshalMetrics == <<<<\h0a, "bytes", "Metrics">>>>
SizeMetrics == {<<"bytes", "Metrics">>}

UnmarshalVolumeStatsRequest == {<<1, "bytes", "VolumeGuestPath">>}
MarshalVolumeStatsRequest == <<<<\h0a, "bytes", "VolumeGuestPath">>>>
SizeVolumeStatsRequest == {<<"bytes", "VolumeGuestPath">>}

UnmarshalResizeVolumeRequest == {<<1, "bytes", "VolumeGuestPath">>, <<2, "uint64", "Size_">>}
MarshalResizeVolumeRequest ==
    <<<<\h10, "varint", "Size_">>, <<\h0a, "bytes", "VolumeGuestPath">>>>
SizeResizeVolumeRequest == {<<"bytes", "VolumeGuestPath">>, <<"varint", "Size_">>}

AgentUnmarshalTables ==
    [CreateContainerRequest |-> UnmarshalCreateContainerRequest,
     StartContainerRequest |-> UnmarshalStartContainerRequest,
     RemoveContainerRequest |-> UnmarshalRemoveContainerRequest,
     ExecProcessRequest |-> UnmarshalExecProcessRequest,
     SignalProcessRequest |-> UnmarshalSignalProcessRequest,
     WaitProcessRequest |-> UnmarshalWaitProcessRequest,
     WaitProcessResponse |-> UnmarshalWaitProcessResponse,
     UpdateContainerRequest |-> UnmarshalUpdateContainerRequest,
     StatsContainerRequest |-> UnmarshalStatsContainerRequest,
     PauseContainerRequest |-> UnmarshalPauseContainerRequest,
     ResumeContainerRequest |-> UnmarshalResumeContainerRequest,
     CpuUsage |-> UnmarshalCpuUsage, ThrottlingData |-> UnmarshalThrottlingData,
     CpuStats |-> UnmarshalCpuStats, PidsStats |-> UnmarshalPidsStats,
     MemoryData |-> UnmarshalMemoryData, MemoryStats |-> UnmarshalMemoryStats,
     BlkioStatsEntry |-> UnmarshalBlkioStatsEntry, BlkioStats |-> UnmarshalBlkioStats,
     HugetlbStats |-> UnmarshalHugetlbStats, CgroupStats |-> UnmarshalCgroupStats,
     NetworkStats |-> UnmarshalNetworkStats,
     StatsContainerResponse |-> UnmarshalStatsContainerResponse,
     WriteStreamRequest |-> UnmarshalWriteStreamRequest,
     WriteStreamResponse |-> UnmarshalWriteStreamResponse,
     ReadStreamRequest |-> UnmarshalReadStreamRequest,
     ReadStreamResponse |-> UnmarshalReadStreamResponse,
     CloseStdinRequest |-> UnmarshalCloseStdinRequest,
     TtyWinResizeRequest |-> UnmarshalTtyWinResizeRequest,
     KernelModule |-> UnmarshalKernelModule,
     CreateSandboxRequest |-> UnmarshalCreateSandboxRequest,
     DestroySandboxRequest |-> UnmarshalDestroySandboxRequest,
     Interfaces |-> UnmarshalInterfaces, Routes |-> UnmarshalRoutes,
     UpdateInterfaceRequest |-> UnmarshalUpdateInterfaceRequest,
     UpdateRoutesRequest |-> UnmarshalUpdateRoutesRequest,
     ListInterfacesRequest |-> UnmarshalListInterfacesRequest,
     ListRoutesRequest |-> UnmarshalListRoutesRequest, ARPNeighbors |-> UnmarshalARPNeighbors,
     AddARPNeighborsRequest |-> UnmarshalAddARPNeighborsRequest,
     OnlineCPUMemRequest |-> UnmarshalOnlineCPUMemRequest,
     ReseedRandomDevRequest |-> UnmarshalReseedRandomDevRequest,
     AgentDetails |-> UnmarshalAgentDetails,
     GuestDetailsRequest |-> UnmarshalGuestDetailsRequest,
     GuestDetailsResponse |-> UnmarshalGuestDetailsResponse,
     MemHotplugByProbeRequest |-> UnmarshalMemHotplugByProbeRequest,
     SetGuestDateTimeRequest |-> UnmarshalSetGuestDateTimeRequest,
     Storage |-> UnmarshalStorage, Device |-> UnmarshalDevice,
     StringUser |-> UnmarshalStringUser, CopyFileRequest |-> UnmarshalCopyFileRequest,
     GetOOMEventRequest |-> UnmarshalGetOOMEventRequest, OOMEvent |-> UnmarshalOOMEvent,
     AddSwapRequest |-> UnmarshalAddSwapRequest,
     GetMetricsRequest |-> UnmarshalGetMetricsRequest, Metrics |-> UnmarshalMetrics,
     VolumeStatsRequest |-> UnmarshalVolumeStatsRequest,
     ResizeVolumeRequest |-> UnmarshalResizeVolumeRequest]

AgentMarshalTables ==
    [CreateContainerRequest |-> MarshalCreateContainerRequest,
     StartContainerRequest |-> MarshalStartContainerRequest,
     RemoveContainerRequest |-> MarshalRemoveContainerRequest,
     ExecProcessRequest |-> MarshalExecProcessRequest,
     SignalProcessRequest |-> MarshalSignalProcessRequest,
     WaitProcessRequest |-> MarshalWaitProcessRequest,
     WaitProcessResponse |-> MarshalWaitProcessResponse,
     UpdateContainerRequest |-> MarshalUpdateContainerRequest,
     StatsContainerRequest |-> MarshalStatsContainerRequest,
     PauseContainerRequest |-> MarshalPauseContainerRequest,
     ResumeContainerRequest |-> MarshalResumeContainerRequest, CpuUsage |-> MarshalCpuUsage,
     ThrottlingData |-> MarshalThrottlingData, CpuStats |-> MarshalCpuStats,
     PidsStats |-> MarshalPidsStats, MemoryData |-> MarshalMemoryData,
     MemoryStats |-> MarshalMemoryStats, BlkioStatsEntry |-> MarshalBlkioStatsEntry,
     BlkioStats |-> MarshalBlkioStats, HugetlbStats |-> MarshalHugetlbStats,
     CgroupStats |-> MarshalCgroupStats, NetworkStats |-> MarshalNetworkStats,
     StatsContainerResponse |-> MarshalStatsContainerResponse,
     WriteStreamRequest |-> MarshalWriteStreamRequest,
     WriteStreamResponse |-> MarshalWriteStreamResponse,
     ReadStreamRequest |-> MarshalReadStreamRequest,
     ReadStreamResponse |-> MarshalReadStreamResponse,
     CloseStdinRequest |-> MarshalCloseStdinRequest,
     TtyWinResizeRequest |-> MarshalTtyWinResizeRequest, KernelModule |-> MarshalKernelModule,
     CreateSandboxRequest |-> MarshalCreateSandboxRequest,
     DestroySandboxRequest |-> MarshalDestroySandboxRequest, Interfaces |-> MarshalInterfaces,
     Routes |-> MarshalRoutes, UpdateInterfaceRequest |-> MarshalUpdateInterfaceRequest,
     UpdateRoutesRequest |-> MarshalUpdateRoutesRequest,
     ListInterfacesRequest |-> MarshalListInterfacesRequest,
     ListRoutesRequest |-> MarshalListRoutesRequest, ARPNeighbors |-> MarshalARPNeighbors,
     AddARPNeighborsRequest |-> MarshalAddARPNeighborsRequest,
     OnlineCPUMemRequest |-> MarshalOnlineCPUMemRequest,
     ReseedRandomDevRequest |-> MarshalReseedRandomDevRequest,
     AgentDetails |-> MarshalAgentDetails, GuestDetailsRequest |-> MarshalGuestDetailsRequest,
     GuestDetailsResponse |-> MarshalGuestDetailsResponse,
     MemHotplugByProbeRequest |-> MarshalMemHotplugByProbeRequest,
     SetGuestDateTimeRequest |-> MarshalSetGuestDateTimeRequest, Storage |-> MarshalStorage,
     Device |-> MarshalDevice, StringUser |-> MarshalStringUser,
     CopyFileRequest |-> MarshalCopyFileRequest,
     GetOOMEventRequest |-> MarshalGetOOMEventRequest, OOMEvent |-> MarshalOOMEvent,
     AddSwapRequest |-> MarshalAddSwapRequest, GetMetricsRequest |-> MarshalGetMetricsRequest,
     Metrics |-> MarshalMetrics, VolumeStatsRequest |-> MarshalVolumeStatsRequest,
     ResizeVolumeRequest |-> MarshalResizeVolumeRequest]

AgentSizeTables ==
    [CreateContainerRequest |-> SizeCreateContainerRequest,
     StartContainerRequest |-> SizeStartContainerRequest,
     RemoveContainerRequest |-> SizeRemoveContainerRequest,
     ExecProcessRequest |-> SizeExecProcessRequest,
     SignalProcessRequest |-> SizeSignalProcessRequest,
     WaitProcessRequest |-> SizeWaitProcessRequest,
     WaitProcessResponse |-> SizeWaitProcessResponse,
     UpdateContainerRequest |-> SizeUpdateContainerRequest,
     StatsContainerRequest |-> SizeStatsContainerRequest,
     PauseContainerRequest |-> SizePauseContainerRequest,
     ResumeContainerRequest |-> SizeResumeContainerRequest, CpuUsage |-> SizeCpuUsage,
     ThrottlingData |-> SizeThrottlingData, CpuStats |-> SizeCpuStats,
     PidsStats |-> SizePidsStats, MemoryData |-> SizeMemoryData,
     MemoryStats |-> SizeMemoryStats, BlkioStatsEntry |-> SizeBlkioStatsEntry,
     BlkioStats |-> SizeBlkioStats, HugetlbStats |-> SizeHugetlbStats,
     CgroupStats |-> SizeCgroupStats, NetworkStats |-> SizeNetworkStats,
     StatsContainerResponse |-> SizeStatsContainerResponse,
     WriteStreamRequest |-> SizeWriteStreamRequest,
     WriteStreamResponse |-> SizeWriteStreamResponse,
     ReadStreamRequest |-> SizeReadStreamRequest,
     ReadStreamResponse |-> SizeReadStreamResponse,
     CloseStdinRequest |-> SizeCloseStdinRequest,
     TtyWinResizeRequest |-> SizeTtyWinResizeRequest, KernelModule |-> SizeKernelModule,
     CreateSandboxRequest |-> SizeCreateSandboxRequest,
     DestroySandboxRequest |-> SizeDestroySandboxRequest, Interfaces |-> SizeInterfaces,
     Routes |-> SizeRoutes, UpdateInterfaceRequest |-> SizeUpdateInterfaceRequest,
     UpdateRoutesRequest |-> SizeUpdateRoutesRequest,
     ListInterfacesRequest |-> SizeListInterfacesRequest,
     ListRoutesRequest |-> SizeListRoutesRequest, ARPNeighbors |-> SizeARPNeighbors,
     AddARPNeighborsRequest |-> SizeAddARPNeighborsRequest,
     OnlineCPUMemRequest |-> SizeOnlineCPUMemRequest,
     ReseedRandomDevRequest |-> SizeReseedRandomDevRequest, AgentDetails |-> SizeAgentDetails,
     GuestDetailsRequest |-> SizeGuestDetailsRequest,
     GuestDetailsResponse |-> SizeGuestDetailsResponse,
     MemHotplugByProbeRequest |-> SizeMemHotplugByProbeRequest,
     SetGuestDateTimeRequest |-> SizeSetGuestDateTimeRequest, Storage |-> SizeStorage,
     Device |-> SizeDevice, StringUser |-> SizeStringUser,
     CopyFileRequest |-> SizeCopyFileRequest, GetOOMEventRequest |-> SizeGetOOMEventRequest,
     OOMEvent |-> SizeOOMEvent, AddSwapRequest |-> SizeAddSwapRequest,
     GetMetricsRequest |-> SizeGetMetricsRequest, Metrics |-> SizeMetrics,
     VolumeStatsRequest |-> SizeVolumeStatsRequest,
     ResizeVolumeRequest |-> SizeResizeVolumeRequest]
================================================================================
