---------------------------- MODULE ProtoOci ----------------------------
(*******************************************************************************************)
(* The field tables of the OCI messages (oci.pb.go); see ProtoAgent for how they are read. *)
(*******************************************************************************************)

UnmarshalSpec ==
    {<<1, "bytes", "Version">>, <<2, "msg", "Process", "Process">>,
     <<3, "msg", "Root", "Root">>, <<4, "bytes", "Hostname">>,
     <<5, "msgs", "Mounts", "Mount">>, <<6, "msg", "Hooks", "Hooks">>,
     <<7, "map_bytes", "Annotations">>, <<8, "msg", "Linux", "Linux">>,
     <<9, "msg", "Solaris", "Solaris">>, <<10, "msg", "Windows", "Windows">>}
MarshalSpec ==
    <<<<\h52, "msg", "Windows", "Windows">>, <<\h4a, "msg", "Solaris", "Solaris">>,
      <<\h42, "msg", "Linux", "Linux">>, <<\h3a, "map_bytes", "Annotations">>,
      <<\h32, "msg", "Hooks", "Hooks">>, <<\h2a, "msgs", "Mounts", "Mount">>,
      <<\h22, "bytes", "Hostname">>, <<\h1a, "msg", "Root", "Root">>,
      <<\h12, "msg", "Process", "Process">>, <<\h0a, "bytes", "Version">>>>
SizeSpec ==
    {<<"bytes", "Version">>, <<"msg", "Process", "Process">>, <<"msg", "Root", "Root">>,
     <<"bytes", "Hostname">>, <<"msgs", "Mounts", "Mount">>, <<"msg", "Hooks", "Hooks">>,
     <<"map_bytes", "Annotations">>, <<"msg", "Linux", "Linux">>,
     <<"msg", "Solaris", "Solaris">>, <<"msg", "Windows", "Windows">>}

UnmarshalProcess ==
    {<<1, "bool", "Terminal">>, <<2, "msg", "ConsoleSize", "Box">>,
     <<3, "embed", "User", "User">>, <<4, "strings", "Args">>, <<5, "strings", "Env">>,
     <<6, "bytes", "Cwd">>, <<7, "msg", "Capabilities", "LinuxCapabilities">>,
     <<8, "msgs", "Rlimits", "POSIXRlimit">>, <<9, "bool", "NoNewPrivileges">>,
     <<10, "bytes", "ApparmorProfile">>, <<11, "int64", "OOMScoreAdj">>,
     <<12, "bytes", "SelinuxLabel">>}
MarshalProcess ==
    <<<<\h62, "bytes", "SelinuxLabel">>, <<\h58, "varint", "OOMScoreAdj">>,
      <<\h52, "bytes", "ApparmorProfile">>, <<\h48, "bool", "NoNewPrivileges">>,
      <<\h42, "msgs", "Rlimits", "POSIXRlimit">>,
      <<\h3a, "msg", "Capabilities", "LinuxCapabilities">>, <<\h32, "bytes", "Cwd">>,
      <<\h2a, "strings", "Env">>, <<\h22, "strings", "Args">>,
      <<\h1a, "embed", "User", "User">>, <<\h12, "msg", "ConsoleSize", "Box">>,
      <<\h08, "bool", "Terminal">>>>
SizeProcess ==
    {<<"bool", "Terminal">>, <<"msg", "ConsoleSize", "Box">>, <<"embed", "User", "User">>,
     <<"strings", "Args">>, <<"strings", "Env">>, <<"bytes", "Cwd">>,
     <<"msg", "Capabilities", "LinuxCapabilities">>, <<"msgs", "Rlimits", "POSIXRlimit">>,
     <<"bool", "NoNewPrivileges">>, <<"bytes", "ApparmorProfile">>,
     <<"varint", "OOMScoreAdj">>, <<"bytes", "SelinuxLabel">>}

UnmarshalBox == {<<1, "uint32", "Height">>, <<2, "uint32", "Width">>}
MarshalBox == <<<<\h10, "varint", "Width">>, <<\h08, "varint", "Height">>>>
SizeBox == {<<"varint", "Height">>, <<"varint", "Width">>}

UnmarshalUser ==
    {<<1, "uint32", "UID">>, <<2, "uint32", "GID">>, <<3, "packed_uint32", "AdditionalGids">>,
     <<4, "bytes", "Username">>}
MarshalUser ==
    <<<<\h22, "bytes", "Username">>, <<\h1a, "packed", "AdditionalGids">>,
      <<\h10, "varint", "GID">>, <<\h08, "varint", "UID">>>>
SizeUser ==
    {<<"varint", "UID">>, <<"varint", "GID">>, <<"packed", "AdditionalGids">>,
     <<"bytes", "Username">>}

UnmarshalLinuxCapabilities ==
    {<<1, "strings", "Bounding">>, <<2, "strings", "Effective">>,
     <<3, "strings", "Inheritable">>, <<4, "strings", "Permitted">>,
     <<5, "strings", "Ambient">>}
MarshalLinuxCapabilities ==
    <<<<\h2a, "strings", "Ambient">>, <<\h22, "strings", "Permitted">>,
      <<\h1a, "strings", "Inheritable">>, <<\h12, "strings", "Effective">>,
      <<\h0a, "strings", "Bounding">>>>
SizeLinuxCapabilities ==
    {<<"strings", "Bounding">>, <<"strings", "Effective">>, <<"strings", "Inheritable">>,
     <<"strings", "Permitted">>, <<"strings", "Ambient">>}

UnmarshalPOSIXRlimit ==
    {<<1, "bytes", "Type">>, <<2, "uint64", "Hard">>, <<3, "uint64", "Soft">>}
MarshalPOSIXRlimit ==
    <<<<\h18, "varint", "Soft">>, <<\h10, "varint", "Hard">>, <<\h0a, "bytes", "Type">>>>
SizePOSIXRlimit == {<<"bytes", "Type">>, <<"varint", "Hard">>, <<"varint", "Soft">>}

UnmarshalMount ==
    {<<1, "bytes", "Destination">>, <<2, "bytes", "Source">>, <<3, "bytes", "Type">>,
     <<4, "strings", "Options">>}
MarshalMount ==
    <<<<\h22, "strings", "Options">>, <<\h1a, "bytes", "Type">>, <<\h12, "bytes", "Source">>,
      <<\h0a, "bytes", "Destination">>>>
SizeMount ==
    {<<"bytes", "Destination">>, <<"bytes", "Source">>, <<"bytes", "Type">>,
     <<"strings", "Options">>}

UnmarshalRoot == {<<1, "bytes", "Path">>, <<2, "bool", "Readonly">>}
MarshalRoot == <<<<\h10, "bool", "Readonly">>, <<\h0a, "bytes", "Path">>>>
SizeRoot == {<<"bytes", "Path">>, <<"bool", "Readonly">>}

UnmarshalHooks ==
    {<<1, "msgs", "Prestart", "Hook">>, <<2, "msgs", "Poststart", "Hook">>,
     <<3, "msgs", "Poststop", "Hook">>}
MarshalHooks ==
    <<<<\h1a, "msgs", "Poststop", "Hook">>, <<\h12, "msgs", "Poststart", "Hook">>,
      <<\h0a, "msgs", "Prestart", "Hook">>>>
SizeHooks ==
    {<<"msgs", "Prestart", "Hook">>, <<"msgs", "Poststart", "Hook">>,
     <<"msgs", "Poststop", "Hook">>}

UnmarshalHook ==
    {<<1, "bytes", "Path">>, <<2, "strings", "Args">>, <<3, "strings", "Env">>,
     <<4, "int64", "Timeout">>}
MarshalHook ==
    <<<<\h20, "varint", "Timeout">>, <<\h1a, "strings", "Env">>, <<\h12, "strings", "Args">>,
      <<\h0a, "bytes", "Path">>>>
SizeHook ==
    {<<"bytes", "Path">>, <<"strings", "Args">>, <<"strings", "Env">>, <<"varint", "Timeout">>}

UnmarshalLinux ==
    {<<1, "msgs", "UIDMappings", "LinuxIDMapping">>,
     <<2, "msgs", "GIDMappings", "LinuxIDMapping">>, <<3, "map_bytes", "Sysctl">>,
     <<4, "msg", "Resources", "LinuxResources">>, <<5, "bytes", "CgroupsPath">>,
     <<6, "msgs", "Namespaces", "LinuxNamespace">>, <<7, "msgs", "Devices", "LinuxDevice">>,
     <<8, "msg", "Seccomp", "LinuxSeccomp">>, <<9, "bytes", "RootfsPropagation">>,
     <<10, "strings", "MaskedPaths">>, <<11, "strings", "ReadonlyPaths">>,
     <<12, "bytes", "MountLabel">>, <<13, "msg", "IntelRdt", "LinuxIntelRdt">>}
MarshalLinux ==
    <<<<\h6a, "msg", "IntelRdt", "LinuxIntelRdt">>, <<\h62, "bytes", "MountLabel">>,
      <<\h5a, "strings", "ReadonlyPaths">>, <<\h52, "strings", "MaskedPaths">>,
      <<\h4a, "bytes", "RootfsPropagation">>, <<\h42, "msg", "Seccomp", "LinuxSeccomp">>,
      <<\h3a, "msgs", "Devices", "LinuxDevice">>,
      <<\h32, "msgs", "Namespaces", "LinuxNamespace">>, <<\h2a, "bytes", "CgroupsPath">>,
      <<\h22, "msg", "Resources", "LinuxResources">>, <<\h1a, "map_bytes", "Sysctl">>,
      <<\h12, "msgs", "GIDMappings", "LinuxIDMapping">>,
      <<\h0a, "msgs", "UIDMappings", "LinuxIDMapping">>>>
SizeLinux ==
    {<<"msgs", "UIDMappings", "LinuxIDMapping">>, <<"msgs", "GIDMappings", "LinuxIDMapping">>,
     <<"map_bytes", "Sysctl">>, <<"msg", "Resources", "LinuxResources">>,
     <<"bytes", "CgroupsPath">>, <<"msgs", "Namespaces", "LinuxNamespace">>,
     <<"msgs", "Devices", "LinuxDevice">>, <<"msg", "Seccomp", "LinuxSeccomp">>,
     <<"bytes", "RootfsPropagation">>, <<"strings", "MaskedPaths">>,
     <<"strings", "ReadonlyPaths">>, <<"bytes", "MountLabel">>,
     <<"msg", "IntelRdt", "LinuxIntelRdt">>}

UnmarshalWindows == {<<1, "bytes", "Dummy">>}
MarshalWindows == <<<<\h0a, "bytes", "Dummy">>>>
SizeWindows == {<<"bytes", "Dummy">>}

UnmarshalSolaris == {<<1, "bytes", "Dummy">>}
MarshalSolaris == <<<<\h0a, "bytes", "Dummy">>>>
SizeSolaris == {<<"bytes", "Dummy">>}

UnmarshalLinuxIDMapping ==
    {<<1, "uint32", "HostID">>, <<2, "uint32", "ContainerID">>, <<3, "uint32", "Size_">>}
MarshalLinuxIDMapping ==
    <<<<\h18, "varint", "Size_">>, <<\h10, "varint", "ContainerID">>,
      <<\h08, "varint", "HostID">>>>
SizeLinuxIDMapping ==
    {<<"varint", "HostID">>, <<"varint", "ContainerID">>, <<"varint", "Size_">>}

UnmarshalLinuxNamespace == {<<1, "bytes", "Type">>, <<2, "bytes", "Path">>}
MarshalLinuxNamespace == <<<<\h12, "bytes", "Path">>, <<\h0a, "bytes", "Type">>>>
SizeLinuxNamespace == {<<"bytes", "Type">>, <<"bytes", "Path">>}

UnmarshalLinuxDevice ==
    {<<1, "bytes", "Path">>, <<2, "bytes", "Type">>, <<3, "int64", "Major">>,
     <<4, "int64", "Minor">>, <<5, "uint32", "FileMode">>, <<6, "uint32", "UID">>,
     <<7, "uint32", "GID">>}
MarshalLinuxDevice ==
    <<<<\h38, "varint", "GID">>, <<\h30, "varint", "UID">>, <<\h28, "varint", "FileMode">>,
      <<\h20, "varint", "Minor">>, <<\h18, "varint", "Major">>, <<\h12, "bytes", "Type">>,
      <<\h0a, "bytes", "Path">>>>
SizeLinuxDevice ==
    {<<"bytes", "Path">>, <<"bytes", "Type">>, <<"varint", "Major">>, <<"varint", "Minor">>,
     <<"varint", "FileMode">>, <<"varint", "UID">>, <<"varint", "GID">>}

UnmarshalLinuxResources ==
    {<<1, "msgs", "Devices", "LinuxDeviceCgroup">>, <<2, "msg", "Memory", "LinuxMemory">>,
     <<3, "msg", "CPU", "LinuxCPU">>, <<4, "msg", "Pids", "LinuxPids">>,
     <<5, "msg", "BlockIO", "LinuxBlockIO">>,
     <<6, "msgs", "HugepageLimits", "LinuxHugepageLimit">>,
     <<7, "msg", "Network", "LinuxNetwork">>}
MarshalLinuxResources ==
    <<<<\h3a, "msg", "Network", "LinuxNetwork">>,
      <<\h32, "msgs", "HugepageLimits", "LinuxHugepageLimit">>,
      <<\h2a, "msg", "BlockIO", "LinuxBlockIO">>, <<\h22, "msg", "Pids", "LinuxPids">>,
      <<\h1a, "msg", "CPU", "LinuxCPU">>, <<\h12, "msg", "Memory", "LinuxMemory">>,
      <<\h0a, "msgs", "Devices", "LinuxDeviceCgroup">>>>
SizeLinuxResources ==
    {<<"msgs", "Devices", "LinuxDeviceCgroup">>, <<"msg", "Memory", "LinuxMemory">>,
     <<"msg", "CPU", "LinuxCPU">>, <<"msg", "Pids", "LinuxPids">>,
     <<"msg", "BlockIO", "LinuxBlockIO">>, <<"msgs", "HugepageLimits", "LinuxHugepageLimit">>,
     <<"msg", "Network", "LinuxNetwork">>}

UnmarshalLinuxMemory ==
    {<<1, "int64", "Limit">>, <<2, "int64", "Reservation">>, <<3, "int64", "Swap">>,
     <<4, "int64", "Kernel">>, <<5, "int64", "KernelTCP">>, <<6, "uint64", "Swappiness">>,
     <<7, "bool", "DisableOOMKiller">>}
MarshalLinuxMemory ==
    <<<<\h38, "bool", "DisableOOMKiller">>, <<\h30, "varint", "Swappiness">>,
      <<\h28, "varint", "KernelTCP">>, <<\h20, "varint", "Kernel">>, <<\h18, "varint", "Swap">>,
      <<\h10, "varint", "Reservation">>, <<\h08, "varint", "Limit">>>>
SizeLinuxMemory ==
    {<<"varint", "Limit">>, <<"varint", "Reservation">>, <<"varint", "Swap">>,
     <<"varint", "Kernel">>, <<"varint", "KernelTCP">>, <<"varint", "Swappiness">>,
     <<"bool", "DisableOOMKiller">>}

UnmarshalLinuxCPU ==
    {<<1, "uint64", "Shares">>, <<2, "int64", "Quota">>, <<3, "uint64", "Period">>,
     <<4, "int64", "RealtimeRuntime">>, <<5, "uint64", "RealtimePeriod">>,
     <<6, "bytes", "Cpus">>, <<7, "bytes", "Mems">>}
MarshalLinuxCPU ==
    <<<<\h3a, "bytes", "Mems">>, <<\h32, "bytes", "Cpus">>,
      <<\h28, "varint", "RealtimePeriod">>, <<\h20, "varint", "RealtimeRuntime">>,
      <<\h18, "varint", "Period">>, <<\h10, "varint", "Quota">>, <<\h08, "varint", "Shares">>>>
SizeLinuxCPU ==
    {<<"varint", "Shares">>, <<"varint", "Quota">>, <<"varint", "Period">>,
     <<"varint", "RealtimeRuntime">>, <<"varint", "RealtimePeriod">>, <<"bytes", "Cpus">>,
     <<"bytes", "Mems">>}

UnmarshalLinuxWeightDevice ==
    {<<1, "int64", "Major">>, <<2, "int64", "Minor">>, <<3, "uint32", "Weight">>,
     <<4, "uint32", "LeafWeight">>}
MarshalLinuxWeightDevice ==
    <<<<\h20, "varint", "LeafWeight">>, <<\h18, "varint", "Weight">>,
      <<\h10, "varint", "Minor">>, <<\h08, "varint", "Major">>>>
SizeLinuxWeightDevice ==
    {<<"varint", "Major">>, <<"varint", "Minor">>, <<"varint", "Weight">>,
     <<"varint", "LeafWeight">>}

UnmarshalLinuxThrottleDevice ==
    {<<1, "int64", "Major">>, <<2, "int64", "Minor">>, <<3, "uint64", "Rate">>}
MarshalLinuxThrottleDevice ==
    <<<<\h18, "varint", "Rate">>, <<\h10, "varint", "Minor">>, <<\h08, "varint", "Major">>>>
SizeLinuxThrottleDevice == {<<"varint", "Major">>, <<"varint", "Minor">>, <<"varint", "Rate">>}

UnmarshalLinuxBlockIO ==
    {<<1, "uint32", "Weight">>, <<2, "uint32", "LeafWeight">>,
     <<3, "msgs", "WeightDevice", "LinuxWeightDevice">>,
     <<4, "msgs", "ThrottleReadBpsDevice", "LinuxThrottleDevice">>,
     <<5, "msgs", "ThrottleWriteBpsDevice", "LinuxThrottleDevice">>,
     <<6, "msgs", "ThrottleReadIOPSDevice", "LinuxThrottleDevice">>,
     <<7, "msgs", "ThrottleWriteIOPSDevice", "LinuxThrottleDevice">>}
MarshalLinuxBlockIO ==
    <<<<\h3a, "msgs", "ThrottleWriteIOPSDevice", "LinuxThrottleDevice">>,
      <<\h32, "msgs", "ThrottleReadIOPSDevice", "LinuxThrottleDevice">>,
      <<\h2a, "msgs", "ThrottleWriteBpsDevice", "LinuxThrottleDevice">>,
      <<\h22, "msgs", "ThrottleReadBpsDevice", "LinuxThrottleDevice">>,
      <<\h1a, "msgs", "WeightDevice", "LinuxWeightDevice">>, <<\h10, "varint", "LeafWeight">>,
      <<\h08, "varint", "Weight">>>>
SizeLinuxBlockIO ==
    {<<"varint", "Weight">>, <<"varint", "LeafWeight">>,
     <<"msgs", "WeightDevice", "LinuxWeightDevice">>,
     <<"msgs", "ThrottleReadBpsDevice", "LinuxThrottleDevice">>,
     <<"msgs", "ThrottleWriteBpsDevice", "LinuxThrottleDevice">>,
     <<"msgs", "ThrottleReadIOPSDevice", "LinuxThrottleDevice">>,
     <<"msgs", "ThrottleWriteIOPSDevice", "LinuxThrottleDevice">>}

UnmarshalLinuxPids == {<<1, "int64", "Limit">>}
MarshalLinuxPids == <<<<\h08, "varint", "Limit">>>>
SizeLinuxPids == {<<"varint", "Limit">>}

UnmarshalLinuxDeviceCgroup ==
    {<<1, "bool", "Allow">>, <<2, "bytes", "Type">>, <<3, "int64", "Major">>,
     <<4, "int64", "Minor">>, <<5, "bytes", "Access">>}
MarshalLinuxDeviceCgroup ==
    <<<<\h2a, "bytes", "Access">>, <<\h20, "varint", "Minor">>, <<\h18, "varint", "Major">>,
      <<\h12, "bytes", "Type">>, <<\h08, "bool", "Allow">>>>
SizeLinuxDeviceCgroup ==
    {<<"bool", "Allow">>, <<"bytes", "Type">>, <<"varint", "Major">>, <<"varint", "Minor">>,
     <<"bytes", "Access">>}

UnmarshalLinuxNetwork ==
    {<<1, "uint32", "ClassID">>, <<2, "msgs", "Priorities", "LinuxInterfacePriority">>}
MarshalLinuxNetwork ==
    <<<<\h12, "msgs", "Priorities", "LinuxInterfacePriority">>, <<\h08, "varint", "ClassID">>>>
SizeLinuxNetwork ==
    {<<"varint", "ClassID">>, <<"msgs", "Priorities", "LinuxInterfacePriority">>}

UnmarshalLinuxHugepageLimit == {<<1, "bytes", "Pagesize">>, <<2, "uint64", "Limit">>}
MarshalLinuxHugepageLimit == <<<<\h10, "varint", "Limit">>, <<\h0a, "bytes", "Pagesize">>>>
SizeLinuxHugepageLimit == {<<"bytes", "Pagesize">>, <<"varint", "Limit">>}

UnmarshalLinuxInterfacePriority == {<<1, "bytes", "Name">>, <<2, "uint32", "Priority">>}
MarshalLinuxInterfacePriority == <<<<\h10, "varint", "Priority">>, <<\h0a, "bytes", "Name">>>>
SizeLinuxInterfacePriority == {<<"bytes", "Name">>, <<"varint", "Priority">>}

UnmarshalLinuxSeccomp ==
    {<<1, "bytes", "DefaultAction">>, <<2, "strings", "Architectures">>,
     <<3, "strings", "Flags">>, <<4, "msgs", "Syscalls", "LinuxSyscall">>}
MarshalLinuxSeccomp ==
    <<<<\h22, "msgs", "Syscalls", "LinuxSyscall">>, <<\h1a, "strings", "Flags">>,
      <<\h12, "strings", "Architectures">>, <<\h0a, "bytes", "DefaultAction">>>>
SizeLinuxSeccomp ==
    {<<"bytes", "DefaultAction">>, <<"strings", "Architectures">>, <<"strings", "Flags">>,
     <<"msgs", "Syscalls", "LinuxSyscall">>}

UnmarshalLinuxSeccompArg ==
    {<<1, "uint64", "Index">>, <<2, "uint64", "Value">>, <<3, "uint64", "ValueTwo">>,
     <<4, "bytes", "Op">>}
MarshalLinuxSeccompArg ==
    <<<<\h22, "bytes", "Op">>, <<\h18, "varint", "ValueTwo">>, <<\h10, "varint", "Value">>,
      <<\h08, "varint", "Index">>>>
SizeLinuxSeccompArg ==
    {<<"varint", "Index">>, <<"varint", "Value">>, <<"varint", "ValueTwo">>, <<"bytes", "Op">>}

UnmarshalLinuxSyscall ==
    {<<1, "strings", "Names">>, <<2, "bytes", "Action">>, <<3, "oneof_uint32", "ErrnoRet">>,
     <<4, "msgs", "Args", "LinuxSeccompArg">>}
MarshalLinuxSyscall ==
    <<<<\h22, "msgs", "Args", "LinuxSeccompArg">>, <<\h18, "oneof", "ErrnoRet">>,
      <<\h12, "bytes", "Action">>, <<\h0a, "strings", "Names">>>>
SizeLinuxSyscall ==
    {<<"strings", "Names">>, <<"bytes", "Action">>, <<"oneof", "ErrnoRet">>,
     <<"msgs", "Args", "LinuxSeccompArg">>}

UnmarshalLinuxIntelRdt == {<<1, "bytes", "L3CacheSchema">>}
MarshalLinuxIntelRdt == <<<<\h0a, "bytes", "L3CacheSchema">>>>
SizeLinuxIntelRdt == {<<"bytes", "L3CacheSchema">>}

OciUnmarshalTables ==
    [Spec |-> UnmarshalSpec, Process |-> UnmarshalProcess, Box |-> UnmarshalBox,
     User |-> UnmarshalUser, LinuxCapabilities |-> UnmarshalLinuxCapabilities,
     POSIXRlimit |-> UnmarshalPOSIXRlimit, Mount |-> UnmarshalMount, Root |-> UnmarshalRoot,
     Hooks |-> UnmarshalHooks, Hook |-> UnmarshalHook, Linux |-> UnmarshalLinux,
     Windows |-> UnmarshalWindows, Solaris |-> UnmarshalSolaris,
     LinuxIDMapping |-> UnmarshalLinuxIDMapping, LinuxNamespace |-> UnmarshalLinuxNamespace,
     LinuxDevice |-> UnmarshalLinuxDevice, LinuxResources |-> UnmarshalLinuxResources,
     LinuxMemory |-> UnmarshalLinuxMemory, LinuxCPU |-> UnmarshalLinuxCPU,
     LinuxWeightDevice |-> UnmarshalLinuxWeightDevice,
     LinuxThrottleDevice |-> UnmarshalLinuxThrottleDevice,
     LinuxBlockIO |-> UnmarshalLinuxBlockIO, LinuxPids |-> UnmarshalLinuxPids,
     LinuxDeviceCgroup |-> UnmarshalLinuxDeviceCgroup, LinuxNetwork |-> UnmarshalLinuxNetwork,
     LinuxHugepageLimit |-> UnmarshalLinuxHugepageLimit,
     LinuxInterfacePriority |-> UnmarshalLinuxInterfacePriority,
     LinuxSeccomp |-> UnmarshalLinuxSeccomp, LinuxSeccompArg |-> UnmarshalLinuxSeccompArg,
     LinuxSyscall |-> UnmarshalLinuxSyscall, LinuxIntelRdt |-> UnmarshalLinuxIntelRdt]

OciMarshalTables ==
    [Spec |-> MarshalSpec, Process |-> MarshalProcess, Box |-> MarshalBox,
     User |-> MarshalUser, LinuxCapabilities |-> MarshalLinuxCapabilities,
     POSIXRlimit |-> MarshalPOSIXRlimit, Mount |-> MarshalMount, Root |-> MarshalRoot,
     Hooks |-> MarshalHooks, Hook |-> MarshalHook, Linux |-> MarshalLinux,
     Windows |-> MarshalWindows, Solaris |-> MarshalSolaris,
     LinuxIDMapping |-> MarshalLinuxIDMapping, LinuxNamespace |-> MarshalLinuxNamespace,
     LinuxDevice |-> MarshalLinuxDevice, LinuxResources |-> MarshalLinuxResources,
     LinuxMemory |-> MarshalLinuxMemory, LinuxCPU |-> MarshalLinuxCPU,
     LinuxWeightDevice |-> MarshalLinuxWeightDevice,
     LinuxThrottleDevice |-> MarshalLinuxThrottleDevice, LinuxBlockIO |-> MarshalLinuxBlockIO,
     LinuxPids |-> MarshalLinuxPids, LinuxDeviceCgroup |-> MarshalLinuxDeviceCgroup,
     LinuxNetwork |-> MarshalLinuxNetwork, LinuxHugepageLimit |-> MarshalLinuxHugepageLimit,
     LinuxInterfacePriority |-> MarshalLinuxInterfacePriority,
     LinuxSeccomp |-> MarshalLinuxSeccomp, LinuxSeccompArg |-> MarshalLinuxSeccompArg,
     LinuxSyscall |-> MarshalLinuxSyscall, LinuxIntelRdt |-> MarshalLinuxIntelRdt]

OciSizeTables ==
    [Spec |-> SizeSpec, Process |-> SizeProcess, Box |-> SizeBox, User |-> SizeUser,
     LinuxCapabilities |-> SizeLinuxCapabilities, POSIXRlimit |-> SizePOSIXRlimit,
     Mount |-> SizeMount, Root |-> SizeRoot, Hooks |-> SizeHooks, Hook |-> SizeHook,
     Linux |-> SizeLinux, Windows |-> SizeWindows, Solaris |-> SizeSolaris,
     LinuxIDMapping |-> SizeLinuxIDMapping, LinuxNamespace |-> SizeLinuxNamespace,
     LinuxDevice |-> SizeLinuxDevice, LinuxResources |-> SizeLinuxResources,
     LinuxMemory |-> SizeLinuxMemory, LinuxCPU |-> SizeLinuxCPU,
     LinuxWeightDevice |-> SizeLinuxWeightDevice,
     LinuxThrottleDevice |-> SizeLinuxThrottleDevice, LinuxBlockIO |-> SizeLinuxBlockIO,
     LinuxPids |-> SizeLinuxPids, LinuxDeviceCgroup |-> SizeLinuxDeviceCgroup,
     LinuxNetwork |-> SizeLinuxNetwork, LinuxHugepageLimit |-> SizeLinuxHugepageLimit,
     LinuxInterfacePriority |-> SizeLinuxInterfacePriority, LinuxSeccomp |-> SizeLinuxSeccomp,
     LinuxSeccompArg |-> SizeLinuxSeccompArg, LinuxSyscall |-> SizeLinuxSyscall,
     LinuxIntelRdt |-> SizeLinuxIntelRdt]
================================================================================
