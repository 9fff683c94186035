-------------------------- MODULE MCDeviceManager --------------------------
(* Instance of DeviceManager for TLC.                                       *)
EXTENDS DeviceManager, TLC

CONSTANTS c1, c2, c3, d1, d2, d3

MCContainers == {c1, c2, c3}
MCDevices == {d1, d2, d3}
\* c1 and c2 share d1 (a root file system and a device), c2 and c3 share d2 (a
\* device and a mount); with two indices c3 gets none for d3 while c2 has both.
MCRootfs == (c1 :> d1) @@ (c2 :> NoDevice) @@ (c3 :> NoDevice)
MCDeviceInfos == (c1 :> <<>>) @@ (c2 :> <<d2, d1>>) @@ (c3 :> <<>>)
MCMounts == (c1 :> <<>>) @@ (c2 :> <<>>) @@ (c3 :> <<d2, d3>>)
=============================================================================
