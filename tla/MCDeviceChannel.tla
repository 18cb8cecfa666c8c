--------------------------- MODULE MCDeviceChannel ---------------------------
(***************************************************************************)
(* Model values for DeviceChannel: three sockets, the last of a second     *)
(* device.                                                                 *)
(***************************************************************************)
EXTENDS DeviceChannel

CONSTANTS d1, d2, s1, s2, s3, c1

OneDevice == [s \in Sockets |-> d1]
TwoDevices == [s \in Sockets |-> IF s = s3 THEN d2 ELSE d1]
=============================================================================
