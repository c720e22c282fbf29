------------------------- MODULE MCFirmwareUpdate -------------------------
(* Instances of FirmwareUpdate. The lamp reports four components, and a server may *)
(* name three of them, fewer, or one that is no number.                            *)
EXTENDS FirmwareUpdate

CONSTANT junk

MCVersions == {<<3, 0, 24>>, <<3, 1>>, <<3, junk, 9, 7>>}
MCFirmware == {<<3, 0, 24, 0>>, <<2, 9, 9, 1>>}
=============================================================================
