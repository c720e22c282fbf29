--------------------------- MODULE MCModuleInfo ---------------------------
(* Instances of ModuleInfo: two firmware versions.                          *)
EXTENDS ModuleInfo

CONSTANTS v1, v2

MCVersions == {v1, v2}
=============================================================================
