----------------------------- MODULE MCPatchSet ------------------------------
(* PatchSet with a file whose name has an "@" in it, and others, as those   *)
(* in config/PATCHES, whose names have none.                                *)
EXTENDS PatchSet

CONSTANTS tab, button, branding, strip, stripSlashed

OneAt == [f \in Files |-> IF f = strip THEN stripSlashed ELSE f]
=============================================================================
