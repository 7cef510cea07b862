--------------------------- MODULE MCPatchLibrary ---------------------------
(* Files of at most MaxLines lines about one loaded and one unloaded module. *)
EXTENDS PatchLibrary
=============================================================================
