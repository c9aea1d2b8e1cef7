---------------------------- MODULE MCHidUpload ----------------------------
(* Uploads of up to MAX_CHUNKS chunks to a few destinations, abandoned and    *)
(* retried.                                                                   *)
EXTENDS HidUpload

CONSTANTS f, g

MCPaths == {f, g}
MCFileOnly == {"file"}
MCBoth == {"file", "adb"}
============================================================================
