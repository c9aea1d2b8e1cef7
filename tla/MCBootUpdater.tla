--------------------------- MODULE MCBootUpdater ---------------------------
(* A transfer of a few packets, disturbed, with a second call after it.     *)
EXTENDS BootUpdater
============================================================================
