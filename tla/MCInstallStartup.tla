-------------------------- MODULE MCInstallStartup --------------------------
(* Runs of both install commands on one camera.                             *)
EXTENDS InstallStartup

MCFeatures == {"adb", "erase-fix"}
=============================================================================
