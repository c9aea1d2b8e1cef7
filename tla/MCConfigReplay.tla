---------------------------- MODULE MCConfigReplay ----------------------------
EXTENDS ConfigReplay
=============================================================================
