----------------------------- MODULE MCBootHooks -----------------------------
EXTENDS BootHooks
=============================================================================
