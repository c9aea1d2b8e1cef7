----------------------------- MODULE MCRecovery -----------------------------
(* A script with one default, and a file of the owner's it does not know.     *)
EXTENDS Recovery

CONSTANTS attr, hook

MCNames == {attr, hook}
MCCopies == <<attr>>
=============================================================================
