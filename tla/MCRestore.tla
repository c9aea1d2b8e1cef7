----------------------------- MODULE MCRestore -----------------------------
(* Files of three units, one of them with a foreign kernel, on one camera.    *)
EXTENDS Restore

CONSTANTS a, b, c

MCUnits == {a, b, c}
MCStock == {a, b}
============================================================================
