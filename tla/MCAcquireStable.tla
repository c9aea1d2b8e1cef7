-------------------------- MODULE MCAcquireStable --------------------------
(* The read policy of the code (three in a row, five reads) on a flash of   *)
(* one fixed and two live cells.                                            *)
EXTENDS AcquireStable

MCLive == {2, 3}
============================================================================
