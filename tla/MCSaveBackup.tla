---------------------------- MODULE MCSaveBackup ----------------------------
(* Three invocations of save_backup on one path; they are interchangeable.  *)
EXTENDS SaveBackup, TLC

CONSTANTS a, b, c

MCPublishers == {a, b, c}
Symmetry == Permutations(MCPublishers)
============================================================================
