----------------------------- MODULE MCAuditLog -----------------------------
(***************************************************************************)
(* Instances of AuditLog for TLC.  Entries bounds the rows that are there  *)
(* at one time, not how many are ever stored; the rows of the start lie in *)
(* the middle of the order, so that rows come in before and after them.    *)
(***************************************************************************)
EXTENDS AuditLog

MCEntries == 1 .. 6
MCTable0 == {2, 4}
=============================================================================
