------------------------------ MODULE MCAuditLog ------------------------------
(***************************************************************************)
(* Short and long lines in files that hold three units: a long line seals  *)
(* a file that a short one still fits into.                                *)
(***************************************************************************)
EXTENDS AuditLog

MCSizes == {1, 2}
=============================================================================
