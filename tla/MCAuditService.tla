--------------------------- MODULE MCAuditService ---------------------------
(***************************************************************************)
(* Instances of AuditService for TLC: the configurations give the writer,  *)
(* the stopper and the flushers as model values.                           *)
(***************************************************************************)
EXTENDS AuditService
=============================================================================
