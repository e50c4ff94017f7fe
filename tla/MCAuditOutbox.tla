---------------------------- MODULE MCAuditOutbox ----------------------------
(* An instance of AuditOutbox.                                             *)
EXTENDS AuditOutbox, TLC

CONSTANTS f1, f2
=============================================================================
