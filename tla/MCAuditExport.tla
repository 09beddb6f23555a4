---------------------------- MODULE MCAuditExport ----------------------------
(* Two events, which one page holds, enough updates to switch the export on, *)
(* off and on again while a batch is under way, and one stop of the process. *)
EXTENDS AuditExport
=============================================================================
