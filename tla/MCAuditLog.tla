----------------------------- MODULE MCAuditLog -----------------------------
(***************************************************************************)
(* AuditLog on small instances.  The model values stand for the main       *)
(* thread and one other (the posture thread of stdio, a worker of HTTP).   *)
(***************************************************************************)
EXTENDS AuditLog, TLC

CONSTANTS main, worker

MCThreads == {main, worker}
=============================================================================
