-------------------------- MODULE MCAuditSurface --------------------------
(* A small host: a member who may do everything, a clerk who may only read *)
(* and create, and a stranger whose token is not accepted.                 *)
EXTENDS AuditSurface

CONSTANTS member, clerk, stranger

MCGranted == {member, stranger} \X Permissions \cup {clerk} \X {"read", "create"}

AllColumns == Columns
=============================================================================
