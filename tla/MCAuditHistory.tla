--------------------------- MODULE MCAuditHistory ---------------------------
(***************************************************************************)
(* AuditHistory on small instances: one row, one field, no verbs.          *)
(***************************************************************************)
EXTENDS AuditHistory

SessionSymmetry == Permutations(Sessions)
=============================================================================
