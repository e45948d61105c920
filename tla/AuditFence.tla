----------------------------- MODULE AuditFence -----------------------------
(***************************************************************************)
(* What happens to a row on its way into auditlog.audit_trails, as far as  *)
(* the org unit that labels it goes: the capture function and the column   *)
(* default propose a unit, the decorator's fill trigger completes it, its  *)
(* kind guard, NOT NULL, the row-level policy and the declared checks let  *)
(* it in or refuse it.  No state: every operator takes the shape of the    *)
(* deployment, a record of what has been installed.                        *)
(***************************************************************************)
EXTENDS Naturals, Sequences, FiniteSets

CONSTANTS
    OrgUnits,    \* organization.org_units of kind company or branch
    OtherUnits,  \* ids that name no unit, or one of another kind
    NoUnit,      \* org_unit_id NULL, app.acting_unit_id unset
    Gone,        \* where a row lives that does not exist
    Checks       \* the constraints the declared checks add

Units == OrgUnits \cup OtherUnits

ASSUME UnitAssumption ==
    /\ OrgUnits \cap OtherUnits = {}
    /\ NoUnit \notin Units /\ Gone \notin Units \cup {NoUnit}

\* What the migrations and the decorator have installed so far.
Shapes == [armed   : BOOLEAN,                      \* the immutability trigger
           rls     : BOOLEAN,                      \* ENABLE and FORCE row security
           capture : {"none", "acting", "subject"},\* 000200 is acting, 000300 subject
           column  : BOOLEAN,                      \* org_unit_id
           sealed  : BOOLEAN,                      \* it is NOT NULL
           default : BOOLEAN,                      \* it defaults to the acting unit
           policy  : BOOLEAN,                      \* the org-unit isolation policy
           guard   : BOOLEAN,                      \* the kind guard
           fill    : BOOLEAN,                      \* the fill trigger
           checks  : SUBSET Checks]                \* the declared checks

\* A database session: the owner is a superuser; acting is app.acting_unit_id
\* and scope is app.scope_unit_ids.
SessionShapes == [role : {"owner", "app"}, acting : Units \cup {NoUnit}, scope : SUBSET Units]

\* Mutant: the function does not pass the subject's unit.
ProposedActing(shape, session, lane, home) ==
    IF shape.default THEN session.acting ELSE NoUnit

\* The unit the INSERT itself gives: the subject's when the capture function
\* passes it, and otherwise the column's default, because neither the verbs
\* nor the 000200 function name the column.
Proposed(shape, session, lane, home) ==
    IF lane = "capture" /\ shape.capture = "subject" THEN home
    ELSE IF shape.default THEN session.acting ELSE NoUnit

\* Mutant: the trigger stamps every row with the acting unit.
FilledAlways(shape, session, unit) ==
    IF shape.fill THEN session.acting ELSE unit

\* audit_trails_org_unit_fill
Filled(shape, session, unit) ==
    IF shape.fill /\ unit = NoUnit THEN session.acting ELSE unit

\* audit_trails_org_unit_kind_guard
GuardAdmits(shape, unit) == shape.guard => unit \in OrgUnits

\* Mutant: the fence is armed only where there is a policy.
PolicyAdmitsUnarmed(shape, session, unit) ==
    session.role = "owner" \/ ~shape.policy \/ unit \in session.scope

\* Row security: superusers bypass it; armed without a policy it denies.
PolicyAdmits(shape, session, unit) ==
    \/ session.role = "owner"
    \/ ~shape.rls
    \/ shape.policy /\ unit \in session.scope

\* breaks is the set of declared checks the row would fail.
Admitted(shape, session, unit, breaks) ==
    /\ GuardAdmits(shape, unit)
    /\ PolicyAdmits(shape, session, unit)
    /\ shape.sealed => unit # NoUnit
    /\ breaks \cap shape.checks = {}
=============================================================================
