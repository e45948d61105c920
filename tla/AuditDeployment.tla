--------------------------- MODULE AuditDeployment ---------------------------
(***************************************************************************)
(* A database on its way to the composed deployment: the module's          *)
(* migrations run in order, the composing service's tenancy decorator is   *)
(* run and re-run, and all the while sessions write audited rows and call  *)
(* the verbs.  Each write is one committed transaction.                    *)
(***************************************************************************)
EXTENDS AuditFence

CONSTANTS
    Clients,     \* the sessions that write, a set of SessionShapes
    ScopedRows,  \* audited rows of a table that has org_unit_id
    PlainRows,   \* audited rows of a table that does not
    MaxRows      \* bound: rows in the trail

ASSUME ClientAssumption == Clients \subseteq SessionShapes
ASSUME RowAssumption == ScopedRows \cap PlainRows = {} /\ MaxRows \in Nat

VARIABLES
    shape,      \* what is installed
    migration,  \* the next migration to run, 7 when all have
    testing,    \* the check whose stored rows were just found to keep it
    script,     \* the decorator statement to run next, 0 when it is not running
    home,       \* per audited row, the unit it lives in
    trail       \* the audit rows; the fields after unit are what it should say

vars == <<shape, migration, testing, script, home, trail>>

NoCheck == "none"
AuditedRows == ScopedRows \cup PlainRows

TrailRows == [unit   : Units \cup {NoUnit},
              breaks : SUBSET Checks,
              lane   : {"capture", "verb"},
              home   : Units \cup {NoUnit},
              by     : Clients]

DeploymentTypeOK ==
    /\ shape \in Shapes
    /\ migration \in 1..7
    /\ testing \in Checks \cup {NoCheck}
    /\ script \in 0..9
    /\ home \in [AuditedRows -> Units \cup {NoUnit, Gone}]
    /\ trail \in Seq(TrailRows)

Init ==
    /\ shape = [armed |-> FALSE, rls |-> FALSE, capture |-> "none", column |-> FALSE,
                sealed |-> FALSE, default |-> FALSE, policy |-> FALSE, guard |-> FALSE,
                fill |-> FALSE, checks |-> {}]
    /\ migration = 1
    /\ testing = NoCheck
    /\ script = 0
    /\ home = [r \in AuditedRows |-> Gone]
    /\ trail = << >>

TableExists == migration > 1

-----------------------------------------------------------------------------
(* The module's migrations, in the order of their file names.              *)

Migrated(n, newShape) ==
    /\ migration = n
    /\ migration' = n + 1
    /\ shape' = newShape
    /\ UNCHANGED <<testing, script, home, trail>>

CreateTable     == Migrated(1, shape)
ArmImmutability == Migrated(2, [shape EXCEPT !.armed = TRUE])
ArmHalfFence    == Migrated(3, [shape EXCEPT !.rls = TRUE])
InstallCapture  == Migrated(4, [shape EXCEPT !.capture = "acting"])
CaptureSubject  == Migrated(5, [shape EXCEPT !.capture = "subject", !.column = TRUE])

Offending(c) == \E i \in DOMAIN trail : c \in trail[i].breaks

\* One DO block per check: does a stored row break it? ...
TestCheck(c) ==
    /\ migration = 6 /\ testing = NoCheck
    /\ c \notin shape.checks /\ ~Offending(c)
    /\ testing' = c
    /\ UNCHANGED <<shape, migration, script, home, trail>>

\* Mutant: the constraint is added NOT VALID.
AddCheckNotValid(c) ==
    /\ testing = c
    /\ testing' = NoCheck
    /\ shape' = [shape EXCEPT !.checks = @ \cup {c}]
    /\ UNCHANGED <<migration, script, home, trail>>

\* ... and if none does, ADD CONSTRAINT, which reads them again under a lock
\* and fails if one that breaks it was committed in between.  Then the run
\* of the migration ends, and the next finds the row.
AddCheck(c) ==
    /\ testing = c
    /\ testing' = NoCheck
    /\ shape' = IF Offending(c) THEN shape ELSE [shape EXCEPT !.checks = @ \cup {c}]
    /\ UNCHANGED <<migration, script, home, trail>>

\* Mutant: the block does not skip a check that stored rows break.
ChecksDoneAll ==
    /\ migration = 6 /\ testing = NoCheck
    /\ shape.checks = Checks
    /\ migration' = 7
    /\ UNCHANGED <<shape, testing, script, home, trail>>

\* Every block has added its check or skipped it.
ChecksDone ==
    /\ migration = 6 /\ testing = NoCheck
    /\ \A c \in Checks : c \in shape.checks \/ Offending(c)
    /\ migration' = 7
    /\ UNCHANGED <<shape, testing, script, home, trail>>

Migrate ==
    \/ CreateTable \/ ArmImmutability \/ ArmHalfFence \/ InstallCapture \/ CaptureSubject
    \/ \E c \in Checks : TestCheck(c) \/ AddCheck(c)
    \/ ChecksDone

(* The down migrations, last one first.  That of 000200 is refused while a  *)
(* table is audited (DropFunction of AuditTab), and with it those before.   *)

Reverted(n, newShape) ==
    /\ migration = n + 1 /\ testing = NoCheck
    /\ migration' = n
    /\ shape' = newShape
    /\ UNCHANGED <<testing, script, home, trail>>

\* 000301 drops the constraints that are there.
RevertChecks == Reverted(6, [shape EXCEPT !.checks = {}])

\* 000300 brings the 000200 function back; the column stays.
RevertCapture == Reverted(5, [shape EXCEPT !.capture = "acting"])

Revert == RevertChecks \/ RevertCapture

-----------------------------------------------------------------------------
(* The tenancy decorator: a script of guarded statements that may be run   *)
(* again and again, each a transaction of its own.  One that raises        *)
(* changes nothing, and the script goes on to the next.  The policy and    *)
(* the triggers are dropped and created again, in two statements.          *)

StartScript ==
    /\ TableExists /\ script = 0
    /\ script' = 1
    /\ UNCHANGED <<shape, migration, testing, home, trail>>

\* Mutant: the script does not end after its last statement.
DecoratedOnce(n, newShape) ==
    /\ script = n
    /\ script' = n + 1
    /\ shape' = newShape
    /\ UNCHANGED <<migration, testing, home, trail>>

Decorated(n, newShape) ==
    /\ script = n
    /\ script' = (n + 1) % 10
    /\ shape' = newShape
    /\ UNCHANGED <<migration, testing, home, trail>>

\* Raises if a row has no unit: there is no company_id to take it from.
Seal ==
    Decorated(2, [shape EXCEPT !.sealed = @ \/ \A i \in DOMAIN trail : trail[i].unit # NoUnit])

\* Mutant: the guard is created for updates only.
CreateGuardOnUpdate == Decorated(7, shape)

AddColumn    == Decorated(1, [shape EXCEPT !.column = TRUE])
SetDefault   == Decorated(3, [shape EXCEPT !.default = TRUE])
DropPolicy   == Decorated(4, [shape EXCEPT !.rls = TRUE, !.policy = FALSE])
CreatePolicy == Decorated(5, [shape EXCEPT !.policy = TRUE])
DropGuard    == Decorated(6, [shape EXCEPT !.guard = FALSE])
CreateGuard  == Decorated(7, [shape EXCEPT !.guard = TRUE])
DropFill     == Decorated(8, [shape EXCEPT !.fill = FALSE])
CreateFill   == Decorated(9, [shape EXCEPT !.fill = TRUE])

Decorate ==
    \/ StartScript \/ AddColumn \/ Seal \/ SetDefault \/ DropPolicy \/ CreatePolicy
    \/ DropGuard \/ CreateGuard \/ DropFill \/ CreateFill

-----------------------------------------------------------------------------
(* Writers.                                                                *)

UnitOf(client, lane, lives) ==
    Filled(shape, client, Proposed(shape, client, lane, lives))

AuditRow(client, lane, lives, breaks) ==
    [unit |-> UnitOf(client, lane, lives), breaks |-> breaks,
     lane |-> lane, home |-> lives, by |-> client]

\* The subject table is fenced like the trail.
MayTouch(client, r, lives) ==
    r \in ScopedRows /\ shape.policy /\ client.role = "app" /\ lives # Gone
        => lives \in client.scope

\* Where a row of the table may live.
Homes(r) == (IF r \in ScopedRows THEN Units \cup {NoUnit} ELSE {NoUnit}) \cup {Gone}

\* An INSERT, UPDATE or DELETE of an audited row.  When the trail refuses
\* the audit row the statement fails, and nothing changes.
WriteRow(client, r, lives, breaks) ==
    LET label == IF lives = Gone THEN home[r] ELSE lives
        row   == AuditRow(client, "capture", label, breaks)
    IN  /\ shape.capture # "none"
        /\ lives # Gone \/ home[r] # Gone
        /\ MayTouch(client, r, home[r]) /\ MayTouch(client, r, lives)
        /\ Len(trail) < MaxRows
        /\ Admitted(shape, client, row.unit, breaks)
        /\ home'  = [home EXCEPT ![r] = lives]
        /\ trail' = Append(trail, row)
        /\ UNCHANGED <<shape, migration, testing, script>>

LogVerb(client, breaks) ==
    LET row == AuditRow(client, "verb", NoUnit, breaks)
    IN  /\ TableExists /\ Len(trail) < MaxRows
        /\ Admitted(shape, client, row.unit, breaks)
        /\ trail' = Append(trail, row)
        /\ UNCHANGED <<shape, migration, testing, script, home>>

Visible(client) ==
    {i \in DOMAIN trail : PolicyAdmits(shape, client, trail[i].unit)}

\* SeedAuditTrailSeeder::rollback deletes the rows it sees, until the trail
\* is armed: then the DELETE raises at the first of them.  The others stay,
\* in their order.
SeederRollback(client) ==
    /\ TableExists /\ ~shape.armed /\ Visible(client) # {}
    /\ \E n \in 0..Len(trail) : \E kept \in [1..n -> DOMAIN trail \ Visible(client)] :
           /\ {kept[i] : i \in 1..n} = DOMAIN trail \ Visible(client)
           /\ \A i, j \in 1..n : i < j => kept[i] < kept[j]
           /\ trail' = [i \in 1..n |-> trail[kept[i]]]
    /\ UNCHANGED <<shape, migration, testing, script, home>>

Breaks == {{}} \cup {{c} : c \in Checks}

Write ==
    \E client \in Clients, breaks \in Breaks :
        \/ \E r \in AuditedRows : \E lives \in Homes(r) : WriteRow(client, r, lives, breaks)
        \/ LogVerb(client, breaks)
        \/ SeederRollback(client)

Next == Migrate \/ Revert \/ Decorate \/ Write

Spec == Init /\ [][Next]_vars

\* Whoever deploys runs the migrations to the end and keeps re-running the
\* decorator; nothing makes anybody write.
FairSpec == Spec /\ WF_vars(Migrate) /\ WF_vars(Decorate)

-----------------------------------------------------------------------------
(* Properties.                                                             *)

NewRows == (Len(trail) + 1)..Len(trail')

\* A captured row labels where the audited row lives, whoever wrote it and
\* whatever unit they act for; only a row that lives in no unit falls back
\* on the acting one (capture_data_change, audit_trails_org_unit_fill).
LabelsWhereRowLives ==
    [][\A i \in NewRows :
        LET row == trail'[i]
        IN  row.lane = "capture" /\ shape.capture = "subject" =>
                \/ row.unit = row.home
                \/ row.home = NoUnit /\ row.unit = row.by.acting]_vars

\* From 000100 on no request gets a row in outside the units it is entitled
\* to, at no stage of migrations and decorator: row security that is forced
\* refuses where there is no policy, before the decorator's first run and
\* each time it has dropped the policy and not yet created it again.
FenceNeverOpens ==
    [][migration > 3 =>
        \A i \in NewRows :
            LET row == trail'[i] IN row.by.role = "app" => row.unit \in row.by.scope]_vars

\* Once the decorator has come as far as its guard, what gets in has a
\* company or branch unit, by whatever path and whatever is run again - but
\* for the moment of a re-run between DROP TRIGGER and CREATE TRIGGER of the
\* kind guard (audit_trails_org_unit_kind_guard).
UnitsAreReal ==
    [][script # 7 /\ (shape.fill \/ script \in {8, 9}) =>
        \A i \in NewRows : trail'[i].unit \in OrgUnits]_vars

\* A request that acts for a unit it is entitled to, and writes a row that
\* lives in one or in none.
Rightful(client, lives) ==
    /\ client.role = "app" /\ client.acting \in OrgUnits \cap client.scope
    /\ lives \in (OrgUnits \cap client.scope) \cup {NoUnit}

Passes(client, lane, lives) == Admitted(shape, client, UnitOf(client, lane, lives), {})

\* The fence never takes down a business write that is in order.  The system
\* path, which has no acting unit, is let through for every row that lives in
\* a unit, at any stage, once the function labels with the subject's unit; a
\* rightful request is, with its verbs and its writes to any table, once the
\* decorator has been through, also while it is re-run, but for the moments
\* when the policy or the fill is dropped (capture_data_change).
RightfulWritesPass ==
    \A client \in Clients :
        /\ \A unit \in OrgUnits :
               client.role = "owner" /\ shape.capture = "subject" =>
                   Passes(client, "capture", unit)
        /\ \A lives \in Units \cup {NoUnit} :
               Rightful(client, lives) /\ shape.fill /\ script # 5 =>
                   Passes(client, "capture", lives) /\ Passes(client, "verb", lives)

\* What is installed is true of every row, also of those stored before it
\* was: a check in place is kept by all, a sealed column is never empty.
InstalledMeansKept ==
    \A i \in DOMAIN trail :
        /\ trail[i].breaks \cap shape.checks = {}
        /\ shape.sealed => trail[i].unit # NoUnit

\* Once nobody reverts any more, the migrations finish, although writers race
\* the declared checks: a row that slips in before ADD CONSTRAINT, or while
\* the checks are reverted, makes one run fail or go without that check, but
\* it can never be removed, so no run waits for it.
MigrationsFinish == <>[][~Revert]_vars => <>[](migration = 7)

\* "every statement is guarded; a partially-applied file converges on
\* re-run": a decorator that is run again and again ends up installed.
DecoratorConverges == <>(shape.sealed /\ shape.policy /\ shape.guard /\ shape.fill)
=============================================================================
