----------------------- MODULE AuditDeployment_proofs -----------------------
(***************************************************************************)
(* Theorems about AuditDeployment, for every set of units, sessions, rows  *)
(* and checks: what the fence, the seal and the checks keep out, and what  *)
(* they let through, while migrations, decorator and writers interleave.   *)
(***************************************************************************)
EXTENDS AuditDeployment, TLAPS

\* What stands at which stage: row security from 000100 on, and what the
\* decorator's script has passed or a run before it has left behind.
Standing ==
    /\ migration > 3 => shape.rls
    /\ shape.fill \/ script \in 4..9 => shape.default
    /\ (shape.fill /\ script # 5) \/ script \in 6..9 => shape.policy
    /\ (shape.fill /\ script # 7) \/ script \in 8..9 => shape.guard

DeploymentInv ==
    /\ DeploymentTypeOK
    /\ Standing
    /\ InstalledMeansKept

-----------------------------------------------------------------------------
(* What a step of each kind does.                                          *)

\* Nothing that installs or reverts touches a row.
LEMMA InstallersLeaveRows ==
    ASSUME Migrate \/ Revert \/ Decorate
    PROVE  UNCHANGED <<home, trail>>
BY DEF Migrate, Migrated, CreateTable, ArmImmutability, ArmHalfFence, InstallCapture,
       CaptureSubject, TestCheck, AddCheck, ChecksDone, Revert, Reverted, RevertChecks,
       RevertCapture, Decorate,
       StartScript, Decorated, Seal, AddColumn, SetDefault, DropPolicy, CreatePolicy,
       DropGuard, CreateGuard, DropFill, CreateFill

\* The unit a write ends up with.
LEMMA UnitType ==
    ASSUME DeploymentTypeOK, NEW client \in Clients, NEW lane,
           NEW lives \in Units \cup {NoUnit}
    PROVE  UnitOf(client, lane, lives) \in Units \cup {NoUnit}
<1>1. client.acting \in Units \cup {NoUnit}
  BY ClientAssumption DEF SessionShapes
<1> QED
  BY <1>1 DEF UnitOf, Filled, Proposed

\* One admitted row more.
Added(client, lane, lives, breaks) ==
    /\ Admitted(shape, client, UnitOf(client, lane, lives), breaks)
    /\ trail' = Append(trail, AuditRow(client, lane, lives, breaks))
    /\ UNCHANGED <<shape, migration, testing, script>>

LEMMA BreaksType ==
    ASSUME NEW breaks \in Breaks
    PROVE  breaks \in SUBSET Checks
BY DEF Breaks

\* A write of an audited row adds a captured row and moves only that row.
LEMMA WriteRowAdds ==
    ASSUME DeploymentTypeOK, NEW client \in Clients, NEW r \in AuditedRows,
           NEW lives \in Homes(r), NEW breaks \in Breaks, WriteRow(client, r, lives, breaks)
    PROVE  /\ home' \in [AuditedRows -> Units \cup {NoUnit, Gone}]
           /\ \E label \in Units \cup {NoUnit} : Added(client, "capture", label, breaks)
<1> DEFINE label == IF lives = Gone THEN home[r] ELSE lives
<1>1. lives \in Units \cup {NoUnit, Gone}
  BY DEF Homes
<1>2. label \in Units \cup {NoUnit}
  BY <1>1 DEF WriteRow, DeploymentTypeOK
<1>3. Added(client, "capture", label, breaks)
  BY DEF WriteRow, Added, AuditRow
<1>4. home' = [home EXCEPT ![r] = lives]
  BY DEF WriteRow
<1> HIDE DEF label
<1> QED
  BY <1>1, <1>2, <1>3, <1>4 DEF DeploymentTypeOK

LEMMA AddedType ==
    ASSUME DeploymentTypeOK, NEW client \in Clients, NEW lane \in {"capture", "verb"},
           NEW lives \in Units \cup {NoUnit}, NEW breaks \in SUBSET Checks
    PROVE  AuditRow(client, lane, lives, breaks) \in TrailRows
BY UnitType DEF AuditRow, TrailRows

LEMMA AddedKeeps ==
    ASSUME DeploymentInv, NEW client \in Clients, NEW lane \in {"capture", "verb"},
           NEW lives \in Units \cup {NoUnit}, NEW breaks \in SUBSET Checks,
           Added(client, lane, lives, breaks),
           home' \in [AuditedRows -> Units \cup {NoUnit, Gone}]
    PROVE  DeploymentInv'
<1> DEFINE row == AuditRow(client, lane, lives, breaks)
<1>1. row \in TrailRows /\ trail \in Seq(TrailRows) /\ trail' = Append(trail, row)
      /\ UNCHANGED <<shape, migration, testing, script>>
  BY AddedType DEF DeploymentInv, DeploymentTypeOK, Added
<1>2. row.breaks \cap shape.checks = {} /\ (shape.sealed => row.unit # NoUnit)
  BY DEF AuditRow, Added, Admitted
<1> HIDE DEF row
<1>3. DeploymentTypeOK'
  BY <1>1 DEF DeploymentInv, DeploymentTypeOK
<1>4. InstalledMeansKept'
  <2>1. \A i \in DOMAIN trail' : (i \in DOMAIN trail /\ trail'[i] = trail[i]) \/ trail'[i] = row
    BY <1>1
  <2> QED
    BY <1>1, <1>2, <2>1 DEF DeploymentInv, InstalledMeansKept
<1> QED
  BY <1>1, <1>3, <1>4 DEF DeploymentInv, Standing

\* The seeder leaves rows that were there.
LEMMA RollbackLeaves ==
    ASSUME DeploymentTypeOK, NEW client, SeederRollback(client)
    PROVE  /\ trail' \in Seq(TrailRows) /\ Len(trail') <= Len(trail)
           /\ \A i \in DOMAIN trail' : \E j \in DOMAIN trail : trail'[i] = trail[j]
<1>0. PICK n \in 0..Len(trail) : \E kept \in [1..n -> DOMAIN trail \ Visible(client)] :
          trail' = [i \in 1..n |-> trail[kept[i]]]
  BY DEF SeederRollback
<1>1. PICK kept \in [1..n -> DOMAIN trail \ Visible(client)] :
          trail' = [i \in 1..n |-> trail[kept[i]]]
  BY <1>0
<1>2. trail \in Seq(TrailRows) /\ Len(trail) \in Nat /\ n \in Nat
  BY DEF DeploymentTypeOK
<1>3. \A i \in 1..n : kept[i] \in DOMAIN trail /\ trail[kept[i]] \in TrailRows
  BY <1>2
<1> QED
  BY <1>1, <1>2, <1>3

LEMMA RollbackKeeps ==
    ASSUME DeploymentInv, NEW client, SeederRollback(client)
    PROVE  DeploymentInv'
<1>1. UNCHANGED <<shape, migration, testing, script, home>>
  BY DEF SeederRollback
<1>2. /\ trail' \in Seq(TrailRows)
      /\ \A i \in DOMAIN trail' : \E j \in DOMAIN trail : trail'[i] = trail[j]
  BY RollbackLeaves DEF DeploymentInv
<1>3. InstalledMeansKept'
  BY <1>1, <1>2 DEF DeploymentInv, InstalledMeansKept
<1> QED
  BY <1>1, <1>2, <1>3 DEF DeploymentInv, DeploymentTypeOK, Standing

\* A write adds one admitted row, or is the seeder's.
LEMMA WriteAdds ==
    ASSUME DeploymentTypeOK, Write
    PROVE  \/ \E client \in Clients, lane \in {"capture", "verb"},
                 lives \in Units \cup {NoUnit}, breaks \in SUBSET Checks :
                 /\ Added(client, lane, lives, breaks)
                 /\ home' \in [AuditedRows -> Units \cup {NoUnit, Gone}]
           \/ \E client \in Clients : SeederRollback(client)
<1>1. ASSUME NEW client \in Clients, NEW breaks \in Breaks, NEW r \in AuditedRows,
             NEW lives \in Homes(r), WriteRow(client, r, lives, breaks)
      PROVE  /\ home' \in [AuditedRows -> Units \cup {NoUnit, Gone}]
             /\ \E label \in Units \cup {NoUnit} : Added(client, "capture", label, breaks)
  BY <1>1, WriteRowAdds
<1>2. ASSUME NEW client \in Clients, NEW breaks \in Breaks, LogVerb(client, breaks)
      PROVE  /\ Added(client, "verb", NoUnit, breaks)
             /\ home' \in [AuditedRows -> Units \cup {NoUnit, Gone}]
  BY <1>2 DEF LogVerb, Added, AuditRow, DeploymentTypeOK
<1> QED
  BY <1>1, <1>2, BreaksType DEF Write

LEMMA WriteKeeps ==
    ASSUME DeploymentInv, Write
    PROVE  DeploymentInv'
<1>1. DeploymentTypeOK
  BY DEF DeploymentInv
<1> QED
  BY <1>1, WriteAdds, AddedKeeps, RollbackKeeps

-----------------------------------------------------------------------------
(* Migrations and the decorator.                                           *)

\* A step that installs without adding a check or the seal.
LEMMA InstallKeeps ==
    ASSUME DeploymentInv, UNCHANGED <<home, trail>>,
           shape' \in Shapes, migration' \in 1..7, testing' \in Checks \cup {NoCheck},
           script' \in 0..9, Standing',
           shape'.checks = shape.checks, shape'.sealed = shape.sealed
    PROVE  DeploymentInv'
BY DEF DeploymentInv, DeploymentTypeOK, InstalledMeansKept

LEMMA InitDeployment == Init => DeploymentInv
BY DEF Init, DeploymentInv, DeploymentTypeOK, Standing, InstalledMeansKept, Shapes

LEMMA MigrateKeeps ==
    ASSUME DeploymentInv, Migrate
    PROVE  DeploymentInv'
<1> USE DEF DeploymentInv, DeploymentTypeOK
<1>0. UNCHANGED <<home, trail>> /\ UNCHANGED script
  BY InstallersLeaveRows
     DEF Migrate, Migrated, CreateTable, ArmImmutability, ArmHalfFence, InstallCapture,
         CaptureSubject, TestCheck, AddCheck, ChecksDone
<1>1. CASE CreateTable \/ ArmImmutability \/ ArmHalfFence
  <2>1. /\ shape' \in Shapes
        /\ shape'.checks = shape.checks /\ shape'.sealed = shape.sealed
    BY <1>1 DEF CreateTable, ArmImmutability, ArmHalfFence, Migrated, Shapes
  <2>2. Standing' /\ migration' \in 1..7 /\ testing' = testing
    BY <1>1, <1>0 DEF CreateTable, ArmImmutability, ArmHalfFence, Migrated, Shapes, Standing
  <2> QED
    BY <1>0, <2>1, <2>2, InstallKeeps
<1>2. CASE InstallCapture \/ CaptureSubject
  <2>1. /\ shape' \in Shapes
        /\ shape'.checks = shape.checks /\ shape'.sealed = shape.sealed
    BY <1>2 DEF InstallCapture, CaptureSubject, Migrated, Shapes
  <2>2. Standing' /\ migration' \in 1..7 /\ testing' = testing
    <3>1. CASE InstallCapture
      BY <1>0, <3>1 DEF InstallCapture, Migrated, Shapes, Standing
    <3>2. CASE CaptureSubject
      BY <1>0, <3>2 DEF CaptureSubject, Migrated, Shapes, Standing
    <3> QED
      BY <1>2, <3>1, <3>2
  <2> QED
    BY <1>0, <2>1, <2>2, InstallKeeps
<1>3. ASSUME NEW c \in Checks, TestCheck(c)
      PROVE  DeploymentInv'
  BY <1>0, <1>3, InstallKeeps DEF TestCheck, Standing
<1>4. ASSUME NEW c \in Checks, AddCheck(c)
      PROVE  DeploymentInv'
  <2>1. shape' = shape \/ (~Offending(c) /\ shape' = [shape EXCEPT !.checks = @ \cup {c}])
    BY <1>4 DEF AddCheck
  <2>2. testing' = NoCheck /\ migration' = migration
    BY <1>4 DEF AddCheck
  <2>3. CASE shape' = shape
    BY <1>0, <2>2, <2>3, InstallKeeps DEF Standing
  <2>4. CASE ~Offending(c) /\ shape' = [shape EXCEPT !.checks = @ \cup {c}]
    <3>1. shape' \in Shapes /\ shape'.checks = shape.checks \cup {c}
          /\ shape'.sealed = shape.sealed /\ shape'.policy = shape.policy
          /\ shape'.rls = shape.rls /\ shape'.default = shape.default
          /\ shape'.guard = shape.guard /\ shape'.fill = shape.fill
      BY <2>4 DEF Shapes
    <3>2. InstalledMeansKept'
      BY <1>0, <2>4, <3>1 DEF Offending, InstalledMeansKept
    <3> QED
      BY <1>0, <2>2, <3>1, <3>2 DEF Standing
  <2> QED
    BY <2>1, <2>3, <2>4
<1>5. CASE ChecksDone
  BY <1>0, <1>5, InstallKeeps DEF ChecksDone, Standing
<1> QED
  BY <1>1, <1>2, <1>3, <1>4, <1>5 DEF Migrate

LEMMA RevertKeeps ==
    ASSUME DeploymentInv, Revert
    PROVE  DeploymentInv'
<1> USE DEF DeploymentInv, DeploymentTypeOK, Reverted
<1>1. CASE RevertCapture
  <2>1. /\ shape' \in Shapes
        /\ shape'.checks = shape.checks /\ shape'.sealed = shape.sealed
    BY <1>1 DEF RevertCapture, Shapes
  <2>2. Standing'
    BY <1>1 DEF RevertCapture, Standing, Shapes
  <2>3. /\ UNCHANGED <<home, trail>> /\ migration' \in 1..7
        /\ testing' \in Checks \cup {NoCheck} /\ script' \in 0..9
    BY <1>1 DEF RevertCapture
  <2> QED
    BY <2>1, <2>2, <2>3, InstallKeeps
<1>2. CASE RevertChecks
  <2>1. shape' \in Shapes
    BY <1>2 DEF RevertChecks, Shapes
  <2>2. DeploymentTypeOK'
    BY <1>2, <2>1 DEF RevertChecks
  <2>3. Standing'
    BY <1>2 DEF RevertChecks, Standing, Shapes
  <2>4. InstalledMeansKept'
    BY <1>2 DEF RevertChecks, InstalledMeansKept, Shapes
  <2> QED
    BY <2>2, <2>3, <2>4
<1> QED
  BY <1>1, <1>2 DEF Revert

LEMMA DecorateKeeps ==
    ASSUME DeploymentInv, Decorate
    PROVE  DeploymentInv'
<1> USE DEF DeploymentInv, DeploymentTypeOK
<1>0. UNCHANGED <<home, trail, migration, testing>>
  BY InstallersLeaveRows
     DEF Decorate, StartScript, Decorated, Seal, AddColumn, SetDefault, DropPolicy, CreatePolicy,
         DropGuard, CreateGuard, DropFill, CreateFill
<1>1. CASE StartScript
  BY <1>1, InstallKeeps DEF StartScript, Standing
<1>2. CASE AddColumn
  <2>1. /\ shape' \in Shapes
        /\ shape'.checks = shape.checks /\ shape'.sealed = shape.sealed
    BY <1>2 DEF AddColumn, Decorated, Shapes
  <2>2. Standing' /\ script' \in 0..9
    BY <1>2, <1>0 DEF AddColumn, Decorated, Shapes, Standing
  <2> QED
    BY <1>0, <2>1, <2>2, InstallKeeps
<1>3. CASE Seal
  <2> DEFINE full == \A i \in DOMAIN trail : trail[i].unit # NoUnit
  <2>1. /\ script = 2 /\ script' = 3 /\ UNCHANGED <<migration, testing, home, trail>>
        /\ shape' = [shape EXCEPT !.sealed = @ \/ full]
    BY <1>3 DEF Seal, Decorated
  <2> HIDE DEF full
  <2>2. /\ shape' \in Shapes /\ shape'.checks = shape.checks
        /\ shape'.sealed = (shape.sealed \/ full)
        /\ shape'.policy = shape.policy /\ shape'.rls = shape.rls
    BY <2>1, Zenon DEF Shapes
  <2>3. InstalledMeansKept'
    BY <2>1, <2>2 DEF InstalledMeansKept, full
  <2> QED
    BY <2>1, <2>2, <2>3 DEF Standing
<1>4. CASE SetDefault \/ DropPolicy
  <2>1. /\ shape' \in Shapes
        /\ shape'.checks = shape.checks /\ shape'.sealed = shape.sealed
    BY <1>4 DEF SetDefault, DropPolicy, Decorated, Shapes
  <2>2. Standing' /\ script' \in 0..9
    <3>1. CASE SetDefault
      BY <1>0, <3>1 DEF SetDefault, Decorated, Shapes, Standing
    <3>2. CASE DropPolicy
      BY <1>0, <3>2 DEF DropPolicy, Decorated, Shapes, Standing
    <3> QED
      BY <1>4, <3>1, <3>2
  <2> QED
    BY <1>0, <2>1, <2>2, InstallKeeps
<1>5. CASE CreatePolicy
  <2>1. /\ shape' \in Shapes
        /\ shape'.checks = shape.checks /\ shape'.sealed = shape.sealed
    BY <1>5 DEF CreatePolicy, Decorated, Shapes
  <2>2. Standing' /\ script' \in 0..9
    BY <1>5, <1>0 DEF CreatePolicy, Decorated, Shapes, Standing
  <2> QED
    BY <1>0, <2>1, <2>2, InstallKeeps
<1>6. CASE DropGuard \/ CreateGuard
  <2>1. /\ shape' \in Shapes
        /\ shape'.checks = shape.checks /\ shape'.sealed = shape.sealed
    BY <1>6 DEF DropGuard, CreateGuard, Decorated, Shapes
  <2>2. Standing' /\ script' \in 0..9
    BY <1>6, <1>0 DEF DropGuard, CreateGuard, Decorated, Shapes, Standing
  <2> QED
    BY <1>0, <2>1, <2>2, InstallKeeps
<1>7. CASE DropFill \/ CreateFill
  <2>1. /\ shape' \in Shapes
        /\ shape'.checks = shape.checks /\ shape'.sealed = shape.sealed
    BY <1>7 DEF DropFill, CreateFill, Decorated, Shapes
  <2>2. Standing' /\ script' \in 0..9
    BY <1>7, <1>0 DEF DropFill, CreateFill, Decorated, Shapes, Standing
  <2> QED
    BY <1>0, <2>1, <2>2, InstallKeeps
<1> QED
  BY <1>1, <1>2, <1>3, <1>4, <1>5, <1>6, <1>7 DEF Decorate

LEMMA NextKeeps == DeploymentInv /\ [Next]_vars => DeploymentInv'
<1> SUFFICES ASSUME DeploymentInv, [Next]_vars
             PROVE  DeploymentInv'
  OBVIOUS
<1>1. CASE UNCHANGED vars
  BY <1>1 DEF vars, DeploymentInv, DeploymentTypeOK, Standing, InstalledMeansKept
<1> QED
  BY <1>1, MigrateKeeps, RevertKeeps, DecorateKeeps, WriteKeeps DEF Next

LEMMA AlwaysDeployment == Spec => []DeploymentInv
BY InitDeployment, NextKeeps, PTL DEF Spec

\* Every reachable state of a deployment is well typed; in particular no row
\* is labelled as if its subject had been gone all along.
THEOREM DeploymentTyped == Spec => []DeploymentTypeOK
BY AlwaysDeployment, PTL DEF DeploymentInv

\* Every row, also one stored before it was installed, keeps each check in
\* place and the seal, whoever writes while they are put there (000400, the
\* decorator).
THEOREM InstalledIsKept == Spec => []InstalledMeansKept
BY AlwaysDeployment, PTL DEF DeploymentInv

-----------------------------------------------------------------------------
(* What gets in.                                                           *)

\* A row that is new was added by one write.
LEMMA NewRowAdded ==
    ASSUME DeploymentInv, [Next]_vars, NEW i \in NewRows
    PROVE  \E client \in Clients, lane \in {"capture", "verb"},
              lives \in Units \cup {NoUnit}, breaks \in SUBSET Checks :
              /\ Admitted(shape, client, UnitOf(client, lane, lives), breaks)
              /\ trail'[i] = AuditRow(client, lane, lives, breaks)
<1>0. DeploymentTypeOK /\ trail \in Seq(TrailRows) /\ Len(trail) \in Nat
  BY DEF DeploymentInv, DeploymentTypeOK
<1>1. Len(trail') > Len(trail)
  <2>1. i \in (Len(trail) + 1)..Len(trail')
    BY DEF NewRows
  <2>2. CASE trail' = trail
    BY <1>0, <2>1, <2>2
  <2>3. ASSUME NEW client, SeederRollback(client)
        PROVE  FALSE
    BY <1>0, <2>1, <2>3, RollbackLeaves
  <2>4. ASSUME NEW client \in Clients, NEW lane \in {"capture", "verb"},
               NEW lives \in Units \cup {NoUnit}, NEW breaks \in SUBSET Checks,
               Added(client, lane, lives, breaks)
        PROVE  Len(trail') > Len(trail)
    BY <1>0, <2>4, AddedType DEF Added
  <2>5. CASE Write
    BY <1>0, <2>3, <2>4, <2>5, WriteAdds
  <2> QED
    BY <2>2, <2>5, InstallersLeaveRows DEF Next, vars
<1>2. PICK client \in Clients, lane \in {"capture", "verb"},
           lives \in Units \cup {NoUnit}, breaks \in SUBSET Checks :
           Added(client, lane, lives, breaks)
  <2>1. CASE Write
    <3>1. ASSUME NEW client, SeederRollback(client)
          PROVE  FALSE
      BY <1>0, <1>1, <3>1, RollbackLeaves
    <3> QED
      BY <1>0, <2>1, <3>1, WriteAdds
  <2>2. CASE ~Write
    BY <1>0, <1>1, <2>2, InstallersLeaveRows DEF Next, vars
  <2> QED
    BY <2>1, <2>2
<1>3. AuditRow(client, lane, lives, breaks) \in TrailRows
  BY <1>0, AddedType
<1>4. trail'[i] = AuditRow(client, lane, lives, breaks)
  BY <1>0, <1>2, <1>3 DEF Added, NewRows
<1> QED
  BY <1>2, <1>4 DEF Added

\* From 000100 on no request gets a row in outside its scope, whatever of the
\* decorator has run or is being run again (the isolation policy).
THEOREM FenceStaysClosed == Spec => FenceNeverOpens
<1>1. ASSUME DeploymentInv, [Next]_vars, migration > 3, NEW i \in NewRows,
             trail'[i].by.role = "app"
      PROVE  trail'[i].unit \in trail'[i].by.scope
  <2>1. PICK client \in Clients, lane \in {"capture", "verb"},
             lives \in Units \cup {NoUnit}, breaks \in SUBSET Checks :
             /\ Admitted(shape, client, UnitOf(client, lane, lives), breaks)
             /\ trail'[i] = AuditRow(client, lane, lives, breaks)
    BY <1>1, NewRowAdded
  <2>2. shape.rls
    BY <1>1 DEF DeploymentInv, Standing
  <2> QED
    BY <1>1, <2>1, <2>2 DEF AuditRow, Admitted, PolicyAdmits
<1>2. DeploymentInv /\ [Next]_vars =>
          [migration > 3 =>
              \A i \in NewRows :
                  LET row == trail'[i]
                  IN  row.by.role = "app" => row.unit \in row.by.scope]_vars
  BY <1>1
<1> QED
  BY <1>2, AlwaysDeployment, PTL DEF Spec, FenceNeverOpens

\* Once the decorator has come as far as its guard, what gets in has a company
\* or branch unit, but for the moment a re-run has dropped the guard
\* (audit_trails_org_unit_kind_guard).
THEOREM RealUnits == Spec => UnitsAreReal
<1>1. ASSUME DeploymentInv, [Next]_vars, script # 7, shape.fill \/ script \in {8, 9},
             NEW i \in NewRows
      PROVE  trail'[i].unit \in OrgUnits
  <2>1. PICK client \in Clients, lane \in {"capture", "verb"},
             lives \in Units \cup {NoUnit}, breaks \in SUBSET Checks :
             /\ Admitted(shape, client, UnitOf(client, lane, lives), breaks)
             /\ trail'[i] = AuditRow(client, lane, lives, breaks)
    BY <1>1, NewRowAdded
  <2>2. shape.guard
    BY <1>1 DEF DeploymentInv, Standing
  <2> QED
    BY <2>1, <2>2 DEF AuditRow, Admitted, GuardAdmits
<1>2. DeploymentInv /\ [Next]_vars =>
          [script # 7 /\ (shape.fill \/ script \in {8, 9}) =>
              \A i \in NewRows : trail'[i].unit \in OrgUnits]_vars
  BY <1>1
<1> QED
  BY <1>2, AlwaysDeployment, PTL DEF Spec, UnitsAreReal

\* A captured row is labelled with the unit its row lives in, or with the
\* acting one if it lives in none (capture_data_change,
\* audit_trails_org_unit_fill).
THEOREM LabelsAreHomes == Spec => LabelsWhereRowLives
<1>1. ASSUME DeploymentInv, [Next]_vars, NEW i \in NewRows,
             trail'[i].lane = "capture", shape.capture = "subject"
      PROVE  \/ trail'[i].unit = trail'[i].home
             \/ trail'[i].home = NoUnit /\ trail'[i].unit = trail'[i].by.acting
  <2>1. PICK client \in Clients, lane \in {"capture", "verb"},
             lives \in Units \cup {NoUnit}, breaks \in SUBSET Checks :
             trail'[i] = AuditRow(client, lane, lives, breaks)
    BY <1>1, NewRowAdded
  <2> QED
    BY <1>1, <2>1 DEF AuditRow, UnitOf, Filled, Proposed
<1>2. DeploymentInv /\ [Next]_vars =>
          [\A i \in NewRows :
              LET row == trail'[i]
              IN  row.lane = "capture" /\ shape.capture = "subject" =>
                      \/ row.unit = row.home
                      \/ row.home = NoUnit /\ row.unit = row.by.acting]_vars
  BY <1>1
<1> QED
  BY <1>2, AlwaysDeployment, PTL DEF Spec, LabelsWhereRowLives

-----------------------------------------------------------------------------
(* What is let through.                                                    *)

\* The system path writes rows that live in a unit at any stage, and a
\* rightful request writes whatever is its own once the decorator has been
\* through, but for the moments when the policy or the fill is dropped: the
\* trail takes no business write down that is in order (capture_data_change,
\* audit_trails_org_unit_fill).
THEOREM RightfulPass == Spec => []RightfulWritesPass
<1>1. ASSUME DeploymentInv
      PROVE  RightfulWritesPass
  <2>1. ASSUME NEW client \in Clients, NEW unit \in OrgUnits, client.role = "owner",
               shape.capture = "subject"
        PROVE  Passes(client, "capture", unit)
    <3>1. unit # NoUnit
      BY UnitAssumption DEF Units
    <3>2. UnitOf(client, "capture", unit) = unit
      BY <2>1, <3>1 DEF UnitOf, Filled, Proposed
    <3> QED
      BY <2>1, <3>1, <3>2 DEF Passes, Admitted, GuardAdmits, PolicyAdmits
  <2>2. ASSUME NEW client \in Clients, NEW lives \in Units \cup {NoUnit},
               Rightful(client, lives), shape.fill, script # 5,
               NEW lane \in {"capture", "verb"}
        PROVE  Passes(client, lane, lives)
    <3>1. shape.default /\ shape.policy
      BY <1>1, <2>2 DEF DeploymentInv, Standing
    <3>2. client.acting # NoUnit
      BY <2>2, UnitAssumption DEF Rightful, Units
    <3>3. UnitOf(client, lane, lives) \in OrgUnits \cap client.scope
      BY <2>2, <3>1, <3>2 DEF UnitOf, Filled, Proposed, Rightful
    <3>4. UnitOf(client, lane, lives) # NoUnit
      BY <3>3, UnitAssumption DEF Units
    <3> QED
      BY <3>1, <3>3, <3>4 DEF Passes, Admitted, GuardAdmits, PolicyAdmits
  <2> QED
    BY <2>1, <2>2 DEF RightfulWritesPass
<1> QED
  BY <1>1, AlwaysDeployment, PTL
=============================================================================
