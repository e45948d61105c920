# A TLA+ model of backbone-auditlog

`backbone-auditlog` keeps the central, append-only audit trail of the services
composed from it: one row of `auditlog.audit_trails` per audited change or
refusal, written in the transaction that made the change. This directory models
the module in TLA+, checks the models with TLC and proves their safety properties
with TLAPS. Paths below are relative to the root of the repository.

## 1. The system

| Component | State | Operations | Source |
|---|---|---|---|
| Trigger lane | the audited table, the trail | `auditlog.capture_data_change()`, attached AFTER INSERT/UPDATE/DELETE FOR EACH ROW | `migrations/20260911000200_*`, `20260911000300_*` |
| Verbs | the trail | `append`, `log_event`, `log_refusal`, `log_security_edge`; `log_event_scoped`, `log_refusal_scoped` | `src/application/service/audit_trail_service_custom.rs` |
| Append-only enforcement | the trail | a BEFORE UPDATE OR DELETE trigger that raises | `migrations/20260911000000_*` |
| History read | none | `is_audited`, `history(table, id, limit, offset)`, against tables and triggers that change | `audit_trail_service_custom.rs:274-367` |
| Request scope | session settings of pooled connections | open scope, bind actor, scoped statements, reset, close | used in `tests/audit_trail_semantics.rs:313-382` |
| Migrations, declared checks | the table's constraints, triggers, columns | up migrations in order, the down migrations of the capture function | `migrations/` |
| Tenancy decorator, fence | column, seal, default, policy, guard, fill | a re-runnable script of the composing service | `tests/fixtures/composition/` |
| Row rules | none | `AuditTrailRowRules::check`, `apply_patch`, `apply_update` | `audit_trail_service.rs`, `audit_trail.rs`, `audit_trail_dto.rs` |
| Pagination | none | `offset`, `limit`, `total_pages`, `has_next`, `has_prev` | `domain/repositories/audit_trail_repository.rs`, `audit_trail_dto.rs` |
| Seeders | the trail | `should_run`, `run` (an empty script), `rollback` | `seeders/` |
| Routes, permissions, builders | what a host mounts, what callers are granted | `AuditlogModule::builder`, its routers, the exported route functions, the token layer, the entity builder | `lib.rs`, `presentation/http`, `domain/entity/audit_trail.rs` |
| Exports, events, metadata | none | types and re-exports | `exports`, `domain/event`, `domain/entity/mod.rs` |

The trigger and the verbs run inside the caller's transaction and meet in one
table. Both read who acts, and for which request, from session settings
(`app.actor`, `app.correlation_id`, ...), which the host sets per request on a
connection dedicated to it. On the way into the table a row passes the column
default, the fill trigger, the kind guard, the row-level policy, NOT NULL and
the declared CHECK constraints; if any of them refuses it, the statement fails
and takes the business write with it. Readers see what the policy lets them.

What is hard: transactions interleave, and the trail is ordered by the time
they *began*; a statement writes many rows and a refusal of one of their audit
rows undoes all; a crash or rollback must take audit and business rows
together; settings outlive the statement that made them on pooled connections;
migrations and the decorator run against a live table that can never be
repaired, because nothing in it may be changed; the trail knows tables and rows
by name, and both are renamed, dropped and created anew; and a host chooses
among a dozen functions which ways into the trail it opens.

## 2. The modules

| Module | Models |
|---|---|
| `AuditEntries` | the data: row images, diffs, entries, attribution, the declared checks, and `Tells(base, entries, image)`, which says that a list of entries leads from one image of a row to another |
| `AuditLedger` | the abstract specification: a table and a trail that change together, one transaction a step, with entries under one id and one time that tell the change |
| `AuditCapture` | the core: sessions, READ COMMITTED transactions with row locks, the trigger, the verbs, immutability, commit, rollback, crash |
| `AuditHistory` | `AuditCapture` with a reader that pages through one row's history while transactions commit |
| `AuditFence` | what becomes of a row's org unit on its way into the trail, and what refuses it; no state |
| `AuditDeployment` | migrations and decorator, statement by statement, with sessions writing all the while |
| `AuditTab` | a history asked for while its table is renamed, dropped, re-created, its trigger switched and its rows change their keys |
| `AuditScope` | requests on a bounded connection pool, the scoped verbs and reads, and writers outside any request |
| `AuditRecord` | a record through the generated service: DTO or patch, row rules, constraints, immutability; its actions are put together in `AuditSurface` |
| `AuditSurface` | `AuditRecord` behind the ways into it that a host assembles: routers, permissions, guarded and bare services, the entity builder |
| `AuditPages` | the pagination arithmetic, in numbers that wrap and a count of pages that saturates |
| `AuditCapture_proofs`, `AuditLedger_proofs`, `AuditHistory_proofs`, `AuditTab_proofs`, `AuditDeployment_proofs`, `AuditScope_proofs`, `AuditSurface_proofs`, `AuditPages_proofs` | the proofs |
| `MCAuditCapture`, `MCAuditHistory`, `MCAuditDeployment`, `MCAuditSurface` | definitions for the small instances |

### State and actions against the code

*`AuditCapture`.* `table` is the audited table, `trail[q]` the committed
entries about subject `q` in the order written. A transaction has its start
time (`NOW()` in both INSERTs), its id (`txid_current()`, assigned by its first
write), its audit settings, the row images it has written (`own`) and the
entries it has inserted (`pending`). A row in `own` of an open transaction is
locked. `Insert`, `Update` and `Delete` are statements over one row or a set of
rows; `Write` runs the trigger for each row (`Captures`) and either records all
the entries or aborts the transaction because a declared check refuses one.
`LogEvent` is a verb given the transaction, `LogAlone` a scoped verb or a verb
given a pool. `RewriteTrail` is an UPDATE or DELETE of a trail row, a
committed one or one of the transaction's own: it aborts. `Commit` publishes rows
and entries together; `Rollback`, `Fail` and `Crash` drop them together. The
transactions are PostgreSQL's and are modelled from how this code relies on them.

`Ledger` is `AuditLedger` with the committed table and trail for its own: the
sessions, locks, ids and pending rows of `AuditCapture` are hidden.

Abstractions: a value is a member of a small set; `Unfit` stands for every text
a CHECK rejects, in an actor, an action or another setting; the entries of
other tables share the subject `NoSubject`; keys change in `AuditTab` only. A
caller's own diff in `AuditEvent.changed` is stored as given, whether or not it
happened. `log_event` takes any lane and any action, so a service may audit a
write of its own as a `data_change` named `insert`, `update` or `delete`, as
`tests/audit_trail_semantics.rs:130-150` does, and the model's services may too:
no column of such a row tells it from one of the trigger's. Which of the two
wrote an entry is therefore a history field, `by`, that only properties read.
`TrailTellsTable`, `DiffsChain` and the ledger are about the entries the trigger
wrote, among whatever services logged in between; `AsRead` is what a reader makes
of the columns alone, and what is true of that is `ColumnsTellTable`, for rows
about which no service signs as the trigger does, and not `LaneTellsTable`. The
two lanes fall back alike on the system as actor. Time is the number of
transactions begun, so two transactions never begin at the same time; entries tie
within a transaction only.

*`AuditHistory`.* `Query` gives every answer that `ORDER BY occurred_at DESC
LIMIT OFFSET` may give: ties come in any order, and not in the same one in every
statement. `ReadPage` is one statement. `ended` is a history variable, the time
each committed transaction ended.

*`AuditTab`.* `name`, `trigger` and `live` are the owner's tables: what each is
called, whether its trigger is attached and enabled, the keys of its rows.
`Create`, `Rename`, `Drop`, `Attach`, `Switch` (ENABLE or DISABLE TRIGGER),
`Detach`, `InstallFunction` and `DropFunction` (the migration up and down) are
statements of the owner; PostgreSQL keeps a trigger on its table through a
rename and refuses to drop a function that a trigger calls. `Change` is an
INSERT, DELETE or change of key, recorded under the key of the new image;
`Truncate` fires no trigger. `IsAudited` and `ReadRows` are the two statements
of `history`, with anything between them. Every action is one committed
statement, since overlapping transactions are `AuditCapture`'s subject. A table
in `Tables \ Keyed` was given a wrong column name, and its entries have no id.
`wanted`, `told` and `touched` are history variables.

*`AuditDeployment`.* `shape` says what is installed, `migration` and `script`
where the migrations and the decorator are. The decorator is applied with
`psql -f` (`tests/decorated_composition_probe.rs:25-29`): each statement is a
transaction of its own, an error does not stop the script, and DROP and CREATE
of a policy or trigger are two statements. In the block of a declared check,
`TestCheck` and `AddCheck` are two steps, because a row can be committed between
them. `Revert` runs down migrations, last one first, as far as they go while a
table is audited: that of 000200 is refused (`AuditTab`). Writers (`WriteRow`,
`LogVerb`, `SeederRollback`) run one committed transaction a step under the
guards of `AuditFence`. Before the trail is armed the seeder's rollback deletes
the rows its session sees and leaves the others. A stored row also records who
wrote it and where the audited row lives, to say what its label should be.

*`AuditScope`.* `actor[c]` and `fence[c]` are the two halves of a connection's
settings. `Route` is the scoped helpers of the framework: the dedicated
connection if there is one. `is_audited` uses the helper of `company_scope`, the
other statements that of `org_scope`; they are taken to find the same
connection, as `audit_trail_service_custom.rs:281-284` says. A request that
panics or is cancelled before it resets its actor is not modelled: what the
framework then does with the connection is not in this repository.

*`AuditRecord`.* A text is its length and whether it is blank. The limits are
copied from the two files that state them, `RuleMax` from the service and
`ConstraintMax` from the migration, and compared by what a create comes to.
Create, update and patch take `guarded`: whether the service has the row rules,
which in `AuditSurface` depends on who made it. `last` is what the last call of a
service came to.

*`AuditSurface`.* `mounted` is what the host serves: a group of routes, the
service behind them and whether a token layer is around them. `MountModule` is
the module's builder with one of its routers, `MountOwn` an exported route
function, `MountProtected` the protected composition. `Routes` are the fifteen
routes the handler lists (the comment above them says sixteen), `Needs` which of
the six permissions each asks for, and `Granted` what callers hold. `Post`,
`Put`, `Amend` and `Remove` are the requests that are served; `Answer` is a read,
and every request that is turned away, by the layer, for want of a route or of
the permission: the four answers are not told apart. `origin` records by which way
each stored row came. `Save` is the entity builder followed by a save through the
repository, past the rules; `Emit` is the trigger and the verbs.

The handlers are the framework's. A bulk is taken to create its records one by
one, each held to the rules of a create, and may stop after any of them; an upsert
is a create or an update, for which either permission is taken to do. Nothing here
is deleted softly, so `restore`, `empty` and `purge` find an empty trash and change
nothing, and `delete` is refused by the immutability trigger. That the routes
ask for the caller's permission, and that two mounts of one route collide, is
taken from how this code declares its permissions and merges its routers.

## 3. The runs

| Run | Question | Instance | States |
|---|---|---|---|
| `capture_batches` | `TrailTellsTable`, `DiffsChain`, `AppendOnly`, `ImplementsLedger`: does the trail reconstruct the table, whatever interleaves or fails | 2 sessions, 2 rows, 1 field, 3 transactions of 2 entries | 400 thousand |
| `capture_verbs` | `TypeOK`, `TxidsNameOneFate`, `ColumnsTellTable`: verbs in and out of transactions, unfit contexts, data changes and diffs of the callers' own | 2 sessions, 1 row, 2 fields, 2 transactions | 1 million |
| `history_paging` | `HistoryTypeOK`, `RealTimeOrder`, `PagingSkipsNothing` | 2 sessions, 1 row, 3 transactions, pages of 2 | 450 thousand |
| `history_tab` | `TabTypeOK`, `TrailTellsKeys`, `EmptyMeansUntouched`, `NoneMeansUnaudited`, `WantedMeansRecorded`: what a history says of a table that changes | 2 tables, 2 names, 2 keys, 2 entries, 3 statements of the owner | 740 thousand |
| `deployment` | `DeploymentTypeOK`, `InstalledMeansKept`, `RightfulWritesPass`, `LabelsWhereRowLives`, `FenceNeverOpens`, `UnitsAreReal`, `MigrationsFinish`: what gets in, what is kept out and what is let through at every stage | 5 kinds of session, 2 tables, 1 check, 2 trail rows | 190 thousand |
| `request_scope` | `ScopeTypeOK`, `HonestAttribution`, `ReadUnderOwnFence`, `NeverStuck`, `RequestsFinish` | 3 requests on 2 connections | 9 thousand |
| `surface` | `SurfaceTypeOK`, `RulesCoverConstraints`, `BuiltServiceKeepsRules`: at and around every limit, by every way in | every assembly of mounts, 3 callers, 11 text columns of which one varies, 1 row | 21 thousand |
| `pages` | `PagesTypeOK`, `WalkListsAll`, `PageIsSlice` | 16 page numbers, up to 18 rows, pages of up to 5 | 7 thousand |
| `newest_first` | `NewestFirst`, violated | as `history_paging` | |
| `decorator_rerun` | `DecoratorConverges`, violated | 2 sessions, 1 trail row | |
| `impersonated` | `LaneTellsTable`, violated | 2 sessions, 1 row, a service that signs as the trigger | |
| `over_http` | `NeverOverHttp`, violated | as `surface`, with one column | |

**Bounds.** `MaxTx` and `MaxEntries` bound the transactions begun and the
entries each adds. Three transactions are what it takes for one to begin before
another and write after it while a third deletes or re-inserts the row; two
entries let one transaction change a row twice or a batch span two rows, and two
pages of two let a commit fall between pages and a tie across their boundary.
In `AuditTab`, `MaxDDL` statements of the owner let a table be dropped and
another take its name, or a trigger be switched off and on, between `is_audited`
and the rows; `MaxTrail` entries let a row be inserted and change its key.
`MaxRows` bounds the trail of a deployment: one row that offends and one that
does not. `MaxOutside` bounds the writes outside requests, `MaxStored` the rows
of `AuditSurface`, one since each is stored or refused by itself; `Probed` bounds the
columns that vary, one at a time: all of them in `surface`. In `AuditPages`, `Wrap`
stands for the 2^32 numbers of a `u32`, and `MaxTotal` goes beyond it, so that
offsets wrap and the number of pages is cut off within the bounds: `PageIsSlice`
and `WalkListsAll` say by their premises how far the code's promise reaches.
The runs with bounds stop when they are used up, so their deadlock check is
off; `request_scope`, `surface` and `pages` check for deadlock.

**Symmetry** among the two sessions is used in the capture and history runs,
whose properties treat sessions alike; no liveness property is checked with it.

**Fairness.** The capture and history specifications have none. `FairSpec` of
`AuditDeployment` says that whoever deploys carries the migrations on while they
can be, and keeps running the decorator; nothing makes anyone write, and
`MigrationsFinish` supposes that reverting ends some day. In
`AuditScope` a request keeps running (weak fairness), and a connection that is
free again and again is given to each request that waits (strong fairness): the
pool queues its waiters in order.

### What the violations show

* `newest_first`. "Newest first: a history tab is read from the top"
  (`audit_trail_service_custom.rs:329`). The query sorts by `occurred_at`, which
  is the start of the writing transaction. A transaction that began first and
  wrote last is listed below the one it overwrote. What does hold is
  `RealTimeOrder`: an entry whose transaction had ended before another began is
  never above it.
* `decorator_rerun`. "a partially-applied file converges on re-run"
  (`20260910180903_tenancy_auditlog.up.sql:5-6`). It does not once a row without
  a unit is stored: the trail is append-only, the seal raises on every run.
* `impersonated`. "Data-change rows are the OTHER lane (the generator's audit
  triggers), not these verbs" (`audit_trail_service_custom.rs:6-7`). The verbs take
  `data_change` and any action from a service that audits a write of its own
  (lines 56-60; `tests/audit_trail_semantics.rs:130-150` logs such an `insert`). A
  reader who replays the lane of data changes takes the service's diff for one the
  trigger captured. `ColumnsTellTable` says when that cannot happen.
* `over_http`. "Audit rows are appended through the verbs or the trigger lane —
  never through the HTTP surface" (`README.md:109-111`). That is so of the
  module's own routers. The crate also exports `create_audit_trail_routes`,
  `create_audit_trail_write_routes` and the protected composition, and a host
  that mounts one of these stores what a caller with the permission sends.

**Re-runs of the decorator.** Each run drops policy, guard and fill and creates
them again in a second statement (lines 33-34, 57-58 and 75-76), and writers meet
a table that lacks one. The properties of `deployment` say what each window lets
through. Without the policy nothing foreign gets in, for row security that is
forced denies where there is none (`FenceNeverOpens` has no exception), but no
request gets anything in either, its business writes included
(`RightfulWritesPass` leaves that moment out). Without the guard a unit of
another kind gets in, to stay (`UnitsAreReal` leaves out that moment and no other). Without the fill a write that needs the acting unit is refused by guard or
policy. A host that runs the script in one transaction has none of these windows.

## 4. The proofs

All are checked by TLAPS for every value of the constants. They rest on the
named assumptions of the modules and on nothing else: of `AuditEntries` that
`Null` is no value, `Absent` no image, `NoSubject` no row, that `System`,
`Unset` and `Unfit` are no names;
of the other modules that bounds are numbers, that names standing
for nothing (`NoName`, `NoKey`, `NoConn`, `NoUnit`, ...) are apart from the rest,
that calls and clients are of their kinds and that the pool is not empty.

*The core* (`AuditCapture_proofs`, `AuditLedger_proofs`).

* `TypeCorrect`: `Spec => []TypeOK`. By induction, one step per action. Its
  substance is that an entry that reaches the trail has a real actor and
  action: the checks decide before an entry is recorded.
* `TrailOnlyGrows`: `Spec => AppendOnly`. From the type invariant: the only
  actions that change `trail` append to it.
* `TrailIsTheTruth`: `Spec => []TrailTellsTable`, with nothing assumed of what
  services log. `TrailTellsTable` is not
  inductive. `ReplayInv` adds what holds of open transactions: a row they have
  written is written by no other (`RowsLocked`), about rows they have not
  written they have recorded nothing captured (`UnwrittenQuiet`), and the entries
  pending about a row lead from its *committed* image to their own
  (`WrittenTold`). The lock is what keeps the committed image from moving under
  a pending entry; commit then concatenates two lists that lead from nothing to
  the committed image and from there to the new one. `AuditCapture_proofs` holds
  the lemmas about lists of entries: what they tell when concatenated
  (`ToldConcat`, `TellsConcat`), extended by the trigger (`TellsCapture`) or by a
  verb, whatever its diff (`TellsVerb`).
* `ColumnsTell`: `Spec => []ColumnsTellTable`. `SignInv` says that about a row no
  service impersonates the trigger about, every entry, pending or committed, has
  the trigger's columns exactly if the trigger wrote it (`RowsSigned`); such a list
  reads as it was written (`SignedReads`), and `ReplayInv` does the rest.
* `TxidsAreFates`: `Spec => []TxidsNameOneFate`. `StampInv` follows an id from
  where it is handed out to the trail: a session without a transaction has none
  (`IdleBare`), no two sessions share one and none is above the last
  (`XidsApart`), pending entries carry their transaction's id and start
  (`PendingStamped`), committed ones an id that is not open (`TrailStamped`), and
  entries of one id agree on their start (`OneStart`).
* `DiffsAreAChain`: `Spec => []DiffsChain`. `ChainInv` adds to `ReplayInv` that
  the entries pending about a row chain from its committed image
  (`PendingChained`); `ChainedConcat` joins them to the trail at commit.
* `CaptureIsALedger`: `Spec => ImplementsLedger`, the refinement. A commit that
  records something is a ledger `Commit` of all of it, with the images it leads
  to; one that records nothing changes no row either
  (`NothingToldNothingChanged`, from `ReplayInv`), hence a stutter. A verb outside a
  transaction is a `Commit` that leaves the rows alone. Every other step is a
  stutter. That all entries of a commit carry one id and one time, and an id no
  entry had before, is `StampInv`.
* `LedgerTells`: `ImplementsLedger => [](TrailTellsTable /\ OneStart)`, and
  `LedgerOnlyGrows`: `ImplementsLedger => AppendOnly`. These are about the
  abstract specification alone and show that it is no weaker than what is wanted
  of it: whatever keeps it, with sessions or without, has a trail that grows
  only, tells the table and has one start for each id. `PrefixSplit` turns "the
  old trail is a prefix of the new one" into the concatenation that `TellsConcat`
  is about. `DiffsChain` is not among these: the ledger says what a transaction's
  entries lead to, not that each of them picks up where the last left off.

*History pages* (`AuditHistory_proofs`). `HistoryTypeCorrect`,
`PagesFollowRealTime`, `PagingIsComplete`: `HistoryTypeOK`, `RealTimeOrder` and
`PagingSkipsNothing`, for any page size and any number of transactions; and
`ReadersDisturbNothing`: `HistorySpec => Spec`, so what is proved of the core
holds while it is read.

* The places. `ORDER BY ... DESC` puts an entry below all that occurred later
  and above all that occurred earlier, and the lemmas say so of cardinalities:
  of two entries listed, the upper did not occur before the lower
  (`PlacesSorted`, hence `PageSorted`), and nothing stands in the place of an
  entry that ties with no other (`AloneCount`, `PlaceOfAlone`).
* Real time. `HistoryInv` adds to `StampInv` that no open transaction and no
  entry is later than the clock (`StartsPast`, `EntriesPast`), that exactly the
  ids in the trail have an end (`EndedCommitted`), and that an entry occurred no
  later than its transaction ended (`EndedAfterStart`). With `PageSorted`:
  if i stands above j, j began no later than i, and i no later than it ended.
* Completeness. `KeepsPlace` is the invariant of the walk: an entry known from
  the first page that ties with no other has been seen or lies at or below the
  place where the next page starts. A commit moves entries down and never up,
  since the trail only grows; a page that lists the place of such an entry lists
  the entry (`PageHolds`); and a page that is not full ends past the last place.

*History tab* (`AuditTab_proofs`).

* `TabTyped`, `KeysAreTold`: `[]TabTypeOK` and `[]TrailTellsKeys`, from `TabInv`,
  which adds that what is wanted is what is enabled (`WantedIsOn`) and that a
  table that does not exist has no trigger and is not told of (`GoneIsBare`).
* `AuditedIsNeverDenied`: `NoneMeansUnaudited`, with `Unanswered`: a request
  being served has no answer yet.
* `EmptyIsUntouched`: `EmptyMeansUntouched`, with `TouchedIsListed`: what is
  listed is empty until the key is touched. It holds in every state, which is
  why nothing between the two statements of a history can break it.
* `TriggersRecord`: `WantedMeansRecorded`.

*Deployment* (`AuditDeployment_proofs`). `DeploymentTyped`, `InstalledIsKept`,
`FenceStaysClosed`, `RealUnits`, `LabelsAreHomes` and `RightfulPass` state the
type invariant and the five safety properties of the `deployment` run.
`DeploymentInv` is the type invariant, `InstalledMeansKept`, and `Standing`: row
security is on from the fourth migration, and what the decorator installs stands
from the statement that creates it, through the ends of runs and into the next
one, up to the statement that drops it; the fill is last, so where it is the rest
is. `InstallersLeaveRows`, `WriteRowAdds` and `RollbackLeaves` reduce every step
to one that leaves the rows alone, drops some or adds one that passed what was
installed, and `NewRowAdded` says of an added one who wrote it and under which shape.

*Requests* (`AuditScope_proofs`). `AttributionIsHonest`: `[]HonestAttribution`,
`HistoryIsFenced`: `[]ReadUnderOwnFence`, `ScopeTypeCorrect`: `[]ScopeTypeOK`.
The first two say nothing of connections, so neither is inductive. `ScopeInv` adds what connections carry: a
free one nothing of anybody (`CleanWhenFree`), a held one its request's fence all
along and its actor from `BindActor` until `ResetActor` (`OwnWhenHeld`). A scoped
statement runs on the request's own connection (`RoutedToOwn`); without
`ResetActor` the step that gives a connection back does not prove.
`NoRingOfWaiters`: `[]NeverStuck`, the safety half of `RequestsFinish`, for a pool
of any size: a request inside its scope goes on with its own connection, and
while none is inside, every connection is free.

*Records and surface* (`AuditSurface_proofs`). `SurfaceTypeCorrect`,
`RulesCover` and `BuiltKeepsRules`: the three invariants of the `surface` run.
Together they are inductive (`SurfaceInv`). `RulesCover` rests on
`SameLimits`, which compares the limits of the service with those of the migration,
and `RulesAreConstraints`: what breaks no rule breaks no constraint. `ServiceCreates`
says what a create through a service does, `RowMore` what one more row, with
its origin, leaves true. A draft of the entity builder that is complete is a record
(`CompleteIsRecord`).

*Pagination* (`AuditPages_proofs`). `PagesTypeCorrect`, `WalkIsComplete`,
`PageListsItsSlice`: `PagesTypeOK`, `WalkListsAll` and `PageIsSlice`, for any width
of the numbers, number of rows and page size. `WalkedSoFar`, in `PagesInv`, says
that after page p the walk has listed the rows up to p pages or the last row. The
arithmetic is in lemmas of its own (`Quotient`, `Remainder`, `PagesCoverRows`: the
ceiling is the first number of pages that covers the rows).

Model-checked only: liveness (`MigrationsFinish`, `RequestsFinish`), which needs
fairness and ENABLED, and these the prover does not handle. The other invariants
and action properties of the passing runs are all proved.

## 5. What is not modelled

* The framework (`backbone_core`, `backbone_orm`): generic service, repository,
  handlers, scope wrapper, middleware, filters. It is not in this repository;
  where the code leans on it, the models take what the code says of it and
  mark it as external. That the row rules treat a null length as satisfied, like
  SQL, is its helper's. What it does with the connection of a request that
  panics or is cancelled before it resets its actor is not in this repository.
* Exports and events (types nothing publishes), `AuditMetadata` and the `Entity`
  trait (no entity here has metadata), response and summary DTOs (copies), the
  mapping of `AuditTrailError` to HTTP statuses and codes.
* The row the permission migration seeds in `public.permissions`: its effect is
  `Granted`, the texts are not a matter of state. A second run updates the
  description, whatever a tenant has made of it.
* The down migrations before that of 000200, which only a deployment without
  an audited table can reach, and the drop of the trail itself.
* TRUNCATE of the trail itself. The header of migration 000000 says that a row is
  "never deleted, by anything", for "every role, owner included"; a row trigger
  on UPDATE and DELETE does not see the owner's TRUNCATE. No statement of this
  repository runs one, and `AppendOnly` is about those it runs.
* The recursion guard of the capture function, for a trigger attached to the
  trail itself, and the decorator's deny-by-default event trigger, which is
  about tables created later.
* Two seeders run at once: `should_run` counts rows, and `run` executes a script
  without statements.

* What readers of a row's old unit no longer see when it moves: the label is the
  new home (`LabelsWhereRowLives`), by design, and the policy on reads is in no
  model of a history. A history page may lack rows for the same reason
  (`audit_trail_service_custom.rs:281-284`).

Some comments and tests say other than the code does, of which a run would show
no more than a reading:

* `lib.rs:63-67` promises all CRUD endpoints, unguarded, where
  `all_crud_routes` mounts the read routes only, behind the permission.
  `AuditSurface` models the code.
* The generated CRUD tests (`tests/integration/tests/crud_test_base.rs`) POST
  without a token and expect 201 (150-165), and PUT and DELETE and expect 200
  (181-205). The code's routes ask for the caller's permission, a POST is
  served only by exported write routes behind a layer, and the immutability
  trigger refuses every update and delete (`AppendOnly`).
* "In request lanes the two sources agree" (`20260911000300_*.up.sql:17-18`):
  the policy admits every unit of `app.scope_unit_ids`, so a request entitled to
  two units can write a row of the one it does not act for, and the label is then
  the row's unit (`LabelsWhereRowLives`).
* The down migration of 000200 (lines 2-3) says that writes of tables whose
  triggers call the function would fail loudly; PostgreSQL refuses to drop it
  while there is such a trigger (`DropFunction`, `TabTypeOK`).

## 6. Plan

Done, in this order: `AuditEntries`, `AuditLedger`, `AuditCapture` with two runs
and its theorems, the refinement among them; `AuditHistory`; `AuditFence` and
`AuditDeployment`; `AuditScope`; `AuditRecord`; `AuditPages`; `AuditTab`;
`AuditSurface`; the theorems of all of these; what the ledger implies by itself.

Left:

1. Model: a fenced history reader, `AuditHistory` under the policy of
   `AuditFence`, where rows of other units drop out of the pages.
2. Refinement: the history tab against an abstract reader that is shown a
   sorted, growing trail, with the walk's completeness stated of that reader.
