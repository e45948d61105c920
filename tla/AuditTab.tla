------------------------------ MODULE AuditTab ------------------------------
(***************************************************************************)
(* The history tab of a service whose tables change under it.  The owner   *)
(* creates, renames and drops tables, attaches, disables and detaches the  *)
(* capture trigger, and reverts the capture function, while rows come, go  *)
(* and change their keys and readers ask for histories.  A history is      *)
(* asked for in two statements: is_audited, and the rows if it says so.    *)
(* The trail knows a table by its name and a row by its key, as text.      *)
(*                                                                         *)
(* Each change is one committed statement: DDL locks the table it changes. *)
(* Of a row only its key matters here: an UPDATE that keeps the key is     *)
(* AuditCapture's, and left out.                                           *)
(***************************************************************************)
EXTENDS Naturals, Sequences

CONSTANTS
    Tables,    \* the tables the owner may create
    Keyed,     \* those whose trigger is given the name of the key's column
    Names,     \* schema-qualified table names
    NoName,    \* the name of a table that does not exist
    Keys,      \* primary keys, as text
    NoKey,     \* JSON null
    TabName,   \* the history asked for: its table ...
    TabKey,    \* ... and row
    MaxTrail,  \* bound: entries in the trail
    MaxDDL     \* bound: the owner's statements

ASSUME TabAssumption ==
    /\ NoName \notin Names /\ NoKey \notin Keys
    /\ Keyed \subseteq Tables
    /\ TabName \in Names /\ TabKey \in Keys
    /\ MaxTrail \in Nat /\ MaxDDL \in Nat

VARIABLES
    function,  \* whether auditlog.capture_data_change() exists
    name,      \* what each table is called
    trigger,   \* its capture trigger
    live,      \* the keys of its rows
    trail,     \* the entries, in the order written
    ddl,       \* how many statements the owner has run
    tab,       \* the request for a history being served, and its answer
    wanted,    \* history: its owner has attached its trigger and left it on
    told,      \* history: all its changes, and no others, are under its name
    touched    \* history: a row of it has had the key TabKey

tables     == <<name, trigger, live>>
histories  == <<wanted, told, touched>>
vars       == <<function, tables, trail, ddl, tab, histories>>

Attached(t) == trigger[t] # "none"

\* from and to are the two sides of the key's column in the diff.
Entries == [type : Names, id : Keys \cup {NoKey}, from : Keys \cup {NoKey}, to : Keys \cup {NoKey}]

TabTypeOK ==
    /\ function \in BOOLEAN
    /\ name    \in [Tables -> Names \cup {NoName}]
    /\ trigger \in [Tables -> {"none", "enabled", "disabled"}]
    /\ live    \in [Tables -> SUBSET Keys]
    /\ trail   \in Seq(Entries) /\ Len(trail) <= MaxTrail
    /\ ddl     \in 0..MaxDDL
    /\ tab     \in [asks   : {"nothing", "is_audited", "rows"},
                    answer : {"nothing", "none", "error", "some"},
                    rows   : SUBSET DOMAIN trail]
    /\ wanted  \in [Tables -> BOOLEAN]
    /\ told    \in [Tables -> BOOLEAN]
    /\ touched \in [Tables -> BOOLEAN]
    \* A name names one table, and what a trigger calls exists.
    /\ \A s, t \in Tables : name[s] = name[t] /\ s # t => name[s] = NoName
    /\ \A t \in Tables : Attached(t) => function

NoTab == [asks |-> "nothing", answer |-> "nothing", rows |-> {}]

Exists(t) == name[t] # NoName

\* The module's migrations have run, and the service has created some of its
\* tables, still empty, and attached the trigger to some of those.
Init ==
    /\ function = TRUE
    /\ name \in [Tables -> Names \cup {NoName}]
    /\ \A s, t \in Tables : name[s] = name[t] /\ s # t => ~Exists(s)
    /\ trigger \in [Tables -> {"none", "enabled"}]
    /\ \A t \in Tables : Attached(t) => Exists(t)
    /\ live    = [t \in Tables |-> {}]
    /\ trail   = << >>
    /\ ddl     = 0
    /\ tab     = NoTab
    /\ wanted  = [t \in Tables |-> Attached(t)]
    /\ told    = [t \in Tables |-> Exists(t)]
    /\ touched = [t \in Tables |-> FALSE]

EntriesOf(n) == {i \in DOMAIN trail : trail[i].type = n}

-----------------------------------------------------------------------------
(* The owner.                                                              *)

Statement == ddl < MaxDDL /\ ddl' = ddl + 1

Create(t, n) ==
    /\ Statement
    /\ ~Exists(t) /\ n \notin {name[s] : s \in Tables}
    /\ name'    = [name EXCEPT ![t] = n]
    /\ live'    = [live EXCEPT ![t] = {}]
    /\ told'    = [told EXCEPT ![t] = EntriesOf(n) = {}]
    /\ touched' = [touched EXCEPT ![t] = FALSE]
    /\ UNCHANGED <<function, trigger, trail, tab, wanted>>

\* ALTER TABLE ... RENAME, or SET SCHEMA; the trigger stays on the table.
Rename(t, n) ==
    /\ Statement
    /\ Exists(t) /\ n \notin {name[s] : s \in Tables}
    /\ name' = [name EXCEPT ![t] = n]
    /\ told' = [told EXCEPT ![t] = @ /\ EntriesOf(name[t]) \cup EntriesOf(n) = {}]
    /\ UNCHANGED <<function, trigger, live, trail, tab, wanted, touched>>

\* A table goes with its trigger and rows, and the trail hears of neither.
Drop(t) ==
    /\ Statement
    /\ Exists(t)
    /\ name'    = [name EXCEPT ![t] = NoName]
    /\ trigger' = [trigger EXCEPT ![t] = "none"]
    /\ wanted'  = [wanted EXCEPT ![t] = FALSE]
    /\ live'    = [live EXCEPT ![t] = {}]
    /\ told'    = [told EXCEPT ![t] = FALSE]
    /\ touched' = [touched EXCEPT ![t] = FALSE]
    /\ UNCHANGED <<function, trail, tab>>

\* What the generator emits for @audited.
Attach(t) ==
    /\ Statement
    /\ Exists(t) /\ function /\ ~Attached(t)
    /\ trigger' = [trigger EXCEPT ![t] = "enabled"]
    /\ wanted' = [wanted EXCEPT ![t] = TRUE]
    /\ UNCHANGED <<function, name, live, trail, tab, told, touched>>

\* ALTER TABLE ... ENABLE or DISABLE TRIGGER.
Switch(t) ==
    /\ Statement
    /\ Attached(t)
    /\ trigger' = [trigger EXCEPT ![t] = IF @ = "enabled" THEN "disabled" ELSE "enabled"]
    /\ wanted' = [wanted EXCEPT ![t] = ~@]
    /\ UNCHANGED <<function, name, live, trail, tab, told, touched>>

Detach(t) ==
    /\ Statement
    /\ Attached(t)
    /\ trigger' = [trigger EXCEPT ![t] = "none"]
    /\ wanted' = [wanted EXCEPT ![t] = FALSE]
    /\ UNCHANGED <<function, name, live, trail, tab, told, touched>>

\* 20260911000200 and 000300, up: CREATE OR REPLACE keeps the function, and
\* so the triggers that call it.
InstallFunction ==
    /\ Statement
    /\ ~function
    /\ function' = TRUE
    /\ UNCHANGED <<tables, trail, tab, histories>>

\* Mutant: nothing depends on the function.
DropFunctionAnyway ==
    /\ Statement
    /\ function
    /\ function' = FALSE
    /\ UNCHANGED <<tables, trail, tab, histories>>

\* Mutant: DROP FUNCTION ... CASCADE.
DropFunctionCascade ==
    /\ Statement
    /\ function
    /\ function' = FALSE
    /\ trigger' = [t \in Tables |-> "none"]
    /\ UNCHANGED <<name, live, trail, tab, histories>>

\* 20260911000200, down: refused while a trigger depends on the function.
DropFunction ==
    /\ Statement
    /\ function /\ \A t \in Tables : ~Attached(t)
    /\ function' = FALSE
    /\ UNCHANGED <<tables, trail, tab, histories>>

-----------------------------------------------------------------------------
(* Rows.                                                                   *)

\* Mutant: the DELETE's diff is taken from the new image.
KeyDiffOfNew(old, new) == [from |-> IF new = NoKey THEN NoKey ELSE old, to |-> new]

\* The key's column in the diff; the image that is missing has no key.
KeyDiff(old, new) == [from |-> old, to |-> new]

\* Mutant: the subject is the row as it was.
CapturedByOld(t, old, new) ==
    [type |-> name[t],
     id   |-> IF t \notin Keyed THEN NoKey ELSE IF old = NoKey THEN new ELSE old,
     from |-> KeyDiff(old, new).from,
     to   |-> KeyDiff(old, new).to]

\* The entry of capture_data_change: the subject's key is read from the new
\* image, or from the old when there is no new one.
Captured(t, old, new) ==
    [type |-> name[t],
     id   |-> IF t \notin Keyed THEN NoKey ELSE IF new = NoKey THEN old ELSE new,
     from |-> KeyDiff(old, new).from,
     to   |-> KeyDiff(old, new).to]

\* A row's key goes from old to new, NoKey for no row: an INSERT, an UPDATE
\* or a DELETE of one row.
Change(t, old, new) ==
    /\ Exists(t)
    /\ old # new
    /\ old # NoKey => old \in live[t]
    /\ new \notin live[t]
    /\ live' = [live EXCEPT ![t] = (@ \ {old}) \cup ({new} \ {NoKey})]
    /\ touched' = [touched EXCEPT ![t] = @ \/ new = TabKey]
    /\ \/ /\ trigger[t] = "enabled" /\ Len(trail) < MaxTrail
          /\ trail' = Append(trail, Captured(t, old, new))
          /\ UNCHANGED told
       \/ /\ trigger[t] # "enabled"
          /\ told' = [told EXCEPT ![t] = FALSE]
          /\ UNCHANGED trail
    /\ UNCHANGED <<function, name, trigger, ddl, tab, wanted>>

\* TRUNCATE fires no row trigger.
Truncate(t) ==
    /\ live[t] # {}
    /\ live' = [live EXCEPT ![t] = {}]
    /\ told' = [told EXCEPT ![t] = FALSE]
    /\ UNCHANGED <<function, name, trigger, trail, ddl, tab, wanted, touched>>

-----------------------------------------------------------------------------
(* Readers.                                                                *)

\* Mutant: asked of the trail's rows and not of pg_trigger.
InstalledByRows(n) == EntriesOf(n) # {}

\* The EXISTS over pg_trigger: whether enabled is not asked.
Installed(n) == \E t \in Tables : name[t] = n /\ Attached(t)

\* Mutant: subject_type is not compared.
RowsOfId(n, k) == {i \in DOMAIN trail : trail[i].id = k}

\* subject_type = $1 AND subject_id = $2
RowsOf(n, k) == {i \in EntriesOf(n) : trail[i].id = k}

Reads(answer) == tab' = answer /\ UNCHANGED <<function, tables, trail, ddl, histories>>

Ask == tab.asks = "nothing" /\ Reads([NoTab EXCEPT !.asks = "is_audited"])

\* ::regproc fails when there is no such function.
IsAudited ==
    /\ tab.asks = "is_audited"
    /\ \/ ~function /\ Reads([NoTab EXCEPT !.answer = "error"])
       \/ function /\ ~Installed(TabName) /\ Reads([NoTab EXCEPT !.answer = "none"])
       \/ function /\ Installed(TabName) /\ Reads([NoTab EXCEPT !.asks = "rows"])

ReadRows ==
    /\ tab.asks = "rows"
    /\ Reads([NoTab EXCEPT !.answer = "some", !.rows = RowsOf(TabName, TabKey)])

-----------------------------------------------------------------------------

Owner(t) ==
    \/ \E n \in Names : Create(t, n) \/ Rename(t, n)
    \/ Attach(t) \/ Switch(t) \/ Detach(t) \/ Drop(t) \/ Truncate(t)

RowChange(t) == \E old, new \in Keys \cup {NoKey} : Change(t, old, new)

Next ==
    \/ \E t \in Tables : Owner(t) \/ RowChange(t)
    \/ InstallFunction \/ DropFunction
    \/ Ask \/ IsAudited \/ ReadRows

Spec == Init /\ [][Next]_vars

-----------------------------------------------------------------------------
(* Properties.                                                             *)

Mentioning(n, k) == {i \in EntriesOf(n) : k \in {trail[i].from, trail[i].to}}

\* Whether the last entry to mention k leaves a row with that key.
ToldLive(n, k) ==
    \E i \in Mentioning(n, k) :
        trail[i].to = k /\ \A j \in Mentioning(n, k) : j <= i

\* The entries under a table's name tell which rows it has, also of rows
\* whose key was changed, although each such change is listed under the new
\* key only and the old one ends without a delete, and also when the trigger
\* was given the wrong column: the diff names both keys (capture_data_change).
TrailTellsKeys ==
    \A t \in Tables : told[t] => \A k \in Keys : k \in live[t] <=> ToldLive(name[t], k)

\* "A table can be audited and genuinely untouched": an empty history of a
\* table whose changes were all captured is answered exactly if no row has
\* ever had the key, whatever happened to the table or the trigger between
\* the two statements (history).
EmptyMeansUntouched ==
    [][tab.asks = "rows" /\ tab'.answer = "some" =>
        \A t \in Keyed : name[t] = TabName /\ told[t] => (tab'.rows = {} <=> ~touched[t])]_vars

\* A table that its owner wants audited is never answered for as if it were
\* not, also before its first entry (is_audited).
NoneMeansUnaudited ==
    [][tab.asks = "is_audited" /\ tab'.answer = "none" =>
        \A t \in Tables : name[t] = TabName => ~wanted[t]]_vars

\* Renaming a table and running the module's migrations down and up never
\* silence a trigger its owner has left on: every row it changes is recorded
\* (capture_data_change, its down migration).
WantedMeansRecorded ==
    [][\A t \in Tables : wanted[t] /\ RowChange(t) => Len(trail') = Len(trail) + 1]_vars
=============================================================================
