---------------------------- MODULE AuditEntries ----------------------------
(***************************************************************************)
(* The data of the audit trail: row images of one audited table, the       *)
(* entries of auditlog.audit_trails, the diff the capture function writes, *)
(* and what a list of entries says about a row.  No state.                 *)
(*                                                                         *)
(* A row image is Absent or gives each field a value or Null; the primary  *)
(* key is the row's name and is never a field.  A diff {field: {from, to}} *)
(* is a function from the fields it mentions to [from, to]; a side that    *)
(* the JSON leaves out (the "from" of an insert, the "to" of a delete) is  *)
(* Null, which no insert or delete ever writes there.                      *)
(*                                                                         *)
(* Which lane an entry came by is no column of it: the field "by" is a     *)
(* history variable, written with the entry and read only by the           *)
(* properties.  A service may log a data_change of its own and name it as  *)
(* the trigger names its own, and then nothing in the row tells the two    *)
(* apart; AsRead is what a reader makes of the columns.                    *)
(***************************************************************************)
EXTENDS Naturals, Sequences, FiniteSets, TLC

CONSTANTS
    Rows,       \* primary keys of the audited table
    Fields,     \* its other columns
    Values,     \* what a column holds when it is not null
    Null,       \* SQL NULL
    Absent,     \* the image of a row that does not exist
    NoSubject,  \* stands for subject_type/subject_id NULL or of another table
    Names,      \* well-formed actor names
    System,     \* the actor recorded when nobody is named
    Unset,      \* app.actor never set, or set to ''
    Unfit,      \* a text, or a session context, that a declared CHECK rejects
    Actions     \* what else than Ops services name the events they audit

ASSUME NullAssumption   == Null \notin Values
ASSUME AbsentAssumption == Absent \notin [Fields -> Values \cup {Null}]
ASSUME SubjectAssumption == NoSubject \notin Rows
ASSUME ActorAssumption ==
    /\ System \notin Names /\ Unset \notin Names /\ Unfit \notin Names
    /\ Unset # System /\ Unfit # System /\ Unset # Unfit

Cells    == Values \cup {Null}
Image    == [Fields -> Cells]
Subjects == Rows \cup {NoSubject}
Contexts == Names \cup {Unset, Unfit}
Ops      == {"insert", "update", "delete"}
Lanes    == {"data_change", "refusal", "security_edge"}
Statuses == {"success", "failure"}

\* The function f, and g where f says nothing.
Over(f, g) == [x \in DOMAIN f \cup DOMAIN g |-> IF x \in DOMAIN f THEN f[x] ELSE g[x]]

PartialFcns(S, T) == UNION {[D -> T] : D \in SUBSET S}
Patches == PartialFcns(Fields, Cells)
Diffs   == PartialFcns(Fields, [from : Cells, to : Cells])

Entries == [event   : Lanes,
            action  : Ops \cup Actions,
            actor   : Names \cup {System},
            changed : Diffs,
            status  : Statuses,
            txid    : Nat,
            at      : Nat,
            by      : {"trigger", "verb"}]

\* What a service hands to a verb; actor Unset when it knows no better than
\* the session, changed << >> when it has no diff of its own.  The action is
\* free text and the lane the caller's choice: the trigger's are among them.
AuditEvents == [event : Lanes, action : Ops \cup Actions \cup {Unfit},
                subject : Subjects, actor : Contexts, changed : Diffs,
                status : Statuses]

-----------------------------------------------------------------------------
(* The capture function.                                                   *)

Cell(image, f) == IF image = Absent THEN Null ELSE image[f]

\* Mutant: a field that becomes null is left out.
DiffSkippingNulls(old, new) ==
    [f \in {g \in Fields : Cell(new, g) \notin {Cell(old, g), Null}} |->
        [from |-> Cell(old, f), to |-> Cell(new, f)]]

\* The three branches of the diff are one comparison: an insert lists the
\* fields that are not null, a delete those that were not, an update those
\* that differ.
Diff(old, new) ==
    [f \in {g \in Fields : Cell(old, g) # Cell(new, g)} |->
        [from |-> Cell(old, f), to |-> Cell(new, f)]]

\* COALESCE(NULLIF(current_setting('app.actor', true), ''), 'system')
SessionActor(ctx) == IF ctx = Unset THEN System ELSE ctx

\* Mutant: action may be blank.
DeclaredChecksNoAction(e, ctx) == e.actor \in Names \cup {System} /\ ctx # Unfit

\* The CHECK constraints on the row an INSERT proposes.  Unfit stands for
\* every text they reject: a blank or over-long actor or action, an
\* over-long correlation id, address, agent, method or path.
DeclaredChecks(e, ctx) ==
    /\ e.actor \in Names \cup {System}
    /\ e.action # Unfit
    /\ ctx # Unfit

CaptureEntry(op, old, new, ctx, xid, start) ==
    [event |-> "data_change", action |-> op, actor |-> SessionActor(ctx),
     changed |-> Diff(old, new), status |-> "success",
     txid |-> xid, at |-> start, by |-> "trigger"]

\* Mutant: the caller's lane is not bound, every verb writes the default one.
VerbEntryInOneLane(call, ctx, xid, start) ==
    [event |-> "data_change", action |-> call.action,
     actor |-> IF call.actor = Unset THEN SessionActor(ctx) ELSE call.actor,
     changed |-> call.changed, status |-> call.status,
     txid |-> xid, at |-> start, by |-> "verb"]

\* audit_insert: the caller's actor wins over the session's.
VerbEntry(call, ctx, xid, start) ==
    [event |-> call.event, action |-> call.action,
     actor |-> IF call.actor = Unset THEN SessionActor(ctx) ELSE call.actor,
     changed |-> call.changed, status |-> call.status,
     txid |-> xid, at |-> start, by |-> "verb"]

-----------------------------------------------------------------------------
(* What a list of entries about one row says of it.                        *)

TxidsOf(es)  == {es[i].txid : i \in DOMAIN es}
Captured(es) == {i \in DOMAIN es : es[i].by = "trigger"}

\* The captured entries that mention a field: the diff a service hands to a
\* verb is its own affair.
Mentions(es, f) == {i \in Captured(es) : f \in DOMAIN es[i].changed}

Latest(S) == CHOOSE i \in S : \A j \in S : j <= i

\* The value the trail gives a field: the "to" of the last entry that
\* mentions it, or the value before the list begins.
ToldCell(base, es, f) ==
    IF Mentions(es, f) = {} THEN Cell(base, f)
    ELSE es[Latest(Mentions(es, f))].changed[f].to

\* Whether the trail says the row exists.
ToldPresent(base, es) ==
    IF Captured(es) = {} THEN base # Absent
    ELSE es[Latest(Captured(es))].action # "delete"

\* Starting from the image base, the entries es lead to the image image.
Tells(base, es, image) ==
    /\ ToldPresent(base, es) <=> image # Absent
    /\ \A f \in Fields : ToldCell(base, es, f) = Cell(image, f)

\* How the trigger signs its entries: in the lane of data changes, named for
\* the operation.
TriggersColumns(e) == e.event = "data_change" /\ e.action \in Ops

\* The entries as a reader takes them who has only their columns.
AsRead(es) ==
    [i \in DOMAIN es |->
        [es[i] EXCEPT !.by = IF TriggersColumns(es[i]) THEN "trigger" ELSE "verb"]]
=============================================================================
