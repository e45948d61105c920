---------------------------- MODULE AuditRecord ----------------------------
(***************************************************************************)
(* A trail row on its way through the generated service: the DTO or patch  *)
(* becomes a record, the row rules refuse it or let it through, and then   *)
(* the database has its own copy of the rules, declared as constraints     *)
(* once the module is deployed, and its immutability trigger.  AuditSurface  *)
(* composes these actions with the ways a host opens to them.              *)
(*                                                                         *)
(* A text is its length and whether it is blank; the limits of the rules   *)
(* and of the constraints are each taken from the file that states them.   *)
(***************************************************************************)
EXTENDS Naturals, Sequences

CONSTANTS
    Null,
    Wrong,     \* a JSON value that is not a text
    MaxStored  \* bound: rows stored

ASSUME StoredAssumption == MaxStored \in Nat

VARIABLES
    stored,    \* the rows, in the order stored
    declared,  \* the constraints the database has
    last       \* the last call of a service: of which kind, whether the service
               \* has the guard, and what it came to; "none" after other steps

vars == <<stored, declared, last>>

Required == {"action", "actor", "txid"}
Optional == {"subject_type", "subject_id", "reason", "correlation_id", "client_ip",
             "user_agent", "http_method", "resource_path"}
Columns  == Required \cup Optional

Texts   == [length : Nat, blank : BOOLEAN]
ASSUME ValueAssumption == Null \notin Texts /\ Wrong \notin Texts \cup {Null}

Records == {r \in [Columns -> Texts \cup {Null}] : \A f \in Required : r[f] # Null}
Word    == [length |-> 1, blank |-> FALSE]
Blank   == [length |-> 1, blank |-> TRUE]
Plain   == [f \in Columns |-> IF f \in Required THEN Word ELSE Null]

-----------------------------------------------------------------------------
(* The two copies of the rules.  A rule is named by its column and kind.   *)

MaxRules == {"action", "actor", "subject_type", "subject_id", "correlation_id", "client_ip",
             "user_agent", "http_method", "resource_path", "txid"}
Rules    == Required \X {"required"} \cup MaxRules \X {"max"}

RuleMax ==
    [f \in MaxRules |->
        CASE f \in {"action", "subject_type"}         -> 120
          [] f \in {"actor", "subject_id"}            -> 160
          [] f \in {"correlation_id", "client_ip"}    -> 64
          [] f \in {"user_agent", "resource_path"}    -> 512
          [] f = "http_method"                        -> 10
          [] f = "txid"                               -> 32]

ConstraintMax ==
    [action |-> 120, actor |-> 160, subject_type |-> 120, subject_id |-> 160,
     correlation_id |-> 64, client_ip |-> 64, user_agent |-> 512, http_method |-> 10,
     resource_path |-> 512, txid |-> 32]

\* A length of null is null, and no rule is broken by what is not known.
TooLong(text, max) == text # Null /\ text.length > max

\* Mutant: a limit that is one too many.
BreaksRuleLate(rec, rule) ==
    LET text == rec[rule[1]]
    IN  IF rule[2] = "required" THEN text = Null \/ text.blank
        ELSE TooLong(text, RuleMax[rule[1]] + 1)

\* The condition of one rule in AuditTrailRowRules::check.
BreaksRule(rec, rule) ==
    LET text == rec[rule[1]]
    IN  IF rule[2] = "required" THEN text = Null \/ text.blank
        ELSE TooLong(text, RuleMax[rule[1]])

BreaksConstraint(rec, rule) ==
    LET text == rec[rule[1]]
    IN  IF rule[2] = "required" THEN text = Null \/ text.blank
        ELSE TooLong(text, ConstraintMax[rule[1]])

\* A create is held to every rule, an update to those of the columns it
\* changes (row_rule::changed).
Refused(kind, before, after) ==
    {rule \in Rules :
        /\ kind = "create" \/ after[rule[1]] # before[rule[1]]
        /\ BreaksRule(after, rule)}

\* A service without the guard holds a record to no rule.
Held(guarded, kind, before, after) == IF guarded THEN Refused(kind, before, after) ELSE {}

-----------------------------------------------------------------------------
(* The records that calls make.                                            *)

\* Whether serde_json::from_value succeeds at the column's type.
Patchable(f, value) == value # Wrong /\ (value = Null => f \in Optional)

\* apply_patch: what does not fit the column is ignored.
Patched(rec, f, value) ==
    IF f \in Columns /\ Patchable(f, value) THEN [rec EXCEPT ![f] = value] ELSE rec

-----------------------------------------------------------------------------

NoCall == [kind |-> "none", guarded |-> FALSE, answer |-> "none"]

RecordTypeOK ==
    /\ stored \in Seq(Records) /\ Len(stored) <= MaxStored
    /\ declared \subseteq Rules
    /\ last \in [kind    : {"none", "create", "update"},
                 guarded : BOOLEAN,
                 answer  : {"none", "stored", "refused", "error"}]

Init == stored = << >> /\ declared = {} /\ last = NoCall

\* create: from_create_dto copies the DTO, the rules see the record, and the
\* INSERT meets the declared constraints.
Create(guarded, rec) ==
    LET answer == IF Held(guarded, "create", rec, rec) # {} THEN "refused"
                  ELSE IF \E rule \in declared : BreaksConstraint(rec, rule) THEN "error"
                  ELSE "stored"
    IN  /\ Len(stored) < MaxStored
        /\ last' = [kind |-> "create", guarded |-> guarded, answer |-> answer]
        /\ stored' = IF answer = "stored" THEN Append(stored, rec) ELSE stored
        /\ UNCHANGED declared

\* update and patch: the row read before, the record after, the rules, and
\* then an UPDATE that the immutability trigger answers with an error.
Change(guarded, before, after) ==
    /\ last' = [kind    |-> "update",
                guarded |-> guarded,
                answer  |-> IF Held(guarded, "update", before, after) # {}
                            THEN "refused" ELSE "error"]
    /\ UNCHANGED <<stored, declared>>

\* apply_update replaces every column but the id.
Update(guarded, i, rec) == i \in DOMAIN stored /\ Change(guarded, stored[i], rec)

Patch(guarded, i, f, value) ==
    i \in DOMAIN stored /\ Change(guarded, stored[i], Patched(stored[i], f, value))

\* The trigger and the verbs insert past the rules.
Capture(rec) ==
    /\ Len(stored) < MaxStored
    /\ ~\E rule \in declared : BreaksConstraint(rec, rule)
    /\ stored' = Append(stored, rec) /\ last' = NoCall
    /\ UNCHANGED declared

\* The migration declares the constraints that no stored row breaks.
Declare ==
    /\ declared' = declared \cup
           {rule \in Rules : ~\E i \in DOMAIN stored : BreaksConstraint(stored[i], rule)}
    /\ last' = NoCall
    /\ UNCHANGED stored

\* The texts at and beyond the limits of a column, blank ones and a word.
Boundary(f) ==
    LET limits == IF f \in MaxRules THEN {RuleMax[f], ConstraintMax[f]} ELSE {}
    IN  {Word, Blank, [length |-> 0, blank |-> TRUE]}
        \cup [length : limits \cup {n + 1 : n \in limits}, blank : {FALSE}]

\* What callers send: a plain record but for one column, a patch of one.
Sent ==
    {r \in {[Plain EXCEPT ![c[1]] = c[2]] :
               c \in UNION {{f} \X (Boundary(f) \cup {Null}) : f \in Columns}} : r \in Records}

-----------------------------------------------------------------------------
(* Properties.                                                             *)

\* What the rules let through, the database stores: a create that passed a
\* service with the guard never fails on a constraint the rules have no copy
\* of, or a laxer one (AuditTrailRowRules, the declared checks).
RulesCoverConstraints ==
    ~(last.kind = "create" /\ last.guarded /\ last.answer = "error")
=============================================================================
