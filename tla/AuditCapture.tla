---------------------------- MODULE AuditCapture ----------------------------
(***************************************************************************)
(* One audited table, its AFTER ... FOR EACH ROW capture trigger, the      *)
(* audit verbs and the append-only trail, under concurrent READ COMMITTED  *)
(* transactions.  A row written by an open transaction is locked until the *)
(* transaction ends; what a transaction wrote, and the audit entries its   *)
(* trigger and verbs inserted, become visible together when it commits and *)
(* vanish together when it rolls back, loses its connection or the server  *)
(* crashes.                                                                *)
(***************************************************************************)
EXTENDS AuditEntries, SequencesExt

CONSTANTS
    Sessions,    \* connections that run transactions
    Calls,       \* the AuditEvents that services pass to the verbs
    MaxTx,       \* bound: transactions started
    MaxEntries   \* bound: entries a transaction adds

ASSUME BoundAssumption == MaxTx \in Nat /\ MaxEntries \in Nat

ASSUME CallAssumption == Calls \subseteq AuditEvents

VARIABLES
    table,    \* the committed image of every row
    trail,    \* per subject, the committed entries in the order written
    status,   \* each session's transaction: "idle", "open" or "aborted"
    start,    \* the transaction's start time, what NOW() returns in it
    xid,      \* its transaction id, 0 until its first write
    context,  \* the audit settings its statements see
    own,      \* the row images it has written, a partial function
    pending,  \* per subject, the entries it has inserted
    clock,    \* the time, a count of the transactions started
    lastXid   \* the last transaction id handed out

txVars == <<status, start, xid, context, own, pending>>
vars   == <<table, trail, txVars, clock, lastXid>>

NoRows    == << >>
NoEntries == [q \in Subjects |-> << >>]

TypeOK ==
    /\ table   \in [Rows -> Image \cup {Absent}]
    /\ trail   \in [Subjects -> Seq(Entries)]
    /\ status  \in [Sessions -> {"idle", "open", "aborted"}]
    /\ start   \in [Sessions -> Nat]
    /\ xid     \in [Sessions -> Nat]
    /\ context \in [Sessions -> Contexts]
    /\ own     \in [Sessions -> PartialFcns(Rows, Image \cup {Absent})]
    /\ pending \in [Sessions -> [Subjects -> Seq(Entries)]]
    /\ clock   \in Nat
    /\ lastXid \in Nat

Init ==
    /\ table   = [r \in Rows |-> Absent]
    /\ trail   = NoEntries
    /\ status  = [s \in Sessions |-> "idle"]
    /\ start   = [s \in Sessions |-> 0]
    /\ xid     = [s \in Sessions |-> 0]
    /\ context = [s \in Sessions |-> Unset]
    /\ own     = [s \in Sessions |-> NoRows]
    /\ pending = [s \in Sessions |-> NoEntries]
    /\ clock   = 0
    /\ lastXid = 0

-----------------------------------------------------------------------------
(* Transactions.                                                           *)

\* What session s sees: its own writes over the committed table.
View(s) == Over(own[s], table)

Locked(r)    == \E t \in Sessions : r \in DOMAIN own[t]
Free(s, D)   == \A r \in D : r \in DOMAIN own[s] \/ ~Locked(r)

\* txid_current() assigns an id on first use and repeats it afterwards.
Txid(s) == IF xid[s] = 0 THEN lastXid + 1 ELSE xid[s]

AssignXid(s) ==
    /\ xid' = [xid EXCEPT ![s] = Txid(s)]
    /\ lastXid' = IF xid[s] = 0 THEN Txid(s) ELSE lastXid

\* An error takes back everything the transaction did and frees its locks.
Discard(s, st) ==
    /\ status'  = [status EXCEPT ![s] = st]
    /\ xid'     = [xid EXCEPT ![s] = 0]
    /\ start'   = [start EXCEPT ![s] = 0]
    /\ context' = [context EXCEPT ![s] = Unset]
    /\ own'     = [own EXCEPT ![s] = NoRows]
    /\ pending' = [pending EXCEPT ![s] = NoEntries]

Begin(s) ==
    /\ status[s] = "idle"
    /\ clock < MaxTx
    /\ clock'  = clock + 1
    /\ status' = [status EXCEPT ![s] = "open"]
    /\ start'  = [start EXCEPT ![s] = clock + 1]
    /\ UNCHANGED <<table, trail, xid, context, own, pending, lastXid>>

\* set_config('app.*', ..., true) inside the transaction.
SetContext(s, ctx) ==
    /\ status[s] = "open"
    /\ context' = [context EXCEPT ![s] = ctx]
    /\ UNCHANGED <<table, trail, status, start, xid, own, pending, clock, lastXid>>

\* The bound: s may add n more entries.
Room(s, n) ==
    Cardinality(UNION {{q} \X DOMAIN pending[s][q] : q \in Subjects}) + n <= MaxEntries

\* entries gives one new entry to each subject in its domain.
Record(s, entries) ==
    pending' = [pending EXCEPT ![s] = [q \in Subjects |->
        IF q \in DOMAIN entries THEN Append(pending[s][q], entries[q])
        ELSE pending[s][q]]]

Abort(s) ==
    /\ Discard(s, "aborted")
    /\ UNCHANGED <<table, trail, clock, lastXid>>

-----------------------------------------------------------------------------
(* Statements on the audited table.  One statement gives new images to a   *)
(* set of rows and the trigger inserts one entry for each of them; if any  *)
(* of those inserts is refused the whole statement fails.                  *)

\* Mutant: OLD is the committed row, not the transaction's own.
CapturesCommitted(s, op, images) ==
    [r \in DOMAIN images |->
        CaptureEntry(op, table[r], images[r], context[s], Txid(s), start[s])]

Captures(s, op, images) ==
    [r \in DOMAIN images |->
        CaptureEntry(op, View(s)[r], images[r], context[s], Txid(s), start[s])]

Write(s, op, images) ==
    LET entries == Captures(s, op, images)
        D       == DOMAIN images
    IN  /\ status[s] = "open"
        /\ D # {} /\ Free(s, D)
        /\ Room(s, Cardinality(D))
        /\ \/ /\ \A r \in D : DeclaredChecks(entries[r], context[s])
              /\ own' = [own EXCEPT ![s] = Over(images, @)]
              /\ Record(s, entries)
              /\ AssignXid(s)
              /\ UNCHANGED <<table, trail, status, start, context, clock>>
           \/ /\ \E r \in D : ~DeclaredChecks(entries[r], context[s])
              /\ Abort(s)

Insert(s, r, image) ==
    /\ View(s)[r] = Absent
    /\ Write(s, "insert", [q \in {r} |-> image])

\* READ COMMITTED: the patch lands on the row as it is now.
Update(s, D, patch) ==
    /\ \A r \in D : View(s)[r] # Absent
    /\ Write(s, "update", [r \in D |-> Over(patch, View(s)[r])])

Delete(s, D) ==
    /\ \A r \in D : View(s)[r] # Absent
    /\ Write(s, "delete", [r \in D |-> Absent])

\* A statement that fails for reasons of its own: a business constraint, a
\* raise, a deadlock victim.
Fail(s) ==
    /\ status[s] = "open"
    /\ Abort(s)

-----------------------------------------------------------------------------
(* The verbs.                                                              *)

\* log_event, log_refusal, log_security_edge and append, given the
\* transaction of the business write.
LogEvent(s, call) ==
    LET entry == VerbEntry(call, context[s], Txid(s), start[s])
    IN  /\ status[s] = "open"
        /\ Room(s, 1)
        /\ \/ /\ DeclaredChecks(entry, context[s])
              /\ Record(s, [q \in {call.subject} |-> entry])
              /\ AssignXid(s)
              /\ UNCHANGED <<table, trail, status, start, context, own, clock>>
           \/ /\ ~DeclaredChecks(entry, context[s])
              /\ Abort(s)

\* Mutant: the row borrows the last transaction id handed out.
LogAloneInOpenTx(call, ctx) ==
    LET entry == VerbEntry(call, ctx, lastXid, clock + 1)
    IN  /\ clock < MaxTx
        /\ DeclaredChecks(entry, ctx)
        /\ trail'   = [trail EXCEPT ![call.subject] = Append(@, entry)]
        /\ clock'   = clock + 1
        /\ UNCHANGED <<table, txVars, lastXid>>

\* The scoped verbs, and a verb given a pool: the INSERT is a transaction of
\* its own and stays whatever becomes of any other.
LogAlone(call, ctx) ==
    LET entry == VerbEntry(call, ctx, lastXid + 1, clock + 1)
    IN  /\ clock < MaxTx
        /\ DeclaredChecks(entry, ctx)
        /\ trail'   = [trail EXCEPT ![call.subject] = Append(@, entry)]
        /\ clock'   = clock + 1
        /\ lastXid' = lastXid + 1
        /\ UNCHANGED <<table, txVars>>

\* Mutant: no immutability trigger, the DELETE goes through.
RewriteTrailUnguarded(s, q) ==
    /\ status[s] = "open"
    /\ trail[q] # << >>
    /\ trail' = [trail EXCEPT ![q] = Tail(@)]
    /\ UNCHANGED <<table, txVars, clock, lastXid>>

\* UPDATE or DELETE of an entry that the transaction sees, a committed one or
\* one it inserted itself: the immutability trigger raises.
RewriteTrail(s, q) ==
    /\ status[s] = "open"
    /\ trail[q] # << >> \/ pending[s][q] # << >>
    /\ Abort(s)

-----------------------------------------------------------------------------
(* The end of a transaction.                                               *)

Commit(s) ==
    /\ status[s] = "open"
    /\ table' = [r \in Rows |-> View(s)[r]]
    /\ trail' = [q \in Subjects |-> trail[q] \o pending[s][q]]
    /\ Discard(s, "idle")
    /\ UNCHANGED <<clock, lastXid>>

\* Mutant: the audit entries were inserted outside the transaction.
RollbackKeepsEntries(s) ==
    /\ status[s] # "idle"
    /\ trail' = [q \in Subjects |-> trail[q] \o pending[s][q]]
    /\ Discard(s, "idle")
    /\ UNCHANGED <<table, clock, lastXid>>

\* ROLLBACK, a dropped sqlx::Transaction, COMMIT of an aborted transaction,
\* a lost connection.
Rollback(s) ==
    /\ status[s] # "idle"
    /\ Discard(s, "idle")
    /\ UNCHANGED <<table, trail, clock, lastXid>>

\* The server restarts: every transaction is gone, what was committed stays.
Crash ==
    /\ \E s \in Sessions : status[s] # "idle"
    /\ status'  = [s \in Sessions |-> "idle"]
    /\ start'   = [s \in Sessions |-> 0]
    /\ xid'     = [s \in Sessions |-> 0]
    /\ context' = [s \in Sessions |-> Unset]
    /\ own'     = [s \in Sessions |-> NoRows]
    /\ pending' = [s \in Sessions |-> NoEntries]
    /\ UNCHANGED <<table, trail, clock, lastXid>>

-----------------------------------------------------------------------------

Statement(s) ==
    \/ \E r \in Rows, image \in Image : Insert(s, r, image)
    \/ \E D \in SUBSET Rows, patch \in Patches : Update(s, D, patch)
    \/ \E D \in SUBSET Rows : Delete(s, D)
    \/ \E call \in Calls : LogEvent(s, call)
    \/ \E ctx \in Contexts : SetContext(s, ctx)
    \/ \E q \in Subjects : RewriteTrail(s, q)
    \/ Fail(s)

Next ==
    \/ \E s \in Sessions : Begin(s) \/ Statement(s) \/ Commit(s) \/ Rollback(s)
    \/ \E call \in Calls, ctx \in Contexts : LogAlone(call, ctx)
    \/ Crash

Spec == Init /\ [][Next]_vars

-----------------------------------------------------------------------------
(* Properties.                                                             *)

\* The trail reconstructs the table: for every row, the entries the trigger
\* wrote about it lead from no row to the committed image, field by field,
\* whatever transactions interleaved, failed, rolled back or crashed on the
\* way and whatever services logged about the row beside it
\* (capture_data_change, audit_trails_immutable).
TrailTellsTable == \A r \in Rows : Tells(Absent, trail[r], table[r])

\* Each captured entry picks up where the ones before it left the row: its
\* "from" is the value they tell and its operation is one that was possible
\* then, although the transaction that wrote it may have begun, and fixed
\* its occurred_at, before any of them.
DiffsChain ==
    \A r \in Rows : \A i \in Captured(trail[r]) :
        LET before == SubSeq(trail[r], 1, i - 1)
            e      == trail[r][i]
        IN  /\ ToldPresent(Absent, before) <=> e.action # "insert"
            /\ \A f \in DOMAIN e.changed :
                   e.changed[f].from = ToldCell(Absent, before, f)

\* A service impersonates the trigger about row r when it logs an event in the
\* trigger's lane and under a name of the trigger's.
Impersonated(r) == \E call \in Calls : call.subject = r /\ TriggersColumns(call)

\* The same for a reader who has the columns only, as long as no service
\* impersonates the trigger: neither refusals named after the operation they
\* refused nor data changes of a service's own, with diffs that never
\* happened, are taken for the trigger's (audit_insert, AuditEvent).
ColumnsTellTable ==
    \A r \in Rows : ~Impersonated(r) => Tells(Absent, AsRead(trail[r]), table[r])

\* "Data-change rows are the OTHER lane (the generator's audit triggers), not
\* these verbs": whatever services log, the columns say which entries the
\* trigger wrote, and these tell the table.
LaneTellsTable == \A r \in Rows : Tells(Absent, AsRead(trail[r]), table[r])

\* A txid names one transaction and one fate: no entry in the trail carries
\* the id of a transaction that is still open (and might yet roll back), no
\* two open transactions share one, and all entries of one id agree on when
\* their transaction began.
TxidsNameOneFate ==
    /\ \A s \in Sessions : xid[s] # 0 =>
           /\ \A q \in Subjects : xid[s] \notin TxidsOf(trail[q])
           /\ \A t \in Sessions \ {s} : xid[t] # xid[s]
    /\ \A p, q \in Subjects : \A i \in DOMAIN trail[p], j \in DOMAIN trail[q] :
           trail[p][i].txid = trail[q][j].txid => trail[p][i].at = trail[q][j].at

\* The trail is append-only: no step changes or removes an entry, whoever
\* asks for it (audit_trails_immutable).
AppendOnly == [][\A q \in Subjects : IsPrefix(trail[q], trail'[q])]_vars

\* Sessions, locks and triggers hidden, table and trail are the ledger the
\* module promises: every change of either is one whole transaction, each
\* change of a row explained by the entries added with it and by no others.
Ledger == INSTANCE AuditLedger WITH table <- table, trail <- trail
ImplementsLedger == Ledger!Spec
=============================================================================
