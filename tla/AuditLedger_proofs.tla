------------------------- MODULE AuditLedger_proofs -------------------------
(***************************************************************************)
(* The trail tells the table, the diffs in it chain, and the database, its *)
(* sessions, locks and triggers hidden, is the ledger of AuditLedger.      *)
(* What a transaction wrote to a row is told by the committed row and the  *)
(* entries it has pending, and nobody else may write that row, so the      *)
(* committed row cannot change under those entries before they are         *)
(* appended to the trail.                                                  *)
(***************************************************************************)
EXTENDS AuditCapture_proofs

\* No row is written by two open transactions.
RowsLocked ==
    \A s, t \in Sessions : s # t =>
        \A r \in Rows : r \notin DOMAIN own[s] \/ r \notin DOMAIN own[t]

\* About a row it did not write, a transaction tells of no change.
UnwrittenQuiet ==
    \A s \in Sessions : \A r \in Rows : r \notin DOMAIN own[s] =>
        \A image \in RowImages : Tells(image, pending[s][r], image)

\* About a row it wrote, it tells how it got from the committed image to its
\* own.
WrittenTold ==
    \A s \in Sessions : \A r \in Rows : r \in DOMAIN own[s] =>
        Tells(table[r], pending[s][r], own[s][r])

ReplayInv ==
    /\ TypeOK
    /\ RowsLocked
    /\ UnwrittenQuiet
    /\ WrittenTold
    /\ TrailTellsTable

-----------------------------------------------------------------------------

LEMMA InitReplay == Init => ReplayInv
<1> SUFFICES ASSUME Init
             PROVE  ReplayInv
  OBVIOUS
<1>1. TypeOK
  BY InitTypeOK
<1>2. RowsLocked
  BY DEF Init, RowsLocked, NoRows
<1>3. UnwrittenQuiet
  BY TellsNothing DEF Init, UnwrittenQuiet, NoEntries, Subjects
<1>4. WrittenTold
  BY DEF Init, WrittenTold, NoRows
<1>5. TrailTellsTable
  BY TellsNothing DEF Init, TrailTellsTable, NoEntries, Subjects
<1> QED
  BY <1>1, <1>2, <1>3, <1>4, <1>5 DEF ReplayInv

\* Of any row, a transaction's entries tell how it got from the committed
\* image to what it sees.
LEMMA ViewTold ==
    ASSUME ReplayInv, NEW s \in Sessions, NEW r \in Rows
    PROVE  Tells(table[r], pending[s][r], View(s)[r])
<1>1. DOMAIN table = Rows /\ table[r] \in RowImages
  BY DEF ReplayInv, TypeOK, RowImages
<1>2. CASE r \in DOMAIN own[s]
  BY <1>1, <1>2 DEF ReplayInv, WrittenTold, View, Over
<1>3. CASE r \notin DOMAIN own[s]
  BY <1>1, <1>3 DEF ReplayInv, UnwrittenQuiet, View, Over
<1> QED
  BY <1>2, <1>3

\* A session that gives its transaction up without changing the database.
LEMMA DiscardReplay ==
    ASSUME ReplayInv, NEW s \in Sessions, NEW st \in {"idle", "aborted"}, Discard(s, st),
           UNCHANGED <<table, trail, clock, lastXid>>
    PROVE  ReplayInv'
<1>1. TypeOK'
  BY DiscardType DEF ReplayInv, TypeOK
<1>2. /\ DOMAIN own'[s] = {}
      /\ \A r \in Rows : pending'[s][r] = << >>
      /\ \A t \in Sessions \ {s} : own'[t] = own[t] /\ pending'[t] = pending[t]
  BY DEF Discard, ReplayInv, TypeOK, NoRows, NoEntries, Subjects
<1>3. RowsLocked'
  BY <1>2 DEF ReplayInv, RowsLocked
<1>4. UnwrittenQuiet'
  BY <1>2, TellsNothing DEF ReplayInv, UnwrittenQuiet
<1>5. WrittenTold'
  BY <1>2 DEF ReplayInv, WrittenTold
<1>6. TrailTellsTable'
  BY DEF ReplayInv, TrailTellsTable
<1> QED
  BY <1>1, <1>3, <1>4, <1>5, <1>6 DEF ReplayInv

LEMMA AbortReplay ==
    ASSUME ReplayInv, NEW s \in Sessions, Abort(s)
    PROVE  ReplayInv'
BY DiscardReplay DEF Abort

\* A statement on the audited table.
LEMMA WriteReplay ==
    ASSUME ReplayInv, NEW s \in Sessions, NEW op \in Ops,
           NEW D \in SUBSET Rows, NEW images \in [D -> RowImages],
           \A r \in D : op = "delete" <=> images[r] = Absent,
           Write(s, op, images)
    PROVE  ReplayInv'
<1> DEFINE entries == Captures(s, op, images)
<1> USE DEF ReplayInv
<1>1. CASE Abort(s)
  BY <1>1, AbortReplay
<1>2. CASE /\ \A r \in D : DeclaredChecks(entries[r], context[s])
           /\ own' = [own EXCEPT ![s] = Over(images, @)]
           /\ Record(s, entries)
           /\ UNCHANGED <<table, trail>>
  <2>1. TypeOK'
    BY WriteType
  <2>2. /\ DOMAIN own'[s] = D \cup DOMAIN own[s]
        /\ \A r \in D : own'[s][r] = images[r]
        /\ \A r \in DOMAIN own[s] \ D : own'[s][r] = own[s][r]
        /\ \A t \in Sessions \ {s} : own'[t] = own[t]
    BY <1>2 DEF TypeOK, Over
  <2>3. /\ \A r \in D : pending'[s][r] = Append(pending[s][r], entries[r])
        /\ \A r \in Rows \ D : pending'[s][r] = pending[s][r]
        /\ \A t \in Sessions \ {s} : pending'[t] = pending[t]
    BY <1>2 DEF TypeOK, Record, Captures, Subjects
  <2>4. ASSUME NEW r \in D
        PROVE  Tells(table[r], pending'[s][r], images[r])
    <3>1. entries[r] \in Entries
      BY <1>2, CapturesType
    <3>2. Tells(View(s)[r], << entries[r] >>, images[r])
      <4>1. /\ entries[r].action = op /\ entries[r].by = "trigger"
            /\ entries[r].changed = Diff(View(s)[r], images[r])
        BY DEF Captures, CaptureEntry
      <4> QED
        BY <4>1, TellsCapture
    <3>3. Tells(table[r], pending[s][r], View(s)[r])
      BY ViewTold
    <3>4. pending[s][r] \in Seq(Entries)
      BY DEF TypeOK, Subjects
    <3> QED
      BY <2>3, <3>1, <3>2, <3>3, <3>4, TellsAppend
  <2>5. RowsLocked'
    <3>1. \A r \in D : r \in DOMAIN own[s] \/ \A t \in Sessions : r \notin DOMAIN own[t]
      BY DEF Write, Free, Locked
    <3> QED
      BY <2>2, <3>1 DEF RowsLocked
  <2>6. UnwrittenQuiet'
    BY <2>2, <2>3 DEF UnwrittenQuiet
  <2>7. WrittenTold'
    BY <1>2, <2>2, <2>3, <2>4 DEF WrittenTold
  <2>8. TrailTellsTable'
    BY <1>2 DEF TrailTellsTable
  <2> QED
    BY <2>1, <2>5, <2>6, <2>7, <2>8
<1> QED
  BY <1>1, <1>2 DEF Write

\* A verb's entry about a row is none of the trigger's.
LEMMA VerbTellsNothing ==
    ASSUME NEW call, NEW ctx, NEW x, NEW t, NEW image
    PROVE  Tells(image, << VerbEntry(call, ctx, x, t) >>, image)
<1>1. VerbEntry(call, ctx, x, t).by = "verb"
  BY DEF VerbEntry
<1> QED
  BY <1>1, TellsVerb

LEMMA LogEventReplay ==
    ASSUME ReplayInv, NEW s \in Sessions, NEW call \in Calls, LogEvent(s, call)
    PROVE  ReplayInv'
<1> DEFINE entry == VerbEntry(call, context[s], Txid(s), start[s])
<1> USE DEF ReplayInv
<1>1. CASE Abort(s)
  BY <1>1, AbortReplay
<1>2. CASE /\ DeclaredChecks(entry, context[s])
           /\ Record(s, [q \in {call.subject} |-> entry])
           /\ UNCHANGED <<table, trail, own>>
  <2>1. TypeOK'
    BY LogEventType
  <2>2. entry \in Entries
    BY <1>2, VerbEntryType, TxidType DEF TypeOK
  <2>3. /\ \A r \in Rows : \/ pending'[s][r] = pending[s][r]
                           \/ pending'[s][r] = Append(pending[s][r], entry)
        /\ \A t \in Sessions \ {s} : pending'[t] = pending[t]
    BY <1>2 DEF TypeOK, Record, Subjects
  <2>4. ASSUME NEW t \in Sessions, NEW r \in Rows, NEW base, NEW image,
               Tells(base, pending[t][r], image)
        PROVE  Tells(base, pending'[t][r], image)
    <3>1. pending[t][r] \in Seq(Entries)
      BY DEF TypeOK, Subjects
    <3>2. Tells(image, << entry >>, image)
      BY <1>2, VerbTellsNothing
    <3>3. Tells(base, Append(pending[t][r], entry), image)
      BY <2>2, <2>4, <3>1, <3>2, TellsAppend
    <3> QED
      BY <2>3, <2>4, <3>3
  <2>5. RowsLocked'
    BY <1>2 DEF RowsLocked
  <2>6. UnwrittenQuiet'
    BY <1>2, <2>4 DEF UnwrittenQuiet
  <2>7. WrittenTold'
    BY <1>2, <2>4 DEF WrittenTold
  <2>8. TrailTellsTable'
    BY <1>2 DEF TrailTellsTable
  <2> QED
    BY <2>1, <2>5, <2>6, <2>7, <2>8
<1> QED
  BY <1>1, <1>2 DEF LogEvent

LEMMA LogAloneReplay ==
    ASSUME ReplayInv, NEW call \in Calls, NEW ctx \in Contexts, LogAlone(call, ctx)
    PROVE  ReplayInv'
<1> DEFINE entry == VerbEntry(call, ctx, lastXid + 1, clock + 1)
<1> USE DEF ReplayInv
<1>1. TypeOK'
  BY LogAloneType
<1>2. UNCHANGED <<table, own, pending>>
  BY DEF LogAlone, txVars
<1>3. RowsLocked' /\ UnwrittenQuiet' /\ WrittenTold'
  BY <1>2 DEF RowsLocked, UnwrittenQuiet, WrittenTold
<1>4. TrailTellsTable'
  <2> SUFFICES ASSUME NEW r \in Rows
               PROVE  Tells(Absent, trail'[r], table[r])
    BY <1>2 DEF TrailTellsTable
  <2>1. trail[r] \in Seq(Entries) /\ entry \in Entries
    BY VerbEntryType DEF LogAlone, TypeOK, Subjects
  <2>2. Tells(Absent, trail[r], table[r])
    BY DEF TrailTellsTable
  <2>3. Tells(table[r], << entry >>, table[r])
    BY VerbTellsNothing DEF LogAlone
  <2>4. trail'[r] = trail[r] \/ trail'[r] = Append(trail[r], entry)
    BY DEF LogAlone, TypeOK, Subjects
  <2> QED
    BY <2>1, <2>2, <2>3, <2>4, TellsAppend
<1> QED
  BY <1>1, <1>3, <1>4

LEMMA CommitReplay ==
    ASSUME ReplayInv, NEW s \in Sessions, Commit(s)
    PROVE  ReplayInv'
<1> USE DEF ReplayInv
<1>1. TypeOK'
  BY CommitType
<1>2. /\ DOMAIN own'[s] = {}
      /\ \A r \in Rows : pending'[s][r] = << >>
      /\ \A t \in Sessions \ {s} : own'[t] = own[t] /\ pending'[t] = pending[t]
  BY DEF Commit, Discard, TypeOK, NoRows, NoEntries, Subjects
<1>3. \A r \in Rows : table'[r] = View(s)[r] /\ trail'[r] = trail[r] \o pending[s][r]
  BY DEF Commit, Subjects
<1>4. RowsLocked'
  BY <1>2 DEF RowsLocked
<1>5. UnwrittenQuiet'
  BY <1>2, TellsNothing DEF UnwrittenQuiet
<1>6. WrittenTold'
  <2> SUFFICES ASSUME NEW t \in Sessions, NEW r \in Rows, r \in DOMAIN own'[t]
               PROVE  Tells(table'[r], pending'[t][r], own'[t][r])
    BY DEF WrittenTold
  <2>1. t # s /\ r \notin DOMAIN own[s]
    BY <1>2 DEF RowsLocked
  <2>2. table'[r] = table[r]
    BY <1>3, <2>1 DEF View, Over, TypeOK
  <2> QED
    BY <1>2, <2>1, <2>2 DEF WrittenTold
<1>7. TrailTellsTable'
  <2> SUFFICES ASSUME NEW r \in Rows
               PROVE  Tells(Absent, trail'[r], table'[r])
    BY DEF TrailTellsTable
  <2>1. Tells(Absent, trail[r], table[r])
    BY DEF TrailTellsTable
  <2>2. Tells(table[r], pending[s][r], View(s)[r])
    BY ViewTold
  <2>3. trail[r] \in Seq(Entries) /\ pending[s][r] \in Seq(Entries)
    BY DEF TypeOK, Subjects
  <2> QED
    BY <1>3, <2>1, <2>2, <2>3, TellsConcat
<1> QED
  BY <1>1, <1>4, <1>5, <1>6, <1>7

LEMMA CrashReplay ==
    ASSUME ReplayInv, Crash
    PROVE  ReplayInv'
<1> USE DEF ReplayInv
<1>1. TypeOK'
  BY CrashType
<1>2. \A t \in Sessions : DOMAIN own'[t] = {} /\ \A r \in Rows : pending'[t][r] = << >>
  BY DEF Crash, NoRows, NoEntries, Subjects
<1>3. RowsLocked' /\ UnwrittenQuiet' /\ WrittenTold'
  BY <1>2, TellsNothing DEF RowsLocked, UnwrittenQuiet, WrittenTold
<1>4. TrailTellsTable'
  BY DEF Crash, TrailTellsTable
<1> QED
  BY <1>1, <1>3, <1>4

\* Steps that change no row, no entry and no lock.
LEMMA IdleReplay ==
    ASSUME ReplayInv, TypeOK', UNCHANGED <<table, trail, own, pending>>
    PROVE  ReplayInv'
BY DEF ReplayInv, RowsLocked, UnwrittenQuiet, WrittenTold, TrailTellsTable

LEMMA StatementReplay ==
    ASSUME ReplayInv, NEW s \in Sessions, Statement(s)
    PROVE  ReplayInv'
<1>0. TypeOK
  BY DEF ReplayInv
<1>1. ASSUME NEW r \in Rows, NEW image \in Image, Insert(s, r, image)
      PROVE  ReplayInv'
  <2> DEFINE images == [q \in {r} |-> image]
  <2>1. images \in [{r} -> RowImages] /\ {r} \in SUBSET Rows /\ "insert" \in Ops
    BY DEF RowImages, Ops
  <2>2. \A q \in {r} : "insert" = "delete" <=> images[q] = Absent
    BY AbsentAssumption DEF Image, Cells
  <2>3. Write(s, "insert", images)
    BY <1>1 DEF Insert
  <2> HIDE DEF images
  <2> QED
    BY <2>1, <2>2, <2>3, WriteReplay
<1>2. ASSUME NEW D \in SUBSET Rows, NEW patch \in Patches, Update(s, D, patch)
      PROVE  ReplayInv'
  <2> DEFINE images == [r \in D |-> Over(patch, View(s)[r])]
  <2>1. images \in [D -> RowImages] /\ "update" \in Ops
    BY <1>0, <1>2, PatchType DEF Update, Ops
  <2>2. \A r \in D : "update" = "delete" <=> images[r] = Absent
    <3> TAKE r \in D
    <3>1. View(s)[r] \in Image
      BY <1>0, <1>2, ViewType DEF Update, RowImages
    <3>2. images[r] \in Image
      BY <1>0, <3>1, PatchImage
    <3> QED
      BY <3>2, AbsentAssumption DEF Image, Cells
  <2>3. Write(s, "update", images)
    BY <1>2 DEF Update
  <2> HIDE DEF images
  <2> QED
    BY <2>1, <2>2, <2>3, WriteReplay
<1>3. ASSUME NEW D \in SUBSET Rows, Delete(s, D)
      PROVE  ReplayInv'
  <2> DEFINE images == [r \in D |-> Absent]
  <2>1. images \in [D -> RowImages] /\ "delete" \in Ops
    BY DEF RowImages, Ops
  <2>2. \A r \in D : "delete" = "delete" <=> images[r] = Absent
    OBVIOUS
  <2>3. Write(s, "delete", images)
    BY <1>3 DEF Delete
  <2> HIDE DEF images
  <2> QED
    BY <2>1, <2>2, <2>3, WriteReplay
<1>4. ASSUME NEW call \in Calls, LogEvent(s, call)
      PROVE  ReplayInv'
  BY <1>4, LogEventReplay
<1>5. ASSUME NEW ctx \in Contexts, SetContext(s, ctx)
      PROVE  ReplayInv'
  <2>1. TypeOK'
    BY <1>0, <1>5 DEF SetContext, TypeOK
  <2> QED
    BY <1>5, <2>1, IdleReplay DEF SetContext
<1>6. ASSUME NEW q \in Subjects, RewriteTrail(s, q)
      PROVE  ReplayInv'
  BY <1>6, AbortReplay DEF RewriteTrail
<1>7. ASSUME Fail(s)
      PROVE  ReplayInv'
  BY <1>7, AbortReplay DEF Fail
<1> QED
  BY <1>1, <1>2, <1>3, <1>4, <1>5, <1>6, <1>7 DEF Statement

LEMMA NextReplay == ReplayInv /\ [Next]_vars => ReplayInv'
<1> SUFFICES ASSUME ReplayInv, [Next]_vars
             PROVE  ReplayInv'
  OBVIOUS
<1>0. TypeOK'
  BY NextTypeOK DEF ReplayInv
<1>1. ASSUME NEW s \in Sessions, Begin(s)
      PROVE  ReplayInv'
  BY <1>0, <1>1, IdleReplay DEF Begin
<1>2. ASSUME NEW s \in Sessions, Statement(s)
      PROVE  ReplayInv'
  BY <1>2, StatementReplay
<1>3. ASSUME NEW s \in Sessions, Commit(s)
      PROVE  ReplayInv'
  BY <1>3, CommitReplay
<1>4. ASSUME NEW s \in Sessions, Rollback(s)
      PROVE  ReplayInv'
  BY <1>4, DiscardReplay DEF Rollback
<1>5. ASSUME NEW call \in Calls, NEW ctx \in Contexts, LogAlone(call, ctx)
      PROVE  ReplayInv'
  BY <1>5, LogAloneReplay
<1>6. CASE Crash
  BY <1>6, CrashReplay
<1>7. CASE UNCHANGED vars
  BY <1>0, <1>7, IdleReplay DEF vars, txVars
<1> QED
  BY <1>1, <1>2, <1>3, <1>4, <1>5, <1>6, <1>7 DEF Next

\* The trail alone reconstructs the audited table, whatever sessions do and
\* however their transactions interleave, fail or are lost.
THEOREM TrailIsTheTruth == Spec => []TrailTellsTable
<1>1. Init => ReplayInv
  BY InitReplay
<1>2. ReplayInv /\ [Next]_vars => ReplayInv'
  BY NextReplay
<1>3. ReplayInv => TrailTellsTable
  BY DEF ReplayInv
<1> QED
  BY <1>1, <1>2, <1>3, PTL DEF Spec

-----------------------------------------------------------------------------
(* What a reader of the columns is told.                                   *)

\* An entry whose columns say which lane it came by.
Signed(e) == e.by = "trigger" <=> TriggersColumns(e)

SignedList(es) == \A i \in DOMAIN es : Signed(es[i])

\* About a row that no service impersonates the trigger about, every entry is
\* signed: the trigger always signs, and no verb signs as the trigger.
RowsSigned ==
    \A r \in Rows : ~Impersonated(r) =>
        /\ SignedList(trail[r])
        /\ \A s \in Sessions : SignedList(pending[s][r])

SignInv == TypeOK /\ RowsSigned

LEMMA SignedConcat ==
    ASSUME NEW s \in Seq(Entries), NEW t \in Seq(Entries), SignedList(s), SignedList(t)
    PROVE  SignedList(s \o t)
<1> SUFFICES ASSUME NEW i \in DOMAIN (s \o t)
             PROVE  Signed((s \o t)[i])
  BY DEF SignedList
<1>1. \/ i \in DOMAIN s /\ (s \o t)[i] = s[i]
      \/ \E j \in DOMAIN t : (s \o t)[i] = t[j]
  BY ConcatSource
<1> QED
  BY <1>1 DEF SignedList

LEMMA SignedAppend ==
    ASSUME NEW es \in Seq(Entries), NEW e \in Entries, SignedList(es), Signed(e)
    PROVE  SignedList(Append(es, e))
<1>1. \A i \in DOMAIN Append(es, e) :
          (i \in DOMAIN es /\ Append(es, e)[i] = es[i]) \/ Append(es, e)[i] = e
  BY AppendSource
<1> QED
  BY <1>1 DEF SignedList

LEMMA SignedNothing == SignedList(<< >>)
BY DEF SignedList

\* What a service logs without impersonating the trigger.
LEMMA VerbSigns ==
    ASSUME NEW call \in Calls, NEW r \in Rows, call.subject = r, ~Impersonated(r),
           NEW ctx, NEW x, NEW t
    PROVE  Signed(VerbEntry(call, ctx, x, t))
<1>1. ~TriggersColumns(call)
  BY DEF Impersonated
<1> QED
  BY <1>1 DEF TriggersColumns, VerbEntry, Signed

LEMMA WriteSigns ==
    ASSUME SignInv, NEW s \in Sessions, NEW op \in Ops,
           NEW D \in SUBSET Rows, NEW images \in [D -> RowImages],
           Write(s, op, images)
    PROVE  RowsSigned'
<1> DEFINE entries == Captures(s, op, images)
<1>0. TypeOK /\ RowsSigned
  BY DEF SignInv
<1>1. CASE Abort(s)
  <2>1. \A t \in Sessions : \A r \in Rows :
            pending'[t][r] = pending[t][r] \/ pending'[t][r] = << >>
    BY <1>0, <1>1 DEF Abort, Discard, TypeOK, NoEntries, Subjects
  <2> QED
    BY <1>0, <1>1, <2>1, SignedNothing DEF Abort, RowsSigned, Impersonated
<1>2. CASE /\ \A r \in D : DeclaredChecks(entries[r], context[s])
           /\ Record(s, entries)
           /\ UNCHANGED trail
  <2>1. ASSUME NEW r \in D
        PROVE  entries[r] \in Entries /\ Signed(entries[r])
    <3>1. entries[r] \in Entries
      BY <1>0, <1>2, CapturesType
    <3>2. /\ entries[r].by = "trigger" /\ entries[r].event = "data_change"
          /\ entries[r].action = op
      BY DEF Captures, CaptureEntry
    <3> QED
      BY <3>1, <3>2 DEF Signed, TriggersColumns
  <2>2. ASSUME NEW t \in Sessions, NEW r \in Rows
        PROVE  \/ pending'[t][r] = pending[t][r]
               \/ t = s /\ r \in D /\ pending'[t][r] = Append(pending[t][r], entries[r])
    BY <1>0, <1>2 DEF TypeOK, Record, Captures, Subjects
  <2>3. \A t \in Sessions : \A r \in Rows : pending[t][r] \in Seq(Entries)
    BY <1>0 DEF TypeOK, Subjects
  <2> HIDE DEF entries
  <2>4. ASSUME NEW t \in Sessions, NEW r \in Rows, SignedList(pending[t][r])
        PROVE  SignedList(pending'[t][r])
    BY <2>1, <2>2, <2>3, <2>4, SignedAppend
  <2> QED
    BY <1>0, <1>2, <2>4 DEF RowsSigned, Impersonated
<1> QED
  BY <1>1, <1>2 DEF Write

LEMMA LogEventSigns ==
    ASSUME SignInv, NEW s \in Sessions, NEW call \in Calls, LogEvent(s, call)
    PROVE  RowsSigned'
<1> DEFINE entry == VerbEntry(call, context[s], Txid(s), start[s])
<1>0. TypeOK /\ RowsSigned
  BY DEF SignInv
<1>1. CASE Abort(s)
  <2>1. \A t \in Sessions : \A r \in Rows :
            pending'[t][r] = pending[t][r] \/ pending'[t][r] = << >>
    BY <1>0, <1>1 DEF Abort, Discard, TypeOK, NoEntries, Subjects
  <2> QED
    BY <1>0, <1>1, <2>1, SignedNothing DEF Abort, RowsSigned, Impersonated
<1>2. CASE /\ DeclaredChecks(entry, context[s])
           /\ Record(s, [q \in {call.subject} |-> entry])
           /\ UNCHANGED trail
  <2>1. entry \in Entries
    BY <1>0, <1>2, VerbEntryType, TxidType DEF TypeOK
  <2>2. \A r \in Rows : call.subject = r /\ ~Impersonated(r) => Signed(entry)
    BY VerbSigns
  <2>3. ASSUME NEW t \in Sessions, NEW r \in Rows
        PROVE  \/ pending'[t][r] = pending[t][r]
               \/ call.subject = r /\ pending'[t][r] = Append(pending[t][r], entry)
    BY <1>0, <1>2 DEF TypeOK, Record, Subjects
  <2>4. \A t \in Sessions : \A r \in Rows : pending[t][r] \in Seq(Entries)
    BY <1>0 DEF TypeOK, Subjects
  <2> HIDE DEF entry
  <2>5. ASSUME NEW t \in Sessions, NEW r \in Rows, ~Impersonated(r),
               SignedList(pending[t][r])
        PROVE  SignedList(pending'[t][r])
    BY <2>1, <2>2, <2>3, <2>4, <2>5, SignedAppend
  <2> QED
    BY <1>0, <1>2, <2>5 DEF RowsSigned, Impersonated
<1> QED
  BY <1>1, <1>2 DEF LogEvent

LEMMA LogAloneSigns ==
    ASSUME SignInv, NEW call \in Calls, NEW ctx \in Contexts, LogAlone(call, ctx)
    PROVE  RowsSigned'
<1> DEFINE entry == VerbEntry(call, ctx, lastXid + 1, clock + 1)
<1>0. TypeOK /\ RowsSigned
  BY DEF SignInv
<1>1. entry \in Entries
  BY <1>0, VerbEntryType DEF LogAlone, TypeOK
<1>2. \A r \in Rows : call.subject = r /\ ~Impersonated(r) => Signed(entry)
  BY VerbSigns
<1>3. /\ \A r \in Rows : /\ trail[r] \in Seq(Entries)
                          /\ \/ trail'[r] = trail[r]
                             \/ call.subject = r /\ trail'[r] = Append(trail[r], entry)
      /\ UNCHANGED pending
  BY <1>0 DEF LogAlone, TypeOK, Subjects, txVars
<1> HIDE DEF entry
<1>4. ASSUME NEW r \in Rows, ~Impersonated(r), SignedList(trail[r])
      PROVE  SignedList(trail'[r])
  BY <1>1, <1>2, <1>3, <1>4, SignedAppend
<1> QED
  BY <1>0, <1>3, <1>4 DEF RowsSigned, Impersonated

LEMMA CommitSigns ==
    ASSUME SignInv, NEW s \in Sessions, Commit(s)
    PROVE  RowsSigned'
<1>0. TypeOK /\ RowsSigned
  BY DEF SignInv
<1>1. \A r \in Rows : /\ trail[r] \in Seq(Entries) /\ pending[s][r] \in Seq(Entries)
                      /\ trail'[r] = trail[r] \o pending[s][r]
  BY <1>0 DEF Commit, TypeOK, Subjects
<1>2. \A t \in Sessions : \A r \in Rows :
          pending'[t][r] = pending[t][r] \/ pending'[t][r] = << >>
  BY <1>0 DEF Commit, Discard, TypeOK, NoEntries, Subjects
<1> QED
  BY <1>0, <1>1, <1>2, SignedNothing, SignedConcat DEF RowsSigned, Impersonated

\* Steps that leave the trail alone and insert nothing.
LEMMA QuietSigns ==
    ASSUME SignInv, UNCHANGED trail,
           \A s \in Sessions : \A r \in Rows :
               pending'[s][r] = pending[s][r] \/ pending'[s][r] = << >>
    PROVE  RowsSigned'
BY SignedNothing DEF SignInv, RowsSigned, Impersonated

LEMMA StatementSigns ==
    ASSUME SignInv, NEW s \in Sessions, Statement(s)
    PROVE  RowsSigned'
<1>0. TypeOK
  BY DEF SignInv
<1>1. ASSUME NEW r \in Rows, NEW image \in Image, Insert(s, r, image)
      PROVE  RowsSigned'
  <2>1. [q \in {r} |-> image] \in [{r} -> RowImages]
    BY DEF RowImages
  <2>2. Write(s, "insert", [q \in {r} |-> image])
    BY <1>1 DEF Insert
  <2> QED
    BY <2>1, <2>2, WriteSigns DEF Ops
<1>2. ASSUME NEW D \in SUBSET Rows, NEW patch \in Patches, Update(s, D, patch)
      PROVE  RowsSigned'
  BY <1>0, <1>2, PatchType, WriteSigns DEF Update, Ops
<1>3. ASSUME NEW D \in SUBSET Rows, Delete(s, D)
      PROVE  RowsSigned'
  <2>1. [r \in D |-> Absent] \in [D -> RowImages]
    BY DEF RowImages
  <2> QED
    BY <1>3, <2>1, WriteSigns DEF Delete, Ops
<1>4. ASSUME NEW call \in Calls, LogEvent(s, call)
      PROVE  RowsSigned'
  BY <1>4, LogEventSigns
<1>5. CASE Abort(s)
  <2>1. \A t \in Sessions : \A r \in Rows :
            pending'[t][r] = pending[t][r] \/ pending'[t][r] = << >>
    BY <1>0, <1>5 DEF Abort, Discard, TypeOK, NoEntries, Subjects
  <2> QED
    BY <1>5, <2>1, QuietSigns DEF Abort
<1>6. ASSUME NEW ctx \in Contexts, SetContext(s, ctx)
      PROVE  RowsSigned'
  BY <1>6, QuietSigns DEF SetContext
<1> QED
  BY <1>1, <1>2, <1>3, <1>4, <1>5, <1>6 DEF Statement, RewriteTrail, Fail

LEMMA NextSigns == SignInv /\ [Next]_vars => SignInv'
<1> SUFFICES ASSUME SignInv, [Next]_vars
             PROVE  RowsSigned'
  BY NextTypeOK DEF SignInv
<1>0. TypeOK
  BY DEF SignInv
<1>1. ASSUME NEW s \in Sessions, Begin(s)
      PROVE  RowsSigned'
  BY <1>1, QuietSigns DEF Begin
<1>2. ASSUME NEW s \in Sessions, Rollback(s)
      PROVE  RowsSigned'
  <2>1. \A t \in Sessions : \A r \in Rows :
            pending'[t][r] = pending[t][r] \/ pending'[t][r] = << >>
    BY <1>0, <1>2 DEF Rollback, Discard, TypeOK, NoEntries, Subjects
  <2> QED
    BY <1>2, <2>1, QuietSigns DEF Rollback
<1>3. CASE Crash
  <2>1. \A t \in Sessions : \A r \in Rows : pending'[t][r] = << >>
    BY <1>3 DEF Crash, NoEntries, Subjects
  <2> QED
    BY <1>3, <2>1, QuietSigns DEF Crash
<1>4. CASE UNCHANGED vars
  BY <1>4, QuietSigns DEF vars, txVars
<1> QED
  BY <1>1, <1>2, <1>3, <1>4, StatementSigns, CommitSigns, LogAloneSigns DEF Next

\* A signed list reads as it was written.
LEMMA SignedReads ==
    ASSUME NEW es \in Seq(Entries), SignedList(es)
    PROVE  AsRead(es) = es
<1>1. ASSUME NEW i \in DOMAIN es
      PROVE  [es[i] EXCEPT !.by = IF TriggersColumns(es[i]) THEN "trigger" ELSE "verb"] = es[i]
  <2>1. es[i] \in Entries
    OBVIOUS
  <2>2. es[i].by = IF TriggersColumns(es[i]) THEN "trigger" ELSE "verb"
    BY <2>1 DEF SignedList, Signed, Entries
  <2> QED
    BY <2>1, <2>2 DEF Entries
<1>2. es = [i \in DOMAIN es |-> es[i]]
  OBVIOUS
<1> QED
  BY <1>1, <1>2 DEF AsRead

\* A reader of the columns is told the table too, of every row that no
\* service impersonates the trigger about, whatever else services log.
THEOREM ColumnsTell == Spec => []ColumnsTellTable
<1>1. Init => SignInv
  BY InitTypeOK, SignedNothing DEF Init, SignInv, RowsSigned, NoEntries, Subjects
<1>2. SignInv /\ ReplayInv => ColumnsTellTable
  <2> SUFFICES ASSUME SignInv, ReplayInv, NEW r \in Rows, ~Impersonated(r)
               PROVE  Tells(Absent, AsRead(trail[r]), table[r])
    BY DEF ColumnsTellTable
  <2>1. trail[r] \in Seq(Entries) /\ SignedList(trail[r])
    BY DEF SignInv, RowsSigned, TypeOK, Subjects
  <2>2. Tells(Absent, trail[r], table[r])
    BY DEF ReplayInv, TrailTellsTable
  <2> QED
    BY <2>1, <2>2, SignedReads
<1> QED
  BY <1>1, <1>2, NextSigns, InitReplay, NextReplay, PTL DEF Spec

-----------------------------------------------------------------------------
(* The chain of diffs.                                                     *)

\* Each captured entry of a list picks up where those before it left a row
\* whose image was base.
Chained(base, es) ==
    \A i \in Captured(es) :
        LET before == SubSeq(es, 1, i - 1)
        IN  /\ ToldPresent(base, before) <=> es[i].action # "insert"
            /\ \A f \in DOMAIN es[i].changed :
                   es[i].changed[f].from = ToldCell(base, before, f)

\* The same of what transactions have pending, from the committed image.
PendingChained == \A s \in Sessions : \A r \in Rows : Chained(table[r], pending[s][r])

ChainInv ==
    /\ ReplayInv
    /\ PendingChained
    /\ DiffsChain

\* An entry that picks up at the image mid, after entries that tell of it.
PicksUp(e, mid) ==
    e.by = "trigger" =>
        /\ mid # Absent <=> e.action # "insert"
        /\ \A f \in DOMAIN e.changed : e.changed[f].from = Cell(mid, f)

LEMMA ChainedNothing ==
    ASSUME NEW base
    PROVE  Chained(base, << >>)
BY DEF Chained, Captured

\* A list and what comes before its entries, in a longer list.
LEMMA BeforeInConcat ==
    ASSUME NEW s \in Seq(Entries), NEW t \in Seq(Entries)
    PROVE  /\ \A i \in 1..Len(s) : /\ (s \o t)[i] = s[i]
                                   /\ SubSeq(s \o t, 1, i - 1) = SubSeq(s, 1, i - 1)
           /\ \A k \in 1..Len(t) : /\ (s \o t)[Len(s) + k] = t[k]
                                   /\ SubSeq(s \o t, 1, Len(s) + k - 1) = s \o SubSeq(t, 1, k - 1)
                                   /\ SubSeq(t, 1, k - 1) \in Seq(Entries)
<1>1. /\ Len(s) \in Nat /\ Len(t) \in Nat /\ Len(s \o t) = Len(s) + Len(t)
      /\ s \o t \in Seq(Entries)
      /\ \A i \in 1..Len(s) : (s \o t)[i] = s[i]
      /\ \A k \in 1..Len(t) : (s \o t)[Len(s) + k] = t[k]
  OBVIOUS
<1>2. ASSUME NEW i \in 1..Len(s)
      PROVE  SubSeq(s \o t, 1, i - 1) = SubSeq(s, 1, i - 1)
  BY <1>1
<1>3. ASSUME NEW k \in 1..Len(t)
      PROVE  /\ SubSeq(s \o t, 1, Len(s) + k - 1) = s \o SubSeq(t, 1, k - 1)
             /\ SubSeq(t, 1, k - 1) \in Seq(Entries)
  <2> DEFINE u == SubSeq(s \o t, 1, Len(s) + k - 1)
             v == SubSeq(t, 1, k - 1)
  <2>1. v \in Seq(Entries) /\ Len(v) = k - 1 /\ \A j \in 1..(k - 1) : v[j] = t[j]
    BY <1>1
  <2>2. /\ u \in Seq(Entries) /\ Len(u) = Len(s) + k - 1
        /\ \A j \in 1..(Len(s) + k - 1) : u[j] = (s \o t)[j]
    BY <1>1
  <2>3. s \o v \in Seq(Entries) /\ Len(s \o v) = Len(u)
    BY <1>1, <2>1, <2>2
  <2> HIDE DEF u, v
  <2>4. ASSUME NEW j \in 1..Len(u)
        PROVE  u[j] = (s \o v)[j]
    <3>1. CASE j <= Len(s)
      BY <1>1, <2>1, <2>2, <3>1
    <3>2. CASE j > Len(s)
      <4>1. j - Len(s) \in 1..(k - 1) /\ j - Len(s) \in 1..Len(t) /\ j = Len(s) + (j - Len(s))
        BY <1>1, <2>2, <3>2
      <4>2. u[j] = t[j - Len(s)]
        BY <1>1, <2>2, <4>1
      <4>3. (s \o v)[j] = v[j - Len(s)]
        BY <1>1, <2>1, <4>1
      <4> QED
        BY <2>1, <4>1, <4>2, <4>3
    <3>3. j <= Len(s) \/ j > Len(s)
      <4>1. j \in Nat /\ Len(s) \in Nat
        BY <1>1, <2>2
      <4> QED
        BY <4>1
    <3> QED
      BY <3>1, <3>2, <3>3
  <2> QED
    BY <2>1, <2>2, <2>3, <2>4 DEF u, v
<1> QED
  BY <1>1, <1>2, <1>3

\* Two chains make one where the second begins at what the first tells.
LEMMA ChainedConcat ==
    ASSUME NEW s \in Seq(Entries), NEW t \in Seq(Entries), NEW a, NEW b,
           Tells(a, s, b), Chained(a, s), Chained(b, t)
    PROVE  Chained(a, s \o t)
<1> SUFFICES ASSUME NEW i \in Captured(s \o t)
             PROVE  LET before == SubSeq(s \o t, 1, i - 1)
                        e == (s \o t)[i]
                    IN  /\ ToldPresent(a, before) <=> e.action # "insert"
                        /\ \A f \in DOMAIN e.changed :
                               e.changed[f].from = ToldCell(a, before, f)
  BY DEF Chained
<1>1. /\ Len(s) \in Nat /\ Len(t) \in Nat /\ i \in 1..(Len(s) + Len(t))
      /\ DOMAIN s = 1..Len(s) /\ DOMAIN t = 1..Len(t)
  BY DEF Captured
<1>2. CASE i <= Len(s)
  <2>1. /\ i \in 1..Len(s) /\ (s \o t)[i] = s[i]
        /\ SubSeq(s \o t, 1, i - 1) = SubSeq(s, 1, i - 1)
    BY <1>1, <1>2, BeforeInConcat
  <2>2. i \in Captured(s)
    BY <1>1, <2>1 DEF Captured
  <2> QED
    BY <2>1, <2>2 DEF Chained
<1>3. CASE i > Len(s)
  <2> DEFINE k == i - Len(s)
  <2>1. k \in 1..Len(t) /\ i = Len(s) + k
    BY <1>1, <1>3
  <2> HIDE DEF k
  <2>2. /\ (s \o t)[i] = t[k] /\ SubSeq(t, 1, k - 1) \in Seq(Entries)
        /\ SubSeq(s \o t, 1, i - 1) = s \o SubSeq(t, 1, k - 1)
    <3>1. /\ (s \o t)[Len(s) + k] = t[k] /\ SubSeq(t, 1, k - 1) \in Seq(Entries)
          /\ SubSeq(s \o t, 1, Len(s) + k - 1) = s \o SubSeq(t, 1, k - 1)
      BY <2>1, BeforeInConcat
    <3> QED
      BY <2>1, <3>1
  <2>3. k \in Captured(t)
    BY <1>1, <2>1, <2>2 DEF Captured
  <2>4. /\ ToldPresent(b, SubSeq(t, 1, k - 1)) <=> t[k].action # "insert"
        /\ \A f \in DOMAIN t[k].changed :
               t[k].changed[f].from = ToldCell(b, SubSeq(t, 1, k - 1), f)
    BY <2>3 DEF Chained
  <2>5. DOMAIN t[k].changed \subseteq Fields
    <3>1. t[k] \in Entries
      BY <2>1
    <3> QED
      BY <3>1 DEF Entries, Diffs, PartialFcns
  <2>6. /\ ToldPresent(a, s \o SubSeq(t, 1, k - 1)) <=> ToldPresent(b, SubSeq(t, 1, k - 1))
        /\ \A f \in Fields : ToldCell(a, s \o SubSeq(t, 1, k - 1), f)
                               = ToldCell(b, SubSeq(t, 1, k - 1), f)
    <3> DEFINE v == SubSeq(t, 1, k - 1)
    <3>1. v \in Seq(Entries)
      BY <2>2
    <3> HIDE DEF v
    <3>2. /\ ToldPresent(a, s \o v) <=> ToldPresent(b, v)
          /\ \A f \in Fields : ToldCell(a, s \o v, f) = ToldCell(b, v, f)
      BY <3>1, ToldConcat
    <3> QED
      BY <3>2 DEF v
  <2> QED
    BY <2>2, <2>4, <2>5, <2>6
<1> QED
  BY <1>1, <1>2, <1>3

LEMMA ChainedAppend ==
    ASSUME NEW es \in Seq(Entries), NEW e \in Entries, NEW base, NEW mid,
           Tells(base, es, mid), Chained(base, es), PicksUp(e, mid)
    PROVE  Chained(base, Append(es, e))
<1>1. Append(es, e) = es \o << e >> /\ << e >> \in Seq(Entries)
  OBVIOUS
<1>2. Chained(mid, << e >>)
  <2>1. \A i \in DOMAIN << e >> : << e >>[i] = e /\ SubSeq(<< e >>, 1, i - 1) = << >>
    BY <1>1
  <2>2. Captured(<< >>) = {} /\ \A f : Mentions(<< >>, f) = {}
    BY DEF Captured, Mentions
  <2>3. ToldPresent(mid, << >>) <=> mid # Absent
    BY <2>2 DEF ToldPresent
  <2>4. \A f : ToldCell(mid, << >>, f) = Cell(mid, f)
    BY <2>2 DEF ToldCell
  <2> QED
    BY <2>1, <2>3, <2>4 DEF Chained, Captured, PicksUp
<1> QED
  BY <1>1, <1>2, ChainedConcat

\* A transaction has captured nothing about a row it did not write.
LEMMA UnwrittenUncaptured ==
    ASSUME ReplayInv, NEW s \in Sessions, NEW r \in Rows, r \notin DOMAIN own[s]
    PROVE  Captured(pending[s][r]) = {}
<1> DEFINE nulls == [f \in Fields |-> Null]
<1>1. Absent \in RowImages /\ nulls \in RowImages /\ nulls # Absent
  BY AbsentAssumption DEF RowImages, Image, Cells
<1> HIDE DEF nulls
<1>2. Tells(Absent, pending[s][r], Absent) /\ Tells(nulls, pending[s][r], nulls)
  BY <1>1 DEF ReplayInv, UnwrittenQuiet
<1> QED
  BY <1>1, <1>2 DEF Tells, ToldPresent

LEMMA InitChain == Init => ChainInv
BY InitReplay, ChainedNothing
   DEF Init, ChainInv, PendingChained, DiffsChain, NoEntries, Subjects, Captured

\* Steps that end or leave transactions and change neither table nor trail.
LEMMA QuietChain ==
    ASSUME ChainInv, ReplayInv', UNCHANGED <<table, trail>>,
           \A s \in Sessions : \A r \in Rows :
               pending'[s][r] = pending[s][r] \/ pending'[s][r] = << >>
    PROVE  ChainInv'
<1>1. PendingChained'
  BY ChainedNothing DEF ChainInv, PendingChained
<1>2. DiffsChain'
  BY DEF ChainInv, DiffsChain
<1> QED
  BY <1>1, <1>2 DEF ChainInv

LEMMA DiscardChain ==
    ASSUME ChainInv, NEW s \in Sessions, NEW st \in {"idle", "aborted"}, Discard(s, st),
           UNCHANGED <<table, trail, clock, lastXid>>
    PROVE  ChainInv'
<1>1. ReplayInv'
  BY DiscardReplay DEF ChainInv
<1>2. \A t \in Sessions : \A r \in Rows :
          pending'[t][r] = pending[t][r] \/ pending'[t][r] = << >>
  BY DEF Discard, ChainInv, ReplayInv, TypeOK, NoEntries, Subjects
<1> QED
  BY <1>1, <1>2, QuietChain

LEMMA AbortChain ==
    ASSUME ChainInv, NEW s \in Sessions, Abort(s)
    PROVE  ChainInv'
BY DiscardChain DEF Abort

\* What a statement captures picks up at what its transaction sees.
LEMMA WriteChain ==
    ASSUME ChainInv, NEW s \in Sessions, NEW op \in Ops,
           NEW D \in SUBSET Rows, NEW images \in [D -> RowImages],
           \A r \in D : op = "delete" <=> images[r] = Absent,
           \A r \in D : op = "insert" <=> View(s)[r] = Absent,
           Write(s, op, images)
    PROVE  ChainInv'
<1> DEFINE entries == Captures(s, op, images)
<1>0. ReplayInv' /\ TypeOK
  BY WriteReplay DEF ChainInv, ReplayInv
<1>1. CASE Abort(s)
  BY <1>1, AbortChain
<1>2. CASE /\ \A r \in D : DeclaredChecks(entries[r], context[s])
           /\ Record(s, entries)
           /\ UNCHANGED <<table, trail>>
  <2>1. ASSUME NEW t \in Sessions, NEW r \in Rows
        PROVE  \/ pending'[t][r] = pending[t][r]
               \/ t = s /\ r \in D /\ pending'[t][r] = Append(pending[t][r], entries[r])
    BY <1>0, <1>2 DEF TypeOK, Record, Captures, Subjects
  <2>2. ASSUME NEW r \in D
        PROVE  Chained(table[r], Append(pending[s][r], entries[r]))
    <3>1. entries[r] \in Entries
      BY <1>0, <1>2, CapturesType
    <3>2. pending[s][r] \in Seq(Entries)
      BY <1>0 DEF TypeOK, Subjects
    <3>3. Tells(table[r], pending[s][r], View(s)[r])
      BY ViewTold DEF ChainInv
    <3>4. Chained(table[r], pending[s][r])
      BY DEF ChainInv, PendingChained
    <3>5. PicksUp(entries[r], View(s)[r])
      <4>1. entries[r].action = op /\ entries[r].changed = Diff(View(s)[r], images[r])
        BY DEF Captures, CaptureEntry
      <4> QED
        BY <4>1 DEF PicksUp, Diff
    <3> HIDE DEF entries
    <3> QED
      BY <3>1, <3>2, <3>3, <3>4, <3>5, ChainedAppend
  <2>3. ASSUME NEW t \in Sessions, NEW r \in Rows
        PROVE  Chained(table[r], pending'[t][r])
    <3>1. CASE pending'[t][r] = pending[t][r]
      BY <3>1 DEF ChainInv, PendingChained
    <3>2. CASE t = s /\ r \in D /\ pending'[t][r] = Append(pending[t][r], entries[r])
      BY <2>2, <3>2
    <3> QED
      BY <2>1, <3>1, <3>2
  <2>5. PendingChained'
    BY <1>2, <2>3 DEF PendingChained
  <2>4. DiffsChain'
    BY <1>2 DEF ChainInv, DiffsChain
  <2> QED
    BY <1>0, <2>4, <2>5 DEF ChainInv
<1> QED
  BY <1>1, <1>2 DEF Write

\* A verb's entry is not the trigger's, and chains anywhere.
LEMMA VerbPicksUp ==
    ASSUME NEW call, NEW ctx, NEW x, NEW t, NEW image
    PROVE  PicksUp(VerbEntry(call, ctx, x, t), image)
BY DEF VerbEntry, PicksUp

LEMMA LogEventChain ==
    ASSUME ChainInv, NEW s \in Sessions, NEW call \in Calls, LogEvent(s, call)
    PROVE  ChainInv'
<1> DEFINE entry == VerbEntry(call, context[s], Txid(s), start[s])
<1>0. ReplayInv' /\ TypeOK
  BY LogEventReplay DEF ChainInv, ReplayInv
<1>1. CASE Abort(s)
  BY <1>1, AbortChain
<1>2. CASE /\ DeclaredChecks(entry, context[s])
           /\ Record(s, [q \in {call.subject} |-> entry])
           /\ UNCHANGED <<table, trail>>
  <2>1. entry \in Entries
    BY <1>0, <1>2, VerbEntryType, TxidType DEF TypeOK
  <2>2. \A t \in Sessions : \A r \in Rows :
            \/ pending'[t][r] = pending[t][r]
            \/ t = s /\ pending'[t][r] = Append(pending[t][r], entry)
    BY <1>0, <1>2 DEF TypeOK, Record, Subjects
  <2>3. ASSUME NEW r \in Rows
        PROVE  Chained(table[r], Append(pending[s][r], entry))
    <3>1. pending[s][r] \in Seq(Entries)
      BY <1>0 DEF TypeOK, Subjects
    <3>2. Tells(table[r], pending[s][r], View(s)[r])
      BY ViewTold DEF ChainInv
    <3>3. Chained(table[r], pending[s][r]) /\ PicksUp(entry, View(s)[r])
      BY <1>2, VerbPicksUp DEF ChainInv, PendingChained
    <3> HIDE DEF entry
    <3> QED
      BY <2>1, <3>1, <3>2, <3>3, ChainedAppend
  <2>4. PendingChained' /\ DiffsChain'
    BY <1>2, <2>2, <2>3 DEF ChainInv, PendingChained, DiffsChain
  <2> QED
    BY <1>0, <2>4 DEF ChainInv
<1> QED
  BY <1>1, <1>2 DEF LogEvent

\* The trail chains on if what is appended to it does.
LEMMA TrailChains ==
    ASSUME \A r \in Rows : Chained(Absent, trail'[r])
    PROVE  DiffsChain'
BY DEF Chained, DiffsChain

LEMMA LogAloneChain ==
    ASSUME ChainInv, NEW call \in Calls, NEW ctx \in Contexts, LogAlone(call, ctx)
    PROVE  ChainInv'
<1> DEFINE entry == VerbEntry(call, ctx, lastXid + 1, clock + 1)
<1>0. ReplayInv' /\ TypeOK
  BY LogAloneReplay DEF ChainInv, ReplayInv
<1>1. ASSUME NEW r \in Rows
      PROVE  Chained(Absent, trail'[r])
  <2>1. trail[r] \in Seq(Entries) /\ entry \in Entries
    BY <1>0, VerbEntryType DEF LogAlone, TypeOK, Subjects
  <2>2. Tells(Absent, trail[r], table[r]) /\ Chained(Absent, trail[r])
    BY DEF ChainInv, ReplayInv, TrailTellsTable, DiffsChain, Chained
  <2>3. PicksUp(entry, table[r])
    BY VerbPicksUp DEF LogAlone
  <2>4. trail'[r] = trail[r] \/ trail'[r] = Append(trail[r], entry)
    BY <1>0 DEF LogAlone, TypeOK, Subjects
  <2> HIDE DEF entry
  <2> QED
    BY <2>1, <2>2, <2>3, <2>4, ChainedAppend
<1>2. PendingChained'
  BY DEF ChainInv, PendingChained, LogAlone, txVars
<1> QED
  BY <1>0, <1>1, <1>2, TrailChains DEF ChainInv

LEMMA CommitChain ==
    ASSUME ChainInv, NEW s \in Sessions, Commit(s)
    PROVE  ChainInv'
<1>0. ReplayInv' /\ TypeOK
  BY CommitReplay DEF ChainInv, ReplayInv
<1>1. ASSUME NEW r \in Rows
      PROVE  Chained(Absent, trail'[r])
  <2>1. trail[r] \in Seq(Entries) /\ pending[s][r] \in Seq(Entries)
    BY <1>0 DEF TypeOK, Subjects
  <2>2. Tells(Absent, trail[r], table[r]) /\ Chained(Absent, trail[r])
    BY DEF ChainInv, ReplayInv, TrailTellsTable, DiffsChain, Chained
  <2>3. Chained(table[r], pending[s][r])
    BY DEF ChainInv, PendingChained
  <2>4. trail'[r] = trail[r] \o pending[s][r]
    BY DEF Commit, Subjects
  <2>5. Chained(Absent, trail[r] \o pending[s][r])
    BY <2>1, <2>2, <2>3, ChainedConcat
  <2> QED
    BY <2>4, <2>5
<1>2. ASSUME NEW t \in Sessions, NEW r \in Rows
      PROVE  Chained(table'[r], pending'[t][r])
  <2>1. CASE t = s
    <3>1. pending'[t][r] = << >>
      BY <1>0, <2>1 DEF Commit, Discard, TypeOK, NoEntries, Subjects
    <3> QED
      BY <3>1, ChainedNothing
  <2>2. CASE t # s
    <3>1. pending'[t] = pending[t]
      BY <1>0, <2>2 DEF Commit, Discard, TypeOK
    <3>2. CASE r \in DOMAIN own[t]
      <4>1. r \notin DOMAIN own[s]
        BY <2>2, <3>2 DEF ChainInv, ReplayInv, RowsLocked
      <4>2. table'[r] = table[r]
        BY <1>0, <4>1 DEF Commit, View, Over, TypeOK
      <4> QED
        BY <3>1, <4>2 DEF ChainInv, PendingChained
    <3>3. CASE r \notin DOMAIN own[t]
      <4>1. Captured(pending[t][r]) = {}
        BY <3>3, UnwrittenUncaptured DEF ChainInv
      <4> QED
        BY <3>1, <4>1 DEF Chained
    <3> QED
      BY <3>2, <3>3
  <2> QED
    BY <2>1, <2>2
<1>3. PendingChained'
  BY <1>2 DEF PendingChained
<1> QED
  BY <1>0, <1>1, <1>3, TrailChains DEF ChainInv

LEMMA StatementChain ==
    ASSUME ChainInv, NEW s \in Sessions, Statement(s)
    PROVE  ChainInv'
<1>0. TypeOK /\ ReplayInv /\ ReplayInv' /\ View(s) \in [Rows -> RowImages]
  BY StatementReplay, ViewType DEF ChainInv, ReplayInv
<1>1. ASSUME NEW r \in Rows, NEW image \in Image, Insert(s, r, image)
      PROVE  ChainInv'
  <2> DEFINE images == [q \in {r} |-> image]
  <2>1. images \in [{r} -> RowImages] /\ {r} \in SUBSET Rows /\ "insert" \in Ops
    BY DEF RowImages, Ops
  <2>2. /\ \A q \in {r} : "insert" = "delete" <=> images[q] = Absent
        /\ \A q \in {r} : "insert" = "insert" <=> View(s)[q] = Absent
    BY <1>1, AbsentAssumption DEF Image, Cells, Insert
  <2>3. Write(s, "insert", images)
    BY <1>1 DEF Insert
  <2> HIDE DEF images
  <2> QED
    BY <2>1, <2>2, <2>3, WriteChain
<1>2. ASSUME NEW D \in SUBSET Rows, NEW patch \in Patches, Update(s, D, patch)
      PROVE  ChainInv'
  <2> DEFINE images == [r \in D |-> Over(patch, View(s)[r])]
  <2>1. images \in [D -> RowImages] /\ "update" \in Ops
    BY <1>0, <1>2, PatchType DEF Update, Ops
  <2>2. \A r \in D : images[r] # Absent /\ View(s)[r] # Absent
    <3> TAKE r \in D
    <3>1. View(s)[r] \in Image /\ View(s)[r] # Absent
      BY <1>0, <1>2 DEF Update, RowImages
    <3>2. images[r] \in Image
      BY <3>1, PatchImage
    <3> QED
      BY <3>1, <3>2, AbsentAssumption DEF Image, Cells
  <2>3. Write(s, "update", images)
    BY <1>2 DEF Update
  <2> HIDE DEF images
  <2> QED
    BY <2>1, <2>2, <2>3, WriteChain
<1>3. ASSUME NEW D \in SUBSET Rows, Delete(s, D)
      PROVE  ChainInv'
  <2> DEFINE images == [r \in D |-> Absent]
  <2>1. images \in [D -> RowImages] /\ "delete" \in Ops
    BY DEF RowImages, Ops
  <2>2. \A r \in D : images[r] = Absent /\ View(s)[r] # Absent
    BY <1>3 DEF Delete
  <2>3. Write(s, "delete", images)
    BY <1>3 DEF Delete
  <2> HIDE DEF images
  <2> QED
    BY <2>1, <2>2, <2>3, WriteChain
<1>4. ASSUME NEW call \in Calls, LogEvent(s, call)
      PROVE  ChainInv'
  BY <1>4, LogEventChain
<1>5. CASE Abort(s)
  BY <1>5, AbortChain
<1>6. ASSUME NEW ctx \in Contexts, SetContext(s, ctx)
      PROVE  ChainInv'
  BY <1>0, <1>6, QuietChain DEF SetContext
<1> QED
  BY <1>1, <1>2, <1>3, <1>4, <1>5, <1>6 DEF Statement, RewriteTrail, Fail

LEMMA NextChain == ChainInv /\ [Next]_vars => ChainInv'
<1> SUFFICES ASSUME ChainInv, [Next]_vars
             PROVE  ChainInv'
  OBVIOUS
<1>0. ReplayInv'
  BY NextReplay DEF ChainInv
<1>1. ASSUME NEW s \in Sessions, Begin(s)
      PROVE  ChainInv'
  BY <1>0, <1>1, QuietChain DEF Begin
<1>2. ASSUME NEW s \in Sessions, Rollback(s)
      PROVE  ChainInv'
  BY <1>2, DiscardChain DEF Rollback
<1>3. CASE Crash
  <2>1. \A s \in Sessions : \A r \in Rows : pending'[s][r] = << >>
    BY <1>3 DEF Crash, NoEntries, Subjects
  <2> QED
    BY <1>0, <1>3, <2>1, QuietChain DEF Crash
<1>4. CASE UNCHANGED vars
  BY <1>0, <1>4, QuietChain DEF vars, txVars
<1> QED
  BY <1>1, <1>2, <1>3, <1>4, StatementChain, CommitChain, LogAloneChain DEF Next

\* Each captured entry picks up where the ones before it left its row,
\* although occurred_at may put them in another order (capture_data_change).
THEOREM DiffsAreAChain == Spec => []DiffsChain
<1>1. ChainInv => DiffsChain
  BY DEF ChainInv
<1> QED
  BY <1>1, InitChain, NextChain, PTL DEF Spec

-----------------------------------------------------------------------------
(* The ledger.                                                             *)

\* The ledger speaks of entries and of what they tell as AuditCapture does.
LEMMA SameWords ==
    /\ Ledger!Subjects = Subjects
    /\ Ledger!Image = Image
    /\ Ledger!Entries = Entries
    /\ \A es : Ledger!TxidsOf(es) = TxidsOf(es)
    /\ \A base, es, image : Ledger!Tells(base, es, image) <=> Tells(base, es, image)
<1>1. Ledger!Image = Image /\ Ledger!Cells = Cells
  BY DEF Ledger!Image, Image, Ledger!Cells, Cells
<1>2. Ledger!Diffs = Diffs
  BY <1>1 DEF Ledger!Diffs, Diffs, Ledger!PartialFcns, PartialFcns
<1>3. Ledger!Entries = Entries
  BY <1>2 DEF Ledger!Entries, Entries, Ledger!Lanes, Lanes, Ledger!Statuses, Statuses,
              Ledger!Ops, Ops
<1>4. /\ Ledger!Subjects = Subjects
      /\ \A es : Ledger!TxidsOf(es) = TxidsOf(es)
      /\ \A base, es, image : Ledger!Tells(base, es, image) <=> Tells(base, es, image)
  BY DEF Ledger!Subjects, Subjects, Ledger!TxidsOf, TxidsOf, Ledger!Tells, Tells,
         Ledger!ToldPresent, ToldPresent, Ledger!ToldCell, ToldCell,
         Ledger!Captured, Captured, Ledger!Mentions, Mentions, Ledger!Latest, Latest,
         Ledger!Cell, Cell, Ledger!Ops, Ops
<1> QED
  BY <1>1, <1>3, <1>4

LEMMA AddedIs ==
    ASSUME NEW s \in Seq(Entries), NEW t \in Seq(Entries)
    PROVE  SubSeq(s \o t, Len(s) + 1, Len(s \o t)) = t
<1>1. /\ Len(s) \in Nat /\ Len(t) \in Nat /\ Len(s \o t) = Len(s) + Len(t)
      /\ \A i \in 1..Len(t) : (s \o t)[Len(s) + i] = t[i]
  OBVIOUS
<1> DEFINE u == SubSeq(s \o t, Len(s) + 1, Len(s \o t))
<1>2. u \in Seq(Entries) /\ Len(u) = Len(t) /\ \A i \in 1..Len(t) : u[i] = t[i]
  BY <1>1
<1> QED
  BY <1>2

\* Appending to the trail what one transaction id and one time stamp, and
\* changing the rows as it tells, is a step of the ledger.
LEMMA LedgerCommit ==
    ASSUME TypeOK, TypeOK', NEW added \in [Subjects -> Seq(Entries)],
           trail' = [q \in Subjects |-> trail[q] \o added[q]],
           NEW p \in Subjects, NEW i \in DOMAIN added[p], NEW x, NEW t,
           \A q \in Subjects :
               /\ \A j \in DOMAIN added[q] : added[q][j].txid = x /\ added[q][j].at = t
               /\ \A j \in DOMAIN trail[q] : trail[q][j].txid # x,
           \A r \in Rows : Tells(table[r], added[r], table'[r])
    PROVE  Ledger!Commit
<1>1. \A q \in Subjects : /\ trail[q] \in Seq(Entries) /\ added[q] \in Seq(Entries)
                          /\ trail'[q] = trail[q] \o added[q]
  BY DEF TypeOK
<1>2. \A q \in Subjects : IsPrefix(trail[q], trail'[q])
  BY <1>1, PrefixOfConcat
<1>3. \A q \in Subjects : Ledger!Added(q) = added[q]
  BY <1>1, AddedIs DEF Ledger!Added
<1>4. \A q \in Subjects : /\ Ledger!StampsOf(added[q]) \subseteq {<<x, t>>}
                          /\ x \notin TxidsOf(trail[q])
  BY DEF TxidsOf, Ledger!StampsOf
<1>5. <<x, t>> \in Ledger!StampsOf(added[p]) /\ <<x, t>>[1] = x
  BY DEF Ledger!StampsOf
<1>6. \A r \in Rows : Tells(table[r], Ledger!Added(r), table'[r])
  BY <1>3 DEF Subjects
<1>7. table' \in [Rows -> Image \cup {Absent}] /\ trail' \in [Subjects -> Seq(Entries)]
  BY DEF TypeOK
<1>8. \E stamp \in UNION {Ledger!StampsOf(Ledger!Added(q)) : q \in Subjects} :
          \A q \in Subjects : /\ Ledger!StampsOf(Ledger!Added(q)) \subseteq {stamp}
                              /\ stamp[1] \notin TxidsOf(trail[q])
  <2> DEFINE stamp == <<x, t>>
  <2>1. stamp[1] = x
    OBVIOUS
  <2>2. stamp \in Ledger!StampsOf(Ledger!Added(p))
    BY <1>3, <1>5
  <2>3. \A q \in Subjects : /\ Ledger!StampsOf(Ledger!Added(q)) \subseteq {stamp}
                            /\ stamp[1] \notin TxidsOf(trail[q])
    BY <1>3, <1>4, <2>1
  <2> HIDE DEF stamp
  <2> QED
    BY <2>2, <2>3
<1> QED
  BY <1>2, <1>6, <1>7, <1>8, SameWords DEF Ledger!Commit, Ledger!IsPrefix, IsPrefix

\* A transaction without entries has not changed what it sees of a row.
LEMMA NothingToldNothingChanged ==
    ASSUME NEW a \in RowImages, NEW b \in RowImages, Tells(a, << >>, b)
    PROVE  a = b
<1>1. Captured(<< >>) = {} /\ \A f : Mentions(<< >>, f) = {}
  BY DEF Captured, Mentions
<1>2. (a # Absent <=> b # Absent) /\ \A f \in Fields : Cell(a, f) = Cell(b, f)
  BY <1>1 DEF Tells, ToldPresent, ToldCell
<1>3. CASE a = Absent
  BY <1>2, <1>3
<1>4. CASE a # Absent
  BY <1>2, <1>4 DEF RowImages, Image, Cell
<1> QED
  BY <1>3, <1>4

LEMMA CommitIsLedgerStep ==
    ASSUME ReplayInv, StampInv, NEW s \in Sessions, Commit(s)
    PROVE  [Ledger!Next]_(Ledger!vars)
<1> USE DEF ReplayInv
<1>1. pending[s] \in [Subjects -> Seq(Entries)] /\ trail \in [Subjects -> Seq(Entries)]
  BY DEF TypeOK
<1>2. /\ trail' = [q \in Subjects |-> trail[q] \o pending[s][q]]
      /\ table' = [r \in Rows |-> View(s)[r]]
  BY DEF Commit
<1>3. CASE \A q \in Subjects : pending[s][q] = << >>
  <2>1. trail' = trail
    BY <1>1, <1>2, <1>3
  <2>2. \A r \in Rows : View(s)[r] = table[r]
    <3> TAKE r \in Rows
    <3>1. table[r] \in RowImages /\ View(s)[r] \in RowImages
      BY ViewType DEF TypeOK, RowImages
    <3>2. Tells(table[r], << >>, View(s)[r])
      BY <1>3, ViewTold DEF Subjects
    <3> QED
      BY <3>1, <3>2, NothingToldNothingChanged
  <2> QED
    BY <1>2, <2>1, <2>2 DEF Ledger!vars, TypeOK
<1>4. ASSUME NEW p \in Subjects, pending[s][p] # << >>
      PROVE  Ledger!Commit
  <2>1. 1 \in DOMAIN pending[s][p]
    BY <1>1, <1>4
  <2>2. \A q \in Subjects :
            /\ \A j \in DOMAIN pending[s][q] :
                   pending[s][q][j].txid = xid[s] /\ pending[s][q][j].at = start[s]
            /\ \A j \in DOMAIN trail[q] : trail[q][j].txid # xid[s]
    BY DEF StampInv, PendingStamped, TrailStamped
  <2>3. \A r \in Rows : Tells(table[r], pending[s][r], table'[r])
    BY <1>2, ViewTold
  <2>4. TypeOK'
    BY CommitType
  <2> DEFINE added == pending[s]
             x == xid[s]
             t == start[s]
  <2>5. /\ added \in [Subjects -> Seq(Entries)] /\ 1 \in DOMAIN added[p]
        /\ trail' = [q \in Subjects |-> trail[q] \o added[q]]
        /\ \A q \in Subjects :
               /\ \A j \in DOMAIN added[q] : added[q][j].txid = x /\ added[q][j].at = t
               /\ \A j \in DOMAIN trail[q] : trail[q][j].txid # x
        /\ \A r \in Rows : Tells(table[r], added[r], table'[r])
    BY <1>1, <1>2, <2>1, <2>2, <2>3
  <2> HIDE DEF added, x, t
  <2> QED
    BY <2>4, <2>5, LedgerCommit
<1> QED
  BY <1>3, <1>4 DEF Ledger!Next

LEMMA LogAloneIsLedgerStep ==
    ASSUME ReplayInv, StampInv, NEW call \in Calls, NEW ctx \in Contexts, LogAlone(call, ctx)
    PROVE  Ledger!Commit
<1> DEFINE entry == VerbEntry(call, ctx, lastXid + 1, clock + 1)
           added == [q \in Subjects |-> IF q = call.subject THEN << entry >> ELSE << >>]
<1> USE DEF ReplayInv
<1>0. TypeOK'
  BY LogAloneType
<1>1. entry \in Entries /\ entry.txid = lastXid + 1 /\ entry.at = clock + 1
  <2>1. entry \in Entries
    BY VerbEntryType DEF LogAlone, TypeOK
  <2> QED
    BY <2>1 DEF VerbEntry
<1>2. call.subject \in Subjects
  BY CallAssumption DEF AuditEvents
<1>3. \A r \in Rows : Tells(table[r], added[r], table'[r])
  <2> TAKE r \in Rows
  <2>1. Tells(table[r], << entry >>, table[r]) /\ Tells(table[r], << >>, table[r])
    BY VerbTellsNothing, TellsNothing DEF LogAlone
  <2> QED
    BY <2>1 DEF LogAlone, Subjects
<1>4. trail' = [trail EXCEPT ![call.subject] = Append(@, entry)]
  BY DEF LogAlone
<1> HIDE DEF entry
<1>5. trail' = [q \in Subjects |-> trail[q] \o added[q]] /\ added \in [Subjects -> Seq(Entries)]
  <2>1. trail \in [Subjects -> Seq(Entries)]
    BY DEF TypeOK
  <2>2. \A q \in Subjects : /\ trail[q] \o << >> = trail[q]
                            /\ Append(trail[q], entry) = trail[q] \o << entry >>
    BY <1>1, <2>1
  <2>3. \A q \in Subjects : trail'[q] = trail[q] \o added[q]
    BY <1>2, <1>4, <2>1, <2>2
  <2>4. DOMAIN trail' = Subjects /\ trail' = [q \in Subjects |-> trail'[q]]
    BY <1>4, <2>1
  <2>5. << entry >> \in Seq(Entries) /\ << >> \in Seq(Entries)
    BY <1>1
  <2> QED
    BY <2>3, <2>4, <2>5
<1>6. \A q \in Subjects :
          /\ \A j \in DOMAIN added[q] :
                 added[q][j].txid = lastXid + 1 /\ added[q][j].at = clock + 1
          /\ \A j \in DOMAIN trail[q] : trail[q][j].txid # lastXid + 1
  <2> TAKE q \in Subjects
  <2>1. \A j \in DOMAIN trail[q] : trail[q][j].txid # lastXid + 1
    <3> TAKE j \in DOMAIN trail[q]
    <3>1. trail[q][j].txid \in Nat /\ trail[q][j].txid <= lastXid /\ lastXid \in Nat
      BY TrailTyped DEF StampInv, TrailStamped, TypeOK
    <3> QED
      BY <3>1
  <2> QED
    BY <1>1, <2>1
<1>7. 1 \in DOMAIN added[call.subject]
  BY <1>2
<1> HIDE DEF added
<1> QED
  BY <1>0, <1>2, <1>3, <1>5, <1>6, <1>7, LedgerCommit

\* Its sessions, locks and triggers hidden, the database is the ledger:
\* every step of it is a transaction that appends, under an id of its own,
\* entries that tell exactly the changes it makes, or changes nothing.
THEOREM CaptureIsALedger == Spec => ImplementsLedger
<1>1. Init => Ledger!Init
  BY SameWords DEF Init, Ledger!Init, NoEntries
<1>2. ReplayInv /\ StampInv /\ [Next]_vars => [Ledger!Next]_(Ledger!vars)
  <2> SUFFICES ASSUME ReplayInv, StampInv, [Next]_vars
               PROVE  [Ledger!Next]_(Ledger!vars)
    OBVIOUS
  <2>1. ASSUME NEW s \in Sessions, Commit(s)
        PROVE  [Ledger!Next]_(Ledger!vars)
    BY <2>1, CommitIsLedgerStep
  <2>2. ASSUME NEW call \in Calls, NEW ctx \in Contexts, LogAlone(call, ctx)
        PROVE  [Ledger!Next]_(Ledger!vars)
    BY <2>2, LogAloneIsLedgerStep DEF Ledger!Next
  <2>3. CASE UNCHANGED <<table, trail>>
    BY <2>3 DEF Ledger!vars
  <2> QED
    BY <2>1, <2>2, <2>3, StatementKeeps DEF Next, Begin, Rollback, Crash, vars
<1>3. Spec => []ReplayInv
  BY InitReplay, NextReplay, PTL DEF Spec
<1> QED
  BY <1>1, <1>2, <1>3, AlwaysStamp, PTL DEF Spec, ImplementsLedger, Ledger!Spec

-----------------------------------------------------------------------------
(* What the ledger alone promises, whatever implements it.                 *)

LedgerInv ==
    /\ trail \in [Subjects -> Seq(Entries)]
    /\ TrailTellsTable
    /\ OneStart

\* A list that starts with another is the other and the rest.
LEMMA PrefixSplit ==
    ASSUME NEW s \in Seq(Entries), NEW t \in Seq(Entries), IsPrefix(s, t)
    PROVE  LET u == SubSeq(t, Len(s) + 1, Len(t))
           IN  u \in Seq(Entries) /\ t = s \o u
<1> DEFINE u == SubSeq(t, Len(s) + 1, Len(t))
<1>1. /\ Len(s) \in Nat /\ Len(t) \in Nat /\ Len(s) <= Len(t)
      /\ SubSeq(s, 1, Len(s)) = SubSeq(t, 1, Len(s))
  BY DEF IsPrefix
<1>2. \A i \in 1..Len(s) : s[i] = t[i]
  <2> TAKE i \in 1..Len(s)
  <2>1. SubSeq(s, 1, Len(s))[i] = s[i] /\ SubSeq(t, 1, Len(s))[i] = t[i]
    BY <1>1
  <2> QED
    BY <1>1, <2>1
<1>3. /\ u \in Seq(Entries) /\ Len(u) = Len(t) - Len(s)
      /\ \A i \in 1..(Len(t) - Len(s)) : u[i] = t[Len(s) + i]
  BY <1>1
<1> HIDE DEF u
<1> DEFINE v == s \o u
<1>4. v \in Seq(Entries) /\ Len(v) = Len(t)
  BY <1>1, <1>3
<1>5. ASSUME NEW i \in 1..Len(t)
      PROVE  v[i] = t[i]
  <2>1. CASE i <= Len(s)
    BY <1>1, <1>2, <1>3, <2>1
  <2>2. CASE i > Len(s)
    <3>1. i - Len(s) \in 1..(Len(t) - Len(s)) /\ Len(s) + (i - Len(s)) = i
      BY <1>1, <2>2
    <3>2. v[i] = u[i - Len(s)]
      BY <1>1, <1>3, <3>1
    <3> QED
      BY <1>3, <3>1, <3>2
  <2>3. i <= Len(s) \/ i > Len(s)
    <3>1. i \in Nat
      BY <1>1
    <3> QED
      BY <1>1, <3>1
  <2> QED
    BY <2>1, <2>2, <2>3
<1> HIDE DEF v
<1>6. t = v
  BY <1>4, <1>5
<1> QED
  BY <1>3, <1>6 DEF u, v

LEMMA InitLedger == Ledger!Init => LedgerInv
<1> SUFFICES ASSUME Ledger!Init
             PROVE  LedgerInv
  OBVIOUS
<1>1. table = [r \in Rows |-> Absent] /\ trail = [q \in Subjects |-> << >>]
  BY SameWords DEF Ledger!Init
<1>2. trail \in [Subjects -> Seq(Entries)]
  BY <1>1, EmptySeq
<1>3. TrailTellsTable
  BY <1>1, TellsNothing DEF TrailTellsTable, Subjects
<1>4. OneStart
  BY <1>1 DEF OneStart
<1> QED
  BY <1>2, <1>3, <1>4 DEF LedgerInv

LEMMA CommitLedger ==
    ASSUME LedgerInv, Ledger!Commit
    PROVE  LedgerInv'
<1>0. trail \in [Subjects -> Seq(Entries)] /\ trail' \in [Subjects -> Seq(Entries)]
  BY SameWords DEF LedgerInv, Ledger!Commit
<1>1. ASSUME NEW q \in Subjects
      PROVE  /\ trail[q] \in Seq(Entries) /\ Ledger!Added(q) \in Seq(Entries)
             /\ trail'[q] = trail[q] \o Ledger!Added(q)
  <2>1. trail[q] \in Seq(Entries) /\ trail'[q] \in Seq(Entries)
    BY <1>0
  <2>2. IsPrefix(trail[q], trail'[q])
    BY SameWords DEF Ledger!Commit, Ledger!IsPrefix, IsPrefix
  <2> QED
    BY <2>1, <2>2, PrefixSplit DEF Ledger!Added
<1>2. PICK stamp : \A q \in Subjects : /\ Ledger!StampsOf(Ledger!Added(q)) \subseteq {stamp}
                                       /\ stamp[1] \notin TxidsOf(trail[q])
  BY SameWords DEF Ledger!Commit
<1>3. TrailTellsTable'
  <2> SUFFICES ASSUME NEW r \in Rows
               PROVE  Tells(Absent, trail'[r], table'[r])
    BY DEF TrailTellsTable
  <2>1. Tells(Absent, trail[r], table[r]) /\ Tells(table[r], Ledger!Added(r), table'[r])
    BY SameWords DEF LedgerInv, TrailTellsTable, Ledger!Commit
  <2>2. /\ trail[r] \in Seq(Entries) /\ Ledger!Added(r) \in Seq(Entries)
        /\ trail'[r] = trail[r] \o Ledger!Added(r)
    BY <1>1 DEF Subjects
  <2>3. Tells(Absent, trail[r] \o Ledger!Added(r), table'[r])
    BY <2>1, <2>2, TellsConcat
  <2> QED
    BY <2>2, <2>3
<1>4. \A q \in Subjects : \A i \in DOMAIN trail'[q] :
          \/ /\ i \in DOMAIN trail[q] /\ trail'[q][i] = trail[q][i]
             /\ trail[q][i].txid # stamp[1]
          \/ trail'[q][i].txid = stamp[1] /\ trail'[q][i].at = stamp[2]
  <2> TAKE q \in Subjects
  <2> TAKE i \in DOMAIN trail'[q]
  <2> DEFINE added == Ledger!Added(q)
  <2>1. /\ trail[q] \in Seq(Entries) /\ added \in Seq(Entries)
        /\ trail'[q] = trail[q] \o added
    BY <1>1
  <2>2. ASSUME NEW j \in DOMAIN added
        PROVE  added[j].txid = stamp[1] /\ added[j].at = stamp[2]
    <3>1. <<added[j].txid, added[j].at>> \in Ledger!StampsOf(added)
      BY DEF Ledger!StampsOf
    <3>2. Ledger!StampsOf(added) \subseteq {stamp}
      BY <1>2
    <3> HIDE DEF added
    <3>3. <<added[j].txid, added[j].at>> = stamp
      BY <3>1, <3>2
    <3> QED
      BY <3>3
  <2>3. \A j \in DOMAIN trail[q] : trail[q][j].txid # stamp[1]
    BY <1>2 DEF TxidsOf
  <2> HIDE DEF added
  <2>4. \/ i \in DOMAIN trail[q] /\ trail'[q][i] = trail[q][i]
        \/ \E j \in DOMAIN added : trail'[q][i] = added[j]
    <3>1. i \in DOMAIN (trail[q] \o added)
      BY <2>1
    <3>2. \/ i \in DOMAIN trail[q] /\ (trail[q] \o added)[i] = trail[q][i]
          \/ \E j \in DOMAIN added : (trail[q] \o added)[i] = added[j]
      BY <2>1, <3>1, ConcatSource
    <3> QED
      BY <2>1, <3>2
  <2> QED
    BY <2>2, <2>3, <2>4
<1>5. OneStart'
  BY <1>4 DEF LedgerInv, OneStart
<1> QED
  BY <1>0, <1>3, <1>5 DEF LedgerInv

LEMMA NextLedger == LedgerInv /\ [Ledger!Next]_(Ledger!vars) => LedgerInv'
<1> SUFFICES ASSUME LedgerInv, [Ledger!Next]_(Ledger!vars)
             PROVE  LedgerInv'
  OBVIOUS
<1>1. CASE UNCHANGED <<table, trail>>
  BY <1>1 DEF LedgerInv, TrailTellsTable, OneStart
<1> QED
  BY <1>1, CommitLedger DEF Ledger!Next, Ledger!vars

LEMMA AlwaysLedger == ImplementsLedger => []LedgerInv
BY InitLedger, NextLedger, PTL DEF ImplementsLedger, Ledger!Spec

\* The promise is strong enough to be all that a reader of the trail has to
\* know: whatever keeps it has a trail that tells the table, and one start
\* for each id in it.
THEOREM LedgerTells == ImplementsLedger => [](TrailTellsTable /\ OneStart)
<1>1. LedgerInv => TrailTellsTable /\ OneStart
  BY DEF LedgerInv
<1> QED
  BY <1>1, AlwaysLedger, PTL

\* And whatever keeps the promise never changes or removes an entry
\* (audit_trails_immutable).
THEOREM LedgerOnlyGrows == ImplementsLedger => AppendOnly
<1>1. LedgerInv /\ [Ledger!Next]_(Ledger!vars)
         => [\A q \in Subjects : IsPrefix(trail[q], trail'[q])]_vars
  <2> SUFFICES ASSUME LedgerInv, [Ledger!Next]_(Ledger!vars), NEW q \in Subjects
               PROVE  IsPrefix(trail[q], trail'[q])
    OBVIOUS
  <2>1. trail[q] \in Seq(Entries)
    BY DEF LedgerInv
  <2>2. CASE UNCHANGED trail
    BY <2>1, <2>2, PrefixOfItself
  <2>3. CASE Ledger!Commit
    BY <2>3, SameWords DEF Ledger!Commit, Ledger!IsPrefix, IsPrefix
  <2> QED
    BY <2>2, <2>3 DEF Ledger!Next, Ledger!vars
<1> QED
  BY <1>1, AlwaysLedger, PTL DEF ImplementsLedger, Ledger!Spec, AppendOnly
=============================================================================
