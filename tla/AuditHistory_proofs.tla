------------------------ MODULE AuditHistory_proofs ------------------------
(***************************************************************************)
(* Theorems about AuditHistory: what the pages of a tab may show while     *)
(* transactions commit between them, for every set of sessions, rows,      *)
(* values and calls and every page size.  All rests on where ORDER BY ...  *)
(* DESC may put an entry, a fact about cardinalities, and on what a commit *)
(* adds being no later than the clock and below no earlier entry.          *)
(***************************************************************************)
EXTENDS AuditHistory, AuditCapture_proofs, FiniteSetTheorems

-----------------------------------------------------------------------------
(* Places.                                                                 *)

\* The entries that occurred later than entry i, and those not earlier.
Later(es, i)      == {j \in DOMAIN es : es[j].at > es[i].at}
NotEarlier(es, i) == {j \in DOMAIN es : es[j].at >= es[i].at}

\* No other entry occurred when entry i did.
Alone(es, i) == \A j \in DOMAIN es \ {i} : es[i].at # es[j].at

LEMMA EntryTime ==
    ASSUME NEW es \in Seq(Entries), NEW i \in DOMAIN es
    PROVE  es[i].at \in Nat /\ es[i].txid \in Nat
<1>1. es[i] \in Entries
  OBVIOUS
<1> QED
  BY <1>1 DEF Entries

\* How many entries a set of positions may hold.
LEMMA PositionsFinite ==
    ASSUME NEW es \in Seq(Entries), NEW S \in SUBSET DOMAIN es
    PROVE  IsFiniteSet(S) /\ Cardinality(S) \in Nat /\ Cardinality(S) <= Len(es)
<1>1. /\ Len(es) \in Nat /\ DOMAIN es = 1..Len(es)
  OBVIOUS
<1>2. IsFiniteSet(1..Len(es)) /\ Cardinality(1..Len(es)) = Len(es)
  <2>1. 1 \in Int /\ Len(es) \in Int
    BY <1>1
  <2>2. /\ IsFiniteSet(1..Len(es))
        /\ Cardinality(1..Len(es)) = IF 1 > Len(es) THEN 0 ELSE Len(es) - 1 + 1
    BY <2>1, FS_Interval
  <2> QED
    BY <1>1, <2>2
<1>3. IsFiniteSet(S) /\ Cardinality(S) <= Cardinality(1..Len(es))
  BY <1>1, <1>2, FS_Subset
<1> QED
  BY <1>2, <1>3, FS_CardinalityType

LEMMA FewerPositions ==
    ASSUME NEW es \in Seq(Entries), NEW T \in SUBSET DOMAIN es, NEW S \in SUBSET T
    PROVE  Cardinality(S) <= Cardinality(T)
BY PositionsFinite, FS_Subset

\* An entry that occurred alone has one place, one below the entries later
\* than it.
LEMMA AloneCount ==
    ASSUME NEW es \in Seq(Entries), NEW i \in DOMAIN es, Alone(es, i)
    PROVE  /\ Cardinality(NotEarlier(es, i)) = Cardinality(Later(es, i)) + 1
           /\ Cardinality(Later(es, i)) + 1 <= Len(es)
<1>1. NotEarlier(es, i) = Later(es, i) \cup {i} /\ i \notin Later(es, i)
  BY EntryTime DEF NotEarlier, Later, Alone
<1>2. IsFiniteSet(Later(es, i))
  BY PositionsFinite DEF Later
<1>3. Cardinality(NotEarlier(es, i)) = Cardinality(Later(es, i)) + 1
  BY <1>1, <1>2, FS_AddElement
<1>4. Cardinality(NotEarlier(es, i)) <= Len(es)
  BY PositionsFinite DEF NotEarlier
<1> QED
  BY <1>3, <1>4

\* Of two entries, the one that occurred later takes the higher places.
LEMMA LaterIsAbove ==
    ASSUME NEW es \in Seq(Entries), NEW i \in DOMAIN es, NEW k \in DOMAIN es,
           es[i].at < es[k].at
    PROVE  Cardinality(NotEarlier(es, k)) <= Cardinality(Later(es, i))
<1>1. NotEarlier(es, k) \subseteq Later(es, i)
  BY EntryTime DEF NotEarlier, Later
<1>2. Later(es, i) \subseteq DOMAIN es
  BY DEF Later
<1> QED
  BY <1>1, <1>2, FewerPositions

\* Nothing else may stand in the place of an entry that occurred alone.
LEMMA PlaceOfAlone ==
    ASSUME NEW es \in Seq(Entries), NEW i \in DOMAIN es, NEW k \in DOMAIN es,
           Alone(es, i), Cardinality(Later(es, i)) + 1 \in Places(es, k)
    PROVE  k = i
<1>1. /\ Places(es, k) = Cardinality(Later(es, k)) + 1 .. Cardinality(NotEarlier(es, k))
  BY DEF Places, Later, NotEarlier
<1>2. \A j \in DOMAIN es : /\ Cardinality(Later(es, j)) \in Nat
                           /\ Cardinality(NotEarlier(es, j)) \in Nat
                           /\ es[j].at \in Nat
  BY PositionsFinite, EntryTime DEF Later, NotEarlier
<1>3. CASE es[i].at < es[k].at
  BY <1>1, <1>2, <1>3, LaterIsAbove
<1>4. CASE es[k].at < es[i].at
  BY <1>1, <1>2, <1>4, LaterIsAbove, AloneCount
<1> QED
  BY <1>2, <1>3, <1>4 DEF Alone

\* Entries listed at places p and q, p above q, are not out of order.
LEMMA PlacesSorted ==
    ASSUME NEW es \in Seq(Entries), NEW i \in DOMAIN es, NEW k \in DOMAIN es,
           NEW p \in Places(es, i), NEW q \in Places(es, k), p < q
    PROVE  es[i].at >= es[k].at
<1>1. \A j \in DOMAIN es :
          Places(es, j) = Cardinality(Later(es, j)) + 1 .. Cardinality(NotEarlier(es, j))
  BY DEF Places, Later, NotEarlier
<1>2. \A j \in DOMAIN es : /\ Cardinality(Later(es, j)) \in Nat
                           /\ Cardinality(NotEarlier(es, j)) \in Nat
                           /\ es[j].at \in Nat
  BY PositionsFinite, EntryTime DEF Later, NotEarlier
<1>3. CASE es[i].at < es[k].at
  BY <1>1, <1>2, <1>3, LaterIsAbove
<1> QED
  BY <1>2, <1>3

-----------------------------------------------------------------------------
(* One page.                                                               *)

\* How many entries a page holds.
LEMMA SizeOfPage ==
    ASSUME NEW limit \in Nat, NEW len \in Nat, NEW from \in Nat
    PROVE  LET size == Max({0, Min({limit, len - from})})
           IN  /\ size \in Nat /\ size <= limit
               /\ from + size < len => size = limit
<1> DEFINE m == Min({limit, len - from})
<1>1. m \in {limit, len - from} /\ m <= limit /\ m <= len - from
  <2>1. \E x \in {limit, len - from} : \A y \in {limit, len - from} : x =< y
    <3>1. CASE limit <= len - from
      BY <3>1
    <3>2. CASE len - from < limit
      BY <3>2
    <3> QED
      BY <3>1, <3>2
  <2> QED
    BY <2>1 DEF Min
<1> HIDE DEF m
<1>2. Max({0, m}) \in {0, m} /\ Max({0, m}) >= 0 /\ Max({0, m}) >= m
  <2>1. \E x \in {0, m} : \A y \in {0, m} : x >= y
    BY <1>1
  <2> QED
    BY <1>1, <2>1 DEF Max
<1>3. /\ Max({0, m}) \in Nat /\ Max({0, m}) <= limit
      /\ from + Max({0, m}) < len => Max({0, m}) = limit
  BY <1>1, <1>2
<1> QED
  BY <1>3 DEF m

\* What a page is: a row for each place from the offset on, up to the limit
\* or the end of the tab.
LEMMA PageRows ==
    ASSUME NEW es \in Seq(Entries), NEW limit \in Nat, NEW from \in Nat,
           NEW rows \in Query(es, limit, from)
    PROVE  /\ rows \in Seq(DOMAIN es)
           /\ Len(rows) <= limit
           /\ from + Len(rows) < Len(es) => Len(rows) = limit
           /\ \A n \in DOMAIN rows : from + n \in Places(es, rows[n])
<1> DEFINE size == Max({0, Min({limit, Len(es) - from})})
<1>1. /\ rows \in [1..size -> DOMAIN es]
      /\ \A n \in 1..size : from + n \in Places(es, rows[n])
  BY DEF Query
<1>2. Len(es) \in Nat
  OBVIOUS
<1>3. /\ size \in Nat /\ size <= limit
      /\ from + size < Len(es) => size = limit
  BY <1>2, SizeOfPage
<1> HIDE DEF size
<1>4. rows \in Seq(DOMAIN es) /\ Len(rows) = size /\ DOMAIN rows = 1..size
  BY <1>1, <1>3
<1> QED
  BY <1>1, <1>3, <1>4

\* A page is newest first.
LEMMA PageIsSorted ==
    ASSUME NEW es \in Seq(Entries), NEW limit \in Nat, NEW from \in Nat,
           NEW rows \in Query(es, limit, from),
           NEW i \in DOMAIN rows, NEW j \in DOMAIN rows, i < j
    PROVE  es[rows[i]].at >= es[rows[j]].at
<1>1. /\ rows[i] \in DOMAIN es /\ rows[j] \in DOMAIN es
      /\ from + i \in Places(es, rows[i]) /\ from + j \in Places(es, rows[j])
      /\ i \in Nat /\ j \in Nat
  BY PageRows
<1>2. from + i < from + j
  BY <1>1
<1> QED
  BY <1>1, <1>2, PlacesSorted

\* An entry that occurred alone, and whose place is not before the page, is
\* on it or after it; it is never after a page that is not full.
LEMMA PageHolds ==
    ASSUME NEW es \in Seq(Entries), NEW limit \in Nat, NEW from \in Nat,
           NEW rows \in Query(es, limit, from),
           NEW i \in DOMAIN es, Alone(es, i), Cardinality(Later(es, i)) >= from
    PROVE  \/ i \in ToSet(rows)
           \/ Len(rows) = limit /\ Cardinality(Later(es, i)) >= from + limit
<1> DEFINE above == Cardinality(Later(es, i))
           n     == above + 1 - from
<1>1. above \in Nat /\ above + 1 <= Len(es) /\ Len(es) \in Nat
  BY PositionsFinite, AloneCount DEF Later
<1>2. rows \in Seq(DOMAIN es) /\ Len(rows) \in Nat
  BY PageRows
<1>3. CASE above < from + Len(rows)
  <2>1. n \in DOMAIN rows /\ from + n = above + 1
    BY <1>1, <1>2, <1>3
  <2>2. rows[n] \in DOMAIN es /\ above + 1 \in Places(es, rows[n])
    BY <1>2, <2>1, PageRows
  <2>3. rows[n] = i
    BY <2>2, PlaceOfAlone
  <2> QED
    BY <2>1, <2>3 DEF ToSet
<1>4. CASE above >= from + Len(rows)
  <2>1. Len(rows) = limit
    BY <1>1, <1>2, <1>4, PageRows
  <2> QED
    BY <1>4, <2>1
<1> QED
  BY <1>1, <1>2, <1>3, <1>4

-----------------------------------------------------------------------------
(* The invariant.                                                          *)

\* No transaction began, and no entry occurred, in the future.
StartsPast  == \A s \in Sessions : start[s] <= clock
EntriesPast == \A q \in Subjects : \A i \in DOMAIN trail[q] : trail[q][i].at <= clock

\* The transactions known to have ended are those with entries in the trail,
\* and none ended before it began.
EndedCommitted == DOMAIN ended = UNION {TxidsOf(trail[q]) : q \in Subjects}
EndedAfterStart ==
    \A q \in Subjects : \A i \in DOMAIN trail[q] :
        /\ ended[trail[q][i].txid] \in Nat
        /\ ended[trail[q][i].txid] >= trail[q][i].at

ReaderTyped ==
    /\ page \in Seq(DOMAIN trail[Tab])
    /\ offset \in Nat
    /\ known \subseteq DOMAIN trail[Tab] /\ seen \subseteq DOMAIN trail[Tab]

\* The page is newest first.
PageSorted ==
    \A i, j \in DOMAIN page : i < j => trail[Tab][page[i]].at >= trail[Tab][page[j]].at

\* An entry that ties with no other is listed or still to come: below the
\* next offset, and only while there is a next page.
StillToCome(i) == offset # 0 /\ Cardinality(Later(trail[Tab], i)) >= offset
KeepsPlace     == \A i \in known : Untied(i) => i \in seen \/ StillToCome(i)

HistoryInv ==
    /\ StampInv
    /\ StartsPast
    /\ EntriesPast
    /\ EndedCommitted
    /\ EndedAfterStart
    /\ ReaderTyped
    /\ PageSorted
    /\ KeepsPlace

LEMMA TabIsSubject == TypeOK => Tab \in Subjects /\ trail[Tab] \in Seq(Entries)
BY PageAssumption DEF Subjects, TypeOK

LEMMA UntiedIsAlone ==
    ASSUME NEW i
    PROVE  Untied(i) <=> Alone(trail[Tab], i)
BY DEF Untied, Alone

LEMMA InitHistory == HistoryInit => HistoryInv
<1> SUFFICES ASSUME HistoryInit
             PROVE  HistoryInv
  OBVIOUS
<1>1. StampInv
  BY InitStamp DEF HistoryInit
<1>2. /\ \A q \in Subjects : trail[q] = << >>
      /\ \A s \in Sessions : start[s] = 0
      /\ clock = 0
  BY DEF HistoryInit, Init, NoEntries
<1>3. StartsPast /\ EntriesPast /\ EndedAfterStart
  BY <1>2 DEF StartsPast, EntriesPast, EndedAfterStart
<1>4. EndedCommitted
  <2>1. \A q \in Subjects : TxidsOf(trail[q]) = {}
    BY <1>2 DEF TxidsOf
  <2> QED
    BY <2>1 DEF EndedCommitted, HistoryInit
<1>5. ReaderTyped /\ PageSorted /\ KeepsPlace
  BY DEF HistoryInit, ReaderTyped, PageSorted, KeepsPlace
<1> QED
  BY <1>1, <1>3, <1>4, <1>5 DEF HistoryInv

-----------------------------------------------------------------------------
(* Reading.                                                                *)

LEMMA ReadHistory ==
    ASSUME HistoryInv, ReadPage
    PROVE  HistoryInv'
<1> USE DEF HistoryInv
<1> DEFINE es   == trail[Tab]
           base == IF offset = 0 THEN {} ELSE seen
<1>1. es \in Seq(Entries) /\ offset \in Nat /\ PageSize \in Nat \ {0} /\ es' = es
  BY TabIsSubject, PageAssumption DEF StampInv, ReaderTyped, ReadPage, vars
<1>2. /\ page' \in Query(es, PageSize, offset)
      /\ seen' = base \cup ToSet(page')
      /\ known' = IF offset = 0 THEN DOMAIN es ELSE known
      /\ offset' = IF Len(page') < PageSize THEN 0 ELSE offset + PageSize
  BY DEF ReadPage
<1>3. page' \in Seq(DOMAIN es) /\ Len(page') \in Nat /\ ToSet(page') \subseteq DOMAIN es
  <2>1. page' \in Seq(DOMAIN es)
    BY <1>1, <1>2, PageRows
  <2> QED
    BY <2>1 DEF ToSet
<1>4. StampInv' /\ StartsPast' /\ EntriesPast' /\ EndedCommitted' /\ EndedAfterStart'
  <2>1. UNCHANGED <<vars, ended>>
    BY DEF ReadPage
  <2>2. StampInv'
    BY <2>1, NextStamp
  <2> QED
    BY <2>1, <2>2 DEF vars, txVars, StartsPast, EntriesPast, EndedCommitted, EndedAfterStart
<1>5. ReaderTyped'
  BY <1>1, <1>2, <1>3 DEF ReaderTyped
<1>6. PageSorted'
  BY <1>1, <1>2, PageIsSorted DEF PageSorted
<1>7. KeepsPlace'
  <2> SUFFICES ASSUME NEW i \in known', Untied(i)'
               PROVE  i \in seen' \/ StillToCome(i)'
    BY DEF KeepsPlace
  <2>1. i \in DOMAIN es /\ Alone(es, i) /\ Untied(i)
    BY <1>1, <1>2 DEF Untied, Alone, ReaderTyped
  <2>2. Cardinality(Later(es, i)) \in Nat
    BY <1>1, PositionsFinite DEF Later
  <2>3. i \in base \/ Cardinality(Later(es, i)) >= offset
    BY <1>1, <1>2, <2>1, <2>2 DEF KeepsPlace, StillToCome
  <2>4. CASE Cardinality(Later(es, i)) >= offset
    <3>1. \/ i \in ToSet(page')
          \/ Len(page') = PageSize /\ Cardinality(Later(es, i)) >= offset + PageSize
      BY <1>1, <1>2, <2>1, <2>4, PageHolds
    <3>2. CASE Len(page') = PageSize /\ Cardinality(Later(es, i)) >= offset + PageSize
      <4>1. offset' = offset + PageSize /\ offset' # 0
        BY <1>1, <1>2, <3>2
      <4> QED
        BY <1>1, <3>2, <4>1 DEF StillToCome, Later
    <3> QED
      BY <1>2, <3>1, <3>2
  <2> QED
    BY <1>2, <2>3, <2>4
<1> QED
  BY <1>4, <1>5, <1>6, <1>7

-----------------------------------------------------------------------------
(* Writing.                                                                *)

\* A statement does not move the clock or any transaction's start but to
\* take the transaction's own away.
LEMMA StatementTimes ==
    ASSUME NEW s \in Sessions, Statement(s)
    PROVE  clock' = clock /\ (start' = start \/ start' = [start EXCEPT ![s] = 0])
<1>1. ASSUME NEW op, NEW images, Write(s, op, images)
      PROVE  clock' = clock /\ (start' = start \/ start' = [start EXCEPT ![s] = 0])
  BY <1>1 DEF Write, Abort, Discard
<1> QED
  BY <1>1 DEF Statement, Insert, Update, Delete, LogEvent, SetContext, RewriteTrail,
              Fail, Abort, Discard

\* Time passes, and what a transaction adds occurred when it began.
LEMMA WriterTimes ==
    ASSUME StampInv, StartsPast, EntriesPast, Next
    PROVE  StartsPast' /\ EntriesPast'
<1> USE DEF StampInv
<1>1. /\ clock \in Nat /\ start \in [Sessions -> Nat]
      /\ \A q \in Subjects : trail[q] \in Seq(Entries)
      /\ \A q \in Subjects : \A i \in DOMAIN trail[q] : trail[q][i].at \in Nat
  BY EntryTime DEF TypeOK
<1>2. CASE UNCHANGED <<trail, clock>> /\ \A s \in Sessions : start'[s] \in {start[s], 0}
  BY <1>1, <1>2 DEF StartsPast, EntriesPast
<1>3. ASSUME NEW s \in Sessions, Begin(s)
      PROVE  StartsPast' /\ EntriesPast'
  <2>1. clock' = clock + 1 /\ start' = [start EXCEPT ![s] = clock + 1] /\ trail' = trail
    BY <1>3 DEF Begin
  <2>2. StartsPast'
    BY <1>1, <2>1 DEF StartsPast
  <2> QED
    BY <1>1, <2>1, <2>2 DEF EntriesPast
<1>4. ASSUME NEW s \in Sessions, Commit(s)
      PROVE  StartsPast' /\ EntriesPast'
  <2>1. clock' = clock /\ start' = [start EXCEPT ![s] = 0]
    BY <1>4 DEF Commit, Discard
  <2>2. StartsPast'
    BY <1>1, <2>1 DEF StartsPast
  <2>3. ASSUME NEW q \in Subjects, NEW i \in DOMAIN trail'[q]
        PROVE  trail'[q][i].at <= clock
    <3>1. /\ trail[q] \in Seq(Entries) /\ pending[s][q] \in Seq(Entries)
          /\ trail'[q] = trail[q] \o pending[s][q]
      BY <1>1, <1>4 DEF Commit, TypeOK
    <3>2. i \in DOMAIN (trail[q] \o pending[s][q])
      BY <3>1
    <3>3. \/ i \in DOMAIN trail[q] /\ (trail[q] \o pending[s][q])[i] = trail[q][i]
          \/ \E j \in DOMAIN pending[s][q] :
                 (trail[q] \o pending[s][q])[i] = pending[s][q][j]
      BY <3>1, <3>2, ConcatSource
    <3> QED
      BY <3>1, <3>3 DEF StartsPast, EntriesPast, PendingStamped
  <2> QED
    BY <2>1, <2>2, <2>3 DEF EntriesPast
<1>5. ASSUME NEW call \in Calls, NEW ctx \in Contexts, LogAlone(call, ctx)
      PROVE  StartsPast' /\ EntriesPast'
  <2> DEFINE entry == VerbEntry(call, ctx, lastXid + 1, clock + 1)
  <2>1. clock' = clock + 1 /\ start' = start
    BY <1>5 DEF LogAlone, txVars
  <2>2. StartsPast'
    BY <1>1, <2>1 DEF StartsPast
  <2>3. entry \in Entries /\ entry.at = clock + 1
    <3>1. entry \in Entries
      BY <1>5, VerbEntryType DEF LogAlone, TypeOK
    <3>2. entry.at = clock + 1
      BY DEF VerbEntry
    <3> QED
      BY <3>1, <3>2
  <2>4. ASSUME NEW q \in Subjects, NEW i \in DOMAIN trail'[q]
        PROVE  trail'[q][i].at <= clock + 1
    <3>1. trail'[q] = trail[q] \/ trail'[q] = Append(trail[q], entry)
      BY <1>5 DEF LogAlone, TypeOK
    <3>2. CASE trail'[q] = trail[q]
      BY <1>1, <2>4, <3>2 DEF EntriesPast
    <3>3. CASE trail'[q] = Append(trail[q], entry)
      <4>1. trail[q] \in Seq(Entries)
        BY <1>1
      <4>2. \/ i \in DOMAIN trail[q] /\ trail'[q][i] = trail[q][i]
            \/ trail'[q][i] = entry
        BY <2>3, <2>4, <3>3, <4>1, AppendSource
      <4> QED
        BY <1>1, <2>3, <4>2 DEF EntriesPast
    <3> QED
      BY <3>1, <3>2, <3>3
  <2> QED
    BY <2>1, <2>2, <2>4 DEF EntriesPast
<1>6. ASSUME NEW s \in Sessions, Statement(s)
      PROVE  StartsPast' /\ EntriesPast'
  BY <1>1, <1>2, <1>6, StatementTimes, StatementKeeps
<1>7. ASSUME NEW s \in Sessions, Rollback(s)
      PROVE  StartsPast' /\ EntriesPast'
  BY <1>1, <1>2, <1>7 DEF Rollback, Discard
<1>8. CASE Crash
  BY <1>1, <1>2, <1>8 DEF Crash
<1> QED
  BY <1>3, <1>4, <1>5, <1>6, <1>7, <1>8 DEF Next

\* What was at a position stays there.
LEMMA PrefixKeeps ==
    ASSUME NEW s \in Seq(Entries), NEW t \in Seq(Entries), IsPrefix(s, t)
    PROVE  /\ DOMAIN s \subseteq DOMAIN t
           /\ \A i \in DOMAIN s : t[i] = s[i]
<1>1. /\ Len(s) \in Nat /\ Len(t) \in Nat /\ Len(s) <= Len(t)
      /\ SubSeq(s, 1, Len(s)) = SubSeq(t, 1, Len(s))
  BY DEF IsPrefix
<1>2. \A i \in 1..Len(s) : /\ SubSeq(s, 1, Len(s))[i] = s[i]
                           /\ SubSeq(t, 1, Len(s))[i] = t[i]
  BY <1>1
<1> QED
  BY <1>1, <1>2

LEMMA WriterHistory ==
    ASSUME HistoryInv, WriterStep
    PROVE  HistoryInv'
<1> USE DEF HistoryInv
<1> DEFINE committed == UNION {TxidsOf(trail'[q]) : q \in Subjects}
<1>1. Next /\ UNCHANGED reader /\ ended' = Over(ended, [x \in committed |-> clock'])
  BY DEF WriterStep
<1>2. StampInv' /\ StartsPast' /\ EntriesPast'
  BY <1>1, NextStamp, WriterTimes
<1>3. ASSUME NEW q \in Subjects
      PROVE  /\ trail[q] \in Seq(Entries) /\ trail'[q] \in Seq(Entries)
             /\ DOMAIN trail[q] \subseteq DOMAIN trail'[q]
             /\ \A i \in DOMAIN trail[q] : trail'[q][i] = trail[q][i]
  <2>1. trail[q] \in Seq(Entries) /\ trail'[q] \in Seq(Entries) /\ IsPrefix(trail[q], trail'[q])
    BY <1>1, <1>2, NextAppends DEF StampInv, TypeOK
  <2> QED
    BY <2>1, PrefixKeeps
<1>4. /\ DOMAIN ended' = DOMAIN ended \cup committed
      /\ \A x \in DOMAIN ended : ended'[x] = ended[x]
      /\ \A x \in committed \ DOMAIN ended : ended'[x] = clock'
  BY <1>1 DEF Over
<1>5. EndedCommitted'
  <2>1. DOMAIN ended \subseteq UNION {TxidsOf(trail'[q]) : q \in Subjects}
    BY <1>3 DEF EndedCommitted, TxidsOf
  <2> QED
    BY <1>4, <2>1 DEF EndedCommitted
<1>6. EndedAfterStart'
  <2> SUFFICES ASSUME NEW q \in Subjects, NEW i \in DOMAIN trail'[q]
               PROVE  /\ ended'[trail'[q][i].txid] \in Nat
                      /\ ended'[trail'[q][i].txid] >= trail'[q][i].at
    BY DEF EndedAfterStart
  <2> DEFINE x == trail'[q][i].txid
  <2>1. CASE x \in DOMAIN ended
    <3>1. PICK p \in Subjects : \E j \in DOMAIN trail[p] : trail[p][j].txid = x
      BY <2>1 DEF EndedCommitted, TxidsOf
    <3>2. PICK j \in DOMAIN trail[p] : trail[p][j].txid = x
      BY <3>1
    <3>3. ended[x] \in Nat /\ ended[x] >= trail[p][j].at
      BY <3>2 DEF EndedAfterStart
    <3>4. trail[p][j].at = trail'[q][i].at
      <4>1. j \in DOMAIN trail'[p] /\ trail'[p][j] = trail[p][j]
        BY <1>3
      <4> QED
        BY <1>2, <3>2, <4>1 DEF StampInv, OneStart
    <3> QED
      BY <1>4, <2>1, <3>3, <3>4
  <2>2. CASE x \notin DOMAIN ended
    <3>1. x \in committed \ DOMAIN ended
      <4>1. x \in TxidsOf(trail'[q])
        BY DEF TxidsOf
      <4> QED
        BY <2>2, <4>1
    <3>2. trail'[q][i].at <= clock' /\ clock' \in Nat
      BY <1>2 DEF EntriesPast, StampInv, TypeOK
    <3> QED
      BY <1>4, <3>1, <3>2
  <2> QED
    BY <2>1, <2>2
<1>7. Tab \in Subjects
  BY PageAssumption DEF Subjects
<1>8. ReaderTyped' /\ PageSorted'
  BY <1>1, <1>3, <1>7 DEF reader, ReaderTyped, PageSorted
<1>9. KeepsPlace'
  <2> SUFFICES ASSUME NEW i \in known, Untied(i)'
               PROVE  (i \in seen \/ StillToCome(i))'
    BY <1>1 DEF KeepsPlace, reader
  <2>1. i \in DOMAIN trail[Tab] /\ Untied(i)
    BY <1>3, <1>7 DEF Untied, ReaderTyped
  <2>2. Cardinality(Later(trail[Tab], i)) <= Cardinality(Later(trail'[Tab], i))
    <3>1. Later(trail[Tab], i) \subseteq Later(trail'[Tab], i)
      BY <1>3, <1>7, <2>1 DEF Later
    <3>2. Later(trail'[Tab], i) \subseteq DOMAIN trail'[Tab]
      BY DEF Later
    <3> QED
      BY <1>3, <1>7, <3>1, <3>2, FewerPositions
  <2>3. /\ Cardinality(Later(trail[Tab], i)) \in Nat
        /\ Cardinality(Later(trail'[Tab], i)) \in Nat
    BY <1>3, <1>7, PositionsFinite DEF Later
  <2> QED
    BY <1>1, <2>1, <2>2, <2>3 DEF KeepsPlace, StillToCome, ReaderTyped, reader
<1> QED
  BY <1>2, <1>5, <1>6, <1>8, <1>9

LEMMA NextHistory == HistoryInv /\ [HistoryNext]_historyVars => HistoryInv'
<1> SUFFICES ASSUME HistoryInv, [HistoryNext]_historyVars
             PROVE  HistoryInv'
  OBVIOUS
<1>1. CASE UNCHANGED historyVars
  <2>1. UNCHANGED <<vars, reader, ended>>
    BY <1>1 DEF historyVars
  <2>2. StampInv'
    BY <2>1, NextStamp DEF HistoryInv
  <2> QED
    BY <2>1, <2>2 DEF HistoryInv, vars, txVars, reader, StartsPast, EntriesPast,
       EndedCommitted, EndedAfterStart, ReaderTyped, PageSorted, KeepsPlace,
       Untied, StillToCome, Later
<1> QED
  BY <1>1, ReadHistory, WriterHistory DEF HistoryNext

LEMMA AlwaysHistory == HistorySpec => []HistoryInv
BY InitHistory, NextHistory, PTL DEF HistorySpec

-----------------------------------------------------------------------------
(* The theorems.                                                           *)

\* A page holds positions of the trail, paging is at a position, and only
\* transactions that were given an id are known to have ended.
THEOREM HistoryTypeCorrect == HistorySpec => []HistoryTypeOK
<1>1. HistoryInv => HistoryTypeOK
  <2> SUFFICES ASSUME HistoryInv
               PROVE  HistoryTypeOK
    OBVIOUS
  <2>1. ASSUME NEW x \in DOMAIN ended
        PROVE  x \in 1..lastXid
    <3>1. PICK q \in Subjects : \E i \in DOMAIN trail[q] : trail[q][i].txid = x
      BY DEF HistoryInv, EndedCommitted, TxidsOf
    <3>2. PICK i \in DOMAIN trail[q] : trail[q][i].txid = x
      BY <3>1
    <3>3. x \in Nat /\ x # 0 /\ x <= lastXid /\ lastXid \in Nat
      BY <3>2, TrailTyped DEF HistoryInv, StampInv, TrailStamped, TypeOK
    <3> QED
      BY <3>3
  <2> QED
    BY <2>1 DEF HistoryInv, StampInv, ReaderTyped, HistoryTypeOK
<1> QED
  BY <1>1, AlwaysHistory, PTL

\* A page of the tab never contradicts real time, whatever transactions
\* commit around the query (history): what is listed above was written by a
\* transaction that had not ended when the one below began.
THEOREM PagesFollowRealTime == HistorySpec => []RealTimeOrder
<1>1. HistoryInv => RealTimeOrder
  <2> SUFFICES ASSUME HistoryInv, NEW i \in DOMAIN page, NEW j \in DOMAIN page, i < j
               PROVE  ended[trail[Tab][page[i]].txid] >= trail[Tab][page[j]].at
    BY DEF RealTimeOrder
  <2>1. page[i] \in DOMAIN trail[Tab] /\ page[j] \in DOMAIN trail[Tab]
    BY DEF HistoryInv, ReaderTyped
  <2>2. Tab \in Subjects /\ trail[Tab] \in Seq(Entries)
    BY TabIsSubject DEF HistoryInv, StampInv
  <2>3. trail[Tab][page[i]].at \in Nat /\ trail[Tab][page[j]].at \in Nat
    BY <2>1, <2>2, EntryTime
  <2>4. trail[Tab][page[i]].at >= trail[Tab][page[j]].at
    BY DEF HistoryInv, PageSorted
  <2>5. /\ ended[trail[Tab][page[i]].txid] \in Nat
        /\ ended[trail[Tab][page[i]].txid] >= trail[Tab][page[i]].at
    BY <2>1, <2>2 DEF HistoryInv, EndedAfterStart
  <2> QED
    BY <2>3, <2>4, <2>5
<1> QED
  BY <1>1, AlwaysHistory, PTL

\* Reading a tab to its last page lists every entry it had when the first
\* page was read, unless it ties with another, whatever transactions commit
\* between the pages (history: LIMIT and OFFSET over occurred_at DESC).
THEOREM PagingIsComplete == HistorySpec => []PagingSkipsNothing
<1>1. HistoryInv => PagingSkipsNothing
  BY DEF HistoryInv, KeepsPlace, StillToCome, PagingSkipsNothing
<1> QED
  BY <1>1, AlwaysHistory, PTL

\* Whoever reads the history, what happens to rows and trail is what happens
\* without a reader: each of its pages is one consistent read, and all that
\* is proved of AuditCapture holds here as well (history).
THEOREM ReadersDisturbNothing == HistorySpec => Spec
<1>1. HistoryInit => Init
  BY DEF HistoryInit
<1>2. [HistoryNext]_historyVars => [Next]_vars
  BY DEF HistoryNext, ReadPage, WriterStep, historyVars
<1> QED
  BY <1>1, <1>2, PTL DEF HistorySpec, Spec
=============================================================================
