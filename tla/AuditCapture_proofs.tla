------------------------ MODULE AuditCapture_proofs ------------------------
(***************************************************************************)
(* Theorems about AuditCapture, for every set of sessions, rows, fields,   *)
(* values and calls: the lemmas about lists of audit entries they rest on, *)
(* the types, that the trail only grows, and what the transaction ids in   *)
(* it say.                                                                 *)
(***************************************************************************)
EXTENDS AuditCapture, TLAPS, SequenceTheorems, WellFoundedInduction

-----------------------------------------------------------------------------
(* What a list of audit entries tells of a row.                            *)

RowImages == Image \cup {Absent}

\* A cell of an image, present or absent, is a value or null.
LEMMA CellType ==
    ASSUME NEW image \in RowImages, NEW f \in Fields
    PROVE  Cell(image, f) \in Cells
BY DEF RowImages, Image, Cells, Cell

\* The diff of two images is a partial function on the fields.
LEMMA DiffType ==
    ASSUME NEW old \in RowImages, NEW new \in RowImages
    PROVE  Diff(old, new) \in Diffs
<1> DEFINE D == {g \in Fields : Cell(old, g) # Cell(new, g)}
<1>1. D \in SUBSET Fields
  OBVIOUS
<1>2. Diff(old, new) \in [D -> [from : Cells, to : Cells]]
  BY CellType DEF Diff
<1> QED
  BY <1>1, <1>2 DEF Diffs, PartialFcns

\* A bounded set of positions that is not empty has a last one.
LEMMA LatestExists ==
    ASSUME NEW n \in Nat, NEW S \in SUBSET (1..n), S # {}
    PROVE  Latest(S) \in S /\ \A j \in S : j <= Latest(S)
<1> DEFINE T == {k \in 0..n : n - k \in S}
<1>1. T \in SUBSET Nat /\ T # {}
  <2>1. PICK i \in S : TRUE
    OBVIOUS
  <2>2. n - i \in 0..n /\ n - (n - i) = i
    BY <2>1
  <2>3. n - i \in T
    BY <2>2
  <2>4. T \in SUBSET Nat
    OBVIOUS
  <2> QED
    BY <2>3, <2>4
<1>2. PICK m \in T : \A k \in T : ~(<<k, m>> \in OpToRel(<, Nat))
  BY <1>1, NatLessThanWellFounded, WFMin
<1>3. \A k \in T : ~(k < m)
  BY <1>1, <1>2 DEF OpToRel
<1>4. n - m \in S /\ \A j \in S : j <= n - m
  <2>1. ASSUME NEW j \in S
        PROVE  j <= n - m
    <3>1. n - j \in 0..n /\ n - (n - j) = j
      OBVIOUS
    <3>2. n - j \in T
      BY <3>1
    <3>3. m \in 0..n
      OBVIOUS
    <3> QED
      BY <1>3, <3>1, <3>2, <3>3
  <2> QED
    BY <2>1
<1> QED
  BY <1>4 DEF Latest

\* The position that no other exceeds is the last one.
LEMMA LatestIs ==
    ASSUME NEW S \in SUBSET Nat, NEW i \in S, \A j \in S : j <= i
    PROVE  Latest(S) = i
<1>1. \A k \in S : (\A j \in S : j <= k) => k = i
  OBVIOUS
<1> QED
  BY <1>1 DEF Latest

\* The positions C are A in a list of length m and B in the list of length n
\* that follows it.
Joined(m, n, A, B, C) ==
    /\ m \in Nat /\ n \in Nat
    /\ A \in SUBSET (1..m) /\ B \in SUBSET (1..n) /\ C \in SUBSET (1..(m + n))
    /\ \A i \in 1..m : i \in C <=> i \in A
    /\ \A i \in 1..n : m + i \in C <=> i \in B

\* The last of joined positions.
LEMMA LatestOfConcat ==
    ASSUME NEW m, NEW n, NEW A, NEW B, NEW C, Joined(m, n, A, B, C)
    PROVE  /\ B # {} => Latest(C) = m + Latest(B)
           /\ B = {} => C = A
           /\ C = {} <=> A = {} /\ B = {}
<1> USE DEF Joined
<1>1. \A k \in C : k \in A \/ (k - m \in B /\ k = m + (k - m))
  <2> TAKE k \in C
  <2>1. k \in 1..m \/ (k - m \in 1..n /\ k = m + (k - m))
    OBVIOUS
  <2> QED
    BY <2>1
<1>2. \A i \in B : m + i \in C
  OBVIOUS
<1>3. A \subseteq C
  OBVIOUS
<1>4. ASSUME B # {}
      PROVE  Latest(C) = m + Latest(B)
  <2>1. Latest(B) \in B /\ \A j \in B : j <= Latest(B)
    BY <1>4, LatestExists
  <2>2. m + Latest(B) \in C
    BY <1>2, <2>1
  <2>3. \A k \in C : k <= m + Latest(B)
    <3> TAKE k \in C
    <3>0. k \in Nat /\ Latest(B) \in Nat
      <4>1. k \in 1..(m + n)
        OBVIOUS
      <4>2. Latest(B) \in 1..n
        BY <2>1
      <4> QED
        BY <4>1, <4>2
    <3>1. CASE k \in A
      <4>1. k <= m
        BY <3>1
      <4> QED
        BY <3>0, <4>1
    <3>2. CASE k - m \in B /\ k = m + (k - m)
      <4>1. k - m <= Latest(B) /\ k - m \in Int
        BY <2>1, <3>0, <3>2
      <4> QED
        BY <3>0, <4>1
    <3> QED
      BY <1>1, <3>1, <3>2
  <2>4. C \in SUBSET Nat
    OBVIOUS
  <2> QED
    BY <2>2, <2>3, <2>4, LatestIs
<1>5. ASSUME B = {}
      PROVE  C = A
  BY <1>1, <1>3, <1>5
<1> QED
  BY <1>1, <1>2, <1>3, <1>4, <1>5

\* Where a concatenation mentions a field, and where it holds captured
\* entries.
LEMMA PositionsOfConcat ==
    ASSUME NEW s \in Seq(Entries), NEW t \in Seq(Entries), NEW f
    PROVE  /\ Mentions(s \o t, f) \in SUBSET (1..(Len(s) + Len(t)))
           /\ \A i \in 1..Len(s) : i \in Mentions(s \o t, f) <=> i \in Mentions(s, f)
           /\ \A i \in 1..Len(t) : Len(s) + i \in Mentions(s \o t, f) <=> i \in Mentions(t, f)
           /\ Captured(s \o t) \in SUBSET (1..(Len(s) + Len(t)))
           /\ \A i \in 1..Len(s) : i \in Captured(s \o t) <=> i \in Captured(s)
           /\ \A i \in 1..Len(t) : Len(s) + i \in Captured(s \o t) <=> i \in Captured(t)
<1>1. /\ DOMAIN (s \o t) = 1..(Len(s) + Len(t))
      /\ \A i \in 1..Len(s) : (s \o t)[i] = s[i]
      /\ \A i \in 1..Len(t) : (s \o t)[Len(s) + i] = t[i]
  OBVIOUS
<1>2. DOMAIN s = 1..Len(s) /\ DOMAIN t = 1..Len(t) /\ Len(s) \in Nat /\ Len(t) \in Nat
  OBVIOUS
<1>3. \A i \in 1..Len(t) : Len(s) + i \in 1..(Len(s) + Len(t))
  BY <1>2
<1>4. \A i \in 1..Len(s) : i \in 1..(Len(s) + Len(t))
  BY <1>2
<1> QED
  BY <1>1, <1>2, <1>3, <1>4 DEF Mentions, Captured

\* Positions lie in the list.
LEMMA PositionsBounded ==
    ASSUME NEW s \in Seq(Entries), NEW f
    PROVE  Mentions(s, f) \in SUBSET (1..Len(s)) /\ Captured(s) \in SUBSET (1..Len(s))
BY DEF Mentions, Captured

\* After a list that tells of the image b, a second tells what it tells of b.
LEMMA ToldConcat ==
    ASSUME NEW s \in Seq(Entries), NEW t \in Seq(Entries), NEW a, NEW b, Tells(a, s, b)
    PROVE  /\ ToldPresent(a, s \o t) <=> ToldPresent(b, t)
           /\ \A f \in Fields : ToldCell(a, s \o t, f) = ToldCell(b, t, f)
<1>1. Len(s) \in Nat /\ Len(t) \in Nat
  OBVIOUS
<1>2. ToldPresent(a, s \o t) <=> ToldPresent(b, t)
  <2> DEFINE A == Captured(s)
             B == Captured(t)
             C == Captured(s \o t)
  <2>1. /\ C \in SUBSET (1..(Len(s) + Len(t)))
        /\ \A i \in 1..Len(s) : i \in C <=> i \in A
        /\ \A i \in 1..Len(t) : Len(s) + i \in C <=> i \in B
    BY PositionsOfConcat
  <2>2. A \in SUBSET (1..Len(s)) /\ B \in SUBSET (1..Len(t))
    BY PositionsBounded
  <2> HIDE DEF A, B, C
  <2>3. /\ B # {} => Latest(C) = Len(s) + Latest(B)
        /\ B = {} => C = A
        /\ C = {} <=> A = {} /\ B = {}
    <3>1. Joined(Len(s), Len(t), A, B, C)
      BY <1>1, <2>1, <2>2 DEF Joined
    <3> QED
      BY <3>1, LatestOfConcat
  <2> USE DEF A, B, C
  <2>4. CASE B # {}
    <3>1. Latest(B) \in 1..Len(t)
      BY <1>1, <2>2, <2>4, LatestExists
    <3>2. (s \o t)[Latest(C)] = t[Latest(B)]
      BY <2>3, <2>4, <3>1
    <3> QED
      BY <2>3, <2>4, <3>2 DEF Tells, ToldPresent
  <2>5. CASE B = {}
    <3>1. ToldPresent(a, s \o t) <=> ToldPresent(a, s)
      <4>1. CASE A = {}
        BY <2>3, <2>5, <4>1 DEF ToldPresent
      <4>2. CASE A # {}
        <5>1. Latest(A) \in 1..Len(s)
          BY <1>1, <2>2, <4>2, LatestExists
        <5>2. (s \o t)[Latest(A)] = s[Latest(A)]
          BY <5>1
        <5> QED
          BY <2>3, <2>5, <4>2, <5>2 DEF ToldPresent
      <4> QED
        BY <4>1, <4>2
    <3> QED
      BY <2>5, <3>1 DEF Tells, ToldPresent
  <2> QED
    BY <2>4, <2>5
<1>3. ASSUME NEW f \in Fields
      PROVE  ToldCell(a, s \o t, f) = ToldCell(b, t, f)
  <2> DEFINE A == Mentions(s, f)
             B == Mentions(t, f)
             C == Mentions(s \o t, f)
  <2>1. /\ C \in SUBSET (1..(Len(s) + Len(t)))
        /\ \A i \in 1..Len(s) : i \in C <=> i \in A
        /\ \A i \in 1..Len(t) : Len(s) + i \in C <=> i \in B
    BY PositionsOfConcat
  <2>2. A \in SUBSET (1..Len(s)) /\ B \in SUBSET (1..Len(t))
    BY PositionsBounded
  <2> HIDE DEF A, B, C
  <2>3. /\ B # {} => Latest(C) = Len(s) + Latest(B)
        /\ B = {} => C = A
        /\ C = {} <=> A = {} /\ B = {}
    <3>1. Joined(Len(s), Len(t), A, B, C)
      BY <1>1, <2>1, <2>2 DEF Joined
    <3> QED
      BY <3>1, LatestOfConcat
  <2> USE DEF A, B, C
  <2>4. CASE B # {}
    <3>1. Latest(B) \in 1..Len(t)
      BY <1>1, <2>2, <2>4, LatestExists
    <3>2. (s \o t)[Latest(C)] = t[Latest(B)]
      BY <2>3, <2>4, <3>1
    <3> QED
      BY <2>3, <2>4, <3>2 DEF ToldCell
  <2>5. CASE B = {}
    <3>1. ToldCell(b, t, f) = Cell(b, f) /\ ToldCell(a, s, f) = Cell(b, f)
      BY <2>5 DEF Tells, ToldCell
    <3>2. CASE A = {}
      BY <2>3, <2>5, <3>1, <3>2 DEF ToldCell
    <3>3. CASE A # {}
      <4>1. Latest(A) \in 1..Len(s)
        BY <1>1, <2>2, <3>3, LatestExists
      <4>2. (s \o t)[Latest(A)] = s[Latest(A)]
        BY <4>1
      <4> QED
        BY <2>3, <2>5, <3>1, <3>3, <4>2 DEF ToldCell
    <3> QED
      BY <3>2, <3>3
  <2> QED
    BY <2>4, <2>5
<1> QED
  BY <1>2, <1>3

\* What one list tells and the next tells on, the two together tell.
LEMMA TellsConcat ==
    ASSUME NEW s \in Seq(Entries), NEW t \in Seq(Entries),
           NEW a, NEW b, NEW c, Tells(a, s, b), Tells(b, t, c)
    PROVE  Tells(a, s \o t, c)
BY ToldConcat DEF Tells

\* No entries tell of no change.
LEMMA TellsNothing ==
    ASSUME NEW image
    PROVE  Tells(image, << >>, image)
<1>1. Captured(<< >>) = {} /\ \A f : Mentions(<< >>, f) = {}
  BY DEF Captured, Mentions
<1> QED
  BY <1>1 DEF Tells, ToldPresent, ToldCell

\* An entry about the row, after entries that tell of its image mid.
LEMMA TellsAppend ==
    ASSUME NEW es \in Seq(Entries), NEW e \in Entries, NEW base, NEW mid, NEW new,
           Tells(base, es, mid), Tells(mid, << e >>, new)
    PROVE  Tells(base, Append(es, e), new)
<1>1. Append(es, e) = es \o << e >> /\ << e >> \in Seq(Entries)
  OBVIOUS
<1> QED
  BY <1>1, TellsConcat

\* What the trigger inserts tells of the change it saw.
LEMMA TellsCapture ==
    ASSUME NEW e, NEW old, NEW new,
           e.by = "trigger", e.action = "delete" <=> new = Absent,
           e.changed = Diff(old, new)
    PROVE  Tells(old, << e >>, new)
<1>1. Captured(<< e >>) = {1} /\ Latest({1}) = 1
  BY LatestIs DEF Captured
<1>2. ToldPresent(old, << e >>) <=> new # Absent
  BY <1>1 DEF ToldPresent
<1>3. ASSUME NEW f \in Fields
      PROVE  ToldCell(old, << e >>, f) = Cell(new, f)
  <2>1. CASE Cell(old, f) = Cell(new, f)
    <3>1. Mentions(<< e >>, f) = {}
      BY <2>1 DEF Mentions, Captured, Diff
    <3> QED
      BY <2>1, <3>1 DEF ToldCell
  <2>2. CASE Cell(old, f) # Cell(new, f)
    <3>1. Mentions(<< e >>, f) = {1}
      BY <1>1, <2>2 DEF Mentions, Diff
    <3>2. e.changed[f].to = Cell(new, f)
      BY <2>2 DEF Diff
    <3> QED
      BY <1>1, <3>1, <3>2 DEF ToldCell
  <2> QED
    BY <2>1, <2>2
<1> QED
  BY <1>2, <1>3 DEF Tells

\* What a verb inserts tells of no change, whatever lane, action and diff it
\* was given.
LEMMA TellsVerb ==
    ASSUME NEW e, NEW image, e.by # "trigger"
    PROVE  Tells(image, << e >>, image)
<1>1. Captured(<< e >>) = {}
  BY DEF Captured
<1>2. \A f : Mentions(<< e >>, f) = {}
  BY <1>1 DEF Mentions
<1> QED
  BY <1>1, <1>2 DEF Tells, ToldPresent, ToldCell

-----------------------------------------------------------------------------
(* Types of what the actions are built from.                               *)

\* An entry of the trigger that passes the declared checks is an entry.
LEMMA CaptureEntryType ==
    ASSUME NEW op \in Ops, NEW old \in RowImages, NEW new \in RowImages,
           NEW ctx \in Contexts, NEW x \in Nat, NEW t \in Nat,
           DeclaredChecks(CaptureEntry(op, old, new, ctx, x, t), ctx)
    PROVE  CaptureEntry(op, old, new, ctx, x, t) \in Entries
<1>1. SessionActor(ctx) \in Names \cup {System}
  BY DEF DeclaredChecks, CaptureEntry
<1> QED
  BY <1>1, DiffType DEF CaptureEntry, Entries, Lanes, Statuses

\* An entry of a verb that passes the declared checks is an entry.
LEMMA VerbEntryType ==
    ASSUME NEW call \in Calls, NEW ctx, NEW x \in Nat, NEW t \in Nat,
           DeclaredChecks(VerbEntry(call, ctx, x, t), ctx)
    PROVE  VerbEntry(call, ctx, x, t) \in Entries
<1>1. call \in AuditEvents
  BY CallAssumption
<1>2. call.changed \in Diffs
  BY <1>1 DEF AuditEvents
<1>3. VerbEntry(call, ctx, x, t).actor \in Names \cup {System} /\ call.action # Unfit
  BY DEF DeclaredChecks, VerbEntry
<1> QED
  BY <1>1, <1>2, <1>3 DEF VerbEntry, Entries, AuditEvents

\* What a session sees of a row is an image or its absence.
LEMMA ViewType ==
    ASSUME TypeOK, NEW s \in Sessions
    PROVE  View(s) \in [Rows -> RowImages]
<1>1. PICK D \in SUBSET Rows : own[s] \in [D -> RowImages]
  BY DEF TypeOK, PartialFcns, RowImages
<1> QED
  BY <1>1 DEF View, Over, TypeOK, RowImages

\* The images of a statement laid over what the transaction wrote before.
LEMMA OverlayType ==
    ASSUME NEW f \in PartialFcns(Rows, RowImages),
           NEW g \in PartialFcns(Rows, RowImages)
    PROVE  Over(f, g) \in PartialFcns(Rows, RowImages)
<1>1. PICK D \in SUBSET Rows : f \in [D -> RowImages]
  BY DEF PartialFcns
<1>2. PICK C \in SUBSET Rows : g \in [C -> RowImages]
  BY DEF PartialFcns
<1>3. Over(f, g) \in [D \cup C -> RowImages]
  BY <1>1, <1>2 DEF Over
<1>4. D \cup C \in SUBSET Rows
  OBVIOUS
<1> QED
  BY <1>3, <1>4 DEF PartialFcns

\* The transaction id a session's next write carries.
LEMMA TxidType ==
    ASSUME TypeOK, NEW s \in Sessions
    PROVE  Txid(s) \in Nat
BY DEF TypeOK, Txid

\* The entries the trigger inserts for a statement that is let through.
LEMMA CapturesType ==
    ASSUME TypeOK, NEW s \in Sessions, NEW op \in Ops,
           NEW D \in SUBSET Rows, NEW images \in [D -> RowImages],
           \A r \in D : DeclaredChecks(Captures(s, op, images)[r], context[s])
    PROVE  \A r \in D : Captures(s, op, images)[r] \in Entries
<1> TAKE r \in D
<1>1. View(s)[r] \in RowImages /\ images[r] \in RowImages
  BY ViewType
<1>2. context[s] \in Contexts /\ Txid(s) \in Nat /\ start[s] \in Nat
  BY TxidType DEF TypeOK
<1>3. Captures(s, op, images)[r]
         = CaptureEntry(op, View(s)[r], images[r], context[s], Txid(s), start[s])
  BY DEF Captures
<1> QED
  BY <1>1, <1>2, <1>3, CaptureEntryType

\* Adding entries to what a transaction inserted.
LEMMA RecordType ==
    ASSUME TypeOK, NEW s \in Sessions, NEW entries,
           \A q \in DOMAIN entries : entries[q] \in Entries,
           Record(s, entries)
    PROVE  pending' \in [Sessions -> [Subjects -> Seq(Entries)]]
<1>1. \A q \in Subjects : pending[s][q] \in Seq(Entries)
  BY DEF TypeOK
<1>2. [q \in Subjects |-> IF q \in DOMAIN entries
                          THEN Append(pending[s][q], entries[q])
                          ELSE pending[s][q]] \in [Subjects -> Seq(Entries)]
  BY <1>1, AppendProperties
<1> QED
  BY <1>2 DEF Record, TypeOK

-----------------------------------------------------------------------------
(* Type correctness.                                                       *)

LEMMA InitTypeOK == Init => TypeOK
<1>1. << >> \in Seq(Entries)
  BY EmptySeq
<1>2. << >> \in PartialFcns(Rows, Image \cup {Absent})
  <2>1. << >> \in [{} -> Image \cup {Absent}]
    OBVIOUS
  <2> QED
    BY <2>1 DEF PartialFcns
<1> QED
  BY <1>1, <1>2 DEF Init, TypeOK, NoRows, NoEntries, Contexts

\* Giving a session's transaction up leaves its variables well typed.
LEMMA DiscardType ==
    ASSUME TypeOK, NEW s \in Sessions, NEW st \in {"idle", "aborted"}, Discard(s, st)
    PROVE  /\ status'  \in [Sessions -> {"idle", "open", "aborted"}]
           /\ start'   \in [Sessions -> Nat]
           /\ xid'     \in [Sessions -> Nat]
           /\ context' \in [Sessions -> Contexts]
           /\ own'     \in [Sessions -> PartialFcns(Rows, Image \cup {Absent})]
           /\ pending' \in [Sessions -> [Subjects -> Seq(Entries)]]
<1>1. NoEntries \in [Subjects -> Seq(Entries)]
  BY EmptySeq DEF NoEntries
<1>2. NoRows \in PartialFcns(Rows, Image \cup {Absent})
  <2>1. << >> \in [{} -> Image \cup {Absent}]
    OBVIOUS
  <2> QED
    BY <2>1 DEF PartialFcns, NoRows
<1> QED
  BY <1>1, <1>2 DEF Discard, TypeOK, Contexts

LEMMA AbortType ==
    ASSUME TypeOK, NEW s \in Sessions, Abort(s)
    PROVE  TypeOK'
BY DiscardType DEF Abort, TypeOK

LEMMA WriteType ==
    ASSUME TypeOK, NEW s \in Sessions, NEW op \in Ops,
           NEW D \in SUBSET Rows, NEW images \in [D -> RowImages],
           Write(s, op, images)
    PROVE  TypeOK'
<1> DEFINE entries == Captures(s, op, images)
<1>1. CASE /\ \A r \in D : DeclaredChecks(entries[r], context[s])
           /\ own' = [own EXCEPT ![s] = Over(images, @)]
           /\ Record(s, entries)
           /\ AssignXid(s)
           /\ UNCHANGED <<table, trail, status, start, context, clock>>
  <2>1. \A r \in D : entries[r] \in Entries
    BY <1>1, CapturesType
  <2>2. pending' \in [Sessions -> [Subjects -> Seq(Entries)]]
    <3>1. DOMAIN entries = D
      BY DEF Captures
    <3> QED
      BY <1>1, <2>1, <3>1, RecordType
  <2>3. own' \in [Sessions -> PartialFcns(Rows, RowImages)]
    <3>1. images \in PartialFcns(Rows, RowImages)
      BY DEF PartialFcns
    <3>2. own[s] \in PartialFcns(Rows, RowImages)
      BY DEF TypeOK, RowImages
    <3>3. Over(images, own[s]) \in PartialFcns(Rows, RowImages)
      BY <3>1, <3>2, OverlayType
    <3> QED
      BY <1>1, <3>3 DEF TypeOK, RowImages
  <2>4. xid' \in [Sessions -> Nat] /\ lastXid' \in Nat
    BY <1>1, TxidType DEF AssignXid, TypeOK
  <2> QED
    BY <1>1, <2>2, <2>3, <2>4 DEF TypeOK, RowImages
<1>2. CASE Abort(s)
  BY <1>2, AbortType
<1> QED
  BY <1>1, <1>2 DEF Write

LEMMA LogEventType ==
    ASSUME TypeOK, NEW s \in Sessions, NEW call \in Calls, LogEvent(s, call)
    PROVE  TypeOK'
<1> DEFINE entry == VerbEntry(call, context[s], Txid(s), start[s])
<1>1. CASE /\ DeclaredChecks(entry, context[s])
           /\ Record(s, [q \in {call.subject} |-> entry])
           /\ AssignXid(s)
           /\ UNCHANGED <<table, trail, status, start, context, own, clock>>
  <2>1. entry \in Entries
    BY <1>1, VerbEntryType, TxidType DEF TypeOK
  <2>2. pending' \in [Sessions -> [Subjects -> Seq(Entries)]]
    BY <1>1, <2>1, RecordType
  <2>3. xid' \in [Sessions -> Nat] /\ lastXid' \in Nat
    BY <1>1, TxidType DEF AssignXid, TypeOK
  <2> QED
    BY <1>1, <2>2, <2>3 DEF TypeOK
<1>2. CASE Abort(s)
  BY <1>2, AbortType
<1> QED
  BY <1>1, <1>2 DEF LogEvent

LEMMA LogAloneType ==
    ASSUME TypeOK, NEW call \in Calls, NEW ctx \in Contexts, LogAlone(call, ctx)
    PROVE  TypeOK'
<1> DEFINE entry == VerbEntry(call, ctx, lastXid + 1, clock + 1)
<1>1. entry \in Entries
  BY VerbEntryType DEF LogAlone, TypeOK
<1>2. call.subject \in Subjects
  BY CallAssumption DEF AuditEvents
<1>3. Append(trail[call.subject], entry) \in Seq(Entries)
  BY <1>1, <1>2, AppendProperties DEF TypeOK
<1>4. trail' \in [Subjects -> Seq(Entries)]
  BY <1>3 DEF LogAlone, TypeOK
<1>5. clock' \in Nat /\ lastXid' \in Nat
  BY DEF LogAlone, TypeOK
<1> QED
  BY <1>4, <1>5 DEF LogAlone, TypeOK, txVars

LEMMA CommitType ==
    ASSUME TypeOK, NEW s \in Sessions, Commit(s)
    PROVE  TypeOK'
<1>1. table' \in [Rows -> RowImages]
  BY ViewType DEF Commit
<1>2. trail' \in [Subjects -> Seq(Entries)]
  <2>1. \A q \in Subjects : trail[q] \in Seq(Entries) /\ pending[s][q] \in Seq(Entries)
    BY DEF TypeOK
  <2>2. \A q \in Subjects : trail[q] \o pending[s][q] \in Seq(Entries)
    BY <2>1, ConcatProperties
  <2> QED
    BY <2>2 DEF Commit
<1>3. Discard(s, "idle") /\ UNCHANGED <<clock, lastXid>>
  BY DEF Commit
<1> QED
  BY <1>1, <1>2, <1>3, DiscardType DEF TypeOK, RowImages

LEMMA CrashType ==
    ASSUME TypeOK, Crash
    PROVE  TypeOK'
<1>1. NoEntries \in [Subjects -> Seq(Entries)]
  BY EmptySeq DEF NoEntries
<1>2. NoRows \in PartialFcns(Rows, Image \cup {Absent})
  <2>1. << >> \in [{} -> Image \cup {Absent}]
    OBVIOUS
  <2> QED
    BY <2>1 DEF PartialFcns, NoRows
<1> QED
  BY <1>1, <1>2 DEF Crash, TypeOK, Contexts

\* A patched row is a row.
LEMMA PatchImage ==
    ASSUME NEW patch \in Patches, NEW image \in Image
    PROVE  Over(patch, image) \in Image
<1>1. PICK C \in SUBSET Fields : patch \in [C -> Cells]
  BY DEF Patches, PartialFcns
<1> QED
  BY <1>1 DEF Image, Over

\* The images an UPDATE gives its rows.
LEMMA PatchType ==
    ASSUME TypeOK, NEW s \in Sessions, NEW D \in SUBSET Rows, NEW patch \in Patches,
           \A r \in D : View(s)[r] # Absent
    PROVE  [r \in D |-> Over(patch, View(s)[r])] \in [D -> RowImages]
<1>1. \A r \in D : View(s)[r] \in Image
  BY ViewType DEF RowImages
<1>2. \A r \in D : Over(patch, View(s)[r]) \in Image
  BY <1>1, PatchImage
<1> QED
  BY <1>2 DEF RowImages

\* Every statement of an open transaction.
LEMMA StatementType ==
    ASSUME TypeOK, NEW s \in Sessions, Statement(s)
    PROVE  TypeOK'
<1>1. ASSUME NEW r \in Rows, NEW image \in Image, Insert(s, r, image)
      PROVE  TypeOK'
  <2>1. [q \in {r} |-> image] \in [{r} -> RowImages]
    BY DEF RowImages
  <2>2. Write(s, "insert", [q \in {r} |-> image])
    BY <1>1 DEF Insert
  <2> QED
    BY <2>1, <2>2, WriteType DEF Ops
<1>2. ASSUME NEW D \in SUBSET Rows, NEW patch \in Patches, Update(s, D, patch)
      PROVE  TypeOK'
  BY <1>2, PatchType, WriteType DEF Update, Ops
<1>3. ASSUME NEW D \in SUBSET Rows, Delete(s, D)
      PROVE  TypeOK'
  <2>1. [r \in D |-> Absent] \in [D -> RowImages]
    BY DEF RowImages
  <2> QED
    BY <1>3, <2>1, WriteType DEF Delete, Ops
<1>4. ASSUME NEW call \in Calls, LogEvent(s, call)
      PROVE  TypeOK'
  BY <1>4, LogEventType
<1>5. ASSUME NEW ctx \in Contexts, SetContext(s, ctx)
      PROVE  TypeOK'
  BY <1>5 DEF SetContext, TypeOK
<1>6. ASSUME NEW q \in Subjects, RewriteTrail(s, q)
      PROVE  TypeOK'
  BY <1>6, AbortType DEF RewriteTrail
<1>7. ASSUME Fail(s)
      PROVE  TypeOK'
  BY <1>7, AbortType DEF Fail
<1> QED
  BY <1>1, <1>2, <1>3, <1>4, <1>5, <1>6, <1>7 DEF Statement

LEMMA NextTypeOK == TypeOK /\ [Next]_vars => TypeOK'
<1> SUFFICES ASSUME TypeOK, [Next]_vars
             PROVE  TypeOK'
  OBVIOUS
<1>1. ASSUME NEW s \in Sessions, Begin(s)
      PROVE  TypeOK'
  <2>1. clock' \in Nat /\ start' \in [Sessions -> Nat]
    BY <1>1 DEF Begin, TypeOK
  <2>2. status' \in [Sessions -> {"idle", "open", "aborted"}]
    BY <1>1 DEF Begin, TypeOK
  <2> QED
    BY <1>1, <2>1, <2>2 DEF Begin, TypeOK
<1>2. ASSUME NEW s \in Sessions, Statement(s)
      PROVE  TypeOK'
  BY <1>2, StatementType
<1>3. ASSUME NEW s \in Sessions, Commit(s)
      PROVE  TypeOK'
  BY <1>3, CommitType
<1>4. ASSUME NEW s \in Sessions, Rollback(s)
      PROVE  TypeOK'
  BY <1>4, DiscardType DEF Rollback, TypeOK
<1>5. ASSUME NEW call \in Calls, NEW ctx \in Contexts, LogAlone(call, ctx)
      PROVE  TypeOK'
  BY <1>5, LogAloneType
<1>6. CASE Crash
  BY <1>6, CrashType
<1>7. CASE UNCHANGED vars
  BY <1>7 DEF vars, txVars, TypeOK
<1> QED
  BY <1>1, <1>2, <1>3, <1>4, <1>5, <1>6, <1>7 DEF Next

\* Every reachable state is well typed; in particular no row that breaks a
\* declared CHECK, such as one with a blank actor, is ever stored.
THEOREM TypeCorrect == Spec => []TypeOK
<1>1. Init => TypeOK
  BY InitTypeOK
<1>2. TypeOK /\ [Next]_vars => TypeOK'
  BY NextTypeOK
<1> QED
  BY <1>1, <1>2, PTL DEF Spec

-----------------------------------------------------------------------------
(* The trail is append-only.                                               *)

LEMMA PrefixOfConcat ==
    ASSUME NEW s \in Seq(Entries), NEW t \in Seq(Entries)
    PROVE  IsPrefix(s, s \o t)
<1>1. Len(s) \in Nat /\ Len(t) \in Nat /\ Len(s \o t) = Len(s) + Len(t)
  OBVIOUS
<1>2. \A i \in 1..Len(s) : (s \o t)[i] = s[i]
  OBVIOUS
<1>3. SubSeq(s, 1, Len(s)) = SubSeq(s \o t, 1, Len(s))
  BY <1>1, <1>2
<1> QED
  BY <1>1, <1>3 DEF IsPrefix

LEMMA PrefixOfItself ==
    ASSUME NEW s \in Seq(Entries)
    PROVE  IsPrefix(s, s)
BY DEF IsPrefix

\* Only a commit and a verb on its own touch the trail.
LEMMA StatementKeeps ==
    ASSUME NEW s \in Sessions, Statement(s)
    PROVE  UNCHANGED <<table, trail>>
<1>1. ASSUME NEW op, NEW images, Write(s, op, images)
      PROVE  UNCHANGED <<table, trail>>
  BY <1>1 DEF Write, Abort
<1> QED
  BY <1>1 DEF Statement, Insert, Update, Delete, LogEvent, SetContext, RewriteTrail,
              Fail, Abort

LEMMA NextAppends ==
    ASSUME TypeOK, [Next]_vars
    PROVE  \A q \in Subjects : IsPrefix(trail[q], trail'[q])
<1> SUFFICES ASSUME NEW q \in Subjects
             PROVE  IsPrefix(trail[q], trail'[q])
  OBVIOUS
<1>1. trail[q] \in Seq(Entries)
  BY DEF TypeOK
<1>2. ASSUME NEW s \in Sessions, Commit(s)
      PROVE  IsPrefix(trail[q], trail'[q])
  <2>1. pending[s][q] \in Seq(Entries)
    BY DEF TypeOK
  <2> QED
    BY <1>1, <1>2, <2>1, PrefixOfConcat DEF Commit
<1>3. ASSUME NEW call \in Calls, NEW ctx \in Contexts, LogAlone(call, ctx)
      PROVE  IsPrefix(trail[q], trail'[q])
  <2> DEFINE entry == VerbEntry(call, ctx, lastXid + 1, clock + 1)
  <2>1. entry \in Entries
    BY <1>3, VerbEntryType DEF LogAlone, TypeOK
  <2>2. trail'[q] = trail[q] \/ trail'[q] = Append(trail[q], entry)
    BY <1>3 DEF LogAlone, TypeOK
  <2>3. Append(trail[q], entry) = trail[q] \o << entry >> /\ << entry >> \in Seq(Entries)
    BY <1>1, <2>1
  <2> QED
    BY <1>1, <2>2, <2>3, PrefixOfConcat, PrefixOfItself
<1>4. CASE UNCHANGED trail
  BY <1>1, <1>4, PrefixOfItself
<1> QED
  BY <1>2, <1>3, <1>4, StatementKeeps DEF Next, Begin, Rollback, Crash, vars

\* No step of any session, whatever it asks for, edits or removes an entry
\* (audit_trails_immutable).
THEOREM TrailOnlyGrows == Spec => AppendOnly
<1>1. TypeOK /\ [Next]_vars => [\A q \in Subjects : IsPrefix(trail[q], trail'[q])]_vars
  BY NextAppends
<1> QED
  BY <1>1, TypeCorrect, PTL DEF Spec, AppendOnly

-----------------------------------------------------------------------------
(* What the transaction ids in the trail say.                              *)

\* A session between transactions has no transaction id.
IdleBare == \A s \in Sessions : status[s] = "idle" => xid[s] = 0

\* Ids are handed out once.
XidsApart ==
    \A s \in Sessions :
        /\ xid[s] <= lastXid
        /\ \A t \in Sessions \ {s} : xid[s] = 0 \/ xid[s] # xid[t]

\* What a transaction has inserted carries its id and its start.
PendingStamped ==
    \A s \in Sessions : \A q \in Subjects : \A i \in DOMAIN pending[s][q] :
        xid[s] # 0 /\ pending[s][q][i].txid = xid[s] /\ pending[s][q][i].at = start[s]

\* What is in the trail carries an id that was handed out and is not open.
TrailStamped ==
    \A q \in Subjects : \A i \in DOMAIN trail[q] :
        /\ trail[q][i].txid # 0 /\ trail[q][i].txid <= lastXid
        /\ \A s \in Sessions : xid[s] # trail[q][i].txid

\* One id, one start.
OneStart ==
    \A p, q \in Subjects : \A i \in DOMAIN trail[p], j \in DOMAIN trail[q] :
        trail[p][i].txid = trail[q][j].txid => trail[p][i].at = trail[q][j].at

StampInv ==
    /\ TypeOK
    /\ IdleBare
    /\ XidsApart
    /\ PendingStamped
    /\ TrailStamped
    /\ OneStart

-----------------------------------------------------------------------------
(* Steps.                                                                  *)

\* An entry of a longer list comes from one of its parts.
LEMMA ConcatSource ==
    ASSUME NEW s \in Seq(Entries), NEW t \in Seq(Entries), NEW i \in DOMAIN (s \o t)
    PROVE  \/ i \in DOMAIN s /\ (s \o t)[i] = s[i]
           \/ \E j \in DOMAIN t : (s \o t)[i] = t[j]
<1>1. /\ Len(s) \in Nat /\ Len(t) \in Nat
      /\ DOMAIN s = 1..Len(s) /\ DOMAIN t = 1..Len(t)
      /\ DOMAIN (s \o t) = 1..(Len(s) + Len(t))
  OBVIOUS
<1>2. CASE i <= Len(s)
  BY <1>1, <1>2
<1>3. CASE i > Len(s)
  <2>1. i - Len(s) \in DOMAIN t /\ (s \o t)[i] = t[i - Len(s)]
    BY <1>1, <1>3
  <2> QED
    BY <2>1
<1> QED
  BY <1>1, <1>2, <1>3

LEMMA AppendSource ==
    ASSUME NEW s \in Seq(Entries), NEW e \in Entries, NEW i \in DOMAIN Append(s, e)
    PROVE  (i \in DOMAIN s /\ Append(s, e)[i] = s[i]) \/ Append(s, e)[i] = e
OBVIOUS

LEMMA TrailTyped ==
    ASSUME TypeOK, NEW q \in Subjects, NEW i \in DOMAIN trail[q]
    PROVE  trail[q][i].txid \in Nat
<1>1. trail[q] \in Seq(Entries)
  BY DEF TypeOK
<1>2. trail[q][i] \in Entries
  BY <1>1
<1> QED
  BY <1>2 DEF Entries

LEMMA InitStamp == Init => StampInv
<1> SUFFICES ASSUME Init
             PROVE  StampInv
  OBVIOUS
<1>1. TypeOK
  BY InitTypeOK
<1>2. IdleBare /\ XidsApart
  BY DEF Init, IdleBare, XidsApart
<1>3. PendingStamped /\ TrailStamped /\ OneStart
  BY DEF Init, PendingStamped, TrailStamped, OneStart, NoEntries
<1> QED
  BY <1>1, <1>2, <1>3 DEF StampInv

\* A transaction that inserts entries stamped with its id and start.
LEMMA GrowStamp ==
    ASSUME StampInv, TypeOK', NEW s \in Sessions, NEW entries,
           status[s] = "open",
           \A q \in DOMAIN entries : /\ entries[q] \in Entries
                                     /\ entries[q].txid = Txid(s) /\ entries[q].at = start[s],
           Record(s, entries), AssignXid(s), UNCHANGED <<trail, status, start>>
    PROVE  StampInv'
<1> USE DEF StampInv
<1>1. /\ xid'[s] # 0 /\ xid'[s] = Txid(s)
      /\ xid[s] # 0 => xid'[s] = xid[s] /\ lastXid' = lastXid
      /\ \A t \in Sessions \ {s} : xid'[t] = xid[t]
      /\ lastXid <= lastXid' /\ lastXid \in Nat /\ lastXid' \in Nat
      /\ xid[s] = 0 => xid'[s] = lastXid + 1 /\ lastXid' = lastXid + 1
      /\ \A t \in Sessions : xid[t] \in Nat
  BY DEF AssignXid, Txid, TypeOK
<1>2. IdleBare'
  BY <1>1 DEF IdleBare
<1>3. XidsApart'
  <2>1. CASE xid[s] = 0
    BY <1>1, <2>1 DEF XidsApart
  <2>2. CASE xid[s] # 0
    BY <1>1, <2>2 DEF XidsApart
  <2> QED
    BY <2>1, <2>2
<1>4. PendingStamped'
  <2> SUFFICES ASSUME NEW t \in Sessions, NEW q \in Subjects, NEW i \in DOMAIN pending'[t][q]
               PROVE  /\ xid'[t] # 0 /\ pending'[t][q][i].txid = xid'[t]
                      /\ pending'[t][q][i].at = start[t]
    BY DEF PendingStamped
  <2>1. pending[t][q] \in Seq(Entries)
    BY DEF TypeOK
  <2>2. CASE pending'[t][q] = pending[t][q]
    BY <1>1, <2>2 DEF PendingStamped
  <2>3. CASE t = s /\ q \in DOMAIN entries /\ pending'[t][q] = Append(pending[t][q], entries[q])
    <3>1. \/ i \in DOMAIN pending[t][q] /\ pending'[t][q][i] = pending[t][q][i]
          \/ pending'[t][q][i] = entries[q]
      BY <2>1, <2>3, AppendSource
    <3> QED
      BY <1>1, <2>3, <3>1 DEF PendingStamped
  <2> QED
    BY <2>2, <2>3 DEF Record, TypeOK
<1>5. TrailStamped'
  <2> SUFFICES ASSUME NEW q \in Subjects, NEW i \in DOMAIN trail[q]
               PROVE  /\ trail[q][i].txid # 0 /\ trail[q][i].txid <= lastXid'
                      /\ \A t \in Sessions : xid'[t] # trail[q][i].txid
    BY DEF TrailStamped
  <2>1. trail[q][i].txid \in Nat
    BY TrailTyped
  <2> QED
    BY <1>1, <2>1 DEF TrailStamped
<1>6. OneStart'
  BY DEF OneStart
<1> QED
  BY <1>2, <1>3, <1>4, <1>5, <1>6

\* A transaction that is given up.
LEMMA DiscardStamp ==
    ASSUME StampInv, TypeOK', NEW s \in Sessions, NEW st, Discard(s, st),
           UNCHANGED <<trail, lastXid>>
    PROVE  StampInv'
<1> USE DEF StampInv
<1>1. /\ xid'[s] = 0 /\ \A q \in Subjects : DOMAIN pending'[s][q] = {}
      /\ \A t \in Sessions \ {s} : /\ xid'[t] = xid[t] /\ start'[t] = start[t]
                                   /\ pending'[t] = pending[t] /\ status'[t] = status[t]
      /\ lastXid \in Nat
  BY DEF Discard, TypeOK, NoEntries
<1>2. IdleBare' /\ XidsApart'
  BY <1>1 DEF IdleBare, XidsApart
<1>3. PendingStamped'
  BY <1>1 DEF PendingStamped
<1>4. TrailStamped' /\ OneStart'
  BY <1>1 DEF TrailStamped, OneStart
<1> QED
  BY <1>2, <1>3, <1>4

LEMMA WriteStamp ==
    ASSUME StampInv, NEW s \in Sessions, NEW op \in Ops,
           NEW D \in SUBSET Rows, NEW images \in [D -> RowImages],
           Write(s, op, images)
    PROVE  StampInv'
<1>1. TypeOK /\ TypeOK'
  BY WriteType DEF StampInv
<1>2. CASE Abort(s)
  BY <1>1, <1>2, DiscardStamp DEF Abort
<1>3. CASE /\ \A r \in D : DeclaredChecks(Captures(s, op, images)[r], context[s])
           /\ Record(s, Captures(s, op, images)) /\ AssignXid(s)
           /\ UNCHANGED <<trail, status, start>>
  <2>1. \A r \in D : Captures(s, op, images)[r] \in Entries
    BY <1>1, <1>3, CapturesType
  <2>2. \A r \in D : /\ Captures(s, op, images)[r].txid = Txid(s)
                     /\ Captures(s, op, images)[r].at = start[s]
    BY DEF Captures, CaptureEntry
  <2>3. DOMAIN Captures(s, op, images) = D /\ status[s] = "open"
    BY DEF Captures, Write
  <2> QED
    BY <1>1, <1>3, <2>1, <2>2, <2>3, GrowStamp
<1> QED
  BY <1>2, <1>3 DEF Write

LEMMA LogEventStamp ==
    ASSUME StampInv, NEW s \in Sessions, NEW call \in Calls, LogEvent(s, call)
    PROVE  StampInv'
<1> DEFINE entry == VerbEntry(call, context[s], Txid(s), start[s])
           entries == [q \in {call.subject} |-> entry]
<1>1. TypeOK /\ TypeOK'
  BY LogEventType DEF StampInv
<1>2. CASE Abort(s)
  BY <1>1, <1>2, DiscardStamp DEF Abort
<1>3. CASE /\ DeclaredChecks(entry, context[s]) /\ Record(s, entries) /\ AssignXid(s)
           /\ UNCHANGED <<trail, status, start>>
  <2>1. entry \in Entries
    BY <1>1, <1>3, VerbEntryType, TxidType DEF TypeOK
  <2>2. entry.txid = Txid(s) /\ entry.at = start[s]
    BY DEF VerbEntry
  <2>3. status[s] = "open"
    BY DEF LogEvent
  <2>4. \A q \in DOMAIN entries : /\ entries[q] \in Entries
                                  /\ entries[q].txid = Txid(s) /\ entries[q].at = start[s]
    BY <2>1, <2>2
  <2> HIDE DEF entries
  <2> QED
    BY <1>1, <1>3, <2>3, <2>4, GrowStamp
<1> QED
  BY <1>2, <1>3 DEF LogEvent

LEMMA LogAloneStamp ==
    ASSUME StampInv, NEW call \in Calls, NEW ctx \in Contexts, LogAlone(call, ctx)
    PROVE  StampInv'
<1> DEFINE entry == VerbEntry(call, ctx, lastXid + 1, clock + 1)
<1> USE DEF StampInv
<1>1. TypeOK'
  BY LogAloneType
<1>2. /\ entry \in Entries /\ entry.txid = lastXid + 1 /\ entry.at = clock + 1
      /\ lastXid \in Nat /\ lastXid' = lastXid + 1 /\ UNCHANGED <<xid, status, pending, start>>
  <2>1. entry \in Entries
    BY VerbEntryType DEF LogAlone, TypeOK
  <2> QED
    BY <2>1 DEF LogAlone, TypeOK, txVars, VerbEntry
<1>3. \A q \in Subjects : /\ trail[q] \in Seq(Entries)
                          /\ \/ trail'[q] = trail[q]
                             \/ trail'[q] = Append(trail[q], entry)
  BY DEF LogAlone, TypeOK
<1> HIDE DEF entry
<1>4. \A q \in Subjects : \A i \in DOMAIN trail'[q] :
          \/ i \in DOMAIN trail[q] /\ trail'[q][i] = trail[q][i]
          \/ trail'[q][i] = entry
  BY <1>2, <1>3, AppendSource
<1>5. IdleBare' /\ PendingStamped'
  BY <1>2 DEF IdleBare, PendingStamped
<1>6. XidsApart'
  BY <1>2 DEF XidsApart, TypeOK
<1>7. TrailStamped'
  <2> SUFFICES ASSUME NEW q \in Subjects, NEW i \in DOMAIN trail'[q]
               PROVE  /\ trail'[q][i].txid # 0 /\ trail'[q][i].txid <= lastXid'
                      /\ \A s \in Sessions : xid[s] # trail'[q][i].txid
    BY <1>2 DEF TrailStamped
  <2>1. CASE i \in DOMAIN trail[q] /\ trail'[q][i] = trail[q][i]
    <3>1. trail[q][i].txid \in Nat
      BY <2>1, TrailTyped
    <3> QED
      BY <1>2, <2>1, <3>1 DEF TrailStamped
  <2>2. CASE trail'[q][i] = entry
    BY <1>2, <2>2 DEF XidsApart, TypeOK
  <2> QED
    BY <1>4, <2>1, <2>2
<1>8. OneStart'
  <2>1. \A q \in Subjects : \A i \in DOMAIN trail[q] : trail[q][i].txid # entry.txid
    <3> TAKE q \in Subjects
    <3> TAKE i \in DOMAIN trail[q]
    <3>1. trail[q][i].txid \in Nat /\ trail[q][i].txid <= lastXid
      BY TrailTyped DEF TrailStamped
    <3> QED
      BY <1>2, <3>1
  <2> QED
    BY <1>4, <2>1 DEF OneStart
<1> QED
  BY <1>1, <1>5, <1>6, <1>7, <1>8

LEMMA CommitStamp ==
    ASSUME StampInv, NEW s \in Sessions, Commit(s)
    PROVE  StampInv'
<1> USE DEF StampInv
<1>1. TypeOK'
  BY CommitType
<1>2. /\ xid'[s] = 0 /\ \A q \in Subjects : DOMAIN pending'[s][q] = {}
      /\ \A t \in Sessions \ {s} : /\ xid'[t] = xid[t] /\ start'[t] = start[t]
                                   /\ pending'[t] = pending[t] /\ status'[t] = status[t]
      /\ lastXid \in Nat /\ lastXid' = lastXid
  BY DEF Commit, Discard, TypeOK, NoEntries
<1>3. \A q \in Subjects : /\ trail[q] \in Seq(Entries) /\ pending[s][q] \in Seq(Entries)
                          /\ trail'[q] = trail[q] \o pending[s][q]
  BY DEF Commit, TypeOK
<1>4. \A q \in Subjects : \A i \in DOMAIN trail'[q] :
          \/ i \in DOMAIN trail[q] /\ trail'[q][i] = trail[q][i]
          \/ xid[s] # 0 /\ trail'[q][i].txid = xid[s] /\ trail'[q][i].at = start[s]
  <2> TAKE q \in Subjects
  <2> TAKE i \in DOMAIN trail'[q]
  <2>1. i \in DOMAIN (trail[q] \o pending[s][q])
    BY <1>3
  <2>2. \/ i \in DOMAIN trail[q] /\ trail'[q][i] = trail[q][i]
        \/ \E j \in DOMAIN pending[s][q] : trail'[q][i] = pending[s][q][j]
    <3>1. trail[q] \in Seq(Entries) /\ pending[s][q] \in Seq(Entries)
      BY <1>3
    <3>2. \/ i \in DOMAIN trail[q] /\ (trail[q] \o pending[s][q])[i] = trail[q][i]
          \/ \E j \in DOMAIN pending[s][q] :
                 (trail[q] \o pending[s][q])[i] = pending[s][q][j]
      BY <2>1, <3>1, ConcatSource
    <3> QED
      BY <1>3, <3>2
  <2> QED
    BY <2>2 DEF PendingStamped
<1>5. IdleBare' /\ XidsApart'
  BY <1>2 DEF IdleBare, XidsApart
<1>6. PendingStamped'
  BY <1>2 DEF PendingStamped
<1>7. TrailStamped'
  BY <1>2, <1>4 DEF TrailStamped, XidsApart
<1>8. OneStart'
  <2>1. \A q \in Subjects : \A i \in DOMAIN trail[q] : trail[q][i].txid # xid[s]
    BY DEF TrailStamped
  <2> QED
    BY <1>4, <2>1 DEF OneStart
<1> QED
  BY <1>1, <1>5, <1>6, <1>7, <1>8

LEMMA CrashStamp ==
    ASSUME StampInv, Crash
    PROVE  StampInv'
<1> USE DEF StampInv
<1>1. TypeOK'
  BY CrashType
<1>2. /\ \A s \in Sessions : /\ xid'[s] = 0
                             /\ \A q \in Subjects : DOMAIN pending'[s][q] = {}
      /\ UNCHANGED <<trail, lastXid>> /\ lastXid \in Nat
  BY DEF Crash, NoEntries, TypeOK
<1>3. IdleBare' /\ XidsApart' /\ PendingStamped'
  BY <1>2 DEF IdleBare, XidsApart, PendingStamped
<1>4. TrailStamped' /\ OneStart'
  BY <1>2 DEF TrailStamped, OneStart
<1> QED
  BY <1>1, <1>3, <1>4

LEMMA StatementStamp ==
    ASSUME StampInv, NEW s \in Sessions, Statement(s)
    PROVE  StampInv'
<1>0. TypeOK /\ TypeOK'
  BY StatementType DEF StampInv
<1>1. ASSUME NEW r \in Rows, NEW image \in Image, Insert(s, r, image)
      PROVE  StampInv'
  <2>1. [q \in {r} |-> image] \in [{r} -> RowImages]
    BY DEF RowImages
  <2>2. Write(s, "insert", [q \in {r} |-> image])
    BY <1>1 DEF Insert
  <2> QED
    BY <2>1, <2>2, WriteStamp DEF Ops
<1>2. ASSUME NEW D \in SUBSET Rows, NEW patch \in Patches, Update(s, D, patch)
      PROVE  StampInv'
  BY <1>0, <1>2, PatchType, WriteStamp DEF Update, Ops
<1>3. ASSUME NEW D \in SUBSET Rows, Delete(s, D)
      PROVE  StampInv'
  <2>1. [r \in D |-> Absent] \in [D -> RowImages]
    BY DEF RowImages
  <2> QED
    BY <1>3, <2>1, WriteStamp DEF Delete, Ops
<1>4. ASSUME NEW call \in Calls, LogEvent(s, call)
      PROVE  StampInv'
  BY <1>4, LogEventStamp
<1>5. CASE Abort(s)
  BY <1>0, <1>5, DiscardStamp DEF Abort
<1>6. ASSUME NEW ctx \in Contexts, SetContext(s, ctx)
      PROVE  StampInv'
  BY <1>0, <1>6 DEF SetContext, StampInv, IdleBare, XidsApart, PendingStamped,
                    TrailStamped, OneStart
<1> QED
  BY <1>1, <1>2, <1>3, <1>4, <1>5, <1>6 DEF Statement, RewriteTrail, Fail

\* Only a session without an id begins a transaction.
LEMMA BeginStamp ==
    ASSUME StampInv, TypeOK', NEW s \in Sessions, Begin(s)
    PROVE  StampInv'
<1> USE DEF StampInv
<1>1. /\ xid[s] = 0 /\ UNCHANGED <<trail, xid, pending, lastXid>>
      /\ \A t \in Sessions \ {s} : start'[t] = start[t] /\ status'[t] = status[t]
  BY DEF Begin, IdleBare, TypeOK
<1>2. IdleBare' /\ XidsApart'
  BY <1>1 DEF IdleBare, XidsApart
<1>3. PendingStamped'
  BY <1>1 DEF PendingStamped
<1>4. TrailStamped' /\ OneStart'
  BY <1>1 DEF TrailStamped, OneStart
<1> QED
  BY <1>2, <1>3, <1>4

LEMMA NextStamp == StampInv /\ [Next]_vars => StampInv'
<1> SUFFICES ASSUME StampInv, [Next]_vars
             PROVE  StampInv'
  OBVIOUS
<1>0. TypeOK'
  BY NextTypeOK DEF StampInv
<1>1. ASSUME NEW s \in Sessions, Rollback(s)
      PROVE  StampInv'
  BY <1>0, <1>1, DiscardStamp DEF Rollback
<1>2. CASE UNCHANGED vars
  BY <1>0, <1>2 DEF vars, txVars, StampInv, IdleBare, XidsApart, PendingStamped,
                    TrailStamped, OneStart
<1> QED
  BY <1>0, <1>1, <1>2, BeginStamp, StatementStamp, CommitStamp, LogAloneStamp, CrashStamp
     DEF Next

LEMMA AlwaysStamp == Spec => []StampInv
BY InitStamp, NextStamp, PTL DEF Spec

\* A txid names one transaction and one fate, however transactions
\* interleave, fail and crash and whatever verbs write on their own: no entry
\* of the trail carries the id of an open transaction, and the entries of one
\* id agree on when it began.
THEOREM TxidsAreFates == Spec => []TxidsNameOneFate
<1>1. StampInv => TxidsNameOneFate
  BY DEF StampInv, TxidsNameOneFate, TxidsOf, XidsApart, TrailStamped, OneStart
<1> QED
  BY <1>1, AlwaysStamp, PTL
=============================================================================
