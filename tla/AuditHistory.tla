---------------------------- MODULE AuditHistory ----------------------------
(***************************************************************************)
(* The history tab: AuditHistoryProvider::history read page by page while  *)
(* transactions go on writing the row.  A page is one statement, so it is  *)
(* a consistent read of the committed trail; pages are separate statements *)
(* and other transactions commit between them.  Entries are named by their *)
(* position in the order they were written, which the query does not see:  *)
(* it sorts by occurred_at, and entries that tie come in any order, not    *)
(* the same one in every statement.                                        *)
(***************************************************************************)
EXTENDS AuditCapture

CONSTANTS
    Tab,       \* the row whose history is read
    PageSize   \* LIMIT

ASSUME PageAssumption == Tab \in Rows /\ PageSize \in Nat \ {0}

VARIABLES
    page,    \* the page last read, as positions in trail[Tab]
    offset,  \* where the next page starts
    known,   \* the positions in the trail when the first page was read
    seen,    \* the positions on the pages read so far
    ended    \* the time each committed transaction ended, by txid

reader   == <<page, offset, known, seen>>
historyVars == <<vars, reader, ended>>

TxTimes == PartialFcns(1..lastXid, Nat)

HistoryTypeOK ==
    /\ TypeOK
    /\ page \in Seq(DOMAIN trail[Tab])
    /\ offset \in Nat
    /\ known \subseteq DOMAIN trail[Tab] /\ seen \subseteq DOMAIN trail[Tab]
    /\ DOMAIN ended \subseteq 1..lastXid

HistoryInit ==
    /\ Init
    /\ page = << >> /\ offset = 0 /\ known = {} /\ seen = {}
    /\ ended = << >>

-----------------------------------------------------------------------------

\* Mutant: oldest first.
PlacesAscending(es, i) ==
    Cardinality({j \in DOMAIN es : es[j].at < es[i].at}) + 1
        .. Cardinality({j \in DOMAIN es : es[j].at <= es[i].at})

\* The places ORDER BY occurred_at DESC may give entry i: after every entry
\* that occurred later, before or after those that tie with it.
Places(es, i) ==
    Cardinality({j \in DOMAIN es : es[j].at > es[i].at}) + 1
        .. Cardinality({j \in DOMAIN es : es[j].at >= es[i].at})

\* Mutant: OFFSET counts from one.
QueryOffByOne(es, limit, from) ==
    LET size == Max({0, Min({limit, Len(es) - from - 1})})
    IN  {rows \in [1..size -> DOMAIN es] :
            /\ IsInjective(rows)
            /\ \A n \in 1..size : from + n + 1 \in Places(es, rows[n])}

\* ORDER BY occurred_at DESC LIMIT limit OFFSET from.
Query(es, limit, from) ==
    LET size == Max({0, Min({limit, Len(es) - from})})
    IN  {rows \in [1..size -> DOMAIN es] :
            /\ IsInjective(rows)
            /\ \A n \in 1..size : from + n \in Places(es, rows[n])}

ReadPage ==
    /\ \E result \in Query(trail[Tab], PageSize, offset) :
          /\ page' = result
          /\ seen' = (IF offset = 0 THEN {} ELSE seen) \cup ToSet(result)
          /\ known' = IF offset = 0 THEN DOMAIN trail[Tab] ELSE known
          /\ offset' = IF Len(result) < PageSize THEN 0 ELSE offset + PageSize
    /\ UNCHANGED <<vars, ended>>

\* A step of the writers; a transaction that adds entries ends now.
WriterStep ==
    /\ Next
    /\ UNCHANGED reader
    /\ LET committed == UNION {TxidsOf(trail'[q]) : q \in Subjects}
       IN  ended' = Over(ended, [x \in committed |-> clock'])

HistoryNext == ReadPage \/ WriterStep
HistorySpec == HistoryInit /\ [][HistoryNext]_historyVars

-----------------------------------------------------------------------------
(* Properties.                                                             *)

\* A tab never contradicts real time: an entry whose transaction had ended
\* before another's began is not listed above it (history).
RealTimeOrder ==
    \A i, j \in DOMAIN page : i < j =>
        ended[trail[Tab][page[i]].txid] >= trail[Tab][page[j]].at

\* OFFSET paging under concurrent commits: when the last page has been read,
\* every entry that was in the trail when the first page was read has been
\* listed, unless it ties with another.  The trail only grows, so an entry
\* can move down the tab between two pages (and be listed twice) but not up.
Untied(i) == \A j \in DOMAIN trail[Tab] \ {i} : trail[Tab][i].at # trail[Tab][j].at
PagingSkipsNothing ==
    offset = 0 => \A i \in known : Untied(i) => i \in seen

\* "Newest first: a history tab is read from the top": of two entries that
\* different transactions wrote about the row, the one written later is
\* above.
NewestFirst ==
    \A i, j \in DOMAIN page :
        i < j => \/ page[i] > page[j]
                 \/ trail[Tab][page[i]].txid = trail[Tab][page[j]].txid
=============================================================================
