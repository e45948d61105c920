----------------------------- MODULE AuditPages -----------------------------
(***************************************************************************)
(* The pagination arithmetic: a client lists a trail of total rows page by *)
(* page, following has_next or asking for any page it likes.  Pages are    *)
(* unsigned numbers of fixed width, and the offset is multiplied in that   *)
(* width before it is widened, so that it wraps for a page far enough out. *)
(***************************************************************************)
EXTENDS Naturals, Sequences

CONSTANTS
    Wrap,        \* how many numbers page and per_page range over, 2^32 of a u32
    MaxTotal,    \* bound: rows listed
    MaxPerPage   \* bound: rows a page may ask for

ASSUME PageAssumption ==
    /\ Wrap \in Nat /\ Wrap > 1 /\ MaxTotal \in Nat
    /\ MaxPerPage \in 0..(Wrap - 1)

VARIABLES
    total,    \* rows there are
    perPage,  \* rows asked for per page
    answer,   \* the last page answered
    walked,   \* the rows listed since page 1, following has_next
    walking   \* whether only has_next has been followed since page 1

vars == <<total, perPage, answer, walked, walking>>

Pages == 0..(Wrap - 1)
Items == Seq(1..MaxTotal)

\* Mutant: page 1 starts one page in.
OffsetZeroBased(page, n) == (page * n) % Wrap

\* (self.page.saturating_sub(1)) * self.per_page
Offset(page, n) == ((IF page = 0 THEN 0 ELSE page - 1) * n) % Wrap

\* Mutant: a page is always full.
SliceBeyond(from, n) == [i \in 1..n |-> from + i]

\* LIMIT n OFFSET from over the rows 1..total.
Slice(from, n) ==
    [i \in 1..(IF from >= total THEN 0 ELSE IF total - from < n THEN total - from ELSE n) |->
        from + i]

\* Mutant: the last, partial page is not counted.
TotalPagesRoundedDown(n) == IF n = 0 THEN 0 ELSE total \div n

\* The ceiling, cut off where the cast to u32 saturates.
TotalPages(n) ==
    IF n = 0 THEN 0
    ELSE LET pages == (total + n - 1) \div n
         IN  IF pages >= Wrap THEN Wrap - 1 ELSE pages

Listed(page) ==
    [page     |-> page,
     items    |-> Slice(Offset(page, perPage), perPage),
     pages    |-> TotalPages(perPage),
     has_next |-> page < TotalPages(perPage),
     has_prev |-> page > 1]

PagesTypeOK ==
    /\ total \in 0..MaxTotal /\ perPage \in 0..MaxPerPage
    /\ answer \in [page : Pages, items : Items, pages : Pages,
                   has_next : BOOLEAN, has_prev : BOOLEAN]
    /\ walked \in Items /\ walking \in BOOLEAN

Init ==
    /\ total \in 0..MaxTotal /\ perPage \in 0..MaxPerPage
    /\ answer = Listed(1)
    /\ walked = answer.items /\ walking = TRUE

\* The client asks for the next page while has_next says there is one.
NextPage ==
    /\ answer.has_next
    /\ answer' = Listed(answer.page + 1)
    /\ walked' = IF walking THEN walked \o answer'.items ELSE walked
    /\ UNCHANGED <<total, perPage, walking>>

PrevPage ==
    /\ answer.has_prev
    /\ answer' = Listed(answer.page - 1)
    /\ walking' = FALSE
    /\ UNCHANGED <<total, perPage, walked>>

\* ... or for any page.
Jump(page) ==
    /\ answer' = Listed(page)
    /\ walking' = FALSE
    /\ UNCHANGED <<total, perPage, walked>>

Next == NextPage \/ PrevPage \/ \E page \in Pages : Jump(page)

Spec == Init /\ [][Next]_vars

-----------------------------------------------------------------------------
(* Properties.                                                             *)

\* As long as a u32 can count the rows, a client that follows has_next from
\* page 1 has listed every row once and in order when it is told that there
\* is no next page (AuditTrailListResponseDto::new,
\* AuditTrailPaginationParams::offset).
WalkListsAll ==
    walking /\ ~answer.has_next /\ perPage > 0 /\ total < Wrap =>
        walked = [i \in 1..total |-> i]

\* As long as the offset does not wrap, a page lists what its number says:
\* row i is on page p exactly if (p-1)*n < i <= p*n; page 0 is page 1.
PageIsSlice ==
    LET p == IF answer.page = 0 THEN 1 ELSE answer.page
    IN  (p - 1) * perPage < Wrap =>
        \A i \in 1..total :
            (p - 1) * perPage < i /\ i <= p * perPage
                <=> \E k \in DOMAIN answer.items : answer.items[k] = i
=============================================================================
