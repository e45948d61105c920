------------------------- MODULE AuditPages_proofs -------------------------
(***************************************************************************)
(* Theorems about AuditPages, for every width of the page numbers, every   *)
(* number of rows and every page size: what a page lists, and that a walk  *)
(* along has_next lists everything.  The arithmetic is stated once in      *)
(* lemmas about products, quotients and remainders.                        *)
(***************************************************************************)
EXTENDS AuditPages, TLAPS

-----------------------------------------------------------------------------
(* Arithmetic.                                                             *)

LEMMA Quotient ==
    ASSUME NEW a \in Nat, NEW n \in Nat \ {0}
    PROVE  /\ a \div n \in Nat
           /\ (a \div n) * n <= a
           /\ a < (a \div n) * n + n
OBVIOUS

LEMMA Remainder ==
    ASSUME NEW a \in Nat, NEW n \in Nat \ {0}
    PROVE  a % n \in Nat /\ (a < n => a % n = a)
OBVIOUS

LEMMA ProductGrows ==
    ASSUME NEW a \in Nat, NEW b \in Nat, NEW n \in Nat, a <= b
    PROVE  a * n \in Nat /\ b * n \in Nat /\ a * n <= b * n
OBVIOUS

LEMMA NextMultiple ==
    ASSUME NEW a \in Nat, NEW n \in Nat
    PROVE  (a + 1) * n = a * n + n
OBVIOUS

-----------------------------------------------------------------------------
(* What a page lists.                                                      *)

Typed == total \in 0..MaxTotal /\ perPage \in 0..MaxPerPage

LEMMA TypedNumbers ==
    ASSUME Typed
    PROVE  /\ total \in Nat /\ perPage \in Nat /\ MaxTotal \in Nat /\ total <= MaxTotal
           /\ Wrap \in Nat \ {0} /\ Wrap - 1 \in Nat /\ 1 \in Pages
BY PageAssumption DEF Typed, Pages

LEMMA OffsetType ==
    ASSUME Typed, NEW p \in Pages
    PROVE  /\ Offset(p, perPage) \in Nat
           /\ p = 0 => Offset(p, perPage) = 0
           /\ p > 0 /\ (p - 1) * perPage < Wrap => Offset(p, perPage) = (p - 1) * perPage
<1>1. p \in Nat /\ perPage \in Nat /\ Wrap \in Nat \ {0}
  BY TypedNumbers DEF Pages
<1>2. CASE p = 0
  <2>1. 0 * perPage = 0 /\ 0 < Wrap
    BY <1>1
  <2> QED
    BY <1>1, <1>2, <2>1, Remainder DEF Offset
<1>3. CASE p > 0
  <2>1. p - 1 \in Nat /\ (p - 1) * perPage \in Nat
    BY <1>1, <1>3
  <2>2. Offset(p, perPage) = ((p - 1) * perPage) % Wrap
    BY <1>1, <1>3 DEF Offset
  <2> QED
    BY <1>1, <1>3, <2>1, <2>2, Remainder
<1> QED
  BY <1>1, <1>2, <1>3

\* How many rows follow the first from, up to n of them.
Following(from, n) == IF from >= total THEN 0 ELSE IF total - from < n THEN total - from ELSE n

LEMMA SliceIs ==
    ASSUME Typed, NEW from \in Nat
    PROVE  /\ Following(from, perPage) \in Nat
           /\ Slice(from, perPage) \in Items
           /\ Len(Slice(from, perPage)) = Following(from, perPage)
           /\ Slice(from, perPage) = [i \in 1..Following(from, perPage) |-> from + i]
<1>1. total \in Nat /\ perPage \in Nat /\ MaxTotal \in Nat /\ total <= MaxTotal
  BY TypedNumbers
<1>2. /\ Following(from, perPage) \in Nat
      /\ \A i \in 1..Following(from, perPage) : from + i \in 1..MaxTotal
  BY <1>1 DEF Following
<1>3. Slice(from, perPage) = [i \in 1..Following(from, perPage) |-> from + i]
  BY DEF Slice, Following
<1> DEFINE size == Following(from, perPage)
<1> HIDE DEF size
<1>4. /\ size \in Nat
      /\ Slice(from, perPage) = [i \in 1..size |-> from + i]
      /\ \A i \in 1..size : from + i \in 1..MaxTotal
  BY <1>2, <1>3 DEF size
<1>5. Slice(from, perPage) \in Seq(1..MaxTotal) /\ Len(Slice(from, perPage)) = size
  BY <1>4
<1> QED
  BY <1>4, <1>5 DEF size, Items

LEMMA TotalPagesType ==
    ASSUME Typed
    PROVE  TotalPages(perPage) \in Pages
<1>1. total \in Nat /\ perPage \in Nat /\ Wrap \in Nat \ {0} /\ Wrap - 1 \in Nat
  BY TypedNumbers
<1>2. CASE perPage = 0
  BY <1>1, <1>2 DEF TotalPages, Pages
<1>3. CASE perPage # 0
  <2> DEFINE pages == (total + perPage - 1) \div perPage
  <2>1. pages \in Nat
    BY <1>1, <1>3, Quotient
  <2>2. TotalPages(perPage) = IF pages >= Wrap THEN Wrap - 1 ELSE pages
    BY <1>3 DEF TotalPages
  <2> HIDE DEF pages
  <2> QED
    BY <1>1, <2>1, <2>2 DEF Pages
<1> QED
  BY <1>2, <1>3

\* There is a page after p only if p full pages leave rows over; and if the
\* rows can be counted, p full pages leave rows over only if there is one.
LEMMA PagesCoverRows ==
    ASSUME Typed, perPage # 0, NEW p \in Nat
    PROVE  /\ p < TotalPages(perPage) => p * perPage < total
           /\ total < Wrap /\ p >= TotalPages(perPage) => total <= p * perPage
<1> DEFINE pages == (total + perPage - 1) \div perPage
<1>1. total \in Nat /\ perPage \in Nat /\ Wrap \in Nat \ {0}
  BY TypedNumbers
<1>2. /\ pages \in Nat
      /\ pages * perPage <= total + perPage - 1
      /\ total + perPage - 1 < pages * perPage + perPage
  <2>1. total + perPage - 1 \in Nat /\ perPage \in Nat \ {0}
    BY <1>1
  <2> QED
    BY <2>1, Quotient
<1>3. TotalPages(perPage) = IF pages >= Wrap THEN Wrap - 1 ELSE pages
  BY DEF TotalPages
<1> HIDE DEF pages
<1>4. ASSUME p < TotalPages(perPage)
      PROVE  p * perPage < total
  <2>1. p + 1 <= pages
    BY <1>1, <1>2, <1>3, <1>4
  <2>2. (p + 1) * perPage <= pages * perPage /\ (p + 1) * perPage = p * perPage + perPage
    BY <1>1, <1>2, <2>1, ProductGrows, NextMultiple
  <2>3. p * perPage \in Nat /\ pages * perPage \in Nat
    BY <1>1, <1>2
  <2> QED
    BY <1>1, <1>2, <2>2, <2>3
<1>5. ASSUME total < Wrap, p >= TotalPages(perPage)
      PROVE  total <= p * perPage
  <2>1. pages * perPage \in Nat /\ p * perPage \in Nat
    BY <1>1, <1>2
  <2>2. pages <= total
    <3>1. CASE total = 0
      <4>1. pages * perPage < perPage
        BY <1>1, <1>2, <2>1, <3>1
      <4>2. CASE pages >= 1
        <5>1. 1 * perPage <= pages * perPage /\ 1 * perPage = perPage
          BY <1>1, <1>2, <4>2, ProductGrows
        <5> QED
          BY <1>1, <2>1, <4>1, <5>1
      <4> QED
        BY <1>2, <3>1, <4>2
    <3>2. CASE pages >= total + 1
      <4>1. (total + 1) * perPage <= pages * perPage
        BY <1>1, <1>2, <3>2, ProductGrows
      <4>2. (total + 1) * perPage = total * perPage + perPage
        BY <1>1, NextMultiple
      <4>3. total * 1 <= total * perPage /\ total * perPage \in Nat
        BY <1>1
      <4> QED
        BY <1>1, <1>2, <2>1, <4>1, <4>2, <4>3
    <3> QED
      BY <1>1, <1>2, <3>1, <3>2
  <2>3. TotalPages(perPage) = pages
    BY <1>1, <1>2, <1>3, <1>5, <2>2
  <2>4. pages * perPage <= p * perPage
    BY <1>1, <1>2, <1>5, <2>3, ProductGrows
  <2> QED
    BY <1>1, <1>2, <2>1, <2>4
<1> QED
  BY <1>4, <1>5

-----------------------------------------------------------------------------
(* The invariant.                                                          *)

\* The answer is the page it says it is.
AnswerListed == answer.page \in Pages /\ answer = Listed(answer.page)

\* The first n rows, or all of them.
FirstRows(n) == [i \in 1..(IF n < total THEN n ELSE total) |-> i]

\* As long as the rows can be counted, a walk has listed page after page.
WalkedSoFar ==
    walking /\ perPage > 0 /\ total < Wrap =>
        answer.page >= 1 /\ walked = FirstRows(answer.page * perPage)

PagesInv ==
    /\ Typed
    /\ AnswerListed
    /\ walked \in Items /\ walking \in BOOLEAN
    /\ WalkedSoFar

LEMMA ListedIs ==
    ASSUME Typed, NEW p \in Pages
    PROVE  /\ Listed(p) \in [page : Pages, items : Items, pages : Pages,
                             has_next : BOOLEAN, has_prev : BOOLEAN]
           /\ Listed(p).page = p
           /\ Listed(p).items = Slice(Offset(p, perPage), perPage)
           /\ Listed(p).has_next <=> p < TotalPages(perPage)
           /\ Listed(p).has_prev <=> p > 1
<1>1. Slice(Offset(p, perPage), perPage) \in Items
  BY OffsetType, SliceIs
<1>2. TotalPages(perPage) \in Pages
  BY TotalPagesType
<1>3. Listed(p) = [page     |-> p,
                   items    |-> Slice(Offset(p, perPage), perPage),
                   pages    |-> TotalPages(perPage),
                   has_next |-> p < TotalPages(perPage),
                   has_prev |-> p > 1]
  BY DEF Listed
<1> DEFINE items == Slice(Offset(p, perPage), perPage)
           pages == TotalPages(perPage)
           next  == p < TotalPages(perPage)
           prev  == p > 1
<1>4. next \in BOOLEAN /\ prev \in BOOLEAN
  OBVIOUS
<1>5. Listed(p) = [page |-> p, items |-> items, pages |-> pages,
                   has_next |-> next, has_prev |-> prev]
  BY <1>3
<1>6. items \in Items /\ pages \in Pages
  BY <1>1, <1>2
<1> HIDE DEF items, pages, next, prev
<1>7. /\ Listed(p) \in [page : Pages, items : Items, pages : Pages,
                         has_next : BOOLEAN, has_prev : BOOLEAN]
      /\ Listed(p).page = p /\ Listed(p).items = items
      /\ Listed(p).has_next = next /\ Listed(p).has_prev = prev
  BY <1>4, <1>5, <1>6
<1> QED
  BY <1>7 DEF items, next, prev

LEMMA AnswerIs ==
    ASSUME Typed, AnswerListed
    PROVE  /\ answer.page \in Pages
           /\ answer.items = Slice(Offset(answer.page, perPage), perPage)
           /\ answer.has_next <=> answer.page < TotalPages(perPage)
           /\ answer.has_prev <=> answer.page > 1
<1>1. answer.page \in Pages /\ answer = Listed(answer.page)
  BY DEF AnswerListed
<1> DEFINE p == answer.page
<1> HIDE DEF p
<1>2. p \in Pages /\ answer = Listed(p)
  BY <1>1 DEF p
<1> QED
  BY <1>2, ListedIs

\* The rows of the next page continue the walk.
LEMMA RowsContinue ==
    ASSUME Typed, NEW n \in Nat, n < total
    PROVE  FirstRows(n) \o Slice(n, perPage) = FirstRows(n + perPage)
<1> DEFINE size == Following(n, perPage)
           upto == IF n + perPage < total THEN n + perPage ELSE total
<1>1. total \in Nat /\ perPage \in Nat
  BY TypedNumbers
<1>2. size \in Nat /\ n + size = upto /\ upto \in Nat
  BY <1>1 DEF Following
<1>3. /\ FirstRows(n) = [i \in 1..n |-> i]
      /\ FirstRows(n + perPage) = [i \in 1..upto |-> i]
  BY DEF FirstRows
<1>4. Slice(n, perPage) = [i \in 1..size |-> n + i]
  BY SliceIs
<1> HIDE DEF size, upto
<1> DEFINE s == [i \in 1..n |-> i]
           t == [i \in 1..size |-> n + i]
<1>5. /\ s \in Seq(Nat) /\ Len(s) = n
      /\ t \in Seq(Nat) /\ Len(t) = size
  BY <1>2
<1>6. /\ \A i \in 1..n : s[i] = i
      /\ \A i \in 1..size : t[i] = n + i
  OBVIOUS
<1> HIDE DEF s, t
<1>7. s \o t \in Seq(Nat) /\ Len(s \o t) = upto
  BY <1>2, <1>5
<1>8. \A i \in 1..upto : (s \o t)[i] = i
  BY <1>2, <1>5, <1>6
<1>9. s \o t = [i \in 1..upto |-> i]
  <2> DEFINE u == s \o t
  <2> HIDE DEF u
  <2>1. u \in Seq(Nat) /\ Len(u) = upto /\ \A i \in 1..upto : u[i] = i
    BY <1>7, <1>8 DEF u
  <2>2. u = [i \in 1..upto |-> i]
    BY <1>2, <2>1
  <2> QED
    BY <2>2 DEF u
<1> QED
  BY <1>3, <1>4, <1>9 DEF s, t

LEMMA ItemsConcat ==
    ASSUME NEW s \in Items, NEW t \in Items
    PROVE  s \o t \in Items
<1> DEFINE S == 1..MaxTotal
<1> HIDE DEF S
<1>1. s \in Seq(S) /\ t \in Seq(S)
  BY DEF Items, S
<1>2. s \o t \in Seq(S)
  BY <1>1
<1> QED
  BY <1>2 DEF Items, S

LEMMA InitPages == Init => PagesInv
<1> SUFFICES ASSUME Init
             PROVE  PagesInv
  OBVIOUS
<1>1. Typed /\ walking \in BOOLEAN /\ answer = Listed(1) /\ walked = answer.items
  BY DEF Init, Typed
<1>2. total \in Nat /\ perPage \in Nat /\ 1 \in Pages /\ Wrap \in Nat \ {0}
  BY <1>1, TypedNumbers
<1>3. /\ AnswerListed /\ answer.page = 1
      /\ walked \in Items /\ walked = Slice(Offset(1, perPage), perPage)
  BY <1>1, <1>2, ListedIs DEF AnswerListed
<1>4. WalkedSoFar
  <2>1. (1 - 1) * perPage = 0 /\ 0 < Wrap /\ 1 * perPage = perPage
    BY <1>2
  <2>2. Offset(1, perPage) = 0
    BY <1>1, <1>2, <2>1, OffsetType
  <2>3. Following(0, perPage) = IF perPage < total THEN perPage ELSE total
    BY <1>2 DEF Following
  <2>4. Slice(0, perPage) = [i \in 1..Following(0, perPage) |-> 0 + i]
    BY <1>1, SliceIs
  <2>5. Slice(0, perPage) = FirstRows(perPage)
    BY <1>2, <2>3, <2>4 DEF FirstRows
  <2> QED
    BY <1>3, <2>1, <2>2, <2>5 DEF WalkedSoFar
<1> QED
  BY <1>1, <1>3, <1>4 DEF PagesInv

LEMMA NextPagesInv == PagesInv /\ [Next]_vars => PagesInv'
<1> SUFFICES ASSUME PagesInv, [Next]_vars
             PROVE  PagesInv'
  OBVIOUS
<1> USE DEF PagesInv
<1> DEFINE p == answer.page
<1>1. /\ total \in Nat /\ perPage \in Nat /\ Wrap \in Nat \ {0}
      /\ p \in Pages /\ p \in Nat
  BY TypedNumbers, AnswerIs DEF Pages
<1>2. UNCHANGED <<total, perPage>> /\ Typed'
  BY DEF Next, NextPage, PrevPage, Jump, vars, Typed
<1>3. ASSUME NEW k \in Pages, answer' = Listed(k)
      PROVE  AnswerListed'
  <2>1. Listed(k).page = k
    BY ListedIs
  <2>2. Listed(k)' = Listed(k)
    BY <1>2 DEF Listed, Slice, Offset, TotalPages
  <2>3. answer'.page = k /\ answer' = Listed(answer'.page)
    BY <1>3, <2>1
  <2> QED
    BY <1>2, <2>3 DEF AnswerListed, Listed, Slice, Offset, TotalPages
<1>4. CASE NextPage
  <2>1. p < TotalPages(perPage) /\ answer' = Listed(p + 1)
    BY <1>4, AnswerIs DEF NextPage
  <2>2. p + 1 \in Pages
    BY <1>1, <2>1, TotalPagesType DEF Pages
  <2>3. AnswerListed'
    BY <1>3, <2>1, <2>2
  <2>4. /\ answer'.page = p + 1
        /\ answer'.items = Slice(Offset(p + 1, perPage), perPage)
        /\ answer'.items \in Items
    BY <2>1, <2>2, ListedIs
  <2>5. walking' = walking /\ walked' = IF walking THEN walked \o answer'.items ELSE walked
    BY <1>4 DEF NextPage
  <2>6. walked' \in Items /\ walking' \in BOOLEAN
    BY <2>4, <2>5, ItemsConcat
  <2>7. WalkedSoFar'
    <3> SUFFICES ASSUME walking, perPage > 0, total < Wrap
                 PROVE  answer'.page >= 1 /\ walked' = FirstRows(answer'.page * perPage)
      BY <1>2, <2>5 DEF WalkedSoFar, FirstRows
    <3>1. p * perPage \in Nat /\ p * perPage < total
      BY <1>1, <2>1, PagesCoverRows
    <3>2. walked = FirstRows(p * perPage)
      BY DEF WalkedSoFar
    <3>3. answer'.items = Slice(p * perPage, perPage)
      <4>1. p + 1 > 0 /\ (p + 1) - 1 = p /\ p * perPage < Wrap
        BY <1>1, <3>1
      <4>2. Offset(p + 1, perPage) = p * perPage
        BY <2>2, <4>1, OffsetType
      <4> QED
        BY <2>4, <4>2
    <3>4. walked' = FirstRows(p * perPage) \o Slice(p * perPage, perPage)
      BY <2>5, <3>2, <3>3
    <3>5. walked' = FirstRows(p * perPage + perPage)
      BY <3>1, <3>4, RowsContinue
    <3>6. (p + 1) * perPage = p * perPage + perPage
      BY <1>1, NextMultiple
    <3> QED
      BY <1>1, <2>4, <3>5, <3>6
  <2> QED
    BY <1>2, <2>3, <2>6, <2>7
<1>5. CASE PrevPage
  <2>1. p > 1 /\ answer' = Listed(p - 1) /\ walking' = FALSE /\ walked' = walked
    BY <1>5, AnswerIs DEF PrevPage
  <2>2. p - 1 \in Pages
    BY <1>1, <2>1 DEF Pages
  <2> QED
    BY <1>2, <1>3, <2>1, <2>2 DEF WalkedSoFar
<1>6. ASSUME NEW k \in Pages, Jump(k)
      PROVE  PagesInv'
  BY <1>2, <1>3, <1>6 DEF Jump, WalkedSoFar
<1>7. CASE UNCHANGED vars
  BY <1>2, <1>7 DEF vars, AnswerListed, Listed, Slice, Offset, TotalPages,
                    WalkedSoFar, FirstRows
<1> QED
  BY <1>4, <1>5, <1>6, <1>7 DEF Next

LEMMA AlwaysPages == Spec => []PagesInv
BY InitPages, NextPagesInv, PTL DEF Spec

-----------------------------------------------------------------------------
(* The theorems.                                                           *)

\* A page lists rows there are, and no page number that a client is sent
\* after leaves the range of page numbers.
THEOREM PagesTypeCorrect == Spec => []PagesTypeOK
<1>1. PagesInv => PagesTypeOK
  <2> SUFFICES ASSUME PagesInv
               PROVE  PagesTypeOK
    OBVIOUS
  <2> DEFINE p == answer.page
  <2> HIDE DEF p
  <2>1. p \in Pages /\ answer = Listed(p)
    BY DEF PagesInv, AnswerListed, p
  <2>2. answer \in [page : Pages, items : Items, pages : Pages,
                    has_next : BOOLEAN, has_prev : BOOLEAN]
    BY <2>1, ListedIs DEF PagesInv
  <2> QED
    BY <2>2 DEF PagesInv, Typed, PagesTypeOK
<1> QED
  BY <1>1, AlwaysPages, PTL

\* A client that follows has_next to its end has listed every row once and in
\* order (AuditTrailListResponseDto::new, AuditTrailPaginationParams::offset).
THEOREM WalkIsComplete == Spec => []WalkListsAll
<1>1. PagesInv => WalkListsAll
  <2> SUFFICES ASSUME PagesInv, walking, ~answer.has_next, perPage > 0, total < Wrap
               PROVE  walked = [i \in 1..total |-> i]
    BY DEF WalkListsAll
  <2>1. /\ answer.page \in Nat /\ answer.page >= TotalPages(perPage)
        /\ total \in Nat /\ perPage \in Nat
    <3>1. answer.page \in Pages /\ ~(answer.page < TotalPages(perPage))
      BY AnswerIs DEF PagesInv
    <3>2. TotalPages(perPage) \in Pages
      BY TotalPagesType DEF PagesInv
    <3> QED
      BY <3>1, <3>2, TypedNumbers DEF PagesInv, Pages
  <2>2. total <= answer.page * perPage /\ answer.page * perPage \in Nat
    BY <2>1, PagesCoverRows DEF PagesInv
  <2>3. walked = FirstRows(answer.page * perPage)
    BY DEF PagesInv, WalkedSoFar
  <2> QED
    BY <2>1, <2>2, <2>3 DEF FirstRows
<1> QED
  BY <1>1, AlwaysPages, PTL

\* As long as its offset does not wrap, page p lists the rows (p-1)*n+1 to
\* p*n and no others, and page 0 is page 1 (AuditTrailPaginationParams::offset).
THEOREM PageListsItsSlice == Spec => []PageIsSlice
<1>1. PagesInv => PageIsSlice
  <2> SUFFICES ASSUME PagesInv
               PROVE  PageIsSlice
    OBVIOUS
  <2> DEFINE p == IF answer.page = 0 THEN 1 ELSE answer.page
             from == (p - 1) * perPage
  <2>1. answer.page \in Nat /\ total \in Nat /\ perPage \in Nat /\ p \in Nat /\ p > 0
    BY AnswerIs, TypedNumbers DEF PagesInv, Pages
  <2>2. from \in Nat /\ p * perPage = from + perPage
    <3>1. p - 1 \in Nat /\ (p - 1) + 1 = p
      BY <2>1
    <3> QED
      BY <2>1, <3>1, NextMultiple
  <2> SUFFICES ASSUME from < Wrap, NEW i \in 1..total
               PROVE  from < i /\ i <= from + perPage
                          <=> \E k \in DOMAIN answer.items : answer.items[k] = i
    BY <2>2 DEF PageIsSlice
  <2>3. Offset(answer.page, perPage) = from
    <3>1. CASE answer.page = 0
      BY <2>1, <3>1, AnswerIs, OffsetType DEF PagesInv
    <3>2. CASE answer.page # 0
      BY <2>1, <3>2, AnswerIs, OffsetType DEF PagesInv
    <3> QED
      BY <3>1, <3>2
  <2> HIDE DEF from
  <2>4. answer.items = [k \in 1..Following(from, perPage) |-> from + k]
    BY <2>2, <2>3, AnswerIs, SliceIs DEF PagesInv
  <2>5. ASSUME from < i, i <= from + perPage
        PROVE  \E k \in DOMAIN answer.items : answer.items[k] = i
    <3>1. i - from \in 1..Following(from, perPage) /\ from + (i - from) = i
      BY <2>1, <2>2, <2>5 DEF Following
    <3> QED
      BY <2>4, <3>1
  <2>6. ASSUME NEW k \in DOMAIN answer.items, answer.items[k] = i
        PROVE  from < i /\ i <= from + perPage
    BY <2>1, <2>2, <2>4, <2>6 DEF Following
  <2> QED
    BY <2>5, <2>6
<1> QED
  BY <1>1, AlwaysPages, PTL
=============================================================================
