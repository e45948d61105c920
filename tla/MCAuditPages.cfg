\* Sixteen page numbers and up to eighteen rows: more than the numbers can
\* count, so that offsets wrap and the number of pages saturates; pages of none
\* to five rows, complete and partial last pages, and pages beyond them.
SPECIFICATION Spec
CONSTANTS
    Wrap = 16
    MaxTotal = 18
    MaxPerPage = 5
INVARIANTS PagesTypeOK WalkListsAll PageIsSlice
