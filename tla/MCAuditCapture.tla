--------------------------- MODULE MCAuditCapture ---------------------------
(***************************************************************************)
(* AuditCapture on small instances.                                        *)
(***************************************************************************)
EXTENDS AuditCapture

CONSTANTS r1, alice

\* A service's own diffs of every field, whether or not they happened.
OwnDiffs == {[f \in Fields |-> [from |-> Null, to |-> v]] : v \in Values}

\* A refused delete, attributed to the session and named for what it refused;
\* a boundary event that names its own actor; a refusal whose action is
\* blank; a service that records a change of the row under a name of its own;
\* and one that records an update, as the trigger would, of another table.
MCCalls == {
    [event |-> "refusal", action |-> "delete", subject |-> r1,
     actor |-> Unset, changed |-> << >>, status |-> "failure"],
    [event |-> "security_edge", action |-> "expired_token", subject |-> NoSubject,
     actor |-> alice, changed |-> << >>, status |-> "failure"],
    [event |-> "refusal", action |-> Unfit, subject |-> r1,
     actor |-> Unset, changed |-> << >>, status |-> "failure"] }
    \cup [event : {"data_change"}, action : {"adjusted"}, subject : {r1}, actor : {Unset},
          changed : OwnDiffs, status : {"success"}]
    \cup [event : {"data_change"}, action : {"update"}, subject : {NoSubject},
          actor : {Unset}, changed : OwnDiffs, status : {"success"}]

\* A service that audits an explicit write of its own as the trigger would.
ImpersonatingCalls ==
    [event : {"data_change"}, action : Ops, subject : {r1}, actor : {Unset},
     changed : OwnDiffs, status : {"success"}]

SessionSymmetry == Permutations(Sessions)
=============================================================================
