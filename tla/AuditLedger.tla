---------------------------- MODULE AuditLedger ----------------------------
(***************************************************************************)
(* What the audit module promises, with no sessions, locks or triggers: a  *)
(* table and a trail that change together in atomic steps.  Each step is   *)
(* one transaction.  It only adds entries, well formed, all of them        *)
(* stamped with one time and with one transaction id that no earlier entry *)
(* carries, and the entries it adds about a row lead exactly from the      *)
(* row's old image to its new one, so that nothing changes unaudited and   *)
(* nothing is audited that did not change.                                 *)
(***************************************************************************)
EXTENDS AuditEntries, SequencesExt

VARIABLES
    table,  \* the committed image of every row
    trail   \* per subject, the committed entries in the order written

vars == <<table, trail>>

Init ==
    /\ table = [r \in Rows |-> Absent]
    /\ trail = [q \in Subjects |-> << >>]

\* What this step adds about subject q.
Added(q) == SubSeq(trail'[q], Len(trail[q]) + 1, Len(trail'[q]))

\* The transaction ids and times that entries carry.
StampsOf(es) == {<<es[i].txid, es[i].at>> : i \in DOMAIN es}

Commit ==
    /\ table' \in [Rows -> Image \cup {Absent}]
    /\ trail' \in [Subjects -> Seq(Entries)]
    /\ \A q \in Subjects : IsPrefix(trail[q], trail'[q])
    /\ \E stamp \in UNION {StampsOf(Added(q)) : q \in Subjects} :
          \A q \in Subjects : /\ StampsOf(Added(q)) \subseteq {stamp}
                              /\ stamp[1] \notin TxidsOf(trail[q])
    /\ \A r \in Rows : Tells(table[r], Added(r), table'[r])

Next == Commit
Spec == Init /\ [][Next]_vars
=============================================================================
