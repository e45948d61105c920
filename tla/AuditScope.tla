----------------------------- MODULE AuditScope -----------------------------
(***************************************************************************)
(* Requests on a bounded connection pool.  A request opens an org scope,   *)
(* which dedicates a connection to it and sets the fence there; the host   *)
(* then sets app.actor on that connection, the request is refused and      *)
(* logs it with a scoped verb or reads a history tab, and the host resets  *)
(* the actor before the scope resets the fence and gives the connection    *)
(* back.  All the while work outside any request (cron, psql) borrows      *)
(* connections of the same pool, one statement at a time, and writes       *)
(* audited rows.                                                           *)
(***************************************************************************)
EXTENDS Naturals, FiniteSets

CONSTANTS
    Conns,      \* the connections of the pool
    Requests,   \* one request per person, who is its actor
    System,     \* the actor recorded when app.actor is unset or ''
    NoConn,
    MaxOutside  \* bound: rows written outside any request

ASSUME ScopeAssumption ==
    /\ Conns # {} /\ NoConn \notin Conns
    /\ System \notin Requests
    /\ MaxOutside \in Nat

VARIABLES
    phase,   \* how far each request is
    conn,    \* the connection dedicated to it
    actor,   \* per connection, app.actor: a request's person, or System for ''
    fence,   \* per connection, whose request's units it is confined to
    logged,  \* the trail rows so far: who wrote one, whom it names
    seen,    \* the history answers so far: who asked, whose units were served
    outside  \* rows written outside any request

vars == <<phase, conn, actor, fence, logged, seen, outside>>

Phases  == {"waiting", "scoped", "bound", "asked", "served", "cleared", "done"}
Nobody  == System
Persons == Requests \cup {System}

Inside(r) == phase[r] \notin {"waiting", "done"}
IsFree(c) == \A r \in Requests : conn[r] # c

ScopeTypeOK ==
    /\ phase \in [Requests -> Phases]
    /\ conn \in [Requests -> Conns \cup {NoConn}]
    /\ \A r \in Requests : Inside(r) <=> conn[r] # NoConn
    /\ \A r, q \in Requests : r # q /\ conn[r] = conn[q] => conn[r] = NoConn
    /\ actor \in [Conns -> Persons]
    /\ fence \in [Conns -> Persons]
    /\ logged \subseteq [by : Persons, names : Persons]
    /\ seen \subseteq [by : Requests, units : Persons]
    /\ outside \in 0..MaxOutside

Init ==
    /\ phase = [r \in Requests |-> "waiting"]
    /\ conn  = [r \in Requests |-> NoConn]
    /\ actor = [c \in Conns |-> System]
    /\ fence = [c \in Conns |-> Nobody]
    /\ logged = {} /\ seen = {} /\ outside = 0

\* Mutant: a plain pool.acquire().
RouteToPool(r) == {c \in Conns : IsFree(c)}

\* The connections on which a scoped helper may run a statement of r: the
\* dedicated one if one is bound, any free one otherwise.
Route(r) == IF conn[r] # NoConn THEN {conn[r]} ELSE {c \in Conns : IsFree(c)}

Step(r, from, to) == phase[r] = from /\ phase' = [phase EXCEPT ![r] = to]

\* Mutant: the pool hands out a connection that is in use.
OpenScopeOn(r, c) ==
    /\ Step(r, "waiting", "scoped")
    /\ conn'  = [conn EXCEPT ![r] = c]
    /\ fence' = [fence EXCEPT ![c] = r]
    /\ UNCHANGED <<actor, logged, seen, outside>>

\* with_org_request_scope; it waits for a free connection.
OpenScope(r, c) ==
    /\ Step(r, "waiting", "scoped")
    /\ IsFree(c)
    /\ conn'  = [conn EXCEPT ![r] = c]
    /\ fence' = [fence EXCEPT ![c] = r]
    /\ UNCHANGED <<actor, logged, seen, outside>>

\* set_config('app.actor', ..., false) through execute_scoped: it outlives
\* the statement.
BindActor(r) ==
    /\ Step(r, "scoped", "bound")
    /\ \E c \in Route(r) : actor' = [actor EXCEPT ![c] = r]
    /\ UNCHANGED <<conn, fence, logged, seen, outside>>

\* log_event_scoped and log_refusal_scoped.
LogScoped(r) ==
    /\ Step(r, "bound", "served")
    /\ \E c \in Route(r) : logged' = logged \cup {[by |-> r, names |-> actor[c]]}
    /\ UNCHANGED <<conn, actor, fence, seen, outside>>

\* history: is_audited first; it ends here when that fails, or when it finds
\* no trigger and the answer is None ...
AskAudited(r) ==
    /\ \/ Step(r, "bound", "asked")
       \/ Step(r, "bound", "served")
    /\ Route(r) # {}
    /\ UNCHANGED <<conn, actor, fence, logged, seen, outside>>

\* ... then the rows, in a statement of their own.
ReadHistory(r) ==
    /\ Step(r, "asked", "served")
    /\ \E c \in Route(r) : seen' = seen \cup {[by |-> r, units |-> fence[c]]}
    /\ UNCHANGED <<conn, actor, fence, logged, outside>>

\* Mutant: the host leaves the audit half to the scope.
ResetNothing(r) ==
    /\ Step(r, "served", "cleared")
    /\ UNCHANGED <<conn, actor, fence, logged, seen, outside>>

\* The host sets app.actor to '' before it leaves the scope.
ResetActor(r) ==
    /\ Step(r, "served", "cleared")
    /\ \E c \in Route(r) : actor' = [actor EXCEPT ![c] = System]
    /\ UNCHANGED <<conn, fence, logged, seen, outside>>

\* The scope wrapper resets only the fence half.
CloseScope(r) ==
    /\ Step(r, "cleared", "done")
    /\ fence' = [fence EXCEPT ![conn[r]] = Nobody]
    /\ conn'  = [conn EXCEPT ![r] = NoConn]
    /\ UNCHANGED <<actor, logged, seen, outside>>

\* The capture trigger or a verb on a connection no request holds.
WriteOutside(c) ==
    /\ IsFree(c) /\ outside < MaxOutside
    /\ outside' = outside + 1
    /\ logged' = logged \cup {[by |-> System, names |-> actor[c]]}
    /\ UNCHANGED <<phase, conn, actor, fence, seen>>

Serve(r) == LogScoped(r) \/ AskAudited(r) \/ ReadHistory(r)
Open(r)  == \E c \in Conns : OpenScope(r, c)
Run(r)   == BindActor(r) \/ Serve(r) \/ ResetActor(r) \/ CloseScope(r)

Done == (\A r \in Requests : phase[r] = "done") /\ UNCHANGED vars

Next ==
    \/ \E r \in Requests : Open(r) \/ Run(r)
    \/ \E c \in Conns : WriteOutside(c)
    \/ Done

\* A request keeps running while it can.  The pool queues those that wait
\* for a connection in order, so one that is free again and again is theirs
\* at last although others come before them.
Fairness == \A r \in Requests : SF_vars(Open(r)) /\ WF_vars(Run(r))

Spec == Init /\ [][Next]_vars /\ Fairness

-----------------------------------------------------------------------------
(* Properties.                                                             *)

\* Every trail row names who caused it: the requester when it was written in
\* a request, never another request's person left behind on the connection
\* and never the system; the system, and nobody who had the connection
\* before, when it was written outside one (audit_insert, log_event_scoped).
HonestAttribution == \A row \in logged : row.names = row.by

\* A history tab is read under the reader's own fence, whoever used the
\* connections before (AuditHistoryProvider::history).
ReadUnderOwnFence == \A answer \in seen : answer.units = answer.by

\* However few the connections, the requests never wait for each other in a
\* ring: while one is unfinished, some unfinished one has a connection to go
\* on with, its own or a free one (execute_scoped, log_event_scoped).
NeverStuck ==
    (\E r \in Requests : phase[r] # "done") =>
        \E r \in Requests : phase[r] # "done" /\ Route(r) # {}

\* However few the connections, no request that holds one waits for another:
\* all of them finish (log_event_scoped routes to the dedicated connection).
RequestsFinish == \A r \in Requests : <>(phase[r] = "done")
=============================================================================
