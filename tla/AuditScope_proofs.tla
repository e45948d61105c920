------------------------- MODULE AuditScope_proofs -------------------------
(***************************************************************************)
(* Theorems about AuditScope, for every pool and every set of requests.    *)
(***************************************************************************)
EXTENDS AuditScope, TLAPS

-----------------------------------------------------------------------------
(* The inductive invariant.  The trail and the answers are right because   *)
(* of what the connections carry, so it says that: nothing on a connection *)
(* no request holds, and the holder's own settings on one that is held,    *)
(* the actor from BindActor until ResetActor and the fence throughout.     *)

\* What a connection nobody holds carries: nothing of anybody.
CleanWhenFree ==
    \A c \in Conns : IsFree(c) => actor[c] = System /\ fence[c] = Nobody

\* What a request's own connection carries: its fence, and its actor between
\* BindActor and ResetActor.
OwnWhenHeld ==
    \A r \in Requests : Inside(r) =>
        /\ fence[conn[r]] = r
        /\ actor[conn[r]] =
             IF phase[r] \in {"bound", "asked", "served"} THEN r ELSE System

ScopeInv ==
    /\ ScopeTypeOK
    /\ CleanWhenFree
    /\ OwnWhenHeld
    /\ HonestAttribution
    /\ ReadUnderOwnFence

\* A statement of a request that holds a connection runs on it.
LEMMA RoutedToOwn ==
    ASSUME ScopeTypeOK, NEW r \in Requests, Inside(r)
    PROVE  conn[r] \in Conns /\ Route(r) = {conn[r]}
BY DEF ScopeTypeOK, Route

LEMMA ScopeInit == Init => ScopeInv
BY ScopeAssumption
   DEF Init, ScopeInv, ScopeTypeOK, CleanWhenFree, OwnWhenHeld, HonestAttribution,
       ReadUnderOwnFence, Inside, Phases, Persons, Nobody

\* A request takes a connection that is free.
LEMMA OpenKeeps ==
    ASSUME ScopeInv, NEW r \in Requests, NEW c \in Conns, OpenScope(r, c)
    PROVE  ScopeInv'
<1> USE ScopeAssumption DEF ScopeInv, OpenScope, Step, Inside, IsFree
<1>1. ScopeTypeOK'
  BY DEF ScopeTypeOK, Phases, Persons
<1>2. CleanWhenFree'
  BY DEF ScopeTypeOK, CleanWhenFree
<1>3. OwnWhenHeld'
  BY DEF ScopeTypeOK, CleanWhenFree, OwnWhenHeld
<1>4. HonestAttribution' /\ ReadUnderOwnFence'
  BY DEF HonestAttribution, ReadUnderOwnFence
<1> QED
  BY <1>1, <1>2, <1>3, <1>4

\* A step of a request that keeps its connection and binds or clears the
\* actor on it: BindActor and ResetActor.
LEMMA ActorStepKeeps ==
    ASSUME ScopeInv, NEW r \in Requests, BindActor(r) \/ ResetActor(r)
    PROVE  ScopeInv'
<1>1. Inside(r)
  BY DEF BindActor, ResetActor, Step, Inside
<1>2. conn[r] \in Conns /\ Route(r) = {conn[r]}
  BY <1>1, RoutedToOwn DEF ScopeInv
<1> USE ScopeAssumption, <1>1, <1>2 DEF ScopeInv, Step, Inside, IsFree
<1>3. ScopeTypeOK'
  BY DEF BindActor, ResetActor, ScopeTypeOK, Phases, Persons
<1>4. CleanWhenFree'
  BY DEF BindActor, ResetActor, ScopeTypeOK, CleanWhenFree
<1>5. OwnWhenHeld'
  <2>1. CASE BindActor(r)
    BY <2>1 DEF BindActor, ScopeTypeOK, OwnWhenHeld
  <2>2. CASE ResetActor(r)
    BY <2>2 DEF ResetActor, ScopeTypeOK, OwnWhenHeld
  <2> QED
    BY <2>1, <2>2
<1>6. HonestAttribution' /\ ReadUnderOwnFence'
  BY DEF BindActor, ResetActor, HonestAttribution, ReadUnderOwnFence
<1> QED
  BY <1>3, <1>4, <1>5, <1>6

\* A request is served on its own connection, as itself.
LEMMA ServeKeeps ==
    ASSUME ScopeInv, NEW r \in Requests, Serve(r)
    PROVE  ScopeInv'
<1>1. Inside(r) /\ phase[r] \in {"bound", "asked"}
  BY DEF Serve, LogScoped, AskAudited, ReadHistory, Step, Inside
<1>2. conn[r] \in Conns /\ Route(r) = {conn[r]}
  BY <1>1, RoutedToOwn DEF ScopeInv
<1>3. fence[conn[r]] = r /\ actor[conn[r]] = r
  BY <1>1 DEF ScopeInv, OwnWhenHeld
<1>4. /\ phase' \in [Requests -> Phases]
      /\ \A q \in Requests : q # r => phase'[q] = phase[q]
      /\ phase'[r] \in {"bound", "asked", "served"}
      /\ UNCHANGED <<conn, actor, fence, outside>>
  BY DEF ScopeInv, ScopeTypeOK, Serve, LogScoped, AskAudited, ReadHistory, Step, Phases
<1>5. /\ logged' = logged \/ logged' = logged \cup {[by |-> r, names |-> r]}
      /\ seen' = seen \/ seen' = seen \cup {[by |-> r, units |-> r]}
  BY <1>2, <1>3 DEF Serve, LogScoped, AskAudited, ReadHistory
<1>6. ScopeTypeOK'
  BY <1>1, <1>4, <1>5 DEF ScopeInv, ScopeTypeOK, Inside, Persons
<1>7. CleanWhenFree' /\ OwnWhenHeld'
  BY <1>1, <1>3, <1>4 DEF ScopeInv, CleanWhenFree, OwnWhenHeld, Inside, IsFree
<1>8. HonestAttribution' /\ ReadUnderOwnFence'
  BY <1>5 DEF ScopeInv, HonestAttribution, ReadUnderOwnFence
<1> QED
  BY <1>6, <1>7, <1>8 DEF ScopeInv

\* A request gives its connection back: the actor went before, the fence
\* goes now.
LEMMA CloseKeeps ==
    ASSUME ScopeInv, NEW r \in Requests, CloseScope(r)
    PROVE  ScopeInv'
<1> USE ScopeAssumption DEF ScopeInv, CloseScope, Step, Inside, IsFree, Nobody
<1>1. ScopeTypeOK'
  BY DEF ScopeTypeOK, Phases, Persons
<1>2. CleanWhenFree'
  BY DEF ScopeTypeOK, CleanWhenFree, OwnWhenHeld
<1>3. OwnWhenHeld'
  BY DEF ScopeTypeOK, OwnWhenHeld
<1>4. HonestAttribution' /\ ReadUnderOwnFence'
  BY DEF HonestAttribution, ReadUnderOwnFence
<1> QED
  BY <1>1, <1>2, <1>3, <1>4

\* Work outside any request finds nobody's actor on its connection.
LEMMA OutsideKeeps ==
    ASSUME ScopeInv, NEW c \in Conns, WriteOutside(c)
    PROVE  ScopeInv'
<1>1. logged' = logged \cup {[by |-> System, names |-> System]}
  BY DEF ScopeInv, CleanWhenFree, WriteOutside
<1>2. ScopeTypeOK'
  BY <1>1, ScopeAssumption DEF ScopeInv, ScopeTypeOK, WriteOutside, Inside, Persons
<1>3. CleanWhenFree' /\ OwnWhenHeld'
  BY DEF ScopeInv, WriteOutside, CleanWhenFree, OwnWhenHeld, Inside, IsFree
<1>4. HonestAttribution' /\ ReadUnderOwnFence'
  BY <1>1 DEF ScopeInv, WriteOutside, HonestAttribution, ReadUnderOwnFence
<1> QED
  BY <1>2, <1>3, <1>4 DEF ScopeInv

LEMMA ScopeStep == ScopeInv /\ [Next]_vars => ScopeInv'
<1> SUFFICES ASSUME ScopeInv, [Next]_vars PROVE ScopeInv'
  OBVIOUS
<1>1. CASE \E r \in Requests : Open(r) \/ Run(r)
  BY <1>1, OpenKeeps, ActorStepKeeps, ServeKeeps, CloseKeeps DEF Open, Run
<1>2. CASE \E c \in Conns : WriteOutside(c)
  BY <1>2, OutsideKeeps
<1>3. CASE UNCHANGED vars
  BY <1>3 DEF vars, ScopeInv, ScopeTypeOK, CleanWhenFree, OwnWhenHeld,
     HonestAttribution, ReadUnderOwnFence, Inside, IsFree
<1> QED
  BY <1>1, <1>2, <1>3 DEF Next, Done

\* The invariant holds in every reachable state.
THEOREM ScopeInvHolds == Spec => []ScopeInv
BY ScopeInit, ScopeStep, PTL DEF Spec

\* Whatever the pool's size, a request holds a connection exactly while it
\* is in its scope, and no two requests hold the same one.
THEOREM ScopeTypeCorrect == Spec => []ScopeTypeOK
<1>1. ScopeInv => ScopeTypeOK
  BY DEF ScopeInv
<1> QED
  BY <1>1, ScopeInvHolds, PTL

\* Whatever the pool's size, a trail row names who caused it, in a request
\* and outside one.
THEOREM AttributionIsHonest == Spec => []HonestAttribution
<1>1. ScopeInv => HonestAttribution
  BY DEF ScopeInv
<1> QED
  BY <1>1, ScopeInvHolds, PTL

\* Whatever the pool's size, a history tab is read under the reader's own
\* fence.
THEOREM HistoryIsFenced == Spec => []ReadUnderOwnFence
<1>1. ScopeInv => ReadUnderOwnFence
  BY DEF ScopeInv
<1> QED
  BY <1>1, ScopeInvHolds, PTL

\* Whatever the pool's size, requests never wait for each other in a ring:
\* one that is inside its scope goes on with its own connection, and while
\* none is inside, every connection is free.
THEOREM NoRingOfWaiters == Spec => []NeverStuck
<1>1. ScopeInv => NeverStuck
  <2> SUFFICES ASSUME ScopeInv, NEW r \in Requests, phase[r] # "done"
               PROVE  \E q \in Requests : phase[q] # "done" /\ Route(q) # {}
    BY DEF NeverStuck
  <2>1. ASSUME NEW q \in Requests, Inside(q)
        PROVE  phase[q] # "done" /\ Route(q) # {}
    BY <2>1, RoutedToOwn DEF ScopeInv, Inside
  <2>2. ASSUME \A q \in Requests : ~Inside(q)
        PROVE  Route(r) # {}
    <3>1. \A q \in Requests : conn[q] = NoConn
      BY <2>2 DEF ScopeInv, ScopeTypeOK
    <3>2. Route(r) = Conns
      BY <3>1, ScopeAssumption DEF Route, IsFree
    <3> QED
      BY <3>2, ScopeAssumption
  <2> QED
    BY <2>1, <2>2
<1> QED
  BY <1>1, ScopeInvHolds, PTL
=============================================================================
