--------------------------- MODULE AuditTab_proofs ---------------------------
(***************************************************************************)
(* Theorems about AuditTab, for every set of tables, names and keys.       *)
(***************************************************************************)
EXTENDS AuditTab, TLAPS

-----------------------------------------------------------------------------
(* The inductive invariant.                                                *)

\* What an owner wants audited is what has its trigger on.
WantedIsOn == \A t \in Tables : wanted[t] <=> trigger[t] = "enabled"

\* Only a table that exists has a trigger, rows, or a trail that tells of it.
GoneIsBare == \A t \in Tables : ~Exists(t) => ~Attached(t) /\ ~told[t]

TabInv ==
    /\ TabTypeOK
    /\ WantedIsOn
    /\ GoneIsBare
    /\ TrailTellsKeys

-----------------------------------------------------------------------------
(* What an entry more tells.                                               *)

\* A trail that grows tells of a key by its new entry where that mentions
\* it, and by the entries it had where it does not.
LEMMA ToldAppend ==
    ASSUME trail \in Seq(Entries), NEW e \in Entries, trail' = Append(trail, e),
           NEW n, NEW k
    PROVE  ToldLive(n, k)' <=>
               IF e.type = n /\ k \in {e.from, e.to} THEN e.to = k ELSE ToldLive(n, k)
<1> DEFINE m == Len(trail) + 1
           S == Mentioning(n, k)
<1>1. /\ DOMAIN trail = 1..Len(trail) /\ DOMAIN trail' = 1..m /\ Len(trail) \in Nat
      /\ trail'[m] = e /\ \A i \in DOMAIN trail : trail'[i] = trail[i]
  OBVIOUS
<1>2. S \subseteq 1..Len(trail)
  BY <1>1 DEF Mentioning, EntriesOf
<1>3. CASE e.type = n /\ k \in {e.from, e.to}
  <2>1. S' = S \cup {m}
    BY <1>1, <1>3 DEF Mentioning, EntriesOf
  <2>2. \A i \in S' : (\A j \in S' : j <= i) <=> i = m
    BY <1>1, <1>2, <2>1
  <2> QED
    BY <1>1, <1>3, <2>1, <2>2 DEF ToldLive
<1>4. CASE ~(e.type = n /\ k \in {e.from, e.to})
  <2>1. S' = S
    BY <1>1, <1>4 DEF Mentioning, EntriesOf
  <2> QED
    BY <1>1, <1>2, <1>4, <2>1 DEF ToldLive
<1> QED
  BY <1>3, <1>4

\* A list that says nothing of a table's name tells of no row of it.
LEMMA NothingTold ==
    ASSUME NEW n, EntriesOf(n) = {}, NEW k
    PROVE  ~ToldLive(n, k)
BY DEF ToldLive, Mentioning

\* Where the trail stays the same, so does what it tells.
LEMMA ToldSame ==
    ASSUME UNCHANGED trail, NEW n, NEW k
    PROVE  ToldLive(n, k)' <=> ToldLive(n, k)
BY DEF ToldLive, Mentioning, EntriesOf

-----------------------------------------------------------------------------
(* Steps.                                                                  *)

LEMMA InitTab == Init => TabInv
<1> SUFFICES ASSUME Init
             PROVE  TabInv
  OBVIOUS
<1> USE TabAssumption DEF Init, Exists, Attached
<1>1. TabTypeOK
  BY DEF TabTypeOK, NoTab
<1>2. WantedIsOn /\ GoneIsBare
  BY DEF WantedIsOn, GoneIsBare
<1>3. TrailTellsKeys
  BY NothingTold DEF TrailTellsKeys, EntriesOf
<1> QED
  BY <1>1, <1>2, <1>3 DEF TabInv

\* Where rows, names and trail stay, the trail goes on telling.
LEMMA TellsKept ==
    ASSUME TrailTellsKeys, UNCHANGED <<name, live, trail, told>>
    PROVE  TrailTellsKeys'
BY ToldSame DEF TrailTellsKeys

LEMMA CreateKeeps ==
    ASSUME TabInv, NEW t \in Tables, NEW n \in Names, Create(t, n)
    PROVE  TabInv'
<1> USE TabAssumption DEF TabInv, TabTypeOK, Create, Statement, Exists, Attached
<1>1. TabTypeOK'
  OBVIOUS
<1>2. WantedIsOn' /\ GoneIsBare'
  BY DEF WantedIsOn, GoneIsBare
<1>3. ASSUME NEW s \in Tables, told'[s], NEW k \in Keys
      PROVE  k \in live'[s] <=> ToldLive(name[s], k)'
  <2>1. CASE s = t
    BY <1>3, <2>1, NothingTold, ToldSame
  <2>2. CASE s # t
    BY <1>3, <2>2, ToldSame DEF TrailTellsKeys
  <2> QED
    BY <2>1, <2>2
<1>4. TrailTellsKeys'
  BY <1>3 DEF TrailTellsKeys
<1> QED
  BY <1>1, <1>2, <1>4

LEMMA RenameKeeps ==
    ASSUME TabInv, NEW t \in Tables, NEW n \in Names, Rename(t, n)
    PROVE  TabInv'
<1> USE TabAssumption DEF TabInv, TabTypeOK, Rename, Statement, Exists, Attached
<1>1. TabTypeOK'
  OBVIOUS
<1>2. WantedIsOn' /\ GoneIsBare'
  BY DEF WantedIsOn, GoneIsBare
<1>3. ASSUME NEW s \in Tables, told'[s], NEW k \in Keys
      PROVE  k \in live'[s] <=> ToldLive(name[s], k)'
  <2>1. CASE s = t
    <3>1. told[t] /\ EntriesOf(name[t]) = {} /\ EntriesOf(n) = {}
      BY <1>3, <2>1
    <3>2. k \notin live[t]
      BY <3>1, NothingTold DEF TrailTellsKeys
    <3> QED
      BY <2>1, <3>1, <3>2, NothingTold, ToldSame
  <2>2. CASE s # t
    BY <1>3, <2>2, ToldSame DEF TrailTellsKeys
  <2> QED
    BY <2>1, <2>2
<1>4. TrailTellsKeys'
  BY <1>3 DEF TrailTellsKeys
<1> QED
  BY <1>1, <1>2, <1>4

LEMMA DropKeeps ==
    ASSUME TabInv, NEW t \in Tables, Drop(t)
    PROVE  TabInv'
<1> USE TabAssumption DEF TabInv, TabTypeOK, Drop, Statement, Exists, Attached
<1>1. TabTypeOK'
  OBVIOUS
<1>2. WantedIsOn' /\ GoneIsBare'
  BY DEF WantedIsOn, GoneIsBare
<1>3. TrailTellsKeys'
  BY ToldSame DEF TrailTellsKeys
<1> QED
  BY <1>1, <1>2, <1>3

LEMMA TriggerKeeps ==
    ASSUME TabInv, NEW t \in Tables, Attach(t) \/ Switch(t) \/ Detach(t)
    PROVE  TabInv'
<1> USE TabAssumption DEF TabInv, Attach, Switch, Detach, Statement, Exists, Attached
<1>1. /\ trigger' \in [Tables -> {"none", "enabled", "disabled"}]
      /\ wanted' \in [Tables -> BOOLEAN]
      /\ \A s \in Tables : s # t => trigger'[s] = trigger[s] /\ wanted'[s] = wanted[s]
      /\ Exists(t) /\ function /\ (wanted'[t] <=> trigger'[t] = "enabled")
  <2>1. CASE Attach(t)
    BY <2>1 DEF TabTypeOK
  <2>2. CASE Switch(t)
    BY <2>2 DEF TabTypeOK, WantedIsOn, GoneIsBare
  <2>3. CASE Detach(t)
    BY <2>3 DEF TabTypeOK, GoneIsBare
  <2> QED
    BY <2>1, <2>2, <2>3
<1>2. UNCHANGED <<function, name, live, trail, tab, told, touched>> /\ ddl' \in 0..MaxDDL
  BY DEF TabTypeOK
<1> HIDE DEF Attach, Switch, Detach
<1>3. TabTypeOK'
  BY <1>1, <1>2 DEF TabTypeOK
<1>4. WantedIsOn' /\ GoneIsBare'
  BY <1>1, <1>2 DEF WantedIsOn, GoneIsBare
<1> QED
  BY <1>2, <1>3, <1>4, TellsKept

LEMMA FunctionKeeps ==
    ASSUME TabInv, InstallFunction \/ DropFunction
    PROVE  TabInv'
<1> USE TabAssumption
        DEF TabInv, InstallFunction, DropFunction, Statement, Attached, Exists, tables, histories
<1>1. /\ UNCHANGED <<name, trigger, live, trail, tab, wanted, told, touched>>
      /\ ddl' \in 0..MaxDDL /\ function' \in BOOLEAN
      /\ \A t \in Tables : trigger[t] = "none" \/ function'
  <2>1. CASE InstallFunction
    BY <2>1 DEF TabTypeOK
  <2>2. CASE DropFunction
    <3>1. function' = FALSE /\ \A t \in Tables : trigger[t] = "none"
      BY <2>2
    <3>2. ddl' \in 0..MaxDDL
      BY <2>2 DEF TabTypeOK
    <3> QED
      BY <2>2, <3>1, <3>2
  <2> QED
    BY <2>1, <2>2
<1> HIDE DEF InstallFunction, DropFunction
<1>2. TabTypeOK'
  BY <1>1 DEF TabTypeOK
<1>3. WantedIsOn' /\ GoneIsBare'
  BY <1>1 DEF WantedIsOn, GoneIsBare
<1> QED
  BY <1>1, <1>2, <1>3, TellsKept

LEMMA TruncateKeeps ==
    ASSUME TabInv, NEW t \in Tables, Truncate(t)
    PROVE  TabInv'
<1> USE TabAssumption DEF TabInv, TabTypeOK, Truncate, Exists, Attached
<1>1. TabTypeOK'
  OBVIOUS
<1>2. WantedIsOn' /\ GoneIsBare'
  BY DEF WantedIsOn, GoneIsBare
<1>3. TrailTellsKeys'
  BY ToldSame DEF TrailTellsKeys
<1> QED
  BY <1>1, <1>2, <1>3

\* The heart of it: a row's key changes, and the entry names both keys.
LEMMA ChangeKeeps ==
    ASSUME TabInv, NEW t \in Tables, NEW old \in Keys \cup {NoKey},
           NEW new \in Keys \cup {NoKey}, Change(t, old, new)
    PROVE  TabInv'
<1> DEFINE e == Captured(t, old, new)
<1> USE TabAssumption DEF TabInv, Change, Exists, Attached
<1>1. e \in Entries /\ e.type = name[t] /\ e.from = old /\ e.to = new
  BY DEF TabTypeOK, Captured, KeyDiff, Entries
<1>2. WantedIsOn' /\ GoneIsBare'
  BY DEF TabTypeOK, WantedIsOn, GoneIsBare
<1>3. CASE trail' = Append(trail, e) /\ Len(trail) < MaxTrail /\ UNCHANGED told
  <2>1. trail' \in Seq(Entries) /\ Len(trail') <= MaxTrail /\ DOMAIN trail \subseteq DOMAIN trail'
    BY <1>1, <1>3 DEF TabTypeOK
  <2>2. TabTypeOK'
    BY <2>1, <1>3 DEF TabTypeOK
  <2>3. ASSUME NEW s \in Tables, told'[s], NEW k \in Keys
        PROVE  k \in live'[s] <=> ToldLive(name[s], k)'
    <3>1. ToldLive(name[s], k)' <=>
              IF e.type = name[s] /\ k \in {e.from, e.to} THEN e.to = k ELSE ToldLive(name[s], k)
      BY <1>1, <1>3, ToldAppend DEF TabTypeOK
    <3>2. k \in live[s] <=> ToldLive(name[s], k)
      BY <1>3, <2>3 DEF TrailTellsKeys
    <3>3. CASE s = t
      BY <1>1, <3>1, <3>2, <3>3 DEF TabTypeOK
    <3>4. CASE s # t
      <4>1. e.type # name[s]
        BY <1>1, <1>3, <2>3, <3>4 DEF TabTypeOK, GoneIsBare
      <4> QED
        BY <3>1, <3>2, <3>4, <4>1 DEF TabTypeOK
    <3> QED
      BY <3>3, <3>4
  <2>4. TrailTellsKeys'
    BY <2>3 DEF TrailTellsKeys
  <2> QED
    BY <1>2, <2>2, <2>4
<1>4. CASE UNCHANGED trail /\ told' = [told EXCEPT ![t] = FALSE]
  <2>1. TabTypeOK'
    BY <1>4 DEF TabTypeOK
  <2>2. TrailTellsKeys'
    BY <1>4, ToldSame DEF TabTypeOK, TrailTellsKeys
  <2> QED
    BY <1>2, <2>1, <2>2
<1> QED
  BY <1>3, <1>4

LEMMA ReaderKeeps ==
    ASSUME TabInv, Ask \/ IsAudited \/ ReadRows
    PROVE  TabInv'
<1> USE DEF TabInv
<1>1. UNCHANGED <<function, name, trigger, live, trail, ddl, wanted, told, touched>>
  BY DEF Ask, IsAudited, ReadRows, Reads, tables, histories
<1>2. tab' \in [asks   : {"nothing", "is_audited", "rows"},
                answer : {"nothing", "none", "error", "some"},
                rows   : SUBSET DOMAIN trail]
  BY DEF Ask, IsAudited, ReadRows, Reads, NoTab, RowsOf, EntriesOf
<1>3. TabTypeOK'
  BY <1>1, <1>2 DEF TabTypeOK, Attached
<1>4. WantedIsOn' /\ GoneIsBare'
  BY <1>1 DEF WantedIsOn, GoneIsBare, Exists, Attached
<1> QED
  BY <1>1, <1>3, <1>4, TellsKept

LEMMA StepKeeps == TabInv /\ [Next]_vars => TabInv'
<1> SUFFICES ASSUME TabInv, [Next]_vars
             PROVE  TabInv'
  OBVIOUS
<1>1. ASSUME NEW t \in Tables, Owner(t)
      PROVE  TabInv'
  BY <1>1, CreateKeeps, RenameKeeps, DropKeeps, TriggerKeeps, TruncateKeeps DEF Owner
<1>2. ASSUME NEW t \in Tables, RowChange(t)
      PROVE  TabInv'
  BY <1>2, ChangeKeeps DEF RowChange
<1>3. CASE InstallFunction \/ DropFunction
  BY <1>3, FunctionKeeps
<1>4. CASE Ask \/ IsAudited \/ ReadRows
  BY <1>4, ReaderKeeps
<1>5. CASE UNCHANGED vars
  <2>1. TabTypeOK' /\ WantedIsOn' /\ GoneIsBare'
    BY <1>5 DEF TabInv, TabTypeOK, WantedIsOn, GoneIsBare, vars, tables, histories,
                Exists, Attached
  <2> QED
    BY <1>5, <2>1, TellsKept DEF TabInv, vars, tables, histories
<1> QED
  BY <1>1, <1>2, <1>3, <1>4, <1>5 DEF Next

LEMMA AlwaysTab == Spec => []TabInv
BY InitTab, StepKeeps, PTL DEF Spec

-----------------------------------------------------------------------------

\* The types; in particular a name never names two tables, and no trigger
\* calls a function that is gone.
THEOREM TabTyped == Spec => []TabTypeOK
BY AlwaysTab, PTL DEF TabInv

\* The entries under a table's name tell which rows it has, wherever they
\* tell all its changes and no other table's, through any renames, changes
\* of keys and wrong trigger columns (TrailTellsKeys).
THEOREM KeysAreTold == Spec => []TrailTellsKeys
BY AlwaysTab, PTL DEF TabInv

-----------------------------------------------------------------------------
(* The answer "not audited".                                               *)

\* A request being served has no answer yet.
Unanswered == tab.asks # "nothing" => tab.answer = "nothing"

\* Only the reader's own steps touch its request.
LEMMA OthersLeaveTab ==
    ASSUME [Next]_vars, ~Ask, ~IsAudited, ~ReadRows
    PROVE  UNCHANGED tab
<1>1. ASSUME NEW t \in Tables, Owner(t)
      PROVE  UNCHANGED tab
  BY <1>1 DEF Owner, Create, Rename, Attach, Switch, Detach, Drop, Truncate
<1>2. ASSUME NEW t \in Tables, RowChange(t)
      PROVE  UNCHANGED tab
  BY <1>2 DEF RowChange, Change
<1> QED
  BY <1>1, <1>2 DEF Next, InstallFunction, DropFunction, vars

LEMMA AlwaysUnanswered == Spec => []Unanswered
<1>1. Init => Unanswered
  BY DEF Init, NoTab, Unanswered
<1>2. Unanswered /\ [Next]_vars => Unanswered'
  <2> SUFFICES ASSUME Unanswered, [Next]_vars
               PROVE  Unanswered'
    OBVIOUS
  <2>1. CASE Ask \/ IsAudited \/ ReadRows
    BY <2>1 DEF Ask, IsAudited, ReadRows, Reads, NoTab, Unanswered
  <2>2. CASE ~(Ask \/ IsAudited \/ ReadRows)
    BY <2>2, OthersLeaveTab DEF Unanswered
  <2> QED
    BY <2>1, <2>2
<1> QED
  BY <1>1, <1>2, PTL DEF Spec

\* A table its owner wants audited is never answered for as if it were not
\* (is_audited).
THEOREM AuditedIsNeverDenied == Spec => NoneMeansUnaudited
<1>1. ASSUME TabInv, Unanswered, [Next]_vars, tab.asks = "is_audited", tab'.answer = "none",
             NEW t \in Tables, name[t] = TabName
      PROVE  ~wanted[t]
  <2>1. tab.answer = "nothing" /\ tab' # tab
    BY <1>1 DEF Unanswered
  <2>2. IsAudited
    BY <1>1, <2>1, OthersLeaveTab DEF Ask, ReadRows
  <2>3. ~Installed(TabName)
    BY <1>1, <2>2 DEF IsAudited, Reads, NoTab
  <2> QED
    BY <1>1, <2>3 DEF TabInv, WantedIsOn, Installed, Attached
<1>2. TabInv /\ Unanswered /\ [Next]_vars =>
          [tab.asks = "is_audited" /\ tab'.answer = "none" =>
              \A t \in Tables : name[t] = TabName => ~wanted[t]]_vars
  BY <1>1
<1> QED
  BY <1>2, AlwaysTab, AlwaysUnanswered, PTL DEF Spec, NoneMeansUnaudited

-----------------------------------------------------------------------------
(* An empty history.                                                       *)

\* A row that is there has been touched, and what is listed of a table that
\* is told of is empty until the key is touched.
TouchedIsListed ==
    /\ \A t \in Tables : TabKey \in live[t] => touched[t]
    /\ \A t \in Keyed : told[t] => (RowsOf(name[t], TabKey) = {} <=> ~touched[t])

TouchInv == TabInv /\ TouchedIsListed

\* A trail that grows lists a key where it did or the new entry is of it.
LEMMA RowsAppend ==
    ASSUME trail \in Seq(Entries), NEW e \in Entries, trail' = Append(trail, e), NEW n, NEW k
    PROVE  RowsOf(n, k)' = {} <=> RowsOf(n, k) = {} /\ ~(e.type = n /\ e.id = k)
<1> DEFINE m == Len(trail) + 1
<1>1. /\ DOMAIN trail = 1..Len(trail) /\ DOMAIN trail' = 1..m /\ Len(trail) \in Nat
      /\ trail'[m] = e /\ \A i \in DOMAIN trail : trail'[i] = trail[i]
  OBVIOUS
<1>2. DOMAIN trail' = DOMAIN trail \cup {m}
  BY <1>1
<1> HIDE DEF m
<1> QED
  BY <1>1, <1>2 DEF RowsOf, EntriesOf

\* Where the trail stays, a table that goes on being told of keeps its name
\* and its mark, or is told of afresh.
LEMMA TouchKept ==
    ASSUME TouchedIsListed, UNCHANGED trail, TabAssumption,
           \A t \in Tables : TabKey \in live'[t] => touched'[t],
           \A t \in Keyed : told'[t] =>
               \/ told[t] /\ name'[t] = name[t] /\ touched'[t] = touched[t]
               \/ RowsOf(name'[t], TabKey) = {} /\ ~touched'[t]
    PROVE  TouchedIsListed'
<1>1. ASSUME NEW t \in Keyed, told'[t]
      PROVE  RowsOf(name[t], TabKey)' = {} <=> ~touched'[t]
  <2>1. t \in Tables
    BY TabAssumption
  <2>2. RowsOf(name[t], TabKey)' = RowsOf(name'[t], TabKey)
    BY DEF RowsOf, EntriesOf
  <2> QED
    BY <1>1, <2>1, <2>2 DEF TouchedIsListed
<1> QED
  BY <1>1 DEF TouchedIsListed

LEMMA NothingListed ==
    ASSUME NEW n, EntriesOf(n) = {}, NEW k
    PROVE  RowsOf(n, k) = {}
BY DEF RowsOf

LEMMA OwnerTouch ==
    ASSUME TouchInv, NEW t \in Tables, Owner(t)
    PROVE  TouchedIsListed'
<1> DEFINE Kept(u) == \/ told[u] /\ name'[u] = name[u] /\ touched'[u] = touched[u]
                      \/ RowsOf(name'[u], TabKey) = {} /\ ~touched'[u]
<1> USE DEF TouchInv, TabInv, TabTypeOK
<1>1. \A u \in Tables : TabKey \in live[u] => touched[u]
  BY DEF TouchedIsListed
<1>2. ASSUME NEW n \in Names, Create(t, n)
      PROVE  TouchedIsListed'
  <2>1. \A u \in Tables : TabKey \in live'[u] => touched'[u]
    BY <1>1, <1>2 DEF Create
  <2>2. \A u \in Keyed : told'[u] => Kept(u)
    BY <1>2, NothingListed, TabAssumption DEF Create
  <2> QED
    BY <1>2, <2>1, <2>2, TouchKept, TabAssumption DEF Create
<1>3. ASSUME NEW n \in Names, Rename(t, n)
      PROVE  TouchedIsListed'
  <2>1. told'[t] => told[t] /\ RowsOf(name[t], TabKey) = {} /\ RowsOf(n, TabKey) = {}
    BY <1>3, NothingListed DEF Rename
  <2>2. t \in Keyed /\ told'[t] => ~touched[t]
    BY <2>1 DEF TouchedIsListed
  <2>3. \A u \in Keyed : told'[u] => Kept(u)
    BY <1>3, <2>1, <2>2, TabAssumption DEF Rename
  <2> QED
    BY <1>1, <1>3, <2>3, TouchKept, TabAssumption DEF Rename
<1>4. CASE Attach(t) \/ Switch(t) \/ Detach(t)
  <2>1. UNCHANGED <<name, live, trail, told, touched>>
    BY <1>4 DEF Attach, Switch, Detach
  <2> QED
    BY <1>1, <2>1, TouchKept, TabAssumption
<1>5. CASE Drop(t) \/ Truncate(t)
  <2>1. /\ \A u \in Tables : TabKey \in live'[u] => touched'[u]
        /\ \A u \in Keyed : told'[u] => Kept(u)
    <3>1. CASE Drop(t)
      BY <1>1, <3>1, TabAssumption DEF Drop
    <3>2. CASE Truncate(t)
      BY <1>1, <3>2, TabAssumption DEF Truncate
    <3> QED
      BY <1>5, <3>1, <3>2
  <2>2. UNCHANGED trail
    BY <1>5 DEF Drop, Truncate
  <2> QED
    BY <2>1, <2>2, TouchKept, TabAssumption
<1> QED
  BY <1>2, <1>3, <1>4, <1>5 DEF Owner

LEMMA ChangeTouch ==
    ASSUME TouchInv, NEW t \in Tables, NEW old \in Keys \cup {NoKey},
           NEW new \in Keys \cup {NoKey}, Change(t, old, new)
    PROVE  TouchedIsListed'
<1> DEFINE e == Captured(t, old, new)
<1>1. /\ e \in Entries /\ e.type = name[t]
      /\ t \in Keyed => e.id = IF new = NoKey THEN old ELSE new
  BY TabAssumption DEF TouchInv, TabInv, TabTypeOK, Captured, KeyDiff, Entries, Change, Exists
<1>2. /\ \A u \in Tables : TabKey \in live'[u] => touched'[u]
      /\ touched'[t] = (touched[t] \/ new = TabKey)
      /\ \A u \in Tables \ {t} : touched'[u] = touched[u]
      /\ old = TabKey => touched[t]
      /\ UNCHANGED name
  BY TabAssumption DEF TouchInv, TouchedIsListed, TabInv, TabTypeOK, Change
<1>3. CASE trail' = Append(trail, e) /\ UNCHANGED told
  <2>1. ASSUME NEW u \in Keyed, told'[u]
        PROVE  RowsOf(name[u], TabKey)' = {} <=> ~touched'[u]
    <3>1. u \in Tables /\ told[u] /\ (RowsOf(name[u], TabKey) = {} <=> ~touched[u])
      BY <1>3, <2>1, TabAssumption DEF TouchInv, TouchedIsListed
    <3>2. RowsOf(name[u], TabKey)' = {}
             <=> RowsOf(name[u], TabKey) = {} /\ ~(e.type = name[u] /\ e.id = TabKey)
      <4> HIDE DEF e
      <4>1. \A n : RowsOf(n, TabKey)' = {}
                       <=> RowsOf(n, TabKey) = {} /\ ~(e.type = n /\ e.id = TabKey)
        BY <1>1, <1>3, RowsAppend DEF TouchInv, TabInv, TabTypeOK
      <4> QED
        BY <1>2, <4>1 DEF RowsOf, EntriesOf
    <3>3. CASE u = t
      BY <1>1, <1>2, <2>1, <3>1, <3>2, <3>3, TabAssumption
    <3>4. CASE u # t
      <4>1. e.type # name[u]
        BY <1>1, <3>1, <3>4 DEF TouchInv, TabInv, TabTypeOK, GoneIsBare, Exists
      <4> QED
        BY <1>2, <3>1, <3>2, <3>4, <4>1
    <3> QED
      BY <3>3, <3>4
  <2> QED
    BY <1>2, <2>1 DEF TouchedIsListed
<1>4. CASE UNCHANGED trail /\ told' = [told EXCEPT ![t] = FALSE]
  <2>1. \A u \in Tables : told'[u] => told[u] /\ touched'[u] = touched[u]
    BY <1>2, <1>4 DEF TouchInv, TabInv, TabTypeOK
  <2> QED
    BY <1>2, <1>4, <2>1, TouchKept, TabAssumption DEF TouchInv
<1> QED
  BY <1>3, <1>4 DEF Change

LEMMA AlwaysTouch == Spec => []TouchInv
<1>1. Init => TouchInv
  <2> SUFFICES ASSUME Init
               PROVE  TouchedIsListed
    BY InitTab DEF TouchInv
  <2>1. /\ \A n : RowsOf(n, TabKey) = {}
        /\ \A t \in Tables : live[t] = {} /\ ~touched[t]
    BY DEF Init, RowsOf, EntriesOf
  <2> QED
    BY <2>1, TabAssumption DEF TouchedIsListed
<1>2. TouchInv /\ [Next]_vars => TouchInv'
  <2> SUFFICES ASSUME TouchInv, [Next]_vars
               PROVE  TouchedIsListed'
    BY StepKeeps DEF TouchInv
  <2>1. CASE UNCHANGED <<name, live, trail, told, touched>>
    BY <2>1, TouchKept, TabAssumption DEF TouchInv, TouchedIsListed
  <2>2. ASSUME NEW t \in Tables, RowChange(t)
        PROVE  TouchedIsListed'
    BY <2>2, ChangeTouch DEF RowChange
  <2> QED
    BY <2>1, <2>2, OwnerTouch
       DEF Next, InstallFunction, DropFunction, Ask, IsAudited, ReadRows, Reads, vars,
           tables, histories
<1> QED
  BY <1>1, <1>2, PTL DEF Spec

\* An empty history of a table that the trail tells of says that no row has
\* ever had the key (history).
THEOREM EmptyIsUntouched == Spec => EmptyMeansUntouched
<1>1. ASSUME TouchInv, Unanswered, [Next]_vars, tab.asks = "rows", tab'.answer = "some",
             NEW t \in Keyed, name[t] = TabName, told[t]
      PROVE  tab'.rows = {} <=> ~touched[t]
  <2>1. tab.answer = "nothing" /\ tab' # tab
    BY <1>1 DEF Unanswered
  <2>2. ReadRows
    BY <1>1, <2>1, OthersLeaveTab DEF Ask, IsAudited
  <2>3. tab'.rows = RowsOf(TabName, TabKey)
    BY <2>2 DEF ReadRows, Reads, NoTab
  <2> QED
    BY <1>1, <2>3 DEF TouchInv, TouchedIsListed
<1>2. TouchInv /\ Unanswered /\ [Next]_vars =>
          [tab.asks = "rows" /\ tab'.answer = "some" =>
              \A t \in Keyed : name[t] = TabName /\ told[t] =>
                  (tab'.rows = {} <=> ~touched[t])]_vars
  BY <1>1
<1> QED
  BY <1>2, AlwaysTouch, AlwaysUnanswered, PTL DEF Spec, EmptyMeansUntouched

-----------------------------------------------------------------------------
(* A trigger left on.                                                      *)

\* Whatever is renamed or migrated, a trigger its owner has left on records
\* each row its table changes (capture_data_change, its down migration).
THEOREM TriggersRecord == Spec => WantedMeansRecorded
<1>1. ASSUME TabInv, NEW t \in Tables, wanted[t], RowChange(t)
      PROVE  Len(trail') = Len(trail) + 1
  BY <1>1 DEF TabInv, TabTypeOK, WantedIsOn, RowChange, Change
<1>2. TabInv /\ [Next]_vars =>
          [\A t \in Tables : wanted[t] /\ RowChange(t) => Len(trail') = Len(trail) + 1]_vars
  BY <1>1
<1> QED
  BY <1>2, AlwaysTab, PTL DEF Spec, WantedMeansRecorded
=============================================================================
