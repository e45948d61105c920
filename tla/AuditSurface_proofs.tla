------------------------ MODULE AuditSurface_proofs ------------------------
(***************************************************************************)
(* Theorems about AuditRecord and AuditSurface: what the row rules let     *)
(* through, and what rows come in, for every set of callers, whatever they *)
(* hold and however the host assembles the ways in.                        *)
(***************************************************************************)
EXTENDS AuditSurface, TLAPS

-----------------------------------------------------------------------------
(* Types.                                                                  *)

LEMMA SentAreRecords == Sent \subseteq Records
BY DEF Sent

LEMMA CreateType ==
    ASSUME RecordTypeOK, NEW guarded \in BOOLEAN, NEW rec \in Records, Create(guarded, rec)
    PROVE  RecordTypeOK'
<1>1. PICK answer \in {"stored", "refused", "error"} :
          /\ last' = [kind |-> "create", guarded |-> guarded, answer |-> answer]
          /\ stored' = IF answer = "stored" THEN Append(stored, rec) ELSE stored
  BY DEF Create
<1>2. Len(stored) < MaxStored /\ declared' = declared
  BY DEF Create
<1>3. stored' \in Seq(Records) /\ Len(stored') <= MaxStored
  BY <1>1, <1>2, StoredAssumption DEF RecordTypeOK
<1> QED
  BY <1>1, <1>2, <1>3 DEF RecordTypeOK

LEMMA ChangeType ==
    ASSUME RecordTypeOK, NEW guarded \in BOOLEAN, NEW before, NEW after,
           Change(guarded, before, after)
    PROVE  RecordTypeOK'
BY DEF Change, RecordTypeOK

LEMMA CaptureType ==
    ASSUME RecordTypeOK, NEW rec \in Records, Capture(rec)
    PROVE  RecordTypeOK'
BY StoredAssumption DEF RecordTypeOK, Capture, NoCall

LEMMA DeclareType ==
    ASSUME RecordTypeOK, Declare
    PROVE  RecordTypeOK'
BY DEF RecordTypeOK, Declare, NoCall

LEMMA InitRecordType == Init => RecordTypeOK
BY StoredAssumption DEF Init, RecordTypeOK, NoCall

-----------------------------------------------------------------------------
(* The rules and the constraints.                                          *)

\* The limits, stated in two files, are the same.
LEMMA SameLimits == \A f \in MaxRules : RuleMax[f] = ConstraintMax[f]
BY DEF MaxRules, RuleMax, ConstraintMax

\* A row that breaks a constraint breaks the rule of that name.
LEMMA RulesAreConstraints ==
    ASSUME NEW rec, NEW rule \in Rules, BreaksConstraint(rec, rule)
    PROVE  BreaksRule(rec, rule)
<1>1. rule[2] = "required" \/ rule[1] \in MaxRules
  BY DEF Rules
<1> QED
  BY <1>1, SameLimits DEF BreaksConstraint, BreaksRule

\* A create that a guarded service lets through meets no declared constraint.
LEMMA CreateCovers ==
    ASSUME declared \subseteq Rules, NEW guarded \in BOOLEAN, NEW rec, Create(guarded, rec)
    PROVE  RulesCoverConstraints'
<1> DEFINE held   == Held(guarded, "create", rec, rec)
           broken == \E rule \in declared : BreaksConstraint(rec, rule)
<1>1. last' = [kind |-> "create", guarded |-> guarded,
               answer |-> IF held # {} THEN "refused"
                          ELSE IF broken THEN "error" ELSE "stored"]
  BY DEF Create
<1>2. guarded => held = Refused("create", rec, rec)
  BY DEF Held
<1>3. guarded /\ broken => held # {}
  BY <1>2, RulesAreConstraints DEF Refused
<1> HIDE DEF held, broken
<1> QED
  BY <1>1, <1>3 DEF RulesCoverConstraints

-----------------------------------------------------------------------------
(* The ways in.                                                            *)

SurfaceInv == SurfaceTypeOK /\ RulesCoverConstraints /\ BuiltServiceKeepsRules

\* A service that creates: the types and the rules hold of what it did, and a
\* row it stored, if it was built, breaks none of them.
LEMMA ServiceCreates ==
    ASSUME SurfaceInv, NEW service \in Services, NEW rec \in Records,
           Create(Guarded(service), rec)
    PROVE  /\ RecordTypeOK' /\ RulesCoverConstraints'
           /\ \/ stored' = stored
              \/ /\ stored' = Append(stored, rec)
                 /\ service = "built" => ~\E rule \in Rules : BreaksRule(rec, rule)
<1>1. Guarded(service) \in BOOLEAN
  BY DEF Guarded
<1>2. RecordTypeOK' /\ RulesCoverConstraints'
  <2>1. RecordTypeOK /\ declared \subseteq Rules
    BY DEF SurfaceInv, SurfaceTypeOK, RecordTypeOK
  <2>2. RecordTypeOK'
    BY <1>1, <2>1, CreateType
  <2>3. RulesCoverConstraints'
    BY <1>1, <2>1, CreateCovers
  <2> QED
    BY <2>2, <2>3
<1>3. CASE service = "built"
  <2>1. Refused("create", rec, rec) # {} => stored' = stored
    BY <1>3 DEF Create, Guarded, Held
  <2>2. Refused("create", rec, rec) = {} => ~\E rule \in Rules : BreaksRule(rec, rule)
    BY DEF Refused
  <2> QED
    BY <1>2, <2>1, <2>2 DEF Create
<1>4. CASE service # "built"
  BY <1>2, <1>4 DEF Create
<1> QED
  BY <1>3, <1>4

\* A row more has an origin, and keeps the rules if a built service stored it.
LEMMA RowMore ==
    ASSUME SurfaceInv, NEW rec, NEW lane \in {"http", "service", "past"},
           NEW service \in Services \cup {"none"},
           RecordTypeOK', UNCHANGED mounted, RulesCoverConstraints',
           CameBy(lane, service),
           \/ stored' = stored
           \/ /\ stored' = Append(stored, rec)
              /\ service = "built" => ~\E rule \in Rules : BreaksRule(rec, rule)
    PROVE  SurfaceInv'
<1> USE DEF SurfaceInv, SurfaceTypeOK
<1>1. CASE stored' = stored
  <2>1. origin' = origin
    BY <1>1 DEF CameBy
  <2> QED
    BY <1>1, <2>1 DEF BuiltServiceKeepsRules
<1>2. CASE stored' # stored
  <2> DEFINE o == [lane |-> lane, service |-> service]
  <2>1. /\ stored' = Append(stored, rec)
        /\ service = "built" => ~\E rule \in Rules : BreaksRule(rec, rule)
    BY <1>2
  <2>2. stored \in Seq(Records) /\ stored' \in Seq(Records)
    BY DEF RecordTypeOK
  <2>3. Len(stored') = Len(stored) + 1
    BY <2>1, <2>2
  <2>4. origin' = Append(origin, o)
    BY <2>2, <2>3 DEF CameBy
  <2>5. o \in Origins /\ o.service = service
    BY DEF Origins
  <2> HIDE DEF o
  <2>6. origin' \in Seq(Origins) /\ Len(origin') = Len(stored')
    BY <2>3, <2>4, <2>5
  <2>7. \A i \in DOMAIN origin' :
            \/ i \in DOMAIN origin /\ origin'[i] = origin[i] /\ stored'[i] = stored[i]
            \/ origin'[i] = o /\ stored'[i] = rec
    BY <2>1, <2>2, <2>4, <2>5
  <2>8. BuiltServiceKeepsRules'
    BY <2>1, <2>5, <2>7 DEF BuiltServiceKeepsRules
  <2> QED
    BY <2>6, <2>8
<1> QED
  BY <1>1, <1>2

\* A row that comes past the services.
LEMMA PastKeeps ==
    ASSUME SurfaceInv, NEW rec \in Records, Capture(rec), CameBy("past", "none"),
           UNCHANGED mounted
    PROVE  SurfaceInv'
<1>1. RecordTypeOK'
  BY CaptureType DEF SurfaceInv, SurfaceTypeOK
<1>2. stored' = Append(stored, rec) /\ RulesCoverConstraints'
  BY DEF Capture, NoCall, RulesCoverConstraints
<1> QED
  BY <1>1, <1>2, RowMore

\* A step that stores no row and ends no create.
LEMMA OthersKeep ==
    ASSUME SurfaceInv, RecordTypeOK', last'.kind # "create", mounted' \subseteq Mounts,
           UNCHANGED <<stored, origin>>
    PROVE  SurfaceInv'
BY DEF SurfaceInv, SurfaceTypeOK, RulesCoverConstraints, BuiltServiceKeepsRules

LEMMA MountKeeps ==
    ASSUME SurfaceInv, NEW m \in Mounts, Mount(m)
    PROVE  SurfaceInv'
BY DEF SurfaceInv, SurfaceTypeOK, RecordTypeOK, RulesCoverConstraints, BuiltServiceKeepsRules,
       Mount, vars

LEMMA AssembleKeeps ==
    ASSUME SurfaceInv, Assemble
    PROVE  SurfaceInv'
<1>1. ASSUME NEW pool, NEW layer \in BOOLEAN, MountModule(pool, "read", layer)
      PROVE  SurfaceInv'
  <2>1. [routes |-> "read", service |-> "built", layer |-> layer] \in Mounts
    BY DEF Mounts, Routed, Services
  <2> QED
    BY <1>1, <2>1, MountKeeps DEF MountModule
<1>2. ASSUME NEW service \in Services, NEW routes \in DOMAIN Routed, NEW layer \in BOOLEAN,
             MountOwn(routes, service, layer)
      PROVE  SurfaceInv'
  <2>1. [routes |-> routes, service |-> service, layer |-> layer] \in Mounts
    BY DEF Mounts
  <2> QED
    BY <1>2, <2>1, MountKeeps DEF MountOwn
<1>3. ASSUME NEW service \in Services, MountProtected(service)
      PROVE  SurfaceInv'
  <2>1. [routes |-> "all", service |-> service, layer |-> TRUE] \in Mounts
    BY DEF Mounts, Routed
  <2> QED
    BY <1>3, <2>1, MountKeeps DEF MountProtected
<1> QED
  BY <1>1, <1>2, <1>3 DEF Assemble, ReadonlyRoutes, AllCrudRoutes

LEMMA ChangeKeeps ==
    ASSUME SurfaceInv, NEW service, NEW before, NEW after,
           Change(Guarded(service), before, after), UNCHANGED <<mounted, origin>>
    PROVE  SurfaceInv'
<1>1. Guarded(service) \in BOOLEAN
  BY DEF Guarded
<1>2. RecordTypeOK'
  BY <1>1, ChangeType DEF SurfaceInv, SurfaceTypeOK
<1>3. last'.kind # "create" /\ stored' = stored
  BY DEF Change
<1> QED
  BY <1>2, <1>3, OthersKeep DEF SurfaceInv, SurfaceTypeOK

\* Whatever is sent, by whom and to which routes.
LEMMA ServeKeeps ==
    ASSUME SurfaceInv, Serve
    PROVE  SurfaceInv'
<1>1. PICK m \in mounted, c \in Callers :
          \/ \E r \in Adds, rec \in Probes : Post(m, c, r, rec)
          \/ \E r \in Changes, i \in 1..MaxStored, rec \in Probes : Put(m, c, r, i, rec)
          \/ \E i \in 1..MaxStored, f \in Probed \cup {"id"} :
                 \E value \in Boundary(f) \cup {Null, Wrong} : Amend(m, c, i, f, value)
          \/ \E r \in Routes : Remove(m, c, r) \/ Answer(m, c, r)
  BY DEF Serve
<1>2. m.service \in Services
  BY DEF SurfaceInv, SurfaceTypeOK, Mounts
<1>3. ASSUME NEW r, NEW rec \in Probes, Post(m, c, r, rec)
      PROVE  SurfaceInv'
  <2>1. /\ Create(Guarded(m.service), rec) /\ CameBy("http", m.service)
        /\ mounted' = mounted /\ rec \in Records
    BY <1>3, SentAreRecords DEF Post, Probes
  <2> QED
    BY <1>2, <2>1, ServiceCreates, RowMore
<1>4. ASSUME NEW r, NEW i, NEW rec, Put(m, c, r, i, rec)
      PROVE  SurfaceInv'
  BY <1>4, ChangeKeeps DEF Put, Update
<1>5. ASSUME NEW i, NEW f, NEW value, Amend(m, c, i, f, value)
      PROVE  SurfaceInv'
  BY <1>5, ChangeKeeps DEF Amend, Patch
<1>6. ASSUME NEW r, Remove(m, c, r) \/ Answer(m, c, r)
      PROVE  SurfaceInv'
  <2>1. last' = NoCall /\ UNCHANGED <<stored, declared, mounted, origin>>
    BY <1>6 DEF Remove, Answer
  <2>2. RecordTypeOK'
    BY <2>1 DEF SurfaceInv, SurfaceTypeOK, RecordTypeOK, NoCall
  <2> QED
    BY <2>1, <2>2, OthersKeep DEF SurfaceInv, SurfaceTypeOK, NoCall
<1> QED
  BY <1>1, <1>3, <1>4, <1>5, <1>6

\* An entity that its builder finds complete is a record.
LEMMA CompleteIsRecord ==
    ASSUME NEW draft \in Drafts, Complete(draft)
    PROVE  [f \in Columns |-> Drafted(draft, f)] \in Records
<1>1. PICK D \in {Required} \cup {Columns \ {f} : f \in Columns}, rec \in Probes :
          draft.texts = [f \in D |-> rec[f]]
  BY DEF Drafts
<1>2. D \subseteq Columns /\ rec \in Records
  BY <1>1 DEF Columns, Probes, Sent
<1>3. \A f \in Columns : Drafted(draft, f) \in Texts \cup {Null}
  BY <1>1, <1>2 DEF Drafted, Records
<1>4. \A f \in Required : Drafted(draft, f) # Null
  BY <1>1, <1>2 DEF Drafted, Complete, Records
<1>5. Required \subseteq Columns
  BY DEF Columns
<1> QED
  BY <1>3, <1>4, <1>5 DEF Records

LEMMA SurfaceKeeps == SurfaceInv /\ [SurfaceNext]_surfaceVars => SurfaceInv'
<1> SUFFICES ASSUME SurfaceInv, [SurfaceNext]_surfaceVars
             PROVE  SurfaceInv'
  OBVIOUS
<1>1. ASSUME NEW rec \in Probes, Emit(rec)
      PROVE  SurfaceInv'
  BY <1>1, SentAreRecords, PastKeeps DEF Emit, Probes
<1>2. ASSUME NEW rec \in Probes, NEW service \in Services, CallService(service, rec)
      PROVE  SurfaceInv'
  <2>1. /\ Create(Guarded(service), rec) /\ CameBy("service", service)
        /\ mounted' = mounted /\ rec \in Records
    BY <1>2, SentAreRecords DEF CallService, Probes
  <2> QED
    BY <2>1, ServiceCreates, RowMore
<1>3. ASSUME NEW draft \in Drafts, Save(draft)
      PROVE  SurfaceInv'
  BY <1>3, CompleteIsRecord, PastKeeps DEF Save
<1>4. CASE DeclareNow
  <2>1. RecordTypeOK'
    BY <1>4, DeclareType DEF DeclareNow, SurfaceInv, SurfaceTypeOK
  <2> QED
    BY <1>4, <2>1, OthersKeep DEF DeclareNow, Declare, NoCall, SurfaceInv, SurfaceTypeOK
<1>5. CASE UNCHANGED surfaceVars
  BY <1>5 DEF surfaceVars, vars, SurfaceInv, SurfaceTypeOK, RecordTypeOK,
              RulesCoverConstraints, BuiltServiceKeepsRules
<1> QED
  BY <1>1, <1>2, <1>3, <1>4, <1>5, AssembleKeeps, ServeKeeps DEF SurfaceNext

LEMMA AlwaysSurface == SurfaceSpec => []SurfaceInv
<1>1. SurfaceInit => SurfaceInv
  BY InitRecordType
     DEF SurfaceInit, Init, NoCall, SurfaceInv, SurfaceTypeOK, RulesCoverConstraints,
         BuiltServiceKeepsRules
<1> QED
  BY <1>1, SurfaceKeeps, PTL DEF SurfaceSpec

\* Every row is a record, a required column never null, and is accounted for
\* by one origin, whatever the host mounts and calls and whatever is sent.
THEOREM SurfaceTypeCorrect == SurfaceSpec => []SurfaceTypeOK
BY AlwaysSurface, PTL DEF SurfaceInv

\* A create that a service with the guard lets through is stored, whatever
\* constraints have been declared (AuditTrailRowRules, the declared checks).
THEOREM RulesCover == SurfaceSpec => []RulesCoverConstraints
BY AlwaysSurface, PTL DEF SurfaceInv

\* What a service that was built stores keeps the rules, also before the
\* database has the constraints (build_audit_trail_service).
THEOREM BuiltKeepsRules == SurfaceSpec => []BuiltServiceKeepsRules
BY AlwaysSurface, PTL DEF SurfaceInv
=============================================================================
