---------------------------- MODULE AuditSurface ----------------------------
(***************************************************************************)
(* The ways into the trail that a host assembles from this crate: the      *)
(* module's builder and its routers, the exported route functions, the     *)
(* generic service with or without its guard, and the entity builder.      *)
(* Requests of callers go through the routes that are mounted; what they   *)
(* write meets the rules and the database of AuditRecord.                  *)
(*                                                                         *)
(* A service is built by build_audit_trail_service or made bare, with      *)
(* with_repository.  A mount is a group of routes, the service behind it   *)
(* and whether an authentication layer is around it.  The handler and the  *)
(* generic service are the framework's: of upsert is known only that it    *)
(* creates or updates, of a bulk that it creates its records, each held to *)
(* the rules of a create, and not whether one that fails keeps the others  *)
(* out; a bulk is therefore any number of records, one at a time.          *)
(***************************************************************************)
EXTENDS AuditRecord

CONSTANTS
    Callers,    \* clients that send requests
    Authentic,  \* those that send "Bearer" or "bearer" and a token the
                \* AuthMiddleware accepts
    Granted,    \* the permissions callers hold: pairs of a caller and one of
                \* the six; no property tells moments of granting apart
    Probed      \* bound: the columns that vary in what is sent

Permissions == {"read", "create", "update", "delete", "restore", "purge"}

ASSUME CallerAssumption == Authentic \subseteq Callers /\ Granted \subseteq Callers \X Permissions
ASSUME ProbeAssumption  == Probed \subseteq Columns

VARIABLES
    mounted,  \* the mounts the host serves
    origin    \* per stored row, the lane and the service it came by

surfaceVars == <<vars, mounted, origin>>

Services == {"built", "bare"}

\* The fifteen routes, and for each the permissions of which one is needed.
Reads   == {"list", "get", "trash", "get_deleted", "count", "trash_count"}
Adds    == {"create", "bulk", "upsert"}
Changes == {"update", "patch", "upsert"}
Removes == {"delete", "restore", "empty", "purge"}
Routes  == Reads \cup Adds \cup Changes \cup Removes

Needs ==
    [r \in Routes |->
        CASE r \in Reads                -> {"read"}
          [] r \in {"create", "bulk"}   -> {"create"}
          [] r = "upsert"               -> {"create", "update"}
          [] r \in {"update", "patch"}  -> {"update"}
          [] r = "delete"               -> {"delete"}
          [] r = "restore"              -> {"restore"}
          [] r \in {"empty", "purge"}   -> {"purge"}]

\* The routes that each route function routes.
Routed == [all |-> Routes, read |-> Reads, write |-> Routes \ Reads]

Mounts == [routes : DOMAIN Routed, service : Services, layer : BOOLEAN]

Origins == [lane : {"http", "service", "past"}, service : Services \cup {"none"}]

SurfaceTypeOK ==
    /\ RecordTypeOK
    /\ mounted \subseteq Mounts
    /\ origin \in Seq(Origins) /\ Len(origin) = Len(stored)

SurfaceInit == Init /\ mounted = {} /\ origin = << >>

-----------------------------------------------------------------------------
(* The assembly.                                                           *)

\* Two mounts that route one method of a path would collide.
Mount(m) ==
    /\ \A n \in mounted : Routed[n.routes] \cap Routed[m.routes] = {}
    /\ mounted' = mounted \cup {m}
    /\ UNCHANGED <<vars, origin>>

ReadonlyRoutes == "read"

\* all_crud_routes(), and routes(), merge the read routes and no others.
AllCrudRoutes == "read"

\* The host builds the module, which fails without a pool, and serves one of
\* its routers behind a layer of its own or bare.
MountModule(pool, routes, layer) ==
    /\ pool
    /\ Mount([routes |-> routes, service |-> "built", layer |-> layer])

\* The host calls a route function with a service it made: routes, read
\* routes or write routes behind a layer of its own or bare.
MountOwn(routes, service, layer) ==
    Mount([routes |-> routes, service |-> service, layer |-> layer])

\* create_protected_audit_trail_routes: all routes, behind the token check.
MountProtected(service) ==
    Mount([routes |-> "all", service |-> service, layer |-> TRUE])

-----------------------------------------------------------------------------
(* Requests.                                                               *)

\* The layer's middleware: authenticate(token), or 401.
Passes(m, c) == m.layer => c \in Authentic

\* The routes ask for a permission of the caller the layer identified.
Permitted(m, c, r) == m.layer /\ \E p \in Needs[r] : <<c, p>> \in Granted

Served(m, c, r) == Passes(m, c) /\ r \in Routed[m.routes] /\ Permitted(m, c, r)

\* What a row came by, if this step stores one.
CameBy(lane, service) ==
    origin' = IF Len(stored') = Len(stored) THEN origin
              ELSE Append(origin, [lane |-> lane, service |-> service])

\* Mutant: with_guard is forgotten.
UnguardedService(service) == FALSE

\* build_audit_trail_service attaches the row rules.
Guarded(service) == service = "built"

\* POST of a record, alone or in a bulk, or of an upsert whose id is new.
Post(m, c, r, rec) ==
    /\ r \in Adds /\ Served(m, c, r)
    /\ Create(Guarded(m.service), rec) /\ CameBy("http", m.service)
    /\ UNCHANGED mounted

\* PUT, or an upsert whose id is known.
Put(m, c, r, i, rec) ==
    /\ r \in {"update", "upsert"} /\ Served(m, c, r)
    /\ Update(Guarded(m.service), i, rec)
    /\ UNCHANGED <<mounted, origin>>

\* PATCH: the columns a patch names, one at a time.
Amend(m, c, i, f, value) ==
    /\ Served(m, c, "patch")
    /\ Patch(Guarded(m.service), i, f, value)
    /\ UNCHANGED <<mounted, origin>>

\* DELETE is a hard delete, which the immutability trigger refuses; without
\* soft deletes there is no trash to restore from, to empty or to purge.
Remove(m, c, r) ==
    /\ r \in Removes /\ Served(m, c, r)
    /\ last' = NoCall
    /\ UNCHANGED <<stored, declared, mounted, origin>>

\* GET, and any request that is answered 401, 403, 404 or 405.
Answer(m, c, r) ==
    /\ r \in Reads \/ ~Served(m, c, r)
    /\ last' = NoCall
    /\ UNCHANGED <<stored, declared, mounted, origin>>

-----------------------------------------------------------------------------
(* Ways in without a request.                                              *)

\* The host calls the generic service.
CallService(service, rec) ==
    /\ Create(Guarded(service), rec) /\ CameBy("service", service)
    /\ UNCHANGED mounted

Probes == {rec \in Sent : \A f \in Columns \ Probed : rec[f] = Plain[f]}

\* What an entity builder was given: some columns, and whether event_type
\* and status were among them.
Drafts ==
    [texts : {[f \in D |-> rec[f]] :
                 D \in {Required} \cup {Columns \ {f} : f \in Columns}, rec \in Probes},
     kinds : {{"event_type"}, {"event_type", "status"}}]

Drafted(draft, f) == IF f \in DOMAIN draft.texts THEN draft.texts[f] ELSE Null

\* Mutant: a missing text is left out of the row.
CompleteWithoutTexts(draft) == draft.kinds = {"event_type", "status"}

\* AuditTrailBuilder::build returns Err when a required field is missing.
Complete(draft) ==
    Required \subseteq DOMAIN draft.texts /\ draft.kinds = {"event_type", "status"}

\* The entity, built from a draft or with AuditTrail::new and its setters,
\* saved through the repository, past the rules.
Save(draft) ==
    /\ Complete(draft)
    /\ Capture([f \in Columns |-> Drafted(draft, f)]) /\ CameBy("past", "none")
    /\ UNCHANGED mounted

\* The trigger and the verbs.
Emit(rec) == Capture(rec) /\ CameBy("past", "none") /\ UNCHANGED mounted

DeclareNow == Declare /\ UNCHANGED <<mounted, origin>>

-----------------------------------------------------------------------------

Assemble ==
    \/ \E pool, layer \in BOOLEAN :
           MountModule(pool, ReadonlyRoutes, layer) \/ MountModule(pool, AllCrudRoutes, layer)
    \/ \E service \in Services :
           \/ \E routes \in DOMAIN Routed, layer \in BOOLEAN : MountOwn(routes, service, layer)
           \/ MountProtected(service)

Serve ==
    \E m \in mounted, c \in Callers :
        \/ \E r \in Adds, rec \in Probes : Post(m, c, r, rec)
        \/ \E r \in Changes, i \in 1..MaxStored, rec \in Probes : Put(m, c, r, i, rec)
        \/ \E i \in 1..MaxStored, f \in Probed \cup {"id"} :
               \E value \in Boundary(f) \cup {Null, Wrong} : Amend(m, c, i, f, value)
        \/ \E r \in Routes : Remove(m, c, r) \/ Answer(m, c, r)

SurfaceNext ==
    \/ Assemble
    \/ Serve
    \/ \E rec \in Probes : Emit(rec) \/ \E service \in Services : CallService(service, rec)
    \/ \E draft \in Drafts : Save(draft)
    \/ DeclareNow

SurfaceSpec == SurfaceInit /\ [][SurfaceNext]_surfaceVars

-----------------------------------------------------------------------------
(* Properties.                                                             *)

\* A row that breaks a rule was captured, saved past the rules or created by
\* a bare service: it never came by a service that was built, not even
\* before the database has the constraint.
BuiltServiceKeepsRules ==
    \A i \in DOMAIN origin :
        origin[i].service = "built" => ~\E rule \in Rules : BreaksRule(stored[i], rule)

\* "Audit rows are appended through the verbs or the trigger lane - never
\* through the HTTP surface" (README.md): no row came by a request.  The
\* module's own routers keep to it; the crate also exports the write routes.
NeverOverHttp == \A i \in DOMAIN origin : origin[i].lane # "http"
=============================================================================
