-------------------------- MODULE MCAuditDeployment --------------------------
(***************************************************************************)
(* AuditDeployment with a handful of writers: the owner outside any        *)
(* request, a request of one unit, a request entitled to two units, one    *)
(* with no scope, and one acting for an id that names no unit.             *)
(***************************************************************************)
EXTENDS AuditDeployment

CONSTANTS unitA, unitB, bogus

Owner    == [role |-> "owner", acting |-> NoUnit, scope |-> {}]
Request  == [role |-> "app", acting |-> unitA, scope |-> {unitA}]
Union    == [role |-> "app", acting |-> unitA, scope |-> {unitA, unitB}]
Unscoped == [role |-> "app", acting |-> NoUnit, scope |-> {}]
Lost     == [role |-> "app", acting |-> bogus, scope |-> {bogus}]

AllClients == {Owner, Request, Union, Unscoped, Lost}
TwoClients == {Owner, Union}
=============================================================================
