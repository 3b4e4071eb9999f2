----------------------------- MODULE MCServerWork -----------------------------
(***************************************************************************)
(* The work a server does behind its requests, for TLC: the audit pipeline *)
(* and the provisioning of a tenant.  They share no state: one of them     *)
(* moves in a behaviour, and the other stays as it starts, where none of   *)
(* its fair actions is enabled.                                            *)
(***************************************************************************)
EXTENDS AuditPipeline, TenantProvisioning

VARIABLE part

partVars == <<part, auditVars, provVars>>

PartsInit ==
    /\ part \in {"audit", "tenant"} /\ ProvInit
    /\ AuditInitAt(IF part = "audit" THEN "security" ELSE "down")

PartsNext ==
    /\ UNCHANGED part
    /\ \/ part = "audit" /\ AuditNext /\ UNCHANGED provVars
       \/ part = "tenant" /\ ProvNext /\ UNCHANGED auditVars

PartsSpec == PartsInit /\ [][PartsNext]_partVars /\ AuditFairness /\ ProvFairness

\* A step without effects, and the one that seeds; the others are like the first.
TwoSteps == <<"Migrations", "Seeding">>

\* Whatever failed, crashed or had to wait, events and provisionings are settled in the end.
WorkSettles == AuditSettles /\ QueuedIsSettled
=============================================================================
