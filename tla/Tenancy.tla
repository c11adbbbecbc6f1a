------------------------------ MODULE Tenancy ------------------------------
(***************************************************************************)
(* Who calls and for whom (go/internal/auth/, go/internal/api/             *)
(* run_tenant.go): the callers that the operator declares, one file for    *)
(* each tenant, loaded as one bundle or not at all; the caller a token     *)
(* belongs to; and the tenant a request's reads and writes belong to.      *)
(***************************************************************************)
EXTENDS Integers, Sequences, FiniteSets, SequencesExt

\* A caller is [id, kind, token, tenant, mayActFor], where mayActFor is the
\* sequence MayActForTenants.  "" stands for a field, header or token left out.
Absent == ""
Kinds == {"service", "human", "external"}

\* The caller's own tenant, listed or not, is no privilege.
OtherTenants(caller) == Range(caller.mayActFor) \ {caller.tenant}

\* Mutant of ActsForTenant: the header is taken at its word.
ActsForAnyTenant(caller, tenant) == TRUE
ActsForTenant(caller, tenant) == tenant = caller.tenant \/ tenant \in OtherTenants(caller)

\* names is the set of the strings that tenantPattern takes.
ValidCaller(caller, names) ==
    /\ caller.id # Absent /\ caller.kind \in Kinds
    /\ caller.tenant \in names
    /\ Range(caller.mayActFor) \subseteq names /\ IsInjective(caller.mayActFor)
    /\ OtherTenants(caller) # {} => caller.kind = "service"
    /\ caller.token # Absent

\* Load: ids and tokens are unique over the whole bundle.
LoadAccepts(callers, names) ==
    /\ callers # <<>>
    /\ \A i \in DOMAIN callers : ValidCaller(callers[i], names)
    /\ \A i, j \in DOMAIN callers :
        callers[i].id = callers[j].id \/ callers[i].token = callers[j].token => i = j

\* LoadDir: the files, tenant -> callers, are merged and validated as one, and
\* each declares callers of its own tenant alone.
Merged(dir) == FlattenSeq(SetToSeq({dir[tenant] : tenant \in DOMAIN dir}))
LoadDirAccepts(dir, names) ==
    /\ DOMAIN dir \subseteq names
    /\ \A tenant \in DOMAIN dir :
        /\ dir[tenant] # <<>>
        /\ \A i \in DOMAIN dir[tenant] : dir[tenant][i].tenant = tenant
    /\ LoadAccepts(Merged(dir), names)

\* Require and Authenticate: the caller of a token, or nobody.
Authenticate(callers, token) == {c \in callers : token # Absent /\ c.token = token}

\* effectiveTenant: the tenant of X-Aeon-Run-Tenant for a caller that may name
\* it, the caller's own without the header; no tenant is a refusal.
EffectiveTenant(caller, header) ==
    IF header = Absent THEN {caller.tenant} ELSE {t \in {header} : ActsForTenant(caller, t)}
\* rejectRequestTenant: a tenant in the body is at best superfluous.
RejectRequestTenant(supplied, actual) == supplied # Absent /\ supplied # actual
=============================================================================
