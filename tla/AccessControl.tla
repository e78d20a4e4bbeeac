--------------------------- MODULE AccessControl ---------------------------
(***************************************************************************)
(* Who an access token speaks for, and the guards that stand before the    *)
(* routes of a tenant, in the order of @UseGuards.  The guards read the    *)
(* signed payload only, never the account: what login found then still     *)
(* counts for as long as the token lasts.                                  *)
(***************************************************************************)

CONSTANT None

Roles == {"collaborator", "hr_admin", "platform_admin", "planning_consultant"}

Clients == {"ic-app", "hr-admin", "control-pane"}

rolesAllowedForTenantClient(clientId, roles) ==
    \/ clientId = "ic-app" /\ "collaborator" \in roles
    \/ clientId = "hr-admin" /\ "hr_admin" \in roles

rolesAllowedForPlatformClient(clientId, roles) ==
    clientId = "control-pane" /\ roles \cap {"platform_admin", "planning_consultant"} # {}

\* Clients an account of a tenant, or of the platform (tenant None), signs in to.
SignsInTo(tenant, roles) ==
    {c \in Clients : IF tenant = None THEN rolesAllowedForPlatformClient(c, roles)
                                      ELSE rolesAllowedForTenantClient(c, roles)}

\* The payload that issueTokenPair signs.
Payload(sub, tenant, roles, clientId) ==
    [sub |-> sub, roles |-> roles, aud |-> clientId, tenantId |-> tenant,
     principalType |-> IF tenant = None THEN "platform_user" ELSE "tenant_user"]

-----------------------------------------------------------------------------
(* Guards: u is the payload *)

RequireTenantPrincipal(u) == u.principalType = "tenant_user" /\ u.tenantId # None

RequireClient(u, expected) == u.aud = expected

RequireRoles(u, required) == required \in u.roles

\* Mutant: the tenant of the path is not compared.
AnyTenantParam(u, fromPath) == TRUE

TenantIdParam(u, fromPath) == u.tenantId = fromPath

\* The guards of IcController and of EligibilityController and HrController.
PassesIcGuards(u, fromPath) ==
    /\ RequireTenantPrincipal(u)
    /\ RequireClient(u, "ic-app")
    /\ RequireRoles(u, "collaborator")
    /\ TenantIdParam(u, fromPath)

PassesHrGuards(u, fromPath) ==
    /\ RequireTenantPrincipal(u)
    /\ RequireClient(u, "hr-admin")
    /\ RequireRoles(u, "hr_admin")
    /\ TenantIdParam(u, fromPath)

=============================================================================
