------------------------------- MODULE Tenancy --------------------------------
(***************************************************************************)
(* Tenants, their users and their phone numbers: registration              *)
(* (services/auth_service.py), managers' requests (routers/users.py,       *)
(* routers/phone_numbers.py) and the platform's admins (routers/           *)
(* tenants.py).                                                            *)
(*                                                                         *)
(* Three times a request asks whether something is taken and inserts a row *)
(* later, and each time the question is not what the table's unique        *)
(* constraint says: e-mail is asked for globally and unique per tenant, a  *)
(* slug is asked for one at a time, a number is asked for in the tenant    *)
(* and unique globally.  An INSERT waits for one of another transaction    *)
(* with the same key, so that flush and commit are one step; a request     *)
(* that meets a constraint is rolled back.                                 *)
(*                                                                         *)
(* The names are not those of AuthSessions, so that one module can be      *)
(* about both.                                                             *)
(***************************************************************************)
EXTENDS Integers, FiniteSets

CONSTANTS
  Handlers,    \* handlers that may run at the same time
  Emails,
  Numbers,     \* phone numbers
  MaxTenants   \* bound on the tenants ever created

ASSUME TenancyAssumption == MaxTenants \in Nat \ {0}

(* All tenants register one business name, so that their slugs differ only *)
(* in the counter, 0 for none.                                             *)
Tenants == 1..MaxTenants
Slugs   == 0..MaxTenants

VARIABLES
  slug,         \* tenants' rows: their slug's counter, -1 before they exist
  openTenants,  \* tenants whose status is active
  role,         \* users' rows: their role, "none" for no row
  activeUsers,  \* users with is_active
  number,       \* phone numbers' rows
  place,        \* where a request is
  draft,        \* what it is about to insert
  overtaken,    \* requests whose question has another answer by now (history)
  twins         \* users inserted by those (history)

tenancyVars == <<slug, openTenants, role, activeUsers, number, place, draft, overtaken, twins>>

tenants  == <<slug, openTenants>>
users    == <<role, activeUsers, twins>>
requests == <<place, draft, overtaken>>

(* One user per tenant and e-mail: users.uix_tenant_email. *)
Users == Tenants \X Emails

(* Each tenant has one agent, named by its tenant; 0 is no agent.  The     *)
(* status is left out: nothing reads it, and PUT may set it to anything.   *)
Agents   == Tenants
Number   == [tenant : Tenants, agent : Agents \cup {0}, inUse : BOOLEAN]
NoRow    == [tenant |-> 0]

(* "manager" is AGENT_MANAGER, and one who assigns nothing does what       *)
(* ANALYST and READ_ONLY do here, nothing; "specialist" stands for         *)
(* COMPLIANCE_, CONTACT_ and CAMPAIGN_MANAGER, which the model lists and   *)
(* the check constraint of the migrated table refuses.                     *)
Roles    == {"owner", "admin", "manager", "specialist"}
Storable == Roles \ {"specialist"}

Registering == [email : Emails, slug : Slugs]
Creating    == [tenant : Tenants, email : Emails, role : Roles]
Provisioning == [tenant : Tenants, number : Numbers, agent : Agents \cup {0}]
NoDraft     == [none |-> 0]

TenancyInit ==
  /\ slug = [t \in Tenants |-> -1] /\ openTenants = {}
  /\ role = [u \in Users |-> "none"] /\ activeUsers = {}
  /\ number = [n \in Numbers |-> NoRow]
  /\ place = [r \in Handlers |-> "idle"]
  /\ draft = [r \in Handlers |-> NoDraft]
  /\ overtaken = {} /\ twins = {}

Rows  == {u \in Users : role[u] # "none"}
Taken == {slug[t] : t \in Tenants} \ {-1}

(* The rows get_by_email_global finds, of which it returns the first. *)
OfEmail(e) == {u \in Rows : u[2] = e}

(* The caller of a manager's request: get_current_user and require_roles. *)
Calls(u, roles) == u \in activeUsers /\ u[1] \in openTenants /\ role[u] \in roles

Begin(r, step, d) ==
  /\ place[r] = "idle"
  /\ place' = [place EXCEPT ![r] = step]
  /\ draft' = [draft EXCEPT ![r] = d]

Finish(r) ==
  /\ place' = [place EXCEPT ![r] = "idle"]
  /\ draft' = [draft EXCEPT ![r] = NoDraft]

(* r is over, and the other requests that asked for e-mail e, or for the   *)
(* slug s while it was free, are outdated.                                 *)
EndInserting(r, e, s) ==
  /\ Finish(r)
  /\ overtaken' = (overtaken \cup {q \in Handlers :
                      \/ place[q] \in {"probing", "free", "creating"} /\ draft[q].email = e
                      \/ place[q] = "free" /\ draft[q].slug = s}) \ {r}

InsertUser(r, u, theRole) ==
  /\ role' = [role EXCEPT ![u] = theRole]
  /\ activeUsers' = activeUsers \cup {u}
  /\ twins' = IF r \in overtaken THEN twins \cup {u} ELSE twins

-------------------------------------------------------------------------------
(* Faulty variants of actions below: each must break a property. *)

(* The e-mail is asked for in the caller's tenant only. *)
AskEmailInTenant(r, caller, e, theRole) ==
  /\ Calls(caller, {"owner", "admin"})
  /\ theRole = "owner" => role[caller] = "owner"
  /\ role[<<caller[1], e>>] = "none"
  /\ Begin(r, "creating", [tenant |-> caller[1], email |-> e, role |-> theRole])
  /\ UNCHANGED <<tenants, users, number, overtaken>>

(* The first slug is tried and no other. *)
ProbeSlugOnce(r) ==
  /\ place[r] = "probing"
  /\ place' = [place EXCEPT ![r] = "free"]
  /\ UNCHANGED <<tenants, users, number, draft, overtaken>>

(* A role that the table's check constraint refuses is written. *)
ChangeRoleUnchecked(caller, u, theRole) ==
  /\ Calls(caller, {"owner"}) /\ u \in Rows /\ u[1] = caller[1]
  /\ role' = [role EXCEPT ![u] = theRole]
  /\ UNCHANGED <<tenants, activeUsers, twins, number, requests>>

-------------------------------------------------------------------------------
(* POST /auth/register *)

AskEmail(r, e) ==
  /\ OfEmail(e) = {}
  /\ Begin(r, "probing", [email |-> e, slug |-> 0])
  /\ UNCHANGED <<tenants, users, number, overtaken>>

(* One SELECT of the loop that looks for a free slug. *)
ProbeSlug(r) ==
  /\ place[r] = "probing"
  /\ IF draft[r].slug \in Taken
       THEN draft' = [draft EXCEPT ![r].slug = @ + 1] /\ UNCHANGED place
       ELSE place' = [place EXCEPT ![r] = "free"] /\ UNCHANGED draft
  /\ UNCHANGED <<tenants, users, number, overtaken>>

(* Tenant, owner, session and audit entry are inserted and committed. *)
CommitRegister(r) ==
  /\ place[r] = "free" /\ draft[r].slug \notin Taken
  /\ \E t \in Tenants :
       /\ slug[t] = -1 /\ \A q \in Tenants : q < t => slug[q] # -1
       /\ slug' = [slug EXCEPT ![t] = draft[r].slug]
       /\ openTenants' = openTenants \cup {t}
       /\ InsertUser(r, <<t, draft[r].email>>, "owner")
  /\ EndInserting(r, draft[r].email, draft[r].slug)
  /\ UNCHANGED number

(* tenants.slug is unique: nothing of the registration is kept. *)
SlugClash(r) ==
  /\ place[r] = "free" /\ draft[r].slug \in Taken
  /\ Finish(r) /\ overtaken' = overtaken \ {r}
  /\ UNCHANGED <<tenants, users, number>>

-------------------------------------------------------------------------------
(* Users *)

(* POST /users: only owners make owners. *)
AskEmailGlobally(r, caller, e, theRole) ==
  /\ Calls(caller, {"owner", "admin"})
  /\ theRole = "owner" => role[caller] = "owner"
  /\ OfEmail(e) = {}
  /\ Begin(r, "creating", [tenant |-> caller[1], email |-> e, role |-> theRole])
  /\ UNCHANGED <<tenants, users, number, overtaken>>

CommitCreateUser(r) ==
  LET u == <<draft[r].tenant, draft[r].email>>
  IN  /\ place[r] = "creating"
      /\ role[u] = "none" /\ draft[r].role \in Storable
      /\ InsertUser(r, u, draft[r].role)
      /\ EndInserting(r, draft[r].email, -1)
      /\ UNCHANGED <<tenants, number>>

(* uix_tenant_email or user_role_check. *)
UserClash(r) ==
  /\ place[r] = "creating"
  /\ role[<<draft[r].tenant, draft[r].email>>] # "none" \/ draft[r].role \notin Storable
  /\ Finish(r) /\ overtaken' = overtaken \ {r}
  /\ UNCHANGED <<tenants, users, number>>

(* PUT /users/{id}/role: one UPDATE, also of the caller's own row.  A role *)
(* that is not storable is the absence of a step.                          *)
ChangeRole(caller, u, theRole) ==
  /\ Calls(caller, {"owner"}) /\ u \in Rows /\ u[1] = caller[1]
  /\ theRole \in Storable
  /\ role' = [role EXCEPT ![u] = theRole]
  /\ UNCHANGED <<tenants, activeUsers, twins, number, requests>>

(* DELETE /users/{id}, and PUT /users/{id} with is_active. *)
SetUserActive(caller, u, b) ==
  /\ Calls(caller, {"owner", "admin"}) /\ u \in Rows /\ u[1] = caller[1]
  /\ activeUsers' = IF b THEN activeUsers \cup {u} ELSE activeUsers \ {u}
  /\ UNCHANGED <<tenants, role, twins, number, requests>>

(* POST /tenants/{id}/suspend and /reactivate. *)
SetTenantOpen(t, b) ==
  /\ slug[t] # -1
  /\ openTenants' = IF b THEN openTenants \cup {t} ELSE openTenants \ {t}
  /\ UNCHANGED <<slug, users, number, requests>>

-------------------------------------------------------------------------------
(* Phone numbers *)

(* POST /phone-numbers: number and agent are looked up in the tenant. *)
AskNumber(r, caller, n, a) ==
  /\ Calls(caller, {"owner", "admin"})
  /\ number[n].tenant # caller[1]
  /\ a \in {0, caller[1]}
  /\ Begin(r, "provisioning", [tenant |-> caller[1], number |-> n, agent |-> a])
  /\ UNCHANGED <<tenants, users, number, overtaken>>

CommitProvision(r) ==
  LET d == draft[r]
  IN  /\ place[r] = "provisioning" /\ number[d.number] = NoRow
      /\ number' = [number EXCEPT ![d.number] =
                      [tenant |-> d.tenant, agent |-> d.agent, inUse |-> TRUE]]
      /\ overtaken' = (overtaken \cup {q \in Handlers :
                         /\ place[q] = "provisioning" /\ draft[q].number = d.number
                         /\ draft[q].tenant = d.tenant}) \ {r}
      /\ Finish(r)
      /\ UNCHANGED <<tenants, users>>

(* The number is unique over all tenants, released or not. *)
NumberClash(r) ==
  /\ place[r] = "provisioning" /\ number[draft[r].number] # NoRow
  /\ Finish(r) /\ overtaken' = overtaken \ {r}
  /\ UNCHANGED <<tenants, users, number>>

(* PUT /phone-numbers/{id} and POST /phone-numbers/{id}/assign.  Neither   *)
(* asks whether the number was released.                                   *)
AssignAgent(caller, n, a) ==
  /\ Calls(caller, {"owner", "admin", "manager"}) /\ number[n].tenant = caller[1]
  /\ a \in {0, caller[1]}
  /\ number' = [number EXCEPT ![n].agent = a]
  /\ UNCHANGED <<tenants, users, requests>>

ReleaseNumber(caller, n) ==
  /\ Calls(caller, {"owner", "admin"}) /\ number[n].tenant = caller[1]
  /\ number' = [number EXCEPT ![n].inUse = FALSE, ![n].agent = 0]
  /\ UNCHANGED <<tenants, users, requests>>

(* The process dies or the database fails: the transaction is rolled back. *)
RollBack(r) ==
  /\ place[r] # "idle"
  /\ Finish(r) /\ overtaken' = overtaken \ {r}
  /\ UNCHANGED <<tenants, users, number>>

-------------------------------------------------------------------------------

Register(r) ==
  \/ \E e \in Emails : AskEmail(r, e)
  \/ ProbeSlug(r) \/ CommitRegister(r) \/ SlugClash(r)

CreateUser(r) ==
  \/ \E u \in Users, e \in Emails, x \in Roles : AskEmailGlobally(r, u, e, x)
  \/ CommitCreateUser(r) \/ UserClash(r)

ProvisionNumber(r) ==
  \/ \E u \in Users, n \in Numbers, a \in Agents \cup {0} : AskNumber(r, u, n, a)
  \/ CommitProvision(r) \/ NumberClash(r)

ManageUsers ==
  \E u, v \in Users :
    \/ \E x \in Roles : ChangeRole(u, v, x)
    \/ \E b \in BOOLEAN : SetUserActive(u, v, b)

ManageNumbers ==
  \E u \in Users, n \in Numbers :
    \/ \E a \in Agents \cup {0} : AssignAgent(u, n, a)
    \/ ReleaseNumber(u, n)

ManageTenants == \E t \in Tenants, b \in BOOLEAN : SetTenantOpen(t, b)

TenancyNext ==
  \/ \E r \in Handlers : Register(r) \/ CreateUser(r) \/ ProvisionNumber(r) \/ RollBack(r)
  \/ ManageUsers \/ ManageNumbers \/ ManageTenants

TenancySpec == TenancyInit /\ [][TenancyNext]_tenancyVars

-------------------------------------------------------------------------------

(* Every variable has its type. *)
TenancyTypeOK ==
  /\ slug \in [Tenants -> Slugs \cup {-1}] /\ openTenants \subseteq Tenants
  /\ role \in [Users -> Storable \cup {"none"}] /\ activeUsers \subseteq Rows
  /\ number \in [Numbers -> Number \cup {NoRow}]
  /\ place \in [Handlers -> {"idle", "probing", "free", "creating", "provisioning"}]
  /\ draft \in [Handlers -> Registering \cup Creating \cup Provisioning \cup {NoDraft}]
  /\ overtaken \subseteq Handlers /\ twins \subseteq Users

(* An e-mail names one account over all tenants, which log-in, reset and   *)
(* registration rely on: of two accounts of one e-mail, one was inserted   *)
(* by a request that another overtook after it had asked.                  *)
EmailNamesOneAccount ==
  \A e \in Emails : Cardinality(OfEmail(e) \ twins) <= 1

(* A request whose questions have the answers they had is not refused by a *)
(* constraint, except for a role the table does not know and for a number  *)
(* that was ever another tenant's.                                         *)
FreshRequestsSucceed ==
  \A r \in Handlers \ overtaken :
    /\ place[r] = "free" => draft[r].slug \notin Taken
    /\ place[r] = "creating" => role[<<draft[r].tenant, draft[r].email>>] = "none"
    /\ place[r] = "provisioning" => number[draft[r].number].tenant # draft[r].tenant
===============================================================================
