------------------------------- MODULE Tenancy -------------------------------
(***************************************************************************)
(* Accounts, sessions, tenants, companies and memberships: auth.py,        *)
(* admin.py, companies.py and company_memberships.py of api/v1,            *)
(* CompanyService, shared/company_access.py and shared/security.py.        *)
(*                                                                         *)
(* The handlers run in a thread pool, each with its own database session:  *)
(* a request reads and checks everything in one step (Begin), writes what  *)
(* it computed from those rows in another (Commit), and other requests run *)
(* in between. Handlers that read a row again after their commit have a    *)
(* third step (Issue).                                                     *)
(*                                                                         *)
(* Companies and tenants are numbered in the order they are committed,     *)
(* those the migrations made of earlier data first. A session's expiry     *)
(* only ends it sooner and is left out.                                    *)
(***************************************************************************)
EXTENDS Naturals, Sequences, FiniteSets

CONSTANTS
    None,
    Users,
    Legacy,         \* accounts that exist from the start, with no subscription
    Provisioned,    \* accounts provision_platform_admin.py is run for
    Configured,     \* accounts whose email is in PLATFORM_ADMIN_EMAILS
    Requests,       \* requests that may be in flight at once
    Limits,         \* company limits an administrator sets
    Grants,         \* roles an owner gives
    MaxMigrated,    \* bound: companies older than the table of companies
    MaxTenants,     \* bound: tenants
    MaxCompanies,   \* bound: companies
    MaxChanges,     \* bound: password changes
    MaxGrants       \* bound: changes of memberships

ASSUME AccountsAssumption == Provisioned \subseteq Users /\ Configured \subseteq Users /\ Legacy \subseteq Users
ASSUME LimitsAssumption == Limits \subseteq Nat \ {0}
ASSUME GrantsAssumption == Grants \subseteq {"owner", "admin", "operator", "viewer"}
ASSUME RequestsAssumption == IsFiniteSet(Requests) /\ Requests # {}
ASSUME NoneAssumption ==
    None \notin Users \cup {"owner", "admin", "operator", "viewer"}
                  \cup {"login", "change", "reset", "beta", "limit", "onboard", "create",
                        "put", "delete"}
ASSUME TenancyBounds ==
    /\ MaxMigrated \in Nat
    /\ MaxTenants \in Nat /\ MaxCompanies \in Nat /\ MaxChanges \in Nat /\ MaxGrants \in Nat

VARIABLES
    users,          \* account -> [exists, admin, pending, version, limit]
    tokens,         \* sessions handed out: [user, version, epoch]
    tenants,        \* the owners of each tenant
    companies,      \* [tenant, creator, kept, members], members[u] = [row, role]
    requests,
    changes,        \* history: password changes of an account
    raced,          \* history: accounts whose changes have overlapped
    top,            \* history: the greatest limit a subscription has had
    begun           \* bounds: [changes, grants] begun

vars == <<users, tokens, tenants, companies, requests, changes, raced, top, begun>>

Roles == {"owner", "admin", "operator", "viewer"}

NoRow == [row |-> 0, role |-> None]
Idle == [op |-> None]
\* limit 0: no subscription.
Account == [exists |-> TRUE, admin |-> FALSE, pending |-> FALSE, version |-> 0, limit |-> 0]
NoAccount == [Account EXCEPT !.exists = FALSE]
BetaAccount == [Account EXCEPT !.pending = TRUE, !.limit = 1]

\* A company the migrations made of the memberships held by accounts that were
\* there: nobody has created it, and perhaps nobody owns it.
Migrated(tenant, held) ==
    [tenant |-> tenant, creator |-> None, kept |-> FALSE,
     members |-> [u \in Users |->
         IF u \in Legacy /\ held[u] # None THEN [row |-> 1, role |-> held[u]] ELSE NoRow]]

\* The owners of a migrated tenant are those of its companies.
MigratedOwners(tenant, of, held) ==
    {u \in Legacy : \E c \in DOMAIN of : of[c] = tenant /\ held[c][u] = "owner"}

Migration ==
    \E m \in 0..MaxMigrated : \E n \in 0..m :
    \E of \in [1..m -> 1..n], held \in [1..m -> [Legacy -> Roles \cup {None}]] :
        /\ {of[c] : c \in 1..m} = 1..n
        /\ tenants = [t \in 1..n |-> MigratedOwners(t, of, held)]
        /\ companies = [c \in 1..m |-> Migrated(of[c], held[c])]

Init ==
    /\ Migration
    /\ users = [u \in Users |-> IF u \in Legacy THEN Account ELSE NoAccount]
    /\ tokens = {}
    /\ requests = [r \in Requests |-> Idle]
    /\ changes = [u \in Users |-> 0]
    /\ raced = {}
    /\ top = [u \in Users |-> 0]
    /\ begun = [changes |-> 0, grants |-> 0]

-----------------------------------------------------------------------------
(* Who may do what *)

\* get_current_user; only a password change is open to a temporary password.
Authenticates(t) == users[t.user].exists /\ t.version = users[t.user].version
SignedIn(u) == \E t \in tokens : t.user = u /\ Authenticates(t)
MayOperate(u) == SignedIn(u) /\ ~users[u].pending

TenantOwner(u, tenant) == users[u].admin \/ u \in tenants[tenant]
Role(u, c) == companies[c].members[u].role
\* require_company_role: an owner of the tenant owns each of its companies.
Allowed(u, c, roles) ==
    \/ users[u].admin
    \/ u \in tenants[companies[c].tenant]
    \/ Role(u, c) # None /\ Role(u, c) \in roles

Owned(u) == {c \in DOMAIN companies : Role(u, c) = "owner"}
SlotFree_OneMore(u) ==                                       \* mutant
    users[u].limit = 0 \/ users[u].admin \/ Cardinality(Owned(u)) <= users[u].limit
\* _require_available_company_slot
SlotFree(u) == users[u].limit = 0 \/ users[u].admin \/ Cardinality(Owned(u)) < users[u].limit

-----------------------------------------------------------------------------
(* A request reads and checks *)

Begin(r, request) ==
    /\ requests[r] = Idle
    /\ requests' = [requests EXCEPT ![r] = request]
    /\ begun' = [changes |-> begun.changes + IF request.op \in {"change", "reset"} THEN 1 ELSE 0,
                 grants |-> begun.grants + IF request.op \in {"put", "delete"} THEN 1 ELSE 0]
    /\ begun'.changes <= MaxChanges /\ begun'.grants <= MaxGrants
    /\ UNCHANGED <<users, tokens, tenants, companies, changes, raced, top>>

\* login: the password is verified against the row read here. An account of
\* PLATFORM_ADMIN_EMAILS is promoted first, and then its row is read again.
BeginLogin(r, u) ==
    /\ users[u].exists
    /\ Begin(r, [op |-> "login", user |-> u, version |-> users[u].version, epoch |-> changes[u],
                 step |-> IF u \in Configured /\ ~users[u].admin THEN "commit" ELSE "issue",
                 again |-> u \in Configured /\ ~users[u].admin])

\* change_password, and provision_platform_admin.py --reset-password.
BeginChange(r, u, op) ==
    /\ IF op = "change" THEN SignedIn(u) ELSE users[u].exists /\ u \in Provisioned
    /\ Begin(r, [op |-> op, user |-> u, version |-> users[u].version, epoch |-> 0,
                 step |-> "commit", again |-> TRUE])

BeginBeta(r, admin, u) ==
    /\ MayOperate(admin) /\ users[admin].admin /\ ~users[u].exists
    /\ Begin(r, [op |-> "beta", user |-> u, step |-> "commit"])

BeginLimit(r, admin, u, limit) ==
    /\ MayOperate(admin) /\ users[admin].admin /\ users[u].limit # 0
    /\ Begin(r, [op |-> "limit", user |-> u, limit |-> limit, seen |-> users[u].limit,
                 step |-> "commit"])

BeginOnboard(r, u) ==
    /\ MayOperate(u) /\ SlotFree(u)
    /\ Begin(r, [op |-> "onboard", user |-> u, step |-> "commit"])

BeginCreate(r, u, tenant) ==
    /\ MayOperate(u) /\ TenantOwner(u, tenant) /\ SlotFree(u)
    /\ Begin(r, [op |-> "create", user |-> u, tenant |-> tenant, step |-> "commit"])

\* upsert_membership and delete_membership: only an owner manages members.
BeginMember(r, manager, c, u, op, role) ==
    /\ MayOperate(manager) /\ Allowed(manager, c, {"owner"})
    /\ IF op = "put" THEN users[u].exists ELSE Role(u, c) # None
    /\ Begin(r, [op |-> op, user |-> u, company |-> c, role |-> role, step |-> "commit",
                 seen |-> companies[c].members[u]])

-----------------------------------------------------------------------------
(* It writes what it computed *)

Ready(r, op) == requests[r].op = op /\ requests[r].step = "commit"
Done(r) == requests' = [requests EXCEPT ![r] = Idle]
Issuing(r) == requests' = [requests EXCEPT ![r].step = "issue"]

\* Requests that will write an account's version, or read it again.
Overlapping(r, u) ==
    \E q \in Requests \ {r} : /\ requests[q].op \in {"change", "reset", "login"}
                              /\ requests[q].user = u /\ requests[q].again

CommitLogin(r) ==
    /\ Ready(r, "login")
    /\ users' = [users EXCEPT ![requests[r].user].admin = TRUE]
    /\ Issuing(r)
    /\ UNCHANGED <<tokens, tenants, companies, changes, raced, top, begun>>

NewVersion_Same(req) == req.version           \* mutant
NewVersion(req) == req.version + 1

CommitChange(r) ==
    LET u == requests[r].user
    IN  /\ Ready(r, "change") \/ Ready(r, "reset")
        /\ users' = [users EXCEPT ![u].version = NewVersion(requests[r]),
                                  ![u].pending = IF requests[r].op = "change" THEN FALSE ELSE @,
                                  ![u].admin = @ \/ requests[r].op = "reset"]
        /\ changes' = [changes EXCEPT ![u] = @ + 1]
        /\ raced' = IF Overlapping(r, u) THEN raced \cup {u} ELSE raced
        /\ requests' = [requests EXCEPT ![r] =
               IF requests[r].op = "change"
               THEN [@ EXCEPT !.step = "issue", !.epoch = changes[u] + 1] ELSE Idle]
        /\ UNCHANGED <<tokens, tenants, companies, top, begun>>

\* create_access_token, from the row read again after a commit.
Issue(r) ==
    LET req == requests[r]
    IN  /\ req.op \in {"login", "change"} /\ req.step = "issue"
        /\ tokens' = tokens \cup
               {[user |-> req.user, epoch |-> req.epoch,
                 version |-> IF req.again THEN users[req.user].version ELSE req.version]}
        /\ Done(r)
        /\ UNCHANGED <<users, tenants, companies, changes, raced, top, begun>>

\* create_beta_access: the email is unique, a second account fails.
CommitBeta(r) ==
    LET u == requests[r].user
        new == ~users[u].exists
    IN  /\ Ready(r, "beta")
        /\ users' = IF new THEN [users EXCEPT ![u] = BetaAccount] ELSE users
        /\ top' = IF new THEN [top EXCEPT ![u] = 1] ELSE top
        /\ Done(r)
        /\ UNCHANGED <<tokens, tenants, companies, changes, raced, begun>>

\* A limit that was in force when it was read is not written again.
CommitLimit(r) ==
    LET req == requests[r]
    IN  /\ Ready(r, "limit")
        /\ users' = [users EXCEPT ![req.user].limit = IF req.limit = req.seen THEN @ ELSE req.limit]
        /\ top' = [top EXCEPT ![req.user] = IF req.limit > @ THEN req.limit ELSE @]
        /\ Done(r)
        /\ UNCHANGED <<tokens, tenants, companies, changes, raced, begun>>

\* kept: history, its creator's row has never been lowered nor deleted.
Company(tenant, u) ==
    [tenant |-> tenant, creator |-> u, kept |-> TRUE,
     members |-> [v \in Users |-> IF v = u THEN [row |-> 1, role |-> "owner"] ELSE NoRow]]

\* The TenantMembership that comes with a new tenant is never removed.
CommitOnboard(r) ==
    LET u == requests[r].user
    IN  /\ Ready(r, "onboard") /\ Len(companies) < MaxCompanies /\ Len(tenants) < MaxTenants
        /\ tenants' = Append(tenants, {u})
        /\ companies' = Append(companies, Company(Len(tenants) + 1, u))
        /\ Done(r)
        /\ UNCHANGED <<users, tokens, changes, raced, top, begun>>

CommitCreate(r) ==
    LET req == requests[r]
    IN  /\ Ready(r, "create") /\ Len(companies) < MaxCompanies
        /\ companies' = Append(companies, Company(req.tenant, req.user))
        /\ Done(r)
        /\ UNCHANGED <<users, tokens, tenants, changes, raced, top, begun>>

\* A row inserted meanwhile makes the insert fail; a row deleted meanwhile, the
\* update; a deletion of no row is a success. A role that was the member's when
\* it was read is not written again.
CommitMember(r) ==
    LET req == requests[r]
        now == companies[req.company].members[req.user]
        writes == IF req.seen.role = None THEN now.role = None
                  ELSE /\ now.role # None /\ now.row = req.seen.row
                       /\ req.role # req.seen.role
        written == IF req.op = "delete" THEN [now EXCEPT !.role = None]
                   ELSE [role |-> req.role,
                         row |-> IF req.seen.role = None THEN now.row + 1 ELSE now.row]
    IN  /\ Ready(r, "put") \/ Ready(r, "delete")
        /\ companies' = IF writes
                        THEN [companies EXCEPT
                                 ![req.company].members[req.user] = written,
                                 ![req.company].kept = @ /\ req.user # companies[req.company].creator]
                        ELSE companies
        /\ Done(r)
        /\ UNCHANGED <<users, tokens, tenants, changes, raced, top, begun>>

-----------------------------------------------------------------------------
BeginSome(r, u) ==
    \/ BeginLogin(r, u)
    \/ \E op \in {"change", "reset"} : BeginChange(r, u, op)
    \/ BeginOnboard(r, u)
    \/ \E tenant \in DOMAIN tenants : BeginCreate(r, u, tenant)
    \/ \E v \in Users :
          \/ BeginBeta(r, u, v)
          \/ \E limit \in Limits : BeginLimit(r, u, v, limit)
          \/ \E c \in DOMAIN companies :
                \/ \E role \in Grants : BeginMember(r, u, c, v, "put", role)
                \/ BeginMember(r, u, c, v, "delete", None)

Commit(r) ==
    \/ CommitLogin(r) \/ CommitChange(r) \/ CommitBeta(r) \/ CommitLimit(r)
    \/ CommitOnboard(r) \/ CommitCreate(r) \/ CommitMember(r)

Next == \E r \in Requests : (\E u \in Users : BeginSome(r, u)) \/ Commit(r) \/ Issue(r)

Spec == Init /\ [][Next]_vars

-----------------------------------------------------------------------------
(* Properties *)

TypeOK ==
    /\ users \in [Users -> [exists : BOOLEAN, admin : BOOLEAN, pending : BOOLEAN,
                            version : Nat, limit : Nat]]
    /\ tenants \in Seq(SUBSET Users)
    /\ companies \in Seq([tenant : Nat, creator : Users \cup {None}, kept : BOOLEAN,
           members : [Users -> [row : Nat, role : Roles \cup {None}]]])

Created(u) == {c \in DOMAIN companies : companies[c].creator = u}
GivenUp(u) == {c \in Created(u) : ~companies[c].kept}

\* A password change ends every session opened before it (change_password:
\* "revoca las sesiones anteriores del usuario"), unless changes of the account
\* have overlapped. A temporary password never operates: its account has
\* created no company.
SessionsEnd ==
    /\ \A t \in tokens : Authenticates(t) => t.epoch = changes[t.user] \/ t.user \in raced
    /\ \A u \in Users : users[u].pending => Created(u) = {}

\* The count of _require_available_company_slot before the insert is passed only
\* in two ways: by requests in flight besides the one that counted, and by an
\* owner who gives up the owner row of a company it created, after which that
\* company is no longer counted and its row may come back.
PlanHolds ==
    \A u \in Users :
        (users[u].limit # 0 /\ ~users[u].admin)
        => Cardinality(Created(u)) < top[u] + Cardinality(Requests) + Cardinality(GivenUp(u))

\* "la beta permite una empresa por acceso" (docs/beta-privada.md:48): an account
\* whose plan has never allowed more than one company does not own two of those
\* it created.
OneCompanyPerAccess ==
    \A u \in Users :
        (top[u] = 1 /\ ~users[u].admin) => Cardinality(Created(u) \cap Owned(u)) <= 1

=============================================================================
