---------------------------- MODULE TenancyProofs ----------------------------
(***************************************************************************)
(* Sessions end with the password they came from, and plans hold but for   *)
(* overlapping requests and rows given up, for any number of accounts,     *)
(* tenants, companies and requests, and whatever companies the migrations  *)
(* have left.                                                              *)
(*                                                                         *)
(* Neither is inductive: each speaks of the rows, and a request in flight  *)
(* carries what it read of them. The invariant says what every request may *)
(* rely on until it commits: the rows it refers to exist (Referenced), an  *)
(* account without overlapping changes has the version its requests have   *)
(* seen (VersionsKnown), and the companies an account has kept and those   *)
(* its requests are about to add are counted together (SlotsCounted).      *)
(***************************************************************************)
EXTENDS Tenancy, SequenceTheorems, FiniteSetTheorems, TLAPS

Row == [row : Nat, role : Roles \cup {None}]
CompanyRow == [tenant : Nat, creator : Users \cup {None}, kept : BOOLEAN,
               members : [Users -> Row]]

LoginReq == [op : {"login"}, user : Users, version : Nat, epoch : Nat,
             step : {"commit", "issue"}, again : BOOLEAN]
ChangeReq == [op : {"change", "reset"}, user : Users, version : Nat, epoch : Nat,
              step : {"commit", "issue"}, again : {TRUE}]
BetaReq == [op : {"beta"}, user : Users, step : {"commit"}]
LimitReq == [op : {"limit"}, user : Users, limit : Limits, seen : Nat, step : {"commit"}]
OnboardReq == [op : {"onboard"}, user : Users, step : {"commit"}]
CreateReq == [op : {"create"}, user : Users, tenant : Nat, step : {"commit"}]
MemberReq == [op : {"put", "delete"}, user : Users, company : Nat,
              role : Roles \cup {None}, step : {"commit"}, seen : Row]
Busy == LoginReq \cup ChangeReq \cup BetaReq \cup LimitReq \cup OnboardReq
            \cup CreateReq \cup MemberReq

Typed ==
    /\ TypeOK
    /\ tokens \subseteq [user : Users, epoch : Nat, version : Nat]
    /\ requests \in [Requests -> Busy \cup {Idle}]
    /\ changes \in [Users -> Nat]
    /\ raced \subseteq Users
    /\ top \in [Users -> Nat]
    /\ begun \in [changes : Nat, grants : Nat]

\* The rows a request or another row refers to exist, an account that has
\* created a company, or is about to, has changed its temporary password, and a
\* company kept by its creator has the creator's owner row.
Builds(q) == q.op \in {"onboard", "create"}
Operates(u) == users[u].exists /\ ~users[u].pending
Known(q) ==
    /\ q.op \in {"login", "change", "reset"} => users[q.user].exists
    /\ q.op = "limit" => users[q.user].limit # 0
    /\ Builds(q) => Operates(q.user)
    /\ q.op = "create" => q.tenant \in DOMAIN tenants
    /\ q.op \in {"put", "delete"} => q.company \in DOMAIN companies
Made(c) ==
    /\ companies[c].tenant \in DOMAIN tenants
    /\ companies[c].creator # None => Operates(companies[c].creator)
    /\ companies[c].kept => /\ companies[c].creator # None
                            /\ Role(companies[c].creator, c) = "owner"
Referenced ==
    /\ \A r \in Requests : Known(requests[r])
    /\ \A c \in DOMAIN companies : Made(c)
    /\ \A u \in Users : ~users[u].exists => users[u] = NoAccount

\* An account none of whose changes overlapped another has been changed as often
\* as its version says, and every request on it has read just that.
VersionSeen(q) ==
    (q.op \in {"login", "change", "reset"} /\ q.user \notin raced) =>
        /\ (q.op = "login" /\ ~q.again) => q.epoch = q.version
        /\ (q.op = "login" /\ q.again) => q.epoch = changes[q.user]
        /\ (q.op # "login" /\ q.step = "commit") => q.version = users[q.user].version
        /\ (q.op = "change" /\ q.step = "issue") => q.epoch = changes[q.user]
VersionsKnown ==
    /\ \A u \in Users \ raced : users[u].version = changes[u]
    /\ \A r \in Requests : VersionSeen(requests[r])
    /\ \A t \in tokens : t.user \notin raced => t.epoch = t.version

Building(u) == {r \in Requests : Builds(requests[r]) /\ requests[r].user = u}
Kept(u) == Created(u) \ GivenUp(u)
Planned(u) == users[u].limit # 0 /\ ~users[u].admin
SlotsCounted == \A u \in Users :
    /\ users[u].limit <= top[u]
    /\ Planned(u) => Cardinality(Kept(u)) + Cardinality(Building(u))
                        < top[u] + Cardinality(Requests)

-----------------------------------------------------------------------------
(* Requests *)

LEMMA Kinds ==
  ASSUME NEW q \in Busy \cup {Idle}
  PROVE  /\ q.op = "login" => q \in LoginReq
         /\ q.op \in {"change", "reset"} => q \in ChangeReq
         /\ q.op = "beta" => q \in BetaReq
         /\ q.op = "limit" => q \in LimitReq
         /\ q.op = "onboard" => q \in OnboardReq
         /\ q.op = "create" => q \in CreateReq
         /\ q.op \in {"put", "delete"} => q \in MemberReq
         /\ q = Idle <=> q.op = None
  <1> USE NoneAssumption DEF Busy, Idle
  <1>1. CASE q \in LoginReq
    <2>1. q.op \in {"login"}
      BY <1>1 DEF LoginReq
    <2> QED BY <1>1, <2>1
  <1>2. CASE q \in ChangeReq
    <2>1. q.op \in {"change", "reset"}
      BY <1>2 DEF ChangeReq
    <2> QED BY <1>2, <2>1
  <1>3. CASE q \in BetaReq
    <2>1. q.op \in {"beta"}
      BY <1>3 DEF BetaReq
    <2> QED BY <1>3, <2>1
  <1>4. CASE q \in LimitReq
    <2>1. q.op \in {"limit"}
      BY <1>4 DEF LimitReq
    <2> QED BY <1>4, <2>1
  <1>5. CASE q \in OnboardReq
    <2>1. q.op \in {"onboard"}
      BY <1>5 DEF OnboardReq
    <2> QED BY <1>5, <2>1
  <1>6. CASE q \in CreateReq
    <2>1. q.op \in {"create"}
      BY <1>6 DEF CreateReq
    <2> QED BY <1>6, <2>1
  <1>7. CASE q \in MemberReq
    <2>1. q.op \in {"put", "delete"}
      BY <1>7 DEF MemberReq
    <2> QED BY <1>7, <2>1
  <1>8. CASE q = Idle
    BY <1>8
  <1> QED BY <1>1, <1>2, <1>3, <1>4, <1>5, <1>6, <1>7, <1>8

LEMMA Users_Of ==
  ASSUME NEW q \in Busy
  PROVE  q.user \in Users
  BY DEF Busy, LoginReq, ChangeReq, BetaReq, LimitReq, OnboardReq, CreateReq, MemberReq

LEMMA Rows ==
  ASSUME Typed
  PROVE  /\ Len(companies) \in Nat /\ DOMAIN companies = 1..Len(companies)
         /\ Len(tenants) \in Nat /\ DOMAIN tenants = 1..Len(tenants)
         /\ \A c \in DOMAIN companies : companies[c] \in CompanyRow
         /\ \A c \in DOMAIN companies, u \in Users : companies[c].members[u] \in Row
         /\ \A c \in DOMAIN companies : companies[c].creator \in Users \cup {None}
  <1>1. companies \in Seq(CompanyRow) /\ tenants \in Seq(SUBSET Users)
    BY DEF Typed, TypeOK, CompanyRow, Row
  <1>2. \A c \in DOMAIN companies : companies[c] \in CompanyRow
    BY <1>1, ElementOfSeq, LenProperties
  <1> QED BY <1>1, <1>2, LenProperties DEF CompanyRow

\* What a request knows when it begins.
Fresh(q) ==
    /\ q \in Busy
    /\ Known(q)
    /\ q.op \in {"login", "change", "reset"} => q.version = users[q.user].version
    /\ q.op = "login" => q.epoch = changes[q.user]
    /\ q.op \in {"change", "reset"} => q.step = "commit"
    /\ Builds(q) => SlotFree(q.user)

LEMMA BeginFresh ==
  ASSUME Typed, NEW r \in Requests, NEW u \in Users, BeginSome(r, u)
  PROVE  \E q : Fresh(q) /\ Begin(r, q)
  <1>0. /\ \A c \in DOMAIN companies, v \in Users : c \in Nat /\ companies[c].members[v] \in Row
        /\ \A t \in DOMAIN tenants : t \in Nat
    BY Rows
  <1> USE DEF Typed, TypeOK, Fresh, Known, Builds, Operates, Busy
  <1>1. CASE BeginLogin(r, u)
    BY <1>1 DEF BeginLogin, LoginReq
  <1>2. ASSUME NEW op \in {"change", "reset"}, BeginChange(r, u, op)
        PROVE  \E q : Fresh(q) /\ Begin(r, q)
    BY <1>2 DEF BeginChange, ChangeReq, SignedIn, Authenticates
  <1>3. CASE BeginOnboard(r, u)
    BY <1>3 DEF BeginOnboard, OnboardReq, MayOperate, SignedIn, Authenticates
  <1>4. ASSUME NEW tenant \in DOMAIN tenants, BeginCreate(r, u, tenant)
        PROVE  \E q : Fresh(q) /\ Begin(r, q)
    <2>1. tenant \in Nat
      BY <1>0
    <2> QED BY <1>4, <2>1 DEF BeginCreate, CreateReq, MayOperate, SignedIn, Authenticates
  <1>5. ASSUME NEW v \in Users, BeginBeta(r, u, v)
        PROVE  \E q : Fresh(q) /\ Begin(r, q)
    BY <1>5 DEF BeginBeta, BetaReq
  <1>6. ASSUME NEW v \in Users, NEW limit \in Limits, BeginLimit(r, u, v, limit)
        PROVE  \E q : Fresh(q) /\ Begin(r, q)
    BY <1>6 DEF BeginLimit, LimitReq
  <1>7. ASSUME NEW v \in Users, NEW c \in DOMAIN companies, NEW op \in {"put", "delete"},
               NEW role \in Roles \cup {None}, BeginMember(r, u, c, v, op, role)
        PROVE  \E q : Fresh(q) /\ Begin(r, q)
    <2>1. c \in Nat /\ companies[c].members[v] \in Row
      BY <1>0
    <2> QED BY <1>7, <2>1 DEF BeginMember, MemberReq
  <1>8. Grants \subseteq Roles \cup {None}
    BY GrantsAssumption DEF Roles
  <1> QED BY <1>1, <1>2, <1>3, <1>4, <1>5, <1>6, <1>7, <1>8 DEF BeginSome

-----------------------------------------------------------------------------
(* Beginning *)

LEMMA SlotsFinite ==
  ASSUME Typed, NEW u \in Users
  PROVE  /\ IsFiniteSet(Owned(u)) /\ Cardinality(Owned(u)) \in Nat
         /\ IsFiniteSet(Created(u)) /\ GivenUp(u) \subseteq Created(u)
         /\ IsFiniteSet(Kept(u)) /\ Cardinality(Kept(u)) \in Nat
         /\ IsFiniteSet(Building(u)) /\ Cardinality(Building(u)) \in Nat
         /\ Cardinality(Requests) \in Nat
         /\ Cardinality(Building(u)) <= Cardinality(Requests)
  <1>1. IsFiniteSet(DOMAIN companies)
    <2>1. DOMAIN companies = 1..Len(companies) /\ Len(companies) \in Nat
      BY Rows
    <2>2. IsFiniteSet(1..Len(companies))
      BY <2>1, FS_Interval
    <2> QED BY <2>1, <2>2
  <1>2. /\ Owned(u) \subseteq DOMAIN companies /\ Created(u) \subseteq DOMAIN companies
        /\ Kept(u) \subseteq Created(u) /\ GivenUp(u) \subseteq Created(u)
    BY DEF Owned, Created, Kept, GivenUp
  <1>3. Building(u) \subseteq Requests
    BY DEF Building
  <1>4. /\ IsFiniteSet(Owned(u)) /\ IsFiniteSet(Created(u)) /\ IsFiniteSet(Kept(u))
        /\ IsFiniteSet(Building(u))
    BY <1>1, <1>2, <1>3, FS_Subset, RequestsAssumption
  <1> QED BY <1>2, <1>3, <1>4, FS_Subset, FS_CardinalityType, RequestsAssumption

\* The companies an account has kept are among those the plan's count sees.
LEMMA KeptAreCounted ==
  ASSUME Typed, Referenced, NEW u \in Users
  PROVE  Cardinality(Kept(u)) <= Cardinality(Owned(u))
  <1>1. Kept(u) \subseteq Owned(u)
    <2>1. \A c \in DOMAIN companies : companies[c].kept \in BOOLEAN
      BY Rows DEF CompanyRow
    <2> QED BY <2>1 DEF Kept, Created, GivenUp, Owned, Referenced, Made
  <1> QED BY <1>1, SlotsFinite, FS_Subset

LEMMA BeginKeeps ==
  ASSUME Typed, Referenced, VersionsKnown, SlotsCounted,
         NEW r \in Requests, NEW q, Fresh(q), Begin(r, q)
  PROVE  (Typed /\ Referenced /\ VersionsKnown /\ SlotsCounted)'
  <1>1. /\ requests' = [requests EXCEPT ![r] = q] /\ requests[r] = Idle
        /\ UNCHANGED <<users, tokens, tenants, companies, changes, raced, top>>
    BY DEF Begin
  <1>2. q \in Busy /\ q.user \in Users
    BY Users_Of DEF Fresh
  <1>3. Typed'
    <2>1. requests' \in [Requests -> Busy \cup {Idle}]
      BY <1>1, <1>2 DEF Typed
    <2>2. begun' \in [changes : Nat, grants : Nat]
      BY DEF Typed, Begin
    <2> QED BY <1>1, <2>1, <2>2 DEF Typed, TypeOK
  <1>4. \A x \in Requests : requests'[x] = IF x = r THEN q ELSE requests[x]
    BY <1>1 DEF Typed
  <1>5. Referenced'
    BY <1>1, <1>4 DEF Referenced, Made, Role, Known, Operates, Fresh, Builds
  <1>6. VersionsKnown'
    <2>1. VersionSeen(q)
      BY <1>2 DEF Fresh, VersionSeen, VersionsKnown
    <2> QED BY <1>1, <1>4, <2>1 DEF VersionsKnown, VersionSeen
  <1>7. SlotsCounted'
    <2> SUFFICES ASSUME NEW u \in Users
                 PROVE  /\ users[u].limit <= top[u]
                        /\ Planned(u) => Cardinality(Kept(u)) + Cardinality(Building(u)')
                                            < top[u] + Cardinality(Requests)
      BY <1>1 DEF SlotsCounted, Planned, Kept, Created, GivenUp
    <2>1. users[u].limit \in Nat /\ top[u] \in Nat
      BY DEF Typed, TypeOK
    <2>2. CASE Builds(q) /\ q.user = u
      <3>1. Cardinality(Building(u)') <= Cardinality(Requests)
            /\ Cardinality(Building(u)') \in Nat
        <4>1. Building(u)' \subseteq Requests
          BY DEF Building
        <4> QED BY <4>1, FS_Subset, FS_CardinalityType, RequestsAssumption
      <3>2. Planned(u) => Cardinality(Owned(u)) < users[u].limit
        BY <2>2 DEF Fresh, SlotFree, Planned
      <3> QED BY <2>1, <3>1, <3>2, SlotsFinite, KeptAreCounted DEF SlotsCounted
    <2>3. CASE ~(Builds(q) /\ q.user = u)
      <3>1. ~Builds(Idle)
        BY NoneAssumption DEF Builds, Idle
      <3>2. Building(u)' = Building(u)
        BY <1>1, <1>4, <2>3, <3>1 DEF Building, Builds
      <3> QED BY <3>2 DEF SlotsCounted
    <2> QED BY <2>2, <2>3
  <1> QED BY <1>3, <1>5, <1>6, <1>7

-----------------------------------------------------------------------------
(* Committing *)

\* Slots stay counted when nothing they count grows.
LEMMA SlotsShrink ==
  ASSUME Typed, SlotsCounted, NEW u \in Users,
         top'[u] \in Nat, users'[u].limit <= top'[u], top[u] <= top'[u],
         Planned(u)' => Planned(u),
         Kept(u)' \subseteq Kept(u), Building(u)' \subseteq Building(u)
  PROVE  /\ users'[u].limit <= top'[u]
         /\ Planned(u)' => Cardinality(Kept(u)') + Cardinality(Building(u)')
                              < top'[u] + Cardinality(Requests)
  <1>1. /\ Cardinality(Kept(u)') <= Cardinality(Kept(u))
        /\ Cardinality(Kept(u)') \in Nat /\ Cardinality(Kept(u)) \in Nat
        /\ Cardinality(Building(u)') <= Cardinality(Building(u))
        /\ Cardinality(Building(u)') \in Nat /\ Cardinality(Building(u)) \in Nat
        /\ Cardinality(Requests) \in Nat
    BY SlotsFinite, FS_Subset, FS_CardinalityType
  <1>2. top[u] \in Nat
    BY DEF Typed
  <1> QED BY <1>1, <1>2 DEF SlotsCounted

\* A request that has committed leaves the others as they were.
LEMMA DoneKeeps ==
  ASSUME Typed, NEW r \in Requests, Done(r)
  PROVE  /\ requests' \in [Requests -> Busy \cup {Idle}]
         /\ requests'[r] = Idle
         /\ \A x \in Requests \ {r} : requests'[x] = requests[x]
         /\ \A u : Building(u)' = Building(u) \ {r}
  <1>1. requests' = [requests EXCEPT ![r] = Idle]
    BY DEF Done
  <1>2. ~Builds(Idle)
    BY NoneAssumption DEF Builds, Idle
  <1> QED BY <1>1, <1>2 DEF Typed, Building, Builds

LEMMA LoginKeeps ==
  ASSUME Typed, Referenced, VersionsKnown, SlotsCounted,
         NEW r \in Requests, CommitLogin(r)
  PROVE  (Typed /\ Referenced /\ VersionsKnown /\ SlotsCounted)'
  <1> DEFINE u == requests[r].user
  <1>1. requests[r] \in LoginReq /\ requests[r].op = "login" /\ u \in Users
    <2>1. requests[r] \in Busy \cup {Idle} /\ requests[r].op = "login"
      BY DEF Typed, CommitLogin, Ready
    <2>2. requests[r] \in LoginReq
      BY <2>1, Kinds
    <2> QED BY <2>1, <2>2 DEF LoginReq
  <1>2. /\ users' = [users EXCEPT ![u].admin = TRUE]
        /\ requests' = [requests EXCEPT ![r].step = "issue"]
        /\ UNCHANGED <<tokens, tenants, companies, changes, raced, top, begun>>
    BY DEF CommitLogin, Issuing
  <1>3. /\ requests'[r] \in LoginReq
        /\ requests'[r] = [requests[r] EXCEPT !.step = "issue"]
        /\ \A x \in Requests \ {r} : requests'[x] = requests[x]
    BY <1>1, <1>2 DEF Typed, LoginReq
  <1>4. /\ requests'[r].op = "login" /\ requests'[r].user = u
        /\ requests'[r].version = requests[r].version
        /\ requests'[r].epoch = requests[r].epoch /\ requests'[r].again = requests[r].again
    BY <1>1, <1>3 DEF LoginReq
  <1>5. \A v \in Users : users'[v] = IF v = u THEN [users[v] EXCEPT !.admin = TRUE] ELSE users[v]
    BY <1>1, <1>2 DEF Typed, TypeOK
  <1>6. ASSUME NEW v \in Users
        PROVE  /\ users'[v].exists = users[v].exists
               /\ users'[v].pending = users[v].pending
               /\ users'[v].version = users[v].version
               /\ users'[v].limit = users[v].limit
               /\ ~users'[v].admin => ~users[v].admin
    <2>1. users[v] \in [exists : BOOLEAN, admin : BOOLEAN, pending : BOOLEAN,
                        version : Nat, limit : Nat]
      BY DEF Typed, TypeOK
    <2>2. users'[v] = users[v] \/ users'[v] = [users[v] EXCEPT !.admin = TRUE]
      BY <1>5
    <2> QED BY <2>1, <2>2
  <1>7. Typed'
    <2>1. users' \in [Users -> [exists : BOOLEAN, admin : BOOLEAN, pending : BOOLEAN,
                               version : Nat, limit : Nat]]
      BY <1>1, <1>2 DEF Typed, TypeOK
    <2>2. requests' \in [Requests -> Busy \cup {Idle}]
      BY <1>2, <1>3 DEF Typed, Busy
    <2> QED BY <1>2, <2>1, <2>2 DEF Typed, TypeOK
  <1>8. Referenced'
    <2>1. ASSUME NEW v \in Users, ~users'[v].exists
          PROVE  users'[v] = NoAccount
      <3>1. users[u].exists
        BY <1>1 DEF Referenced, Known
      <3> QED BY <1>5, <1>6, <2>1, <3>1 DEF Referenced
    <2>2. \A x \in Requests : Known(requests[x])'
      <3>1. \A x \in Requests : requests[x] = Idle \/ requests[x].user \in Users
        BY Users_Of DEF Typed
      <3>2. Known(requests[r])'
        BY <1>1, <1>4, <1>6 DEF Referenced, Known, Builds
      <3>3. ASSUME NEW x \in Requests \ {r} PROVE Known(requests[x])'
        <4>1. CASE requests[x] = Idle
          BY <1>3, <4>1, NoneAssumption DEF Known, Builds, Idle
        <4>2. CASE requests[x].user \in Users
          BY <1>2, <1>3, <1>6, <4>2 DEF Referenced, Known, Builds, Operates
        <4> QED BY <3>1, <4>1, <4>2
      <3> QED BY <3>2, <3>3
    <2>3. \A c \in DOMAIN companies : Made(c)'
      BY <1>2, <1>6, Rows DEF Referenced, Made, Operates, Role
    <2> QED BY <1>2, <2>1, <2>2, <2>3 DEF Referenced
  <1>9. VersionsKnown'
    BY <1>1, <1>2, <1>3, <1>4, <1>6, Users_Of DEF VersionsKnown, VersionSeen
  <1>10. SlotsCounted'
    <2>1. \A v \in Users : Building(v)' = Building(v) /\ Kept(v)' = Kept(v)
      BY <1>1, <1>2, <1>3, <1>4 DEF Building, Builds, Kept, Created, GivenUp
    <2>2. ASSUME NEW v \in Users
          PROVE  /\ users'[v].limit <= top'[v]
                 /\ Planned(v)' => Cardinality(Kept(v)') + Cardinality(Building(v)')
                                      < top'[v] + Cardinality(Requests)
      <3>1. (Planned(v)' => Planned(v)) /\ users[v].limit <= top[v] /\ top[v] \in Nat
        BY <1>6 DEF Planned, SlotsCounted, Typed
      <3> QED BY <1>2, <1>6, <2>1, <3>1 DEF SlotsCounted
    <2> QED BY <2>2 DEF SlotsCounted
  <1> QED BY <1>7, <1>8, <1>9, <1>10

\* What a request refers to stays while accounts keep what they have.
Grows ==
    /\ \A v \in Users : /\ users[v].exists => users'[v].exists
                        /\ Operates(v) => Operates(v)'
                        /\ users[v].limit # 0 => users'[v].limit # 0
    /\ DOMAIN tenants \subseteq DOMAIN tenants'
    /\ DOMAIN companies \subseteq DOMAIN companies'

LEMMA KnownStays ==
  ASSUME Grows, NEW q \in Busy \cup {Idle}, Known(q)
  PROVE  Known(q)'
  <1>1. CASE q = Idle
    BY <1>1, NoneAssumption DEF Known, Builds, Idle
  <1>2. CASE q.user \in Users
    BY <1>2 DEF Grows, Known, Builds
  <1> QED BY <1>1, <1>2, Users_Of

LEMMA ChangeKeeps ==
  ASSUME Typed, Referenced, VersionsKnown, SlotsCounted,
         NEW r \in Requests, CommitChange(r)
  PROVE  (Typed /\ Referenced /\ VersionsKnown /\ SlotsCounted)'
  <1> DEFINE u == requests[r].user
             done == [requests[r] EXCEPT !.step = "issue", !.epoch = changes[u] + 1]
  <1>1. /\ requests[r] \in ChangeReq /\ requests[r].op \in {"change", "reset"}
        /\ requests[r].step = "commit" /\ u \in Users /\ requests[r].version \in Nat
    <2>1. /\ requests[r] \in Busy \cup {Idle} /\ requests[r].op \in {"change", "reset"}
          /\ requests[r].step = "commit"
      BY DEF Typed, CommitChange, Ready
    <2>2. requests[r] \in ChangeReq
      BY <2>1, Kinds
    <2> QED BY <2>1, <2>2 DEF ChangeReq
  <1>2. /\ users' = [users EXCEPT ![u].version = requests[r].version + 1,
                                  ![u].pending = IF requests[r].op = "change" THEN FALSE ELSE @,
                                  ![u].admin = @ \/ requests[r].op = "reset"]
        /\ changes' = [changes EXCEPT ![u] = @ + 1]
        /\ raced' = IF Overlapping(r, u) THEN raced \cup {u} ELSE raced
        /\ requests' = [requests EXCEPT ![r] = IF requests[r].op = "change" THEN done ELSE Idle]
        /\ UNCHANGED <<tokens, tenants, companies, top, begun>>
    BY DEF CommitChange, NewVersion
  <1>3. /\ requests'[r] = (IF requests[r].op = "change" THEN done ELSE Idle)
        /\ \A x \in Requests \ {r} : requests'[x] = requests[x]
    BY <1>2 DEF Typed
  <1>4. /\ done \in ChangeReq /\ done.op = requests[r].op /\ done.user = u
        /\ done.step = "issue" /\ done.epoch = changes[u] + 1
    <2>1. changes[u] + 1 \in Nat
      BY <1>1 DEF Typed
    <2> QED BY <1>1, <2>1 DEF ChangeReq
  <1>5. \A v \in Users : users'[v] = IF v = u THEN users'[u] ELSE users[v]
    BY <1>1, <1>2 DEF Typed, TypeOK
  <1>6. /\ users'[u].exists = users[u].exists
        /\ users[u].pending = FALSE => users'[u].pending = FALSE
        /\ users'[u].version = requests[r].version + 1
        /\ users'[u].limit = users[u].limit
        /\ users[u].admin => users'[u].admin
    BY <1>1, <1>2 DEF Typed, TypeOK
  <1>7. Typed'
    <2>1. users' \in [Users -> [exists : BOOLEAN, admin : BOOLEAN, pending : BOOLEAN,
                               version : Nat, limit : Nat]]
      <3>1. /\ (requests[r].version + 1) \in Nat
            /\ (IF requests[r].op = "change" THEN FALSE ELSE users[u].pending) \in BOOLEAN
        <4>1. users[u].pending \in BOOLEAN
          BY <1>1 DEF Typed, TypeOK
        <4>2. (requests[r].version + 1) \in Nat
          BY <1>1
        <4> QED BY <4>1, <4>2
      <3>2. (users[u].admin \/ requests[r].op = "reset") \in BOOLEAN
        OBVIOUS
      <3> DEFINE version == requests[r].version + 1
                 pending == IF requests[r].op = "change" THEN FALSE ELSE users[u].pending
                 admin == users[u].admin \/ requests[r].op = "reset"
      <3>3. users' = [users EXCEPT ![u] = [@ EXCEPT !.version = version, !.pending = pending,
                                                    !.admin = admin]]
        BY <1>1, <1>2 DEF Typed, TypeOK
      <3>4. version \in Nat /\ pending \in BOOLEAN /\ admin \in BOOLEAN
        BY <3>1, <3>2
      <3> HIDE DEF version, pending, admin
      <3> QED BY <1>1, <3>3, <3>4 DEF Typed, TypeOK
    <2>2. requests' \in [Requests -> Busy \cup {Idle}]
      BY <1>2, <1>4 DEF Typed, Busy
    <2>3. changes' \in [Users -> Nat] /\ raced' \subseteq Users
      BY <1>1, <1>2 DEF Typed
    <2> QED BY <1>2, <2>1, <2>2, <2>3 DEF Typed, TypeOK
  <1>8. users[u].exists
    BY <1>1 DEF Referenced, Known
  <1>9. Grows
    <2>1. users[u].pending \in BOOLEAN
      BY <1>1 DEF Typed, TypeOK
    <2> QED BY <1>1, <1>2, <1>5, <1>6, <2>1 DEF Grows, Operates
  <1>10. Referenced'
    <2>1. ASSUME NEW v \in Users, ~users'[v].exists
          PROVE  users'[v] = NoAccount
      BY <1>5, <1>6, <1>8, <2>1 DEF Referenced
    <2>2. \A x \in Requests : Known(requests[x])'
      <3>1. Known(requests[r])'
        <4>1. CASE requests[r].op = "change"
          BY <1>3, <1>4, <1>6, <1>8, <4>1 DEF Known, Builds
        <4>2. CASE requests[r].op # "change"
          BY <1>3, <4>2, NoneAssumption DEF Known, Builds, Idle
        <4> QED BY <4>1, <4>2
      <3>2. ASSUME NEW x \in Requests \ {r} PROVE Known(requests[x])'
        <4>1. Known(requests[x]) /\ requests[x] \in Busy \cup {Idle}
          BY DEF Referenced, Typed
        <4> SUFFICES ASSUME NEW q, q = requests[x]
                     PROVE  Known(requests[x])'
          OBVIOUS
        <4>2. Known(q)'
          BY <1>9, <4>1, KnownStays
        <4>3. requests'[x] = q
          BY <1>3
        <4> QED BY <4>2, <4>3 DEF Known, Builds, Operates
      <3> QED BY <3>1, <3>2
    <2>3. \A c \in DOMAIN companies : Made(c)'
      BY <1>2, <1>9, Rows DEF Referenced, Made, Grows, Operates, Role
    <2> QED BY <1>2, <2>1, <2>2, <2>3 DEF Referenced
  <1>11. VersionsKnown'
    <2>1. \A v \in Users \ raced' : users'[v].version = changes'[v]
      <3>1. \A v \in Users : changes'[v] = IF v = u THEN changes[u] + 1 ELSE changes[v]
        BY <1>2 DEF Typed
      <3>2. raced \subseteq raced'
        BY <1>2
      <3>3. u \notin raced => requests[r].version = users[u].version
        BY <1>1 DEF VersionsKnown, VersionSeen
      <3> QED BY <1>1, <1>5, <1>6, <3>1, <3>2, <3>3 DEF VersionsKnown
    <2>2. VersionSeen(requests[r])'
      <3>1. CASE requests[r].op = "change"
        BY <1>1, <1>2, <1>3, <1>4, <3>1 DEF VersionSeen, Typed
      <3>2. CASE requests[r].op # "change"
        BY <1>3, <3>2, NoneAssumption DEF VersionSeen, Idle
      <3> QED BY <3>1, <3>2
    <2>3. ASSUME NEW x \in Requests \ {r} PROVE VersionSeen(requests[x])'
      <3>1. requests'[x] = requests[x] /\ VersionSeen(requests[x])
        BY <1>3 DEF VersionsKnown
      <3>2. CASE requests[x].op \in {"login", "change", "reset"} /\ requests[x].user = u
                 /\ requests[x].again
        BY <1>2, <3>1, <3>2, <1>1 DEF Overlapping, VersionSeen
      <3>3. CASE requests[x].op \in {"login", "change", "reset"} /\ requests[x].user = u
                 /\ ~requests[x].again
        <4>1. requests[x].op = "login"
          <5>1. requests[x] \in Busy \cup {Idle}
            BY DEF Typed
          <5> QED BY <3>3, <5>1, Kinds DEF ChangeReq
        <4> QED BY <1>2, <3>1, <3>3, <4>1 DEF VersionSeen
      <3>4. CASE requests[x].op \in {"login", "change", "reset"} /\ requests[x].user # u
        <4>1. requests[x].user \in Users
          BY <3>4, Users_Of, NoneAssumption DEF Typed, Idle
        <4> QED BY <1>2, <1>5, <3>1, <3>4, <4>1 DEF VersionSeen, Typed
      <3>5. CASE requests[x].op \notin {"login", "change", "reset"}
        BY <3>1, <3>5 DEF VersionSeen
      <3> QED BY <3>2, <3>3, <3>4, <3>5
    <2> QED BY <1>2, <2>1, <2>2, <2>3 DEF VersionsKnown
  <1>12. SlotsCounted'
    <2>1. \A v \in Users : Building(v)' \subseteq Building(v) /\ Kept(v)' = Kept(v)
      <3>1. ~Builds(requests'[r])
        BY <1>1, <1>3, <1>4, NoneAssumption DEF Builds, Idle
      <3>2. \A v \in Users : Building(v)' \subseteq Building(v)
        BY <1>3, <3>1 DEF Building, Builds
      <3> QED BY <1>2, <3>2 DEF Kept, Created, GivenUp
    <2>2. \A v \in Users : /\ users'[v].limit = users[v].limit /\ top'[v] = top[v]
                           /\ Planned(v)' => Planned(v)
                           /\ top[v] \in Nat /\ users[v].limit \in Nat
      BY <1>2, <1>5, <1>6 DEF Planned, Typed, TypeOK
    <2>3. \A v \in Users : users[v].limit <= top[v]
      BY DEF SlotsCounted
    <2> QED BY <2>1, <2>2, <2>3, SlotsShrink DEF SlotsCounted
  <1> QED BY <1>7, <1>10, <1>11, <1>12

LEMMA IssueKeeps ==
  ASSUME Typed, Referenced, VersionsKnown, SlotsCounted,
         NEW r \in Requests, Issue(r)
  PROVE  (Typed /\ Referenced /\ VersionsKnown /\ SlotsCounted)'
  <1> DEFINE q == requests[r]
             version == IF q.again THEN users[q.user].version ELSE q.version
             token == [user |-> q.user, epoch |-> q.epoch, version |-> version]
  <1>1. /\ q \in LoginReq \cup ChangeReq /\ q.op \in {"login", "change"} /\ q.step = "issue"
        /\ q.op = "login" => q \in LoginReq
        /\ q.op = "change" => q.again = TRUE
    <2>1. q \in Busy \cup {Idle} /\ q.op \in {"login", "change"} /\ q.step = "issue"
      BY DEF Typed, Issue
    <2>2. q.op = "login" => q \in LoginReq
      BY <2>1, Kinds
    <2>3. q.op = "change" => q \in ChangeReq
      BY <2>1, Kinds
    <2> QED BY <2>1, <2>2, <2>3 DEF ChangeReq
  <1>2. q.user \in Users /\ q.epoch \in Nat /\ q.version \in Nat /\ q.again \in BOOLEAN
    BY <1>1 DEF LoginReq, ChangeReq
  <1>3. version \in Nat
    BY <1>2 DEF Typed, TypeOK
  <1>4. /\ tokens' = tokens \cup {token} /\ Done(r)
        /\ UNCHANGED <<users, tenants, companies, changes, raced, top, begun>>
    BY DEF Issue
  <1>5. Typed'
    <2>1. token \in [user : Users, epoch : Nat, version : Nat]
      BY <1>2, <1>3
    <2> QED BY <1>4, <2>1, DoneKeeps DEF Typed, TypeOK
  <1>6. Referenced'
    BY <1>4, DoneKeeps, NoneAssumption DEF Referenced, Made, Role, Known, Operates, Builds, Idle
  <1>7. VersionsKnown'
    <2>1. q.user \notin raced => q.epoch = version
      BY <1>1, <1>2 DEF VersionsKnown, VersionSeen
    <2>2. \A t \in tokens' : t.user \notin raced' => t.epoch = t.version
      <3>1. token.user = q.user /\ token.epoch = q.epoch /\ token.version = version
        OBVIOUS
      <3> HIDE DEF token, version
      <3> QED BY <1>4, <2>1, <3>1 DEF VersionsKnown
    <2>3. \A x \in Requests : VersionSeen(requests[x])'
      BY <1>4, DoneKeeps, NoneAssumption DEF VersionsKnown, VersionSeen, Idle
    <2> QED BY <1>4, <2>2, <2>3 DEF VersionsKnown
  <1>8. SlotsCounted'
    <2>1. \A v \in Users : /\ Building(v)' \subseteq Building(v) /\ Kept(v)' = Kept(v)
                           /\ users'[v].limit = users[v].limit /\ top'[v] = top[v]
                           /\ Planned(v)' => Planned(v)
                           /\ top[v] \in Nat /\ users[v].limit \in Nat
      BY <1>4, DoneKeeps DEF Planned, Kept, Created, GivenUp, Typed, TypeOK
    <2>2. \A v \in Users : users[v].limit <= top[v]
      BY DEF SlotsCounted
    <2> QED BY <2>1, <2>2, SlotsShrink DEF SlotsCounted
  <1> QED BY <1>5, <1>6, <1>7, <1>8

\* An account nobody refers to has been changed by nobody and has built nothing.
LEMMA BetaKeeps ==
  ASSUME Typed, Referenced, VersionsKnown, SlotsCounted,
         NEW r \in Requests, CommitBeta(r)
  PROVE  (Typed /\ Referenced /\ VersionsKnown /\ SlotsCounted)'
  <1> DEFINE u == requests[r].user
  <1>1. u \in Users /\ requests[r].op = "beta"
    <2>1. requests[r] \in Busy \cup {Idle} /\ requests[r].op = "beta"
      BY DEF Typed, CommitBeta, Ready
    <2> QED BY <2>1, Users_Of, NoneAssumption DEF Idle
  <1>2. /\ Done(r) /\ UNCHANGED <<tokens, tenants, companies, changes, raced, begun>>
        /\ users[u].exists => UNCHANGED <<users, top>>
        /\ ~users[u].exists => /\ users' = [users EXCEPT ![u] = BetaAccount]
                               /\ top' = [top EXCEPT ![u] = 1]
    BY DEF CommitBeta
  <1>3. /\ BetaAccount.exists /\ BetaAccount.version = 0 /\ BetaAccount.limit = 1
        /\ BetaAccount \in [exists : BOOLEAN, admin : BOOLEAN, pending : BOOLEAN,
                            version : Nat, limit : Nat]
        /\ ~NoAccount.exists /\ NoAccount.version = 0 /\ NoAccount.limit = 0
    BY DEF BetaAccount, NoAccount, Account
  <1>4. \A v \in Users : \/ users'[v] = users[v] /\ top'[v] = top[v]
                         \/ /\ v = u /\ users[v] = NoAccount /\ ~users[v].exists
                            /\ users'[v] = BetaAccount /\ top'[v] = 1
    BY <1>1, <1>2 DEF Typed, TypeOK, Referenced
  <1>5. Typed'
    <2>1. users' \in [Users -> [exists : BOOLEAN, admin : BOOLEAN, pending : BOOLEAN,
                               version : Nat, limit : Nat]]
      BY <1>1, <1>2, <1>3 DEF Typed, TypeOK
    <2>2. top' \in [Users -> Nat]
      BY <1>1, <1>2 DEF Typed
    <2> QED BY <1>2, <2>1, <2>2, DoneKeeps DEF Typed, TypeOK
  <1>6. Grows
    BY <1>2, <1>3, <1>4 DEF Grows, Operates
  <1>7. \A x \in Requests : /\ requests[x] \in Busy \cup {Idle} /\ Known(requests[x])
                            /\ requests'[x] = IF x = r THEN Idle ELSE requests[x]
    BY DoneKeeps, <1>2 DEF Typed, Referenced
  <1>8. Referenced'
    <2>1. ASSUME NEW x \in Requests PROVE Known(requests[x])'
      <3> SUFFICES ASSUME NEW q, q = requests[x]
                   PROVE  Known(requests[x])'
        OBVIOUS
      <3>1. CASE x = r
        BY <1>7, <3>1, NoneAssumption DEF Known, Builds, Idle
      <3>2. CASE x # r
        <4>1. Known(q)'
          BY <1>6, <1>7, KnownStays
        <4> QED BY <1>7, <3>2, <4>1 DEF Known, Builds, Operates
      <3> QED BY <3>1, <3>2
    <2>2. \A v \in Users : ~users'[v].exists => users'[v] = NoAccount
      BY <1>3, <1>4 DEF Referenced
    <2>3. \A c \in DOMAIN companies : Made(c)'
      BY <1>6, <1>2, Rows DEF Referenced, Made, Grows, Operates, Role
    <2> QED BY <1>2, <2>1, <2>2, <2>3 DEF Referenced
  <1>9. VersionsKnown'
    <2>1. \A v \in Users : users'[v].version = users[v].version
      BY <1>3, <1>4
    <2>2. \A x \in Requests : VersionSeen(requests[x])'
      BY <1>2, <1>7, <2>1, Users_Of, NoneAssumption DEF VersionsKnown, VersionSeen, Idle
    <2> QED BY <1>2, <2>1, <2>2 DEF VersionsKnown
  <1>10. SlotsCounted'
    <2> SUFFICES ASSUME NEW v \in Users
                 PROVE  /\ users'[v].limit <= top'[v]
                        /\ Planned(v)' => Cardinality(Kept(v)') + Cardinality(Building(v)')
                                            < top'[v] + Cardinality(Requests)
      BY DEF SlotsCounted
    <2>1. Building(v)' \subseteq Building(v) /\ Kept(v)' = Kept(v)
      BY <1>2, DoneKeeps DEF Kept, Created, GivenUp
    <2>2. CASE users'[v] = users[v] /\ top'[v] = top[v]
      <3>1. Planned(v)' => Planned(v)
        BY <2>2 DEF Planned
      <3>2. top[v] \in Nat /\ users[v].limit \in Nat /\ users[v].limit <= top[v]
        BY DEF Typed, TypeOK, SlotsCounted
      <3> QED BY <2>1, <2>2, <3>1, <3>2, SlotsShrink
    <2>3. CASE ~users[v].exists /\ users'[v] = BetaAccount /\ top'[v] = 1
      <3>1. Kept(v) = {}
        BY <2>3, NoneAssumption DEF Kept, Created, Referenced, Made, Operates
      <3>2. Building(v) = {}
        BY <2>3 DEF Building, Referenced, Known, Operates
      <3>3. Cardinality(Kept(v)') = 0 /\ Cardinality(Building(v)') = 0
        <4>1. Kept(v)' = {} /\ Building(v)' = {}
          BY <2>1, <3>1, <3>2
        <4> QED BY <4>1, FS_EmptySet
      <3> QED BY <1>3, <2>3, <3>3, SlotsFinite
    <2> QED BY <1>4, <2>2, <2>3
  <1> QED BY <1>5, <1>8, <1>9, <1>10

LEMMA LimitKeeps ==
  ASSUME Typed, Referenced, VersionsKnown, SlotsCounted,
         NEW r \in Requests, CommitLimit(r)
  PROVE  (Typed /\ Referenced /\ VersionsKnown /\ SlotsCounted)'
  <1> DEFINE u == requests[r].user
             limit == IF requests[r].limit = requests[r].seen
                      THEN users[u].limit ELSE requests[r].limit
             most == IF requests[r].limit > top[u] THEN requests[r].limit ELSE top[u]
  <1>1. /\ u \in Users /\ requests[r].op = "limit" /\ users[u].limit # 0 /\ users[u].exists
        /\ requests[r].limit \in Nat \ {0}
    <2>1. requests[r] \in Busy \cup {Idle} /\ requests[r].op = "limit"
      BY DEF Typed, CommitLimit, Ready
    <2>2. requests[r] \in LimitReq
      BY <2>1, Kinds
    <2>3. users[requests[r].user].limit # 0
      BY <2>1 DEF Referenced, Known
    <2>4. NoAccount.limit = 0
      BY DEF NoAccount, Account
    <2> QED BY <2>1, <2>2, <2>3, <2>4, LimitsAssumption DEF LimitReq, Referenced
  <1>2. /\ users[u].limit \in Nat /\ top[u] \in Nat /\ users[u].limit <= top[u]
    BY <1>1 DEF Typed, TypeOK, SlotsCounted
  <1>3. /\ limit \in Nat \ {0} /\ most \in Nat /\ limit <= most /\ top[u] <= most
    BY <1>1, <1>2
  <1>4. /\ users' = [users EXCEPT ![u].limit = limit]
        /\ top' = [top EXCEPT ![u] = most]
        /\ Done(r) /\ UNCHANGED <<tokens, tenants, companies, changes, raced, begun>>
    BY DEF CommitLimit
  <1> HIDE DEF limit, most
  <1>5. \A v \in Users : /\ users'[v] = IF v = u THEN [users[u] EXCEPT !.limit = limit] ELSE users[v]
                         /\ top'[v] = IF v = u THEN most ELSE top[v]
    BY <1>1, <1>4 DEF Typed, TypeOK
  <1>6. ASSUME NEW v \in Users
        PROVE  /\ users'[v].exists = users[v].exists
               /\ users'[v].pending = users[v].pending
               /\ users'[v].version = users[v].version
               /\ users'[v].admin = users[v].admin
               /\ users[v].limit # 0 => users'[v].limit # 0
               /\ users'[v].limit # 0 => users[v].limit # 0
    <2>1. CASE v = u
      <3>1. users[u] \in [exists : BOOLEAN, admin : BOOLEAN, pending : BOOLEAN,
                          version : Nat, limit : Nat]
        BY <1>1 DEF Typed, TypeOK
      <3>2. users'[v] = [users[u] EXCEPT !.limit = limit]
        BY <1>1, <1>5, <2>1
      <3> QED BY <1>1, <1>3, <2>1, <3>1, <3>2
    <2>2. CASE v # u
      BY <1>5, <2>2
    <2> QED BY <2>1, <2>2
  <1>7. Typed'
    <2>1. users' \in [Users -> [exists : BOOLEAN, admin : BOOLEAN, pending : BOOLEAN,
                               version : Nat, limit : Nat]]
      <3> DEFINE new == [users[u] EXCEPT !.limit = limit]
      <3>1. new \in [exists : BOOLEAN, admin : BOOLEAN, pending : BOOLEAN,
                     version : Nat, limit : Nat]
        <4>1. users[u] \in [exists : BOOLEAN, admin : BOOLEAN, pending : BOOLEAN,
                            version : Nat, limit : Nat]
          BY <1>1 DEF Typed, TypeOK
        <4> QED BY <1>3, <4>1
      <3>2. users' = [users EXCEPT ![u] = new]
        BY <1>4
      <3> HIDE DEF new
      <3> QED BY <1>1, <3>1, <3>2 DEF Typed, TypeOK
    <2>2. top' \in [Users -> Nat]
      BY <1>1, <1>3, <1>4 DEF Typed
    <2> QED BY <1>4, <2>1, <2>2, DoneKeeps DEF Typed, TypeOK
  <1>8. Grows
    BY <1>4, <1>6 DEF Grows, Operates
  <1>9. \A x \in Requests : /\ requests[x] \in Busy \cup {Idle} /\ Known(requests[x])
                            /\ requests'[x] = IF x = r THEN Idle ELSE requests[x]
    BY DoneKeeps, <1>4 DEF Typed, Referenced
  <1>10. Referenced'
    <2>1. ASSUME NEW x \in Requests PROVE Known(requests[x])'
      <3> SUFFICES ASSUME NEW q, q = requests[x]
                   PROVE  Known(requests[x])'
        OBVIOUS
      <3>1. CASE x = r
        BY <1>9, <3>1, NoneAssumption DEF Known, Builds, Idle
      <3>2. CASE x # r
        <4>1. Known(q)'
          BY <1>8, <1>9, KnownStays
        <4> QED BY <1>9, <3>2, <4>1 DEF Known, Builds, Operates
      <3> QED BY <3>1, <3>2
    <2>2. \A v \in Users : ~users'[v].exists => users'[v] = NoAccount
      BY <1>1, <1>5, <1>6 DEF Referenced
    <2>3. \A c \in DOMAIN companies : Made(c)'
      BY <1>8, <1>4, Rows DEF Referenced, Made, Grows, Operates, Role
    <2> QED BY <1>4, <2>1, <2>2, <2>3 DEF Referenced
  <1>11. VersionsKnown'
    <2>1. \A x \in Requests : VersionSeen(requests[x])'
      BY <1>4, <1>6, <1>9, Users_Of, NoneAssumption DEF VersionsKnown, VersionSeen, Idle
    <2> QED BY <1>4, <1>6, <2>1 DEF VersionsKnown
  <1>12. SlotsCounted'
    <2>1. \A v \in Users : /\ Building(v)' \subseteq Building(v) /\ Kept(v)' = Kept(v)
                           /\ Planned(v)' => Planned(v)
      BY <1>4, <1>6, DoneKeeps DEF Planned, Kept, Created, GivenUp
    <2>2. \A v \in Users : top'[v] \in Nat /\ users'[v].limit <= top'[v] /\ top[v] <= top'[v]
      <3>1. \A v \in Users : top[v] \in Nat /\ users[v].limit <= top[v]
        BY DEF SlotsCounted, Typed
      <3>2. users'[u].limit = limit
        BY <1>1, <1>5 DEF Typed, TypeOK
      <3> QED BY <1>3, <1>5, <3>1, <3>2
    <2> QED BY <2>1, <2>2, SlotsShrink DEF SlotsCounted
  <1> QED BY <1>7, <1>10, <1>11, <1>12

\* What the commits that write companies have in common.
LEMMA CompaniesKeep ==
  ASSUME Typed, Referenced, VersionsKnown, NEW r \in Requests, Done(r),
         UNCHANGED <<users, tokens, changes, raced, top, begun>>,
         tenants' \in Seq(SUBSET Users), companies' \in Seq(CompanyRow),
         DOMAIN tenants \subseteq DOMAIN tenants',
         DOMAIN companies \subseteq DOMAIN companies'
  PROVE  /\ Typed' /\ VersionsKnown'
         /\ \A x \in Requests : Known(requests[x])'
         /\ \A v \in Users : ~users'[v].exists => users'[v] = NoAccount
  <1>1. Typed'
    BY DoneKeeps DEF Typed, TypeOK, CompanyRow, Row
  <1>2. Grows
    BY DEF Grows, Operates
  <1>3. \A x \in Requests : /\ requests[x] \in Busy \cup {Idle} /\ Known(requests[x])
                            /\ requests'[x] = IF x = r THEN Idle ELSE requests[x]
    BY DoneKeeps DEF Typed, Referenced
  <1>4. ASSUME NEW x \in Requests PROVE Known(requests[x])'
    <2> SUFFICES ASSUME NEW q, q = requests[x]
                 PROVE  Known(requests[x])'
      OBVIOUS
    <2>1. CASE x = r
      BY <1>3, <2>1, NoneAssumption DEF Known, Builds, Idle
    <2>2. CASE x # r
      <3>1. Known(q)'
        BY <1>2, <1>3, KnownStays
      <3> QED BY <1>3, <2>2, <3>1 DEF Known, Builds, Operates
    <2> QED BY <2>1, <2>2
  <1>5. VersionsKnown'
    <2>1. \A x \in Requests : VersionSeen(requests[x])'
      BY <1>3, NoneAssumption DEF VersionsKnown, VersionSeen, Idle
    <2> QED BY <2>1 DEF VersionsKnown
  <1> QED BY <1>1, <1>4, <1>5 DEF Referenced

\* A request that adds its company exchanges one that is building for one created.
LEMMA AppendKeepsSlots ==
  ASSUME Typed, SlotsCounted, NEW r \in Requests, NEW t, NEW u \in Users,
         Done(r), Builds(requests[r]), requests[r].user = u,
         companies' = Append(companies, Company(t, u)), t \in Nat,
         UNCHANGED <<users, top>>
  PROVE  SlotsCounted'
  <1> DEFINE n == Len(companies)
  <1>1. /\ n \in Nat /\ DOMAIN companies = 1..n /\ DOMAIN companies' = 1..(n + 1)
        /\ companies'[n + 1] = Company(t, u)
        /\ \A c \in 1..n : companies'[c] = companies[c]
    <2>1. companies \in Seq(CompanyRow)
      BY DEF Typed, TypeOK, CompanyRow, Row
    <2> QED BY <2>1, Rows, AppendProperties
  <1>2. /\ Company(t, u).creator = u
        /\ \A v \in Users \ {u} : Company(t, u).creator # v
    BY DEF Company
  <1>3. \A v \in Users \ {u} : Kept(v)' \subseteq Kept(v)
    BY <1>1, <1>2 DEF Kept, Created, GivenUp
  <1>4. Kept(u)' \subseteq Kept(u) \cup {n + 1}
    BY <1>1 DEF Kept, Created, GivenUp
  <1>5. \A v \in Users : Building(v)' = Building(v) \ {r}
    BY DoneKeeps
  <1>6. r \in Building(u)
    BY DEF Building
  <1>7. \A v \in Users : top[v] \in Nat /\ users[v].limit \in Nat /\ users[v].limit <= top[v]
    BY DEF SlotsCounted, Typed, TypeOK
  <1>8. ASSUME NEW v \in Users \ {u}
        PROVE  Planned(v)' => Cardinality(Kept(v)') + Cardinality(Building(v)')
                                < top'[v] + Cardinality(Requests)
    <2>1. (Planned(v)' => Planned(v)) /\ Building(v)' \subseteq Building(v)
      BY <1>5 DEF Planned
    <2> QED BY <1>3, <1>7, <2>1, SlotsShrink
  <1>9. Planned(u)' => Cardinality(Kept(u)') + Cardinality(Building(u)')
                         < top'[u] + Cardinality(Requests)
    <2>1. Cardinality(Building(u)') = Cardinality(Building(u)) - 1
      BY <1>5, <1>6, SlotsFinite, FS_RemoveElement
    <2>2. Cardinality(Kept(u)') <= Cardinality(Kept(u)) + 1
          /\ Cardinality(Kept(u)') \in Nat
      <3>1. /\ IsFiniteSet(Kept(u) \cup {n + 1})
            /\ Cardinality(Kept(u) \cup {n + 1}) \in {Cardinality(Kept(u)), Cardinality(Kept(u)) + 1}
        BY SlotsFinite, FS_AddElement
      <3> QED BY <1>4, <3>1, SlotsFinite, FS_Subset, FS_CardinalityType
    <2>3. Planned(u)' => Planned(u)
      BY DEF Planned
    <2> QED BY <1>7, <2>1, <2>2, <2>3, SlotsFinite DEF SlotsCounted
  <1> QED BY <1>7, <1>8, <1>9 DEF SlotsCounted

LEMMA CompanyTyped ==
  ASSUME NEW t \in Nat, NEW u \in Users
  PROVE  /\ Company(t, u) \in CompanyRow /\ Company(t, u).tenant = t
         /\ Company(t, u).creator = u /\ Company(t, u).members[u].role = "owner"
  <1>1. NoRow \in Row /\ [row |-> 1, role |-> "owner"] \in Row
    BY DEF NoRow, Row, Roles
  <1> QED BY <1>1 DEF Company, CompanyRow

LEMMA OnboardKeeps ==
  ASSUME Typed, Referenced, VersionsKnown, SlotsCounted,
         NEW r \in Requests, CommitOnboard(r)
  PROVE  (Typed /\ Referenced /\ VersionsKnown /\ SlotsCounted)'
  <1> DEFINE u == requests[r].user
             t == Len(tenants) + 1
  <1>1. u \in Users /\ requests[r].op = "onboard" /\ Builds(requests[r]) /\ Operates(u)
    <2>1. requests[r] \in Busy \cup {Idle} /\ requests[r].op = "onboard"
      BY DEF Typed, CommitOnboard, Ready
    <2> QED BY <2>1, Users_Of, NoneAssumption DEF Idle, Builds, Referenced, Known
  <1>2. /\ tenants' = Append(tenants, {u})
        /\ companies' = Append(companies, Company(t, u))
        /\ Done(r) /\ UNCHANGED <<users, tokens, changes, raced, top, begun>>
    BY DEF CommitOnboard
  <1>3. t \in Nat
    BY Rows
  <1>4. tenants \in Seq(SUBSET Users) /\ companies \in Seq(CompanyRow)
    BY DEF Typed, TypeOK, CompanyRow, Row
  <1>5. /\ tenants' \in Seq(SUBSET Users) /\ DOMAIN tenants' = 1..t
        /\ DOMAIN tenants = 1..Len(tenants)
    BY <1>1, <1>2, <1>4, Rows, AppendProperties
  <1>6. /\ companies' \in Seq(CompanyRow) /\ DOMAIN companies = 1..Len(companies)
        /\ DOMAIN companies' = 1..(Len(companies) + 1)
        /\ companies'[Len(companies) + 1] = Company(t, u)
        /\ \A c \in DOMAIN companies : companies'[c] = companies[c]
    BY <1>1, <1>2, <1>3, <1>4, Rows, CompanyTyped, AppendProperties
  <1>7. Typed' /\ VersionsKnown' /\ (\A x \in Requests : Known(requests[x])')
        /\ \A v \in Users : ~users'[v].exists => users'[v] = NoAccount
    <2>1. DOMAIN tenants \subseteq DOMAIN tenants' /\ DOMAIN companies \subseteq DOMAIN companies'
      BY <1>5, <1>6, Rows
    <2> QED BY <1>2, <1>5, <1>6, <2>1, CompaniesKeep
  <1>8. Referenced'
    <2>1. ASSUME NEW c \in DOMAIN companies'
          PROVE  Made(c)'
      <3>1. CASE c \in DOMAIN companies
        BY <1>2, <1>5, <1>6, <3>1, Rows DEF Referenced, Made, Operates, Role
      <3>2. CASE c = Len(companies) + 1
        BY <1>1, <1>2, <1>3, <1>5, <1>6, <3>2, CompanyTyped, NoneAssumption DEF Made, Operates, Role
      <3> QED BY <1>6, <3>1, <3>2, Rows
    <2> QED BY <1>7, <2>1 DEF Referenced
  <1>9. SlotsCounted'
    BY <1>1, <1>2, <1>3, AppendKeepsSlots
  <1> QED BY <1>7, <1>8, <1>9

LEMMA CreateKeeps ==
  ASSUME Typed, Referenced, VersionsKnown, SlotsCounted,
         NEW r \in Requests, CommitCreate(r)
  PROVE  (Typed /\ Referenced /\ VersionsKnown /\ SlotsCounted)'
  <1> DEFINE u == requests[r].user
             t == requests[r].tenant
  <1>1. /\ u \in Users /\ requests[r].op = "create" /\ Builds(requests[r])
        /\ Operates(u) /\ t \in DOMAIN tenants /\ t \in Nat
    <2>1. requests[r] \in Busy \cup {Idle} /\ requests[r].op = "create"
      BY DEF Typed, CommitCreate, Ready
    <2>2. requests[r] \in CreateReq
      BY <2>1, Kinds
    <2> QED BY <2>1, <2>2 DEF CreateReq, Builds, Referenced, Known
  <1>2. /\ companies' = Append(companies, Company(t, u))
        /\ Done(r) /\ UNCHANGED <<users, tokens, tenants, changes, raced, top, begun>>
    BY DEF CommitCreate
  <1>3. tenants \in Seq(SUBSET Users) /\ companies \in Seq(CompanyRow)
    BY DEF Typed, TypeOK, CompanyRow, Row
  <1>4. /\ companies' \in Seq(CompanyRow) /\ DOMAIN companies = 1..Len(companies)
        /\ DOMAIN companies' = 1..(Len(companies) + 1)
        /\ companies'[Len(companies) + 1] = Company(t, u)
        /\ \A c \in DOMAIN companies : companies'[c] = companies[c]
    BY <1>1, <1>2, <1>3, Rows, CompanyTyped, AppendProperties
  <1>5. Typed' /\ VersionsKnown' /\ (\A x \in Requests : Known(requests[x])')
        /\ \A v \in Users : ~users'[v].exists => users'[v] = NoAccount
    <2>1. DOMAIN companies \subseteq DOMAIN companies'
      BY <1>4, Rows
    <2> QED BY <1>2, <1>3, <1>4, <2>1, CompaniesKeep
  <1>6. Referenced'
    <2>1. ASSUME NEW c \in DOMAIN companies'
          PROVE  Made(c)'
      <3>1. CASE c \in DOMAIN companies
        BY <1>2, <1>4, <3>1, Rows DEF Referenced, Made, Operates, Role
      <3>2. CASE c = Len(companies) + 1
        BY <1>1, <1>2, <1>4, <3>2, CompanyTyped, NoneAssumption DEF Made, Operates, Role
      <3> QED BY <1>4, <3>1, <3>2, Rows
    <2> QED BY <1>2, <1>5, <2>1 DEF Referenced
  <1>7. SlotsCounted'
    BY <1>1, <1>2, AppendKeepsSlots
  <1> QED BY <1>5, <1>6, <1>7

\* Whoever writes the row of a company's creator gives the company up.
LEMMA MemberKeeps ==
  ASSUME Typed, Referenced, VersionsKnown, SlotsCounted,
         NEW r \in Requests, CommitMember(r)
  PROVE  (Typed /\ Referenced /\ VersionsKnown /\ SlotsCounted)'
  <1> DEFINE q == requests[r]
             now == companies[q.company].members[q.user]
             written == IF q.op = "delete" THEN [now EXCEPT !.role = None]
                        ELSE [role |-> q.role,
                              row |-> IF q.seen.role = None THEN now.row + 1 ELSE now.row]
  <1>1. /\ q \in MemberReq /\ q.op \in {"put", "delete"} /\ q.user \in Users
        /\ q.company \in DOMAIN companies
    <2>1. q \in Busy \cup {Idle} /\ q.op \in {"put", "delete"}
      BY DEF Typed, CommitMember, Ready
    <2>2. q \in MemberReq
      BY <2>1, Kinds
    <2>3. q.user \in Users
      BY <2>2 DEF MemberReq
    <2> QED BY <2>1, <2>2, <2>3 DEF Referenced, Known
  <1>2. /\ Done(r) /\ UNCHANGED <<users, tokens, tenants, changes, raced, top, begun>>
        /\ \/ companies' = companies
           \/ companies' = [companies EXCEPT
                    ![q.company].members[q.user] = written,
                    ![q.company].kept = @ /\ q.user # companies[q.company].creator]
    BY DEF CommitMember
  <1>3. written \in Row
    <2>1. now \in Row
      BY <1>1, Rows
    <2>2. q.role \in Roles \cup {None}
      BY <1>1 DEF MemberReq
    <2>3. CASE q.op = "delete"
      BY <2>1, <2>3, NoneAssumption DEF Row
    <2>4. CASE q.op # "delete"
      BY <2>1, <2>2, <2>4 DEF Row
    <2> QED BY <2>3, <2>4
  <1> HIDE DEF written
  <1>4. tenants \in Seq(SUBSET Users) /\ companies \in Seq(CompanyRow)
    BY DEF Typed, TypeOK, CompanyRow, Row
  <1>5. /\ companies' \in Seq(CompanyRow) /\ DOMAIN companies' = DOMAIN companies
        /\ \A c \in DOMAIN companies :
              /\ companies'[c].tenant = companies[c].tenant
              /\ companies'[c].creator = companies[c].creator
              /\ companies'[c].kept =>
                    /\ companies[c].kept
                    /\ \A v \in Users : v = companies[c].creator
                                        => companies'[c].members[v] = companies[c].members[v]
    <2>1. CASE companies' = companies
      BY <1>4, <2>1
    <2>2. CASE companies' = [companies EXCEPT
                    ![q.company].members[q.user] = written,
                    ![q.company].kept = @ /\ q.user # companies[q.company].creator]
      <3> DEFINE old == companies[q.company]
                 kept == old.kept /\ q.user # old.creator
                 new == [old EXCEPT !.members[q.user] = written, !.kept = kept]
      <3>1. old \in CompanyRow /\ kept \in BOOLEAN
        BY <1>1, Rows
      <3> HIDE DEF kept
      <3>2. /\ new \in CompanyRow /\ new.tenant = old.tenant /\ new.creator = old.creator
            /\ new.kept = kept
            /\ \A v \in Users : new.members[v] = IF v = q.user THEN written ELSE old.members[v]
        BY <1>1, <1>3, <3>1 DEF CompanyRow
      <3>3. companies' = [companies EXCEPT ![q.company] = new]
        BY <1>1, <2>2 DEF kept
      <3>4. companies' \in Seq(CompanyRow)
        BY <1>1, <1>4, <3>2, <3>3, Rows, ExceptSeq
      <3>5. DOMAIN companies' = DOMAIN companies
        BY <3>3
      <3>6. \A c \in DOMAIN companies : companies'[c] = IF c = q.company THEN new ELSE companies[c]
        BY <1>1, <3>3
      <3>7. new.kept => old.kept /\ q.user # old.creator
        BY <3>2 DEF kept
      <3> HIDE DEF new
      <3> QED BY <3>2, <3>4, <3>5, <3>6, <3>7
    <2> QED BY <1>2, <2>1, <2>2
  <1>6. Typed' /\ VersionsKnown' /\ (\A x \in Requests : Known(requests[x])')
        /\ \A v \in Users : ~users'[v].exists => users'[v] = NoAccount
    BY <1>2, <1>4, <1>5, CompaniesKeep
  <1>7. Referenced'
    <2>1. ASSUME NEW c \in DOMAIN companies
          PROVE  Made(c)'
      <3>1. Made(c) /\ companies[c].creator \in Users \cup {None}
        BY Rows DEF Referenced
      <3> QED BY <1>2, <1>5, <3>1 DEF Made, Operates, Role
    <2> QED BY <1>5, <1>6, <2>1 DEF Referenced
  <1>8. SlotsCounted'
    <2>1. \A v \in Users : Kept(v)' \subseteq Kept(v)
      BY <1>5 DEF Kept, Created, GivenUp
    <2>2. \A v \in Users : /\ Building(v)' \subseteq Building(v)
                           /\ Planned(v)' => Planned(v)
                           /\ top[v] \in Nat /\ users[v].limit <= top[v]
      BY <1>2, DoneKeeps DEF Planned, SlotsCounted, Typed
    <2> QED BY <1>2, <2>1, <2>2, SlotsShrink DEF SlotsCounted
  <1> QED BY <1>6, <1>7, <1>8

-----------------------------------------------------------------------------
(* The invariant *)

IInv == Typed /\ Referenced /\ VersionsKnown /\ SlotsCounted

\* Migrated companies are in their tenants, and nobody has created them.
LEMMA InitMigration ==
  ASSUME Migration
  PROVE  /\ tenants \in Seq(SUBSET Users) /\ companies \in Seq(CompanyRow)
         /\ \A c \in DOMAIN companies : /\ companies[c].tenant \in DOMAIN tenants
                                        /\ companies[c].creator = None /\ ~companies[c].kept
  <1>1. PICK m \in 0..MaxMigrated : \E n \in 0..m :
          \E of \in [1..m -> 1..n], held \in [1..m -> [Legacy -> Roles \cup {None}]] :
             /\ tenants = [t \in 1..n |-> MigratedOwners(t, of, held)]
             /\ companies = [c \in 1..m |-> Migrated(of[c], held[c])]
    BY DEF Migration
  <1>2. PICK n \in 0..m : \E of \in [1..m -> 1..n],
               held \in [1..m -> [Legacy -> Roles \cup {None}]] :
             /\ tenants = [t \in 1..n |-> MigratedOwners(t, of, held)]
             /\ companies = [c \in 1..m |-> Migrated(of[c], held[c])]
    BY <1>1
  <1>3. PICK of \in [1..m -> 1..n], held \in [1..m -> [Legacy -> Roles \cup {None}]] :
             /\ tenants = [t \in 1..n |-> MigratedOwners(t, of, held)]
             /\ companies = [c \in 1..m |-> Migrated(of[c], held[c])]
    BY <1>2
  <1>4. m \in Nat /\ n \in Nat
    BY <1>1, <1>2, TenancyBounds
  <1>5. tenants \in Seq(SUBSET Users)
    <2>1. \A t \in 1..n : MigratedOwners(t, of, held) \in SUBSET Users
      BY AccountsAssumption DEF MigratedOwners
    <2> QED BY <1>3, <1>4, <2>1, IsASeq
  <1>6. ASSUME NEW c \in 1..m
        PROVE  /\ Migrated(of[c], held[c]) \in CompanyRow
               /\ Migrated(of[c], held[c]).tenant \in 1..n
               /\ Migrated(of[c], held[c]).creator = None
               /\ ~Migrated(of[c], held[c]).kept
    <2>1. of[c] \in 1..n /\ held[c] \in [Legacy -> Roles \cup {None}] /\ of[c] \in Nat
      BY <1>3, <1>4
    <2>2. \A u \in Users : (IF u \in Legacy /\ held[c][u] # None
                            THEN [row |-> 1, role |-> held[c][u]] ELSE NoRow) \in Row
      BY <2>1 DEF NoRow, Row
    <2> QED BY <2>1, <2>2 DEF Migrated, CompanyRow
  <1>7. companies \in Seq(CompanyRow)
    BY <1>3, <1>4, <1>6, IsASeq
  <1> QED BY <1>3, <1>5, <1>6, <1>7

LEMMA InitIInv == Init => IInv
  <1> SUFFICES ASSUME Init PROVE IInv
    OBVIOUS
  <1>1. Account \in [exists : BOOLEAN, admin : BOOLEAN, pending : BOOLEAN,
                     version : Nat, limit : Nat]
        /\ Account.exists /\ Account.version = 0 /\ Account.limit = 0
    BY DEF Account
  <1>2. NoAccount \in [exists : BOOLEAN, admin : BOOLEAN, pending : BOOLEAN,
                       version : Nat, limit : Nat]
        /\ ~NoAccount.exists /\ NoAccount.version = 0 /\ NoAccount.limit = 0
    BY DEF NoAccount, Account
  <1>4. /\ tenants \in Seq(SUBSET Users) /\ companies \in Seq(CompanyRow)
        /\ \A c \in DOMAIN companies : /\ companies[c].tenant \in DOMAIN tenants
                                       /\ companies[c].creator = None /\ ~companies[c].kept
    BY InitMigration DEF Init
  <1>3. Typed
    <2>1. users \in [Users -> [exists : BOOLEAN, admin : BOOLEAN, pending : BOOLEAN,
                              version : Nat, limit : Nat]]
      BY <1>1, <1>2 DEF Init
    <2> QED BY <2>1, <1>4 DEF Init, Typed, TypeOK, CompanyRow, Row
  <1>5. Referenced
    <2>1. \A c \in DOMAIN companies : Made(c)
      BY <1>4 DEF Made
    <2> QED BY <1>1, <1>2, <2>1, NoneAssumption DEF Init, Referenced, Known, Builds, Idle
  <1>6. VersionsKnown
    BY <1>1, <1>2, NoneAssumption DEF Init, VersionsKnown, VersionSeen, Idle
  <1>7. SlotsCounted
    BY <1>1, <1>2 DEF Init, SlotsCounted, Planned
  <1> QED BY <1>3, <1>5, <1>6, <1>7 DEF IInv

LEMMA NextIInv == IInv /\ [Next]_vars => IInv'
  <1> SUFFICES ASSUME IInv, [Next]_vars PROVE IInv'
    OBVIOUS
  <1> USE DEF IInv
  <1>1. ASSUME NEW r \in Requests, NEW u \in Users, BeginSome(r, u) PROVE IInv'
    <2>1. PICK q : Fresh(q) /\ Begin(r, q)
      BY <1>1, BeginFresh
    <2> QED BY <2>1, BeginKeeps
  <1>2. ASSUME NEW r \in Requests, Commit(r) PROVE IInv'
    BY <1>2, LoginKeeps, ChangeKeeps, BetaKeeps, LimitKeeps, OnboardKeeps, CreateKeeps,
       MemberKeeps DEF Commit
  <1>3. ASSUME NEW r \in Requests, Issue(r) PROVE IInv'
    BY <1>3, IssueKeeps
  <1>4. CASE UNCHANGED vars
    BY <1>4 DEF vars, Typed, TypeOK, Referenced, Known, Builds, Operates, VersionsKnown,
                VersionSeen, SlotsCounted, Planned, Kept, Created, GivenUp, Made, Role,
                Building
  <1> QED BY <1>1, <1>2, <1>3, <1>4 DEF Next

LEMMA AlwaysIInv == Spec => []IInv
  BY InitIInv, NextIInv, PTL DEF Spec

\* A password change ends the sessions opened before it while no other change of
\* the account overlaps it (change_password, create_access_token), and no
\* company has been created with a temporary password.
THEOREM ChangesEndSessions == Spec => []SessionsEnd
  <1>1. IInv => SessionsEnd
    <2> SUFFICES ASSUME IInv PROVE SessionsEnd
      OBVIOUS
    <2> USE DEF IInv
    <2>1. ASSUME NEW t \in tokens, Authenticates(t), t.user \notin raced
          PROVE  t.epoch = changes[t.user]
      <3>1. t.user \in Users
        BY DEF Typed
      <3> QED BY <2>1, <3>1 DEF VersionsKnown, Authenticates
    <2>2. \A u \in Users : users[u].pending => Created(u) = {}
      BY NoneAssumption DEF Created, Referenced, Made, Operates
    <2> QED BY <2>1, <2>2 DEF SessionsEnd
  <1> QED BY <1>1, AlwaysIInv, PTL

\* The limit of a plan is passed by no more companies than requests in flight
\* besides the one that counted them and companies whose owner row the account
\* has given up (_require_available_company_slot), for any number of requests.
THEOREM PlansHold == Spec => []PlanHolds
  <1>1. IInv => PlanHolds
    <2> SUFFICES ASSUME IInv, NEW u \in Users, users[u].limit # 0, ~users[u].admin
                 PROVE  Cardinality(Created(u)) < top[u] + Cardinality(Requests)
                                                    + Cardinality(GivenUp(u))
      BY DEF PlanHolds
    <2>1. Typed /\ SlotsCounted /\ top[u] \in Nat
      BY DEF IInv, Typed
    <2>2. /\ Cardinality(Kept(u)) \in Nat /\ Cardinality(Building(u)) \in Nat
          /\ Cardinality(Requests) \in Nat
      BY <2>1, SlotsFinite
    <2>3. Cardinality(Kept(u)) + Cardinality(Building(u)) < top[u] + Cardinality(Requests)
      BY <2>1 DEF SlotsCounted, Planned
    <2>4. /\ Cardinality(Created(u)) = Cardinality(Kept(u)) + Cardinality(GivenUp(u))
          /\ Cardinality(GivenUp(u)) \in Nat
      <3>1. IsFiniteSet(Created(u)) /\ IsFiniteSet(GivenUp(u)) /\ IsFiniteSet(Kept(u))
        BY <2>1, SlotsFinite, FS_Subset
      <3>2. Created(u) = Kept(u) \cup GivenUp(u) /\ Kept(u) \cap GivenUp(u) = {}
        BY DEF Kept, GivenUp
      <3>3. Cardinality(Kept(u) \cup GivenUp(u))
              = Cardinality(Kept(u)) + Cardinality(GivenUp(u)) - Cardinality({})
        BY <3>1, <3>2, FS_Union
      <3> QED BY <2>2, <3>1, <3>2, <3>3, FS_EmptySet, FS_CardinalityType
    <2> QED BY <2>1, <2>2, <2>3, <2>4
  <1> QED BY <1>1, AlwaysIInv, PTL

=============================================================================
