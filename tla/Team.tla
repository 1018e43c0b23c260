-------------------------------- MODULE Team --------------------------------
(***************************************************************************)
(* The people of one workspace and what they hand out: members and their   *)
(* roles, invites, API keys and share links (auth.py require_role,         *)
(* routers/enterprise.py, routers/sharing.py, services/api_keys.py,        *)
(* services/audit.py).                                                     *)
(*                                                                         *)
(* A request reads (its caller's role, the row it is about, the owners),   *)
(* and later writes and commits; requests of several processes overlap.    *)
(* Statements read what is committed (READ COMMITTED), an UPDATE or DELETE *)
(* waits for a transaction that has the row.                               *)
(***************************************************************************)
EXTENDS Naturals, FiniteSets, TLC

CONSTANTS
  Users,         \* identities with a user row
  Creator,       \* who made the workspace
  Invites,       \* rows of workspace_invites that may come to be
  Legacy,        \* those that exist already, from before owner invites were refused
  ApiKeys,       \* API keys that may come to be
  Links,         \* share links of one monitor that may come to be
  Requests,      \* requests under way at a time
  Roles,         \* those of the four roles that requests give
  MaxUses,       \* bound on max_uses of an invite
  MaxAudit       \* bound on the audited changes

ASSUME TeamAssumption ==
  /\ Creator \in Users
  /\ {"viewer", "owner"} \subseteq Roles
  /\ MaxUses \in Nat \ {0} /\ MaxAudit \in Nat

VARIABLES
  role,          \* workspace_members: role of each user, or "none"
  invite,        \* workspace_invites
  key,           \* api_keys
  link,          \* share_links
  req,           \* what each request has read
  audit,         \* audit_logs: the committed changes of members
  promoted,      \* history: users made owner by an owner, and those of the start
  joins,         \* history: members who came by each invite
  raced          \* history: an owner left on a count that others had changed since

teamVars == <<role, invite, key, link, req, audit, promoted, joins, raced>>

Rank == [none |-> 0, viewer |-> 1, member |-> 2, admin |-> 3, owner |-> 4]

\* States of an invite, a key or a link; "gone" is deleted or revoked.
Life == {"none", "live", "expired", "gone"}

Idle == [op |-> "idle"]

Pending ==
  [op : {"role"}, user : Users, to : Roles, owners : SUBSET Users]
    \cup [op : {"remove"}, user : Users, owners : SUBSET Users]
    \cup [op : {"revoke"}, invite : Invites]
    \cup [op : {"redeem"}, user : Users, invite : Invites, fresh : BOOLEAN]

TypeOK ==
  /\ role \in [Users -> Roles \cup {"none"}]
  /\ invite \in [Invites -> [life : Life, role : Roles, uses : Nat, max : 1..MaxUses]]
  /\ key \in [ApiKeys -> Life \ {"expired"}] /\ link \in [Links -> Life \ {"expired"}]
  /\ req \in [Requests -> Pending \cup {Idle}]
  /\ audit \in 0..MaxAudit
  /\ promoted \subseteq Users
  /\ joins \in [Invites -> Nat]
  /\ raced \in BOOLEAN

Owners == {u \in Users : role[u] = "owner"}

\* A workspace with owners, who may be several.
Init ==
  /\ role \in [Users -> {"none", "viewer", "owner"}] /\ role[Creator] = "owner"
  /\ invite = [i \in Invites |-> [life |-> IF i \in Legacy THEN "live" ELSE "none",
                                  role |-> IF i \in Legacy THEN "owner" ELSE "viewer",
                                  uses |-> 0, max |-> 1]]
  /\ key = [k \in ApiKeys |-> "none"] /\ link = [l \in Links |-> "none"]
  /\ req = [r \in Requests |-> Idle]
  /\ audit = 0
  /\ promoted = Owners
  /\ joins = [i \in Invites |-> 0]
  /\ raced = FALSE

-----------------------------------------------------------------------------
(* Who may do what: require_workspace_member and require_role.             *)

\* An API key acts as an admin of its workspace.  (The internal token, which may do
\* everything, is the operator's and left out.)
RoleOf(a) ==
  IF a \in Users THEN role[a] ELSE IF key[a] = "live" THEN "admin" ELSE "none"

\* Somebody has at least this role.
Allowed(min) == \E a \in Users \cup ApiKeys : Rank[RoleOf(a)] >= Rank[min]

Start(r, p) == req[r] = Idle /\ req' = [req EXCEPT ![r] = p]

Finish(r) == req' = [req EXCEPT ![r] = Idle]

\* The transaction has the invite's row from its UPDATE to its commit.
Locked(i) == \E r \in Requests : req[r].op = "redeem" /\ req[r].invite = i

-----------------------------------------------------------------------------
(* update_member_role and remove_member.                                   *)

\* Faulty variant of LastOwner: off by one.
LastOwnerGone(u) == role[u] = "owner" /\ Cardinality(Owners) < 1

\* "Cannot remove the last owner"
LastOwner(u) == role[u] = "owner" /\ Cardinality(Owners) <= 1

\* Here to another role: for the role that is there, only an audit row is written.
ReadRole(r, u, to) ==
  /\ Allowed("owner") /\ role[u] \notin {"none", to}
  /\ to # "owner" => ~LastOwner(u)
  /\ Start(r, [op |-> "role", user |-> u, to |-> to, owners |-> Owners])
  /\ UNCHANGED <<role, invite, key, link, audit, promoted, joins, raced>>

ReadRemove(r, u) ==
  /\ Allowed("owner") /\ role[u] # "none"
  /\ ~LastOwner(u)
  /\ Start(r, [op |-> "remove", user |-> u, owners |-> Owners])
  /\ UNCHANGED <<role, invite, key, link, audit, promoted, joins, raced>>

\* The row may have gone meanwhile: the UPDATE then fails (StaleDataError) and
\* rolls back, the DELETE does not mind.
WriteMember(r) ==
  LET p == req[r]
      to == IF p.op = "role" THEN p.to ELSE "none"
  IN /\ p.op \in {"role", "remove"}
     /\ audit < MaxAudit
     /\ Finish(r)
     /\ IF p.op = "role" /\ role[p.user] = "none"
        THEN UNCHANGED <<role, audit, promoted, raced>>
        ELSE /\ role' = [role EXCEPT ![p.user] = to]
             /\ audit' = audit + 1
             /\ promoted' = IF to = "owner" THEN promoted \cup {p.user} ELSE promoted
             /\ raced' = (raced \/ (to # "owner" /\ p.owners # Owners))
     /\ UNCHANGED <<invite, key, link, joins>>

-----------------------------------------------------------------------------
(* create_invite, revoke_invite, redeem_invite.                            *)

\* Owners are never grantable by an invite.
CreateInvite(i, to, max) ==
  /\ Allowed("admin")
  /\ invite[i].life = "none" /\ to # "owner"
  /\ invite' = [invite EXCEPT ![i] = [life |-> "live", role |-> to, uses |-> 0, max |-> max]]
  /\ UNCHANGED <<role, key, link, req, audit, promoted, joins, raced>>

ReadRevoke(r, i) ==
  /\ Allowed("admin") /\ invite[i].life \in {"live", "expired"}
  /\ Start(r, [op |-> "revoke", invite |-> i])
  /\ UNCHANGED <<role, invite, key, link, audit, promoted, joins, raced>>

DeleteInvite(r) ==
  /\ req[r].op = "revoke"
  /\ ~Locked(req[r].invite)
  /\ invite' = [invite EXCEPT ![req[r].invite].life = "gone"]
  /\ Finish(r)
  /\ UNCHANGED <<role, key, link, audit, promoted, joins, raced>>

\* Faulty variant of Claimable: the count is checked on what was read before the
\* row was locked, so the cap does not bind.
ClaimableUncapped(i) == invite[i].life = "live" /\ invite[i].role # "owner"

\* Faulty variant of Claimable: any invite in date with a use left.
ClaimableByRank(i) == invite[i].life = "live" /\ invite[i].uses < invite[i].max

\* What the conditional UPDATE and the re-read ask of the row.
Claimable(i) ==
  /\ invite[i].life = "live"
  /\ invite[i].uses < invite[i].max
  /\ invite[i].role # "owner"

\* The UPDATE counts a use and keeps the row; then the membership is looked up.
Claim(r, u, i) ==
  /\ ~Locked(i) /\ Claimable(i)
  /\ Start(r, [op |-> "redeem", user |-> u, invite |-> i, fresh |-> role[u] = "none"])
  /\ UNCHANGED <<role, invite, key, link, audit, promoted, joins, raced>>

\* A member keeps the role they have, or that they are removed.
Granted(fresh, u, i) == IF fresh THEN invite[i].role ELSE role[u]

\* A membership that came meanwhile makes the insert fail (uq_workspace_user), and
\* the use is not counted.
Join(r) ==
  LET p == req[r] IN
  /\ p.op = "redeem"
  /\ Finish(r)
  /\ IF p.fresh /\ role[p.user] # "none"
     THEN UNCHANGED <<role, invite, joins>>
     ELSE /\ invite' = [invite EXCEPT ![p.invite].uses = @ + 1]
          /\ role' = [role EXCEPT ![p.user] = Granted(p.fresh, p.user, p.invite)]
          /\ joins' = [joins EXCEPT ![p.invite] = IF p.fresh THEN @ + 1 ELSE @]
  /\ UNCHANGED <<key, link, audit, promoted, raced>>

ExpireInvite(i) ==
  /\ invite[i].life = "live"
  /\ invite' = [invite EXCEPT ![i].life = "expired"]
  /\ UNCHANGED <<role, key, link, req, audit, promoted, joins, raced>>

\* The process of a request dies, or the client goes: nothing is committed.
Abandon(r) ==
  /\ req[r] # Idle
  /\ Finish(r)
  /\ UNCHANGED <<role, invite, key, link, audit, promoted, joins, raced>>

-----------------------------------------------------------------------------
(* API keys and share links.                                               *)

CreateKey(k) ==
  /\ Allowed("admin") /\ key[k] = "none"
  /\ key' = [key EXCEPT ![k] = "live"]
  /\ UNCHANGED <<role, invite, link, req, audit, promoted, joins, raced>>

RevokeKey(k) ==
  /\ Allowed("admin") /\ key[k] = "live"
  /\ key' = [key EXCEPT ![k] = "gone"]
  /\ UNCHANGED <<role, invite, link, req, audit, promoted, joins, raced>>

CreateLink(l) ==
  /\ Allowed("member") /\ link[l] = "none"
  /\ link' = [link EXCEPT ![l] = "live"]
  /\ UNCHANGED <<role, invite, key, req, audit, promoted, joins, raced>>

RevokeLink(l) ==
  /\ Allowed("admin") /\ link[l] = "live"
  /\ link' = [link EXCEPT ![l] = "gone"]
  /\ UNCHANGED <<role, invite, key, req, audit, promoted, joins, raced>>

Next ==
  \/ \E r \in Requests :
       \/ WriteMember(r) \/ DeleteInvite(r) \/ Join(r) \/ Abandon(r)
       \/ \E u \in Users :
            \/ ReadRemove(r, u)
            \/ \E to \in Roles : ReadRole(r, u, to)
            \/ \E i \in Invites : Claim(r, u, i)
       \/ \E i \in Invites : ReadRevoke(r, i)
  \/ \E i \in Invites :
       \/ ExpireInvite(i)
       \/ \E to \in Roles, max \in 1..MaxUses : CreateInvite(i, to, max)
  \/ \E k \in ApiKeys : CreateKey(k) \/ RevokeKey(k)
  \/ \E l \in Links : CreateLink(l) \/ RevokeLink(l)

Symmetry == Permutations(Requests)

Spec == Init /\ [][Next]_teamVars

-----------------------------------------------------------------------------
(* Correctness.                                                            *)

\* "concurrent redeems cannot overshoot max_uses": however redeems, revocation and
\* expiry interleave, an invite brings no more members than it has uses.
UsesCapped ==
  \A i \in Invites : joins[i] <= invite[i].uses /\ invite[i].uses <= invite[i].max

\* Every owner was made one by an owner (or made the workspace): neither an invite,
\* nor one left from before the ban, nor a late redeem makes an owner.
OwnersPromoted == Owners \subseteq promoted

\* The role of a member changes, and a member goes, only together with an audit row;
\* an invite never changes the role of somebody who is in already.
ChangeAudited ==
  [][(\E u \in Users : role[u] \notin {"none", role'[u]}) => audit' # audit]_teamVars

\* The workspace loses its last owner only if two requests counted the owners
\* before either wrote.
OwnerUnlessRaced == Owners = {} => raced

\* Owners are made by owners, and the last one stays but for such a race.
OwnersSound == OwnersPromoted /\ OwnerUnlessRaced

\* "Cannot remove the last owner".  Does not hold: the owners are counted without a
\* lock, and two requests that each take one owner away both count two.
AlwaysOwner == Owners # {}

=============================================================================
