-------------------------- MODULE WorkspaceProofs ---------------------------
(***************************************************************************)
(* Proofs about the six parts of a workspace, for any users, people,       *)
(* tasks, callers, monitors, runs and bounds: who may own it and for how   *)
(* long, that whoever is known has a workspace, how far the quotas can be  *)
(* overshot, what of the provider settings a call may mix, and that what   *)
(* the inbox shows is in the store.                                        *)
(***************************************************************************)
EXTENDS MCWorkspace, FiniteSetTheorems, TLAPS

-----------------------------------------------------------------------------
(* Members and invites: the inductive invariant.                           *)

\* At most one request redeems an invite, which is not for owners, has a use left, and
\* does not go meanwhile; no member came by an invite that does not exist yet.
Redeeming ==
  /\ \A r, s \in Requests :
       req[r].op = "redeem" /\ req[s].op = "redeem" /\ req[r].invite = req[s].invite
         => r = s
  /\ \A r \in Requests : req[r].op = "redeem" =>
       LET v == invite[req[r].invite]
       IN  v.life # "none" /\ v.role # "owner" /\ v.uses < v.max
  /\ \A i \in Invites : invite[i].life = "none" => joins[i] = 0

\* A request that takes somebody's ownership has counted a second owner.
Counted ==
  \A r \in Requests :
    \/ req[r].op = "role" /\ req[r].to # "owner"
    \/ req[r].op = "remove"
    => req[r].owners # {req[r].user}

MembersInv == TypeOK /\ Redeeming /\ UsesCapped /\ OwnersSound /\ Counted

\* A request moves on alone.
LEMMA RequestMoves ==
  ASSUME TypeOK, NEW r \in Requests, NEW p \in Pending \cup {Idle},
         req' = [req EXCEPT ![r] = p]
  PROVE  /\ req' \in [Requests -> Pending \cup {Idle}]
         /\ req'[r] = p /\ \A s \in Requests \ {r} : req'[s] = req[s]
BY DEF TypeOK

\* A request has the columns of its kind.
LEMMA RequestType ==
  ASSUME TypeOK, NEW r \in Requests
  PROVE  /\ req[r].op = "role" =>
              req[r].user \in Users /\ req[r].to \in Roles /\ req[r].owners \subseteq Users
         /\ req[r].op = "remove" => req[r].user \in Users /\ req[r].owners \subseteq Users
         /\ req[r].op = "revoke" => req[r].invite \in Invites
         /\ req[r].op = "redeem" =>
              req[r].user \in Users /\ req[r].invite \in Invites /\ req[r].fresh \in BOOLEAN
BY DEF TypeOK, Pending, Idle

\* Whoever is the only owner is the last one.
LEMMA OnlyOwner ==
  ASSUME NEW u \in Users, ~LastOwner(u), role[u] = "owner"
  PROVE  Owners # {u}
<1>1. Cardinality({u}) = 1
  BY FS_Singleton
<1> QED
  BY <1>1 DEF LastOwner

LEMMA MembersInit == Init => MembersInv
<1> SUFFICES ASSUME Init PROVE MembersInv
  OBVIOUS
<1>1. \A i \in Invites : invite[i].uses = 0 /\ invite[i].max = 1 /\ joins[i] = 0
  BY DEF Init
<1>2. \A r \in Requests : req[r].op = "idle"
  BY DEF Init, Idle
<1>3. Redeeming /\ Counted /\ UsesCapped
  BY <1>1, <1>2 DEF Redeeming, Counted, UsesCapped
<1>4. OwnersSound
  <2>1. role[Creator] = "owner" /\ Creator \in Users /\ promoted = Owners
    BY TeamAssumption DEF Init
  <2> QED
    BY <2>1 DEF OwnersSound, OwnersPromoted, OwnerUnlessRaced, Owners
<1>5. TypeOK
  <2>1. role \in [Users -> Roles \cup {"none"}]
    BY TeamAssumption DEF Init
  <2>2. invite \in [Invites -> [life : Life, role : Roles, uses : Nat, max : 1..MaxUses]]
    <3>1. 1 \in 1..MaxUses
      BY TeamAssumption
    <3>2. \A i \in Invites :
            [life |-> IF i \in Legacy THEN "live" ELSE "none",
             role |-> IF i \in Legacy THEN "owner" ELSE "viewer", uses |-> 0, max |-> 1]
              \in [life : Life, role : Roles, uses : Nat, max : 1..MaxUses]
      BY <3>1, TeamAssumption DEF Life
    <3> QED
      BY <3>2 DEF Init
  <2>3. key \in [ApiKeys -> Life \ {"expired"}] /\ link \in [Links -> Life \ {"expired"}]
    BY DEF Init, Life
  <2>4. req \in [Requests -> Pending \cup {Idle}] /\ joins \in [Invites -> Nat]
    BY DEF Init
  <2>5. audit \in 0..MaxAudit
    BY TeamAssumption DEF Init
  <2>6. promoted \subseteq Users /\ raced = FALSE
    BY DEF Init, Owners
  <2> QED
    BY <2>1, <2>2, <2>3, <2>4, <2>5, <2>6 DEF TypeOK
<1> QED
  BY <1>3, <1>4, <1>5 DEF MembersInv

-----------------------------------------------------------------------------
(* Members and invites: every step keeps it.                               *)

\* Steps that leave members and invites alone, and in which one request at most moves,
\* to a read of the owners or the end.
LEMMA Reads ==
  ASSUME MembersInv, UNCHANGED <<role, invite, joins, promoted, raced, audit>>,
         TypeOK',
         \A r \in Requests :
           \/ req'[r] = req[r]
           \/ req'[r].op \in {"idle", "revoke"}
           \/ req'[r].op \in {"role", "remove"} /\
                (req'[r].op = "role" => req'[r].to = "owner" \/ req'[r].owners # {req'[r].user})
                /\ (req'[r].op = "remove" => req'[r].owners # {req'[r].user})
  PROVE  MembersInv'
<1>1. Owners' = Owners
  BY DEF Owners
<1>2. OwnersSound' /\ UsesCapped'
  BY <1>1 DEF MembersInv, OwnersSound, OwnersPromoted, OwnerUnlessRaced, UsesCapped
<1>3. \A r \in Requests : req'[r].op = "redeem" => req'[r] = req[r]
  OBVIOUS
<1>4. Redeeming'
  BY <1>3 DEF MembersInv, Redeeming
<1>5. Counted'
  BY DEF MembersInv, Counted
<1> QED
  BY <1>2, <1>4, <1>5 DEF MembersInv

\* update_member_role and remove_member write what they decided on their own read.
LEMMA WriteMemberInv ==
  ASSUME MembersInv, NEW r \in Requests, WriteMember(r)
  PROVE  MembersInv'
<1> DEFINE p == req[r]
           to == IF p.op = "role" THEN p.to ELSE "none"
           none == p.op = "role" /\ role[p.user] = "none"
<1>1. /\ p.op \in {"role", "remove"} /\ p.user \in Users /\ p.owners \subseteq Users
      /\ p.op = "role" => p.to \in Roles
  BY RequestType DEF WriteMember, MembersInv
<1>2. /\ req' \in [Requests -> Pending \cup {Idle}] /\ req'[r] = Idle
      /\ \A s \in Requests \ {r} : req'[s] = req[s]
  BY RequestMoves DEF WriteMember, Finish, MembersInv
<1>3. UNCHANGED <<invite, key, link, joins>>
  BY DEF WriteMember
<1>4. to # "owner" => p.owners # {p.user}
  BY <1>1 DEF MembersInv, Counted
<1>5. \/ none /\ UNCHANGED <<role, audit, promoted, raced>>
      \/ /\ ~none /\ role' = [role EXCEPT ![p.user] = to] /\ audit' = audit + 1
         /\ promoted' = (IF to = "owner" THEN promoted \cup {p.user} ELSE promoted)
         /\ raced' = (raced \/ (to # "owner" /\ p.owners # Owners))
  BY DEF WriteMember
<1>6. audit < MaxAudit
  BY DEF WriteMember
<1>7. to \in Roles \cup {"none"}
  BY <1>1
<1> HIDE DEF p, to, none
<1>8. TypeOK'
  <2>1. role' \in [Users -> Roles \cup {"none"}] /\ promoted' \subseteq Users
    BY <1>1, <1>5, <1>7 DEF MembersInv, TypeOK
  <2>2. audit' \in 0..MaxAudit
    BY <1>5, <1>6, TeamAssumption DEF MembersInv, TypeOK
  <2>3. raced' \in BOOLEAN
    BY <1>5 DEF MembersInv, TypeOK
  <2> QED
    BY <1>2, <1>3, <2>1, <2>2, <2>3 DEF MembersInv, TypeOK
<1>9. OwnersSound'
  <2>1. CASE UNCHANGED <<role, promoted, raced>>
    BY <2>1 DEF MembersInv, OwnersSound, OwnersPromoted, OwnerUnlessRaced, Owners
  <2>2. CASE role' = [role EXCEPT ![p.user] = to]
               /\ promoted' = (IF to = "owner" THEN promoted \cup {p.user} ELSE promoted)
               /\ raced' = (raced \/ (to # "owner" /\ p.owners # Owners))
    <3>1. Owners' = IF to = "owner" THEN Owners \cup {p.user} ELSE Owners \ {p.user}
      BY <1>1, <2>2 DEF MembersInv, TypeOK, Owners
    <3>2. OwnersPromoted'
      BY <2>2, <3>1 DEF MembersInv, OwnersSound, OwnersPromoted
    <3>3. OwnerUnlessRaced'
      BY <1>1, <1>4, <2>2, <3>1 DEF MembersInv, OwnersSound, OwnerUnlessRaced
    <3> QED
      BY <3>2, <3>3 DEF OwnersSound
  <2> QED
    BY <1>5, <2>1, <2>2
<1>10. Redeeming' /\ UsesCapped'
  <2>1. \A s \in Requests : req'[s].op = "redeem" => req'[s] = req[s]
    BY <1>2 DEF Idle
  <2> QED
    BY <1>3, <2>1 DEF MembersInv, Redeeming, UsesCapped
<1>11. Counted'
  BY <1>2 DEF MembersInv, Counted, Idle
<1> QED
  BY <1>8, <1>9, <1>10, <1>11 DEF MembersInv

\* redeem_invite: the conditional UPDATE has the row of the invite until the commit.
LEMMA ClaimInv ==
  ASSUME MembersInv, NEW r \in Requests, NEW u \in Users, NEW i \in Invites,
         Claim(r, u, i)
  PROVE  MembersInv'
<1> DEFINE p == [op |-> "redeem", user |-> u, invite |-> i, fresh |-> role[u] = "none"]
<1>1. /\ req' \in [Requests -> Pending \cup {Idle}] /\ req'[r] = p
      /\ \A s \in Requests \ {r} : req'[s] = req[s]
  <2>1. p \in Pending
    BY DEF Pending
  <2> QED
    BY <2>1, RequestMoves DEF Claim, Start, MembersInv
<1>2. UNCHANGED <<role, invite, key, link, audit, promoted, joins, raced>>
  BY DEF Claim
<1>3. /\ invite[i].life = "live" /\ invite[i].uses < invite[i].max /\ invite[i].role # "owner"
      /\ \A s \in Requests : ~(req[s].op = "redeem" /\ req[s].invite = i)
  BY DEF Claim, Claimable, Locked
<1>4. p.op = "redeem" /\ p.invite = i
  OBVIOUS
<1> HIDE DEF p
<1>5. Redeeming'
  BY <1>1, <1>2, <1>3, <1>4 DEF MembersInv, Redeeming
<1>6. Counted'
  BY <1>1, <1>4 DEF MembersInv, Counted
<1> QED
  BY <1>1, <1>2, <1>5, <1>6
  DEF MembersInv, TypeOK, UsesCapped, OwnersSound, OwnersPromoted, OwnerUnlessRaced, Owners

LEMMA JoinInv ==
  ASSUME MembersInv, NEW r \in Requests, Join(r)
  PROVE  MembersInv'
<1> DEFINE u == req[r].user
           i == req[r].invite
           isNew == req[r].fresh
<1>1. req[r].op = "redeem" /\ u \in Users /\ i \in Invites /\ isNew \in BOOLEAN
  BY RequestType DEF Join, MembersInv
<1>2. /\ req' \in [Requests -> Pending \cup {Idle}] /\ req'[r] = Idle
      /\ \A s \in Requests \ {r} : req'[s] = req[s]
  BY RequestMoves DEF Join, Finish, MembersInv
<1>3. UNCHANGED <<key, link, audit, promoted, raced>>
  BY DEF Join
<1>4. \/ UNCHANGED <<role, invite, joins>>
      \/ /\ invite' = [invite EXCEPT ![i].uses = @ + 1]
         /\ role' = [role EXCEPT ![u] = Granted(isNew, u, i)]
         /\ joins' = [joins EXCEPT ![i] = IF isNew THEN @ + 1 ELSE @]
         /\ isNew => role[u] = "none"
  BY DEF Join
<1>5. /\ invite[i].life # "none" /\ invite[i].role # "owner"
      /\ invite[i].uses < invite[i].max
      /\ \A s \in Requests : req[s].op = "redeem" /\ req[s].invite = i => s = r
  BY <1>1 DEF MembersInv, Redeeming
<1>6. invite[i] \in [life : Life, role : Roles, uses : Nat, max : 1..MaxUses]
      /\ joins[i] \in Nat /\ role[u] \in Roles \cup {"none"}
      /\ joins[i] <= invite[i].uses
  BY <1>1 DEF MembersInv, TypeOK, UsesCapped
<1> HIDE DEF u, i, isNew
<1>7. /\ invite' \in [Invites -> [life : Life, role : Roles, uses : Nat, max : 1..MaxUses]]
      /\ joins' \in [Invites -> Nat]
      /\ \A j \in Invites : /\ invite'[j].life = invite[j].life
                            /\ invite'[j].role = invite[j].role
                            /\ invite'[j].max = invite[j].max
                            /\ j # i => invite'[j] = invite[j] /\ joins'[j] = joins[j]
      /\ joins'[i] <= invite'[i].uses /\ invite'[i].uses <= invite'[i].max
  <2>1. CASE UNCHANGED <<role, invite, joins>>
    BY <1>1, <1>5, <1>6, <2>1 DEF MembersInv, TypeOK
  <2>2. CASE /\ invite' = [invite EXCEPT ![i].uses = @ + 1]
             /\ joins' = [joins EXCEPT ![i] = IF isNew THEN @ + 1 ELSE @]
    <3>1. [invite[i] EXCEPT !.uses = @ + 1]
             \in [life : Life, role : Roles, uses : Nat, max : 1..MaxUses]
      BY <1>6
    <3>2. /\ invite' \in [Invites -> [life : Life, role : Roles, uses : Nat, max : 1..MaxUses]]
          /\ joins' \in [Invites -> Nat]
      BY <1>1, <1>6, <2>2, <3>1 DEF MembersInv, TypeOK
    <3>3. \A j \in Invites : /\ invite'[j].life = invite[j].life
                             /\ invite'[j].role = invite[j].role
                             /\ invite'[j].max = invite[j].max
                             /\ j # i => invite'[j] = invite[j] /\ joins'[j] = joins[j]
      BY <1>1, <2>2 DEF MembersInv, TypeOK
    <3>4. invite'[i].uses = invite[i].uses + 1 /\ joins'[i] <= joins[i] + 1
      BY <1>1, <1>6, <2>2 DEF MembersInv, TypeOK
    <3>5. joins'[i] \in Nat /\ invite[i].max \in Nat /\ invite[i].uses \in Nat
      BY <1>1, <1>6, <3>2, TeamAssumption
    <3> QED
      BY <1>1, <1>5, <1>6, <3>2, <3>3, <3>4, <3>5
  <2> QED
    BY <1>4, <2>1, <2>2
<1>8. role' \in [Users -> Roles \cup {"none"}] /\ Owners' = Owners
  <2>1. CASE UNCHANGED role
    BY <2>1 DEF MembersInv, TypeOK, Owners
  <2>2. CASE role' = [role EXCEPT ![u] = Granted(isNew, u, i)] /\ (isNew => role[u] = "none")
    <3>1. /\ Granted(isNew, u, i) \in Roles \cup {"none"}
          /\ Granted(isNew, u, i) = "owner" <=> role[u] = "owner"
      BY <1>1, <1>5, <1>6, <2>2 DEF Granted
    <3> QED
      BY <1>1, <2>2, <3>1 DEF MembersInv, TypeOK, Owners
  <2> QED
    BY <1>4, <2>1, <2>2
<1>9. TypeOK'
  BY <1>2, <1>3, <1>7, <1>8 DEF MembersInv, TypeOK
<1>10. OwnersSound'
  BY <1>3, <1>8 DEF MembersInv, OwnersSound, OwnersPromoted, OwnerUnlessRaced
<1>11. UsesCapped'
  BY <1>7 DEF MembersInv, UsesCapped
<1>12. \A s \in Requests : req'[s].op = "redeem" =>
          s # r /\ req'[s] = req[s] /\ req[s].invite \in Invites /\ req[s].invite # i
  BY <1>2, <1>5, RequestType DEF Idle, MembersInv
<1>13. Redeeming'
  BY <1>5, <1>7, <1>12 DEF MembersInv, Redeeming
<1>14. Counted'
  BY <1>2 DEF MembersInv, Counted, Idle
<1> QED
  BY <1>9, <1>10, <1>11, <1>13, <1>14 DEF MembersInv

\* create_invite, revoke_invite and expiry leave the invites that are being redeemed.
LEMMA InviteInv ==
  ASSUME MembersInv, NEW i \in Invites,
         NEW v \in [life : Life, role : Roles, uses : Nat, max : 1..MaxUses],
         v.life # "none", v.uses <= v.max,
         invite' = [invite EXCEPT ![i] = v],
         \/ v.role = invite[i].role /\ v.uses = invite[i].uses /\ v.max = invite[i].max
         \/ invite[i].life = "none",
         \A r \in Requests : req'[r] = req[r] \/ req'[r] = Idle,
         req' \in [Requests -> Pending \cup {Idle}],
         UNCHANGED <<role, key, link, audit, promoted, joins, raced>>
  PROVE  MembersInv'
<1>1. TypeOK'
  BY DEF MembersInv, TypeOK
<1>2. invite'[i] = v /\ \A j \in Invites : j # i => invite'[j] = invite[j]
  BY DEF MembersInv, TypeOK
<1>3. UsesCapped'
  <2>1. joins[i] <= v.uses
    <3>1. invite[i].life = "none" => joins[i] = 0
      BY DEF MembersInv, Redeeming
    <3>2. joins[i] <= invite[i].uses
      BY DEF MembersInv, UsesCapped
    <3> QED
      BY <3>1, <3>2
  <2> QED
    BY <1>2, <2>1 DEF MembersInv, UsesCapped
<1>4. \A r \in Requests : req'[r].op # "idle" => req'[r] = req[r]
  BY DEF Idle
<1>5. Redeeming'
  <2>1. \A r \in Requests : req'[r].op = "redeem" =>
           /\ req'[r] = req[r] /\ req[r].invite \in Invites
           /\ invite[req[r].invite].life # "none"
    BY <1>4, RequestType DEF MembersInv, Redeeming
  <2>2. \A r \in Requests : req'[r].op = "redeem" =>
           LET x == invite'[req'[r].invite]
           IN  x.life # "none" /\ x.role # "owner" /\ x.uses < x.max
    BY <1>2, <2>1 DEF MembersInv, Redeeming
  <2>3. \A j \in Invites : invite'[j].life = "none" => joins[j] = 0
    BY <1>2 DEF MembersInv, Redeeming
  <2> QED
    BY <2>1, <2>2, <2>3 DEF MembersInv, Redeeming
<1>6. OwnersSound' /\ Counted'
  BY <1>4 DEF MembersInv, OwnersSound, OwnersPromoted, OwnerUnlessRaced, Owners, Counted
<1> QED
  BY <1>1, <1>3, <1>5, <1>6 DEF MembersInv

LEMMA MembersStep == MembersInv /\ [Next]_teamVars => MembersInv'
<1> SUFFICES ASSUME MembersInv, [Next]_teamVars PROVE MembersInv'
  OBVIOUS
<1>0. /\ req \in [Requests -> Pending \cup {Idle}]
      /\ \A i \in Invites :
           /\ invite[i] \in [life : Life, role : Roles, uses : Nat, max : 1..MaxUses]
           /\ invite[i].uses <= invite[i].max
  BY DEF MembersInv, TypeOK, UsesCapped
<1>1. ASSUME NEW r \in Requests, WriteMember(r) \/ Join(r) PROVE MembersInv'
  BY <1>1, WriteMemberInv, JoinInv
<1>2. ASSUME NEW r \in Requests, NEW u \in Users, NEW i \in Invites, Claim(r, u, i)
      PROVE  MembersInv'
  BY <1>2, ClaimInv
<1>3. ASSUME NEW r \in Requests, DeleteInvite(r) PROVE MembersInv'
  <2> DEFINE i == req[r].invite
             v == [invite[i] EXCEPT !.life = "gone"]
  <2>1. i \in Invites /\ invite' = [invite EXCEPT ![i] = v]
        /\ UNCHANGED <<role, key, link, audit, promoted, joins, raced>>
    BY <1>0, <1>3, RequestType DEF DeleteInvite, MembersInv
  <2>2. v \in [life : Life, role : Roles, uses : Nat, max : 1..MaxUses]
        /\ v.life = "gone" /\ v.role = invite[i].role /\ v.uses = invite[i].uses
        /\ v.max = invite[i].max /\ invite[i].uses <= invite[i].max
    BY <1>0, <2>1 DEF Life
  <2>3. /\ req' \in [Requests -> Pending \cup {Idle}]
        /\ \A s \in Requests : req'[s] = req[s] \/ req'[s] = Idle
    BY <1>3, RequestMoves DEF DeleteInvite, Finish, MembersInv
  <2> HIDE DEF v
  <2> QED
    BY <2>1, <2>2, <2>3, InviteInv
<1>4. ASSUME NEW i \in Invites, ExpireInvite(i) PROVE MembersInv'
  <2> DEFINE v == [invite[i] EXCEPT !.life = "expired"]
  <2>1. invite' = [invite EXCEPT ![i] = v]
        /\ UNCHANGED <<role, key, link, req, audit, promoted, joins, raced>>
    BY <1>0, <1>4 DEF ExpireInvite
  <2>2. v \in [life : Life, role : Roles, uses : Nat, max : 1..MaxUses]
        /\ v.life = "expired" /\ v.role = invite[i].role /\ v.uses = invite[i].uses
        /\ v.max = invite[i].max /\ invite[i].uses <= invite[i].max
    BY <1>0 DEF Life
  <2> HIDE DEF v
  <2> QED
    BY <1>0, <2>1, <2>2, InviteInv
<1>5. ASSUME NEW i \in Invites, NEW to \in Roles, NEW max \in 1..MaxUses,
             CreateInvite(i, to, max)
      PROVE  MembersInv'
  <2> DEFINE v == [life |-> "live", role |-> to, uses |-> 0, max |-> max]
  <2>1. invite' = [invite EXCEPT ![i] = v] /\ invite[i].life = "none"
        /\ UNCHANGED <<role, key, link, req, audit, promoted, joins, raced>>
    BY <1>5 DEF CreateInvite
  <2>2. v \in [life : Life, role : Roles, uses : Nat, max : 1..MaxUses]
        /\ v.life = "live" /\ v.uses <= v.max
    BY TeamAssumption DEF Life
  <2> HIDE DEF v
  <2> QED
    BY <1>0, <2>1, <2>2, InviteInv
<1>6. ASSUME NEW r \in Requests, NEW p \in Pending \cup {Idle}, req' = [req EXCEPT ![r] = p],
             UNCHANGED <<role, invite, key, link, audit, promoted, joins, raced>>,
             \/ p.op \in {"idle", "revoke"}
             \/ p.op = "role" /\ (p.to = "owner" \/ p.owners # {p.user})
             \/ p.op = "remove" /\ p.owners # {p.user}
      PROVE  MembersInv'
  <2>1. /\ req' \in [Requests -> Pending \cup {Idle}] /\ req'[r] = p
        /\ \A s \in Requests \ {r} : req'[s] = req[s]
    BY <1>6, RequestMoves DEF MembersInv
  <2>2. TypeOK'
    BY <1>6, <2>1 DEF MembersInv, TypeOK
  <2> QED
    BY <1>6, <2>1, <2>2, Reads
<1>7. ASSUME NEW r \in Requests, Abandon(r) PROVE MembersInv'
  BY <1>6, <1>7 DEF Abandon, Finish, Idle
<1>8. ASSUME NEW r \in Requests, NEW i \in Invites, ReadRevoke(r, i) PROVE MembersInv'
  <2>1. [op |-> "revoke", invite |-> i] \in Pending
    BY DEF Pending
  <2> QED
    BY <1>6, <1>8, <2>1 DEF ReadRevoke, Start
<1>9. ASSUME NEW r \in Requests, NEW u \in Users, NEW to \in Roles, ReadRole(r, u, to)
      PROVE  MembersInv'
  <2> DEFINE p == [op |-> "role", user |-> u, to |-> to, owners |-> Owners]
  <2>1. p \in Pending
    BY DEF Pending, Owners
  <2>2. to = "owner" \/ Owners # {u}
    BY <1>9, OnlyOwner DEF ReadRole, Owners
  <2>3. p.op = "role" /\ (p.to = "owner" \/ p.owners # {p.user})
    BY <2>2
  <2>4. req' = [req EXCEPT ![r] = p]
        /\ UNCHANGED <<role, invite, key, link, audit, promoted, joins, raced>>
    BY <1>9 DEF ReadRole, Start
  <2> HIDE DEF p
  <2> QED
    BY <1>6, <2>1, <2>3, <2>4
<1>10. ASSUME NEW r \in Requests, NEW u \in Users, ReadRemove(r, u) PROVE MembersInv'
  <2> DEFINE p == [op |-> "remove", user |-> u, owners |-> Owners]
  <2>1. p \in Pending
    BY DEF Pending, Owners
  <2>2. Owners # {u}
    BY <1>10, OnlyOwner DEF ReadRemove, Owners
  <2>3. p.op = "remove" /\ p.owners # {p.user}
    BY <2>2
  <2>4. req' = [req EXCEPT ![r] = p]
        /\ UNCHANGED <<role, invite, key, link, audit, promoted, joins, raced>>
    BY <1>10 DEF ReadRemove, Start
  <2> HIDE DEF p
  <2> QED
    BY <1>6, <2>1, <2>3, <2>4
<1>11. ASSUME UNCHANGED <<role, invite, req, audit, promoted, joins, raced>>,
              key' \in [ApiKeys -> Life \ {"expired"}],
              link' \in [Links -> Life \ {"expired"}]
       PROVE  MembersInv'
  <2>1. TypeOK'
    BY <1>11 DEF MembersInv, TypeOK
  <2> QED
    BY <1>11, <2>1, Reads
<1>12. ASSUME NEW k \in ApiKeys, CreateKey(k) \/ RevokeKey(k) PROVE MembersInv'
  BY <1>11, <1>12 DEF CreateKey, RevokeKey, MembersInv, TypeOK, Life
<1>13. ASSUME NEW l \in Links, CreateLink(l) \/ RevokeLink(l) PROVE MembersInv'
  BY <1>11, <1>13 DEF CreateLink, RevokeLink, MembersInv, TypeOK, Life
<1>14. ASSUME UNCHANGED teamVars PROVE MembersInv'
  BY <1>11, <1>14 DEF teamVars, MembersInv, TypeOK
<1> QED
  BY <1>1, <1>2, <1>3, <1>4, <1>5, <1>7, <1>8, <1>9, <1>10, <1>12, <1>13, <1>14 DEF Next

LEMMA MembersAlways == Spec => []MembersInv
<1>1. Init => MembersInv
  BY MembersInit
<1>2. MembersInv /\ [Next]_teamVars => MembersInv'
  BY MembersStep
<1> QED
  BY <1>1, <1>2, PTL DEF Spec

-----------------------------------------------------------------------------
(* Members and invites: the theorems.                                      *)

\* sharing.py: "concurrent redeems cannot overshoot max_uses", for any number of
\* redeems, and with revocation and expiry between their steps.
THEOREM InvitesBounded == Spec => []UsesCapped
<1>1. MembersInv => UsesCapped
  BY DEF MembersInv
<1> QED
  BY <1>1, MembersAlways, PTL

\* enterprise.py: owners are made by owners, and the workspace loses its last one only
\* after a change decided on a count of the owners that no longer holds.
THEOREM OwnersByOwners == Spec => []OwnersSound
<1>1. MembersInv => OwnersSound
  BY DEF MembersInv
<1> QED
  BY <1>1, MembersAlways, PTL

\* A member's role is changed, and a member removed, under an audit row only; a redeem
\* never changes the role of somebody who is in already.
THEOREM MembersAudited == Spec => ChangeAudited
<1>1. ASSUME MembersInv, [Next]_teamVars
      PROVE  [(\E u \in Users : role[u] \notin {"none", role'[u]}) => audit' # audit]_teamVars
  <2>1. ASSUME NEW r \in Requests, WriteMember(r), role' # role PROVE audit' # audit
    <3>1. audit' = audit + 1 /\ audit \in Nat
      BY <1>1, <2>1 DEF WriteMember, MembersInv, TypeOK
    <3> QED
      BY <3>1
  <2>2. ASSUME NEW r \in Requests, Join(r), NEW u \in Users
        PROVE  role[u] \in {"none", role'[u]}
    <3>1. req[r].fresh \in BOOLEAN /\ req[r].user \in Users
      BY <1>1, <2>2, RequestType DEF Join, MembersInv
    <3>2. \/ role' = role
          \/ /\ role' = [role EXCEPT ![req[r].user] =
                            Granted(req[r].fresh, req[r].user, req[r].invite)]
             /\ req[r].fresh => role[req[r].user] = "none"
      BY <2>2 DEF Join
    <3> QED
      BY <1>1, <3>1, <3>2 DEF Granted, MembersInv, TypeOK
  <2> QED
    BY <1>1, <2>1, <2>2
    DEF Next, Claim, DeleteInvite, Abandon, ReadRemove, ReadRole, ReadRevoke, ExpireInvite,
        CreateInvite, CreateKey, RevokeKey, CreateLink, RevokeLink, teamVars
<1> QED
  BY <1>1, MembersAlways, PTL DEF Spec, ChangeAudited

-----------------------------------------------------------------------------
(* People and their workspaces.                                            *)

\* A task that has flushed holds the row unless it found it as it should be; one that
\* is about to make a workspace holds it, and the person has none yet; one that is not
\* has seen one.
Marked ==
  \A t \in Tasks :
    LET k == task[t] IN
    /\ k.at \in {"read", "flushed", "made"} /\ k.saw = "linked" => userRow[k.who] \in {"linked", "moved"}
    /\ k.at \in {"flushed", "made"} /\ k.saw # "linked" => rowLock[k.who] = t
    /\ k.at = "made" /\ k.bare => k.saw # "linked" /\ Persons!Bare(k.who)
    /\ k.at = "made" /\ ~k.bare => ~Persons!Bare(k.who)

PersonsInv == Persons!TypeOK /\ Persons!Provisioned /\ Marked

LEMMA PersonsInit == Persons!Init => PersonsInv
  BY PeopleAssumption
  DEF Persons!Init, PersonsInv, Persons!TypeOK, Persons!Provisioned, Persons!OneDefault,
      Persons!KnownHasWorkspace, Persons!Ended, Marked

LEMMA PersonsRequest ==
  ASSUME PersonsInv, NEW t \in Tasks, NEW p \in People, Persons!Request(t, p)
  PROVE  PersonsInv'
  BY PeopleAssumption DEF PersonsInv, Persons!TypeOK, Persons!Provisioned, Persons!OneDefault, Persons!KnownHasWorkspace,
      Persons!Bare, Persons!Ended, Persons!TaskStates, Marked,
      Persons!Request, Persons!NeedsSync

LEMMA PersonsCreateWorkspace ==
  ASSUME PersonsInv, NEW p \in People, Persons!CreateWorkspace(p)
  PROVE  PersonsInv'
  BY PeopleAssumption DEF PersonsInv, Persons!TypeOK, Persons!Provisioned, Persons!OneDefault, Persons!KnownHasWorkspace,
      Persons!Bare, Persons!Ended, Persons!TaskStates, Marked,
      Persons!CreateWorkspace

LEMMA PersonsSeed ==
  ASSUME PersonsInv, NEW p \in People, Persons!Seed(p)
  PROVE  PersonsInv'
  BY PeopleAssumption DEF PersonsInv, Persons!TypeOK, Persons!Provisioned, Persons!OneDefault, Persons!KnownHasWorkspace,
      Persons!Bare, Persons!Ended, Persons!TaskStates, Marked,
      Persons!Seed

LEMMA PersonsMoveAddress ==
  ASSUME PersonsInv, NEW p \in People, Persons!MoveAddress(p)
  PROVE  PersonsInv'
  BY PeopleAssumption DEF PersonsInv, Persons!TypeOK, Persons!Provisioned, Persons!OneDefault, Persons!KnownHasWorkspace,
      Persons!Bare, Persons!Ended, Persons!TaskStates, Marked,
      Persons!MoveAddress

LEMMA PersonsReadUser ==
  ASSUME PersonsInv, NEW t \in Tasks, Persons!ReadUser(t)
  PROVE  PersonsInv'
  BY PeopleAssumption DEF PersonsInv, Persons!TypeOK, Persons!Provisioned, Persons!OneDefault, Persons!KnownHasWorkspace,
      Persons!Bare, Persons!Ended, Persons!TaskStates, Marked,
      Persons!ReadUser

LEMMA PersonsFlushUser ==
  ASSUME PersonsInv, NEW t \in Tasks, Persons!FlushUser(t)
  PROVE  PersonsInv'
  BY PeopleAssumption DEF PersonsInv, Persons!TypeOK, Persons!Provisioned, Persons!OneDefault, Persons!KnownHasWorkspace,
      Persons!Bare, Persons!Ended, Persons!TaskStates, Marked,
      Persons!FlushUser

LEMMA PersonsReadMembership ==
  ASSUME PersonsInv, NEW t \in Tasks, Persons!ReadMembership(t)
  PROVE  PersonsInv'
<1> DEFINE p == task[t].who
           b == Persons!Lacks(t)
<1>1. b \in BOOLEAN /\ (b <=> Persons!Bare(p))
  BY Zenon DEF Persons!Lacks, Persons!Bare
<1>2. task[t] \in [at : {"flushed"}, who : People, saw : {"none", "seeded", "linked", "moved"}, bare : BOOLEAN]
  BY DEF PersonsInv, Persons!TypeOK, Persons!Ended, Persons!TaskStates, Persons!ReadMembership
<1>3. task' = [task EXCEPT ![t] = [task[t] EXCEPT !.at = "made", !.bare = b]]
  BY DEF Persons!ReadMembership, PersonsInv, Persons!TypeOK
<1>4. ASSUME NEW k \in [at : {"flushed"}, who : People, saw : {"none", "seeded", "linked", "moved"}, bare : BOOLEAN],
             NEW c \in BOOLEAN, NEW j, j = [k EXCEPT !.at = "made", !.bare = c]
      PROVE  /\ j \in [at : {"made"}, who : People, saw : {"none", "seeded", "linked", "moved"}, bare : BOOLEAN]
             /\ j.who = k.who /\ j.saw = k.saw /\ j.bare = c
  BY <1>4
<1>5. \E j \in [at : {"made"}, who : People, saw : {"none", "seeded", "linked", "moved"}, bare : BOOLEAN] :
        /\ task' = [task EXCEPT ![t] = j]
        /\ j.who = p /\ j.saw = task[t].saw /\ j.bare = b
  <2> DEFINE j == [task[t] EXCEPT !.at = "made", !.bare = b]
  <2>1. /\ j \in [at : {"made"}, who : People, saw : {"none", "seeded", "linked", "moved"}, bare : BOOLEAN]
        /\ j.who = p /\ j.saw = task[t].saw /\ j.bare = b
    <3> HIDE DEF b
    <3> QED  BY <1>1, <1>2, <1>4
  <2>2. task' = [task EXCEPT ![t] = j]
    BY <1>3
  <2> HIDE DEF b, j
  <2> QED  BY <2>1, <2>2
<1>6. UNCHANGED <<userRow, defaults, spaces, rowLock>>
  BY DEF Persons!ReadMembership
<1> HIDE DEF b
<1> QED
  BY PeopleAssumption, <1>1, <1>2, <1>3, <1>5, <1>6 DEF PersonsInv, Persons!TypeOK, Persons!Provisioned, Persons!OneDefault,
      Persons!KnownHasWorkspace, Persons!Bare, Persons!Ended, Persons!TaskStates, Marked

LEMMA PersonsCommitUser ==
  ASSUME PersonsInv, NEW t \in Tasks, Persons!CommitUser(t)
  PROVE  PersonsInv'
  BY PeopleAssumption DEF PersonsInv, Persons!TypeOK, Persons!Provisioned, Persons!OneDefault, Persons!KnownHasWorkspace,
      Persons!Bare, Persons!Ended, Persons!TaskStates, Marked,
      Persons!CommitUser, Persons!WithUser, Persons!Free

LEMMA PersonsFail ==
  ASSUME PersonsInv, NEW t \in Tasks, Persons!Fail(t)
  PROVE  PersonsInv'
  BY PeopleAssumption DEF PersonsInv, Persons!TypeOK, Persons!Provisioned, Persons!OneDefault, Persons!KnownHasWorkspace,
      Persons!Bare, Persons!Ended, Persons!TaskStates, Marked,
      Persons!Fail, Persons!Free

LEMMA PersonsStutter ==
  ASSUME PersonsInv, UNCHANGED persons
  PROVE  PersonsInv'
  BY PeopleAssumption DEF PersonsInv, Persons!TypeOK, Persons!Provisioned, Persons!OneDefault, Persons!KnownHasWorkspace,
      Persons!Bare, Persons!Ended, Persons!TaskStates, Marked,
      persons

LEMMA PersonsStep == PersonsInv /\ [Persons!Next]_persons => PersonsInv'
  BY PersonsRequest, PersonsCreateWorkspace, PersonsSeed, PersonsMoveAddress, PersonsReadUser,
     PersonsFlushUser, PersonsReadMembership, PersonsCommitUser, PersonsFail, PersonsStutter
  DEF Persons!Next

LEMMA PersonsAlways == AllSpec => [](part = "persons" => PersonsInv)
<1> DEFINE I == part = "persons" => PersonsInv
<1>1. AllInit => I
  BY PersonsInit DEF AllInit
<1>2. I /\ [AllNext]_allVars => I'
  <2> SUFFICES ASSUME I, [AllNext]_allVars, part' = "persons" PROVE PersonsInv'
    OBVIOUS
  <2>1. part = "persons" /\ [Persons!Next]_persons
    BY DEF AllNext, allVars
  <2> QED  BY <2>1, PersonsStep
<1> QED  BY <1>1, <1>2, PTL DEF AllSpec

\* However many first requests a person makes at once, a known person has a workspace.
THEOREM AlwaysProvisioned == AllSpec => []Provisioned
<1>1. (part = "persons" => PersonsInv) => Provisioned
  BY DEF PersonsInv, Provisioned
<1> QED  BY <1>1, PersonsAlways, PTL

-----------------------------------------------------------------------------
(* Sets that gain or lose one element.                                     *)

LEMMA NoMore ==
  ASSUME NEW S, IsFiniteSet(S), NEW T, T \subseteq S
  PROVE  /\ IsFiniteSet(T) /\ Cardinality(S) \in Nat /\ Cardinality(T) \in Nat
         /\ Cardinality(T) <= Cardinality(S)
  BY FS_Subset, FS_CardinalityType

LEMMA OneMore ==
  ASSUME NEW S, IsFiniteSet(S), NEW x, NEW T, T \subseteq S \cup {x}
  PROVE  /\ IsFiniteSet(T) /\ Cardinality(S) \in Nat /\ Cardinality(T) \in Nat
         /\ Cardinality(T) <= Cardinality(S) + 1
<1>1. IsFiniteSet(S \cup {x}) /\ Cardinality(S \cup {x}) \in Nat /\ Cardinality(S) \in Nat
  BY FS_AddElement, FS_CardinalityType
<1>2. Cardinality(S \cup {x}) <= Cardinality(S) + 1
  BY <1>1, FS_AddElement
<1> QED  BY <1>1, <1>2, NoMore

LEMMA OneLess ==
  ASSUME NEW S, IsFiniteSet(S), NEW x \in S, NEW T, T \subseteq S \ {x}
  PROVE  /\ IsFiniteSet(T) /\ Cardinality(S) \in Nat /\ Cardinality(T) \in Nat
         /\ Cardinality(T) <= Cardinality(S) - 1
<1>1. IsFiniteSet(S \ {x}) /\ Cardinality(S \ {x}) \in Nat /\ Cardinality(S) \in Nat
  BY FS_RemoveElement, FS_CardinalityType
<1>2. Cardinality(S \ {x}) = Cardinality(S) - 1
  BY FS_RemoveElement
<1> QED  BY <1>1, <1>2, NoMore

-----------------------------------------------------------------------------
(* Browser runs and their quota.                                           *)

\* Workers with a reservation that was counted beyond the limit and is not given back.
Over == {w \in Workers : hook[w].at \in {"countedOver", "over"}}

\* The counter stands for every run that was counted within the limit, and for the
\* reservations that are still to be given back.
Accounted ==
  Cardinality(granted) <= BrowserLimit /\ Cardinality(granted) + Cardinality(Over) <= charged

\* Two messages of one run in the hook are its trouble.
Meeting ==
  \A v, w \in Workers :
    v # w /\ hook[v].at # "idle" /\ hook[w].at # "idle" /\ hook[v].run = hook[w].run
      => hook[v].run \in troubled

\* A receipt is that of a run counted within the limit, or its run is about to be refused.
Receipts ==
  /\ \A r \in receipt :
       \/ r \in granted \cup troubled \/ status[r] = "failed"
       \/ \E w \in Workers : hook[w].at \in {"over", "undone", "refused"} /\ hook[w].run = r
  /\ \A w \in Workers :
       /\ hook[w].at = "counted" => hook[w].run \in granted
       /\ hook[w].at = "passed" => hook[w].run \in granted \cup troubled
       /\ hook[w].at # "idle" /\ status[hook[w].run] = "failed" => hook[w].run \in troubled
  /\ fetched \ granted \subseteq troubled

BrowserInv == Browser!TypeOK /\ Accounted /\ Meeting /\ Receipts

LEMMA BrowserFinite ==
  ASSUME Browser!TypeOK
  PROVE  /\ IsFiniteSet(granted) /\ Cardinality(granted) \in Nat
         /\ IsFiniteSet(Over) /\ Cardinality(Over) \in Nat
<1>1. granted \subseteq BrowserRuns /\ Over \subseteq Workers
  BY DEF Browser!TypeOK, Over
<1> QED  BY <1>1, NoMore, BrowserAssumption

LEMMA BrowserInit == Browser!Init => BrowserInv
<1> SUFFICES ASSUME Browser!Init PROVE BrowserInv
  OBVIOUS
<1>1. Over = {} /\ granted = {}
  BY DEF Over, Browser!Init, Browser!Idle
<1>2. Cardinality(Over) = 0 /\ Cardinality(granted) = 0
  BY <1>1, FS_EmptySet
<1> QED
  BY <1>2, BrowserAssumption DEF BrowserInv, Accounted, Meeting, Receipts, Browser!TypeOK, Browser!Init,
     Browser!Idle

\* Where a worker's message is.
LEMMA BrowserHook ==
  ASSUME Browser!TypeOK, NEW w \in Workers, hook[w].at # "idle"
  PROVE  /\ hook[w].run \in BrowserRuns
         /\ hook[w].at \in {"script", "fallback", "absent", "counted", "countedOver", "over", "undone",
                            "refused", "passed"}
         /\ hook[w] \in Browser!Busy
  BY DEF Browser!TypeOK, Browser!Busy, Browser!Idle

\* A worker goes a step further, or ends, alone.
LEMMA BrowserMoves ==
  ASSUME Browser!TypeOK, NEW w \in Workers, hook[w].at # "idle",
         NEW step \in {"script", "fallback", "absent", "counted", "countedOver", "over", "undone",
                       "refused", "passed"}
  PROVE  /\ Browser!Goes(w, step) =>
              /\ hook' \in [Workers -> Browser!Busy \cup {Browser!Idle}]
              /\ hook'[w].at = step /\ hook'[w].run = hook[w].run
              /\ \A v \in Workers \ {w} : hook'[v] = hook[v]
         /\ Browser!Ends(w) =>
              /\ hook' \in [Workers -> Browser!Busy \cup {Browser!Idle}]
              /\ hook'[w].at = "idle"
              /\ \A v \in Workers \ {w} : hook'[v] = hook[v]
  BY BrowserHook DEF Browser!TypeOK, Browser!Goes, Browser!Ends, Browser!Busy, Browser!Idle

\* A run is counted by w: within the limit, or beyond it.
LEMMA BrowserCounts ==
  ASSUME BrowserInv, Browser!TypeOK', NEW w \in Workers, NEW r, Browser!Count(r),
         ~Browser!Beyond(charged + 1) => Over' \subseteq Over, Over' \subseteq Over \cup {w}
  PROVE  Accounted'
<1> USE BrowserAssumption
<1>1. Browser!TypeOK /\ Accounted /\ charged \in Nat /\ charged' = charged + 1
  BY DEF BrowserInv, Browser!TypeOK, Browser!Count
<1>2. CASE Browser!Beyond(charged + 1)
  <2>1. granted' = granted
    BY <1>2 DEF Browser!Count
  <2>2. Cardinality(Over') <= Cardinality(Over) + 1 /\ Cardinality(Over') \in Nat
    BY <1>1, OneMore, BrowserFinite
  <2> QED  BY <1>1, <2>1, <2>2, BrowserFinite DEF Accounted
<1>3. CASE ~Browser!Beyond(charged + 1)
  <2>1. granted' = granted \cup {r}
    BY <1>3 DEF Browser!Count
  <2>2. Cardinality(granted') <= Cardinality(granted) + 1 /\ Cardinality(granted') \in Nat
    BY <1>1, <2>1, OneMore, BrowserFinite
  <2>3. Cardinality(Over') <= Cardinality(Over) /\ Cardinality(Over') \in Nat
    BY <1>1, <1>3, NoMore, BrowserFinite
  <2> QED  BY <1>1, <1>3, <2>2, <2>3, BrowserFinite DEF Accounted, Browser!Beyond
<1> QED  BY <1>2, <1>3

\* Nothing is counted, and no reservation comes to be beyond the limit.
LEMMA BrowserKeeps ==
  ASSUME BrowserInv, Browser!TypeOK', charged' = charged, granted' = granted, Over' \subseteq Over
  PROVE  Accounted'
<1>1. Cardinality(Over') <= Cardinality(Over) /\ Cardinality(Over') \in Nat
  BY NoMore, BrowserFinite DEF BrowserInv
<1> QED
  BY <1>1, BrowserFinite, BrowserAssumption DEF BrowserInv, Accounted, Browser!TypeOK

\* A reservation is given back.
LEMMA BrowserGivesBack ==
  ASSUME BrowserInv, NEW w \in Workers, hook[w].at = "over", charged' = Browser!GivenBack(charged),
         granted' = granted, Over' \subseteq Over \ {w}
  PROVE  charged' \in Nat /\ Accounted'
<1>1. w \in Over
  BY DEF Over
<1>2. Cardinality(Over') <= Cardinality(Over) - 1 /\ Cardinality(Over') \in Nat
  BY <1>1, OneLess, BrowserFinite DEF BrowserInv
<1> QED
  BY <1>2, BrowserFinite, BrowserAssumption DEF BrowserInv, Accounted, Browser!TypeOK, Browser!GivenBack

\* A message is taken: if another worker has one of its run, that is its trouble.
LEMMA BrowserReceive ==
  ASSUME BrowserInv, NEW w \in Workers, NEW r \in BrowserRuns, Browser!Receive(w, r)
  PROVE  BrowserInv'
<1> USE DEF Browser!Receive, Browser!At
<1>1. /\ hook'[w].at = "script" /\ hook'[w].run = r /\ hook[w].at = "idle"
      /\ \A v \in Workers \ {w} : hook'[v] = hook[v]
      /\ hook' \in [Workers -> Browser!Busy \cup {Browser!Idle}]
  BY DEF BrowserInv, Browser!TypeOK, Browser!Busy, Browser!Idle
<1>2. UNCHANGED <<charged, receipt, status, faults, fetched, granted>>
  OBVIOUS
<1>3. troubled \subseteq troubled' /\ troubled' \subseteq BrowserRuns
  BY DEF BrowserInv, Browser!TypeOK
<1>4. \A v \in Workers : hook[v].at # "idle" /\ hook[v].run = r => r \in troubled'
  OBVIOUS
<1>5. Browser!TypeOK'
  BY <1>1, <1>2, <1>3 DEF BrowserInv, Browser!TypeOK
<1>6. Accounted'
  <2>1. Over' \subseteq Over
    BY <1>1 DEF Over
  <2> QED  BY <1>2, <1>5, <2>1, BrowserKeeps
<1>7. Meeting'
  BY <1>1, <1>3, <1>4 DEF BrowserInv, Meeting
<1>8. Receipts'
  <2>1. status[r] # "failed"
    OBVIOUS
  <2>2. \A s \in receipt :
          \/ s \in granted \cup troubled \/ status[s] = "failed"
          \/ \E v \in Workers \ {w} : hook[v].at \in {"over", "undone", "refused"} /\ hook[v].run = s
    BY <1>1 DEF BrowserInv, Receipts
  <2> QED  BY <1>1, <1>2, <1>3, <2>1, <2>2 DEF BrowserInv, Receipts
<1> QED  BY <1>5, <1>6, <1>7, <1>8 DEF BrowserInv

\* What a step of one worker leaves of the messages that meet.
LEMMA BrowserMeets ==
  ASSUME BrowserInv, NEW w \in Workers, hook[w].at # "idle", troubled \subseteq troubled',
         \A v \in Workers \ {w} : hook'[v] = hook[v], hook'[w].at = "idle" \/ hook'[w].run = hook[w].run
  PROVE  Meeting'
  BY DEF BrowserInv, Meeting

LEMMA BrowserReserve ==
  ASSUME BrowserInv, NEW w \in Workers, Browser!Reserve(w)
  PROVE  BrowserInv'
<1> DEFINE r == hook[w].run
<1>0. Browser!TypeOK /\ hook[w].at = "script" /\ r \in BrowserRuns
  BY BrowserHook DEF BrowserInv, Browser!Reserve, Browser!At
<1>1. UNCHANGED <<status, faults, fetched, troubled>> /\ Browser!Script(r)
  BY DEF Browser!Reserve
<1>2. CASE r \in receipt
  <2>1. UNCHANGED <<charged, receipt, granted>> /\ Browser!Goes(w, "passed")
    BY <1>1, <1>2 DEF Browser!Script, Browser!Reserve
  <2>2. /\ hook'[w].at = "passed" /\ hook'[w].run = r /\ \A v \in Workers \ {w} : hook'[v] = hook[v]
        /\ hook' \in [Workers -> Browser!Busy \cup {Browser!Idle}]
    BY <1>0, <2>1, BrowserMoves
  <2>3. Browser!TypeOK'
    BY <1>0, <1>1, <2>1, <2>2 DEF Browser!TypeOK
  <2>4. Accounted'
    <3>1. Over' \subseteq Over
      BY <2>2 DEF Over
    <3> QED  BY <2>1, <2>3, <3>1, BrowserKeeps
  <2>5. Meeting'
    BY <1>0, <1>1, <2>2, BrowserMeets
  <2>6. r \in granted \cup troubled
    BY <1>0, <1>2 DEF BrowserInv, Receipts, Meeting
  <2>7. Receipts'
    BY <1>0, <1>1, <2>1, <2>2, <2>6 DEF BrowserInv, Receipts
  <2> QED  BY <2>3, <2>4, <2>5, <2>7 DEF BrowserInv
<1>3. CASE r \notin receipt
  <2>1. receipt' = receipt \cup {r} /\ Browser!Count(r)
    BY <1>1, <1>3 DEF Browser!Script
  <2>2. CASE Browser!Beyond(charged + 1)
    <3>1. Browser!Goes(w, "over") /\ granted' = granted
      BY <1>3, <2>1, <2>2 DEF Browser!Reserve, Browser!Count
    <3>2. /\ hook'[w].at = "over" /\ hook'[w].run = r /\ \A v \in Workers \ {w} : hook'[v] = hook[v]
          /\ hook' \in [Workers -> Browser!Busy \cup {Browser!Idle}]
      BY <1>0, <3>1, BrowserMoves
    <3>3. Browser!TypeOK'
      BY <1>0, <1>1, <2>1, <3>1, <3>2 DEF Browser!TypeOK, Browser!Count
    <3>4. Accounted'
      <4>1. Over' \subseteq Over \cup {w}
        BY <3>2 DEF Over
      <4> QED  BY <2>1, <2>2, <3>3, <4>1, BrowserCounts
    <3>5. Meeting'
      BY <1>0, <1>1, <3>2, BrowserMeets
    <3>6. Receipts'
      BY <1>0, <1>1, <2>1, <3>1, <3>2 DEF BrowserInv, Receipts
    <3> QED  BY <3>3, <3>4, <3>5, <3>6 DEF BrowserInv
  <2>3. CASE ~Browser!Beyond(charged + 1)
    <3>1. Browser!Goes(w, "passed") /\ granted' = granted \cup {r}
      BY <1>3, <2>1, <2>3 DEF Browser!Reserve, Browser!Count
    <3>2. /\ hook'[w].at = "passed" /\ hook'[w].run = r /\ \A v \in Workers \ {w} : hook'[v] = hook[v]
          /\ hook' \in [Workers -> Browser!Busy \cup {Browser!Idle}]
      BY <1>0, <3>1, BrowserMoves
    <3>3. Browser!TypeOK'
      BY <1>0, <1>1, <2>1, <3>1, <3>2 DEF Browser!TypeOK, Browser!Count
    <3>4. Accounted'
      <4>1. Over' \subseteq Over
        BY <3>2 DEF Over
      <4> QED  BY <2>1, <3>3, <4>1, BrowserCounts
    <3>5. Meeting'
      BY <1>0, <1>1, <3>2, BrowserMeets
    <3>6. Receipts'
      BY <1>0, <1>1, <2>1, <3>1, <3>2 DEF BrowserInv, Receipts
    <3> QED  BY <3>3, <3>4, <3>5, <3>6 DEF BrowserInv
  <2> QED  BY <2>2, <2>3
<1> QED  BY <1>2, <1>3

\* The script's reply is lost, which is its run's trouble, or the script does not run.
LEMMA BrowserScriptRaises ==
  ASSUME BrowserInv, NEW w \in Workers, Browser!ScriptRaises(w)
  PROVE  BrowserInv'
<1> DEFINE r == hook[w].run
<1>0. Browser!TypeOK /\ hook[w].at = "script" /\ r \in BrowserRuns
  BY BrowserHook DEF BrowserInv, Browser!ScriptRaises, Browser!At
<1>1. UNCHANGED <<status, fetched>> /\ Browser!Fault /\ Browser!Goes(w, "fallback")
  BY DEF Browser!ScriptRaises
<1>2. /\ hook'[w].at = "fallback" /\ hook'[w].run = r /\ \A v \in Workers \ {w} : hook'[v] = hook[v]
      /\ hook' \in [Workers -> Browser!Busy \cup {Browser!Idle}]
  BY <1>0, <1>1, BrowserMoves
<1>3. \/ UNCHANGED <<charged, receipt, granted, troubled>>
      \/ /\ troubled' = troubled \cup {r}
         /\ \/ UNCHANGED <<charged, receipt, granted>>
            \/ receipt' = receipt \cup {r} /\ Browser!Count(r)
  BY DEF Browser!ScriptRaises, Browser!Script, Browser!Lost
<1>4. Browser!TypeOK'
  BY <1>0, <1>1, <1>2, <1>3, BrowserAssumption DEF Browser!TypeOK, Browser!Count, Browser!Fault
<1>5. Accounted'
  <2>1. Over' \subseteq Over
    BY <1>2 DEF Over
  <2> QED  BY <1>3, <1>4, <2>1, BrowserKeeps, BrowserCounts
<1>6. troubled \subseteq troubled' /\ granted \subseteq granted'
  BY <1>3 DEF Browser!Count
<1>7. Meeting'
  BY <1>0, <1>2, <1>6, BrowserMeets
<1>8. Receipts'
  <2>1. \A s \in receipt' : s \in receipt \/ s \in troubled'
    BY <1>3
  <2> QED  BY <1>0, <1>1, <1>2, <1>6, <2>1 DEF BrowserInv, Receipts
<1> QED  BY <1>4, <1>5, <1>7, <1>8 DEF BrowserInv

LEMMA BrowserFallbackExists ==
  ASSUME BrowserInv, NEW w \in Workers, Browser!FallbackExists(w)
  PROVE  BrowserInv'
<1> DEFINE r == hook[w].run
           step == IF r \in receipt THEN "passed" ELSE "absent"
<1>0. Browser!TypeOK /\ hook[w].at = "fallback" /\ r \in BrowserRuns
  BY BrowserHook DEF BrowserInv, Browser!FallbackExists, Browser!At
<1>1. UNCHANGED <<charged, receipt, status, faults, fetched, granted, troubled>> /\ Browser!Goes(w, step)
  BY DEF Browser!FallbackExists
<1>2. /\ hook'[w].at = step /\ hook'[w].run = r /\ \A v \in Workers \ {w} : hook'[v] = hook[v]
      /\ hook' \in [Workers -> Browser!Busy \cup {Browser!Idle}]
  BY <1>0, <1>1, BrowserMoves
<1>3. Browser!TypeOK'
  BY <1>0, <1>1, <1>2 DEF Browser!TypeOK
<1>4. Accounted'
  <2>1. Over' \subseteq Over
    BY <1>2 DEF Over
  <2> QED  BY <1>1, <1>3, <2>1, BrowserKeeps
<1>5. Meeting'
  BY <1>0, <1>1, <1>2, BrowserMeets
<1>6. r \in receipt => r \in granted \cup troubled
  BY <1>0 DEF BrowserInv, Receipts, Meeting
<1>7. Receipts'
  BY <1>0, <1>1, <1>2, <1>6 DEF BrowserInv, Receipts
<1> QED  BY <1>3, <1>4, <1>5, <1>7 DEF BrowserInv

LEMMA BrowserFallbackIncr ==
  ASSUME BrowserInv, NEW w \in Workers, Browser!FallbackIncr(w)
  PROVE  BrowserInv'
<1> DEFINE r == hook[w].run
           step == IF Browser!Beyond(charged + 1) THEN "countedOver" ELSE "counted"
<1>0. Browser!TypeOK /\ hook[w].at = "absent" /\ r \in BrowserRuns
  BY BrowserHook DEF BrowserInv, Browser!FallbackIncr, Browser!At
<1>1. UNCHANGED <<receipt, status, faults, fetched, troubled>> /\ Browser!Count(r) /\ Browser!Goes(w, step)
  BY DEF Browser!FallbackIncr
<1>2. /\ hook'[w].at = step /\ hook'[w].run = r /\ \A v \in Workers \ {w} : hook'[v] = hook[v]
      /\ hook' \in [Workers -> Browser!Busy \cup {Browser!Idle}]
  BY <1>0, <1>1, BrowserMoves
<1>3. Browser!TypeOK'
  BY <1>0, <1>1, <1>2 DEF Browser!TypeOK, Browser!Count
<1>4. Accounted'
  <2>1. Over' \subseteq Over \cup {w} /\ (~Browser!Beyond(charged + 1) => Over' \subseteq Over)
    BY <1>2 DEF Over
  <2> QED  BY <1>1, <1>3, <2>1, BrowserCounts
<1>5. Meeting'
  BY <1>0, <1>1, <1>2, BrowserMeets
<1>6. granted \subseteq granted' /\ (step = "counted" => r \in granted')
  BY <1>1 DEF Browser!Count
<1>7. Receipts'
  BY <1>0, <1>1, <1>2, <1>6 DEF BrowserInv, Receipts
<1> QED  BY <1>3, <1>4, <1>5, <1>7 DEF BrowserInv

LEMMA BrowserFallbackSet ==
  ASSUME BrowserInv, NEW w \in Workers, Browser!FallbackSet(w)
  PROVE  BrowserInv'
<1> DEFINE r == hook[w].run
           step == IF hook[w].at = "counted" THEN "passed" ELSE "over"
<1>0. Browser!TypeOK /\ hook[w].at \in {"counted", "countedOver"} /\ r \in BrowserRuns
  BY BrowserHook DEF BrowserInv, Browser!FallbackSet, Browser!At
<1>1. /\ UNCHANGED <<charged, status, faults, fetched, granted, troubled>> /\ Browser!Goes(w, step)
      /\ receipt' = receipt \cup {r}
  BY DEF Browser!FallbackSet, Browser!At
<1>2. /\ hook'[w].at = step /\ hook'[w].run = r /\ \A v \in Workers \ {w} : hook'[v] = hook[v]
      /\ hook' \in [Workers -> Browser!Busy \cup {Browser!Idle}]
  BY <1>0, <1>1, BrowserMoves
<1>3. Browser!TypeOK'
  BY <1>0, <1>1, <1>2 DEF Browser!TypeOK
<1>4. Accounted'
  <2>1. Over' \subseteq Over
    BY <1>0, <1>2 DEF Over
  <2> QED  BY <1>1, <1>3, <2>1, BrowserKeeps
<1>5. Meeting'
  BY <1>0, <1>1, <1>2, BrowserMeets
<1>6. step = "passed" => r \in granted
  BY DEF BrowserInv, Receipts
<1>7. Receipts'
  BY <1>0, <1>1, <1>2, <1>6 DEF BrowserInv, Receipts
<1> QED  BY <1>3, <1>4, <1>5, <1>7 DEF BrowserInv

\* An exception leaves the hook; what was carried out stays.
LEMMA BrowserFallbackRaises ==
  ASSUME BrowserInv, NEW w \in Workers, Browser!FallbackRaises(w)
  PROVE  BrowserInv'
<1> DEFINE r == hook[w].run
<1>0. /\ Browser!TypeOK /\ hook[w].at \in {"fallback", "absent", "counted", "countedOver"}
      /\ r \in BrowserRuns
  BY BrowserHook DEF BrowserInv, Browser!FallbackRaises, Browser!At
<1>1. UNCHANGED <<status, fetched>> /\ Browser!Fault /\ Browser!Ends(w)
  BY DEF Browser!FallbackRaises
<1>2. /\ hook'[w].at = "idle" /\ \A v \in Workers \ {w} : hook'[v] = hook[v]
      /\ hook' \in [Workers -> Browser!Busy \cup {Browser!Idle}]
  BY <1>0, <1>1, BrowserMoves
<1>3. \/ UNCHANGED <<charged, receipt, granted, troubled>>
      \/ Browser!Count(r) /\ troubled' = troubled \cup {r} /\ receipt' = receipt
      \/ receipt' = receipt \cup {r} /\ troubled' = troubled \cup {r} /\ UNCHANGED <<charged, granted>>
  BY DEF Browser!FallbackRaises, Browser!Lost
<1>4. Browser!TypeOK'
  BY <1>0, <1>1, <1>2, <1>3, BrowserAssumption DEF Browser!TypeOK, Browser!Count, Browser!Fault
<1>5. Accounted'
  <2>1. Over' \subseteq Over
    BY <1>2 DEF Over
  <2> QED  BY <1>3, <1>4, <2>1, BrowserKeeps, BrowserCounts
<1>6. troubled \subseteq troubled' /\ granted \subseteq granted'
  BY <1>3 DEF Browser!Count
<1>7. Meeting'
  BY <1>0, <1>2, <1>6, BrowserMeets
<1>8. Receipts'
  <2>1. \A s \in receipt' : s \in receipt \/ s \in troubled'
    BY <1>3
  <2> QED  BY <1>0, <1>1, <1>2, <1>6, <2>1 DEF BrowserInv, Receipts
<1> QED  BY <1>4, <1>5, <1>7, <1>8 DEF BrowserInv

\* The reservation is given back, one command after the other.
LEMMA BrowserUndoes ==
  ASSUME BrowserInv, NEW w \in Workers,
         Browser!Undo(w) \/ Browser!Forget(w) \/ Browser!UndoRaises(w)
  PROVE  BrowserInv'
<1> DEFINE r == hook[w].run
<1>0. Browser!TypeOK /\ hook[w].at \in {"over", "undone"} /\ r \in BrowserRuns
  BY BrowserHook DEF BrowserInv, Browser!Undo, Browser!Forget, Browser!UndoRaises, Browser!At
<1>1. /\ UNCHANGED <<status, fetched, granted>>
      /\ faults' = faults \/ Browser!Fault
      /\ troubled' \in {troubled, troubled \cup {r}}
      /\ receipt' \in {receipt, receipt \ {r}}
  BY DEF Browser!Undo, Browser!Forget, Browser!UndoRaises, Browser!Lost
<1>2. PICK step \in {"undone", "refused"} : Browser!Goes(w, step)
  BY DEF Browser!Undo, Browser!Forget, Browser!UndoRaises
<1>3. /\ hook'[w].at = step /\ hook'[w].run = r /\ \A v \in Workers \ {w} : hook'[v] = hook[v]
      /\ hook' \in [Workers -> Browser!Busy \cup {Browser!Idle}]
  BY <1>0, <1>2, BrowserMoves
<1>4. Over' \subseteq Over \ {w}
  BY <1>3 DEF Over
<1>5. charged' = charged \/ (hook[w].at = "over" /\ charged' = Browser!GivenBack(charged))
  BY DEF Browser!Undo, Browser!Forget, Browser!UndoRaises, Browser!At
<1>6. Browser!TypeOK'
  <2>1. charged' \in Nat
    BY <1>0, <1>1, <1>4, <1>5, BrowserGivesBack DEF Browser!TypeOK
  <2> QED  BY <1>0, <1>1, <1>3, <2>1, BrowserAssumption DEF Browser!TypeOK, Browser!Fault
<1>7. Accounted'
  BY <1>1, <1>4, <1>5, <1>6, BrowserKeeps, BrowserGivesBack
<1>8. Meeting'
  BY <1>0, <1>1, <1>3, BrowserMeets
<1>9. Receipts'
  BY <1>0, <1>1, <1>3 DEF BrowserInv, Receipts
<1> QED  BY <1>6, <1>7, <1>8, <1>9 DEF BrowserInv

\* The run is refused, claimed, or left behind by a death.
LEMMA BrowserEnds ==
  ASSUME BrowserInv, NEW w \in Workers, Browser!Refuse(w) \/ Browser!Claim(w) \/ Browser!Die(w)
  PROVE  BrowserInv'
<1> DEFINE r == hook[w].run
<1>0. Browser!TypeOK /\ hook[w].at # "idle" /\ r \in BrowserRuns
  <2>1. hook[w].at # "idle"
    BY DEF Browser!Refuse, Browser!Claim, Browser!Die, Browser!At
  <2> QED  BY <2>1, BrowserHook DEF BrowserInv
<1>1. UNCHANGED <<charged, receipt, granted>> /\ Browser!Ends(w)
  BY DEF Browser!Refuse, Browser!Claim, Browser!Die
<1>2. /\ hook'[w].at = "idle" /\ \A v \in Workers \ {w} : hook'[v] = hook[v]
      /\ hook' \in [Workers -> Browser!Busy \cup {Browser!Idle}]
  BY <1>0, <1>1, BrowserMoves
<1>3. Over' \subseteq Over
  BY <1>2 DEF Over
<1>4. \A v \in Workers \ {w} : hook[v].at # "idle" /\ hook[v].run = r => r \in troubled
  BY <1>0 DEF BrowserInv, Meeting
<1>5. CASE Browser!Refuse(w)
  <2>1. /\ hook[w].at = "refused" /\ UNCHANGED <<faults, fetched, troubled>>
        /\ status' = [status EXCEPT ![r] = "failed"]
    BY <1>5 DEF Browser!Refuse, Browser!At
  <2>2. Browser!TypeOK'
    BY <1>0, <1>1, <1>2, <2>1 DEF Browser!TypeOK
  <2>3. Receipts'
    BY <1>0, <1>1, <1>2, <1>4, <2>1 DEF BrowserInv, Receipts, Browser!TypeOK
  <2> QED  BY <1>0, <1>1, <1>2, <1>3, <2>1, <2>2, <2>3, BrowserKeeps, BrowserMeets DEF BrowserInv
<1>6. CASE Browser!Claim(w)
  <2>1. /\ hook[w].at = "passed" /\ UNCHANGED <<faults, troubled>>
        /\ \/ UNCHANGED <<status, fetched>>
           \/ status' = [status EXCEPT ![r] = "running"] /\ status[r] = "queued" /\ fetched' = fetched \cup {r}
    BY <1>6 DEF Browser!Claim, Browser!At
  <2>2. Browser!TypeOK'
    BY <1>0, <1>1, <1>2, <2>1 DEF Browser!TypeOK
  <2>3. r \in granted \cup troubled
    BY <2>1 DEF BrowserInv, Receipts
  <2>4. \A s \in BrowserRuns : status'[s] = "failed" <=> status[s] = "failed"
    BY <1>0, <2>1 DEF Browser!TypeOK
  <2>5. Receipts'
    <3>1. \A v \in Workers : hook'[v].at # "idle" => hook'[v] = hook[v] /\ hook[v].run \in BrowserRuns
      BY <1>0, <1>2, BrowserHook
    <3>2. receipt \subseteq BrowserRuns
      BY <1>0 DEF Browser!TypeOK
    <3> QED  BY <1>1, <1>2, <2>1, <2>3, <2>4, <3>1, <3>2 DEF BrowserInv, Receipts
  <2> QED  BY <1>0, <1>1, <1>2, <1>3, <2>1, <2>2, <2>5, BrowserKeeps, BrowserMeets DEF BrowserInv
<1>7. CASE Browser!Die(w)
  <2>1. Browser!Fault /\ troubled' = troubled \cup {r} /\ UNCHANGED <<status, fetched>>
    BY <1>7 DEF Browser!Die, Browser!Lost
  <2>2. Browser!TypeOK'
    BY <1>0, <1>1, <1>2, <2>1, BrowserAssumption DEF Browser!TypeOK, Browser!Fault
  <2>3. Receipts'
    BY <1>0, <1>1, <1>2, <2>1 DEF BrowserInv, Receipts
  <2> QED  BY <1>0, <1>1, <1>2, <1>3, <2>1, <2>2, <2>3, BrowserKeeps, BrowserMeets DEF BrowserInv
<1> QED  BY <1>5, <1>6, <1>7

LEMMA BrowserStep == BrowserInv /\ [Browser!Next]_browser => BrowserInv'
<1>1. BrowserInv /\ UNCHANGED browser => BrowserInv'
  <2> SUFFICES ASSUME BrowserInv, UNCHANGED browser PROVE BrowserInv'
    OBVIOUS
  <2>1. Over' = Over
    BY DEF Over, browser
  <2> QED  BY <2>1 DEF browser, BrowserInv, Browser!TypeOK, Accounted, Meeting, Receipts
<1> QED
  BY <1>1, BrowserReceive, BrowserReserve, BrowserScriptRaises, BrowserFallbackExists, BrowserFallbackIncr,
     BrowserFallbackSet, BrowserFallbackRaises, BrowserUndoes, BrowserEnds DEF Browser!Next

LEMMA BrowserCardinality ==
  ASSUME NEW S
  PROVE  Browser!Cardinality(S) = Cardinality(S)
  BY DEF Browser!Cardinality, Cardinality

LEMMA BrowserAlways == AllSpec => [](part = "browser" => BrowserInv)
<1> DEFINE I == part = "browser" => BrowserInv
<1>1. AllInit => I
  BY BrowserInit DEF AllInit
<1>2. I /\ [AllNext]_allVars => I'
  <2> SUFFICES ASSUME I, [AllNext]_allVars, part' = "browser" PROVE BrowserInv'
    OBVIOUS
  <2>1. part = "browser" /\ [Browser!Next]_browser
    BY DEF AllNext, allVars
  <2> QED  BY <2>1, BrowserStep
<1> QED  BY <1>1, <1>2, PTL DEF AllSpec

\* browser_checks.py: no more browser runs are counted within the limit than the plan
\* allows, whatever comes of messages, commands and workers; and another run is fetched only
\* where two of its messages met, its worker died, or a reply was lost.
THEOREM QuotaIsKept == AllSpec => []QuotaKept
<1>1. (part = "browser" => BrowserInv) => QuotaKept
  BY BrowserCardinality DEF QuotaKept, Browser!QuotaKept, BrowserInv, Accounted, Receipts
<1> QED  BY <1>1, BrowserAlways, PTL

-----------------------------------------------------------------------------
(* The daily quota.                                                        *)

\* What is under way, of runs and of requests.
Executing(runs) == {r \in QuotaRuns : runs[r].step \notin {"none", "dead"}}

Waiting(requests) == {q \in Askers : requests[q].at # "idle"}

DailyInv ==
  /\ Daily!TypeOK
  /\ checks = counted
  /\ checks + Daily!UnderWay(runOf, request) < Limit + allowed

LEMMA DailyCardinality ==
  ASSUME NEW S
  PROVE  Daily!Cardinality(S) = Cardinality(S)
  BY DEF Daily!Cardinality, Cardinality

LEMMA DailyUnderWay ==
  ASSUME NEW runs, NEW requests
  PROVE  /\ Daily!UnderWay(runs, requests) = Cardinality(Executing(runs)) + Cardinality(Waiting(requests))
         /\ IsFiniteSet(Executing(runs)) /\ Cardinality(Executing(runs)) \in Nat
         /\ IsFiniteSet(Waiting(requests)) /\ Cardinality(Waiting(requests)) \in Nat
         /\ Daily!UnderWay(runs, requests) \in Nat
<1>1. /\ IsFiniteSet(Executing(runs)) /\ Cardinality(Executing(runs)) \in Nat
      /\ IsFiniteSet(Waiting(requests)) /\ Cardinality(Waiting(requests)) \in Nat
  <2>1. Executing(runs) \subseteq QuotaRuns /\ Waiting(requests) \subseteq Askers
    BY DEF Executing, Waiting
  <2> QED  BY <2>1, NoMore, QuotaAssumption
<1>2. Daily!UnderWay(runs, requests) = Cardinality(Executing(runs)) + Cardinality(Waiting(requests))
  BY DailyCardinality, Zenon DEF Daily!UnderWay, Executing, Waiting
<1> QED  BY <1>1, <1>2

\* Nothing begins.
LEMMA DailyNoMore ==
  ASSUME NEW runs, NEW later, NEW requests, NEW others,
         Executing(later) \subseteq Executing(runs), Waiting(others) \subseteq Waiting(requests)
  PROVE  Daily!UnderWay(later, others) <= Daily!UnderWay(runs, requests)
<1>1. /\ Cardinality(Executing(later)) <= Cardinality(Executing(runs))
      /\ Cardinality(Waiting(others)) <= Cardinality(Waiting(requests))
  BY NoMore, DailyUnderWay
<1> QED  BY <1>1, DailyUnderWay

\* One run begins.
LEMMA DailyOneMore ==
  ASSUME NEW runs, NEW later, NEW requests, NEW r, Executing(later) \subseteq Executing(runs) \cup {r}
  PROVE  Daily!UnderWay(later, requests) <= Daily!UnderWay(runs, requests) + 1
<1>1. Cardinality(Executing(later)) <= Cardinality(Executing(runs)) + 1
  BY OneMore, DailyUnderWay
<1> QED  BY <1>1, DailyUnderWay

\* One run ends.
LEMMA DailyOneLess ==
  ASSUME NEW runs, NEW later, NEW requests, NEW r \in Executing(runs),
         Executing(later) \subseteq Executing(runs) \ {r}
  PROVE  Daily!UnderWay(later, requests) <= Daily!UnderWay(runs, requests) - 1
<1>1. Cardinality(Executing(later)) <= Cardinality(Executing(runs)) - 1
  BY OneLess, DailyUnderWay
<1> QED  BY <1>1, DailyUnderWay

\* A request makes room for the run it inserts.
LEMMA DailyPassesOn ==
  ASSUME NEW runs, NEW later, NEW requests, NEW others, NEW r, NEW q \in Waiting(requests),
         Executing(later) \subseteq Executing(runs) \cup {r},
         Waiting(others) \subseteq Waiting(requests) \ {q}
  PROVE  Daily!UnderWay(later, others) <= Daily!UnderWay(runs, requests)
<1>1. /\ Cardinality(Executing(later)) <= Cardinality(Executing(runs)) + 1
      /\ Cardinality(Waiting(others)) <= Cardinality(Waiting(requests)) - 1
  BY OneMore, OneLess, DailyUnderWay
<1> QED  BY <1>1, DailyUnderWay

LEMMA DailyInit == Daily!Init => DailyInv
<1> SUFFICES ASSUME Daily!Init PROVE DailyInv
  OBVIOUS
<1>1. Executing(runOf) = {} /\ Waiting(request) = {}
  BY DEF Executing, Waiting, Daily!Init, Daily!NoRun, Daily!NoRequest
<1>2. Daily!UnderWay(runOf, request) = 0
  BY <1>1, DailyUnderWay, FS_EmptySet
<1>3. made \in BOOLEAN /\ fresh \in BOOLEAN
  BY Zenon DEF Daily!Init
<1>4. Daily!TypeOK
  BY <1>3, QuotaAssumption DEF Daily!TypeOK, Daily!Init
<1> QED
  BY <1>2, <1>4, QuotaAssumption DEF DailyInv, Daily!Init

\* The end of a transaction, and the making of a row, keep the types of the lock.
Lock ==
  made \in BOOLEAN /\ fresh \in BOOLEAN /\ holder \in {"nobody", "scheduler"} \cup QuotaRuns \cup Askers

LEMMA DailyRelease ==
  ASSUME Lock, NEW t, NEW commit, Daily!Release(t, commit)
  PROVE  Lock'
<1>1. made' \in BOOLEAN /\ fresh' \in BOOLEAN
  BY Zenon DEF Lock, Daily!Release
<1>2. holder' \in {"nobody", "scheduler"} \cup QuotaRuns \cup Askers
  BY DEF Lock, Daily!Release
<1> QED  BY <1>1, <1>2 DEF Lock

LEMMA DailyGetOrCreate ==
  ASSUME Lock, NEW t \in {"scheduler"} \cup Askers, Daily!GetOrCreate(t), made' = made
  PROVE  Lock'
<1>1. CASE made \/ fresh
  BY <1>1 DEF Lock, Daily!GetOrCreate
<1>2. CASE ~(made \/ fresh)
  <2>1. holder' = t /\ fresh' = TRUE
    BY <1>2, Zenon DEF Daily!GetOrCreate
  <2>2. fresh' \in BOOLEAN
    BY <2>1, Zenon
  <2> QED  BY <2>1, <2>2 DEF Lock
<1> QED  BY <1>1, <1>2

\* Rows that are made, ended and left.
LEMMA DailyRows ==
  ASSUME NEW m \in Monitors, NEW step \in {"claimed", "queued"}
  PROVE  Daily!Row(m, step) \in Daily!Begun
<1>1. TRUE \in BOOLEAN
  BY Zenon
<1> QED  BY <1>1 DEF Daily!Row, Daily!Begun

LEMMA DailyEnded ==
  ASSUME NEW run \in Daily!Begun
  PROVE  /\ Daily!Ended(run) \in Daily!Begun \cup {Daily!NoRun}
         /\ Daily!Ended(run).step \in {run.step, "none"}
<1>1. FALSE \in BOOLEAN
  BY Zenon
<1>2. CASE run.step \in {"counted", "locked"}
  <2>1. Daily!Ended(run) = [run EXCEPT !.live = FALSE]
    BY <1>2 DEF Daily!Ended
  <2> QED  BY <1>1, <2>1 DEF Daily!Begun
<1>3. CASE run.step \notin {"counted", "locked"}
  BY <1>3 DEF Daily!Ended, Daily!NoRun
<1> QED  BY <1>2, <1>3

\* The runs, when one of them begins.
LEMMA DailyBegins ==
  ASSUME Daily!TypeOK, NEW m \in Monitors, NEW step \in {"claimed", "queued"}, Daily!Begins(m, step)
  PROVE  /\ runOf' \in [QuotaRuns -> Daily!Begun \cup {Daily!NoRun}]
         /\ \E r \in QuotaRuns : Executing(runOf') \subseteq Executing(runOf) \cup {r}
<1>1. PICK r \in QuotaRuns : runOf[r] = Daily!NoRun /\ runOf' = [runOf EXCEPT ![r] = Daily!Row(m, step)]
  BY DEF Daily!Begins
<1>2. Daily!Row(m, step) \in Daily!Begun
  BY DailyRows
<1>3. Executing(runOf') \subseteq Executing(runOf) \cup {r}
  BY <1>1 DEF Executing, Daily!TypeOK
<1> QED  BY <1>1, <1>2, <1>3 DEF Daily!TypeOK

\* The rest of the type, but for the lock.
Kept ==
  /\ day \in 1..2 /\ checks \in 0..MaxChecks /\ counted \in 0..MaxChecks /\ allowed \in Nat
  /\ runOf \in [QuotaRuns -> Daily!Begun \cup {Daily!NoRun}]
  /\ request \in [Askers -> Daily!Asking \cup {Daily!NoRequest}]
  /\ held \subseteq Monitors /\ todo \subseteq held /\ young \subseteq Monitors

LEMMA DailyTyped == Daily!TypeOK <=> Lock /\ Kept
BY DEF Daily!TypeOK, Lock, Kept

\* What is left of the invariant by a step with which nothing begins.
LEMMA DailyKeeps ==
  ASSUME DailyInv, Lock', Kept', UNCHANGED <<checks, counted, allowed>>,
         Executing(runOf') \subseteq Executing(runOf), Waiting(request') \subseteq Waiting(request)
  PROVE  DailyInv'
<1>1. Daily!UnderWay(runOf', request') <= Daily!UnderWay(runOf, request)
  BY DailyNoMore
<1>2. Daily!UnderWay(runOf', request') \in Nat /\ Daily!UnderWay(runOf, request) \in Nat
  BY DailyUnderWay
<1>3. checks \in Nat /\ allowed \in Nat
  BY QuotaAssumption DEF DailyInv, Daily!TypeOK
<1>4. Daily!TypeOK'
  BY DailyTyped DEF Daily!TypeOK, Lock, Kept
<1> QED
  BY <1>1, <1>2, <1>3, <1>4, QuotaAssumption DEF DailyInv

\* The scheduler's claim: the lock, the commit, the abort.
LEMMA DailyLockDue ==
  ASSUME DailyInv, Daily!LockDue
  PROVE  DailyInv'
<1>1. Lock /\ Kept
  BY DailyTyped DEF DailyInv
<1>2. UNCHANGED <<day, made, checks, holder, fresh, runOf, request, young, counted, allowed>>
  BY DEF Daily!LockDue
<1>3. held' \subseteq Monitors /\ todo' \subseteq held'
  BY DEF Daily!LockDue
<1>4. Lock' /\ Kept'
  BY <1>1, <1>2, <1>3 DEF Lock, Kept
<1> QED  BY <1>2, <1>4, DailyKeeps

LEMMA DailyClaimCommit ==
  ASSUME DailyInv, Daily!ClaimCommit
  PROVE  DailyInv'
<1>1. Lock /\ Kept
  BY DailyTyped DEF DailyInv
<1>2. /\ UNCHANGED <<day, checks, request, young, counted, allowed, todo>> /\ held' = {} /\ todo = {}
      /\ runOf' = [r \in QuotaRuns |-> IF runOf[r].step = "claimed"
                                       THEN Daily!Row(runOf[r].of, "queued") ELSE runOf[r]]
  BY DEF Daily!ClaimCommit
<1>3. Lock'
  BY <1>1, DailyRelease DEF Daily!ClaimCommit
<1>4. \A r \in QuotaRuns : runOf[r].step = "claimed" => Daily!Row(runOf[r].of, "queued") \in Daily!Begun
  <2> SUFFICES ASSUME NEW r \in QuotaRuns, runOf[r].step = "claimed"
               PROVE  Daily!Row(runOf[r].of, "queued") \in Daily!Begun
    OBVIOUS
  <2>1. runOf[r].of \in Monitors
    BY <1>1 DEF Kept, Daily!Begun, Daily!NoRun
  <2> QED  BY <2>1, DailyRows
<1>5. Kept'
  BY <1>1, <1>2, <1>4 DEF Kept
<1>6. Executing(runOf') \subseteq Executing(runOf)
  BY <1>2 DEF Executing
<1> QED  BY <1>2, <1>3, <1>5, <1>6, DailyKeeps DEF Waiting

LEMMA DailyDeadlockAbort ==
  ASSUME DailyInv, Daily!DeadlockAbort
  PROVE  DailyInv'
<1>1. Lock /\ Kept
  BY DailyTyped DEF DailyInv
<1>2. /\ UNCHANGED <<day, checks, request, young, counted, allowed>> /\ held' = {} /\ todo' = {}
      /\ runOf' = [r \in QuotaRuns |-> IF runOf[r].step = "claimed" THEN Daily!NoRun ELSE runOf[r]]
  BY DEF Daily!DeadlockAbort
<1>3. Lock'
  BY <1>1, DailyRelease DEF Daily!DeadlockAbort
<1>4. Kept'
  BY <1>1, <1>2 DEF Kept
<1>5. Executing(runOf') \subseteq Executing(runOf)
  BY <1>2 DEF Executing, Daily!NoRun
<1> QED  BY <1>2, <1>3, <1>4, <1>5, DailyKeeps DEF Waiting

\* Wherever the quota is found to be left, all that is under way is allowed.
LEMMA DailyLook ==
  ASSUME DailyInv, Lock', Kept', UNCHANGED <<checks, counted>>, Daily!QuotaLeft(checks),
         allowed' = Daily!UnderWay(runOf', request')
  PROVE  DailyInv'
<1>1. checks < Limit /\ checks \in Nat
  BY QuotaAssumption DEF DailyInv, Daily!TypeOK, Daily!QuotaLeft
<1>2. Daily!UnderWay(runOf', request') \in Nat
  BY DailyUnderWay
<1>3. Daily!TypeOK'
  BY DailyTyped DEF Daily!TypeOK, Lock, Kept
<1> QED  BY <1>1, <1>2, <1>3, QuotaAssumption DEF DailyInv

LEMMA DailyClaimNext ==
  ASSUME DailyInv, NEW m \in Monitors, Daily!ClaimNext(m)
  PROVE  DailyInv'
<1>1. Lock /\ Kept
  BY DailyTyped DEF DailyInv
<1>2. UNCHANGED <<day, made, checks, held, request, young, counted>> /\ todo' = todo \ {m}
  BY DEF Daily!ClaimNext
<1>3. CASE Daily!Active(m) # {}
  <2>1. UNCHANGED <<holder, fresh, runOf, allowed>>
    BY <1>3 DEF Daily!ClaimNext
  <2>2. Lock' /\ Kept'
    BY <1>1, <1>2, <2>1 DEF Lock, Kept
  <2> QED  BY <1>2, <2>1, <2>2, DailyKeeps
<1>4. CASE Daily!Active(m) = {}
  <2>1. Lock'
    BY <1>1, <1>2, <1>4, DailyGetOrCreate DEF Daily!ClaimNext
  <2>2. CASE ~Daily!QuotaLeft(checks)
    <3>1. UNCHANGED <<runOf, allowed>>
      BY <1>4, <2>2 DEF Daily!ClaimNext
    <3>2. Kept'
      BY <1>1, <1>2, <3>1 DEF Kept
    <3> QED  BY <1>2, <2>1, <3>1, <3>2, DailyKeeps
  <2>3. CASE Daily!QuotaLeft(checks)
    <3>1. /\ runOf' = runOf \/ Daily!Begins(m, "claimed")
          /\ allowed' = Daily!UnderWay(runOf', request)
      BY <1>4, <2>3 DEF Daily!ClaimNext
    <3>2. runOf' \in [QuotaRuns -> Daily!Begun \cup {Daily!NoRun}]
      BY <1>1, <3>1, DailyBegins DEF DailyInv, Kept
    <3>3. allowed' \in Nat /\ allowed' = Daily!UnderWay(runOf', request')
      BY <1>2, <3>1, DailyUnderWay
    <3>4. Kept'
      BY <1>1, <1>2, <3>2, <3>3 DEF Kept
    <3> QED  BY <1>2, <2>1, <2>3, <3>3, <3>4, DailyLook
  <2> QED  BY <2>2, <2>3
<1> QED  BY <1>3, <1>4

\* Requests: the first look, the second, the insert, the end.
LEMMA DailyAsk ==
  ASSUME DailyInv, NEW q \in Askers, Daily!Ask(q)
  PROVE  DailyInv'
<1>1. Lock /\ Kept
  BY DailyTyped DEF DailyInv
<1>2. /\ UNCHANGED <<day, made, checks, runOf, held, todo, young, counted>> /\ Daily!QuotaLeft(checks)
      /\ allowed' = Daily!UnderWay(runOf, request') /\ Daily!GetOrCreate(q)
  BY DEF Daily!Ask
<1>3. PICK m \in Monitors : request' = [request EXCEPT ![q] = [at |-> "asked", of |-> m]]
  BY DEF Daily!Ask
<1>4. request' \in [Askers -> Daily!Asking \cup {Daily!NoRequest}]
  BY <1>1, <1>3 DEF Kept, Daily!Asking
<1>5. Lock'
  BY <1>1, <1>2, DailyGetOrCreate
<1>6. allowed' \in Nat /\ allowed' = Daily!UnderWay(runOf', request')
  BY <1>2, DailyUnderWay
<1>7. Kept'
  BY <1>1, <1>2, <1>4, <1>6 DEF Kept
<1> QED  BY <1>2, <1>5, <1>6, <1>7, DailyLook

LEMMA DailyLookAgain ==
  ASSUME DailyInv, NEW q \in Askers, Daily!Look(q)
  PROVE  DailyInv'
<1>1. Lock /\ Kept
  BY DailyTyped DEF DailyInv
<1>2. /\ UNCHANGED <<day, checks, held, todo, young, counted, allowed>>
      /\ request[q].at = "asked" /\ request' = [request EXCEPT ![q].at = "looked"]
  BY DEF Daily!Look
<1>3. request' \in [Askers -> Daily!Asking \cup {Daily!NoRequest}]
  BY <1>1, <1>2 DEF Kept, Daily!Asking, Daily!NoRequest
<1>4. Waiting(request') \subseteq Waiting(request)
  BY <1>1, <1>2 DEF Kept, Waiting
<1>5. CASE UNCHANGED <<made, holder, fresh, runOf>>
  <2>1. Lock' /\ Kept'
    BY <1>1, <1>2, <1>3, <1>5 DEF Lock, Kept
  <2> QED  BY <1>2, <1>4, <1>5, <2>1, DailyKeeps
<1>6. ASSUME NEW r \in Daily!Active(request[q].of), runOf' = [runOf EXCEPT ![r] = Daily!Ended(runOf[r])],
             Daily!Release(q, TRUE)
      PROVE  DailyInv'
  <2>1. Lock'
    BY <1>1, <1>6, DailyRelease
  <2>2. r \in QuotaRuns /\ runOf[r] \in Daily!Begun
    BY <1>1 DEF Kept, Daily!Active, Daily!NoRun
  <2>3. /\ Daily!Ended(runOf[r]) \in Daily!Begun \cup {Daily!NoRun}
        /\ Daily!Ended(runOf[r]).step \in {runOf[r].step, "none"}
    BY <2>2, DailyEnded
  <2>4. Kept'
    BY <1>1, <1>2, <1>3, <1>6, <2>3 DEF Kept
  <2>5. Executing(runOf') \subseteq Executing(runOf)
    BY <1>1, <1>6, <2>3 DEF Kept, Executing
  <2> QED  BY <1>2, <1>4, <2>1, <2>4, <2>5, DailyKeeps
<1> QED  BY <1>5, <1>6, Zenon DEF Daily!Look

LEMMA DailyInsert ==
  ASSUME DailyInv, NEW q \in Askers, Daily!Insert(q)
  PROVE  DailyInv'
<1>1. Lock /\ Kept
  BY DailyTyped DEF DailyInv
<1>2. /\ UNCHANGED <<day, checks, held, todo, young, counted, allowed>> /\ Daily!Release(q, TRUE)
      /\ request[q].at = "looked" /\ request' = [request EXCEPT ![q] = Daily!NoRequest]
      /\ Daily!Begins(request[q].of, "queued")
  BY DEF Daily!Insert
<1>3. request[q].of \in Monitors /\ q \in Waiting(request)
  BY <1>1, <1>2 DEF Kept, Daily!Asking, Daily!NoRequest, Waiting
<1>4. /\ runOf' \in [QuotaRuns -> Daily!Begun \cup {Daily!NoRun}]
      /\ \E r \in QuotaRuns : Executing(runOf') \subseteq Executing(runOf) \cup {r}
  BY <1>2, <1>3, DailyBegins DEF DailyInv
<1>5. Lock'
  BY <1>1, <1>2, DailyRelease
<1>6. Kept'
  BY <1>1, <1>2, <1>4 DEF Kept
<1>7. Waiting(request') \subseteq Waiting(request) \ {q}
  BY <1>1, <1>2 DEF Kept, Waiting, Daily!NoRequest
<1>8. Daily!UnderWay(runOf', request') <= Daily!UnderWay(runOf, request)
  BY <1>3, <1>4, <1>7, DailyPassesOn
<1>9. Daily!UnderWay(runOf', request') \in Nat /\ Daily!UnderWay(runOf, request) \in Nat
  BY DailyUnderWay
<1>10. checks \in Nat /\ allowed \in Nat
  BY QuotaAssumption DEF DailyInv, Daily!TypeOK
<1>11. Daily!TypeOK'
  BY <1>5, <1>6, DailyTyped DEF Daily!TypeOK, Lock, Kept
<1> QED  BY <1>2, <1>8, <1>9, <1>10, <1>11, QuotaAssumption DEF DailyInv

LEMMA DailyRequestEnds ==
  ASSUME DailyInv, NEW q \in Askers, Daily!RequestEnds(q)
  PROVE  DailyInv'
<1>1. Lock /\ Kept
  BY DailyTyped DEF DailyInv
<1>2. /\ UNCHANGED <<day, checks, runOf, held, todo, young, counted, allowed>> /\ Daily!Release(q, FALSE)
      /\ request' = [request EXCEPT ![q] = Daily!NoRequest]
  BY DEF Daily!RequestEnds
<1>3. Lock'
  BY <1>1, <1>2, DailyRelease
<1>4. Kept'
  BY <1>1, <1>2 DEF Kept
<1>5. Waiting(request') \subseteq Waiting(request)
  BY <1>1, <1>2 DEF Kept, Waiting, Daily!NoRequest
<1> QED  BY <1>2, <1>3, <1>4, <1>5, DailyKeeps

\* A run that begins without a look is one more that is allowed.
LEMMA DailyRunNow ==
  ASSUME DailyInv, NEW m \in Monitors, Daily!RunNow(m)
  PROVE  DailyInv'
<1>0. /\ Daily!Begins(m, "queued") /\ allowed' = allowed + 1
      /\ UNCHANGED <<day, made, checks, holder, fresh, held, todo, request, counted>>
      /\ young' \subseteq young
  BY DEF Daily!RunNow
<1>1. Lock /\ Kept
  BY DailyTyped DEF DailyInv
<1>2. /\ runOf' \in [QuotaRuns -> Daily!Begun \cup {Daily!NoRun}]
      /\ \E r \in QuotaRuns : Executing(runOf') \subseteq Executing(runOf) \cup {r}
  BY <1>0, DailyBegins DEF DailyInv
<1>3. Lock' /\ Kept'
  BY <1>0, <1>1, <1>2 DEF Lock, Kept
<1>4. Daily!UnderWay(runOf', request) <= Daily!UnderWay(runOf, request) + 1
  BY <1>2, DailyOneMore
<1>5. Daily!UnderWay(runOf', request) \in Nat /\ Daily!UnderWay(runOf, request) \in Nat
  BY DailyUnderWay
<1>6. checks \in Nat /\ allowed \in Nat /\ request' = request
  BY <1>0, QuotaAssumption DEF DailyInv, Daily!TypeOK
<1>7. Daily!TypeOK'
  BY <1>3, DailyTyped DEF Daily!TypeOK, Lock, Kept
<1>8. Daily!UnderWay(runOf', request') = Daily!UnderWay(runOf', request)
  BY <1>6
<1> QED  BY <1>0, <1>4, <1>5, <1>6, <1>7, <1>8, QuotaAssumption DEF DailyInv

\* The worker on its way to the commit, or back.
LEMMA DailyWorker ==
  ASSUME DailyInv, NEW r \in QuotaRuns,
         Daily!Increment(r) \/ Daily!LockMonitor(r) \/ Daily!Rollback(r) \/ Daily!Reap(r)
  PROVE  DailyInv'
<1>1. Lock /\ Kept
  BY DailyTyped DEF DailyInv
<1>2. UNCHANGED <<day, checks, held, todo, request, young, counted, allowed>>
  BY DEF Daily!Increment, Daily!LockMonitor, Daily!Rollback, Daily!Reap
<1>3. runOf[r] \in Daily!Begun
  <2>1. runOf[r].step # "none"
    BY DEF Daily!Increment, Daily!LockMonitor, Daily!Rollback, Daily!Reap
  <2> QED  BY <1>1, <2>1 DEF Kept, Daily!NoRun
<1>4. Lock'
  <2>1. CASE Daily!Increment(r)
    <3>1. holder' = r /\ fresh' = ~made /\ made' = made
      BY <2>1, Zenon DEF Daily!Increment
    <3>2. fresh' \in BOOLEAN
      BY <3>1, Zenon
    <3> QED  BY <1>1, <3>1, <3>2 DEF Lock
  <2>2. CASE Daily!Rollback(r)
    BY <1>1, <2>2, DailyRelease DEF Daily!Rollback
  <2>3. CASE Daily!LockMonitor(r) \/ Daily!Reap(r)
    BY <1>1, <2>3 DEF Lock, Daily!LockMonitor, Daily!Reap
  <2> QED  BY <2>1, <2>2, <2>3
<1>5. PICK run \in Daily!Begun \cup {Daily!NoRun} :
        /\ runOf' = [runOf EXCEPT ![r] = run]
        /\ run.step \in {"none", "dead"} \/ runOf[r].step \notin {"none", "dead"}
  <2>1. CASE Daily!Increment(r)
    <3>1. runOf' = [runOf EXCEPT ![r] = [runOf[r] EXCEPT !.step = "counted"]] /\ runOf[r].step = "queued"
      BY <2>1 DEF Daily!Increment
    <3> QED  BY <1>3, <3>1 DEF Daily!Begun
  <2>2. CASE Daily!LockMonitor(r)
    <3>1. runOf' = [runOf EXCEPT ![r] = [runOf[r] EXCEPT !.step = "locked"]] /\ runOf[r].step = "counted"
      BY <2>2 DEF Daily!LockMonitor
    <3> QED  BY <1>3, <3>1 DEF Daily!Begun
  <2>3. CASE Daily!Rollback(r)
    <3>1. \/ runOf' = [runOf EXCEPT ![r] = Daily!NoRun]
          \/ runOf' = [runOf EXCEPT ![r] = [runOf[r] EXCEPT !.step = "dead"]]
      BY <2>3 DEF Daily!Rollback
    <3> QED  BY <1>3, <3>1 DEF Daily!Begun, Daily!NoRun
  <2>4. CASE Daily!Reap(r)
    <3>1. runOf' = [runOf EXCEPT ![r] = Daily!Ended(runOf[r])]
      BY <2>4 DEF Daily!Reap
    <3>2. /\ Daily!Ended(runOf[r]) \in Daily!Begun \cup {Daily!NoRun}
          /\ Daily!Ended(runOf[r]).step \in {runOf[r].step, "none"}
      BY <1>3, DailyEnded
    <3> QED  BY <3>1, <3>2
  <2> QED  BY <2>1, <2>2, <2>3, <2>4
<1>6. Kept'
  BY <1>1, <1>2, <1>5 DEF Kept
<1>7. Executing(runOf') \subseteq Executing(runOf)
  BY <1>1, <1>5 DEF Kept, Executing
<1> QED  BY <1>2, <1>4, <1>6, <1>7, DailyKeeps

\* A result is counted while its run is under way, which ends.
LEMMA DailyCommit ==
  ASSUME DailyInv, NEW r \in QuotaRuns, Daily!Commit(r)
  PROVE  DailyInv'
<1>1. Lock /\ Kept
  BY DailyTyped DEF DailyInv
<1>2. /\ UNCHANGED <<day, held, todo, request, young, allowed>> /\ Daily!Release(r, TRUE)
      /\ runOf[r].step = "locked" /\ runOf' = [runOf EXCEPT ![r] = Daily!NoRun]
      /\ checks' = checks + 1 /\ counted' = counted + 1 /\ counted < MaxChecks
  BY DEF Daily!Commit, Daily!Incremented
<1>3. Lock'
  BY <1>1, <1>2, DailyRelease
<1>4. Kept'
  BY <1>1, <1>2, QuotaAssumption DEF Kept, DailyInv
<1>5. r \in Executing(runOf) /\ Executing(runOf') \subseteq Executing(runOf) \ {r}
  BY <1>1, <1>2 DEF Kept, Executing, Daily!NoRun
<1>6. Daily!UnderWay(runOf', request) <= Daily!UnderWay(runOf, request) - 1
  BY <1>5, DailyOneLess
<1>7. Daily!UnderWay(runOf', request) \in Nat /\ Daily!UnderWay(runOf, request) \in Nat
  BY DailyUnderWay
<1>8. Daily!TypeOK'
  BY <1>3, <1>4, DailyTyped DEF Daily!TypeOK, Lock, Kept
<1>9. checks \in Nat /\ allowed \in Nat
  BY QuotaAssumption DEF DailyInv, Daily!TypeOK
<1>10. Daily!UnderWay(runOf', request') = Daily!UnderWay(runOf', request)
  BY <1>2
<1> QED  BY <1>2, <1>6, <1>7, <1>8, <1>9, <1>10, QuotaAssumption DEF DailyInv

\* The counter of the new day has counted nothing of what is under way.
LEMMA DailyMidnight ==
  ASSUME DailyInv, Daily!Midnight
  PROVE  DailyInv'
<1>1. Lock /\ Kept
  BY DailyTyped DEF DailyInv
<1>2. /\ UNCHANGED <<holder, fresh, runOf, held, todo, request, young, allowed>>
      /\ day' = 2 /\ made' = FALSE /\ checks' = 0 /\ counted' = 0
  BY DEF Daily!Midnight
<1>3. Lock'
  <2>1. made' \in BOOLEAN
    BY <1>2, Zenon
  <2> QED  BY <1>1, <1>2, <2>1 DEF Lock
<1>4. Kept'
  BY <1>1, <1>2, QuotaAssumption DEF Kept
<1>5. Daily!UnderWay(runOf', request') = Daily!UnderWay(runOf, request)
  BY <1>2
<1>6. Daily!UnderWay(runOf, request) \in Nat /\ checks \in Nat /\ allowed \in Nat
  BY DailyUnderWay, QuotaAssumption DEF DailyInv, Daily!TypeOK
<1>7. Daily!TypeOK'
  BY <1>3, <1>4, DailyTyped DEF Daily!TypeOK, Lock, Kept
<1> QED  BY <1>2, <1>5, <1>6, <1>7, QuotaAssumption DEF DailyInv

LEMMA DailyStep == DailyInv /\ [Daily!Next]_daily => DailyInv'
<1>1. ASSUME DailyInv, UNCHANGED daily
      PROVE  DailyInv'
  <2>1. Lock /\ Kept
    BY <1>1, DailyTyped DEF DailyInv
  <2>2. UNCHANGED <<day, made, checks, holder, fresh, runOf, held, todo, request, young, counted, allowed>>
    BY <1>1 DEF daily
  <2>3. Lock' /\ Kept'
    BY <2>1, <2>2 DEF Lock, Kept
  <2> QED  BY <1>1, <2>2, <2>3, DailyKeeps
<1> QED
  BY <1>1, DailyLockDue, DailyClaimCommit, DailyDeadlockAbort, DailyMidnight, DailyClaimNext, DailyRunNow,
     DailyAsk, DailyLookAgain, DailyInsert, DailyRequestEnds, DailyWorker, DailyCommit DEF Daily!Next

LEMMA DailyAlways == AllSpec => [](part = "daily" => DailyInv)
<1> DEFINE I == part = "daily" => DailyInv
<1>1. AllInit => I
  BY DailyInit DEF AllInit
<1>2. I /\ [AllNext]_allVars => I'
  <2> SUFFICES ASSUME I, [AllNext]_allVars, part' = "daily" PROVE DailyInv'
    OBVIOUS
  <2>1. part = "daily" /\ [Daily!Next]_daily
    BY DEF AllNext, allVars
  <2> QED  BY <2>1, DailyStep
<1> QED  BY <1>1, <1>2, PTL DEF AllSpec

\* usage.py, plans.py: the counter is exact, and exceeded by no more than was under way when
\* the quota was last found to be left, and what has begun without a look since.
THEOREM QuotaIsHeld == AllSpec => []QuotaHeld
<1>1. (part = "daily" => DailyInv) => QuotaHeld
  BY DEF QuotaHeld, Daily!QuotaHeld, Daily!CountExact, Daily!OvershootBounded, DailyInv
<1> QED  BY <1>1, DailyAlways, PTL

-----------------------------------------------------------------------------
(* Stored pages.                                                           *)

\* The rows are those of checks that are over, and what the check under way will
\* name is in the store.
CheckAhead ==
  /\ \A r \in Snap!Rows : r <= check.run
  /\ check.step # "none" =>
       /\ check.run \notin Snap!Rows
       /\ \A k \in check.keys : <<check.run, k>> \in objects

\* What is purged is old, has a row, and is no event's.
PurgesOld ==
  /\ purge.left \subseteq purge.old /\ purge.old \subseteq oldSnap \cap Snap!Rows
  /\ purge.step = "objects" => purge.old \cap Snap!Events = {}

\* A row whose objects are gone is old, no event's, and the purge is at it or, after
\* one that died, will come to it.
Losing(r) ==
  /\ r \in oldSnap \ Snap!Events
  /\ CASE purge.step = "idle"    -> torn
       [] purge.step = "refs"    -> torn /\ r \in purge.old
       [] purge.step = "objects" -> r \in purge.old

SnapKept ==
  /\ CheckAhead /\ PurgesOld
  /\ Snap!Events \subseteq Snap!Rows
  /\ \A r \in Snap!Rows : Snap!Stored(r) \/ Losing(r)

SnapTyped == Snap!TypeOK /\ (check.step # "none" => check.run \in Runs)

SnapInv == SnapTyped /\ (removal.step = "none" => SnapKept)

LEMMA Everywhere ==
  ASSUME NEW S, NEW V, NEW v
  PROVE  [x \in S |-> v] \in [S -> V \cup {v}]
  OBVIOUS

LEMMA SnapInit == Snap!Init => SnapInv
<1> SUFFICES ASSUME Snap!Init PROVE SnapInv
  OBVIOUS
<1> USE SnapshotAssumption DEF Snap!Init, Snap!NoCheck, Snap!NoPurge, Snap!NoRemoval
<1>1. torn \in BOOLEAN
  BY Zenon
<1>2. check \in [run : {0} \cup Runs, step : {"none", "compare", "commit"},
                keys : SUBSET Snap!Keys, prev : {0} \cup Runs, changed : BOOLEAN]
  <2>1. FALSE \in BOOLEAN
    BY Zenon
  <2> QED  BY <2>1
<1>3. SnapTyped
  <2>1. row \in [Runs -> (SUBSET Snap!Keys) \cup {Snap!NoRow}]
    BY Everywhere
  <2>2. event \in [Runs -> {0, Snap!NoEvent} \cup Runs]
    BY Zenon
  <2> QED  BY <1>1, <1>2, <2>1, <2>2 DEF Snap!TypeOK, SnapTyped
<1>4. Snap!Rows = {} /\ Snap!Events = {}
  BY Zenon DEF Snap!Rows, Snap!Events
<1> QED
  BY <1>3, <1>4 DEF SnapInv, SnapKept, CheckAhead, PurgesOld

\* The mark of a purge that died is Boolean.
LEMMA SnapMark ==
  ASSUME Snap!TypeOK, [Snap!Next]_snap
  PROVE  torn' \in BOOLEAN
<1>1. torn' = torn \/ torn' = TRUE \/ torn' = FALSE
  BY Zenon DEF Snap!Next, Snap!Store, Snap!Compare, Snap!CommitCheck, Snap!CheckDies, Snap!Age, Snap!PurgeRead,
     Snap!PurgeRefs, Snap!PurgeObjects, Snap!PurgeCommit, Snap!PurgeDies, Snap!RemovalRead,
     Snap!RemovalObjects, Snap!RemovalCommit, snap
<1>2. torn \in BOOLEAN
  BY Zenon DEF Snap!TypeOK
<1> QED  BY <1>1, <1>2, Zenon

\* A check that is under way is that of a run.
LEMMA SnapRun ==
  ASSUME SnapTyped, [Snap!Next]_snap
  PROVE  check'.step # "none" => check'.run \in Runs
<1>0. check.step # "none" => check.run \in Runs
  BY DEF SnapTyped
<1>1. CASE Snap!Store
  BY <1>1 DEF Snap!Store
<1>2. CASE Snap!Compare
  BY <1>0, <1>2 DEF Snap!Compare, SnapTyped, Snap!TypeOK
<1>3. CASE Snap!CommitCheck \/ Snap!CheckDies
  BY <1>3 DEF Snap!CommitCheck, Snap!CheckDies, Snap!NoCheck
<1>4. CASE check' = check
  BY <1>0, <1>4
<1> QED
  BY <1>1, <1>2, <1>3, <1>4 DEF Snap!Next, Snap!Age, Snap!PurgeRead,
     Snap!PurgeRefs, Snap!PurgeObjects, Snap!PurgeCommit, Snap!PurgeDies, Snap!RemovalRead,
     Snap!RemovalObjects, Snap!RemovalCommit, snap

LEMMA SnapTypes ==
  ASSUME SnapTyped, [Snap!Next]_snap
  PROVE  SnapTyped'
<1> SUFFICES Snap!TypeOK'
  BY SnapRun DEF SnapTyped
<1> DEFINE CheckType == [run : {0} \cup Runs, step : {"none", "compare", "commit"},
                         keys : SUBSET Snap!Keys, prev : {0} \cup Runs, changed : BOOLEAN]
           RowsType ==
             /\ row \in [Runs -> (SUBSET Snap!Keys) \cup {Snap!NoRow}]
             /\ runRow \subseteq Runs
             /\ event \in [Runs -> {0, Snap!NoEvent} \cup Runs]
           RestType ==
             /\ oldSnap \subseteq Runs /\ oldRun \subseteq oldSnap
             /\ objects \subseteq Runs \X (Snap!Keys \cup {"shot"})
             /\ purge \in [step : {"idle", "refs", "objects"}, old : SUBSET Runs, left : SUBSET Runs]
             /\ removal \in [step : {"none", "objects", "done"}, left : SUBSET Runs]
             /\ deaths \in 0..MaxDeaths
<1>0. check \in CheckType /\ RowsType /\ RestType /\ Snap!TypeOK
  BY DEF Snap!TypeOK, SnapTyped
<1>m. torn' \in BOOLEAN
  BY <1>0, SnapMark
<1>1. [Snap!NoCheck EXCEPT !.run = check.run] \in CheckType
  <2>1. Snap!NoCheck \in CheckType
    <3>1. FALSE \in BOOLEAN
      BY Zenon
    <3> QED  BY <3>1 DEF Snap!NoCheck
  <2> QED  BY <1>0, <2>1
<1>a. check.step # "none" => check.run \in Runs
  BY DEF SnapTyped
<1>2. CASE Snap!Store
  <2>1. check' \in CheckType
    <3>1. FALSE \in BOOLEAN
      BY Zenon
    <3> QED  BY <1>2, <3>1 DEF Snap!Store
  <2>2. RowsType' /\ RestType'
    BY <1>0, <1>2 DEF Snap!Store, Snap!rows, Snap!clock, Snap!Keys
  <2> QED  BY <2>1, <2>2, <1>m DEF Snap!TypeOK
<1>3. CASE Snap!Compare
  <2>1. check' \in CheckType
    <3> DEFINE next == IF Snap!Newest(runRow) \in Snap!Rows THEN Snap!Newest(runRow) ELSE 0
    <3>1. next \in {0} \cup Runs
      BY DEF Snap!Rows
    <3>2. \/ check' = [check EXCEPT !.step = "commit"]
          \/ \E changed \in BOOLEAN :
               check' = [check EXCEPT !.step = "commit", !.changed = changed, !.prev = next]
      BY <1>3, Zenon DEF Snap!Compare
    <3> HIDE DEF next
    <3> QED  BY <1>0, <3>1, <3>2
  <2>2. RowsType' /\ RestType'
    BY <1>0, <1>3 DEF Snap!Compare, Snap!rows, Snap!clock
  <2> QED  BY <2>1, <2>2, <1>m DEF Snap!TypeOK
<1>4. CASE Snap!CommitCheck
  <2>1. check' \in CheckType
    BY <1>1, <1>4 DEF Snap!CommitCheck
  <2>2. RestType'
    BY <1>0, <1>4 DEF Snap!CommitCheck, Snap!clock
  <2>3. /\ row' = row \/ row' = [row EXCEPT ![check.run] = check.keys]
        /\ runRow' = runRow \/ runRow' = runRow \cup {check.run}
        /\ check.run \in Runs
        /\ event' = event \/ event' = [event EXCEPT ![check.run] = check.prev]
    <3>1. check.run \in Runs
      BY <1>a, <1>4 DEF Snap!CommitCheck
    <3> QED  BY <1>4, <3>1, Zenon DEF Snap!CommitCheck, Snap!rows
  <2>4. check.keys \in SUBSET Snap!Keys /\ check.prev \in {0} \cup Runs
    BY <1>0
  <2>5. RowsType'
    BY <1>0, <2>3, <2>4
  <2> QED  BY <2>1, <2>2, <2>5, <1>m DEF Snap!TypeOK
<1>5. CASE Snap!CheckDies
  <2>1. check' \in CheckType
    BY <1>1, <1>5 DEF Snap!CheckDies
  <2>2. RowsType' /\ RestType'
    BY <1>0, <1>5, SnapshotAssumption DEF Snap!CheckDies, Snap!rows, Snap!clock
  <2> QED  BY <2>1, <2>2, <1>m DEF Snap!TypeOK
<1>6. CASE Snap!PurgeCommit
  <2>1. RestType' /\ check' = check
    BY <1>0, <1>6 DEF Snap!PurgeCommit, Snap!NoPurge, Snap!clock
  <2>2. RowsType'
    <3>1. row' \in [Runs -> (SUBSET Snap!Keys) \cup {Snap!NoRow}]
      <4>1. \A r \in Runs : row'[r] \in (SUBSET Snap!Keys) \cup {Snap!NoRow}
        <5>1. \A r \in Runs : row'[r] = Snap!NoRow \/ row'[r] = row[r]
          BY <1>6 DEF Snap!PurgeCommit
        <5> QED  BY <1>0, <5>1
      <4>2. row' = [r \in Runs |-> row'[r]]
        BY <1>6 DEF Snap!PurgeCommit
      <4> QED  BY <4>1, <4>2, Zenon
    <3>2. event' \in [Runs -> {0, Snap!NoEvent} \cup Runs] /\ runRow' \subseteq Runs
      BY <1>0, <1>6 DEF Snap!PurgeCommit
    <3> QED  BY <3>1, <3>2
  <2> QED  BY <1>0, <2>1, <2>2, <1>m DEF Snap!TypeOK
<1>7. CASE Snap!RemovalCommit
  <2>1. RestType' /\ check' = check
    BY <1>0, <1>7 DEF Snap!RemovalCommit, Snap!clock
  <2>2. RowsType'
    <3>1. row' \in [Runs -> (SUBSET Snap!Keys) \cup {Snap!NoRow}]
      BY <1>7, Everywhere DEF Snap!RemovalCommit
    <3>2. event' \in [Runs -> {0, Snap!NoEvent} \cup Runs] /\ runRow' \subseteq Runs
      BY <1>7 DEF Snap!RemovalCommit
    <3> QED  BY <3>1, <3>2
  <2> QED  BY <1>0, <2>1, <2>2, <1>m DEF Snap!TypeOK
<1>8. CASE Snap!Age \/ Snap!PurgeRead \/ Snap!PurgeRefs \/ Snap!PurgeObjects \/ Snap!PurgeDies
             \/ Snap!RemovalRead \/ Snap!RemovalObjects
  <2>1. ASSUME Snap!Age PROVE RestType'
    BY <1>0, <2>1 DEF Snap!Age, Snap!Rows
  <2>2. ASSUME Snap!PurgeRead PROVE RestType'
    BY <1>0, <2>2 DEF Snap!PurgeRead, Snap!clock
  <2>3. ASSUME Snap!PurgeRefs PROVE RestType'
    BY <1>0, <2>3 DEF Snap!PurgeRefs, Snap!clock, Snap!Purgeable
  <2>4. ASSUME Snap!PurgeObjects PROVE RestType'
    BY <1>0, <2>4 DEF Snap!PurgeObjects, Snap!clock
  <2>5. ASSUME Snap!PurgeDies PROVE RestType'
    BY <1>0, <2>5, SnapshotAssumption DEF Snap!PurgeDies, Snap!clock, Snap!NoPurge
  <2>6. ASSUME Snap!RemovalRead PROVE RestType'
    BY <1>0, <2>6 DEF Snap!RemovalRead, Snap!clock, Snap!Rows
  <2>7. ASSUME Snap!RemovalObjects PROVE RestType'
    BY <1>0, <2>7 DEF Snap!RemovalObjects, Snap!clock
  <2>8. RestType'
    BY <1>8, <2>1, <2>2, <2>3, <2>4, <2>5, <2>6, <2>7
  <2>9. RowsType' /\ check' = check
    BY <1>0, <1>8
    DEF Snap!Age, Snap!PurgeRead, Snap!PurgeRefs, Snap!PurgeObjects, Snap!PurgeDies, Snap!RemovalRead,
        Snap!RemovalObjects, Snap!rows
  <2> QED  BY <1>0, <2>8, <2>9, <1>m DEF Snap!TypeOK
<1>9. CASE UNCHANGED snap
  <2>1. RowsType' /\ RestType' /\ check' = check
    BY <1>0, <1>9 DEF snap
  <2> QED  BY <1>0, <2>1, <1>m DEF Snap!TypeOK
<1> QED
  BY <1>0, <1>2, <1>3, <1>4, <1>5, <1>6, <1>7, <1>8, <1>9 DEF Snap!Next

\* Objects are stored for a run that has no row yet.
LEMMA SnapStore ==
  ASSUME Snap!TypeOK, SnapKept, Snap!Store
  PROVE  SnapKept'
<1> USE SnapshotAssumption DEF SnapKept, Snap!Rows, Snap!Events, Snap!Stored
<1> PICK r \in Runs, keys \in SUBSET Snap!Keys :
      /\ \A q \in Runs : q < r <=> q <= check.run
      /\ check' = [run |-> r, step |-> "compare", keys |-> keys, prev |-> 0, changed |-> FALSE]
      /\ objects' = objects \cup {<<r, k>> : k \in keys}
                    \cup (IF keys # {} THEN {<<r, "shot">>} ELSE {})
  BY DEF Snap!Store
<1>0. /\ UNCHANGED <<row, runRow, event, oldSnap, oldRun, purge, removal, torn>>
      /\ check'.run = r /\ check'.keys = keys
  BY DEF Snap!Store, Snap!rows, Snap!clock
<1>1. objects \subseteq objects' /\ \A k \in keys : <<r, k>> \in objects'
  OBVIOUS
<1>2. CheckAhead'
  <2>1. \A q \in Snap!Rows : q <= check.run
    BY DEF CheckAhead
  <2>2. \A q \in Snap!Rows : q < r
    BY <2>1
  <2>3. check.run \in Nat /\ r \in Nat
    <3>1. check.run \in {0} \cup Runs
      BY DEF Snap!TypeOK
    <3>2. Runs \subseteq Nat
      BY SnapshotAssumption
    <3> HIDE SnapshotAssumption
    <3>3. check.run \in Nat
      BY <3>1, <3>2
    <3> QED  BY <3>2, <3>3
  <2> QED  BY <1>0, <1>1, <2>2, <2>3 DEF CheckAhead
<1>3. PurgesOld'
  BY <1>0 DEF PurgesOld
<1>4. ASSUME NEW q \in Snap!Rows PROVE Snap!Stored(q)' \/ Losing(q)'
  <2>1. Snap!Stored(q) => Snap!Stored(q)'
    BY <1>0, <1>1
  <2>2. Losing(q) => Losing(q)'
    BY <1>0 DEF Losing
  <2> QED  BY <2>1, <2>2
<1> QED  BY <1>0, <1>2, <1>3, <1>4

\* The check goes on, fails or dies; none of its rows is there.
LEMMA SnapCheck ==
  ASSUME Snap!TypeOK, SnapKept,
         \/ Snap!Compare \/ Snap!CheckDies
         \/ Snap!CommitCheck /\ UNCHANGED <<row, runRow, event>>
  PROVE  SnapKept'
<1> USE DEF SnapKept, Snap!Rows, Snap!Events, Snap!Stored
<1>0. UNCHANGED <<row, runRow, event, objects, oldSnap, oldRun, purge, removal, torn>>
  BY DEF Snap!Compare, Snap!CheckDies, Snap!CommitCheck, Snap!rows, Snap!clock
<1>1. /\ check'.run = check.run
      /\ check'.step # "none" => check.step # "none" /\ check'.keys = check.keys
  BY DEF Snap!Compare, Snap!CheckDies, Snap!CommitCheck, Snap!NoCheck, Snap!TypeOK
<1>2. CheckAhead'
  BY <1>0, <1>1 DEF CheckAhead
<1>3. PurgesOld'
  BY <1>0 DEF PurgesOld
<1>4. \A q \in Snap!Rows : Snap!Stored(q)' \/ Losing(q)'
  BY <1>0 DEF Losing
<1> QED  BY <1>0, <1>2, <1>3, <1>4

\* The rows of a check name what it has stored, and no purge has got to them.
LEMMA SnapCommitCheck ==
  ASSUME Snap!TypeOK, check.step # "none" => check.run \in Runs, SnapKept, Snap!CommitCheck,
         ~UNCHANGED <<row, runRow, event>>
  PROVE  SnapKept'
<1> USE DEF Snap!Rows, Snap!Events, Snap!Stored
<1>1. /\ row' = [row EXCEPT ![check.run] = check.keys]
      /\ event' = event \/ event' = [event EXCEPT ![check.run] = check.prev]
      /\ UNCHANGED <<objects, oldSnap, oldRun, purge, removal, torn>>
      /\ check.step = "commit"
  BY Zenon DEF Snap!CommitCheck, Snap!rows, Snap!clock
<1>2. check'.run = check.run /\ check'.step = "none"
  BY DEF Snap!CommitCheck, Snap!NoCheck
<1>3. check.run \in Runs \ Snap!Rows /\ check.run \in Nat /\ check.keys \subseteq Snap!Keys
  BY <1>1, SnapshotAssumption DEF SnapKept, CheckAhead, Snap!TypeOK
<1>4. Snap!Rows' \subseteq Snap!Rows \cup {check.run} /\ Snap!Rows \subseteq Snap!Rows'
  <2>1. \A r \in Runs \ {check.run} : row'[r] = row[r]
    BY <1>1, <1>3 DEF Snap!TypeOK
  <2> QED  BY <1>3, <2>1
<1>5. check.run \in Snap!Rows'
  <2>1. row'[check.run] = check.keys
    BY <1>1, <1>3 DEF Snap!TypeOK
  <2>2. check.keys # Snap!NoRow
    BY <1>3 DEF Snap!Keys, Snap!NoRow
  <2> QED  BY <1>3, <2>1, <2>2
<1>6. Snap!Events' \subseteq Snap!Events \cup {check.run}
  BY <1>1, <1>3 DEF Snap!TypeOK
<1>7. CheckAhead'
  BY <1>2, <1>3, <1>4 DEF SnapKept, CheckAhead
<1>8. PurgesOld'
  BY <1>1, <1>3, <1>4, <1>6 DEF SnapKept, PurgesOld
<1>9. \A k \in row'[check.run] \cap Snap!Keys : <<check.run, k>> \in objects'
  <2>1. row'[check.run] = check.keys
    BY <1>1, <1>3 DEF Snap!TypeOK
  <2> QED  BY <1>1, <2>1 DEF SnapKept, CheckAhead
<1>10. ASSUME NEW q \in Snap!Rows PROVE Snap!Stored(q)' \/ Losing(q)'
  <2>1. q # check.run /\ (Snap!Stored(q) => Snap!Stored(q)')
    BY <1>1, <1>3 DEF Snap!TypeOK
  <2>2. Losing(q) => Losing(q)'
    BY <1>1, <1>6, <2>1 DEF Losing
  <2> QED  BY <2>1, <2>2 DEF SnapKept
<1>11. Snap!Events' \subseteq Snap!Rows'
  BY <1>4, <1>5, <1>6 DEF SnapKept
<1>12. ASSUME NEW q \in Snap!Rows' PROVE Snap!Stored(q)' \/ Losing(q)'
  <2>1. CASE q = check.run
    BY <1>9, <2>1
  <2>2. CASE q # check.run
    BY <1>4, <1>10, <2>2
  <2> QED  BY <2>1, <2>2
<1> QED  BY <1>7, <1>8, <1>11, <1>12 DEF SnapKept

\* The purge dies, or chooses among the rows that got old.
LEMMA SnapChoose ==
  ASSUME Snap!TypeOK, SnapKept, Snap!Age \/ Snap!PurgeRead \/ Snap!PurgeRefs \/ Snap!PurgeDies
  PROVE  SnapKept'
<1> USE DEF Snap!Rows, Snap!Events, Snap!Stored
<1>1. UNCHANGED <<row, runRow, event, objects, check>> /\ oldSnap \subseteq oldSnap'
  <2>1. check' = check
    BY Zenon DEF Snap!Age, Snap!PurgeRead, Snap!PurgeRefs, Snap!PurgeDies
  <2> QED  BY <2>1 DEF Snap!Age, Snap!PurgeRead, Snap!PurgeRefs, Snap!PurgeDies, Snap!rows, Snap!clock
<1>2. CheckAhead'
  BY <1>1 DEF SnapKept, CheckAhead
<1> SUFFICES PurgesOld' /\ \A q \in Snap!Rows : Losing(q) => Losing(q)'
  BY <1>1, <1>2 DEF SnapKept
<1>3. PurgesOld
  BY DEF SnapKept
<1>4. CASE Snap!Age
  <2>1. purge' = purge /\ torn' = torn
    BY <1>4, Zenon DEF Snap!Age
  <2> QED  BY <1>1, <1>3, <2>1 DEF PurgesOld, Losing
<1>5. CASE Snap!PurgeRead
  <2>1. torn' = torn /\ oldSnap' = oldSnap
    BY <1>5, Zenon DEF Snap!PurgeRead, Snap!clock
  <2>2. purge.step = "idle" /\ purge'.step = "refs" /\ purge'.old = oldSnap \cap Snap!Rows /\ purge'.left = {}
    BY <1>5 DEF Snap!PurgeRead
  <2> QED  BY <1>1, <2>1, <2>2 DEF PurgesOld, Losing
<1>6. CASE Snap!PurgeRefs
  <2>1. torn' = torn /\ oldSnap' = oldSnap
    BY <1>6, Zenon DEF Snap!PurgeRefs, Snap!clock
  <2>2. /\ purge.step = "refs" /\ purge'.step = "objects"
        /\ purge'.old = purge.old \ Snap!Events /\ purge'.left = purge.old \ Snap!Events
    BY <1>6 DEF Snap!PurgeRefs, Snap!Purgeable, Snap!TypeOK
  <2> QED  BY <1>1, <1>3, <2>1, <2>2 DEF PurgesOld, Losing
<1>7. CASE Snap!PurgeDies
  <2>1. torn' = TRUE /\ oldSnap' = oldSnap
    BY <1>7, Zenon DEF Snap!PurgeDies, Snap!clock
  <2>2. purge'.step = "idle" /\ purge'.old = {} /\ purge'.left = {}
    BY <1>7 DEF Snap!PurgeDies, Snap!NoPurge
  <2> QED  BY <1>1, <2>1, <2>2 DEF PurgesOld, Losing
<1> QED  BY <1>4, <1>5, <1>6, <1>7

\* The objects that are deleted are those of a row the purge is at.
LEMMA SnapPurgeObjects ==
  ASSUME Snap!TypeOK, SnapKept, Snap!PurgeObjects
  PROVE  SnapKept'
<1> USE DEF Snap!Rows, Snap!Events, Snap!Stored
<1> PICK r \in purge.left :
      /\ objects' = objects \ Snap!Objects(r)
      /\ purge' = [purge EXCEPT !.left = @ \ {r}]
  BY DEF Snap!PurgeObjects
<1>1. UNCHANGED <<row, runRow, event, check, oldSnap, torn>> /\ purge.step = "objects"
  BY Zenon DEF Snap!PurgeObjects, Snap!rows, Snap!clock
<1>2. purge'.step = purge.step /\ purge'.old = purge.old /\ purge'.left \subseteq purge.left
  BY DEF Snap!TypeOK
<1>3. r \in purge.old /\ r \in oldSnap \cap Snap!Rows /\ r \notin Snap!Events
  BY <1>1 DEF SnapKept, PurgesOld
<1>4. \A q, k : q # r /\ <<q, k>> \in objects => <<q, k>> \in objects'
  BY DEF Snap!Objects
<1>5. CheckAhead'
  BY <1>1, <1>3, <1>4 DEF SnapKept, CheckAhead
<1>6. PurgesOld'
  BY <1>1, <1>2 DEF SnapKept, PurgesOld
<1>7. Losing(r)'
  BY <1>1, <1>2, <1>3 DEF Losing
<1>8. ASSUME NEW q \in Snap!Rows \ {r} PROVE Snap!Stored(q)' \/ Losing(q)'
  <2>1. Snap!Stored(q) => Snap!Stored(q)'
    BY <1>1, <1>4
  <2>2. Losing(q) => Losing(q)'
    BY <1>1, <1>2 DEF Losing
  <2> QED  BY <2>1, <2>2 DEF SnapKept
<1>9. Snap!Rows' = Snap!Rows /\ Snap!Events' \subseteq Snap!Rows'
  BY <1>1 DEF SnapKept
<1> QED  BY <1>5, <1>6, <1>7, <1>8, <1>9 DEF SnapKept

\* The rows that lost their objects go, and an event's row is not among them.
LEMMA SnapPurgeCommit ==
  ASSUME Snap!TypeOK, SnapKept, Snap!PurgeCommit
  PROVE  SnapKept'
<1> USE DEF Snap!Rows, Snap!Events, Snap!Stored
<1>1. /\ UNCHANGED <<objects, check, oldSnap>> /\ purge.step = "objects"
      /\ purge' = Snap!NoPurge
      /\ row' = [r \in Runs |-> IF r \in purge.old THEN Snap!NoRow ELSE row[r]]
      /\ event' = [r \in Runs |-> IF event[r] \in purge.old THEN 0 ELSE event[r]]
  BY Zenon DEF Snap!PurgeCommit, Snap!clock
<1>2. Snap!Rows' = Snap!Rows \ purge.old /\ \A r \in Snap!Rows' : row'[r] = row[r]
  BY <1>1
<1>3. Snap!Events' \subseteq Snap!Events
  <2>1. Snap!NoEvent \notin Runs /\ purge.old \subseteq Runs /\ 0 # Snap!NoEvent
    BY SnapshotAssumption DEF Snap!TypeOK, Snap!NoEvent
  <2> QED  BY <1>1, <2>1
<1>4. Snap!Events' \subseteq Snap!Rows'
  BY <1>1, <1>2, <1>3 DEF SnapKept, PurgesOld
<1>5. CheckAhead'
  BY <1>1, <1>2 DEF SnapKept, CheckAhead
<1>6. PurgesOld'
  BY <1>1 DEF PurgesOld, Snap!NoPurge
<1>7. ASSUME NEW q \in Snap!Rows' PROVE Snap!Stored(q)'
  <2>1. q \in Snap!Rows /\ q \notin purge.old
    BY <1>2
  <2>2. ~Losing(q)
    BY <1>1, <2>1 DEF Losing
  <2>3. Snap!Stored(q)
    BY <2>1, <2>2 DEF SnapKept
  <2> QED  BY <1>1, <1>2, <2>3
<1> QED  BY <1>4, <1>5, <1>6, <1>7 DEF SnapKept

LEMMA SnapStep == SnapInv /\ [Snap!Next]_snap => SnapInv'
<1> SUFFICES ASSUME SnapInv, [Snap!Next]_snap PROVE SnapInv'
  OBVIOUS
<1>1. SnapTyped'
  BY SnapTypes DEF SnapInv
<1> SUFFICES ASSUME removal'.step = "none" PROVE SnapKept'
  BY <1>1 DEF SnapInv
<1>2. removal.step = "none" /\ ~Snap!RemovalRead /\ ~Snap!RemovalObjects /\ ~Snap!RemovalCommit
  <2>1. CASE Snap!RemovalRead \/ Snap!RemovalObjects \/ Snap!RemovalCommit
    BY <2>1 DEF Snap!RemovalRead, Snap!RemovalObjects, Snap!RemovalCommit, SnapInv, SnapTyped, Snap!TypeOK
  <2>2. CASE ~(Snap!RemovalRead \/ Snap!RemovalObjects \/ Snap!RemovalCommit)
    <3>1. removal' = removal
      BY <2>2, Zenon DEF Snap!Next, Snap!Store, Snap!Compare, Snap!CommitCheck, Snap!CheckDies, Snap!Age, Snap!PurgeRead,
         Snap!PurgeRefs, Snap!PurgeObjects, Snap!PurgeCommit, Snap!PurgeDies, snap
    <3> QED  BY <2>2, <3>1
  <2> QED  BY <2>1, <2>2
<1>3. SnapKept /\ Snap!TypeOK /\ (check.step # "none" => check.run \in Runs)
  BY <1>2 DEF SnapInv, SnapTyped
<1>4. CASE UNCHANGED snap
  BY <1>3, <1>4 DEF snap, SnapKept, CheckAhead, PurgesOld, Losing, Snap!Stored, Snap!Rows, Snap!Events
<1>5. CASE Snap!CommitCheck
  BY <1>3, <1>5, SnapCheck, SnapCommitCheck
<1> QED
  BY <1>2, <1>3, <1>4, <1>5, SnapStore, SnapCheck, SnapChoose, SnapPurgeObjects, SnapPurgeCommit DEF Snap!Next

LEMMA SnapAlways == AllSpec => [](part = "snapshots" => SnapInv)
<1> DEFINE I == part = "snapshots" => SnapInv
<1>1. AllInit => I
  BY SnapInit DEF AllInit
<1>2. I /\ [AllNext]_allVars => I'
  <2> SUFFICES ASSUME I, [AllNext]_allVars, part' = "snapshots" PROVE SnapInv'
    OBVIOUS
  <2>1. part = "snapshots" /\ [Snap!Next]_snap
    BY DEF AllNext, allVars
  <2> QED  BY <2>1, SnapStep
<1> QED  BY <1>1, <1>2, PTL DEF AllSpec

\* retention.py: what the inbox shows and what rows name is in the store.
THEOREM ObjectsAreKept == AllSpec => []ObjectsKept
<1>1. (part = "snapshots" => SnapInv) => ObjectsKept
  <2> SUFFICES ASSUME part = "snapshots", SnapInv, removal.step = "none"
               PROVE  /\ \A e \in Snap!Events : e \in Snap!Rows /\ Snap!Stored(e)
                      /\ purge.step # "objects" /\ ~torn => \A r \in Snap!Rows : Snap!Stored(r)
    BY Zenon DEF ObjectsKept, Snap!ObjectsKept, Snap!InboxReadable, Snap!PurgeHeals
  <2>1. Snap!TypeOK /\ SnapKept
    BY DEF SnapInv, SnapTyped
  <2>2. purge.step \in {"idle", "refs", "objects"}
    BY <2>1 DEF Snap!TypeOK
  <2> QED  BY <2>1, <2>2 DEF SnapKept, Losing
<1> QED  BY <1>1, SnapAlways, PTL

-----------------------------------------------------------------------------
(* Calls to the model.                                                     *)

\* The deadline, and what an attempt adds that begins just before it.
Latest == Deadline + Lookup + (Waits * Addresses - 1) * Timeout

\* What holds of a call from its beginning: it has the server's base unless it has the
\* workspace's key, no refusal is behind it, and unless an answer dripped it is about
\* within its deadline.
SoundCall(b) ==
  /\ b.key # "workspace" => b.base = "server"
  /\ ~b.refused
  /\ ~b.drips => b.spent <= Latest

Sound == {b \in Calls!Begun : SoundCall(b)}

CallsInv == Calls!TypeOK /\ call \in [Callers -> Sound \cup Calls!Results \cup {Calls!NoAnswer}]

LEMMA LatestType == Latest \in Nat
<1> USE EnrichmentAssumption
<1>1. Waits * Addresses \in Nat /\ Waits * Addresses >= 1
  OBVIOUS
<1> DEFINE p == Waits * Addresses - 1
<1>2. p \in Nat
  BY <1>1
<1> HIDE DEF p
<1>3. p * Timeout \in Nat
  BY <1>2
<1> QED  BY <1>3 DEF Latest, p

LEMMA CallsInit == Calls!Init => CallsInv
<1> SUFFICES ASSUME Calls!Init PROVE CallsInv
  OBVIOUS
<1>1. ws \in [key : BOOLEAN, own : BOOLEAN]
  <2>1. FALSE \in BOOLEAN
    BY Zenon
  <2> QED  BY <2>1 DEF Calls!Init
<1> QED
  BY <1>1 DEF Calls!Init, CallsInv, Calls!TypeOK

\* A call that is at some step is one that has begun.
LEMMA CallBegun ==
  ASSUME CallsInv, NEW c \in Callers, "at" \in DOMAIN call[c]
  PROVE  call[c] \in Sound
  BY DEF CallsInv, Calls!Results, Calls!NoAnswer

\* The settings and their requests.
LEMMA CallsSettings ==
  ASSUME CallsInv, NEW r \in Patches, Calls!ReadSettings(r) \/ Calls!WriteSettings(r)
  PROVE  CallsInv'
<1>1. UNCHANGED <<call, cached>>
  BY DEF Calls!ReadSettings, Calls!WriteSettings
<1>2. ws' \in [key : BOOLEAN, own : BOOLEAN]
  <2>1. ws' = ws \/ \E a, b \in BOOLEAN : ws' = [key |-> a, own |-> b]
    BY Zenon DEF Calls!ReadSettings, Calls!WriteSettings
  <2> QED  BY <2>1 DEF CallsInv, Calls!TypeOK
<1>3. patch' \in [Patches -> SUBSET {"key+", "key-", "own+", "own-"}]
  BY DEF CallsInv, Calls!TypeOK, Calls!ReadSettings, Calls!WriteSettings, Calls!Edits
<1> QED
  BY <1>1, <1>2, <1>3 DEF CallsInv, Calls!TypeOK

\* One call changes, to one that is sound.
LEMMA CallsKept ==
  ASSUME CallsInv, NEW c \in Callers, NEW b \in Sound \cup Calls!Results \cup {Calls!NoAnswer},
         call' = [call EXCEPT ![c] = b], UNCHANGED <<ws, patch>>,
         cached' \in [Calls!Questions -> Calls!Results \cup {Calls!NoAnswer}]
  PROVE  CallsInv'
  BY DEF CallsInv, Calls!TypeOK, Sound

LEMMA CallsAsk ==
  ASSUME CallsInv, NEW c \in Callers, Calls!Ask(c)
  PROVE  CallsInv'
<1> PICK readable \in BOOLEAN, asked \in BOOLEAN, at \in {"gate", "cache"}, first \in 1..Models :
    \E used \in Calls!EffectiveKey(readable) :
      call' = [call EXCEPT ![c] =
           [asked |-> asked, key |-> used, base |-> Calls!EffectiveBase(readable), at |-> at,
            model |-> first, json |-> TRUE, attempts |-> 0, spent |-> 0, drips |-> FALSE,
            refused |-> FALSE]]
  BY Zenon DEF Calls!Ask
<1> PICK used \in Calls!EffectiveKey(readable) :
      call' = [call EXCEPT ![c] =
           [asked |-> asked, key |-> used, base |-> Calls!EffectiveBase(readable), at |-> at,
            model |-> first, json |-> TRUE, attempts |-> 0, spent |-> 0, drips |-> FALSE,
            refused |-> FALSE]]
  OBVIOUS
<1> DEFINE b == [asked |-> asked, key |-> used, base |-> Calls!EffectiveBase(readable), at |-> at,
                 model |-> first, json |-> TRUE, attempts |-> 0, spent |-> 0, drips |-> FALSE,
            refused |-> FALSE]
<1>1. Calls!EffectiveBase(readable) \in {"workspace", "server"} /\ used \in {"none", "workspace", "server"}
  BY DEF Calls!EffectiveBase, Calls!EffectiveKey
<1>2. used # "workspace" => Calls!EffectiveBase(readable) = "server"
  BY DEF Calls!EffectiveBase, Calls!EffectiveKey
<1>3. TRUE \in BOOLEAN /\ FALSE \in BOOLEAN
  BY Zenon
<1>4. b \in Calls!Begun
  BY <1>1, <1>3, EnrichmentAssumption DEF Calls!Begun
<1>5. SoundCall(b)
  <2>1. 0 <= Latest
    BY LatestType
  <2> QED  BY <1>2, <2>1 DEF SoundCall
<1>6. UNCHANGED <<ws, patch, cached>>
  BY DEF Calls!Ask
<1> QED
  BY <1>4, <1>5, <1>6, CallsKept DEF Sound, CallsInv, Calls!TypeOK

\* A call that has ended begins another, or ends, and its answer is typed.
LEMMA CallsAnswer ==
  ASSUME CallsInv, NEW c \in Callers, NEW by \in Calls!Kinds, NEW noise \in BOOLEAN,
         call[c] \in Sound, Calls!Answer(c, by, noise), UNCHANGED <<ws, patch, cached>>
  PROVE  CallsInv'
<1>1. call[c].asked \in BOOLEAN
  BY DEF Sound, Calls!Begun
<1>2. [by |-> by, noise |-> noise, asked |-> call[c].asked] \in Calls!Results
  BY <1>1 DEF Calls!Results
<1>3. cached' \in [Calls!Questions -> Calls!Results \cup {Calls!NoAnswer}]
  BY DEF CallsInv, Calls!TypeOK
<1> QED
  BY <1>2, <1>3, CallsKept DEF Calls!Answer

LEMMA CallsSwitchedOff ==
  ASSUME CallsInv, NEW c \in Callers, Calls!SwitchedOff(c)
  PROVE  CallsInv'
<1> PICK asked \in BOOLEAN : call' = [call EXCEPT ![c] = [by |-> "off", noise |-> FALSE, asked |-> asked]]
  BY Zenon DEF Calls!SwitchedOff
<1>1. FALSE \in BOOLEAN
  BY Zenon
<1>2. [by |-> "off", noise |-> FALSE, asked |-> asked] \in Calls!Results
  BY <1>1 DEF Calls!Results, Calls!Kinds
<1>3. UNCHANGED <<ws, patch, cached>>
  BY DEF Calls!SwitchedOff
<1> QED
  BY <1>2, <1>3, CallsKept DEF CallsInv, Calls!TypeOK

\* A call that goes on to its next step is as sound as it was.
LEMMA CallsGoesOn ==
  ASSUME CallsInv, NEW c \in Callers, call[c] \in Sound, NEW at \in {"cache", "post"},
         call' = [call EXCEPT ![c].at = at], UNCHANGED <<ws, patch, cached>>
  PROVE  CallsInv'
<1> DEFINE b == [call[c] EXCEPT !.at = at]
<1>1. b \in Sound
  BY DEF Sound, SoundCall, Calls!Begun
<1>2. call' = [call EXCEPT ![c] = b]
  BY DEF CallsInv
<1> QED
  BY <1>1, <1>2, CallsKept DEF CallsInv, Calls!TypeOK

LEMMA CallsGate ==
  ASSUME CallsInv, NEW c \in Callers, Calls!Gate(c)
  PROVE  CallsInv'
<1>1. call[c] \in Sound
  BY CallBegun DEF Calls!Gate, Calls!Calling
<1>2. TRUE \in BOOLEAN
  BY Zenon
<1>3. UNCHANGED <<ws, patch, cached>> /\ "gate" \in Calls!Kinds
  BY DEF Calls!Gate, Calls!Kinds
<1> QED
  BY <1>1, <1>2, <1>3, CallsAnswer, CallsGoesOn, Zenon DEF Calls!Gate

LEMMA CallsLookUp ==
  ASSUME CallsInv, NEW c \in Callers, Calls!LookUp(c)
  PROVE  CallsInv'
<1> DEFINE q == Calls!Question(call[c])
<1>1. call[c] \in Sound
  BY CallBegun DEF Calls!LookUp, Calls!Calling
<1>2. FALSE \in BOOLEAN
  BY Zenon
<1>3. UNCHANGED <<ws, patch, cached>> /\ "heuristic" \in Calls!Kinds
  BY DEF Calls!LookUp, Calls!Kinds
<1>4. call[c].key # "none" => q \in Calls!Questions
  BY <1>1 DEF Calls!Question, Calls!Questions, Sound, Calls!Begun
<1>5. call[c].key # "none" /\ cached[q] # Calls!NoAnswer => cached[q].by \in Calls!Kinds /\ cached[q].noise \in BOOLEAN
  <2> SUFFICES ASSUME call[c].key # "none", cached[q] # Calls!NoAnswer PROVE cached[q] \in Calls!Results
    BY DEF Calls!Results
  <2> QED  BY <1>4 DEF CallsInv, Calls!TypeOK
<1>6. CASE Calls!Answer(c, "heuristic", FALSE)
  BY <1>1, <1>2, <1>3, <1>6, CallsAnswer
<1>7. CASE call[c].key # "none" /\ cached[q] # Calls!NoAnswer /\ Calls!Answer(c, cached[q].by, cached[q].noise)
  BY <1>1, <1>3, <1>5, <1>7, CallsAnswer
<1>8. CASE call' = [call EXCEPT ![c].at = "post"]
  BY <1>1, <1>3, <1>8, CallsGoesOn
<1> QED
  BY <1>6, <1>7, <1>8, Zenon DEF Calls!LookUp

LEMMA CallsExpireAnswer ==
  ASSUME CallsInv, NEW q \in Calls!Questions, Calls!ExpireAnswer(q)
  PROVE  CallsInv'
  BY DEF CallsInv, Calls!TypeOK, Calls!ExpireAnswer

\* What an attempt adds to a call when its answer does not drip.
LEMMA Duration ==
  ASSUME NEW spent \in Nat, spent < Deadline, NEW t \in Nat, t <= Timeout, t <= Deadline - spent,
         NEW d \in 0..(Lookup + Waits * Addresses * t)
  PROVE  spent + d <= Latest
<1> USE EnrichmentAssumption
<1> DEFINE p == Waits * Addresses
           m == p - 1
<1>1. p \in Nat /\ p >= 1
  OBVIOUS
<1>2. Lookup + Waits * Addresses * t = Lookup + p * t
  OBVIOUS
<1> HIDE DEF p
<1>3. m \in Nat /\ p * t = t + m * t
  BY <1>1
<1> HIDE DEF m
<1>4. m * t <= m * Timeout /\ m * t \in Nat /\ m * Timeout \in Nat
  BY <1>3
<1>5. spent + d <= Deadline + Lookup + m * Timeout
  BY <1>1, <1>2, <1>3, <1>4
<1> QED  BY <1>5 DEF Latest, m, p

\* The request is on its way: time passes, and an attempt is used.
LEMMA CallsAttempt ==
  ASSUME CallsInv, NEW c \in Callers, Calls!Attempt(c)
  PROVE  CallsInv'
<1>1. call[c] \in Sound /\ call[c].attempts \in 0..MaxAttempts /\ call[c].attempts < MaxAttempts
      /\ call[c].spent \in Nat /\ call[c].spent < Deadline /\ call[c].drips \in BOOLEAN
  BY CallBegun DEF Calls!Attempt, Calls!Calling, Calls!Budget, Sound, Calls!Begun
<1>2. PICK drips \in BOOLEAN : \E d \in Calls!Durations(c, drips) :
        call' = [call EXCEPT ![c].at = "answer", ![c].attempts = @ + 1, ![c].spent = @ + d,
                             ![c].drips = @ \/ drips]
  BY Zenon DEF Calls!Attempt
<1>3. PICK d \in Calls!Durations(c, drips) :
        call' = [call EXCEPT ![c].at = "answer", ![c].attempts = @ + 1, ![c].spent = @ + d,
                             ![c].drips = @ \/ drips]
  BY <1>2
<1> DEFINE t == Calls!AttemptTimeout(c)
           dripped == call[c].drips \/ drips
           b == [call[c] EXCEPT !.at = "answer", !.attempts = call[c].attempts + 1,
                                !.spent = call[c].spent + d, !.drips = dripped]
<1>4. t \in Nat /\ t <= Timeout /\ t <= Deadline - call[c].spent
  BY <1>1, EnrichmentAssumption DEF Calls!AttemptTimeout, Calls!Remaining
<1>5. d \in Nat
  <2>1. Waits * Addresses * t \in Nat
    BY <1>4, EnrichmentAssumption
  <2> HIDE DEF t
  <2>2. d \in 0..MaxDrip \/ d \in 0..(Lookup + Waits * Addresses * t)
    BY DEF Calls!Durations, t
  <2> QED  BY <2>1, <2>2, EnrichmentAssumption
<1>6. ~dripped => call[c].spent + d <= Latest
  <2> SUFFICES ASSUME ~dripped PROVE call[c].spent + d <= Latest
    OBVIOUS
  <2>1. ~drips
    BY Zenon
  <2>2. d \in 0..(Lookup + Waits * Addresses * t)
    BY <2>1 DEF Calls!Durations
  <2> HIDE DEF t
  <2> QED  BY <1>1, <1>4, <2>2, Duration
<1>7. dripped \in BOOLEAN
  BY Zenon
<1> HIDE DEF dripped, t
<1>8. b \in Sound
  <2>0. call[c].attempts + 1 \in 0..MaxAttempts /\ call[c].spent + d \in Nat
    BY <1>1, <1>5, EnrichmentAssumption
  <2>1. b \in Calls!Begun
    BY <1>1, <1>7, <2>0 DEF Sound, Calls!Begun
  <2>2. b.key = call[c].key /\ b.base = call[c].base /\ b.refused = call[c].refused
        /\ b.spent = call[c].spent + d /\ b.drips = dripped
    BY <1>1 DEF Sound, Calls!Begun
  <2> QED  BY <1>1, <1>6, <2>1, <2>2 DEF Sound, SoundCall
<1>9. call' = [call EXCEPT ![c] = b]
  BY <1>3 DEF dripped
<1> HIDE DEF b
<1> QED
  BY <1>8, <1>9, CallsKept DEF CallsInv, Calls!TypeOK, Calls!Attempt

\* The next try of a call that may go on is sound.
LEMMA CallsNextTry ==
  ASSUME CallsInv, NEW c \in Callers, call[c] \in Sound, ~Calls!Exhausted(c)
  PROVE  Calls!NextTry([call[c] EXCEPT !.at = "post"]) \in Sound
<1> DEFINE b == [call[c] EXCEPT !.at = "post"]
<1>1. b \in Sound /\ b.json = call[c].json /\ b.model = call[c].model /\ call[c].model \in 1..Models
  BY DEF Sound, SoundCall, Calls!Begun
<1> HIDE DEF b
<1>2. CASE b.json
  <2>1. Calls!NextTry(b) = [b EXCEPT !.json = FALSE]
    BY <1>2, Zenon DEF Calls!NextTry
  <2>2. FALSE \in BOOLEAN
    BY Zenon
  <2>3. [b EXCEPT !.json = FALSE] \in Sound
    BY <1>1, <2>2 DEF Sound, SoundCall, Calls!Begun
  <2> QED  BY <2>1, <2>3 DEF b
<1>3. CASE ~b.json
  <2>1. Calls!NextTry(b) = [b EXCEPT !.json = TRUE, !.model = b.model + 1]
    BY <1>1, <1>3 DEF Calls!NextTry, Sound, Calls!Begun
  <2>2. TRUE \in BOOLEAN
    BY Zenon
  <2>3. b.model + 1 \in 1..Models
    BY <1>1, <1>3, EnrichmentAssumption DEF Calls!Exhausted
  <2>4. [b EXCEPT !.json = TRUE, !.model = b.model + 1] \in Sound
    BY <1>1, <2>2, <2>3 DEF Sound, SoundCall, Calls!Begun
  <2> QED  BY <2>1, <2>4 DEF b
<1> QED  BY <1>2, <1>3

LEMMA CallsUnanswered ==
  ASSUME CallsInv, NEW c \in Callers, Calls!Unanswered(c)
  PROVE  CallsInv'
<1>1. call[c] \in Sound
  BY CallBegun DEF Calls!Unanswered, Calls!Calling
<1>2. FALSE \in BOOLEAN
  BY Zenon
<1>3. UNCHANGED <<ws, patch, cached>> /\ "fallback" \in Calls!Kinds
  BY DEF Calls!Unanswered, Calls!Kinds
<1>4. cached' \in [Calls!Questions -> Calls!Results \cup {Calls!NoAnswer}]
  BY <1>3 DEF CallsInv, Calls!TypeOK
<1>5. CASE Calls!Exhausted(c)
  <2>1. Calls!Answer(c, "fallback", FALSE)
    BY <1>5, Zenon DEF Calls!Unanswered
  <2> QED  BY <1>1, <1>2, <1>3, <2>1, CallsAnswer
<1>6. CASE ~Calls!Exhausted(c)
  <2>1. call' = [call EXCEPT ![c] = Calls!NextTry([call[c] EXCEPT !.at = "post"])]
    BY <1>6, Zenon DEF Calls!Unanswered
  <2>2. Calls!NextTry([call[c] EXCEPT !.at = "post"]) \in Sound
    BY <1>1, <1>6, CallsNextTry
  <2> QED  BY <1>3, <1>4, <2>1, <2>2, CallsKept
<1> QED  BY <1>5, <1>6

LEMMA CallsEnds ==
  ASSUME CallsInv, NEW c \in Callers, Calls!GiveUp(c) \/ Calls!Refused(c)
  PROVE  CallsInv'
<1>1. call[c] \in Sound
  BY CallBegun DEF Calls!GiveUp, Calls!Refused, Calls!Calling
<1>2. FALSE \in BOOLEAN
  BY Zenon
<1>3. UNCHANGED <<ws, patch, cached>> /\ "fallback" \in Calls!Kinds
  BY DEF Calls!GiveUp, Calls!Refused, Calls!Kinds
<1>4. Calls!Answer(c, "fallback", FALSE)
  BY Zenon DEF Calls!GiveUp, Calls!Refused, Calls!Abort
<1> QED  BY <1>1, <1>2, <1>3, <1>4, CallsAnswer

LEMMA CallsAnswered ==
  ASSUME CallsInv, NEW c \in Callers, Calls!Answered(c)
  PROVE  CallsInv'
<1>1. call[c] \in Sound
  BY CallBegun DEF Calls!Answered, Calls!Calling
<1>2. PICK noise \in BOOLEAN :
        LET r == [by |-> "llm", noise |-> noise, asked |-> call[c].asked]
        IN /\ call' = [call EXCEPT ![c] = r]
           /\ cached' = [cached EXCEPT ![Calls!Question(call[c])] = r]
  <2> PICK form \in {"json", "lines", "prose"}, saysNoise \in BOOLEAN, unmet \in BOOLEAN, noiseLast \in BOOLEAN :
        LET noise == Calls!Heeded(call[c].asked, Calls!Parsed(form, saysNoise, unmet, noiseLast))
            r == [by |-> "llm", noise |-> noise, asked |-> call[c].asked]
        IN /\ call' = [call EXCEPT ![c] = r]
           /\ cached' = [cached EXCEPT ![Calls!Question(call[c])] = r]
    BY Zenon DEF Calls!Answered
  <2>1. Calls!Heeded(call[c].asked, Calls!Parsed(form, saysNoise, unmet, noiseLast)) \in BOOLEAN
    BY Zenon DEF Calls!Heeded
  <2> QED  BY <2>1, Zenon
<1> DEFINE r == [by |-> "llm", noise |-> noise, asked |-> call[c].asked]
<1>3. r \in Calls!Results
  BY <1>1 DEF Calls!Results, Calls!Kinds, Sound, Calls!Begun
<1>4. UNCHANGED <<ws, patch>>
  BY DEF Calls!Answered
<1>5. cached' \in [Calls!Questions -> Calls!Results \cup {Calls!NoAnswer}]
  BY <1>2, <1>3 DEF CallsInv, Calls!TypeOK
<1> QED  BY <1>2, <1>3, <1>4, <1>5, CallsKept

LEMMA CallsStep == CallsInv /\ [Calls!Next]_calls => CallsInv'
<1>1. CallsInv /\ UNCHANGED calls => CallsInv'
  BY DEF calls, CallsInv, Calls!TypeOK, Sound
<1> QED
  BY <1>1, CallsSettings, CallsAsk, CallsSwitchedOff, CallsGate, CallsLookUp, CallsExpireAnswer,
     CallsAttempt, CallsEnds, CallsUnanswered, CallsAnswered DEF Calls!Next

LEMMA CallsAlways == AllSpec => [](part = "calls" => CallsInv)
<1> DEFINE I == part = "calls" => CallsInv
<1>1. AllInit => I
  BY CallsInit DEF AllInit
<1>2. I /\ [AllNext]_allVars => I'
  <2> SUFFICES ASSUME I, [AllNext]_allVars, part' = "calls" PROVE CallsInv'
    OBVIOUS
  <2>1. part = "calls" /\ [Calls!Next]_calls
    BY DEF AllNext, allVars
  <2> QED  BY <2>1, CallsStep
<1> QED  BY <1>1, <1>2, PTL DEF AllSpec

\* workspaces.py, ai_summary.py: the server's key is used with the server's base only.
THEOREM ServerKeyStays == AllSpec => []ServerKeyStaysHome
<1>1. (part = "calls" => CallsInv) => ServerKeyStaysHome
  <2> SUFFICES ASSUME CallsInv, NEW c \in Callers, Calls!Posting(c), call[c].key = "server"
               PROVE  call[c].base = "server"
    BY Zenon DEF ServerKeyStaysHome, Calls!ServerKeyStaysHome
  <2> QED  BY CallBegun DEF Calls!Posting, Calls!Calling, Sound, SoundCall
<1> QED  BY <1>1, CallsAlways, PTL

\* ai_summary.py: a call whose answers do not drip ends within its deadline and the lookup
\* and waits of one attempt, and every call at a refusal.
THEOREM CallsBounded == AllSpec => []CallBounded
<1>1. (part = "calls" => CallsInv) => CallBounded
  <2> SUFFICES ASSUME CallsInv, NEW c \in Callers, Calls!Posting(c)
               PROVE  (~call[c].drips => call[c].spent <= Latest) /\ ~call[c].refused
    BY Zenon DEF CallBounded, Calls!CallBounded, Calls!TimeBounded, Calls!RefusedStops, Latest
  <2> QED  BY CallBegun DEF Calls!Posting, Calls!Calling, Sound, SoundCall
<1> QED  BY <1>1, CallsAlways, PTL

-----------------------------------------------------------------------------
(* The part at work.                                                       *)

LEMMA MembersPart == AllSpec => [](part = "members" => MembersInv)
<1> DEFINE I == part = "members" => MembersInv
<1>1. AllInit => I
  BY MembersInit DEF AllInit
<1>2. I /\ [AllNext]_allVars => I'
  <2> SUFFICES ASSUME I, [AllNext]_allVars, part' = "members" PROVE MembersInv'
    OBVIOUS
  <2>1. part = "members" /\ [Next]_teamVars
    BY DEF AllNext, allVars
  <2> QED  BY <2>1, MembersStep
<1> QED  BY <1>1, <1>2, PTL DEF AllSpec

Parts == {"members", "persons", "calls", "daily", "browser", "snapshots"}

LEMMA PartStays == AllSpec => [](part \in Parts)
<1> DEFINE I == part \in Parts
<1>1. AllInit => I
  BY DEF AllInit, Parts
<1>2. I /\ [AllNext]_allVars => I'
  <2> SUFFICES ASSUME I, [AllNext]_allVars PROVE I'
    OBVIOUS
  <2>1. part' = part
    BY DEF AllNext, allVars
  <2> QED  BY <2>1 DEF Parts
<1> QED  BY <1>1, <1>2, PTL DEF AllSpec

\* The part at work keeps the types of its variables, for any values of the constants.
THEOREM WorkspaceTyped == AllSpec => []TypesOK
<1>1. /\ part \in Parts
      /\ part = "members" => MembersInv
      /\ part = "persons" => PersonsInv
      /\ part = "calls" => CallsInv
      /\ part = "daily" => DailyInv
      /\ part = "browser" => BrowserInv
      /\ part = "snapshots" => SnapInv
      => TypesOK
  <2> SUFFICES ASSUME part \in Parts,
                      part = "members" => MembersInv,
                      part = "persons" => PersonsInv,
                      part = "calls" => CallsInv,
                      part = "daily" => DailyInv,
                      part = "browser" => BrowserInv,
                      part = "snapshots" => SnapInv
               PROVE  TypesOK
    OBVIOUS
  <2>1. CASE part = "members"
    BY <2>1 DEF TypesOK, MembersInv
  <2>2. CASE part = "persons"
    BY <2>2 DEF TypesOK, PersonsInv
  <2>3. CASE part = "calls"
    BY <2>3 DEF TypesOK, CallsInv
  <2>4. CASE part = "daily"
    BY <2>4 DEF TypesOK, DailyInv
  <2>5. CASE part = "browser"
    BY <2>5 DEF TypesOK, BrowserInv
  <2>6. CASE part = "snapshots"
    BY <2>6 DEF TypesOK, SnapInv, SnapTyped
  <2> QED  BY <2>1, <2>2, <2>3, <2>4, <2>5, <2>6 DEF Parts
<1> QED
  BY <1>1, PartStays, MembersPart, PersonsAlways, CallsAlways, DailyAlways, BrowserAlways, SnapAlways, PTL

=============================================================================
