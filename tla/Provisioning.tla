---------------------------- MODULE Provisioning ----------------------------
(***************************************************************************)
(* How somebody who signs in for the first time comes to a user row and a  *)
(* workspace (auth.py, routers/workspaces.py, routers/internal.py).  The   *)
(* request that meets an unknown identity writes nothing; it leaves a      *)
(* background task that does, in a transaction of its own, and the first   *)
(* page of the dashboard makes several such requests at once.              *)
(***************************************************************************)
EXTENDS Naturals, FiniteSets

CONSTANTS
  People,        \* Clerk identities, each with an e-mail address of its own
  Tasks,         \* background tasks under way
  MaxSpaces      \* bound on the workspaces one person makes by hand

VARIABLES
  row,           \* users: no row, a seeded one without Clerk id, a linked one;
                 \* "moved" is linked, and the address in the token is a new one
  defaults,      \* committed workspaces made for the person by provisioning
  spaces,        \* committed memberships of other kinds; removals are Team's
  task,          \* what each task is at
  rowLock        \* transaction that has inserted or updated the user row

provVars == <<row, defaults, spaces, task, rowLock>>

Ended == [at |-> "ended"]

TaskStates ==
  [at : {"start"}, who : People]
    \cup [at : {"read", "flushed", "made"}, who : People, saw : {"none", "seeded", "linked", "moved"},
          bare : BOOLEAN]

TypeOK ==
  /\ row \in [People -> {"none", "seeded", "linked", "moved"}]
  /\ defaults \in [People -> Nat] /\ spaces \in [People -> 0..MaxSpaces + 1]
  /\ task \in [Tasks -> TaskStates \cup {Ended}]
  /\ rowLock \in [People -> Tasks \cup {"nobody"}]

Init ==
  /\ row = [p \in People |-> "none"]
  /\ defaults = [p \in People |-> 0] /\ spaces = [p \in People |-> 0]
  /\ task = [t \in Tasks |-> Ended]
  /\ rowLock = [p \in People |-> "nobody"]

-----------------------------------------------------------------------------
(* Requests.                                                               *)

\* get_current_principal: the identity has no row, or its address has changed.
NeedsSync(p) == row[p] # "linked"

Request(t, p) ==
  /\ task[t] = Ended /\ NeedsSync(p)
  /\ task' = [task EXCEPT ![t] = [at |-> "start", who |-> p]]
  /\ UNCHANGED <<row, defaults, spaces, rowLock>>

\* create_workspace, for a user who is known: the workspace with its owner.
CreateWorkspace(p) ==
  /\ row[p] \in {"linked", "moved"} /\ spaces[p] < MaxSpaces
  /\ spaces' = [spaces EXCEPT ![p] = @ + 1]
  /\ UNCHANGED <<row, defaults, task, rowLock>>

\* seed_dev_workspace, at set-up, before anybody signs in with that address.
Seed(p) ==
  /\ row[p] = "none" /\ \A t \in Tasks : task[t] = Ended
  /\ row' = [row EXCEPT ![p] = "seeded"]
  /\ \E n \in 0..1 : spaces' = [spaces EXCEPT ![p] = n]
  /\ UNCHANGED <<defaults, task, rowLock>>

\* The person changes their e-mail address at the identity provider; here between
\* tasks that carry the old one.
MoveAddress(p) ==
  /\ row[p] = "linked" /\ \A t \in Tasks : task[t] # Ended => task[t].who # p
  /\ row' = [row EXCEPT ![p] = "moved"]
  /\ UNCHANGED <<defaults, spaces, task, rowLock>>

-----------------------------------------------------------------------------
(* The background task: upsert_clerk_user, ensure_default_workspace.       *)

Bare(p) == defaults[p] + spaces[p] = 0

ReadUser(t) ==
  /\ task[t].at = "start"
  /\ LET p == task[t].who
     IN task' = [task EXCEPT ![t] = [at |-> "read", who |-> p, saw |-> row[p], bare |-> Bare(p)]]
  /\ UNCHANGED <<row, defaults, spaces, rowLock>>

\* The flush inserts or updates the row and waits for a transaction that does the
\* same; nothing is flushed for a row that is as it should be.  An insert that comes
\* second fails on the unique columns.
FlushUser(t) ==
  LET p == task[t].who IN
  /\ task[t].at = "read"
  /\ task[t].saw # "linked" => rowLock[p] = "nobody"
  /\ IF task[t].saw = "none" /\ row[p] # "none"
     THEN task' = [task EXCEPT ![t] = Ended] /\ UNCHANGED rowLock
     ELSE /\ task' = [task EXCEPT ![t].at = "flushed"]
          /\ rowLock' = IF task[t].saw = "linked" THEN rowLock ELSE [rowLock EXCEPT ![p] = t]
  /\ UNCHANGED <<row, defaults, spaces>>

\* Faulty variant of Lacks: the membership is looked up with the user, ahead of the
\* flush that makes the tasks wait for each other.
LacksEarly(t) == task[t].bare

\* The membership is looked up after the flush.
Lacks(t) == Bare(task[t].who)

ReadMembership(t) ==
  /\ task[t].at = "flushed"
  /\ task' = [task EXCEPT ![t].at = "made", ![t].bare = Lacks(t)]
  /\ UNCHANGED <<row, defaults, spaces, rowLock>>

Free(t) == [p \in People |-> IF rowLock[p] = t THEN "nobody" ELSE rowLock[p]]

\* Faulty variant of WithUser: the workspace is left to the next sign-in.
WithUserLater(t) == 0

\* Workspaces that are committed together with the user.
WithUser(t) == IF task[t].bare THEN 1 ELSE 0

CommitUser(t) ==
  LET p == task[t].who IN
  /\ task[t].at = "made"
  /\ row' = [row EXCEPT ![p] = "linked"]
  /\ defaults' = [defaults EXCEPT ![p] = @ + WithUser(t)]
  /\ task' = [task EXCEPT ![t] = Ended]
  /\ rowLock' = Free(t)
  /\ UNCHANGED spaces

\* "best-effort provisioning": whatever fails is rolled back and forgotten.
Fail(t) ==
  /\ task[t] # Ended
  /\ task' = [task EXCEPT ![t] = Ended]
  /\ rowLock' = Free(t)
  /\ UNCHANGED <<row, defaults, spaces>>

Next ==
  \/ \E p \in People :
       \/ CreateWorkspace(p) \/ Seed(p) \/ MoveAddress(p)
       \/ \E t \in Tasks : Request(t, p)
  \/ \E t \in Tasks :
       ReadUser(t) \/ FlushUser(t) \/ ReadMembership(t) \/ CommitUser(t) \/ Fail(t)

Spec == Init /\ [][Next]_provVars

-----------------------------------------------------------------------------
(* Correctness.                                                            *)

\* However many first requests a person makes at once, they get one default
\* workspace: the tasks meet at the user row.
OneDefault == \A p \in People : defaults[p] <= 1

\* A person who is known is in some workspace: the user and the membership are
\* committed together, and a task that fails half-way leaves the next request to
\* provision again.
KnownHasWorkspace == \A p \in People : row[p] \in {"linked", "moved"} => ~Bare(p)

\* A known person is in some workspace, and in one that was made for them at most.
Provisioned == OneDefault /\ KnownHasWorkspace

=============================================================================
