---------------------------- MODULE MCWorkspace -----------------------------
(***************************************************************************)
(* Six parts of what a workspace keeps, checked side by side: its members  *)
(* and invites, the people that are provisioned into it, the provider      *)
(* settings and the calls made with them, its counters of checks and of    *)
(* browser checks, and its stored pages.  The initial state picks one, and *)
(* the others stay where they are.                                         *)
(***************************************************************************)
EXTENDS Team

CONSTANTS
  People, Tasks, MaxSpaces,                                                        \* Provisioning
  Callers, Patches, Models, MaxAttempts, Deadline, Timeout, Waits, Lookup,         \* Enrichment
  Addresses, MaxDrip, MaxCached,
  Monitors, Askers, QuotaRuns, Limit, MaxChecks,                                   \* DailyQuota
  BrowserRuns, Workers, BrowserLimit, MaxFaults,                                   \* BrowserQuota
  Runs, MaxDeaths                                                                  \* SnapshotStore

ASSUME PeopleAssumption == MaxSpaces \in Nat /\ "nobody" \notin Tasks

ASSUME EnrichmentAssumption ==
  /\ Models \in Nat \ {0} /\ MaxAttempts \in Nat /\ Deadline \in Nat /\ Timeout \in Nat
  /\ Addresses \in Nat \ {0} /\ Waits \in Nat \ {0} /\ Lookup \in Nat /\ MaxDrip \in Nat

\* Who holds the counter's row is told apart; a plan allows a check.
ASSUME QuotaAssumption ==
  /\ IsFiniteSet(QuotaRuns) /\ IsFiniteSet(Askers) /\ QuotaRuns \cap Askers = {}
  /\ {"nobody", "scheduler"} \cap (QuotaRuns \cup Askers) = {}
  /\ Limit \in Nat \ {0} /\ MaxChecks \in Nat

ASSUME BrowserAssumption ==
  /\ IsFiniteSet(BrowserRuns) /\ IsFiniteSet(Workers) /\ BrowserLimit \in Nat /\ MaxFaults \in Nat

\* 0 and 99 stand for "no run" and "no event".
ASSUME SnapshotAssumption == Runs \subseteq Nat /\ {0, 99} \cap Runs = {} /\ MaxDeaths \in Nat

VARIABLES
  part,
  userRow, defaults, spaces, task, rowLock,
  ws, patch, call, cached,
  day, made, checks, holder, fresh, runOf, held, todo, request, young, counted, allowed,
  charged, receipt, status, hook, faults, fetched, granted, troubled,
  row, runRow, objects, event, check, oldSnap, oldRun, purge, removal, deaths, torn

Persons == INSTANCE Provisioning WITH row <- userRow
Calls   == INSTANCE Enrichment
Daily   == INSTANCE DailyQuota WITH Requests <- Askers, Runs <- QuotaRuns
Browser == INSTANCE BrowserQuota WITH Runs <- BrowserRuns, Limit <- BrowserLimit
Snap    == INSTANCE SnapshotStore

persons == <<userRow, defaults, spaces, task, rowLock>>
calls   == <<ws, patch, call, cached>>
daily   == <<day, made, checks, holder, fresh, runOf, held, todo, request, young, counted, allowed>>
browser == <<charged, receipt, status, hook, faults, fetched, granted, troubled>>
snap    == <<row, runRow, objects, event, check, oldSnap, oldRun, purge, removal, deaths, torn>>
allVars == <<part, teamVars, persons, calls, daily, browser, snap>>

AllInit ==
  /\ part \in {"members", "persons", "calls", "daily", "browser", "snapshots"}
  /\ Init /\ Persons!Init /\ Calls!Init /\ Daily!Init /\ Browser!Init /\ Snap!Init
  /\ part = "members" \/ \A u \in Users : role[u] = "owner"

AllNext ==
  /\ UNCHANGED part
  /\ \/ part = "members"   /\ Next /\ UNCHANGED <<persons, calls, daily, browser, snap>>
     \/ part = "persons"   /\ Persons!Next /\ UNCHANGED <<teamVars, calls, daily, browser, snap>>
     \/ part = "calls"     /\ Calls!Next   /\ UNCHANGED <<teamVars, persons, daily, browser, snap>>
     \/ part = "daily"     /\ Daily!Next   /\ UNCHANGED <<teamVars, persons, calls, browser, snap>>
     \/ part = "browser"   /\ Browser!Next /\ UNCHANGED <<teamVars, persons, calls, daily, snap>>
     \/ part = "snapshots" /\ Snap!Next    /\ UNCHANGED <<teamVars, persons, calls, daily, browser>>

AllSpec == AllInit /\ [][AllNext]_allVars

-----------------------------------------------------------------------------

\* Every variable of the part at work keeps its type.
TypesOK ==
  CASE part = "members"   -> TypeOK
    [] part = "persons"   -> Persons!TypeOK
    [] part = "calls"     -> Calls!TypeOK
    [] part = "daily"     -> Daily!TypeOK
    [] part = "browser"   -> Browser!TypeOK
    [] part = "snapshots" -> Snap!TypeOK

\* auth.py: a known person has a workspace, and one default workspace at most.
Provisioned == part = "persons" => Persons!Provisioned

\* workspaces.py, ai_summary.py: the server's key is used with the server's base only.
ServerKeyStaysHome == part = "calls" => Calls!ServerKeyStaysHome

\* ai_summary.py: a call whose answers do not drip ends soon after its deadline, and
\* every call at a refusal.
CallBounded == part = "calls" => Calls!CallBounded

\* usage.py, plans.py: the counter is exact, and exceeded by what was under way when the
\* quota was last found to be left, and by what begins without a look, at most.
QuotaHeld == part = "daily" => Daily!QuotaHeld

\* browser_checks.py: no more browser runs are counted than the plan allows, and others
\* are fetched only where messages of one run met, or something raised or died.
QuotaKept == part = "browser" => Browser!QuotaKept

\* retention.py: what the inbox shows and what rows name is in the store.
ObjectsKept == part = "snapshots" => Snap!ObjectsKept

=============================================================================
