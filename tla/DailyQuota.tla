----------------------------- MODULE DailyQuota -----------------------------
(***************************************************************************)
(* The daily check quota of one workspace (services/usage.py, plans.py).   *)
(* The scheduler reads the day's counter before it inserts a run; so does  *)
(* a request for a check now, which inserts later and without a lock; the  *)
(* first check of a new monitor begins without a look.  The worker         *)
(* increments the counter when the run's result arrives, in the            *)
(* transaction that later locks the monitor's row and commits.  These      *)
(* transactions wait for each other, and the database aborts one of two    *)
(* that wait in a circle.                                                  *)
(***************************************************************************)
EXTENDS Naturals, FiniteSets

CONSTANTS
  Monitors,      \* monitors of the workspace
  Requests,      \* requests for a check now, at a time
  Runs,          \* runs at a time
  Limit,         \* max_checks_per_day of its plan
  MaxChecks      \* bound on the results of a day

VARIABLES
  day,           \* the day has a second half, in which the counter is a new one
  made,          \* the day's counter row is committed
  checks,        \* its checks_count, committed
  holder,        \* who holds a lock on the row: "nobody", "scheduler", a run or a request
  fresh,         \* the lock is that of an insert which is not yet committed
  runOf,         \* the runs: monitor, how far it is, and whether its row is active
  held,          \* monitors that the scheduler's claim has locked
  todo,          \* those of them it has not come to yet
  request,       \* each request: the monitor, and how far it is
  young,         \* monitors whose creating request has still to insert the first run
  counted,       \* history: results committed on this day
  allowed        \* history: how many were under way when the quota was last found to be
                 \* left, and how many have begun without a look since then

quotaVars ==
  <<day, made, checks, holder, fresh, runOf, held, todo, request, young, counted, allowed>>

NoRun == [step |-> "none"]

\* "queued" is the time from the row to the result; "claimed" a row not yet committed;
\* "dead" a row whose worker is gone.
Begun == [step : {"claimed", "queued", "counted", "locked", "dead"}, of : Monitors, live : BOOLEAN]

NoRequest == [at |-> "idle"]

Asking == [at : {"asked", "looked"}, of : Monitors]

TypeOK ==
  /\ day \in 1..2 /\ made \in BOOLEAN /\ fresh \in BOOLEAN
  /\ checks \in 0..MaxChecks /\ counted \in 0..MaxChecks
  /\ allowed \in Nat
  /\ holder \in {"nobody", "scheduler"} \cup Runs \cup Requests
  /\ runOf \in [Runs -> Begun \cup {NoRun}]
  /\ request \in [Requests -> Asking \cup {NoRequest}]
  /\ held \subseteq Monitors /\ todo \subseteq held /\ young \subseteq Monitors

Init ==
  /\ day = 1 /\ made = FALSE /\ checks = 0 /\ counted = 0 /\ allowed = 0
  /\ holder = "nobody" /\ fresh = FALSE
  /\ runOf = [r \in Runs |-> NoRun]
  /\ request = [q \in Requests |-> NoRequest]
  /\ held = {} /\ todo = {} /\ young = Monitors

\* Rows that the test for an active run finds: status scheduled, queued or running.
Active(m) == {r \in Runs : runOf[r].step \notin {"none", "claimed"} /\ runOf[r].live /\ runOf[r].of = m}

Row(m, step) == [step |-> step, of |-> m, live |-> TRUE]

Begins(m, step) == \E r \in Runs : runOf[r] = NoRun /\ runOf' = [runOf EXCEPT ![r] = Row(m, step)]

\* What may still count: runs with a worker to come or at work, and requests that
\* found the quota left.
UnderWay(runs, requests) ==
  Cardinality({r \in Runs : runs[r].step \notin {"none", "dead"}})
    + Cardinality({q \in Requests : requests[q].at # "idle"})

-----------------------------------------------------------------------------
(* get_or_create_counter, and the test of the quota.                       *)

\* INSERT ... ON CONFLICT DO NOTHING waits for whoever has inserted or updated the row
\* and not yet committed.
InsertWaits(t) == holder \notin {"nobody", t}

\* The row is there, or t inserts it and holds it.
GetOrCreate(t) ==
  /\ ~InsertWaits(t)
  /\ IF made \/ fresh
     THEN UNCHANGED <<holder, fresh>>
     ELSE holder' = t /\ fresh' = TRUE

\* The transaction of t ends; with commit, the row it inserted is there.
Release(t, commit) ==
  /\ holder' = IF holder = t THEN "nobody" ELSE holder
  /\ fresh' = (fresh /\ holder # t)
  /\ made' = (made \/ (commit /\ fresh /\ holder = t))

\* Faulty variant of QuotaLeft: off by one.
QuotaLeftOrEqual(n) == n <= Limit

QuotaLeft(n) == n < Limit

-----------------------------------------------------------------------------
(* claim_due_monitors.                                                     *)

Locked == {m \in Monitors : \E r \in Runs : runOf[r].step = "locked" /\ runOf[r].of = m}

\* FOR UPDATE SKIP LOCKED over the monitors that are due.
LockDue ==
  /\ held = {}
  /\ \E S \in (SUBSET (Monitors \ Locked)) \ {{}} : held' = S /\ todo' = S
  /\ UNCHANGED <<day, made, checks, holder, fresh, runOf, request, young, counted, allowed>>

\* The next monitor is passed over while it has an active run, over quota, and when its
\* slot has a run already; otherwise a run is inserted.
ClaimNext(m) ==
  /\ m \in todo
  /\ todo' = todo \ {m}
  /\ IF Active(m) # {}
     THEN UNCHANGED <<holder, fresh, runOf, allowed>>
     ELSE /\ GetOrCreate("scheduler")
          /\ IF QuotaLeft(checks)
             THEN /\ UNCHANGED runOf \/ Begins(m, "claimed")
                  /\ allowed' = UnderWay(runOf', request)
             ELSE UNCHANGED <<runOf, allowed>>
  /\ UNCHANGED <<day, made, checks, held, request, young, counted>>

ClaimCommit ==
  /\ held # {} /\ todo = {}
  /\ Release("scheduler", TRUE)
  /\ runOf' = [r \in Runs |-> IF runOf[r].step = "claimed" THEN Row(runOf[r].of, "queued") ELSE runOf[r]]
  /\ held' = {} /\ UNCHANGED todo
  /\ UNCHANGED <<day, checks, request, young, counted, allowed>>

-----------------------------------------------------------------------------
(* manual_run, and create_monitor with run_now.                            *)

\* Over quota the request is refused, and its transaction, with the row it may have
\* made, rolled back.
Ask(q) ==
  /\ request[q] = NoRequest
  /\ GetOrCreate(q) /\ QuotaLeft(checks)
  /\ \E m \in Monitors : request' = [request EXCEPT ![q] = [at |-> "asked", of |-> m]]
  /\ allowed' = UnderWay(runOf, request')
  /\ UNCHANGED <<day, made, checks, runOf, held, todo, young, counted>>

\* A reaped row is not active; a worker that has gone past its fence carries on.
Ended(run) ==
  IF run.step \in {"counted", "locked"} THEN [run EXCEPT !.live = FALSE] ELSE NoRun

\* The monitor has no active run, or one of five minutes, which is written off first.
Look(q) ==
  /\ request[q].at = "asked"
  /\ request' = [request EXCEPT ![q].at = "looked"]
  /\ \/ Active(request[q].of) = {} /\ UNCHANGED <<made, holder, fresh, runOf>>
     \/ /\ \E r \in Active(request[q].of) : runOf' = [runOf EXCEPT ![r] = Ended(runOf[r])]
        /\ Release(q, TRUE)
  /\ UNCHANGED <<day, checks, held, todo, young, counted, allowed>>

\* The foreign key waits for a claim that has locked the monitor.
Insert(q) ==
  LET m == request[q].of IN
  /\ request[q].at = "looked" /\ m \notin held
  /\ Begins(m, "queued")
  /\ request' = [request EXCEPT ![q] = NoRequest]
  /\ Release(q, TRUE)
  /\ UNCHANGED <<day, checks, held, todo, young, counted, allowed>>

\* 409 for an active run, an error, or the database chose it: it may come back.
RequestEnds(q) ==
  /\ request[q] # NoRequest
  /\ request' = [request EXCEPT ![q] = NoRequest]
  /\ Release(q, FALSE)
  /\ UNCHANGED <<day, checks, runOf, held, todo, young, counted, allowed>>

\* The first run of a new monitor: no look at quota or active runs.
RunNow(m) ==
  /\ m \in young /\ m \notin held
  /\ young' = young \ {m}
  /\ Begins(m, "queued")
  /\ allowed' = allowed + 1
  /\ UNCHANGED <<day, made, checks, holder, fresh, held, todo, request, counted>>

-----------------------------------------------------------------------------
(* The worker: apply_fetch_result.                                         *)

\* The entry fence, and increment_checks: the row, then its lock for the UPDATE.
Increment(r) ==
  /\ runOf[r].step = "queued"
  /\ holder = "nobody"
  /\ holder' = r
  /\ fresh' = ~made
  /\ runOf' = [runOf EXCEPT ![r].step = "counted"]
  /\ UNCHANGED <<day, made, checks, held, todo, request, young, counted, allowed>>

\* The flush of the snapshot and of the monitor's columns.
LockMonitor(r) ==
  /\ runOf[r].step = "counted"
  /\ runOf[r].of \notin held
  /\ runOf' = [runOf EXCEPT ![r].step = "locked"]
  /\ UNCHANGED <<day, made, checks, holder, fresh, held, todo, request, young, counted, allowed>>

\* Faulty variant of Incremented: the value that was read, plus one.
IncrementedStale(n) == IF n > 0 THEN n ELSE n + 1

\* UPDATE ... SET checks_count = checks_count + 1.
Incremented(n) == n + 1

\* Committed before it is known whether the run was reaped meanwhile.
Commit(r) ==
  /\ runOf[r].step = "locked"
  /\ counted < MaxChecks
  /\ checks' = Incremented(checks)
  /\ counted' = counted + 1
  /\ Release(r, TRUE)
  /\ runOf' = [runOf EXCEPT ![r] = NoRun]
  /\ UNCHANGED <<day, held, todo, request, young, allowed>>

\* The fetch failed, or a fence or an error rolls back; if the worker dies, the row stays.
Rollback(r) ==
  /\ runOf[r].step \in {"queued", "counted", "locked"}
  /\ Release(r, FALSE)
  /\ \/ runOf' = [runOf EXCEPT ![r] = NoRun]
     \/ runOf[r].live /\ runOf' = [runOf EXCEPT ![r].step = "dead"]
  /\ UNCHANGED <<day, checks, held, todo, request, young, counted, allowed>>

\* The reaper ends a run that is queued or running for too long.
Reap(r) ==
  /\ runOf[r].step \notin {"none", "claimed"} /\ runOf[r].live
  /\ runOf' = [runOf EXCEPT ![r] = Ended(runOf[r])]
  /\ UNCHANGED <<day, made, checks, holder, fresh, held, todo, request, young, counted, allowed>>

\* Midnight, UTC: the counter of the new day; here between transactions that
\* hold the old one.
Midnight ==
  /\ day = 1 /\ holder = "nobody" /\ held = {}
  /\ day' = 2 /\ made' = FALSE /\ checks' = 0 /\ counted' = 0
  /\ UNCHANGED <<holder, fresh, runOf, held, todo, request, young, allowed>>

-----------------------------------------------------------------------------

\* The scheduler waits for the counter, of which the holder waits for a monitor that the
\* scheduler has locked.  It can happen at any hour.
Circle ==
  /\ InsertWaits("scheduler") /\ \E m \in todo : Active(m) = {}
  /\ \/ holder \in Runs /\ runOf[holder].step = "counted" /\ runOf[holder].of \in held
     \/ holder \in Requests /\ request[holder].at = "looked" /\ request[holder].of \in held

\* The database aborts one of the two.  The scheduler loses its whole batch; the other
\* rolls back by itself.
DeadlockAbort ==
  /\ Circle
  /\ Release("scheduler", FALSE)
  /\ held' = {} /\ todo' = {}
  /\ runOf' = [r \in Runs |-> IF runOf[r].step = "claimed" THEN NoRun ELSE runOf[r]]
  /\ UNCHANGED <<day, checks, request, young, counted, allowed>>

Next ==
  \/ LockDue \/ ClaimCommit \/ DeadlockAbort \/ Midnight
  \/ \E m \in Monitors : ClaimNext(m) \/ RunNow(m)
  \/ \E q \in Requests : Ask(q) \/ Look(q) \/ Insert(q) \/ RequestEnds(q)
  \/ \E r \in Runs :
       Increment(r) \/ LockMonitor(r) \/ Commit(r) \/ Rollback(r) \/ Reap(r)

Spec == Init /\ [][Next]_quotaVars

-----------------------------------------------------------------------------
(* Correctness.                                                            *)

\* "concurrent transactions cannot lose increments": the counter is the number
\* of results committed on its day, whoever made its row.
CountExact == checks = counted

\* A day's checks, with all that may still come, exceed the last check that was allowed by
\* no more than was under way when the quota was last found to be left, and what has begun
\* without a look since.
OvershootBounded == checks + UnderWay(runOf, request) < Limit + allowed

\* The counter is exact, and what it lets pass is bounded.
QuotaHeld == CountExact /\ OvershootBounded

=============================================================================
