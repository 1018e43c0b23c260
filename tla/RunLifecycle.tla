---------------------------- MODULE RunLifecycle ----------------------------
(***************************************************************************)
(* The life of a MonitorRun row, from the process that inserts it to the   *)
(* last write of its status, with every process that may touch the row:    *)
(*   - the scheduler loop: claim a due monitor, send the run's message,    *)
(*     reap stuck runs (scheduler.py, services/run_reaper.py);             *)
(*   - Dramatiq workers: gate, pre-run hook, claim, fetch, pipeline,       *)
(*     outcome (workers/run_guard.py, workers/checks.py,                   *)
(*     workers/browser_checks.py, services/pipeline.py);                   *)
(*   - API requests: "run now" and monitor creation (routers/monitors.py). *)
(* The broker delivers at least once and may lose messages, workers and    *)
(* schedulers may die at any step.  Row locks are those PostgreSQL takes   *)
(* for the statements of the code: an inserted Snapshot keeps a key-share  *)
(* lock on its run, a flushed UPDATE the row lock, the reaper's SELECT FOR *)
(* UPDATE SKIP LOCKED an exclusive lock on each row it returns.            *)
(***************************************************************************)
EXTENDS Naturals, FiniteSets

CONSTANTS
  Monitors,      \* monitors that own runs
  Workers,       \* Dramatiq worker threads
  Schedulers,    \* scheduler processes; each one also runs the reaper
  Callers,       \* API requests that start a run
  NoMonitor,     \* the owner of a run that has not been inserted
  MaxRuns,       \* bound on the runs inserted
  MaxMsgs,       \* bound on the copies of one run's message in the broker
  MaxCount,      \* bound at which the failure accounting of a run saturates
  AsyncAI        \* TRUE: the change is enriched later by the AI worker

ASSUME RunLifecycleAssumption ==
  /\ MaxRuns \in Nat
  /\ MaxMsgs \in Nat
  /\ MaxCount \in Nat
  /\ AsyncAI \in BOOLEAN
  /\ NoMonitor \notin Monitors

Runs == 1..MaxRuns
NoRun == 0

ActiveStatus == {"queued", "running"}
TerminalStatus == {"succeeded", "failed"}
\* "none" is a run that has not been inserted.  The column's default value
\* "scheduled" is written by no code path: every insert says "queued".
Statuses == {"none"} \cup ActiveStatus \cup TerminalStatus

WorkerPC == {"idle", "hook", "quota", "claim", "fetch", "extract", "flushed",
             "probing", "committing", "failing", "succeeded", "failed"}
CallerPC == {"idle", "failStale", "insert", "send"}

VARIABLES
  status,        \* monitor_runs.status
  monitorOf,     \* monitor_runs.monitor_id
  overdue,       \* runs whose age in their present status is past the reaper's cutoff
  changes,       \* runs with a committed ChangeEvent (and its outbox rows)
  msgs,          \* copies of the run's message waiting in the broker
  receipts,      \* runs holding a browser-quota receipt in Redis
  pc, job, saw,  \* per worker: control point, run in hand, status loaded at the gate
  sched,         \* per scheduler: the reap batch and the runs still to enqueue
  caller,        \* per API request: control point, monitor, run
  executions,    \* history: how often a worker took the run to RUNNING
  counted        \* history: record_run_outcome(succeeded=False) calls for the run

rowVars    == <<status, monitorOf, overdue, changes>>
workerVars == <<pc, job, saw>>
histVars   == <<executions, counted>>
vars == <<status, monitorOf, overdue, changes, msgs, receipts, pc, job, saw,
          sched, caller, executions, counted>>

IdleScheduler == [batch |-> {}, held |-> FALSE, run |-> NoRun,
                  old |-> "none", send |-> {}]
IdleCaller == [pc |-> "idle", monitor |-> NoMonitor, run |-> NoRun]

SchedulerState ==
  [batch : SUBSET Runs, held : BOOLEAN, run : Runs \cup {NoRun},
   old : Statuses, send : SUBSET Runs]
CallerState ==
  [pc : CallerPC, monitor : Monitors \cup {NoMonitor}, run : Runs \cup {NoRun}]

TypeOK ==
  /\ status \in [Runs -> Statuses]
  /\ monitorOf \in [Runs -> Monitors \cup {NoMonitor}]
  /\ overdue \subseteq Runs
  /\ changes \subseteq Runs
  /\ msgs \in [Runs -> 0..MaxMsgs]
  /\ receipts \subseteq Runs
  /\ pc \in [Workers -> WorkerPC]
  /\ job \in [Workers -> Runs \cup {NoRun}]
  /\ saw \in [Workers -> Statuses]
  /\ sched \in [Schedulers -> SchedulerState]
  /\ caller \in [Callers -> CallerState]
  /\ executions \in [Runs -> Nat]
  /\ counted \in [Runs -> 0..MaxCount]

-----------------------------------------------------------------------------
(* Rows, locks and messages.                                               *)

Active(m) == {r \in Runs : monitorOf[r] = m /\ status[r] \in ActiveStatus}

\* The id the next insert gets.  Ids grow, so the newest run has the largest.
IsNew(r) == status[r] = "none" /\ \A q \in Runs : q < r => status[q] # "none"

Insert(r, m) ==
  /\ IsNew(r)
  /\ status' = [status EXCEPT ![r] = "queued"]
  /\ monitorOf' = [monitorOf EXCEPT ![r] = m]

\* db.flush() of the Snapshot row: its foreign key share-locks the run's row.
KeyShared(r) ==
  \E w \in Workers : job[w] = r /\ pc[w] \in {"flushed", "probing", "committing"}

\* Faulty variant of RowLocked: the staged columns of the run are flushed by the
\* commit, no longer with the ChangeEvent.
LockedAtCommit(r) == FALSE

\* A flushed UPDATE of the row by the worker whose transaction is still open.
RowLocked(r) == \E w \in Workers : job[w] = r /\ pc[w] \in {"probing", "committing"}

\* The reaper's SELECT ... FOR UPDATE, until its first commit.
ReaperHolds(r) == \E s \in Schedulers : sched[s].held /\ r \in sched[s].batch

\* An UPDATE by another session gets through.
Writable(r) == ~RowLocked(r) /\ ~ReaperHolds(r)

\* A copy beyond the bound counts as lost, which LoseMessage allows anyway.
Sent(r) == msgs' = [msgs EXCEPT ![r] = IF @ < MaxMsgs THEN @ + 1 ELSE @]

CountFailure(r) ==
  counted' = [counted EXCEPT ![r] = IF @ < MaxCount THEN @ + 1 ELSE @]

MoveTo(w, p) == pc' = [pc EXCEPT ![w] = p] /\ UNCHANGED <<job, saw>>

\* The actor returns: its session is closed and the message is acknowledged.
Finish(w) ==
  /\ pc' = [pc EXCEPT ![w] = "idle"]
  /\ job' = [job EXCEPT ![w] = NoRun]
  /\ saw' = [saw EXCEPT ![w] = "none"]

Init ==
  /\ status = [r \in Runs |-> "none"]
  /\ monitorOf = [r \in Runs |-> NoMonitor]
  /\ overdue = {}
  /\ changes = {}
  /\ msgs = [r \in Runs |-> 0]
  /\ receipts = {}
  /\ pc = [w \in Workers |-> "idle"]
  /\ job = [w \in Workers |-> NoRun]
  /\ saw = [w \in Workers |-> "none"]
  /\ sched = [s \in Schedulers |-> IdleScheduler]
  \* A caller may be a create_monitor request that has just committed its
  \* monitor and is about to insert the first run (body.run_now).
  /\ \E creating \in SUBSET Callers, m \in [Callers -> Monitors] :
       /\ \A c, d \in creating : m[c] = m[d] => c = d
       /\ caller = [c \in Callers |->
            IF c \in creating
            THEN [pc |-> "insert", monitor |-> m[c], run |-> NoRun]
            ELSE IdleCaller]
  /\ executions = [r \in Runs |-> 0]
  /\ counted = [r \in Runs |-> 0]

-----------------------------------------------------------------------------
(* The scheduler: claim due monitors, then send their messages.            *)

\* claim_due_monitors for one monitor of the batch.  The row lock on the
\* monitor excludes the other schedulers; nothing excludes an API request.
ClaimDue(s, m, r) ==
  /\ sched[s].batch = {}
  /\ Active(m) = {}
  /\ Insert(r, m)
  /\ sched' = [sched EXCEPT ![s].send = @ \cup {r}]
  /\ UNCHANGED <<overdue, changes, msgs, receipts, workerVars, caller, histVars>>

\* enqueue_check, after the claim transaction has committed.
Enqueue(s, r) ==
  /\ r \in sched[s].send
  /\ Sent(r)
  /\ sched' = [sched EXCEPT ![s].send = @ \ {r}]
  /\ UNCHANGED <<rowVars, receipts, workerVars, caller, histVars>>

\* The scheduler dies, or an error (Redis, PostgreSQL) aborts this pass of
\* the loop: the transaction rolls back, what was left to enqueue is lost.
SchedulerAborts(s) ==
  /\ sched[s] # IdleScheduler
  /\ sched' = [sched EXCEPT ![s] = IdleScheduler]
  /\ UNCHANGED <<rowVars, msgs, receipts, workerVars, caller, histVars>>

-----------------------------------------------------------------------------
(* The reaper, at the head of every pass of the scheduler loop.            *)

\* Faulty variant of ReapQueued: only runs that have started are taken for stuck.
ReapOnlyStarted == {}

ReapQueued == {r \in overdue : status[r] = "queued"}
ReapRunning == {r \in overdue : status[r] = "running"}

\* SELECT ... FOR UPDATE SKIP LOCKED: every stuck row nobody has locked.
Stuck ==
  {r \in ReapQueued \cup ReapRunning : ~KeyShared(r) /\ ~ReaperHolds(r)}

ReapSelect(s) ==
  /\ sched[s] = IdleScheduler
  /\ Stuck # {}
  /\ sched' = [sched EXCEPT ![s] = [@ EXCEPT !.batch = Stuck, !.held = TRUE]]
  /\ UNCHANGED <<rowVars, msgs, receipts, workerVars, caller, histVars>>

\* old_status = run.status.  The first commit of the loop expires the loaded
\* rows, so from the second run on this reads the row again, without a lock.
ReapRead(s, r) ==
  /\ sched[s].run = NoRun
  /\ r \in sched[s].batch
  /\ sched' = [sched EXCEPT ![s] = [@ EXCEPT !.run = r, !.old = status[r]]]
  /\ UNCHANGED <<rowVars, msgs, receipts, workerVars, caller, histVars>>

ReapFence(now, old) == now = old

\* On to the next run of the batch, whose row locks are kept only while nothing
\* has been committed.
NextOfBatch(s, locked) ==
  LET rest == sched[s].batch \ {sched[s].run}
  IN sched' = [sched EXCEPT ![s] =
       IF rest = {} THEN IdleScheduler
       ELSE [@ EXCEPT !.batch = rest, !.held = locked, !.run = NoRun, !.old = "none"]]

\* The UPDATE waits for a worker or another reaper that has locked the row.
ReapUpdates(s) ==
  /\ sched[s].run # NoRun
  /\ ~RowLocked(sched[s].run)
  /\ \A t \in Schedulers \ {s} : sched[t].held => sched[s].run \notin sched[t].batch

\* UPDATE ... WHERE status = old_status, failure accounting, and the commit
\* that releases the locks on the whole batch.
ReapWins(s) ==
  LET r == sched[s].run
  IN /\ ReapUpdates(s)
     /\ ReapFence(status[r], sched[s].old)
     /\ status' = [status EXCEPT ![r] = "failed"]
     /\ CountFailure(r)
     /\ NextOfBatch(s, FALSE)
     /\ UNCHANGED <<monitorOf, overdue, changes, msgs, receipts, workerVars,
                    caller, executions>>

\* Rowcount 0: the run's status has changed since it was read.
ReapSkips(s) ==
  /\ ReapUpdates(s)
  /\ ~ReapFence(status[sched[s].run], sched[s].old)
  /\ NextOfBatch(s, sched[s].held)
  /\ UNCHANGED <<rowVars, msgs, receipts, workerVars, caller, histVars>>

-----------------------------------------------------------------------------
(* The worker, up to the claim.                                            *)

\* Faulty variant of CanStart: no gate before the hook.
NoGate(s) == TRUE

CanStart(s) == s = "queued"

\* A message is taken and its run loaded; the gate lets a run through that
\* has not started.
Receive(w, r) ==
  /\ pc[w] = "idle"
  /\ msgs[r] > 0
  /\ CanStart(status[r])
  /\ msgs' = [msgs EXCEPT ![r] = @ - 1]
  /\ pc' = [pc EXCEPT ![w] = "hook"]
  /\ job' = [job EXCEPT ![w] = r]
  /\ saw' = [saw EXCEPT ![w] = status[r]]
  /\ UNCHANGED <<rowVars, receipts, sched, caller, histVars>>

\* The run has started or ended: the message is acknowledged and dropped.
Discard(w, r) ==
  /\ pc[w] = "idle"
  /\ msgs[r] > 0
  /\ ~CanStart(status[r])
  /\ msgs' = [msgs EXCEPT ![r] = @ - 1]
  /\ UNCHANGED <<rowVars, receipts, workerVars, sched, caller, histVars>>

\* The pre-run hook sends the run to the other queue.  run.status = QUEUED is
\* an ORM assignment: it becomes an UPDATE only when the loaded value differs.
Bounce(w) ==
  LET r == job[w]
  IN /\ pc[w] = "hook"
     /\ saw[w] = "queued" \/ Writable(r)
     /\ status' = [status EXCEPT ![r] = IF saw[w] = "queued" THEN @ ELSE "queued"]
     /\ Sent(r)
     /\ Finish(w)
     /\ UNCHANGED <<monitorOf, overdue, changes, receipts, sched, caller, histVars>>

\* The daily browser quota has room, or this run already holds a receipt.
PassHook(w) ==
  /\ pc[w] = "hook"
  /\ receipts' = receipts \cup {job[w]}
  /\ MoveTo(w, "claim")
  /\ UNCHANGED <<rowVars, msgs, sched, caller, histVars>>

\* The quota is exhausted; the reservation has been rolled back.
ExceedQuota(w) ==
  /\ pc[w] = "hook"
  /\ job[w] \notin receipts
  /\ MoveTo(w, "quota")
  /\ UNCHANGED <<rowVars, msgs, receipts, sched, caller, histVars>>

\* run.status = FAILED without a fence, failure accounting, commit.
FailQuota(w) ==
  LET r == job[w]
  IN /\ pc[w] = "quota"
     /\ Writable(r)
     /\ status' = [status EXCEPT ![r] = "failed"]
     /\ CountFailure(r)
     /\ Finish(w)
     /\ UNCHANGED <<monitorOf, overdue, changes, msgs, receipts, sched, caller,
                    executions>>

\* Faulty variant of Claimable: a run that has not ended may be claimed.
NotOver(s) == s \notin TerminalStatus

Claimable(s) == s = "queued"

\* UPDATE ... SET status = 'running' WHERE status IN (scheduled, queued).
Claim(w) ==
  LET r == job[w]
  IN /\ pc[w] = "claim"
     /\ Writable(r)
     /\ Claimable(status[r])
     /\ status' = [status EXCEPT ![r] = "running"]
     /\ overdue' = overdue \ {r}
     /\ executions' = [executions EXCEPT ![r] = @ + 1]
     /\ MoveTo(w, "fetch")
     /\ UNCHANGED <<monitorOf, changes, msgs, receipts, sched, caller, counted>>

\* Rowcount 0: another worker or the reaper was first.
LoseClaim(w) ==
  /\ pc[w] = "claim"
  /\ Writable(job[w])
  /\ ~Claimable(status[job[w]])
  /\ Finish(w)
  /\ UNCHANGED <<rowVars, msgs, receipts, sched, caller, histVars>>

-----------------------------------------------------------------------------
(* The worker, from the claim to the end of the actor.                     *)

\* Faulty variant of StillLive: the fence trusts the copy of the run loaded at
\* the claim, which says RUNNING whatever has been committed since.
LoadedAsLive(s) == TRUE

StillLive(s) == s = "running"

\* Domain blocked, blocked address, fetch error, or any other exception that
\* is raised before a terminal status was committed.
Raise(w) ==
  /\ pc[w] \in {"fetch", "extract", "flushed", "probing", "committing"}
  /\ MoveTo(w, "failing")
  /\ UNCHANGED <<rowVars, msgs, receipts, sched, caller, histVars>>

\* The entry fence of apply_fetch_result, read through a fresh session.
EntryFence(w) ==
  /\ pc[w] = "fetch"
  /\ MoveTo(w, IF StillLive(status[job[w]]) THEN "extract" ELSE "failed")
  /\ UNCHANGED <<rowVars, msgs, receipts, sched, caller, histVars>>

\* HTTP error, extraction error or empty content: FAILED without a fence.
ExtractFails(w) ==
  LET r == job[w]
  IN /\ pc[w] = "extract"
     /\ Writable(r)
     /\ status' = [status EXCEPT ![r] = "failed"]
     /\ MoveTo(w, "failed")
     /\ UNCHANGED <<monitorOf, overdue, changes, msgs, receipts, sched, caller,
                    histVars>>

\* The content is stored and the Snapshot row flushed.
StoreSnapshot(w) ==
  /\ pc[w] = "extract"
  /\ ~ReaperHolds(job[w])
  /\ MoveTo(w, "flushed")
  /\ UNCHANGED <<rowVars, msgs, receipts, sched, caller, histVars>>

\* Baseline, unchanged or visually similar: SUCCEEDED without a fence.
FinishUnchanged(w) ==
  LET r == job[w]
  IN /\ pc[w] = "flushed"
     /\ Writable(r)
     /\ status' = [status EXCEPT ![r] = "succeeded"]
     /\ MoveTo(w, "succeeded")
     /\ UNCHANGED <<monitorOf, overdue, changes, msgs, receipts, sched, caller,
                    histVars>>

\* The ChangeEvent is flushed, and with it the run's staged columns: from here
\* to the commit the worker holds the row lock.
FlushChange(w) ==
  /\ pc[w] = "flushed"
  /\ Writable(job[w])
  /\ MoveTo(w, IF AsyncAI THEN "committing" ELSE "probing")
  /\ UNCHANGED <<rowVars, msgs, receipts, sched, caller, histVars>>

\* The pre-commit fence, which the asynchronous path does not have; a run that
\* is no longer RUNNING has its results rolled back.
PreCommitFence(w) ==
  /\ pc[w] = "probing"
  /\ MoveTo(w, IF StillLive(status[job[w]]) THEN "committing" ELSE "failed")
  /\ UNCHANGED <<rowVars, msgs, receipts, sched, caller, histVars>>

\* UPDATE ... WHERE status = 'running', then commit, then look at rowcount.
CommitTerminalSuccess(w) ==
  LET r == job[w]
      owned == status[r] = "running"
  IN /\ pc[w] = "committing"
     /\ changes' = changes \cup {r}
     /\ status' = [status EXCEPT ![r] = IF owned THEN "succeeded" ELSE @]
     /\ MoveTo(w, IF owned THEN "succeeded" ELSE "failed")
     /\ UNCHANGED <<monitorOf, overdue, msgs, receipts, sched, caller, histVars>>

\* fail_run: roll back, UPDATE ... WHERE status = 'running', commit.
FailRun(w) ==
  LET r == job[w]
  IN /\ pc[w] = "failing"
     /\ Writable(r)
     /\ status' = [status EXCEPT ![r] = IF @ = "running" THEN "failed" ELSE @]
     /\ MoveTo(w, "failed")
     /\ UNCHANGED <<monitorOf, overdue, changes, msgs, receipts, sched, caller,
                    histVars>>

\* record_run_outcome(succeeded=False), commit, notifications enqueued.
RecordFailure(w) ==
  /\ pc[w] = "failed"
  /\ CountFailure(job[w])
  /\ Finish(w)
  /\ UNCHANGED <<rowVars, msgs, receipts, sched, caller, executions>>

\* record_run_outcome(succeeded=True), commit, notifications enqueued.
RecordSuccess(w) ==
  /\ pc[w] = "succeeded"
  /\ Finish(w)
  /\ UNCHANGED <<rowVars, msgs, receipts, sched, caller, histVars>>

\* record_domain_success or record_run_outcome raises after the pipeline has
\* committed: the handler runs fail_run and counts a failure.
OutcomeRaises(w) ==
  /\ pc[w] = "succeeded"
  /\ MoveTo(w, "failing")
  /\ UNCHANGED <<rowVars, msgs, receipts, sched, caller, histVars>>

\* The worker dies, or the actor's time limit interrupts it: the transaction
\* rolls back, the message comes back or, its retries used up, does not.
WorkerDies(w) ==
  LET r == job[w]
  IN /\ pc[w] # "idle"
     /\ \/ msgs' = msgs
        \/ Sent(r)
     /\ Finish(w)
     /\ UNCHANGED <<rowVars, receipts, sched, caller, histVars>>

-----------------------------------------------------------------------------
(* API requests, time and the broker.                                      *)

CallerAt(c, p, r) ==
  caller' = [caller EXCEPT ![c] = [@ EXCEPT !.pc = p, !.run = r]]

\* manual_run finds no active run of the monitor.
ManualRunFree(c, m) ==
  /\ caller[c].pc = "idle"
  /\ Active(m) = {}
  /\ caller' = [caller EXCEPT ![c] = [pc |-> "insert", monitor |-> m, run |-> NoRun]]
  /\ UNCHANGED <<rowVars, msgs, receipts, workerVars, sched, histVars>>

\* manual_run finds an active run (the newest, read without a lock) and takes
\* it for stuck: a QUEUED one is sent again, a RUNNING one failed.  Otherwise
\* the request is answered with 409, which changes nothing.
ManualRunStale(c, m) ==
  \E r \in Active(m) :
    /\ caller[c].pc = "idle"
    /\ \A q \in Active(m) : q <= r
    /\ r \in overdue
    /\ caller' = [caller EXCEPT ![c] =
         [pc |-> IF status[r] = "queued" THEN "send" ELSE "failStale",
          monitor |-> m, run |-> r]]
    /\ UNCHANGED <<rowVars, msgs, receipts, workerVars, sched, histVars>>

\* active.status = FAILED, without a fence and without failure accounting.
FailStale(c) ==
  LET r == caller[c].run
  IN /\ caller[c].pc = "failStale"
     /\ Writable(r)
     /\ status' = [status EXCEPT ![r] = "failed"]
     /\ CallerAt(c, "insert", NoRun)
     /\ UNCHANGED <<monitorOf, overdue, changes, msgs, receipts, workerVars, sched,
                    histVars>>

InsertRun(c, r) ==
  /\ caller[c].pc = "insert"
  /\ Insert(r, caller[c].monitor)
  /\ CallerAt(c, "send", r)
  /\ UNCHANGED <<overdue, changes, msgs, receipts, workerVars, sched, histVars>>

SendRun(c) ==
  /\ caller[c].pc = "send"
  /\ Sent(caller[c].run)
  /\ caller' = [caller EXCEPT ![c] = IdleCaller]
  /\ UNCHANGED <<rowVars, receipts, workerVars, sched, histVars>>

\* The API process dies or the send fails.
CallerAborts(c) ==
  /\ caller[c].pc # "idle"
  /\ caller' = [caller EXCEPT ![c] = IdleCaller]
  /\ UNCHANGED <<rowVars, msgs, receipts, workerVars, sched, histVars>>

\* The run's age passes the cutoff of its status (queued_at: 90 s for a manual
\* run, 2 minutes for the reaper; started_at: 5 minutes for both).
Age(r) ==
  /\ status[r] \in ActiveStatus
  /\ r \notin overdue
  /\ overdue' = overdue \cup {r}
  /\ UNCHANGED <<status, monitorOf, changes, msgs, receipts, workerVars, sched,
                 caller, histVars>>

LoseMessage(r) ==
  /\ msgs[r] > 0
  /\ msgs' = [msgs EXCEPT ![r] = @ - 1]
  /\ UNCHANGED <<rowVars, receipts, workerVars, sched, caller, histVars>>

-----------------------------------------------------------------------------

ReaperStep(s) ==
  \/ ReapSelect(s)
  \/ \E r \in Runs : ReapRead(s, r)
  \/ ReapWins(s) \/ ReapSkips(s)

SchedulerStep(s) ==
  \/ \E m \in Monitors, r \in Runs : ClaimDue(s, m, r)
  \/ \E r \in Runs : Enqueue(s, r)
  \/ ReaperStep(s)
  \/ SchedulerAborts(s)

\* What a live worker does next; only the environment makes it raise or die.
WorkerProgress(w) ==
  \/ \E r \in Runs : Receive(w, r) \/ Discard(w, r)
  \/ Bounce(w) \/ PassHook(w) \/ ExceedQuota(w) \/ FailQuota(w)
  \/ Claim(w) \/ LoseClaim(w) \/ EntryFence(w) \/ ExtractFails(w)
  \/ StoreSnapshot(w) \/ FinishUnchanged(w) \/ FlushChange(w)
  \/ PreCommitFence(w) \/ CommitTerminalSuccess(w) \/ FailRun(w)
  \/ RecordFailure(w) \/ RecordSuccess(w)

WorkerStep(w) ==
  \/ WorkerProgress(w)
  \/ Raise(w) \/ OutcomeRaises(w) \/ WorkerDies(w)

CallerStep(c) ==
  \/ \E m \in Monitors : ManualRunFree(c, m) \/ ManualRunStale(c, m)
  \/ \E r \in Runs : InsertRun(c, r)
  \/ FailStale(c) \/ SendRun(c) \/ CallerAborts(c)

Next ==
  \/ \E s \in Schedulers : SchedulerStep(s)
  \/ \E w \in Workers : WorkerStep(w)
  \/ \E c \in Callers : CallerStep(c)
  \/ \E r \in Runs : Age(r) \/ LoseMessage(r)

Spec == Init /\ [][Next]_vars

\* A live worker goes on, time passes, and the scheduler loop, which logs every
\* exception and runs again, sends and reaps: strong fairness says that it is not
\* aborted in every single pass.
Fairness ==
  /\ \A w \in Workers : WF_vars(WorkerProgress(w))
  /\ \A r \in Runs : WF_vars(Age(r))
  /\ \A s \in Schedulers :
       /\ SF_vars(\E r \in Runs : Enqueue(s, r))
       /\ SF_vars(ReapSelect(s))
       /\ SF_vars(\E r \in Runs : ReapRead(s, r))
       /\ SF_vars(ReapWins(s) \/ ReapSkips(s))

FairSpec == Spec /\ Fairness

-----------------------------------------------------------------------------
(* Correctness.                                                            *)

\* Whatever is redelivered, duplicated by a manual run, bounced between the
\* queues or reaped, at most one worker ever takes a run through the pipeline
\* (the idempotency guard of execute_monitored_run).
ExecutedOnce == \A r \in Runs : executions[r] <= 1

\* A run that has started or ended never goes back to QUEUED, although a
\* pre-run hook that bounces a run writes exactly that status (the fencing
\* gate of execute_monitored_run).
NeverRequeued ==
  [][\A r \in Runs : status[r] \notin {"none", "queued"} => status'[r] # "queued"]_vars

\* A ChangeEvent, and with it the notifications it queues, becomes visible
\* only in the very commit that takes its run from RUNNING to SUCCEEDED: the
\* reaper and manual_run cannot get in between the pre-commit fence and the
\* commit.  (Synchronous enrichment; see ChangeOnlyWithSuccess of the run
\* "lifecycle_async" for the other path.)
ChangeOnlyWithSuccess ==
  [][\A r \in changes' \ changes : status[r] = "running" /\ status'[r] = "succeeded"]_vars

\* The life of every run implements the contract the rest of the system relies
\* on: inserted once, started at most once, over for good, published only by
\* the step that ends it.  (Synchronous enrichment.)
Phase == [r \in Runs |-> CASE status[r] = "none" -> "absent"
                           [] status[r] = "queued" -> "waiting"
                           [] status[r] = "running" -> "started"
                           [] OTHER -> "over"]

Contract == INSTANCE RunContract WITH phase <- Phase, published <- changes

ImplementsContract == Contract!Spec

\* No run stays QUEUED or RUNNING for ever, whatever messages are lost and
\* whichever workers die: the reaper unblocks its monitor.
EveryRunEnds ==
  \A r \in Runs : status[r] \in ActiveStatus ~> status[r] \in TerminalStatus

\* Claims of the documentation that the code does not keep.

\* "no zombie SUCCEEDED-over-FAILED": a run the reaper or a manual run has
\* failed is not taken to SUCCEEDED by the worker that still executes it.
NeverResurrected ==
  [][\A r \in Runs : status[r] = "failed" => status'[r] # "succeeded"]_vars

\* "a run that completes legitimately between the SELECT and the WRITE is no
\* longer clobbered": no step of the reaper takes a run out of SUCCEEDED.
ReaperKeepsSuccess ==
  [][sched' # sched =>
       \A r \in Runs : status[r] = "succeeded" => status'[r] = "succeeded"]_vars

\* "record_run_outcome is called exactly once per failed run".
CountedOnce == \A r \in Runs : counted[r] <= 1

=============================================================================
