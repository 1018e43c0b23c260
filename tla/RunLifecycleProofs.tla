------------------------- MODULE RunLifecycleProofs -------------------------
(***************************************************************************)
(* Machine-checked proofs about RunLifecycle, for every set of monitors,   *)
(* workers, schedulers and callers and every bound.                        *)
(* The inductive invariant IInv relates the control point of each process  *)
(* to the status of the run it has in hand: that is what the claim fence,  *)
(* the gate and the row lock between fence and commit are for.             *)
(***************************************************************************)
EXTENDS RunLifecycle, TLAPS

Executing == {"fetch", "extract", "flushed", "probing", "committing", "failing",
              "succeeded", "failed"}

Started == {"running", "succeeded", "failed"}

\* A busy worker has a run in hand; one before its claim saw it QUEUED.
BusyHasJob ==
  \A w \in Workers :
    pc[w] # "idle" =>
      /\ job[w] \in Runs
      /\ status[job[w]] # "none"
      /\ pc[w] = "hook" => saw[w] = "queued"

\* A run in a worker's hands past the claim has started, and only that worker
\* executes it.
ExecutorsStarted ==
  \A w \in Workers : pc[w] \in Executing => status[job[w]] \in Started

SingleExecutor ==
  \A v, w \in Workers :
    pc[v] \in Executing /\ pc[w] \in Executing /\ job[v] = job[w] => v = w

\* What has not started has never been executed.
NotStartedNotExecuted ==
  \A r \in Runs : status[r] \notin Started => executions[r] = 0

\* The reaper and manual_run write only to rows that were inserted, and
\* manual_run only to one it read as RUNNING.
ReapedExist ==
  \A s \in Schedulers :
    /\ \A r \in sched[s].batch : status[r] # "none"
    /\ sched[s].run # NoRun => sched[s].run \in sched[s].batch

StaleStarted ==
  \A c \in Callers :
    caller[c].pc = "failStale" =>
      caller[c].run \in Runs /\ status[caller[c].run] \in Started

\* Between the pre-commit fence and the commit the run stays RUNNING.
FencedStillRunning ==
  ~AsyncAI => \A w \in Workers : pc[w] = "committing" => status[job[w]] = "running"

Rest ==
  /\ BusyHasJob
  /\ ExecutorsStarted
  /\ SingleExecutor
  /\ NotStartedNotExecuted
  /\ ExecutedOnce
  /\ ReapedExist
  /\ StaleStarted
  /\ FencedStillRunning

IInv == TypeOK /\ Rest

-----------------------------------------------------------------------------
(* Type correctness.                                                       *)

LEMMA StatusValues ==
  /\ "none" \in Statuses /\ "queued" \in Statuses /\ "running" \in Statuses
  /\ "succeeded" \in Statuses /\ "failed" \in Statuses
  BY DEF Statuses, ActiveStatus, TerminalStatus

LEMMA ControlPoints ==
  {"idle", "hook", "quota", "claim", "fetch", "extract", "flushed", "probing",
   "committing", "failing", "succeeded", "failed"} \subseteq WorkerPC
  BY DEF WorkerPC

LEMMA IdleTypes == IdleScheduler \in SchedulerState /\ IdleCaller \in CallerState
  BY StatusValues
  DEF IdleScheduler, SchedulerState, IdleCaller, CallerState, CallerPC, NoRun

LEMMA InitType == Init => TypeOK
<1>1. SUFFICES ASSUME Init PROVE TypeOK
  OBVIOUS
<1>2. caller \in [Callers -> CallerState]
  <2>1. PICK creating \in SUBSET Callers, m \in [Callers -> Monitors] :
          caller = [c \in Callers |->
            IF c \in creating
            THEN [pc |-> "insert", monitor |-> m[c], run |-> NoRun]
            ELSE IdleCaller]
    BY <1>1 DEF Init
  <2>2. ASSUME NEW c \in Callers
        PROVE  [pc |-> "insert", monitor |-> m[c], run |-> NoRun] \in CallerState
    BY DEF CallerState, CallerPC
  <2>3. QED
    BY <2>1, <2>2, IdleTypes
<1>3. 0 \in 0..MaxMsgs /\ 0 \in 0..MaxCount
  BY RunLifecycleAssumption
<1>4. QED
  BY <1>1, <1>2, <1>3, StatusValues, ControlPoints, IdleTypes DEF Init, TypeOK

\* Sending saturates at the bound, taking a message stays above zero, and a
\* failure count stays in its range.
LEMMA Counters ==
  ASSUME TypeOK, NEW r \in Runs
  PROVE  /\ Sent(r) => msgs' \in [Runs -> 0..MaxMsgs]
         /\ msgs[r] > 0 /\ msgs' = [msgs EXCEPT ![r] = @ - 1]
              => msgs' \in [Runs -> 0..MaxMsgs]
         /\ CountFailure(r) => counted' \in [Runs -> 0..MaxCount]
<1> USE RunLifecycleAssumption
<1>1. msgs[r] \in 0..MaxMsgs /\ counted[r] \in 0..MaxCount
  BY DEF TypeOK
<1>2. msgs \in [Runs -> 0..MaxMsgs] /\ counted \in [Runs -> 0..MaxCount]
  BY DEF TypeOK
<1>3. (IF msgs[r] < MaxMsgs THEN msgs[r] + 1 ELSE msgs[r]) \in 0..MaxMsgs
  BY <1>1
<1>4. msgs[r] > 0 => msgs[r] - 1 \in 0..MaxMsgs
  BY <1>1
<1>5. (IF counted[r] < MaxCount THEN counted[r] + 1 ELSE counted[r]) \in 0..MaxCount
  BY <1>1
<1>6. QED
  BY <1>2, <1>3, <1>4, <1>5 DEF Sent, CountFailure

LEMMA SchedulerStepType ==
  ASSUME TypeOK, NEW s \in Schedulers, SchedulerStep(s)
  PROVE  TypeOK'
<1> USE StatusValues DEF rowVars, workerVars, histVars
<1>0. sched \in [Schedulers -> SchedulerState] /\ sched[s] \in SchedulerState
  BY DEF TypeOK
<1>1. ASSUME NEW m \in Monitors, NEW r \in Runs, ClaimDue(s, m, r)
      PROVE  TypeOK'
  <2>1. sched' \in [Schedulers -> SchedulerState]
    BY <1>0, <1>1 DEF ClaimDue, SchedulerState
  <2>2. QED
    BY <1>1, <2>1 DEF ClaimDue, Insert, TypeOK
<1>2. ASSUME NEW r \in Runs, Enqueue(s, r)
      PROVE  TypeOK'
  <2>1. sched' \in [Schedulers -> SchedulerState]
    BY <1>0, <1>2 DEF Enqueue, SchedulerState
  <2>2. QED
    BY <1>2, <2>1, Counters DEF Enqueue, TypeOK
<1>3. ASSUME ReapSelect(s)
      PROVE  TypeOK'
  <2>1. Stuck \subseteq Runs
    BY DEF Stuck, ReapQueued, ReapRunning, TypeOK
  <2>2. sched' \in [Schedulers -> SchedulerState]
    BY <1>0, <1>3, <2>1 DEF ReapSelect, SchedulerState
  <2>3. QED
    BY <1>3, <2>2 DEF ReapSelect, TypeOK
<1>4. ASSUME NEW r \in Runs, ReapRead(s, r)
      PROVE  TypeOK'
  <2>1. status[r] \in Statuses
    BY DEF TypeOK
  <2>2. sched' \in [Schedulers -> SchedulerState]
    BY <1>0, <1>4, <2>1 DEF ReapRead, SchedulerState
  <2>3. QED
    BY <1>4, <2>2 DEF ReapRead, TypeOK
<1>5. ASSUME NEW locked \in BOOLEAN, sched[s].run # NoRun, NextOfBatch(s, locked)
      PROVE  sched' \in [Schedulers -> SchedulerState]
  <2> DEFINE more == [sched[s] EXCEPT !.batch = sched[s].batch \ {sched[s].run},
                                      !.held = locked, !.run = NoRun, !.old = "none"]
  <2>1. more \in SchedulerState
    BY <1>0 DEF SchedulerState
  <2>2. sched' = [sched EXCEPT ![s] =
          IF sched[s].batch \ {sched[s].run} = {} THEN IdleScheduler ELSE more]
    BY <1>5 DEF NextOfBatch
  <2> HIDE DEF more
  <2>3. QED
    BY <1>0, <2>1, <2>2, IdleTypes
<1>6. CASE ReapWins(s)
  <2>1. sched[s].run \in Runs
    BY <1>0, <1>6 DEF ReapWins, ReapUpdates, SchedulerState
  <2>2. status' \in [Runs -> Statuses] /\ counted' \in [Runs -> 0..MaxCount]
    BY <1>6, <2>1, Counters DEF ReapWins, TypeOK
  <2>3. sched' \in [Schedulers -> SchedulerState]
    BY <1>5, <1>6 DEF ReapWins, ReapUpdates
  <2>4. QED
    BY <1>6, <2>2, <2>3 DEF ReapWins, TypeOK
<1>7. CASE ReapSkips(s)
  <2>1. sched[s].held \in BOOLEAN
    BY <1>0 DEF SchedulerState
  <2>2. sched' \in [Schedulers -> SchedulerState]
    BY <1>5, <1>7, <2>1 DEF ReapSkips, ReapUpdates
  <2>3. QED
    BY <1>7, <2>2 DEF ReapSkips, TypeOK
<1>8. CASE SchedulerAborts(s)
  BY <1>8, IdleTypes DEF SchedulerAborts, TypeOK
<1>9. QED
  BY <1>1, <1>2, <1>3, <1>4, <1>6, <1>7, <1>8 DEF SchedulerStep, ReaperStep

\* The job of a busy worker is a run: needed to type what it writes.
LEMMA WorkerStepType ==
  ASSUME TypeOK, BusyHasJob, NEW w \in Workers, WorkerStep(w)
  PROVE  TypeOK'
<1> USE StatusValues, ControlPoints DEF rowVars, workerVars, histVars, MoveTo, Finish
<1>0. pc[w] # "idle" => job[w] \in Runs
  BY DEF BusyHasJob
<1>1. ASSUME NEW r \in Runs, Receive(w, r)
      PROVE  TypeOK'
  BY <1>1, Counters DEF Receive, TypeOK
<1>2. ASSUME NEW r \in Runs, Discard(w, r)
      PROVE  TypeOK'
  BY <1>2, Counters DEF Discard, TypeOK
<1>3. CASE Bounce(w)
  BY <1>0, <1>3, Counters DEF Bounce, TypeOK
<1>4. CASE PassHook(w) \/ ExceedQuota(w)
  BY <1>0, <1>4 DEF PassHook, ExceedQuota, TypeOK
<1>5. CASE FailQuota(w)
  BY <1>0, <1>5, Counters DEF FailQuota, TypeOK
<1>6. CASE Claim(w)
  BY <1>0, <1>6 DEF Claim, TypeOK
<1>7. CASE LoseClaim(w) \/ RecordSuccess(w)
  BY <1>7 DEF LoseClaim, RecordSuccess, TypeOK
<1>8. CASE EntryFence(w) \/ StoreSnapshot(w) \/ FlushChange(w) \/ PreCommitFence(w)
  BY <1>8 DEF EntryFence, StoreSnapshot, FlushChange, PreCommitFence, TypeOK
<1>9. CASE ExtractFails(w) \/ FinishUnchanged(w)
  BY <1>9 DEF ExtractFails, FinishUnchanged, TypeOK
<1>10. CASE CommitTerminalSuccess(w)
  BY <1>0, <1>10 DEF CommitTerminalSuccess, TypeOK
<1>11. CASE FailRun(w)
  BY <1>0, <1>11 DEF FailRun, TypeOK
<1>12. CASE RecordFailure(w)
  BY <1>0, <1>12, Counters DEF RecordFailure, TypeOK
<1>13. CASE Raise(w) \/ OutcomeRaises(w)
  BY <1>13 DEF Raise, OutcomeRaises, TypeOK
<1>14. CASE WorkerDies(w)
  BY <1>0, <1>14, Counters DEF WorkerDies, TypeOK
<1>15. QED
  BY <1>1, <1>2, <1>3, <1>4, <1>5, <1>6, <1>7, <1>8, <1>9, <1>10, <1>11, <1>12,
     <1>13, <1>14 DEF WorkerStep, WorkerProgress

LEMMA CallerStepType ==
  ASSUME TypeOK, StaleStarted, NEW c \in Callers, CallerStep(c)
  PROVE  TypeOK'
<1> USE StatusValues DEF rowVars, workerVars, histVars, CallerAt
<1>0. caller \in [Callers -> CallerState] /\ caller[c] \in CallerState
  BY DEF TypeOK
<1>1. ASSUME NEW m \in Monitors, ManualRunFree(c, m) \/ ManualRunStale(c, m)
      PROVE  TypeOK'
  <2>1. PICK p \in {"insert", "send", "failStale"}, r \in Runs \cup {NoRun} :
          caller' = [caller EXCEPT ![c] = [pc |-> p, monitor |-> m, run |-> r]]
    <3>1. CASE ManualRunFree(c, m)
      BY <3>1 DEF ManualRunFree
    <3>2. CASE ManualRunStale(c, m)
      BY <3>2 DEF ManualRunStale, Active
    <3>3. QED
      BY <1>1, <3>1, <3>2
  <2>2. [pc |-> p, monitor |-> m, run |-> r] \in CallerState
    BY DEF CallerState, CallerPC
  <2>3. QED
    BY <1>0, <1>1, <2>1, <2>2 DEF ManualRunFree, ManualRunStale, TypeOK
<1>2. CASE FailStale(c)
  <2>1. caller' \in [Callers -> CallerState]
    BY <1>0, <1>2 DEF FailStale, CallerState, CallerPC
  <2>2. QED
    BY <1>2, <2>1 DEF FailStale, TypeOK
<1>3. ASSUME NEW r \in Runs, InsertRun(c, r)
      PROVE  TypeOK'
  <2>1. caller' \in [Callers -> CallerState] /\ caller[c].monitor \in Monitors \cup {NoMonitor}
    BY <1>0, <1>3 DEF InsertRun, CallerState, CallerPC
  <2>2. QED
    BY <1>3, <2>1 DEF InsertRun, Insert, TypeOK
<1>4. CASE SendRun(c)
  <2>1. msgs' \in [Runs -> 0..MaxMsgs]
    <3>1. CASE caller[c].run \in Runs
      BY <1>4, <3>1, Counters DEF SendRun
    <3>2. CASE caller[c].run \notin Runs
      BY <1>4, <3>2 DEF SendRun, Sent, TypeOK
    <3>3. QED
      BY <3>1, <3>2
  <2>2. QED
    BY <1>4, <2>1, IdleTypes DEF SendRun, TypeOK
<1>5. CASE CallerAborts(c)
  BY <1>5, IdleTypes DEF CallerAborts, TypeOK
<1>6. QED
  BY <1>1, <1>2, <1>3, <1>4, <1>5 DEF CallerStep

LEMMA NextType == TypeOK /\ BusyHasJob /\ StaleStarted /\ [Next]_vars => TypeOK'
<1>1. SUFFICES ASSUME TypeOK, BusyHasJob, StaleStarted, [Next]_vars
               PROVE  TypeOK'
  OBVIOUS
<1>2. ASSUME NEW r \in Runs, Age(r)
      PROVE  TypeOK'
  BY <1>1, <1>2 DEF TypeOK, Age, workerVars, histVars
<1>3. ASSUME NEW r \in Runs, LoseMessage(r)
      PROVE  TypeOK'
  BY <1>1, <1>3, Counters DEF TypeOK, LoseMessage, rowVars, workerVars, histVars
<1>4. CASE UNCHANGED vars
  BY <1>1, <1>4 DEF TypeOK, vars
<1>5. QED
  BY <1>1, <1>2, <1>3, <1>4, SchedulerStepType, WorkerStepType, CallerStepType DEF Next

-----------------------------------------------------------------------------
(* The inductive invariant: every step preserves it.                       *)

LEMMA SchedulerStepInv ==
  ASSUME TypeOK, Rest, NEW s \in Schedulers, SchedulerStep(s)
  PROVE  Rest'
<1> USE DEF Rest, rowVars, workerVars, histVars
<1>1. ASSUME NEW m \in Monitors, NEW r \in Runs, ClaimDue(s, m, r)
      PROVE  Rest'
  <2>1. BusyHasJob'
    BY <1>1 DEF TypeOK, BusyHasJob, ClaimDue, Insert, IsNew
  <2>2. ExecutorsStarted'
    BY <1>1 DEF TypeOK, ExecutorsStarted, BusyHasJob, Executing, Started,
        ClaimDue, Insert, IsNew
  <2>3. NotStartedNotExecuted'
    BY <1>1 DEF TypeOK, NotStartedNotExecuted, BusyHasJob, ExecutorsStarted,
        Executing, Started, ClaimDue, Insert, IsNew
  <2>4. ReapedExist'
    BY <1>1 DEF TypeOK, ReapedExist, BusyHasJob, SchedulerState, ClaimDue,
        Insert, IsNew
  <2>5. StaleStarted'
    BY <1>1 DEF TypeOK, StaleStarted, BusyHasJob, CallerState, Started,
        ClaimDue, Insert, IsNew
  <2>6. FencedStillRunning'
    BY <1>1 DEF TypeOK, FencedStillRunning, BusyHasJob, ExecutorsStarted,
        SingleExecutor, Executing, Started, Writable, RowLocked, ClaimDue,
        Insert, IsNew
  <2>7. QED
    BY <1>1, <2>1, <2>2, <2>3, <2>4, <2>5, <2>6 DEF ClaimDue, SingleExecutor,
        ExecutedOnce
<1>2. ASSUME NEW r \in Runs, Enqueue(s, r)
      PROVE  Rest'
  <2>1. ReapedExist'
    BY <1>2 DEF TypeOK, ReapedExist, BusyHasJob, SchedulerState, Enqueue
  <2>2. QED
    BY <1>2, <2>1 DEF Enqueue, BusyHasJob, ExecutorsStarted, SingleExecutor,
        NotStartedNotExecuted, ExecutedOnce, StaleStarted, FencedStillRunning
<1>3. CASE ReapSelect(s)
  <2>1. ReapedExist'
    BY <1>3 DEF TypeOK, ReapedExist, BusyHasJob, SchedulerState, ReapSelect,
        Stuck, ReapQueued, ReapRunning, IdleScheduler
  <2>2. QED
    BY <1>3, <2>1 DEF ReapSelect, BusyHasJob, ExecutorsStarted,
        SingleExecutor, NotStartedNotExecuted, ExecutedOnce, StaleStarted,
        FencedStillRunning
<1>4. ASSUME NEW r \in Runs, ReapRead(s, r)
      PROVE  Rest'
  <2>1. ReapedExist'
    BY <1>4 DEF TypeOK, ReapedExist, BusyHasJob, SchedulerState, ReapRead
  <2>2. QED
    BY <1>4, <2>1 DEF ReapRead, BusyHasJob, ExecutorsStarted, SingleExecutor,
        NotStartedNotExecuted, ExecutedOnce, StaleStarted, FencedStillRunning
<1>5. CASE ReapWins(s)
  <2>1. BusyHasJob'
    BY <1>5 DEF TypeOK, BusyHasJob, ReapWins, ReapUpdates, NextOfBatch,
        IdleScheduler
  <2>2. ExecutorsStarted'
    BY <1>5 DEF TypeOK, ExecutorsStarted, BusyHasJob, Executing, Started,
        ReapWins, ReapUpdates, NextOfBatch, IdleScheduler
  <2>3. NotStartedNotExecuted'
    BY <1>5 DEF TypeOK, NotStartedNotExecuted, BusyHasJob, ExecutorsStarted,
        Executing, Started, ReapWins, ReapUpdates, NextOfBatch, IdleScheduler
  <2>4. ReapedExist'
    BY <1>5 DEF TypeOK, ReapedExist, BusyHasJob, SchedulerState, ReapWins,
        ReapUpdates, NextOfBatch, IdleScheduler
  <2>5. StaleStarted'
    BY <1>5 DEF TypeOK, StaleStarted, BusyHasJob, CallerState, Started,
        ReapWins, ReapUpdates, NextOfBatch, IdleScheduler
  <2>6. FencedStillRunning'
    BY <1>5 DEF TypeOK, FencedStillRunning, BusyHasJob, ExecutorsStarted,
        SingleExecutor, Executing, Started, Writable, RowLocked, ReapWins,
        ReapUpdates, NextOfBatch, IdleScheduler
  <2>7. QED
    BY <1>5, <2>1, <2>2, <2>3, <2>4, <2>5, <2>6 DEF ReapWins, SingleExecutor,
        ExecutedOnce
<1>6. CASE ReapSkips(s)
  <2>1. ReapedExist'
    BY <1>6 DEF TypeOK, ReapedExist, BusyHasJob, SchedulerState, ReapSkips,
        NextOfBatch, IdleScheduler
  <2>2. QED
    BY <1>6, <2>1 DEF ReapSkips, BusyHasJob, ExecutorsStarted, SingleExecutor,
        NotStartedNotExecuted, ExecutedOnce, StaleStarted, FencedStillRunning
<1>7. CASE SchedulerAborts(s)
  <2>1. ReapedExist'
    BY <1>7 DEF TypeOK, ReapedExist, BusyHasJob, SchedulerState,
        SchedulerAborts, IdleScheduler
  <2>2. QED
    BY <1>7, <2>1 DEF SchedulerAborts, BusyHasJob, ExecutorsStarted,
        SingleExecutor, NotStartedNotExecuted, ExecutedOnce, StaleStarted,
        FencedStillRunning
<1>8. QED
  BY <1>1, <1>2, <1>3, <1>4, <1>5, <1>6, <1>7 DEF SchedulerStep, ReaperStep

LEMMA WorkerStepInv ==
  ASSUME TypeOK, Rest, NEW w \in Workers, WorkerStep(w)
  PROVE  Rest'
<1> USE DEF Rest, rowVars, workerVars, histVars
<1>1. ASSUME NEW r \in Runs, Receive(w, r)
      PROVE  Rest'
  <2>1. BusyHasJob'
    BY <1>1 DEF TypeOK, BusyHasJob, Receive, CanStart
  <2>2. ExecutorsStarted'
    BY <1>1 DEF TypeOK, ExecutorsStarted, BusyHasJob, Executing, Started,
        Receive, CanStart
  <2>3. SingleExecutor'
    BY <1>1 DEF TypeOK, SingleExecutor, ExecutorsStarted, BusyHasJob,
        Executing, Started, Receive, CanStart
  <2>4. FencedStillRunning'
    BY <1>1 DEF TypeOK, FencedStillRunning, BusyHasJob, ExecutorsStarted,
        SingleExecutor, Executing, Started, Writable, RowLocked, Receive,
        CanStart
  <2>5. QED
    BY <1>1, <2>1, <2>2, <2>3, <2>4 DEF Receive, NotStartedNotExecuted,
        ExecutedOnce, ReapedExist, StaleStarted
<1>2. ASSUME NEW r \in Runs, Discard(w, r)
      PROVE  Rest'
  BY <1>2 DEF Discard, BusyHasJob, ExecutorsStarted, SingleExecutor,
      NotStartedNotExecuted, ExecutedOnce, ReapedExist, StaleStarted,
      FencedStillRunning
<1>3. CASE Bounce(w)
  <2>1. BusyHasJob'
    BY <1>3 DEF TypeOK, BusyHasJob, Bounce, Finish
  <2>2. ExecutorsStarted'
    BY <1>3 DEF TypeOK, ExecutorsStarted, BusyHasJob, Executing, Started,
        Bounce, Finish
  <2>3. SingleExecutor'
    BY <1>3 DEF TypeOK, SingleExecutor, ExecutorsStarted, BusyHasJob,
        Executing, Started, Bounce, Finish
  <2>4. NotStartedNotExecuted'
    BY <1>3 DEF TypeOK, NotStartedNotExecuted, BusyHasJob, ExecutorsStarted,
        Executing, Started, Bounce, Finish
  <2>5. ReapedExist'
    BY <1>3 DEF TypeOK, ReapedExist, BusyHasJob, SchedulerState, Bounce,
        Finish
  <2>6. StaleStarted'
    BY <1>3 DEF TypeOK, StaleStarted, BusyHasJob, CallerState, Started,
        Bounce, Finish
  <2>7. FencedStillRunning'
    BY <1>3 DEF TypeOK, FencedStillRunning, BusyHasJob, ExecutorsStarted,
        SingleExecutor, Executing, Started, Writable, RowLocked, Bounce,
        Finish
  <2>8. QED
    BY <1>3, <2>1, <2>2, <2>3, <2>4, <2>5, <2>6, <2>7 DEF Bounce, ExecutedOnce
<1>4. CASE PassHook(w)
  <2>1. BusyHasJob'
    BY <1>4 DEF TypeOK, BusyHasJob, PassHook, MoveTo
  <2>2. ExecutorsStarted'
    BY <1>4 DEF TypeOK, ExecutorsStarted, BusyHasJob, Executing, Started,
        PassHook, MoveTo
  <2>3. SingleExecutor'
    BY <1>4 DEF TypeOK, SingleExecutor, ExecutorsStarted, BusyHasJob,
        Executing, Started, PassHook, MoveTo
  <2>4. FencedStillRunning'
    BY <1>4 DEF TypeOK, FencedStillRunning, BusyHasJob, ExecutorsStarted,
        SingleExecutor, Executing, Started, Writable, RowLocked, PassHook,
        MoveTo
  <2>5. QED
    BY <1>4, <2>1, <2>2, <2>3, <2>4 DEF PassHook, MoveTo,
        NotStartedNotExecuted, ExecutedOnce, ReapedExist, StaleStarted
<1>5. CASE ExceedQuota(w)
  <2>1. BusyHasJob'
    BY <1>5 DEF TypeOK, BusyHasJob, ExceedQuota, MoveTo
  <2>2. ExecutorsStarted'
    BY <1>5 DEF TypeOK, ExecutorsStarted, BusyHasJob, Executing, Started,
        ExceedQuota, MoveTo
  <2>3. SingleExecutor'
    BY <1>5 DEF TypeOK, SingleExecutor, ExecutorsStarted, BusyHasJob,
        Executing, Started, ExceedQuota, MoveTo
  <2>4. FencedStillRunning'
    BY <1>5 DEF TypeOK, FencedStillRunning, BusyHasJob, ExecutorsStarted,
        SingleExecutor, Executing, Started, Writable, RowLocked, ExceedQuota,
        MoveTo
  <2>5. QED
    BY <1>5, <2>1, <2>2, <2>3, <2>4 DEF ExceedQuota, MoveTo,
        NotStartedNotExecuted, ExecutedOnce, ReapedExist, StaleStarted
<1>6. CASE FailQuota(w)
  <2>1. BusyHasJob'
    BY <1>6 DEF TypeOK, BusyHasJob, FailQuota, Finish
  <2>2. ExecutorsStarted'
    BY <1>6 DEF TypeOK, ExecutorsStarted, BusyHasJob, Executing, Started,
        FailQuota, Finish
  <2>3. SingleExecutor'
    BY <1>6 DEF TypeOK, SingleExecutor, ExecutorsStarted, BusyHasJob,
        Executing, Started, FailQuota, Finish
  <2>4. NotStartedNotExecuted'
    BY <1>6 DEF TypeOK, NotStartedNotExecuted, BusyHasJob, ExecutorsStarted,
        Executing, Started, FailQuota, Finish
  <2>5. ReapedExist'
    BY <1>6 DEF TypeOK, ReapedExist, BusyHasJob, SchedulerState, FailQuota,
        Finish
  <2>6. StaleStarted'
    BY <1>6 DEF TypeOK, StaleStarted, BusyHasJob, CallerState, Started,
        FailQuota, Finish
  <2>7. FencedStillRunning'
    BY <1>6 DEF TypeOK, FencedStillRunning, BusyHasJob, ExecutorsStarted,
        SingleExecutor, Executing, Started, Writable, RowLocked, FailQuota,
        Finish
  <2>8. QED
    BY <1>6, <2>1, <2>2, <2>3, <2>4, <2>5, <2>6, <2>7 DEF FailQuota,
        ExecutedOnce
<1>7. CASE Claim(w)
  <2>1. BusyHasJob'
    BY <1>7 DEF TypeOK, BusyHasJob, Claim, Claimable, MoveTo
  <2>2. ExecutorsStarted'
    BY <1>7 DEF TypeOK, ExecutorsStarted, BusyHasJob, Executing, Started,
        Claim, Claimable, MoveTo
  <2>3. SingleExecutor'
    BY <1>7 DEF TypeOK, SingleExecutor, ExecutorsStarted, BusyHasJob,
        Executing, Started, Claim, Claimable, MoveTo
  <2>4. NotStartedNotExecuted'
    BY <1>7 DEF TypeOK, NotStartedNotExecuted, BusyHasJob, ExecutorsStarted,
        Executing, Started, Claim, Claimable, MoveTo
  <2>5. ExecutedOnce'
    BY <1>7 DEF TypeOK, ExecutedOnce, NotStartedNotExecuted, BusyHasJob,
        Started, Claim, Claimable, MoveTo
  <2>6. ReapedExist'
    BY <1>7 DEF TypeOK, ReapedExist, BusyHasJob, SchedulerState, Claim,
        Claimable, MoveTo
  <2>7. StaleStarted'
    BY <1>7 DEF TypeOK, StaleStarted, BusyHasJob, CallerState, Started, Claim,
        Claimable, MoveTo
  <2>8. FencedStillRunning'
    BY <1>7 DEF TypeOK, FencedStillRunning, BusyHasJob, ExecutorsStarted,
        SingleExecutor, Executing, Started, Writable, RowLocked, Claim,
        Claimable, MoveTo
  <2>9. QED
    BY <1>7, <2>1, <2>2, <2>3, <2>4, <2>5, <2>6, <2>7, <2>8 DEF Claim, MoveTo
<1>8. CASE LoseClaim(w)
  <2>1. BusyHasJob'
    BY <1>8 DEF TypeOK, BusyHasJob, LoseClaim, Finish
  <2>2. ExecutorsStarted'
    BY <1>8 DEF TypeOK, ExecutorsStarted, BusyHasJob, Executing, Started,
        LoseClaim, Finish
  <2>3. SingleExecutor'
    BY <1>8 DEF TypeOK, SingleExecutor, ExecutorsStarted, BusyHasJob,
        Executing, Started, LoseClaim, Finish
  <2>4. FencedStillRunning'
    BY <1>8 DEF TypeOK, FencedStillRunning, BusyHasJob, ExecutorsStarted,
        SingleExecutor, Executing, Started, Writable, RowLocked, LoseClaim,
        Finish
  <2>5. QED
    BY <1>8, <2>1, <2>2, <2>3, <2>4 DEF LoseClaim, NotStartedNotExecuted,
        ExecutedOnce, ReapedExist, StaleStarted
<1>9. CASE EntryFence(w)
  <2>1. BusyHasJob'
    BY <1>9 DEF TypeOK, BusyHasJob, EntryFence, StillLive, MoveTo
  <2>2. ExecutorsStarted'
    BY <1>9 DEF TypeOK, ExecutorsStarted, BusyHasJob, Executing, Started,
        EntryFence, StillLive, MoveTo
  <2>3. SingleExecutor'
    BY <1>9 DEF TypeOK, SingleExecutor, ExecutorsStarted, BusyHasJob,
        Executing, Started, EntryFence, StillLive, MoveTo
  <2>4. FencedStillRunning'
    BY <1>9 DEF TypeOK, FencedStillRunning, BusyHasJob, ExecutorsStarted,
        SingleExecutor, Executing, Started, Writable, RowLocked, EntryFence,
        StillLive, MoveTo
  <2>5. QED
    BY <1>9, <2>1, <2>2, <2>3, <2>4 DEF EntryFence, MoveTo,
        NotStartedNotExecuted, ExecutedOnce, ReapedExist, StaleStarted
<1>10. CASE ExtractFails(w)
  <2>1. BusyHasJob'
    BY <1>10 DEF TypeOK, BusyHasJob, ExtractFails, MoveTo
  <2>2. ExecutorsStarted'
    BY <1>10 DEF TypeOK, ExecutorsStarted, BusyHasJob, Executing, Started,
        ExtractFails, MoveTo
  <2>3. SingleExecutor'
    BY <1>10 DEF TypeOK, SingleExecutor, ExecutorsStarted, BusyHasJob,
        Executing, Started, ExtractFails, MoveTo
  <2>4. NotStartedNotExecuted'
    BY <1>10 DEF TypeOK, NotStartedNotExecuted, BusyHasJob, ExecutorsStarted,
        Executing, Started, ExtractFails, MoveTo
  <2>5. ReapedExist'
    BY <1>10 DEF TypeOK, ReapedExist, BusyHasJob, SchedulerState,
        ExtractFails, MoveTo
  <2>6. StaleStarted'
    BY <1>10 DEF TypeOK, StaleStarted, BusyHasJob, CallerState, Started,
        ExtractFails, MoveTo
  <2>7. FencedStillRunning'
    BY <1>10 DEF TypeOK, FencedStillRunning, BusyHasJob, ExecutorsStarted,
        SingleExecutor, Executing, Started, Writable, RowLocked, ExtractFails,
        MoveTo
  <2>8. QED
    BY <1>10, <2>1, <2>2, <2>3, <2>4, <2>5, <2>6, <2>7 DEF ExtractFails,
        MoveTo, ExecutedOnce
<1>11. CASE StoreSnapshot(w)
  <2>1. BusyHasJob'
    BY <1>11 DEF TypeOK, BusyHasJob, StoreSnapshot, MoveTo
  <2>2. ExecutorsStarted'
    BY <1>11 DEF TypeOK, ExecutorsStarted, BusyHasJob, Executing, Started,
        StoreSnapshot, MoveTo
  <2>3. SingleExecutor'
    BY <1>11 DEF TypeOK, SingleExecutor, ExecutorsStarted, BusyHasJob,
        Executing, Started, StoreSnapshot, MoveTo
  <2>4. FencedStillRunning'
    BY <1>11 DEF TypeOK, FencedStillRunning, BusyHasJob, ExecutorsStarted,
        SingleExecutor, Executing, Started, Writable, RowLocked,
        StoreSnapshot, MoveTo
  <2>5. QED
    BY <1>11, <2>1, <2>2, <2>3, <2>4 DEF StoreSnapshot, MoveTo,
        NotStartedNotExecuted, ExecutedOnce, ReapedExist, StaleStarted
<1>12. CASE FinishUnchanged(w)
  <2>1. BusyHasJob'
    BY <1>12 DEF TypeOK, BusyHasJob, FinishUnchanged, MoveTo
  <2>2. ExecutorsStarted'
    BY <1>12 DEF TypeOK, ExecutorsStarted, BusyHasJob, Executing, Started,
        FinishUnchanged, MoveTo
  <2>3. SingleExecutor'
    BY <1>12 DEF TypeOK, SingleExecutor, ExecutorsStarted, BusyHasJob,
        Executing, Started, FinishUnchanged, MoveTo
  <2>4. NotStartedNotExecuted'
    BY <1>12 DEF TypeOK, NotStartedNotExecuted, BusyHasJob, ExecutorsStarted,
        Executing, Started, FinishUnchanged, MoveTo
  <2>5. ReapedExist'
    BY <1>12 DEF TypeOK, ReapedExist, BusyHasJob, SchedulerState,
        FinishUnchanged, MoveTo
  <2>6. StaleStarted'
    BY <1>12 DEF TypeOK, StaleStarted, BusyHasJob, CallerState, Started,
        FinishUnchanged, MoveTo
  <2>7. FencedStillRunning'
    BY <1>12 DEF TypeOK, FencedStillRunning, BusyHasJob, ExecutorsStarted,
        SingleExecutor, Executing, Started, Writable, RowLocked,
        FinishUnchanged, MoveTo
  <2>8. QED
    BY <1>12, <2>1, <2>2, <2>3, <2>4, <2>5, <2>6, <2>7 DEF FinishUnchanged,
        MoveTo, ExecutedOnce
<1>13. CASE FlushChange(w)
  <2>1. BusyHasJob'
    BY <1>13 DEF TypeOK, BusyHasJob, FlushChange, MoveTo
  <2>2. ExecutorsStarted'
    BY <1>13 DEF TypeOK, ExecutorsStarted, BusyHasJob, Executing, Started,
        FlushChange, MoveTo
  <2>3. SingleExecutor'
    BY <1>13 DEF TypeOK, SingleExecutor, ExecutorsStarted, BusyHasJob,
        Executing, Started, FlushChange, MoveTo
  <2>4. FencedStillRunning'
    BY <1>13 DEF TypeOK, FencedStillRunning, BusyHasJob, ExecutorsStarted,
        SingleExecutor, Executing, Started, Writable, RowLocked, FlushChange,
        MoveTo
  <2>5. QED
    BY <1>13, <2>1, <2>2, <2>3, <2>4 DEF FlushChange, MoveTo,
        NotStartedNotExecuted, ExecutedOnce, ReapedExist, StaleStarted
<1>14. CASE PreCommitFence(w)
  <2>1. BusyHasJob'
    BY <1>14 DEF TypeOK, BusyHasJob, PreCommitFence, StillLive, MoveTo
  <2>2. ExecutorsStarted'
    BY <1>14 DEF TypeOK, ExecutorsStarted, BusyHasJob, Executing, Started,
        PreCommitFence, StillLive, MoveTo
  <2>3. SingleExecutor'
    BY <1>14 DEF TypeOK, SingleExecutor, ExecutorsStarted, BusyHasJob,
        Executing, Started, PreCommitFence, StillLive, MoveTo
  <2>4. FencedStillRunning'
    BY <1>14 DEF TypeOK, FencedStillRunning, BusyHasJob, ExecutorsStarted,
        SingleExecutor, Executing, Started, Writable, RowLocked,
        PreCommitFence, StillLive, MoveTo
  <2>5. QED
    BY <1>14, <2>1, <2>2, <2>3, <2>4 DEF PreCommitFence, MoveTo,
        NotStartedNotExecuted, ExecutedOnce, ReapedExist, StaleStarted
<1>15. CASE CommitTerminalSuccess(w)
  <2>1. BusyHasJob'
    BY <1>15 DEF TypeOK, BusyHasJob, CommitTerminalSuccess, MoveTo
  <2>2. ExecutorsStarted'
    BY <1>15 DEF TypeOK, ExecutorsStarted, BusyHasJob, Executing, Started,
        CommitTerminalSuccess, MoveTo
  <2>3. SingleExecutor'
    BY <1>15 DEF TypeOK, SingleExecutor, ExecutorsStarted, BusyHasJob,
        Executing, Started, CommitTerminalSuccess, MoveTo
  <2>4. NotStartedNotExecuted'
    BY <1>15 DEF TypeOK, NotStartedNotExecuted, BusyHasJob, ExecutorsStarted,
        Executing, Started, CommitTerminalSuccess, MoveTo
  <2>5. ReapedExist'
    BY <1>15 DEF TypeOK, ReapedExist, BusyHasJob, SchedulerState,
        CommitTerminalSuccess, MoveTo
  <2>6. StaleStarted'
    BY <1>15 DEF TypeOK, StaleStarted, BusyHasJob, CallerState, Started,
        CommitTerminalSuccess, MoveTo
  <2>7. FencedStillRunning'
    BY <1>15 DEF TypeOK, FencedStillRunning, BusyHasJob, ExecutorsStarted,
        SingleExecutor, Executing, Started, Writable, RowLocked,
        CommitTerminalSuccess, MoveTo
  <2>8. QED
    BY <1>15, <2>1, <2>2, <2>3, <2>4, <2>5, <2>6, <2>7 DEF
        CommitTerminalSuccess, MoveTo, ExecutedOnce
<1>16. CASE FailRun(w)
  <2>1. BusyHasJob'
    BY <1>16 DEF TypeOK, BusyHasJob, FailRun, MoveTo
  <2>2. ExecutorsStarted'
    BY <1>16 DEF TypeOK, ExecutorsStarted, BusyHasJob, Executing, Started,
        FailRun, MoveTo
  <2>3. SingleExecutor'
    BY <1>16 DEF TypeOK, SingleExecutor, ExecutorsStarted, BusyHasJob,
        Executing, Started, FailRun, MoveTo
  <2>4. NotStartedNotExecuted'
    BY <1>16 DEF TypeOK, NotStartedNotExecuted, BusyHasJob, ExecutorsStarted,
        Executing, Started, FailRun, MoveTo
  <2>5. ReapedExist'
    BY <1>16 DEF TypeOK, ReapedExist, BusyHasJob, SchedulerState, FailRun,
        MoveTo
  <2>6. StaleStarted'
    BY <1>16 DEF TypeOK, StaleStarted, BusyHasJob, CallerState, Started,
        FailRun, MoveTo
  <2>7. FencedStillRunning'
    BY <1>16 DEF TypeOK, FencedStillRunning, BusyHasJob, ExecutorsStarted,
        SingleExecutor, Executing, Started, Writable, RowLocked, FailRun,
        MoveTo
  <2>8. QED
    BY <1>16, <2>1, <2>2, <2>3, <2>4, <2>5, <2>6, <2>7 DEF FailRun, MoveTo,
        ExecutedOnce
<1>17. CASE RecordFailure(w)
  <2>1. BusyHasJob'
    BY <1>17 DEF TypeOK, BusyHasJob, RecordFailure, Finish
  <2>2. ExecutorsStarted'
    BY <1>17 DEF TypeOK, ExecutorsStarted, BusyHasJob, Executing, Started,
        RecordFailure, Finish
  <2>3. SingleExecutor'
    BY <1>17 DEF TypeOK, SingleExecutor, ExecutorsStarted, BusyHasJob,
        Executing, Started, RecordFailure, Finish
  <2>4. FencedStillRunning'
    BY <1>17 DEF TypeOK, FencedStillRunning, BusyHasJob, ExecutorsStarted,
        SingleExecutor, Executing, Started, Writable, RowLocked,
        RecordFailure, Finish
  <2>5. QED
    BY <1>17, <2>1, <2>2, <2>3, <2>4 DEF RecordFailure, NotStartedNotExecuted,
        ExecutedOnce, ReapedExist, StaleStarted
<1>18. CASE RecordSuccess(w)
  <2>1. BusyHasJob'
    BY <1>18 DEF TypeOK, BusyHasJob, RecordSuccess, Finish
  <2>2. ExecutorsStarted'
    BY <1>18 DEF TypeOK, ExecutorsStarted, BusyHasJob, Executing, Started,
        RecordSuccess, Finish
  <2>3. SingleExecutor'
    BY <1>18 DEF TypeOK, SingleExecutor, ExecutorsStarted, BusyHasJob,
        Executing, Started, RecordSuccess, Finish
  <2>4. FencedStillRunning'
    BY <1>18 DEF TypeOK, FencedStillRunning, BusyHasJob, ExecutorsStarted,
        SingleExecutor, Executing, Started, Writable, RowLocked,
        RecordSuccess, Finish
  <2>5. QED
    BY <1>18, <2>1, <2>2, <2>3, <2>4 DEF RecordSuccess, NotStartedNotExecuted,
        ExecutedOnce, ReapedExist, StaleStarted
<1>19. CASE Raise(w)
  <2>1. BusyHasJob'
    BY <1>19 DEF TypeOK, BusyHasJob, Raise, MoveTo
  <2>2. ExecutorsStarted'
    BY <1>19 DEF TypeOK, ExecutorsStarted, BusyHasJob, Executing, Started,
        Raise, MoveTo
  <2>3. SingleExecutor'
    BY <1>19 DEF TypeOK, SingleExecutor, ExecutorsStarted, BusyHasJob,
        Executing, Started, Raise, MoveTo
  <2>4. FencedStillRunning'
    BY <1>19 DEF TypeOK, FencedStillRunning, BusyHasJob, ExecutorsStarted,
        SingleExecutor, Executing, Started, Writable, RowLocked, Raise, MoveTo
  <2>5. QED
    BY <1>19, <2>1, <2>2, <2>3, <2>4 DEF Raise, MoveTo, NotStartedNotExecuted,
        ExecutedOnce, ReapedExist, StaleStarted
<1>20. CASE OutcomeRaises(w)
  <2>1. BusyHasJob'
    BY <1>20 DEF TypeOK, BusyHasJob, OutcomeRaises, MoveTo
  <2>2. ExecutorsStarted'
    BY <1>20 DEF TypeOK, ExecutorsStarted, BusyHasJob, Executing, Started,
        OutcomeRaises, MoveTo
  <2>3. SingleExecutor'
    BY <1>20 DEF TypeOK, SingleExecutor, ExecutorsStarted, BusyHasJob,
        Executing, Started, OutcomeRaises, MoveTo
  <2>4. FencedStillRunning'
    BY <1>20 DEF TypeOK, FencedStillRunning, BusyHasJob, ExecutorsStarted,
        SingleExecutor, Executing, Started, Writable, RowLocked,
        OutcomeRaises, MoveTo
  <2>5. QED
    BY <1>20, <2>1, <2>2, <2>3, <2>4 DEF OutcomeRaises, MoveTo,
        NotStartedNotExecuted, ExecutedOnce, ReapedExist, StaleStarted
<1>21. CASE WorkerDies(w)
  <2>1. BusyHasJob'
    BY <1>21 DEF TypeOK, BusyHasJob, WorkerDies, Finish
  <2>2. ExecutorsStarted'
    BY <1>21 DEF TypeOK, ExecutorsStarted, BusyHasJob, Executing, Started,
        WorkerDies, Finish
  <2>3. SingleExecutor'
    BY <1>21 DEF TypeOK, SingleExecutor, ExecutorsStarted, BusyHasJob,
        Executing, Started, WorkerDies, Finish
  <2>4. FencedStillRunning'
    BY <1>21 DEF TypeOK, FencedStillRunning, BusyHasJob, ExecutorsStarted,
        SingleExecutor, Executing, Started, Writable, RowLocked, WorkerDies,
        Finish
  <2>5. QED
    BY <1>21, <2>1, <2>2, <2>3, <2>4 DEF WorkerDies, NotStartedNotExecuted,
        ExecutedOnce, ReapedExist, StaleStarted
<1>22. QED
  BY <1>1, <1>2, <1>3, <1>4, <1>5, <1>6, <1>7, <1>8, <1>9, <1>10, <1>11,
      <1>12, <1>13, <1>14, <1>15, <1>16, <1>17, <1>18, <1>19, <1>20, <1>21 DEF
      WorkerStep, WorkerProgress

LEMMA CallerStepInv ==
  ASSUME TypeOK, Rest, NEW c \in Callers, CallerStep(c)
  PROVE  Rest'
<1> USE DEF Rest, rowVars, workerVars, histVars
<1>1. ASSUME NEW m \in Monitors, ManualRunFree(c, m)
      PROVE  Rest'
  <2>1. StaleStarted'
    BY <1>1 DEF TypeOK, StaleStarted, BusyHasJob, CallerState, Started,
        ManualRunFree
  <2>2. QED
    BY <1>1, <2>1 DEF ManualRunFree, BusyHasJob, ExecutorsStarted,
        SingleExecutor, NotStartedNotExecuted, ExecutedOnce, ReapedExist,
        FencedStillRunning
<1>2. ASSUME NEW m \in Monitors, ManualRunStale(c, m)
      PROVE  Rest'
  <2>1. StaleStarted'
    BY <1>2 DEF TypeOK, StaleStarted, BusyHasJob, CallerState, Started,
        ManualRunStale, Active, ActiveStatus
  <2>2. QED
    BY <1>2, <2>1 DEF ManualRunStale, BusyHasJob, ExecutorsStarted,
        SingleExecutor, NotStartedNotExecuted, ExecutedOnce, ReapedExist,
        FencedStillRunning
<1>3. CASE FailStale(c)
  <2>1. BusyHasJob'
    BY <1>3 DEF TypeOK, BusyHasJob, FailStale, CallerAt
  <2>2. ExecutorsStarted'
    BY <1>3 DEF TypeOK, ExecutorsStarted, BusyHasJob, Executing, Started,
        FailStale, CallerAt
  <2>3. NotStartedNotExecuted'
    BY <1>3 DEF TypeOK, NotStartedNotExecuted, BusyHasJob, ExecutorsStarted,
        Executing, Started, FailStale, CallerAt
  <2>4. ReapedExist'
    BY <1>3 DEF TypeOK, ReapedExist, BusyHasJob, SchedulerState, FailStale,
        CallerAt
  <2>5. StaleStarted'
    BY <1>3 DEF TypeOK, StaleStarted, BusyHasJob, CallerState, Started,
        FailStale, CallerAt
  <2>6. FencedStillRunning'
    BY <1>3 DEF TypeOK, FencedStillRunning, BusyHasJob, ExecutorsStarted,
        SingleExecutor, Executing, Started, Writable, RowLocked, FailStale,
        CallerAt
  <2>7. QED
    BY <1>3, <2>1, <2>2, <2>3, <2>4, <2>5, <2>6 DEF FailStale, SingleExecutor,
        ExecutedOnce
<1>4. ASSUME NEW r \in Runs, InsertRun(c, r)
      PROVE  Rest'
  <2>1. BusyHasJob'
    BY <1>4 DEF TypeOK, BusyHasJob, InsertRun, Insert, IsNew, CallerAt
  <2>2. ExecutorsStarted'
    BY <1>4 DEF TypeOK, ExecutorsStarted, BusyHasJob, Executing, Started,
        InsertRun, Insert, IsNew, CallerAt
  <2>3. NotStartedNotExecuted'
    BY <1>4 DEF TypeOK, NotStartedNotExecuted, BusyHasJob, ExecutorsStarted,
        Executing, Started, InsertRun, Insert, IsNew, CallerAt
  <2>4. ReapedExist'
    BY <1>4 DEF TypeOK, ReapedExist, BusyHasJob, SchedulerState, InsertRun,
        Insert, IsNew, CallerAt
  <2>5. StaleStarted'
    BY <1>4 DEF TypeOK, StaleStarted, BusyHasJob, CallerState, Started,
        InsertRun, Insert, IsNew, CallerAt
  <2>6. FencedStillRunning'
    BY <1>4 DEF TypeOK, FencedStillRunning, BusyHasJob, ExecutorsStarted,
        SingleExecutor, Executing, Started, Writable, RowLocked, InsertRun,
        Insert, IsNew, CallerAt
  <2>7. QED
    BY <1>4, <2>1, <2>2, <2>3, <2>4, <2>5, <2>6 DEF InsertRun, SingleExecutor,
        ExecutedOnce
<1>5. CASE SendRun(c)
  <2>1. StaleStarted'
    BY <1>5 DEF TypeOK, StaleStarted, BusyHasJob, CallerState, Started,
        SendRun, IdleCaller
  <2>2. QED
    BY <1>5, <2>1 DEF SendRun, BusyHasJob, ExecutorsStarted, SingleExecutor,
        NotStartedNotExecuted, ExecutedOnce, ReapedExist, FencedStillRunning
<1>6. CASE CallerAborts(c)
  <2>1. StaleStarted'
    BY <1>6 DEF TypeOK, StaleStarted, BusyHasJob, CallerState, Started,
        CallerAborts, IdleCaller
  <2>2. QED
    BY <1>6, <2>1 DEF CallerAborts, BusyHasJob, ExecutorsStarted,
        SingleExecutor, NotStartedNotExecuted, ExecutedOnce, ReapedExist,
        FencedStillRunning
<1>7. QED
  BY <1>1, <1>2, <1>3, <1>4, <1>5, <1>6 DEF CallerStep

LEMMA InitInv == Init => IInv
<1>1. SUFFICES ASSUME Init PROVE IInv
  OBVIOUS
<1>2. StaleStarted
  BY <1>1 DEF Init, StaleStarted, IdleCaller
<1>3. BusyHasJob /\ ExecutorsStarted /\ SingleExecutor /\ FencedStillRunning
  BY <1>1 DEF Init, BusyHasJob, ExecutorsStarted, SingleExecutor, Executing,
              FencedStillRunning
<1>4. NotStartedNotExecuted /\ ExecutedOnce /\ ReapedExist
  BY <1>1 DEF Init, NotStartedNotExecuted, ExecutedOnce, ReapedExist, IdleScheduler
<1>5. QED
  BY <1>1, <1>2, <1>3, <1>4, InitType DEF IInv, Rest

LEMMA NextInv == IInv /\ [Next]_vars => IInv'
<1>1. SUFFICES ASSUME TypeOK, Rest, [Next]_vars
               PROVE  TypeOK' /\ Rest'
  BY DEF IInv
<1>2. TypeOK'
  BY <1>1, NextType DEF Rest
<1>3. ASSUME NEW r \in Runs, Age(r) \/ LoseMessage(r)
      PROVE  Rest'
  BY <1>1, <1>3
  DEF Age, LoseMessage, Rest, rowVars, workerVars, histVars, BusyHasJob,
      ExecutorsStarted, SingleExecutor, NotStartedNotExecuted, ExecutedOnce,
      ReapedExist, StaleStarted, FencedStillRunning
<1>4. ASSUME UNCHANGED vars
      PROVE  Rest'
  <2>1. BusyHasJob' /\ ExecutorsStarted' /\ SingleExecutor' /\ FencedStillRunning'
    BY <1>1, <1>4 DEF vars, Rest, BusyHasJob, ExecutorsStarted, SingleExecutor,
                      FencedStillRunning
  <2>2. NotStartedNotExecuted' /\ ExecutedOnce'
    BY <1>1, <1>4 DEF vars, Rest, NotStartedNotExecuted, ExecutedOnce
  <2>3. ReapedExist' /\ StaleStarted'
    BY <1>1, <1>4 DEF vars, Rest, ReapedExist, StaleStarted
  <2>4. QED
    BY <2>1, <2>2, <2>3 DEF Rest
<1>5. QED
  BY <1>1, <1>2, <1>3, <1>4, SchedulerStepInv, WorkerStepInv, CallerStepInv DEF Next

LEMMA Invariance == Spec => []IInv
<1>1. QED
  BY InitInv, NextInv, PTL DEF Spec

-----------------------------------------------------------------------------
(* What one step can do to a run's status and to the published changes.    *)

Moves(r, q) ==
  /\ status' = [status EXCEPT ![r] = q]
  /\ \/ status[r] = "none" /\ q = "queued"
     \/ status[r] = "queued" /\ q \in {"running", "failed"}
     \/ status[r] \in Started /\ q \in {"succeeded", "failed"}
  /\ changes' = changes

Publishes(r) ==
  /\ changes' = changes \cup {r}
  /\ \/ status[r] = "running" /\ status' = [status EXCEPT ![r] = "succeeded"]
     \/ AsyncAI /\ status' = status

Settled == status' = status /\ changes' = changes

RunStep ==
  \/ Settled
  \/ \E r \in Runs, q \in {"queued", "running", "succeeded", "failed"} : Moves(r, q)
  \/ \E r \in Runs : Publishes(r)

LEMMA WorkerRunStep ==
  ASSUME IInv, NEW w \in Workers, WorkerStep(w)
  PROVE  RunStep
<1> DEFINE r == job[w]
<1>1. /\ pc[w] # "idle" => r \in Runs /\ status[r] \in Statuses \ {"none"}
      /\ pc[w] = "hook" => saw[w] = "queued"
      /\ pc[w] \in Executing => status[r] \in Started
      /\ ~AsyncAI /\ pc[w] = "committing" => status[r] = "running"
      /\ status \in [Runs -> Statuses]
  BY DEF IInv, Rest, TypeOK, BusyHasJob, ExecutorsStarted, FencedStillRunning
<1>2. CASE \/ \E q \in Runs : Receive(w, q) \/ Discard(w, q)
           \/ PassHook(w) \/ ExceedQuota(w) \/ LoseClaim(w) \/ EntryFence(w)
           \/ StoreSnapshot(w) \/ FlushChange(w) \/ PreCommitFence(w)
           \/ RecordFailure(w) \/ RecordSuccess(w) \/ Raise(w)
           \/ OutcomeRaises(w) \/ WorkerDies(w)
  <2>1. Settled
    BY <1>2
    DEF Settled, rowVars, Receive, Discard, PassHook, ExceedQuota, LoseClaim,
        EntryFence, StoreSnapshot, FlushChange, PreCommitFence, RecordFailure,
        RecordSuccess, Raise, OutcomeRaises, WorkerDies
  <2>2. QED
    BY <2>1 DEF RunStep
<1>3. CASE Bounce(w)
  <2>1. Settled
    BY <1>1, <1>3 DEF Bounce, Settled
  <2>2. QED
    BY <2>1 DEF RunStep
<1>4. CASE FailQuota(w)
  <2>1. Moves(r, "failed")
    BY <1>1, <1>4
    DEF FailQuota, Moves, Statuses, ActiveStatus, TerminalStatus, Started
  <2>2. QED
    BY <1>1, <1>4, <2>1 DEF RunStep, FailQuota
<1>5. CASE Claim(w)
  <2>1. Moves(r, "running")
    BY <1>1, <1>5 DEF Claim, Claimable, Moves
  <2>2. QED
    BY <1>1, <1>5, <2>1 DEF RunStep, Claim
<1>6. CASE ExtractFails(w)
  <2>1. Moves(r, "failed")
    BY <1>1, <1>6 DEF ExtractFails, Moves, Executing
  <2>2. QED
    BY <1>1, <1>6, <2>1 DEF RunStep, ExtractFails
<1>7. CASE FinishUnchanged(w)
  <2>1. Moves(r, "succeeded")
    BY <1>1, <1>7 DEF FinishUnchanged, Moves, Executing
  <2>2. QED
    BY <1>1, <1>7, <2>1 DEF RunStep, FinishUnchanged
<1>8. CASE FailRun(w)
  <2>1. CASE status[r] = "running"
    <3>1. Moves(r, "failed")
      BY <1>1, <1>8, <2>1 DEF FailRun, Moves, Started
    <3>2. QED
      BY <1>1, <1>8, <3>1 DEF RunStep, FailRun
  <2>2. CASE status[r] # "running"
    <3>1. Settled
      BY <1>1, <1>8, <2>2 DEF FailRun, Settled
    <3>2. QED
      BY <3>1 DEF RunStep
  <2>3. QED
    BY <2>1, <2>2
<1>9. CASE CommitTerminalSuccess(w)
  <2>1. Publishes(r)
    BY <1>1, <1>9, RunLifecycleAssumption DEF CommitTerminalSuccess, Publishes
  <2>2. QED
    BY <1>1, <1>9, <2>1 DEF RunStep, CommitTerminalSuccess
<1>10. QED
  BY <1>2, <1>3, <1>4, <1>5, <1>6, <1>7, <1>8, <1>9 DEF WorkerStep, WorkerProgress

LEMMA StatusStep == IInv /\ [Next]_vars => RunStep
<1>1. SUFFICES ASSUME IInv, [Next]_vars
               PROVE  RunStep
  OBVIOUS
<1>2. status \in [Runs -> Statuses]
  BY <1>1 DEF IInv, TypeOK
<1>3. ASSUME NEW s \in Schedulers, SchedulerStep(s)
      PROVE  RunStep
  <2>1. ASSUME NEW m \in Monitors, NEW r \in Runs, ClaimDue(s, m, r)
        PROVE  RunStep
    <3>1. Moves(r, "queued")
      BY <2>1 DEF ClaimDue, Insert, IsNew, Moves
    <3>2. QED
      BY <3>1 DEF RunStep
  <2>2. CASE ReapWins(s)
    <3>1. sched[s].run \in Runs /\ status[sched[s].run] \in Statuses \ {"none"}
      BY <1>1, <1>2, <2>2
      DEF ReapWins, ReapUpdates, IInv, Rest, TypeOK, ReapedExist, SchedulerState
    <3>2. Moves(sched[s].run, "failed")
      BY <2>2, <3>1
      DEF ReapWins, Moves, Statuses, ActiveStatus, TerminalStatus, Started
    <3>3. QED
      BY <3>1, <3>2 DEF RunStep
  <2>3. CASE \/ \E r \in Runs : Enqueue(s, r) \/ ReapRead(s, r)
             \/ ReapSelect(s) \/ ReapSkips(s) \/ SchedulerAborts(s)
    <3>1. Settled
      BY <2>3 DEF Settled, rowVars, Enqueue, ReapRead, ReapSelect, ReapSkips,
                  SchedulerAborts
    <3>2. QED
      BY <3>1 DEF RunStep
  <2>4. QED
    BY <1>3, <2>1, <2>2, <2>3 DEF SchedulerStep, ReaperStep
<1>4. ASSUME NEW c \in Callers, CallerStep(c)
      PROVE  RunStep
  <2>1. CASE FailStale(c)
    <3>1. caller[c].run \in Runs /\ status[caller[c].run] \in Started
      BY <1>1, <2>1 DEF FailStale, IInv, Rest, StaleStarted
    <3>2. Moves(caller[c].run, "failed")
      BY <2>1, <3>1 DEF FailStale, Moves
    <3>3. QED
      BY <3>1, <3>2 DEF RunStep
  <2>2. ASSUME NEW r \in Runs, InsertRun(c, r)
        PROVE  RunStep
    <3>1. Moves(r, "queued")
      BY <2>2 DEF InsertRun, Insert, IsNew, Moves
    <3>2. QED
      BY <3>1 DEF RunStep
  <2>3. CASE \/ \E m \in Monitors : ManualRunFree(c, m) \/ ManualRunStale(c, m)
             \/ SendRun(c) \/ CallerAborts(c)
    <3>1. Settled
      BY <2>3 DEF Settled, rowVars, ManualRunFree, ManualRunStale, SendRun, CallerAborts
    <3>2. QED
      BY <3>1 DEF RunStep
  <2>4. QED
    BY <1>4, <2>1, <2>2, <2>3 DEF CallerStep
<1>5. ASSUME NEW r \in Runs, Age(r) \/ LoseMessage(r)
      PROVE  RunStep
  BY <1>5 DEF RunStep, Settled, Age, LoseMessage, rowVars
<1>6. CASE UNCHANGED vars
  BY <1>6 DEF RunStep, Settled, vars
<1>7. QED
  BY <1>1, <1>3, <1>4, <1>5, <1>6, WorkerRunStep DEF Next

-----------------------------------------------------------------------------
(* The theorems.                                                           *)

\* Every variable keeps its type: in particular the statuses written to
\* monitor_runs are those of RunStatus.
THEOREM TypeCorrect == Spec => []TypeOK
<1>1. IInv => TypeOK
  BY DEF IInv
<1>2. QED
  BY <1>1, Invariance, PTL

\* However often a run's message is duplicated, redelivered or bounced, and
\* whatever the reaper and manual_run do to its row, at most one worker takes
\* it past the claim of execute_monitored_run.
THEOREM AtMostOneExecution == Spec => []ExecutedOnce
<1>1. IInv => ExecutedOnce
  BY DEF IInv, Rest
<1>2. QED
  BY <1>1, Invariance, PTL

\* At no time do two workers run the pipeline for the same run.
THEOREM OneExecutorAtATime == Spec => []SingleExecutor
<1>1. IInv => SingleExecutor
  BY DEF IInv, Rest
<1>2. QED
  BY <1>1, Invariance, PTL

\* A run that has started or ended never goes back to QUEUED.
THEOREM NoRequeue == Spec => NeverRequeued
<1>1. ASSUME IInv, [Next]_vars
      PROVE  [\A r \in Runs : status[r] \notin {"none", "queued"}
                                => status'[r] # "queued"]_vars
  <2>1. status \in [Runs -> Statuses]
    BY <1>1 DEF IInv, TypeOK
  <2>2. RunStep
    BY <1>1, StatusStep
  <2>3. QED
    BY <2>1, <2>2
    DEF RunStep, Settled, Moves, Publishes, Started
<1>2. QED
  BY <1>1, Invariance, PTL DEF Spec, NeverRequeued

\* With synchronous enrichment a ChangeEvent and its notifications become
\* visible only in the commit that takes their run from RUNNING to SUCCEEDED.
THEOREM PublishedWithSuccess ==
  ASSUME ~AsyncAI
  PROVE  Spec => ChangeOnlyWithSuccess
<1>1. ASSUME IInv, [Next]_vars
      PROVE  [\A r \in changes' \ changes :
                status[r] = "running" /\ status'[r] = "succeeded"]_vars
  <2>1. status \in [Runs -> Statuses]
    BY <1>1 DEF IInv, TypeOK
  <2>2. RunStep
    BY <1>1, StatusStep
  <2>3. QED
    BY <2>1, <2>2 DEF RunStep, Settled, Moves, Publishes
<1>2. QED
  BY <1>1, Invariance, PTL DEF Spec, ChangeOnlyWithSuccess

\* With synchronous enrichment the whole protocol of schedulers, reapers,
\* workers and API requests implements RunContract.
THEOREM Refinement ==
  ASSUME ~AsyncAI
  PROVE  Spec => ImplementsContract
<1>1. Init => Contract!Start
  BY DEF Init, Contract!Start, Phase
<1>2. ASSUME IInv, [Next]_vars
      PROVE  [Contract!Step]_(Contract!contractVars)
  <2>1. status \in [Runs -> Statuses]
    BY <1>2 DEF IInv, TypeOK
  <2>2. CASE Settled
    BY <2>2 DEF Settled, Contract!contractVars, Phase
  <2>3. ASSUME NEW r \in Runs, NEW q \in {"queued", "running", "succeeded", "failed"},
               Moves(r, q)
        PROVE  [Contract!Step]_(Contract!contractVars)
    <3>1. Phase' = [Phase EXCEPT ![r] =
                      CASE q = "queued" -> "waiting"
                        [] q = "running" -> "started"
                        [] OTHER -> "over"]
      BY <2>1, <2>3 DEF Moves, Phase
    <3>2. \/ Contract!Create(r) \/ Contract!Begin(r) \/ Contract!Abandon(r)
          \/ Contract!End(r) \/ UNCHANGED Contract!contractVars
      BY <2>1, <2>3, <3>1
      DEF Moves, Started, Phase, Contract!Create, Contract!Begin, Contract!Abandon,
          Contract!End, Contract!Advance, Contract!contractVars
    <3>3. QED
      BY <3>2 DEF Contract!Step
  <2>4. ASSUME NEW r \in Runs, Publishes(r)
        PROVE  [Contract!Step]_(Contract!contractVars)
    <3>1. Contract!EndWithChange(r)
      BY <2>1, <2>4 DEF Publishes, Phase, Contract!EndWithChange
    <3>2. QED
      BY <3>1 DEF Contract!Step
  <2>5. QED
    BY <1>2, <2>2, <2>3, <2>4, StatusStep DEF RunStep
<1>3. QED
  BY <1>1, <1>2, Invariance, PTL DEF Spec, ImplementsContract, Contract!Spec

=============================================================================
