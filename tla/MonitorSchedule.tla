--------------------------- MODULE MonitorSchedule ---------------------------
(***************************************************************************)
(* When one monitor is checked.  The scheduler (scheduler.py) claims it    *)
(* when next_run_at has come and inserts a run under a key made of the     *)
(* slot of its schedule grid; a finished check stretches or resets the     *)
(* interval (services/adaptive.py) from the copy of the row it loaded      *)
(* before it fetched; the API (routers/monitors.py) edits, pauses, resumes *)
(* and runs the monitor by hand meanwhile.  A tick of the clock is a       *)
(* minute; the scheduler polls more often than that.                       *)
(***************************************************************************)
EXTENDS Naturals, FiniteSets, FiniteSetsExt

CONSTANTS
  Intervals,     \* intervals a user asks for
  Jitter,        \* scheduler_jitter_seconds, in ticks
  QuotaDelay,    \* the hour a monitor waits when the quota is spent, in ticks
  Streak,        \* quiet checks after which the interval grows: 5
  Schedulers,    \* scheduler processes
  MaxTime,       \* bound on the clock
  EditTime,      \* bound on the clock in behaviours with requests
  MaxEdits       \* bound on requests of the API

\* There is a longest interval that a user can ask for.
ASSUME ScheduleAssumption ==
  /\ Intervals \subseteq Nat \ {0}
  /\ \E longest \in Intervals : \A n \in Intervals : n <= longest
  /\ Jitter \in Nat /\ QuotaDelay \in Nat
  /\ Streak \in Nat \ {0}
  /\ MaxTime \in Nat /\ EditTime \in 0..MaxTime /\ MaxEdits \in Nat

VARIABLES
  now,
  enabled, next, lease, interval, base, quiet, version,   \* the monitor's row
  used,          \* keys of the runs the scheduler has inserted
  runs,          \* runs under way: two, if one is inserted by hand
  found,         \* per config_version, the config whose page the newest success has
  quota,         \* the workspace may still run checks today
  asked,         \* create_monitor ("create") or manual_run ("manual") is about to
                 \* insert a run, without looking again: "no" if none is
  edits,
  \* history
  skipped,       \* claims in a row that found a run in their slot
  raced,         \* an edit of the interval met a check that had loaded the old one
  overlapped,    \* two runs were active at once
  compared       \* the configs behind the two pages of the last comparison

row == <<enabled, next, lease, interval, base, quiet, version>>
history == <<skipped, raced, overlapped, compared>>
vars == <<now, row, used, runs, found, quota, asked, edits, history>>

NoRun == [st |-> "none"]
NoLease == [by |-> "none", until |-> 0]
MaxBase == Max(Intervals)

TypeOK ==
  /\ now \in 0..MaxTime
  /\ enabled \in BOOLEAN /\ quota \in BOOLEAN /\ asked \in {"no", "create", "manual"}
  /\ next \in 0..(MaxTime + 4 * MaxBase + Jitter + QuotaDelay)
  /\ lease \in [by : Schedulers \cup {"none"}, until : 0..(MaxTime + 1)]
  /\ base \in Intervals /\ interval \in 1..(4 * MaxBase)
  /\ quiet \in Nat /\ version \in 1..(MaxEdits + 1)
  /\ used \subseteq 0..MaxTime
  /\ \A i \in 1..2 : runs[i].st \in {"none", "queued", "running"}
  /\ found \in [1..(MaxEdits + 1) -> 0..(MaxEdits + 1)]
  /\ edits \in 0..MaxEdits /\ skipped \in Nat
  /\ raced \in BOOLEAN /\ overlapped \in BOOLEAN

\* create_monitor has committed the row, due at once, and goes on if run_now.
Init ==
  /\ now = 0
  /\ enabled = TRUE /\ next = 0 /\ lease = NoLease
  /\ base \in Intervals /\ interval = base /\ quiet = 0 /\ version = 1
  /\ used = {} /\ runs = [i \in 1..2 |-> NoRun]
  /\ found = [v \in 1..(MaxEdits + 1) |-> 0]
  /\ quota = TRUE /\ asked \in {"no", "create"} /\ edits = 0
  /\ skipped = 0 /\ raced = FALSE /\ overlapped = FALSE /\ compared = <<0, 0>>

Active == {i \in 1..2 : runs[i].st # "none"}
Free == CHOOSE i \in 1..2 : runs[i].st = "none"
NewRun == [st |-> "queued", ver |-> version]

Insert ==
  /\ runs' = [runs EXCEPT ![Free] = NewRun]
  /\ overlapped' = (overlapped \/ Active # {})

-----------------------------------------------------------------------------
(* The scheduler.                                                          *)

\* Faulty variant of ClaimSlot: every monitor on the grid of the longest interval.
CommonSlot(t, n) == t - (t % (4 * MaxBase))

\* _claim_slot: the start of the slot of an interval of n in which t lies.
ClaimSlot(t, n) == t - (t % n)

\* The keys that a claim may still meet.
Recent == {t \in used : t + 4 * MaxBase > now}

Leased(s) == lease.by # "none" /\ lease.until >= now /\ lease.by # s
Due(s) == enabled /\ next <= now /\ ~Leased(s)

\* Put off while a run is active, with the lease given back.
PutOff ==
  /\ Active # {}
  /\ next' = now + 1 /\ lease' = NoLease
  /\ UNCHANGED <<used, runs, overlapped, skipped>>

\* Put off for an hour without quota.
OverQuota ==
  /\ Active = {} /\ ~quota
  /\ next' = now + QuotaDelay
  /\ UNCHANGED <<lease, used, runs, overlapped, skipped>>

\* Leased and moved on by its interval; a run is inserted unless the slot has one.
Schedule(s) ==
  /\ \E j \in 0..Jitter : next' = now + interval + j
  /\ lease' = [by |-> s, until |-> now + 1]
  /\ LET slot == ClaimSlot(now, interval)
     IN  IF slot \in used
         THEN skipped' = skipped + 1 /\ UNCHANGED <<used, runs, overlapped>>
         ELSE skipped' = 0 /\ used' = Recent \cup {slot} /\ Insert

MayRun(active) == quota /\ active = {}

\* claim_due_monitors for this monitor, in one transaction under its row lock.
Claim(s) ==
  /\ Due(s)
  /\ \/ PutOff
     \/ OverQuota
     \/ MayRun(Active) /\ Schedule(s)
  /\ UNCHANGED <<now, enabled, interval, base, quiet, version, found, quota, asked, edits,
                 raced, compared>>

\* release_expired_logic.
ReleaseLeases ==
  /\ lease.by # "none" /\ lease.until < now
  /\ lease' = NoLease
  /\ UNCHANGED <<now, enabled, next, interval, base, quiet, version, used, runs, found,
                 quota, asked, edits, history>>

-----------------------------------------------------------------------------
(* A check: it loads the row, fetches, and writes back what it changes.    *)

Start(i) ==
  /\ runs[i].st = "queued"
  /\ runs' = [runs EXCEPT ![i] = [st |-> "running", ver |-> @.ver, conf |-> version,
                                  interval |-> interval, base |-> base, quiet |-> quiet]]
  /\ UNCHANGED <<now, row, used, found, quota, asked, edits, history>>

\* Faulty variant of Stretched: without the cap.
StretchedFreely(b, n) == n + b

\* The interval after another streak of quiet checks.
Stretched(b, n) == Max({b, Min({4 * b, n + b})})

\* note_check_outcome: only columns that change from the loaded copy are written.
Outcome(r, changed) ==
  LET q == IF changed THEN 0 ELSE r.quiet + 1
      n == IF changed THEN r.base
           ELSE IF (q % Streak) = 0 THEN Stretched(r.base, r.interval) ELSE r.interval
  IN  /\ quiet' = IF q # r.quiet THEN q ELSE quiet
      /\ interval' = IF n # r.interval THEN n ELSE interval

\* Faulty variant of Baseline: the newest success, of whatever configuration.
NewestOfAll(v) == IF \E w \in DOMAIN found : found[w] # 0
                  THEN found[Max({w \in DOMAIN found : found[w] # 0})] ELSE 0

\* _detect_change looks for the newest success under the loaded config_version;
\* 0 if there is none.
Baseline(v) == found[v]

\* A check that finds no success of its configuration is a baseline: a quiet one.
Succeed(i) ==
  /\ runs[i].st = "running"
  /\ LET r == runs[i]
         prev == Baseline(r.conf)
     IN  /\ \E changed \in BOOLEAN : (changed => prev # 0) /\ Outcome(r, changed)
         /\ compared' = IF prev = 0 THEN <<0, 0>> ELSE <<prev, r.conf>>
         /\ found' = [found EXCEPT ![r.ver] = r.conf]
  /\ runs' = [runs EXCEPT ![i] = NoRun]
  /\ UNCHANGED <<now, enabled, next, lease, base, version, used, quota, asked, edits,
                 skipped, raced, overlapped>>

\* A failed check, or one that the reaper or a manual run has ended.
Fail(i) ==
  /\ runs[i].st # "none"
  /\ runs' = [runs EXCEPT ![i] = NoRun]
  /\ UNCHANGED <<now, row, used, found, quota, asked, edits, skipped, raced, overlapped, compared>>

-----------------------------------------------------------------------------
(* The API.                                                                *)

Request == edits < MaxEdits /\ now < EditTime /\ edits' = edits + 1

\* update_monitor with schedule_interval_minutes: next_run_at stays as it is.
EditInterval ==
  /\ Request
  /\ \E n \in Intervals : interval' = n /\ base' = n
  /\ quiet' = 0
  /\ raced' = (raced \/ \E i \in Active : runs[i].st = "running")
  /\ UNCHANGED <<now, enabled, next, lease, version, used, runs, found, quota, asked,
                 skipped, overlapped, compared>>

\* update_monitor with a field the page depends on.
EditConfig ==
  /\ Request
  /\ version' = version + 1
  /\ UNCHANGED <<now, enabled, next, lease, interval, base, quiet, used, runs, found,
                 quota, asked, skipped, raced, overlapped, compared>>

\* pause_monitor, bulk_action, pause_all_monitors, update_monitor.
Pause ==
  /\ Request
  /\ enabled' = FALSE
  /\ UNCHANGED <<now, next, lease, interval, base, quiet, version, used, runs, found,
                 quota, asked, skipped, raced, overlapped, compared>>

\* resume_monitor, bulk_action, and of a paused monitor resume_all_monitors and
\* update_monitor: due at once.
Resume ==
  /\ Request
  /\ enabled' = TRUE
  /\ next' = now
  /\ UNCHANGED <<now, lease, interval, base, quiet, version, used, runs, found, quota,
                 asked, skipped, raced, overlapped, compared>>

\* manual_run: looks for an active run, then inserts one in a second step; a run
\* that is stuck is failed first (Fail).
ManualCheck ==
  /\ quota /\ Active = {} /\ asked = "no"
  /\ Request
  /\ asked' = "manual"
  /\ UNCHANGED <<now, row, used, runs, found, quota, skipped, raced, overlapped, compared>>

\* The insert of manual_run, and of create_monitor in its second transaction.
InsertByHand ==
  /\ asked # "no" /\ Cardinality(Active) < 2
  /\ Insert
  /\ asked' = "no"
  /\ UNCHANGED <<now, row, used, found, quota, edits, skipped, raced, compared>>

\* create_monitor swallows what fails there.
InsertFails ==
  /\ asked = "create"
  /\ asked' = "no"
  /\ UNCHANGED <<now, row, used, runs, found, quota, edits, history>>

-----------------------------------------------------------------------------

\* The day's checks are used up, or a new day begins.
QuotaFlips ==
  /\ Request
  /\ quota' = ~quota
  /\ UNCHANGED <<now, row, used, runs, found, asked, skipped, raced, overlapped, compared>>

Tick ==
  /\ now < IF edits = 0 THEN MaxTime ELSE EditTime
  /\ \A s \in Schedulers : ~Due(s)
  /\ now' = now + 1
  /\ UNCHANGED <<row, used, runs, found, quota, asked, edits, skipped, raced, overlapped, compared>>

Next ==
  \/ \E s \in Schedulers : Claim(s)
  \/ ReleaseLeases
  \/ \E i \in 1..2 : Start(i) \/ Succeed(i) \/ Fail(i)
  \/ EditInterval \/ EditConfig \/ Pause \/ Resume \/ ManualCheck \/ InsertByHand \/ InsertFails
  \/ QuotaFlips \/ Tick

Spec == Init /\ [][Next]_vars

-----------------------------------------------------------------------------
(* Correctness.                                                            *)

\* A monitor that is left alone is not forgotten: the slot of a claim may have a
\* run already (the grid moves with the interval), but never twice in a row.
NotForgotten == edits = 0 => skipped <= 1

\* "stretch interval up to 4x base (capped)", and never below what was asked for,
\* as long as no edit meets a check under way.
IntervalInRange == ~raced => base <= interval /\ interval <= 4 * base

\* So a monitor that is left alone is checked within a bounded time.
CheckedInTime == NotForgotten /\ IntervalInRange

\* A change is found only between two pages fetched under one configuration,
\* whatever is edited while runs are queued and under way, as long as runs do not
\* overlap.
LikeWithLike == ~overlapped => compared[1] = compared[2]

\* Runs overlap only through a run inserted by hand (run_now, manual_run) after
\* its own look at the active runs; two schedulers never do that.
OverlapByHand ==
  [][(Cardinality(Active') = 2 /\ Cardinality(Active) < 2) => asked # "no" /\ asked' = "no"]_vars

=============================================================================
