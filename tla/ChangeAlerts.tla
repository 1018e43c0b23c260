---------------------------- MODULE ChangeAlerts ----------------------------
(***************************************************************************)
(* From a detected change to its notification rows.  The pipeline          *)
(* (services/pipeline.py) commits the change event with the rows, or, with *)
(* asynchronous enrichment, with a placeholder summary and leaves the rows *)
(* to a message for workers/ai_enrich.py, which may be lost, delivered     *)
(* twice, or retried.  Noise and changes in a quiet period                 *)
(* (services/conditional.py) are kept in the inbox but not announced.      *)
(***************************************************************************)
EXTENDS Naturals, FiniteSets

CONSTANTS
  Changes,       \* 1..n: the changes of one monitor, in order
  Channels,      \* enabled channels of its workspace
  Enrichers,     \* enrichment workers
  Cooldown,      \* cooldown_minutes, 0 if it is not set
  FlapWindow, FlapMax,    \* flap_window_minutes and flap_max_alerts
  LastTime,      \* bound on the clock
  MaxMarks,      \* bound on marks by the user
  MaxTries       \* bound on receipts of enrichment messages

VARIABLES
  time,
  async,         \* ai_async_enrichment, with a key and AI switched on
  inbox,         \* change events: when made, noise, state of the summary
  rows,          \* notification rows: one per insert that took place
  message,       \* enrichment messages in flight
  job,           \* what each enricher is about to commit
  tries, marks,
  \* history
  refused,       \* changes that a quiet period has refused
  queued         \* channels a change was given rows for, with the time

alertVars == <<time, async, inbox, rows, message, job, tries, marks, refused, queued>>

NoEvent == [at |-> 0, noise |-> FALSE, summary |-> "none"]
NoJob == [of |-> 0, was |-> FALSE, noise |-> FALSE, placeholder |-> FALSE, step |-> "none"]
Summaries == {"none", "pending", "conditional", "enriched"}

TypeOK ==
  /\ time \in 0..LastTime /\ async \in BOOLEAN
  /\ inbox \in [Changes -> [at : 0..LastTime, noise : BOOLEAN, summary : Summaries]]
  /\ rows \subseteq Changes \X Channels
  /\ message \in [Changes -> 0..2]
  /\ \A e \in Enrichers : job[e].of \in {0} \cup Changes
  /\ tries \in 0..MaxTries /\ marks \in 0..MaxMarks
  /\ refused \subseteq Changes
  /\ queued \in [Changes -> SUBSET (Channels \X (0..LastTime))]

Init ==
  /\ time = 0 /\ async \in BOOLEAN
  /\ inbox = [c \in Changes |-> NoEvent]
  /\ rows = {} /\ message = [c \in Changes |-> 0]
  /\ job = [e \in Enrichers |-> NoJob]
  /\ tries = 0 /\ marks = 0
  /\ refused = {} /\ queued = [c \in Changes |-> {}]

Events == {c \in Changes : inbox[c].summary # "none"}

-----------------------------------------------------------------------------
(* check_rate_limits and _queue_notifications.                             *)

\* Faulty variant of Recent: the window is open at its far end.
RecentOpen(c, window) ==
  {d \in Events \ {c} : ~inbox[d].noise /\ inbox[d].at + window > time}

\* _recent_signal_count: events that are no noise, whether or not they were
\* announced, and whether they came before c or since.
Recent(c, window) ==
  {d \in Events \ {c} : ~inbox[d].noise /\ inbox[d].at + window >= time}

Quiet(c) ==
  \/ Cooldown > 0 /\ Recent(c, Cooldown) # {}
  \/ FlapWindow > 0 /\ FlapMax > 0 /\ Cardinality(Recent(c, FlapWindow)) >= FlapMax

\* Faulty variant of Unqueued: the key of the row is not looked at.
UnqueuedAny(c) == Channels

\* ON CONFLICT DO NOTHING on the key of the run and the channel.
Unqueued(c) == {h \in Channels : <<c, h>> \notin rows}

Insert(c) ==
  /\ rows' = rows \cup ({c} \X Unqueued(c))
  /\ queued' = [queued EXCEPT ![c] = @ \cup (Unqueued(c) \X {time})]

\* Rows for c, unless it is noise or the monitor is to be quiet.
Queue(c, noise) ==
  \/ noise /\ UNCHANGED <<rows, queued, refused>>
  \/ ~noise /\ Quiet(c) /\ refused' = refused \cup {c} /\ UNCHANGED <<rows, queued>>
  \/ ~noise /\ ~Quiet(c) /\ Insert(c) /\ refused' = refused \ {c}

-----------------------------------------------------------------------------
(* The pipeline, up to the commit of a change.                             *)

NextChange == {c \in Changes : c = Cardinality(Events) + 1}

Record(c, noise, summary) ==
  inbox' = [inbox EXCEPT ![c] = [at |-> time, noise |-> noise, summary |-> summary]]

\* Synchronous: the triage of the model, or the conditional thresholds, which
\* override it, decide before the commit.
ChangeSync(c) ==
  /\ ~async
  /\ \E suppressed, triaged \in BOOLEAN :
       /\ Record(c, suppressed \/ triaged, IF suppressed THEN "conditional" ELSE "enriched")
       /\ Queue(c, suppressed \/ triaged)
  /\ UNCHANGED <<time, async, message, job, tries, marks>>

\* Asynchronous, suppressed: final, and not handed to a worker.
ChangeSuppressed(c) ==
  /\ async
  /\ Record(c, TRUE, "conditional")
  /\ UNCHANGED <<time, async, rows, message, job, tries, marks, refused, queued>>

\* Asynchronous: a placeholder is committed, then the message sent.  When the
\* sending fails, that is logged.
ChangeAsync(c) ==
  /\ async
  /\ Record(c, FALSE, "pending")
  /\ \E sent \in 0..1 : message' = [message EXCEPT ![c] = sent]
  /\ UNCHANGED <<time, async, rows, job, tries, marks, refused, queued>>

-----------------------------------------------------------------------------
(* enrich_change_event.                                                    *)

Placeholder(c) == inbox[c].summary = "pending"

\* A message is received; it may come again.  Nothing is done for a change that
\* is suppressed or enriched already.
Receive(e, c) ==
  /\ job[e] = NoJob
  /\ message[c] > 0 /\ tries < MaxTries
  /\ tries' = tries + 1
  /\ \E again \in BOOLEAN : message' = [message EXCEPT ![c] = IF again THEN @ ELSE @ - 1]
  /\ job' = [job EXCEPT ![e] = IF Placeholder(c)
                               THEN [NoJob EXCEPT !.of = c, !.was = inbox[c].noise, !.step = "model"] ELSE NoJob]
  /\ UNCHANGED <<time, async, inbox, rows, marks, refused, queued>>

\* The model answers, or its fallback does, whose summary is a placeholder still.
\* Noise is committed at once; otherwise rows that exist end the job, without a
\* commit.
Answer(e) ==
  /\ job[e].step = "model"
  /\ \E noise, placeholder \in BOOLEAN :
       /\ placeholder => ~noise
       /\ job' = [job EXCEPT ![e] = IF ~noise /\ \E h \in Channels : <<job[e].of, h>> \in rows
                                    THEN NoJob
                                    ELSE [@ EXCEPT !.noise = noise, !.step = "commit",
                                                   !.placeholder = placeholder]]
  /\ UNCHANGED <<time, async, inbox, rows, message, tries, marks, refused, queued>>

\* A column is written if it differs from the row that was loaded.
Enriched(e) ==
  inbox' = [inbox EXCEPT ![job[e].of].noise = IF job[e].noise # job[e].was THEN job[e].noise ELSE @,
                         ![job[e].of].summary = IF job[e].placeholder THEN @ ELSE "enriched"]

\* Faulty variant of Finish: the event is committed before the rows are queued.
FinishApart(e) ==
  /\ job[e].step = "commit"
  /\ Enriched(e)
  /\ \/ Queue(job[e].of, job[e].noise)
     \/ UNCHANGED <<rows, queued, refused>>
  /\ job' = [job EXCEPT ![e] = NoJob]
  /\ UNCHANGED <<time, async, message, tries, marks>>

\* Enrichment and rows in one commit.
Finish(e) ==
  /\ job[e].step = "commit"
  /\ Enriched(e)
  /\ Queue(job[e].of, job[e].noise)
  /\ job' = [job EXCEPT ![e] = NoJob]
  /\ UNCHANGED <<time, async, message, tries, marks>>

\* The queueing fails and is rolled back, or the worker dies: the message comes
\* again, unless its retries are used up.
Fail(e) ==
  /\ job[e] # NoJob
  /\ \E again \in 0..1 : message' = [message EXCEPT ![job[e].of] = IF @ < 2 THEN @ + again ELSE @]
  /\ job' = [job EXCEPT ![e] = NoJob]
  /\ UNCHANGED <<time, async, inbox, rows, tries, marks, refused, queued>>

-----------------------------------------------------------------------------

\* mark_change_noise.
Mark(c) ==
  /\ marks < MaxMarks
  /\ c \in Events
  /\ marks' = marks + 1
  /\ inbox' = [inbox EXCEPT ![c].noise = ~@]
  /\ UNCHANGED <<time, async, rows, message, job, tries, refused, queued>>

Tick ==
  /\ time < LastTime
  /\ time' = time + 1
  /\ UNCHANGED <<async, inbox, rows, message, job, tries, marks, refused, queued>>

Next ==
  \/ \E c \in NextChange : ChangeSync(c) \/ ChangeSuppressed(c) \/ ChangeAsync(c)
  \/ \E e \in Enrichers : (\E c \in Changes : Receive(e, c)) \/ Answer(e) \/ Finish(e) \/ Fail(e)
  \/ \E c \in Changes : Mark(c)
  \/ Tick

Spec == Init /\ [][Next]_alertVars

-----------------------------------------------------------------------------
(* Correctness.                                                            *)

\* No "enriched event that can never notify": an event whose summary is final and
\* that is a signal has its rows, or a quiet period refused it, through failures
\* and deaths at every step.
EnrichedIsDecided ==
  marks = 0 => \A c \in Events : inbox[c].summary = "enriched" /\ ~inbox[c].noise =>
                 c \in refused \/ {c} \X Channels \subseteq rows

\* One row per change and channel, whatever messages are duplicated or retried
\* and however many enrichers work at the same change.
AnnouncedOnce ==
  \A c \in Changes : \A p, q \in queued[c] : p[1] = q[1] => p = q

\* A cool-down, if one is set, keeps two announced changes apart when enrichment is
\* synchronous.
CooledDown ==
  Cooldown > 0 /\ ~async /\ marks = 0 =>
    \A c, d \in Changes : c < d /\ queued[c] # {} /\ queued[d] # {} =>
      inbox[c].at + Cooldown < inbox[d].at

\* Alerts come once, and not too soon after each other.
AlertsApart == AnnouncedOnce /\ CooledDown

-----------------------------------------------------------------------------
(* What does not hold.                                                     *)

\* A quiet period follows an announcement: two changes that wait for enrichment
\* at once refuse each other, and changes that were refused refuse the next.
RefusedAfterAlert ==
  \A c \in refused : \E d \in Changes \ {c} : queued[d] # {}

=============================================================================
