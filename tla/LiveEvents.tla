----------------------------- MODULE LiveEvents -----------------------------
(***************************************************************************)
(* The live stream of one monitor: a writer publishes a wake-up hint from  *)
(* its flush, before its commit (services/live_events.py), and the SSE     *)
(* endpoint (monitor_events in routers/monitors.py) waits for a hint or a  *)
(* tick, reads the latest run and the latest change and emits what is new. *)
(* Redis may be down when the publisher's client is built, when the stream *)
(* subscribes and while it waits.                                          *)
(***************************************************************************)
EXTENDS Naturals

CONSTANTS
  MaxRuns,       \* bound on the runs of the monitor
  MaxChanges,    \* bound on its change events
  MaxBlips,      \* bound on failed reads of the database
  MaxOutages     \* bound on the times Redis goes down

VARIABLES
  latest,        \* committed: the newest run, its status, the newest change
  flushed,       \* the same after the flush of a transaction that is open
  redis,         \* Redis is up
  outages, blips,
  client,        \* the publisher's cached client: "unbuilt", "none" or "ok"
  open,          \* its circuit breaker is open
  waiter,        \* the stream's subscription: "new", "live" or "broken"
  hint,          \* a message waits in the subscription
  stream,        \* control point of the generator
  got,           \* what its first SELECT read
  shown          \* what the browser was last sent

writer == <<latest, flushed>>
publisher == <<client, open>>
reader == <<waiter, hint, stream, got, shown>>
faults == <<redis, outages, blips>>
vars == <<writer, publisher, reader, faults>>

Statuses == {"queued", "running", "succeeded", "failed"}
States == [run : 0..MaxRuns, status : Statuses, change : 0..MaxChanges]
NoState == [run |-> 0, status |-> "queued", change |-> 0]

TypeOK ==
  /\ latest \in States /\ shown \in States /\ got \in States
  /\ flushed \in States \cup {NoState}
  /\ client \in {"unbuilt", "none", "ok"}
  /\ waiter \in {"new", "live", "broken"}
  /\ stream \in {"start", "wait", "runs", "changes", "done"}
  /\ redis \in BOOLEAN /\ open \in BOOLEAN /\ hint \in BOOLEAN
  /\ outages \in 0..MaxOutages /\ blips \in 0..MaxBlips

Init ==
  /\ latest = NoState /\ flushed = NoState
  /\ redis \in BOOLEAN /\ outages = 0 /\ blips = 0
  /\ client = "unbuilt" /\ open = FALSE
  /\ waiter = "new" /\ hint = FALSE /\ stream = "start"
  /\ got = NoState /\ shown = NoState

-----------------------------------------------------------------------------
(* Writers: any process that flushes a MonitorRun or a ChangeEvent.        *)

\* _get_sync_client: built once, and None for good if the first ping fails.
Built == IF client = "unbuilt" THEN (IF redis THEN "ok" ELSE "none") ELSE client

\* publish_monitor_event: a hint is dropped while the circuit is open, and a
\* failure opens it.
Publish ==
  IF open
  THEN UNCHANGED <<client, open, hint>>
  ELSE LET sent == Built = "ok" /\ redis
       IN  /\ client' = Built
           /\ open' = ~sent
           /\ hint' = (hint \/ (sent /\ waiter = "live"))

\* A new run, the next status of the newest one, or a change it has found.
Written(s) ==
  \/ /\ s.run < MaxRuns
     /\ flushed' = [s EXCEPT !.run = @ + 1, !.status = "queued"]
  \/ /\ s.run > 0
     /\ \/ s.status = "queued" /\ flushed' = [s EXCEPT !.status = "running"]
        \/ s.status \in {"queued", "running"} /\ flushed' = [s EXCEPT !.status = "failed"]
        \/ s.status = "running" /\ flushed' = [s EXCEPT !.status = "succeeded"]
        \/ /\ s.status = "running" /\ s.change < MaxChanges
           /\ flushed' = [s EXCEPT !.status = "succeeded", !.change = @ + 1]

Flush ==
  /\ flushed = NoState
  /\ Written(latest)
  /\ Publish
  /\ UNCHANGED <<latest, waiter, stream, got, shown, faults>>

Commit ==
  /\ flushed # NoState
  /\ latest' = flushed
  /\ flushed' = NoState
  /\ UNCHANGED <<publisher, reader, faults>>

Rollback ==
  /\ flushed # NoState
  /\ flushed' = NoState
  /\ UNCHANGED <<latest, publisher, reader, faults>>

\* _RETRY_AFTER_SECONDS have passed.
CircuitCloses ==
  /\ open
  /\ open' = FALSE
  /\ UNCHANGED <<writer, client, reader, faults>>

RedisFlips ==
  /\ redis => outages < MaxOutages
  /\ redis' = ~redis
  /\ outages' = IF redis THEN outages + 1 ELSE outages
  /\ UNCHANGED <<writer, publisher, reader, blips>>

-----------------------------------------------------------------------------
(* The stream.                                                             *)

\* _ensure: one subscription per connection; when every candidate URL fails
\* the waiter only sleeps from then on.
Subscribe ==
  /\ stream = "start"
  /\ waiter' = IF redis THEN "live" ELSE "broken"
  /\ stream' = "wait"
  /\ UNCHANGED <<writer, publisher, hint, got, shown, faults>>

\* wait() returns: a message is there, the tick has passed, or the connection
\* failed (_discard) and the tick was slept instead.
Wake ==
  /\ stream = "wait"
  /\ \/ waiter = "live" /\ hint /\ hint' = FALSE /\ UNCHANGED waiter
     \/ waiter = "live" /\ ~redis /\ waiter' = "broken" /\ hint' = FALSE
     \/ UNCHANGED <<waiter, hint>>
  /\ stream' = "runs"
  /\ UNCHANGED <<writer, publisher, got, shown, faults>>

\* The SELECT of the newest run.
ReadRun ==
  /\ stream = "runs"
  /\ got' = latest
  /\ stream' = "changes"
  /\ UNCHANGED <<writer, publisher, waiter, hint, shown, faults>>

RunKey(s) == <<s.run, s.status>>

\* Faulty variant of Emitted: the row of the run is sent as read, whatever came before.
EmittedRaw(s, change) == [s EXCEPT !.change = shown.change]

\* What the browser has after the events of this round: an event is sent for a
\* new key of the run and for a new change.
Emitted(s, change) ==
  LET run == IF RunKey(s) # RunKey(shown) THEN s ELSE shown
  IN  [run EXCEPT !.change = change]

\* The SELECT of the newest change, in a statement of its own, and the events.
ReadChange ==
  /\ stream = "changes"
  /\ shown' = Emitted(got, latest.change)
  /\ stream' = "wait"
  /\ UNCHANGED <<writer, publisher, waiter, hint, got, faults>>

\* A read fails: the loop logs it and waits again.
Blip ==
  /\ stream \in {"runs", "changes"}
  /\ blips < MaxBlips
  /\ blips' = blips + 1
  /\ stream' = "wait"
  /\ UNCHANGED <<writer, publisher, waiter, hint, got, shown, redis, outages>>

\* The browser has gone or SSE_MAX_LIFETIME_SECONDS have passed: aclose.
Close ==
  /\ stream = "wait"
  /\ stream' = "done"
  /\ hint' = FALSE
  /\ waiter' = "broken"
  /\ UNCHANGED <<writer, publisher, got, shown, faults>>

-----------------------------------------------------------------------------

Next ==
  \/ Flush \/ Commit \/ Rollback \/ CircuitCloses \/ RedisFlips
  \/ Subscribe \/ Wake \/ ReadRun \/ ReadChange \/ Blip \/ Close

Spec == Init /\ [][Next]_vars

\* The generator runs; neither hints nor Redis are relied on.
Fairness == WF_vars(Subscribe) /\ WF_vars(Wake) /\ WF_vars(ReadRun) /\ WF_vars(ReadChange)

FairSpec == Spec /\ Fairness

-----------------------------------------------------------------------------
(* Correctness.                                                            *)

\* What stays committed is shown, with Redis down, hints lost or sent before
\* their commit, and reads that fail, unless the stream ends.
LatestShown == []<>(shown = latest \/ stream = "done")

=============================================================================
