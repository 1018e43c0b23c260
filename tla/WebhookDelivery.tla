-------------------------- MODULE WebhookDelivery --------------------------
(***************************************************************************)
(* Delivery of WebhookDelivery rows (services/webhooks.py): the row of a   *)
(* change and an endpoint, the message that names it, the worker that      *)
(* posts it, the reaper of the scheduler loop and the manual retry of the  *)
(* API.  It differs from the notification outbox in what is written        *)
(* without a fence: a worker that finds the endpoint off, the reaper and   *)
(* the manual retry write by primary key what they decided on an earlier   *)
(* read.  SQLAlchemy sends only the columns that differ from what was read.*)
(***************************************************************************)
EXTENDS Dramatiq

CONSTANTS
  Workers,       \* threads of the notifications queue
  Schedulers,    \* scheduler processes, each of which runs the reaper
  Callers,       \* API requests that retry a delivery by hand, one retry each
  NoRow,         \* the row of an idle worker or caller
  MaxAttempts,   \* the 5 of deliver_webhook and of the reaper
  Switching      \* endpoints may be disabled or deleted

ASSUME WebhookAssumption ==
  /\ NoRow \notin Rows
  /\ MaxAttempts \in Nat \ {0}
  /\ Switching \in BOOLEAN

VARIABLES
  status,        \* webhook_deliveries.status
  attempts,      \* webhook_deliveries.attempts
  old,           \* rows whose updated_at is past the reaper's cutoff
  worker,        \* per worker: control point, row, retries, loaded columns
  reaper,        \* per scheduler: rows it will fail and rows it will re-send
  caller,        \* per caller: control point, row, loaded columns
  accepted,      \* history: how often the endpoint took the row's request
  unconfirmed    \* history: those the row was never told of

rowVars  == <<status, attempts, old>>
histVars == <<accepted, unconfirmed>>
vars == <<status, attempts, old, msgs, worker, reaper, caller, histVars>>

Statuses == {"none", "pending", "processing", "sent", "failed"}

Idle == [pc |-> "idle", row |-> NoRow, retries |-> 0, seen |-> "none", tries |-> 0]
NoBatch == [fail |-> {}, resend |-> {}]
Ready == [pc |-> "ready", row |-> NoRow, seen |-> "none", tries |-> 0]

TypeOK ==
  /\ status \in [Rows -> Statuses]
  /\ attempts \in [Rows -> Nat]
  /\ old \subseteq Rows
  /\ msgs \in [Rows -> [Retries -> 0..MaxCopies]]
  /\ worker \in [Workers ->
       [pc : {"idle", "loaded", "off", "claimed", "sending", "accepted", "written"},
        row : Rows \cup {NoRow}, retries : Retries, seen : Statuses, tries : Nat]]
  /\ reaper \in [Schedulers -> [fail : SUBSET Rows, resend : SUBSET Rows]]
  /\ caller \in [Callers ->
       [pc : {"ready", "loaded", "done"}, row : Rows \cup {NoRow},
        seen : Statuses, tries : Nat]]
  /\ accepted \in [Rows -> Nat]
  /\ unconfirmed \in [Rows -> Nat]

Init ==
  /\ status = [r \in Rows |-> "none"]
  /\ attempts = [r \in Rows |-> 0]
  /\ old = {}
  /\ msgs = NoMessages
  /\ worker = [w \in Workers |-> Idle]
  /\ reaper = [s \in Schedulers |-> NoBatch]
  /\ caller = [c \in Callers |-> Ready]
  /\ accepted = [r \in Rows |-> 0]
  /\ unconfirmed = [r \in Rows |-> 0]

-----------------------------------------------------------------------------
(* The producer and the worker.                                            *)

\* The row is committed, then its message is sent, unless the producer dies or
\* Redis is away (webhook_enqueue_failed is only logged).
Create(r) ==
  /\ status[r] = "none"
  /\ status' = [status EXCEPT ![r] = "pending"]
  /\ msgs' \in {msgs, Sent(r, 0)}
  /\ UNCHANGED <<attempts, old, worker, reaper, caller, histVars>>

\* The row is loaded; a sent one is left alone.
Drop(w, r, k) ==
  /\ worker[w].pc = "idle"
  /\ msgs[r][k] > 0
  /\ status[r] = "sent"
  /\ msgs' = Taken(r, k)
  /\ UNCHANGED <<rowVars, worker, reaper, caller, histVars>>

Load(w, r, k) ==
  /\ worker[w].pc = "idle"
  /\ msgs[r][k] > 0
  /\ status[r] # "sent"
  /\ msgs' = Taken(r, k)
  /\ \E pc \in {"loaded"} \cup (IF Switching THEN {"off"} ELSE {}) :
       worker' = [worker EXCEPT ![w] =
         [pc |-> pc, row |-> r, retries |-> k,
          seen |-> status[r], tries |-> attempts[r]]]
  /\ UNCHANGED <<rowVars, reaper, caller, histVars>>

\* A write of the loaded row: a status equal to the loaded one is not sent.
Write(w, s) ==
  /\ status' = [status EXCEPT ![worker[w].row] = IF worker[w].seen = s THEN @ ELSE s]
  /\ old' = old \ {worker[w].row}

Release(w) == worker' = [worker EXCEPT ![w] = Idle]

\* Endpoint missing or disabled: FAILED, before any claim.
FailOff(w) ==
  /\ worker[w].pc = "off"
  /\ Write(w, "failed")
  /\ Release(w)
  /\ UNCHANGED <<attempts, msgs, reaper, caller, histVars>>

\* Faulty variant of Claimable: every row that has not settled is claimed.
NotSettled(s) == s \in {"pending", "processing"}

Claimable(s) == s = "pending"

Claim(w) ==
  LET r == worker[w].row
  IN /\ worker[w].pc = "loaded"
     /\ Claimable(status[r])
     /\ status' = [status EXCEPT ![r] = "processing"]
     /\ attempts' = [attempts EXCEPT ![r] = @ + 1]
     /\ old' = old \ {r}
     /\ worker' = [worker EXCEPT ![w].pc = "claimed"]
     /\ UNCHANGED <<msgs, reaper, caller, histVars>>

LoseClaim(w) ==
  /\ worker[w].pc = "loaded"
  /\ ~Claimable(status[worker[w].row])
  /\ Release(w)
  /\ UNCHANGED <<rowVars, msgs, reaper, caller, histVars>>

\* db.refresh(delivery): every later decision uses these columns.
Refresh(w) ==
  LET r == worker[w].row
  IN /\ worker[w].pc = "claimed"
     /\ worker' = [worker EXCEPT ![w].pc = "sending", ![w].seen = status[r],
                                 ![w].tries = attempts[r]]
     /\ UNCHANGED <<rowVars, msgs, reaper, caller, histVars>>

\* No usable secret, or the address is blocked.
Refuse(w) ==
  /\ worker[w].pc = "sending"
  /\ Write(w, "failed")
  /\ Release(w)
  /\ UNCHANGED <<attempts, msgs, reaper, caller, histVars>>

\* The endpoint takes the request, whatever becomes of its answer.
Accept(w) ==
  /\ worker[w].pc = "sending"
  /\ accepted' = [accepted EXCEPT ![worker[w].row] = @ + 1]
  /\ worker' = [worker EXCEPT ![w].pc = "accepted"]
  /\ UNCHANGED <<rowVars, msgs, reaper, caller, unconfirmed>>

ConfirmSent(w) ==
  /\ worker[w].pc = "accepted"
  /\ Write(w, "sent")
  /\ Release(w)
  /\ UNCHANGED <<attempts, msgs, reaper, caller, histVars>>

\* The acceptance will not reach the row.
Forget(w) ==
  unconfirmed' = IF worker[w].pc = "accepted"
                 THEN [unconfirmed EXCEPT ![worker[w].row] = @ + 1]
                 ELSE unconfirmed

\* Faulty variant of AfterFailure: one attempt too many.
AfterFailureLate(n) == IF n <= MaxAttempts THEN "pending" ELSE "failed"

AfterFailure(n) == IF n < MaxAttempts THEN "pending" ELSE "failed"

\* The answer is not a 2xx, or there is none.
RequestFails(w) ==
  /\ worker[w].pc \in {"sending", "accepted"}
  /\ Write(w, AfterFailure(worker[w].tries))
  /\ worker' = [worker EXCEPT ![w].pc = "written"]
  /\ Forget(w)
  /\ UNCHANGED <<attempts, msgs, reaper, caller, accepted>>

\* The status, expired by the commit, is read again: PENDING raises to Dramatiq.
RaiseOrEnd(w) ==
  LET r == worker[w].row
  IN /\ worker[w].pc = "written"
     /\ msgs' = IF status[r] = "pending" THEN Retried(r, worker[w].retries) ELSE msgs
     /\ Release(w)
     /\ UNCHANGED <<rowVars, reaper, caller, histVars>>

\* The worker dies, its time limit interrupts it, or a commit fails.
Interrupt(w) ==
  /\ worker[w].pc # "idle"
  /\ msgs' \in Unacknowledged(worker[w].row, worker[w].retries)
  /\ Release(w)
  /\ Forget(w)
  /\ UNCHANGED <<rowVars, reaper, caller, accepted>>

-----------------------------------------------------------------------------
(* The reaper and the manual retry.                                        *)

\* Only rows in PROCESSING are looked at.
Stuck == {r \in old : status[r] = "processing"}

Exhausted == {r \in Stuck : attempts[r] >= MaxAttempts}

\* The rows are read without a lock.
ReapSelect(s) ==
  /\ reaper[s] = NoBatch
  /\ Stuck # {}
  /\ reaper' = [reaper EXCEPT ![s] = [fail |-> Exhausted, resend |-> Stuck \ Exhausted]]
  /\ UNCHANGED <<rowVars, msgs, worker, caller, histVars>>

\* Faulty variant of AfterReap: the status of a re-sent row is left alone.
AfterReapKept(s, r) == IF r \in reaper[s].fail THEN "failed" ELSE status[r]

AfterReap(s, r) ==
  CASE r \in reaper[s].fail -> "failed"
    [] r \in reaper[s].resend -> "pending"
    [] OTHER -> status[r]

\* One commit for the batch, then a message for each row taken back to PENDING,
\* unless the scheduler dies or Redis fails between two sends.
ReapCommit(s) ==
  /\ reaper[s] # NoBatch
  /\ status' = [r \in Rows |-> AfterReap(s, r)]
  /\ old' = old \ (reaper[s].fail \cup reaper[s].resend)
  /\ \E lost \in SUBSET reaper[s].resend : msgs' = SentAll(reaper[s].resend \ lost)
  /\ reaper' = [reaper EXCEPT ![s] = NoBatch]
  /\ UNCHANGED <<attempts, worker, caller, histVars>>

ReapRollback(s) ==
  /\ reaper[s] # NoBatch
  /\ reaper' = [reaper EXCEPT ![s] = NoBatch]
  /\ UNCHANGED <<rowVars, msgs, worker, caller, histVars>>

\* POST .../webhook-deliveries/{id}/retry of a row that is not sent.
RetryLoad(c, r) ==
  /\ caller[c].pc = "ready"
  /\ status[r] \notin {"none", "sent"}
  /\ caller' = [caller EXCEPT ![c] =
       [pc |-> "loaded", row |-> r, seen |-> status[r], tries |-> attempts[r]]]
  /\ UNCHANGED <<rowVars, msgs, worker, reaper, histVars>>

\* PENDING with no attempts, whatever the row has become; then a message, unless
\* the audit row or the send fails.
RetryCommit(c) ==
  LET r == caller[c].row
  IN /\ caller[c].pc = "loaded"
     /\ status' = [status EXCEPT ![r] = IF caller[c].seen = "pending" THEN @ ELSE "pending"]
     /\ attempts' = [attempts EXCEPT ![r] = IF caller[c].tries = 0 THEN @ ELSE 0]
     /\ old' = old \ {r}
     /\ msgs' \in {msgs, Sent(r, 0)}
     /\ caller' = [caller EXCEPT ![c] = [Ready EXCEPT !.pc = "done"]]
     /\ UNCHANGED <<worker, reaper, histVars>>

-----------------------------------------------------------------------------
(* Time and the broker.                                                    *)

\* Faulty variant of Unattended: attempts outlive the reaper's cutoff.
Unlimited(r) == TRUE

\* The time limit of the actor (60 s) is far below the reaper's cutoff (600 s):
\* a row claimed by a worker that is still at it is not old.
Unattended(r) ==
  \A w \in Workers :
    worker[w].row = r => worker[w].pc \in {"loaded", "off"}

Age(r) ==
  /\ status[r] = "processing"
  /\ Unattended(r)
  /\ r \notin old
  /\ old' = old \cup {r}
  /\ UNCHANGED <<status, attempts, msgs, worker, reaper, caller, histVars>>

LoseMessage(r, k) ==
  /\ msgs[r][k] > 0
  /\ msgs' = Taken(r, k)
  /\ UNCHANGED <<rowVars, worker, reaper, caller, histVars>>

-----------------------------------------------------------------------------

Progress(w) ==
  \/ FailOff(w) \/ Claim(w) \/ LoseClaim(w) \/ Refresh(w) \/ Refuse(w)
  \/ Accept(w) \/ ConfirmSent(w) \/ RequestFails(w) \/ RaiseOrEnd(w)

Next ==
  \/ \E r \in Rows : Create(r) \/ Age(r)
  \/ \E w \in Workers, r \in Rows, k \in Retries : Drop(w, r, k) \/ Load(w, r, k)
  \/ \E w \in Workers : Progress(w) \/ Interrupt(w)
  \/ \E s \in Schedulers : ReapSelect(s) \/ ReapCommit(s) \/ ReapRollback(s)
  \/ \E c \in Callers : RetryCommit(c) \/ \E r \in Rows : RetryLoad(c, r)
  \/ \E r \in Rows, k \in Retries : LoseMessage(r, k)

Spec == Init /\ [][Next]_vars

\* Workers take messages and finish what they hold, time passes, the scheduler
\* loop survives every exception, and not every pass of the reaper fails.
Fairness ==
  /\ \A w \in Workers :
       /\ WF_vars(Progress(w))
       /\ WF_vars(\E r \in Rows, k \in Retries : Drop(w, r, k) \/ Load(w, r, k))
  /\ \A r \in Rows : WF_vars(Age(r))
  /\ \A s \in Schedulers :
       /\ WF_vars(ReapSelect(s))
       /\ WF_vars(ReapCommit(s) \/ ReapRollback(s))
       /\ SF_vars(ReapCommit(s))

FairSpec == Spec /\ Fairness

-----------------------------------------------------------------------------
(* Correctness.                                                            *)

Delivering(w) == worker[w].pc \in {"claimed", "sending", "accepted"}

\* Nobody has retried a delivery by hand yet.
NoManualRetry == \A c \in Callers : caller[c].pc # "done"

\* "A redelivered message racing a live attempt sees rowcount 0 and exits": two
\* workers never deliver one row at a time.  This holds for messages, retries
\* and one reaper; not for two reapers, nor after a manual retry.
OneDeliverer ==
  NoManualRetry =>
    \A w, v \in Workers :
      Delivering(w) /\ Delivering(v) /\ worker[w].row = worker[v].row => w = v

\* An endpoint takes a request again only after one whose answer was lost.
NoNeedlessResend ==
  NoManualRetry => \A r \in Rows : accepted[r] <= 1 + unconfirmed[r]

\* No row is attempted more than MaxAttempts times, over all its messages.
AttemptsCapped == NoManualRetry => \A r \in Rows : attempts[r] <= MaxAttempts

\* "re-enqueueing makes recovery real": a row does not stay PROCESSING, though
\* its worker died.
DeadAttemptRecovered ==
  \A r \in Rows : status[r] = "processing" ~> status[r] # "processing"

\* Claims of the documentation that the code does not keep.

\* "Succeeded deliveries are not re-sent": a row stays SENT.
SucceededNotResent ==
  [][\A r \in Rows : status[r] = "sent" => status'[r] = "sent"]_vars

\* "at-least-once sends": a row that waits is taken up in the end.
AtLeastOnce == \A r \in Rows : status[r] = "pending" ~> status[r] # "pending"

=============================================================================
