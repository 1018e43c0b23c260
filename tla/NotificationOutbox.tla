------------------------- MODULE NotificationOutbox -------------------------
(***************************************************************************)
(* Delivery of NotificationOutbox rows (workers/notifications.py): the     *)
(* row a pipeline, a failure or a digest has committed, the Dramatiq       *)
(* message that names it, the worker that claims and delivers it, the      *)
(* retries of the broker, and the reaper that the scheduler loop runs.     *)
(* A provider (Resend, Slack, Discord) may accept a message and the worker *)
(* still fail before the row says so; workers and schedulers may die at    *)
(* any step; messages may be lost or duplicated.  Channels come and go     *)
(* unseen: a worker may find its channel missing or disabled at any claim. *)
(***************************************************************************)
EXTENDS Dramatiq

CONSTANTS
  Workers,       \* threads of the notifications queue
  Schedulers,    \* scheduler processes, each of which runs the reaper
  NoRow,         \* the row of an idle worker
  MaxAttempts    \* OUTBOX_MAX_ATTEMPTS

ASSUME OutboxAssumption ==
  /\ NoRow \notin Rows
  /\ MaxAttempts \in Nat \ {0}

VARIABLES
  status,        \* notification_outbox.status
  attempts,      \* notification_outbox.attempts
  old,           \* rows whose updated_at is past the reaper's cutoff
  worker,        \* per worker: control point, row, retries of its message
  reaper,        \* per scheduler: rows it will park and rows it will re-send
  accepted,      \* history: how often a provider accepted the row's message
  unconfirmed    \* history: acceptances the row was never told of

rowVars  == <<status, attempts, old>>
histVars == <<accepted, unconfirmed>>
vars == <<status, attempts, old, msgs, worker, reaper, accepted, unconfirmed>>

OutboxStatus == {"none", "pending", "processing", "sent", "failed"}

Idle == [pc |-> "idle", row |-> NoRow, retries |-> 0]
NoBatch == [park |-> {}, resend |-> {}]

TypeOK ==
  /\ status \in [Rows -> OutboxStatus]
  /\ attempts \in [Rows -> Nat]
  /\ old \subseteq Rows
  /\ msgs \in [Rows -> [Retries -> 0..MaxCopies]]
  /\ worker \in [Workers -> [pc : {"idle", "claimed", "accepted"},
                             row : Rows \cup {NoRow}, retries : Retries]]
  /\ reaper \in [Schedulers -> [park : SUBSET Rows, resend : SUBSET Rows]]
  /\ accepted \in [Rows -> Nat]
  /\ unconfirmed \in [Rows -> Nat]

Init ==
  /\ status = [r \in Rows |-> "none"]
  /\ attempts = [r \in Rows |-> 0]
  /\ old = {}
  /\ msgs = NoMessages
  /\ worker = [w \in Workers |-> Idle]
  /\ reaper = [s \in Schedulers |-> NoBatch]
  /\ accepted = [r \in Rows |-> 0]
  /\ unconfirmed = [r \in Rows |-> 0]

-----------------------------------------------------------------------------
(* The producer and the worker.                                            *)

\* The row is committed, then its message is sent, unless the producer dies or
\* Redis is away (enqueue_outbox only logs that).
Create(r) ==
  /\ status[r] = "none"
  /\ status' = [status EXCEPT ![r] = "pending"]
  /\ msgs' \in {msgs, Sent(r, 0)}
  /\ UNCHANGED <<attempts, old, worker, reaper, histVars>>

\* Faulty variant of Claimable: every row that has not settled is claimed.
NotSettled(s) == s \in {"pending", "processing"}

Claimable(s) == s = "pending"

\* UPDATE ... SET status = 'processing', attempts = attempts + 1, updated_at =
\* now() WHERE status = 'pending', committed before anything is sent.
Claim(w, r, k) ==
  /\ worker[w].pc = "idle"
  /\ msgs[r][k] > 0
  /\ Claimable(status[r])
  /\ msgs' = Taken(r, k)
  /\ status' = [status EXCEPT ![r] = "processing"]
  /\ attempts' = [attempts EXCEPT ![r] = @ + 1]
  /\ old' = old \ {r}
  /\ worker' = [worker EXCEPT ![w] = [pc |-> "claimed", row |-> r, retries |-> k]]
  /\ UNCHANGED <<reaper, histVars>>

\* Row sent, failed or claimed by another message: acknowledged, no retry.
Drop(w, r, k) ==
  /\ worker[w].pc = "idle"
  /\ msgs[r][k] > 0
  /\ ~Claimable(status[r])
  /\ msgs' = Taken(r, k)
  /\ UNCHANGED <<rowVars, worker, reaper, histVars>>

\* An ORM write of the row by the worker that holds it, without a fence.
Write(w, s) ==
  /\ status' = [status EXCEPT ![worker[w].row] = s]
  /\ old' = old \ {worker[w].row}
  /\ worker' = [worker EXCEPT ![w] = Idle]

\* The channel is missing or disabled.  (That attempts exceeds MaxAttempts right
\* after a claim, the other early exit here, never happens: AttemptsCapped.)
ChannelOff(w) ==
  /\ worker[w].pc = "claimed"
  /\ Write(w, "failed")
  /\ UNCHANGED <<attempts, msgs, reaper, histVars>>

\* The provider takes the message.
Accept(w) ==
  /\ worker[w].pc = "claimed"
  /\ accepted' = [accepted EXCEPT ![worker[w].row] = @ + 1]
  /\ worker' = [worker EXCEPT ![w].pc = "accepted"]
  /\ UNCHANGED <<rowVars, msgs, reaper, unconfirmed>>

\* SENT, the NotificationDelivery row and the usage counter, in one commit.
ConfirmSent(w) ==
  /\ worker[w].pc = "accepted"
  /\ Write(w, "sent")
  /\ UNCHANGED <<attempts, msgs, reaper, histVars>>

\* The provider's acceptance will not reach the row.
Forget(w) ==
  unconfirmed' = IF worker[w].pc = "accepted"
                 THEN [unconfirmed EXCEPT ![worker[w].row] = @ + 1]
                 ELSE unconfirmed

\* Faulty variant of AfterFailure: one attempt too many.
AfterFailureLate(n) == IF n > MaxAttempts THEN "failed" ELSE "pending"

AfterFailure(n) == IF n >= MaxAttempts THEN "failed" ELSE "pending"

\* The provider refuses, or the accounting of an accepted message raises: back
\* to PENDING and raise to Dramatiq, or FAILED once the attempts are used up.
DeliveryFails(w) ==
  LET r == worker[w].row
      after == AfterFailure(attempts[r])
  IN /\ worker[w].pc # "idle"
     /\ Write(w, after)
     /\ msgs' = IF after = "failed" THEN msgs ELSE Retried(r, worker[w].retries)
     /\ Forget(w)
     /\ UNCHANGED <<attempts, reaper, accepted>>

\* The worker dies, its time limit interrupts it, or a statement fails outside
\* the try: the row stays PROCESSING and the message is redelivered, retried
\* or lost.
Interrupt(w) ==
  LET r == worker[w].row
      k == worker[w].retries
  IN /\ worker[w].pc # "idle"
     /\ worker' = [worker EXCEPT ![w] = Idle]
     /\ msgs' \in Unacknowledged(r, k)
     /\ Forget(w)
     /\ UNCHANGED <<rowVars, reaper, accepted>>

-----------------------------------------------------------------------------
(* The reaper.                                                             *)

Stuck == {r \in old : status[r] \in {"processing", "pending"}}

\* Rows with no attempt left are parked; of the others, a PENDING row that was
\* attempted is left to the retry Dramatiq is taken to have scheduled.
Park == {r \in Stuck : attempts[r] >= MaxAttempts}

\* Faulty variant of Resend: only the rows of dead workers are sent again.
ResendProcessing ==
  {r \in Stuck \ Park : status[r] = "processing"}

Resend ==
  {r \in Stuck \ Park : status[r] = "processing" \/ attempts[r] = 0}

\* The rows are read without a lock.
ReapSelect(s) ==
  /\ reaper[s] = NoBatch
  /\ Park \cup Resend # {}
  /\ reaper' = [reaper EXCEPT ![s] = [park |-> Park, resend |-> Resend]]
  /\ UNCHANGED <<rowVars, msgs, worker, histVars>>

\* The parked rows become FAILED, the others get a fresh updated_at and, after
\* the commit, a message, unless the scheduler dies between two sends.
ReapCommit(s) ==
  /\ reaper[s] # NoBatch
  /\ status' = [r \in Rows |-> IF r \in reaper[s].park THEN "failed" ELSE status[r]]
  /\ old' = old \ (reaper[s].park \cup reaper[s].resend)
  /\ \E lost \in SUBSET reaper[s].resend :
       msgs' = SentAll(reaper[s].resend \ lost)
  /\ reaper' = [reaper EXCEPT ![s] = NoBatch]
  /\ UNCHANGED <<attempts, worker, histVars>>

\* A pass that re-sends row r, whose message gets through.
ReapResends(s, r) ==
  /\ r \in reaper[s].resend
  /\ ReapCommit(s)
  /\ msgs'[r][0] > 0

\* The pass fails, or nothing was re-sent: then the reaper itself does not
\* commit, and parked rows are kept only if the webhook reaper commits.
ReapRollback(s) ==
  /\ reaper[s] # NoBatch
  /\ reaper' = [reaper EXCEPT ![s] = NoBatch]
  /\ UNCHANGED <<rowVars, msgs, worker, histVars>>

-----------------------------------------------------------------------------
(* Time and the broker.                                                    *)

\* Faulty variant of Unattended: attempts outlive the reaper's cutoff.
Unlimited(r) == TRUE

\* The time limit of the actor (60 s) is far below the reaper's cutoff (600 s):
\* a row a worker is at work on is not old.
Unattended(r) == \A w \in Workers : worker[w].row # r

Age(r) ==
  /\ status[r] \in {"pending", "processing"}
  /\ Unattended(r)
  /\ r \notin old
  /\ old' = old \cup {r}
  /\ UNCHANGED <<status, attempts, msgs, worker, reaper, histVars>>

LoseMessage(r, k) ==
  /\ msgs[r][k] > 0
  /\ msgs' = Taken(r, k)
  /\ UNCHANGED <<rowVars, worker, reaper, histVars>>

-----------------------------------------------------------------------------

Finish(w) == ChannelOff(w) \/ Accept(w) \/ ConfirmSent(w) \/ DeliveryFails(w)

Next ==
  \/ \E r \in Rows : Create(r) \/ Age(r)
  \/ \E w \in Workers, r \in Rows, k \in Retries : Claim(w, r, k) \/ Drop(w, r, k)
  \/ \E w \in Workers : Finish(w) \/ Interrupt(w)
  \/ \E s \in Schedulers : ReapSelect(s) \/ ReapCommit(s) \/ ReapRollback(s)
  \/ \E r \in Rows, k \in Retries : LoseMessage(r, k)

Spec == Init /\ [][Next]_vars

\* Workers finish what they hold, time passes, and the scheduler loop, which
\* survives every exception, goes on reaping.  Strong fairness of the re-send
\* and of the claim: not every pass fails and not every message of a row is lost.
Fairness ==
  /\ \A w \in Workers : WF_vars(Finish(w))
  /\ \A r \in Rows :
       /\ WF_vars(Age(r))
       /\ SF_vars(\E w \in Workers, k \in Retries : Claim(w, r, k))
  /\ \A s \in Schedulers :
       /\ WF_vars(ReapSelect(s))
       /\ WF_vars(ReapCommit(s) \/ ReapRollback(s))
       /\ \A r \in Rows : SF_vars(ReapResends(s, r))

FairSpec == Spec /\ Fairness

-----------------------------------------------------------------------------
(* Correctness.                                                            *)

\* Redelivery, retries and re-sent messages never put two workers on one row:
\* the claim keeps every other message out until the holder has written the
\* row back.
OneDeliverer ==
  \A w, v \in Workers :
    worker[w].pc # "idle" /\ worker[w].row = worker[v].row => w = v

\* A provider accepts a message again only after an acceptance that could not
\* be recorded: duplicates, retries and the reaper alone never send it twice
\* (the "no double-sends" of the delivery claim).
NoNeedlessResend == \A r \in Rows : accepted[r] <= 1 + unconfirmed[r]

\* The attempts of a row never exceed the ceiling, over all retries of all its
\* messages, so the branch that fails a row right after the claim is dead code.
AttemptsCapped == \A r \in Rows : attempts[r] <= MaxAttempts

\* A row that is SENT or FAILED stays so: neither a late worker nor the unlocked
\* reads of the reaper overwrite it.
SettledStays ==
  [][\A r \in Rows : status[r] \in {"sent", "failed"} => status'[r] = status[r]]_vars

\* Seen by the producer, the table is a queue with one attempt at a time.
Phase == [r \in Rows |-> CASE status[r] = "none" -> "absent"
                           [] status[r] = "pending" -> "waiting"
                           [] status[r] = "processing" -> "trying"
                           [] OTHER -> status[r]]

Contract == INSTANCE DeliveryContract
  WITH Messages <- Rows, Budget <- MaxAttempts, tries <- attempts, state <- Phase

ImplementsContract == Contract!Spec

\* A committed row is attempted at least once, though its first message was
\* never sent or is lost (the reaper's case "attempt count 0").
EventuallyAttempted ==
  \A r \in Rows : status[r] = "pending" /\ attempts[r] = 0 ~> attempts[r] > 0

\* Claims of the documentation that the code does not keep.

\* "This reaper re-enqueues such rows": a row whose worker died while delivering
\* it is taken out of PROCESSING again.
DeadAttemptRecovered ==
  \A r \in Rows : status[r] = "processing" ~> status[r] # "processing"

\* "after the attempt budget is exhausted they become terminal FAILED": a row
\* that was attempted is not PENDING for ever.
FailedAttemptSettles ==
  \A r \in Rows :
    status[r] = "pending" /\ attempts[r] > 0 ~> status[r] # "pending"

=============================================================================
