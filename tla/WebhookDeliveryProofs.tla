------------------------ MODULE WebhookDeliveryProofs ------------------------
(***************************************************************************)
(* Proofs about WebhookDelivery, for any rows, workers and callers and any *)
(* bounds.  The safety theorems assume one scheduler, as the properties    *)
(* say: with two reapers, or after a manual retry, they do not hold.  The  *)
(* refinement also needs endpoints that stay on.                           *)
(***************************************************************************)
EXTENDS WebhookDelivery, DramatiqProofs

-----------------------------------------------------------------------------
(* The inductive invariant.                                                *)

\* Who is busy has a row.
Held ==
  /\ \A w \in Workers : worker[w].pc # "idle" => worker[w].row \in Rows
  /\ \A c \in Callers : caller[c].pc = "loaded" => caller[c].row \in Rows

Free(r) == \A w \in Workers : Delivering(w) => worker[w].row # r

\* The row of a delivering worker is out of reach of every claim and of the reaper;
\* only a worker that found the endpoint off may have failed it meanwhile.
Guarded ==
  \A w \in Workers : Delivering(w) =>
    /\ status[worker[w].row] \in {"processing", "failed"}
    /\ worker[w].row \notin old

\* What a worker loaded after its claim is what it decides on.
Fresh ==
  \A w \in Workers : worker[w].pc \in {"sending", "accepted"} =>
    /\ worker[w].seen \in {"processing", "failed"}
    /\ worker[w].tries = attempts[worker[w].row]

\* The rows a reaper has read stay out of PENDING until it writes them.
Batched ==
  \A s \in Schedulers :
    /\ \A r \in reaper[s].fail \cup reaper[s].resend :
         status[r] \in {"processing", "failed"} /\ Free(r)
    /\ \A r \in reaper[s].resend :
         attempts[r] < MaxAttempts /\ accepted[r] <= unconfirmed[r]

Budgeted ==
  \A r \in Rows :
    /\ attempts[r] <= MaxAttempts
    /\ status[r] = "pending" => attempts[r] < MaxAttempts
    /\ status[r] = "none" => attempts[r] = 0

Accounted ==
  \A r \in Rows :
    /\ accepted[r] <= unconfirmed[r] + 1
    /\ status[r] \in {"none", "pending"} => accepted[r] <= unconfirmed[r]
    /\ status[r] = "processing" /\ Free(r) => accepted[r] <= unconfirmed[r]

HeldAccounted ==
  \A w \in Workers : worker[w].pc \in {"claimed", "sending"} =>
    accepted[worker[w].row] <= unconfirmed[worker[w].row]

Single ==
  \A w, v \in Workers :
    Delivering(w) /\ Delivering(v) /\ worker[w].row = worker[v].row => w = v

Rest ==
  /\ Guarded /\ Fresh /\ Batched /\ Budgeted /\ Accounted /\ HeldAccounted /\ Single

IInv == TypeOK /\ Held /\ (NoManualRetry => Rest)

OneScheduler == \A s, t \in Schedulers : s = t

-----------------------------------------------------------------------------
(* Types.                                                                  *)

WorkerState ==
  [pc : {"idle", "loaded", "off", "claimed", "sending", "accepted", "written"},
   row : Rows \cup {NoRow}, retries : Retries, seen : Statuses, tries : Nat]

CallerState ==
  [pc : {"ready", "loaded", "done"}, row : Rows \cup {NoRow}, seen : Statuses,
   tries : Nat]

\* The records the processes start from have their types.
LEMMA Records ==
  /\ Idle \in WorkerState /\ Ready \in CallerState
  /\ [Ready EXCEPT !.pc = "done"] \in CallerState
  /\ NoBatch \in [fail : SUBSET Rows, resend : SUBSET Rows]
  /\ NoMessages \in [Rows -> [Retries -> 0..MaxCopies]]
BY BrokerAssumption
DEF Idle, Ready, NoBatch, WorkerState, CallerState, Retries, Statuses, NoMessages

\* A worker's write of its row gives it a status, and its outcome one of three.
LEMMA WriteType ==
  ASSUME TypeOK, NEW w \in Workers, worker[w].row \in Rows,
         NEW s \in {"pending", "sent", "failed"}, Write(w, s)
  PROVE  status' \in [Rows -> Statuses] /\ old' \subseteq Rows
BY DEF TypeOK, Write, Statuses

LEMMA TypeInit == Init => TypeOK /\ Held
<1> SUFFICES ASSUME Init PROVE TypeOK /\ Held
  OBVIOUS
<1>1. /\ worker \in [Workers -> WorkerState] /\ caller \in [Callers -> CallerState]
      /\ reaper \in [Schedulers -> [fail : SUBSET Rows, resend : SUBSET Rows]]
      /\ msgs \in [Rows -> [Retries -> 0..MaxCopies]]
  BY Records DEF Init
<1>2. /\ status \in [Rows -> Statuses] /\ attempts \in [Rows -> Nat]
      /\ old \subseteq Rows
      /\ accepted \in [Rows -> Nat] /\ unconfirmed \in [Rows -> Nat]
  BY DEF Init, Statuses
<1>3. Held
  BY DEF Init, Held, Idle, Ready
<1> QED
  BY <1>1, <1>2, <1>3 DEF TypeOK, WorkerState, CallerState

\* The steps of a busy worker keep the types.
LEMMA WorkerType ==
  ASSUME TypeOK, Held, NEW w \in Workers, Progress(w) \/ Interrupt(w)
  PROVE  TypeOK' /\ Held'
<1> DEFINE r == worker[w].row
<1>1. worker[w].pc # "idle"
  BY DEF Progress, FailOff, Claim, LoseClaim, Refresh, Refuse, Accept, ConfirmSent,
         RequestFails, RaiseOrEnd, Interrupt
<1>2. r \in Rows /\ worker[w].retries \in Retries /\ worker[w] \in WorkerState
  BY <1>1 DEF Held, TypeOK, WorkerState
<1>3. UNCHANGED <<reaper, caller>>
  BY DEF Progress, FailOff, Claim, LoseClaim, Refresh, Refuse, Accept, ConfirmSent,
         RequestFails, RaiseOrEnd, Interrupt
<1>4. PICK to \in WorkerState :
        worker' = [worker EXCEPT ![w] = to] /\ (to.pc # "idle" => to.row \in Rows)
  <2>1. CASE Release(w)
    <3>1. worker' = [worker EXCEPT ![w] = Idle]
      BY <2>1 DEF Release
    <3>2. Idle \in WorkerState /\ Idle.pc = "idle"
      BY Records DEF Idle
    <3> QED
      BY <3>1, <3>2
  <2>2. CASE Refresh(w)
    <3>1. [worker[w] EXCEPT !.pc = "sending", !.seen = status[r], !.tries = attempts[r]]
            \in WorkerState
      BY <1>2 DEF WorkerState, TypeOK
    <3>2. worker' = [worker EXCEPT ![w] =
            [worker[w] EXCEPT !.pc = "sending", !.seen = status[r], !.tries = attempts[r]]]
      BY <2>2 DEF Refresh
    <3>3. r \in Rows
      BY <1>2
    <3> QED
      BY <1>2, <3>1, <3>2, <3>3 DEF WorkerState
  <2>3. CASE Claim(w) \/ Accept(w) \/ RequestFails(w)
    <3>1. PICK pc \in {"claimed", "accepted", "written"} :
            worker' = [worker EXCEPT ![w].pc = pc]
      BY <2>3 DEF Claim, Accept, RequestFails
    <3>2. [worker[w] EXCEPT !.pc = pc] \in WorkerState
      BY <1>2 DEF WorkerState
    <3> QED
      BY <1>2, <3>1, <3>2 DEF WorkerState
  <2> QED
    BY <2>1, <2>2, <2>3
    DEF Progress, FailOff, LoseClaim, Refuse, ConfirmSent, RaiseOrEnd, Interrupt
<1>5. worker' \in [Workers -> WorkerState] /\ Held'
  BY <1>3, <1>4 DEF Held, TypeOK, WorkerState
<1>6. status' \in [Rows -> Statuses] /\ old' \subseteq Rows
  <2>1. CASE \E s \in {"pending", "sent", "failed"} : Write(w, s)
    BY <1>2, <2>1, WriteType
  <2>2. CASE Claim(w)
    BY <1>2, <2>2 DEF Claim, TypeOK, Statuses
  <2>3. CASE UNCHANGED rowVars
    BY <2>3 DEF rowVars, TypeOK
  <2>4. \A n : AfterFailure(n) \in {"pending", "sent", "failed"}
    BY DEF AfterFailure
  <2> QED
    BY <2>1, <2>2, <2>3, <2>4
    DEF Progress, FailOff, LoseClaim, Refresh, Refuse, Accept, ConfirmSent,
        RequestFails, RaiseOrEnd, Interrupt
<1>7. msgs' \in [Rows -> [Retries -> 0..MaxCopies]]
  <2>1. msgs' \in {msgs, Retried(r, worker[w].retries)}
           \cup Unacknowledged(r, worker[w].retries)
    BY DEF Progress, FailOff, Claim, LoseClaim, Refresh, Refuse, Accept, ConfirmSent,
           RequestFails, RaiseOrEnd, Interrupt
  <2>2. msgs \in [Rows -> [Retries -> 0..MaxCopies]]
    BY DEF TypeOK
  <2> QED
    BY <1>2, <2>1, <2>2, Messages
<1>8. attempts' \in [Rows -> Nat]
  <2>1. attempts' \in {attempts, [attempts EXCEPT ![r] = @ + 1]}
    BY DEF Progress, FailOff, Claim, LoseClaim, Refresh, Refuse, Accept, ConfirmSent,
           RequestFails, RaiseOrEnd, Interrupt, rowVars
  <2> QED
    BY <1>2, <2>1 DEF TypeOK
<1>9. accepted' \in [Rows -> Nat]
  <2>1. accepted' \in {accepted, [accepted EXCEPT ![r] = @ + 1]}
    BY DEF Progress, FailOff, Claim, LoseClaim, Refresh, Refuse, Accept, ConfirmSent,
           RequestFails, RaiseOrEnd, Interrupt, histVars
  <2> QED
    BY <1>2, <2>1 DEF TypeOK
<1>10. unconfirmed' \in [Rows -> Nat]
  <2>1. unconfirmed' \in {unconfirmed, [unconfirmed EXCEPT ![r] = @ + 1]}
    BY DEF Progress, FailOff, Claim, LoseClaim, Refresh, Refuse, Accept, ConfirmSent,
           RequestFails, RaiseOrEnd, Interrupt, Forget, histVars
  <2> QED
    BY <1>2, <2>1 DEF TypeOK
<1> QED
  BY <1>3, <1>5, <1>6, <1>7, <1>8, <1>9, <1>10 DEF TypeOK, WorkerState

\* Every step keeps the types.
LEMMA TypeStep == TypeOK /\ Held /\ [Next]_vars => TypeOK' /\ Held'
<1> SUFFICES ASSUME TypeOK, Held, [Next]_vars PROVE TypeOK' /\ Held'
  OBVIOUS
<1> USE DEF rowVars, histVars
<1>0. msgs \in [Rows -> [Retries -> 0..MaxCopies]] /\ 0 \in Retries
  BY BrokerAssumption DEF TypeOK, Retries
<1>1. ASSUME NEW r \in Rows, Create(r) PROVE TypeOK' /\ Held'
  <2>1. msgs' \in [Rows -> [Retries -> 0..MaxCopies]]
    BY <1>0, <1>1, Messages DEF Create
  <2> QED
    BY <1>1, <2>1 DEF Create, TypeOK, Held, Statuses
<1>2. ASSUME NEW r \in Rows, Age(r) PROVE TypeOK' /\ Held'
  BY <1>2 DEF Age, TypeOK, Held
<1>3. ASSUME NEW w \in Workers, NEW r \in Rows, NEW k \in Retries, Drop(w, r, k)
      PROVE  TypeOK' /\ Held'
  <2>1. msgs' \in [Rows -> [Retries -> 0..MaxCopies]]
    BY <1>0, <1>3, Messages DEF Drop
  <2> QED
    BY <1>3, <2>1 DEF Drop, TypeOK, Held
<1>4. ASSUME NEW w \in Workers, NEW r \in Rows, NEW k \in Retries, Load(w, r, k)
      PROVE  TypeOK' /\ Held'
  <2>1. msgs' \in [Rows -> [Retries -> 0..MaxCopies]]
    BY <1>0, <1>4, Messages DEF Load
  <2>2. PICK pc \in {"loaded", "off"} :
          worker' = [worker EXCEPT ![w] =
            [pc |-> pc, row |-> r, retries |-> k, seen |-> status[r], tries |-> attempts[r]]]
    BY <1>4 DEF Load
  <2>3. worker' \in [Workers -> WorkerState]
    BY <2>2 DEF TypeOK, WorkerState
  <2> QED
    BY <1>4, <2>1, <2>2, <2>3 DEF Load, TypeOK, Held, WorkerState
<1>5. ASSUME NEW w \in Workers, Progress(w) \/ Interrupt(w) PROVE TypeOK' /\ Held'
  BY <1>5, WorkerType
<1>6. ASSUME NEW s \in Schedulers, ReapSelect(s) \/ ReapRollback(s)
      PROVE  TypeOK' /\ Held'
  <2>1. [fail |-> Exhausted, resend |-> Stuck \ Exhausted]
          \in [fail : SUBSET Rows, resend : SUBSET Rows]
    BY DEF Exhausted, Stuck, TypeOK
  <2>2. reaper' \in [Schedulers -> [fail : SUBSET Rows, resend : SUBSET Rows]]
    BY <1>6, <2>1, Records DEF ReapSelect, ReapRollback, TypeOK
  <2> QED
    BY <1>6, <2>2 DEF ReapSelect, ReapRollback, TypeOK, Held
<1>7. ASSUME NEW s \in Schedulers, ReapCommit(s) PROVE TypeOK' /\ Held'
  <2>1. PICK S : msgs' = SentAll(S)
    BY <1>7 DEF ReapCommit
  <2>2. msgs' \in [Rows -> [Retries -> 0..MaxCopies]]
    BY <1>0, <2>1, MessagesOfAll
  <2>3. reaper' \in [Schedulers -> [fail : SUBSET Rows, resend : SUBSET Rows]]
    BY <1>7, Records DEF ReapCommit, TypeOK
  <2>4. \A r \in Rows : AfterReap(s, r) \in Statuses
    BY DEF AfterReap, TypeOK, Statuses
  <2>5. status' \in [Rows -> Statuses]
    BY <1>7, <2>4 DEF ReapCommit
  <2> QED
    BY <1>7, <2>2, <2>3, <2>5 DEF ReapCommit, TypeOK, Held
<1>8. ASSUME NEW c \in Callers, RetryCommit(c) PROVE TypeOK' /\ Held'
  <2>1. caller[c].row \in Rows
    BY <1>8 DEF RetryCommit, Held
  <2>2. msgs' \in [Rows -> [Retries -> 0..MaxCopies]]
    BY <1>0, <1>8, <2>1, Messages DEF RetryCommit
  <2>3. caller' \in [Callers -> CallerState]
    BY <1>8, Records DEF RetryCommit, TypeOK, CallerState
  <2>4. status' \in [Rows -> Statuses] /\ attempts' \in [Rows -> Nat] /\ old' \subseteq Rows
    BY <1>8, <2>1 DEF RetryCommit, TypeOK, Statuses
  <2>5. Held'
    BY <1>8 DEF RetryCommit, Held, TypeOK, Ready
  <2> QED
    BY <1>8, <2>2, <2>3, <2>4, <2>5 DEF RetryCommit, TypeOK, CallerState
<1>9. ASSUME NEW c \in Callers, NEW r \in Rows, RetryLoad(c, r) PROVE TypeOK' /\ Held'
  <2>1. caller' \in [Callers -> CallerState]
    BY <1>9 DEF RetryLoad, TypeOK, CallerState
  <2>2. Held'
    BY <1>9 DEF RetryLoad, Held, TypeOK
  <2> QED
    BY <1>9, <2>1, <2>2 DEF RetryLoad, TypeOK, CallerState
<1>10. ASSUME NEW r \in Rows, NEW k \in Retries, LoseMessage(r, k) PROVE TypeOK' /\ Held'
  <2>1. msgs' \in [Rows -> [Retries -> 0..MaxCopies]]
    BY <1>0, <1>10, Messages DEF LoseMessage
  <2> QED
    BY <1>10, <2>1 DEF LoseMessage, TypeOK, Held
<1>11. ASSUME UNCHANGED vars PROVE TypeOK' /\ Held'
  BY <1>11 DEF vars, TypeOK, Held
<1> QED
  BY <1>1, <1>2, <1>3, <1>4, <1>5, <1>6, <1>7, <1>8, <1>9, <1>10, <1>11 DEF Next

-----------------------------------------------------------------------------
(* Steps of one reaper, and none after a manual retry, keep the rest.      *)

LEMMA RestInit == Init => Rest
<1> SUFFICES ASSUME Init PROVE Rest
  OBVIOUS
<1>1. \A w \in Workers : ~Delivering(w)
  BY DEF Init, Idle, Delivering
<1>2. \A s \in Schedulers : reaper[s].fail = {} /\ reaper[s].resend = {}
  BY DEF Init, NoBatch
<1>3. Guarded /\ Batched /\ Single
  BY <1>1, <1>2 DEF Guarded, Batched, Single
<1>4. Fresh /\ HeldAccounted
  BY DEF Init, Idle, Fresh, HeldAccounted
<1>5. Budgeted /\ Accounted
  BY WebhookAssumption DEF Init, Budgeted, Accounted
<1> QED
  BY <1>3, <1>4, <1>5 DEF Rest

\* Steps that touch no delivering worker, count nothing, at most fail a row or create
\* one, and make no row old that is being delivered.
LEMMA Quiet ==
  ASSUME TypeOK, Held, Rest,
         UNCHANGED <<attempts, accepted, unconfirmed>>,
         \A r \in Rows :
           \/ status'[r] = status[r]
           \/ status[r] = "none" /\ status'[r] = "pending"
           \/ status'[r] = "failed",
         \A w \in Workers :
           \/ worker'[w] = worker[w]
           \/ worker[w].pc \in {"idle", "loaded", "off", "written"}
                /\ worker'[w].pc \in {"idle", "loaded", "off", "written"},
         \A r \in old' : r \in old \/ Free(r),
         \A s \in Schedulers : reaper'[s] \in {reaper[s], NoBatch}
  PROVE  Rest'
<1>1. \A w \in Workers : Delivering(w)' <=> Delivering(w)
  BY DEF Delivering
<1>2. \A w \in Workers :
         /\ Delivering(w) => worker'[w] = worker[w] /\ worker[w].row \in Rows
         /\ worker'[w].pc \in {"claimed", "sending", "accepted"} => Delivering(w)
  BY DEF Delivering, Held
<1>3. \A r : Free(r)' <=> Free(r)
  BY <1>1, <1>2 DEF Free
<1>4. Guarded'
  <2> SUFFICES ASSUME NEW w \in Workers, Delivering(w)
               PROVE  /\ status'[worker[w].row] \in {"processing", "failed"}
                      /\ worker[w].row \notin old'
    BY <1>1, <1>2 DEF Guarded
  <2>1. /\ status[worker[w].row] \in {"processing", "failed"} /\ worker[w].row \notin old
        /\ worker[w].row \in Rows /\ ~Free(worker[w].row)
    BY <1>2 DEF Rest, Guarded, Free
  <2> QED
    BY <2>1
<1>5. Fresh' /\ HeldAccounted' /\ Single'
  BY <1>1, <1>2 DEF Rest, Fresh, HeldAccounted, Single, Delivering
<1>6. Batched'
  <2>1. \A s \in Schedulers : reaper[s].fail \subseteq Rows /\ reaper[s].resend \subseteq Rows
    BY DEF TypeOK
  <2>2. \A s \in Schedulers : /\ reaper'[s].fail \subseteq reaper[s].fail
                              /\ reaper'[s].resend \subseteq reaper[s].resend
    BY DEF NoBatch
  <2> QED
    BY <1>3, <2>1, <2>2 DEF Rest, Batched
<1>7. Budgeted'
  BY WebhookAssumption DEF Rest, Budgeted
<1>8. Accounted'
  BY <1>3 DEF Rest, Accounted
<1> QED
  BY <1>4, <1>5, <1>6, <1>7, <1>8 DEF Rest

\* The claim: of a row in PENDING, which nobody delivers and no reaper has read.
LEMMA ClaimRest ==
  ASSUME TypeOK, Held, Rest, NEW w \in Workers, Claim(w)
  PROVE  Rest'
<1> DEFINE r == worker[w].row
<1>1. r \in Rows /\ status[r] = "pending" /\ worker[w].pc = "loaded"
  BY DEF Claim, Claimable, Held
<1>2. /\ status'[r] = "processing" /\ attempts'[r] = attempts[r] + 1
      /\ \A q \in Rows : q # r => status'[q] = status[q] /\ attempts'[q] = attempts[q]
      /\ worker'[w].pc = "claimed" /\ worker'[w].row = r
      /\ \A v \in Workers : v # w => worker'[v] = worker[v]
      /\ old' = old \ {r} /\ UNCHANGED <<reaper, accepted, unconfirmed>>
  BY <1>1 DEF Claim, TypeOK, histVars
<1> HIDE DEF r
<1>3. /\ ~Delivering(w) /\ Delivering(w)'
      /\ \A v \in Workers : v # w => (Delivering(v)' <=> Delivering(v))
  BY <1>1, <1>2 DEF Delivering
<1>4. \A v \in Workers : Delivering(v) =>
         worker[v].row \in Rows /\ worker[v].row # r /\ v # w
  BY <1>1, <1>3 DEF Rest, Guarded, Held, Delivering
<1>5. \A q \in Rows : q # r => (Free(q)' <=> Free(q))
  BY <1>2, <1>3 DEF Free
<1>6. \A s \in Schedulers : r \notin reaper[s].fail \cup reaper[s].resend
  BY <1>1 DEF Rest, Batched
<1>7. Guarded' /\ Single'
  BY <1>2, <1>3, <1>4 DEF Rest, Guarded, Single
<1>8. attempts[r] < MaxAttempts /\ attempts[r] \in Nat /\ accepted[r] <= unconfirmed[r]
  BY <1>1 DEF Rest, Budgeted, Accounted, TypeOK
<1>9. Fresh' /\ HeldAccounted'
  <2>1. \A v \in Workers : worker[v].pc \in {"claimed", "sending", "accepted"} => Delivering(v)
    BY DEF Delivering
  <2> QED
    BY <1>2, <1>4, <1>8, <2>1 DEF Rest, Fresh, HeldAccounted
<1>10. Batched'
  <2>1. \A s \in Schedulers : reaper[s].fail \subseteq Rows /\ reaper[s].resend \subseteq Rows
    BY DEF TypeOK
  <2> QED
    BY <1>2, <1>5, <1>6, <2>1 DEF Rest, Batched
<1>11. Budgeted'
  BY <1>1, <1>2, <1>8, WebhookAssumption DEF Rest, Budgeted
<1>12. Accounted'
  <2>1. accepted[r] <= unconfirmed[r] + 1
    BY <1>1 DEF Rest, Accounted
  <2> QED
    BY <1>2, <1>5, <1>8, <2>1 DEF Rest, Accounted
<1> QED
  BY <1>7, <1>9, <1>10, <1>11, <1>12 DEF Rest

\* db.refresh: the columns the rest of the delivery decides on.
LEMMA RefreshRest ==
  ASSUME TypeOK, Held, Rest, NEW w \in Workers, Refresh(w)
  PROVE  Rest'
<1>1. /\ worker'[w].pc = "sending" /\ worker'[w].row = worker[w].row
      /\ worker'[w].seen = status[worker[w].row] /\ worker'[w].tries = attempts[worker[w].row]
      /\ worker[w].pc = "claimed" /\ \A v \in Workers : v # w => worker'[v] = worker[v]
  BY DEF Refresh, TypeOK
<1>2. UNCHANGED <<status, attempts, old, reaper, accepted, unconfirmed>>
  BY DEF Refresh, rowVars, histVars
<1>3. \A v \in Workers : (Delivering(v)' <=> Delivering(v)) /\ worker'[v].row = worker[v].row
  BY <1>1 DEF Delivering
<1>4. \A r : Free(r)' <=> Free(r)
  BY <1>3 DEF Free
<1>5. Guarded' /\ Single' /\ Batched' /\ Budgeted' /\ Accounted'
  BY <1>2, <1>3, <1>4 DEF Rest, Guarded, Single, Batched, Budgeted, Accounted
<1>6. Fresh'
  BY <1>1, <1>2 DEF Rest, Fresh, Guarded, Delivering
<1>7. HeldAccounted'
  BY <1>1, <1>2 DEF Rest, HeldAccounted
<1> QED
  BY <1>5, <1>6, <1>7 DEF Rest

\* The endpoint takes the request: the one acceptance a row may have unconfirmed.
LEMMA AcceptRest ==
  ASSUME TypeOK, Held, Rest, NEW w \in Workers, Accept(w)
  PROVE  Rest'
<1> DEFINE r == worker[w].row
<1>1. r \in Rows /\ worker[w].pc = "sending" /\ Delivering(w)
  BY DEF Accept, Held, Delivering
<1>2. /\ worker'[w].pc = "accepted" /\ worker'[w].row = r
      /\ worker'[w].seen = worker[w].seen /\ worker'[w].tries = worker[w].tries
      /\ \A v \in Workers : v # w => worker'[v] = worker[v]
  BY DEF Accept, TypeOK
<1>3. /\ accepted'[r] = accepted[r] + 1 /\ accepted[r] \in Nat /\ unconfirmed[r] \in Nat
      /\ \A q \in Rows : q # r => accepted'[q] = accepted[q]
      /\ UNCHANGED <<status, attempts, old, reaper, unconfirmed>>
  BY <1>1 DEF Accept, TypeOK, rowVars
<1>4. accepted[r] <= unconfirmed[r] /\ status[r] \in {"processing", "failed"}
  BY <1>1 DEF Rest, HeldAccounted, Guarded
<1> HIDE DEF r
<1>5. \A v \in Workers : (Delivering(v)' <=> Delivering(v)) /\ worker'[v].row = worker[v].row
  BY <1>1, <1>2 DEF Delivering, r
<1>6. \A q : Free(q)' <=> Free(q)
  BY <1>5 DEF Free
<1>7. ~Free(r)
  BY <1>1 DEF Free, r
<1>8. Guarded' /\ Single' /\ Budgeted'
  BY <1>3, <1>5 DEF Rest, Guarded, Single, Budgeted
<1>9. Batched'
  <2>1. \A s \in Schedulers : r \notin reaper[s].resend /\ reaper[s].resend \subseteq Rows
    BY <1>7 DEF Rest, Batched, TypeOK
  <2> QED
    BY <1>3, <1>6, <2>1 DEF Rest, Batched
<1>10. Accounted'
  BY <1>3, <1>4, <1>6, <1>7 DEF Rest, Accounted
<1>11. Fresh'
  BY <1>1, <1>2, <1>3 DEF Rest, Fresh, r
<1>12. HeldAccounted'
  <2>1. \A v \in Workers : v # w /\ worker[v].pc \in {"claimed", "sending"} =>
           worker[v].row \in Rows /\ worker[v].row # r
    BY <1>1 DEF Rest, Single, Delivering, Held, r
  <2> QED
    BY <1>2, <1>3, <2>1 DEF Rest, HeldAccounted
<1> QED
  BY <1>8, <1>9, <1>10, <1>11, <1>12 DEF Rest

\* A delivering worker lets go of its row: PENDING only with attempts left, SENT only
\* by an acceptance, else every acceptance is counted as unconfirmed.
LEMMA LetGo ==
  ASSUME TypeOK, Held, Rest, NEW w \in Workers, Delivering(w),
         worker'[w].pc \in {"idle", "written"},
         \A v \in Workers : v # w => worker'[v] = worker[v],
         \A q \in Rows : q # worker[w].row =>
           status'[q] = status[q] /\ unconfirmed'[q] = unconfirmed[q],
         status'[worker[w].row] \in {"pending", "processing", "sent", "failed"},
         status'[worker[w].row] = "pending" => attempts[worker[w].row] < MaxAttempts,
         status'[worker[w].row] # "sent"
           => accepted[worker[w].row] <= unconfirmed'[worker[w].row],
         accepted[worker[w].row] <= unconfirmed'[worker[w].row] + 1,
         old' \subseteq old,
         UNCHANGED <<attempts, reaper, accepted>>
  PROVE  Rest'
<1> DEFINE r == worker[w].row
<1>1. r \in Rows /\ ~Free(r)
  BY DEF Held, Delivering, Free
<1>2. worker'[w].pc \in {"idle", "written"} /\ \A v \in Workers : v # w => worker'[v] = worker[v]
  OBVIOUS
<1>3. \A v \in Workers : Delivering(v)' <=> Delivering(v) /\ v # w
  BY <1>2 DEF Delivering
<1>4. \A v \in Workers : Delivering(v) /\ v # w => worker[v].row \in Rows /\ worker[v].row # r
  BY DEF Rest, Single, Held, Delivering
<1>5. /\ \A q \in Rows : q # r => status'[q] = status[q] /\ unconfirmed'[q] = unconfirmed[q]
      /\ status'[r] = "pending" => attempts[r] < MaxAttempts
      /\ status'[r] # "sent" => accepted[r] <= unconfirmed'[r]
      /\ accepted[r] <= unconfirmed'[r] + 1
      /\ status'[r] # "none"
  OBVIOUS
<1>6. \A q : Free(q) => Free(q)'
  BY <1>2, <1>3 DEF Free
<1>7. \A q : q # r /\ Free(q)' => Free(q)
  BY <1>2, <1>3 DEF Free
<1> HIDE DEF r
<1>8. Guarded' /\ Single'
  BY <1>2, <1>3, <1>4, <1>5 DEF Rest, Guarded, Single
<1>9. Fresh' /\ HeldAccounted'
  <2>1. \A v \in Workers : worker'[v].pc \in {"claimed", "sending", "accepted"} =>
           v # w /\ worker'[v] = worker[v] /\ Delivering(v)
    BY <1>2 DEF Delivering
  <2> QED
    BY <1>4, <1>5, <2>1 DEF Rest, Fresh, HeldAccounted
<1>10. Batched'
  <2>1. \A s \in Schedulers : \A q \in reaper[s].fail \cup reaper[s].resend : q \in Rows /\ q # r
    BY <1>1 DEF Rest, Batched, TypeOK
  <2> QED
    BY <1>5, <1>6, <2>1 DEF Rest, Batched
<1>11. Budgeted'
  BY <1>5 DEF Rest, Budgeted
<1>12. Accounted'
  BY <1>5, <1>7 DEF Rest, Accounted
<1> QED
  BY <1>8, <1>9, <1>10, <1>11, <1>12 DEF Rest

\* The outcomes of a delivery let go of the row as LetGo asks.
LEMMA OutcomeRest ==
  ASSUME TypeOK, Held, Rest, NEW w \in Workers, Delivering(w),
         Refuse(w) \/ ConfirmSent(w) \/ RequestFails(w) \/ Interrupt(w)
  PROVE  Rest'
<1> DEFINE r == worker[w].row
<1>1. /\ r \in Rows /\ status[r] \in {"processing", "failed"}
      /\ accepted[r] \in Nat /\ unconfirmed[r] \in Nat /\ attempts[r] \in Nat
  BY DEF Held, Delivering, Rest, Guarded, TypeOK
<1>2. /\ accepted[r] <= unconfirmed[r] + 1
      /\ worker[w].pc # "accepted" => accepted[r] <= unconfirmed[r]
  BY <1>1 DEF Rest, Accounted, HeldAccounted, Delivering
<1>3. CASE Refuse(w) \/ ConfirmSent(w)
  <2>1. PICK s \in {"failed", "sent"} :
          Write(w, s) /\ (s = "failed" => worker[w].pc = "sending")
    BY <1>3 DEF Refuse, ConfirmSent
  <2>2. /\ worker[w].seen \in {"processing", "failed"}
        /\ worker'[w].pc = "idle" /\ \A v \in Workers : v # w => worker'[v] = worker[v]
        /\ UNCHANGED <<attempts, reaper, accepted, unconfirmed>>
    BY <1>3 DEF Refuse, ConfirmSent, Release, Rest, Fresh, histVars, Idle, TypeOK
  <2>3. /\ status'[r] \in {"processing", "failed", "sent"}
        /\ status'[r] # "sent" => s = "failed"
        /\ \A q \in Rows : q # r => status'[q] = status[q]
        /\ old' \subseteq old
    BY <1>1, <2>1, <2>2 DEF Write, TypeOK
  <2> QED
    BY <1>1, <1>2, <2>1, <2>2, <2>3, LetGo
<1>4. ASSUME Forget(w)
      PROVE  /\ accepted[r] <= unconfirmed'[r] /\ accepted[r] <= unconfirmed'[r] + 1
             /\ \A q \in Rows : q # r => unconfirmed'[q] = unconfirmed[q]
  <2>1. unconfirmed'[r] = unconfirmed[r] + (IF worker[w].pc = "accepted" THEN 1 ELSE 0)
    BY <1>1, <1>4 DEF Forget, TypeOK
  <2>2. \A q \in Rows : q # r => unconfirmed'[q] = unconfirmed[q]
    BY <1>4 DEF Forget, TypeOK
  <2> QED
    BY <1>1, <1>2, <2>1, <2>2
<1>5. CASE RequestFails(w)
  <2>1. /\ Write(w, AfterFailure(attempts[r])) /\ Forget(w)
        /\ worker'[w].pc = "written" /\ \A v \in Workers : v # w => worker'[v] = worker[v]
        /\ UNCHANGED <<attempts, reaper, accepted>>
    BY <1>5 DEF RequestFails, Rest, Fresh, TypeOK
  <2>2. /\ status'[r] \in {"pending", "processing", "failed"}
        /\ status'[r] = "pending" => attempts[r] < MaxAttempts
        /\ \A q \in Rows : q # r => status'[q] = status[q]
        /\ old' \subseteq old
    BY <1>1, <2>1 DEF Write, AfterFailure, TypeOK
  <2> QED
    BY <1>1, <1>4, <2>1, <2>2, LetGo
<1>6. CASE Interrupt(w)
  <2>1. /\ worker'[w].pc = "idle" /\ \A v \in Workers : v # w => worker'[v] = worker[v]
        /\ Forget(w) /\ UNCHANGED <<status, old, attempts, reaper, accepted>>
    BY <1>6 DEF Interrupt, Release, rowVars, Idle, TypeOK
  <2> QED
    BY <1>1, <1>4, <2>1, LetGo
<1> QED
  BY <1>3, <1>5, <1>6

\* The reaper reads rows that have been PROCESSING for too long: nobody's.
LEMMA ReapSelectRest ==
  ASSUME TypeOK, Rest, NEW s \in Schedulers, ReapSelect(s)
  PROVE  Rest'
<1>1. UNCHANGED <<status, attempts, old, worker, accepted, unconfirmed>>
  BY DEF ReapSelect, rowVars, histVars
<1>2. /\ reaper'[s].fail = Exhausted /\ reaper'[s].resend = Stuck \ Exhausted
      /\ \A t \in Schedulers : t # s => reaper'[t] = reaper[t]
  BY DEF ReapSelect, TypeOK
<1>3. \A r : Free(r)' <=> Free(r)
  BY <1>1 DEF Free, Delivering
<1>4. ASSUME NEW r \in Stuck
      PROVE  /\ r \in Rows /\ status[r] = "processing" /\ Free(r)
             /\ accepted[r] <= unconfirmed[r] /\ attempts[r] \in Nat
  <2>1. r \in Rows /\ r \in old /\ status[r] = "processing"
    BY DEF Stuck, TypeOK
  <2>2. Free(r)
    BY <2>1 DEF Rest, Guarded, Free
  <2> QED
    BY <2>1, <2>2 DEF Rest, Accounted, TypeOK
<1>5. Batched'
  <2> SUFFICES ASSUME NEW t \in Schedulers
               PROVE  /\ \A r \in reaper'[t].fail \cup reaper'[t].resend :
                           status[r] \in {"processing", "failed"} /\ Free(r)
                      /\ \A r \in reaper'[t].resend :
                           attempts[r] < MaxAttempts /\ accepted[r] <= unconfirmed[r]
    BY <1>1, <1>3 DEF Batched
  <2>1. CASE t = s
    BY <1>2, <1>4, <2>1, WebhookAssumption DEF Exhausted
  <2>2. CASE t # s
    BY <1>2, <2>2 DEF Rest, Batched
  <2> QED
    BY <2>1, <2>2
<1>6. Guarded' /\ Fresh' /\ HeldAccounted' /\ Single' /\ Budgeted' /\ Accounted'
  BY <1>1, <1>3
  DEF Rest, Guarded, Fresh, HeldAccounted, Single, Budgeted, Accounted, Delivering
<1> QED
  BY <1>5, <1>6 DEF Rest

\* Its commit takes them out of PROCESSING; no other reaper has read them.
LEMMA ReapCommitRest ==
  ASSUME OneScheduler, TypeOK, Held, Rest, NEW s \in Schedulers, ReapCommit(s)
  PROVE  Rest'
<1>1. /\ UNCHANGED <<attempts, worker, accepted, unconfirmed>> /\ old' \subseteq old
      /\ \A r \in Rows : status'[r] = AfterReap(s, r)
      /\ reaper'[s] = NoBatch
  BY DEF ReapCommit, histVars, TypeOK
<1>2. \A r : Free(r)' <=> Free(r)
  BY <1>1 DEF Free, Delivering
<1>3. ASSUME NEW r \in Rows
      PROVE  \/ status'[r] = status[r]
             \/ status'[r] \in {"failed", "pending"} /\ Free(r)
                  /\ (status'[r] = "pending" => r \in reaper[s].resend)
  BY <1>1 DEF AfterReap, Rest, Batched
<1>4. Guarded'
  <2>1. \A w \in Workers : Delivering(w) => worker[w].row \in Rows /\ ~Free(worker[w].row)
    BY DEF Free, Held, Delivering
  <2> QED
    BY <1>1, <1>3, <2>1 DEF Rest, Guarded, Delivering
<1>5. Batched'
  <2>1. \A t \in Schedulers : reaper'[t].fail = {} /\ reaper'[t].resend = {}
    BY <1>1 DEF OneScheduler, NoBatch
  <2> QED
    BY <2>1 DEF Batched
<1>6. Budgeted'
  BY <1>1, <1>3 DEF Rest, Budgeted, Batched
<1>7. Accounted'
  BY <1>1, <1>2, <1>3 DEF Rest, Accounted, Batched
<1>8. Fresh' /\ HeldAccounted' /\ Single'
  BY <1>1 DEF Rest, Fresh, HeldAccounted, Single, Delivering
<1> QED
  BY <1>4, <1>5, <1>6, <1>7, <1>8 DEF Rest

\* Every step keeps the invariant.
LEMMA InvStep == OneScheduler /\ IInv /\ [Next]_vars => IInv'
<1> SUFFICES ASSUME OneScheduler, IInv, [Next]_vars PROVE IInv'
  OBVIOUS
<1>0. TypeOK /\ Held /\ TypeOK' /\ Held'
  BY TypeStep DEF IInv
<1>1. ASSUME NoManualRetry' PROVE NoManualRetry
  <2>1. \A c \in Callers : caller[c].pc = "done" => caller'[c].pc = "done"
    <3>1. ASSUME NEW c \in Callers, NEW r \in Rows, RetryLoad(c, r)
          PROVE  \A d \in Callers : caller[d].pc = "done" => caller'[d].pc = "done"
      BY <1>0, <3>1 DEF RetryLoad, TypeOK
    <3>2. ASSUME NEW c \in Callers, RetryCommit(c)
          PROVE  \A d \in Callers : caller[d].pc = "done" => caller'[d].pc = "done"
      BY <1>0, <3>2 DEF RetryCommit, TypeOK, Ready
    <3>3. CASE UNCHANGED caller
      BY <3>3
    <3> QED
      BY <3>1, <3>2, <3>3
      DEF Next, vars, Create, Age, Drop, Load, Progress, FailOff, Claim, LoseClaim,
          Refresh, Refuse, Accept, ConfirmSent, RequestFails, RaiseOrEnd, Interrupt,
          ReapSelect, ReapCommit, ReapRollback, LoseMessage
  <2> QED
    BY <1>1, <2>1 DEF NoManualRetry
<1> SUFFICES ASSUME NoManualRetry', Rest PROVE Rest'
  BY <1>0, <1>1 DEF IInv
<1>2. ASSUME NEW r \in Rows, Create(r) PROVE Rest'
  BY <1>0, <1>2, Quiet DEF Create, histVars, TypeOK
<1>3. ASSUME NEW r \in Rows, Age(r) PROVE Rest'
  <2>1. Free(r)
    BY <1>3 DEF Age, Unattended, Free, Delivering
  <2> QED
    BY <1>0, <1>3, <2>1, Quiet DEF Age, histVars
<1>4. ASSUME NEW w \in Workers, NEW r \in Rows, NEW k \in Retries, Drop(w, r, k)
      PROVE  Rest'
  BY <1>0, <1>4, Quiet DEF Drop, rowVars, histVars
<1>5. ASSUME NEW w \in Workers, NEW r \in Rows, NEW k \in Retries, Load(w, r, k)
      PROVE  Rest'
  <2>1. worker[w].pc = "idle" /\ worker'[w].pc \in {"loaded", "off"}
        /\ \A v \in Workers : v # w => worker'[v] = worker[v]
    BY <1>0, <1>5 DEF Load, TypeOK
  <2> QED
    BY <1>0, <1>5, <2>1, Quiet DEF Load, rowVars, histVars
<1>6. ASSUME NEW w \in Workers, FailOff(w) \/ LoseClaim(w) \/ RaiseOrEnd(w)
      PROVE  Rest'
  <2>1. /\ worker[w].pc \in {"loaded", "off", "written"} /\ worker'[w].pc = "idle"
        /\ \A v \in Workers : v # w => worker'[v] = worker[v]
    BY <1>0, <1>6 DEF FailOff, LoseClaim, RaiseOrEnd, Release, Idle, TypeOK
  <2>2. /\ \A r \in Rows : status'[r] = status[r] \/ status'[r] = "failed"
        /\ old' \subseteq old
    BY <1>0, <1>6 DEF FailOff, LoseClaim, RaiseOrEnd, Write, rowVars, TypeOK
  <2>3. UNCHANGED <<attempts, reaper, accepted, unconfirmed>>
    BY <1>6 DEF FailOff, LoseClaim, RaiseOrEnd, rowVars, histVars
  <2> QED
    BY <1>0, <2>1, <2>2, <2>3, Quiet
<1>7. ASSUME NEW w \in Workers, Refuse(w) \/ ConfirmSent(w) \/ RequestFails(w)
      PROVE  Rest'
  <2>1. Delivering(w)
    BY <1>7 DEF Refuse, ConfirmSent, RequestFails, Delivering
  <2> QED
    BY <1>0, <1>7, <2>1, OutcomeRest
<1>8. ASSUME NEW w \in Workers, Interrupt(w) PROVE Rest'
  <2>1. CASE Delivering(w)
    BY <1>0, <1>8, <2>1, OutcomeRest
  <2>2. CASE ~Delivering(w)
    <3>1. worker[w].pc \in {"loaded", "off", "written"}
      BY <1>0, <1>8, <2>2 DEF Interrupt, Delivering, TypeOK
    <3>2. worker'[w].pc = "idle" /\ \A v \in Workers : v # w => worker'[v] = worker[v]
      BY <1>0, <1>8 DEF Interrupt, Release, Idle, TypeOK
    <3>3. UNCHANGED <<status, old, attempts, reaper, accepted, unconfirmed>>
      BY <1>8, <3>1 DEF Interrupt, Forget, rowVars
    <3> QED
      BY <1>0, <3>1, <3>2, <3>3, Quiet
  <2> QED
    BY <2>1, <2>2
<1>9. ASSUME NEW s \in Schedulers, ReapRollback(s) PROVE Rest'
  <2>1. \A t \in Schedulers : reaper'[t] \in {reaper[t], NoBatch}
    BY <1>0, <1>9 DEF ReapRollback, TypeOK
  <2> QED
    BY <1>0, <1>9, <2>1, Quiet DEF ReapRollback, rowVars, histVars
<1>10. ASSUME NEW c \in Callers, RetryCommit(c) PROVE FALSE
  <2>1. caller'[c].pc = "done"
    BY <1>0, <1>10 DEF RetryCommit, Ready, TypeOK
  <2> QED
    BY <2>1 DEF NoManualRetry
<1>11. ASSUME NEW c \in Callers, NEW r \in Rows, RetryLoad(c, r) PROVE Rest'
  BY <1>0, <1>11, Quiet DEF RetryLoad, rowVars, histVars
<1>12. ASSUME NEW r \in Rows, NEW k \in Retries, LoseMessage(r, k) PROVE Rest'
  BY <1>0, <1>12, Quiet DEF LoseMessage, rowVars, histVars
<1>13. ASSUME UNCHANGED vars PROVE Rest'
  BY <1>0, <1>13, Quiet DEF vars, rowVars, histVars
<1>14. ASSUME NEW w \in Workers, Progress(w) PROVE Rest'
  BY <1>0, <1>6, <1>7, <1>14, ClaimRest, RefreshRest, AcceptRest DEF Progress
<1>15. ASSUME NEW s \in Schedulers, ReapSelect(s) \/ ReapCommit(s) PROVE Rest'
  BY <1>0, <1>15, ReapSelectRest, ReapCommitRest
<1> QED
  BY <1>2, <1>3, <1>4, <1>5, <1>8, <1>9, <1>10, <1>11, <1>12, <1>13, <1>14, <1>15
  DEF Next

LEMMA Invariance == ASSUME OneScheduler PROVE Spec => []IInv
<1>1. Init => IInv
  BY TypeInit, RestInit DEF IInv
<1>2. IInv /\ [Next]_vars => IInv'
  BY InvStep
<1> QED
  BY <1>1, <1>2, PTL DEF Spec

-----------------------------------------------------------------------------
(* The contract of the table, while endpoints stay on.                     *)

\* Seen by the producer, the table is a queue with one attempt at a time, as
\* notification_outbox is: the contract is the same.
Phase == [r \in Rows |-> CASE status[r] = "none" -> "absent"
                           [] status[r] = "pending" -> "waiting"
                           [] status[r] = "processing" -> "trying"
                           [] OTHER -> status[r]]

Contract == INSTANCE DeliveryContract
  WITH Messages <- Rows, Budget <- MaxAttempts, tries <- attempts, state <- Phase

\* With no endpoint off, nobody fails a row behind the back of who holds it: a row that
\* is delivered, or that a reaper has read, is PROCESSING.
Engaged ==
  /\ \A w \in Workers : worker[w].pc # "off"
  /\ \A w \in Workers : Delivering(w) => status[worker[w].row] = "processing"
  /\ \A w \in Workers : worker[w].pc \in {"sending", "accepted"} => worker[w].seen = "processing"
  /\ \A s \in Schedulers : \A r \in reaper[s].fail \cup reaper[s].resend :
       status[r] = "processing"

\* The endpoint takes a row's request at most once in each of its attempts.
Tallied ==
  /\ \A r \in Rows : accepted[r] <= attempts[r]
  /\ \A w \in Workers : worker[w].pc \in {"claimed", "sending"} =>
       accepted[worker[w].row] < attempts[worker[w].row]
  /\ \A w \in Workers : worker[w].pc = "accepted" => accepted[worker[w].row] > 0

Orderly == Rest /\ Engaged /\ Tallied

CInv == TypeOK /\ Held /\ (NoManualRetry => Orderly)

AlwaysOn == OneScheduler /\ ~Switching

\* How a row may move in one step.
Alike(r) == UNCHANGED <<status[r], attempts[r], accepted[r]>>

Turns(r, s, T) ==
  status[r] = s /\ status'[r] \in T /\ attempts'[r] = attempts[r] /\ accepted'[r] = accepted[r]

RowStep(r) ==
  \/ Alike(r)
  \/ Turns(r, "none", {"pending"})
  \/ Turns(r, "processing", {"pending", "failed"})
  \/ accepted[r] > 0 /\ Turns(r, "processing", {"sent"})
  \/ /\ status[r] = "pending" /\ status'[r] = "processing" /\ accepted'[r] = accepted[r]
     /\ attempts[r] < MaxAttempts /\ attempts'[r] = attempts[r] + 1
  \/ /\ status[r] = "processing" /\ status'[r] = "processing" /\ attempts'[r] = attempts[r]
     /\ accepted[r] < attempts[r] /\ accepted'[r] = accepted[r] + 1

\* A step that begins no attempt and reads no batch, and that changes no row which
\* somebody holds and goes on holding.
LEMMA HeldAlike ==
  ASSUME TypeOK, Held, Orderly,
         \A r \in Rows : accepted'[r] = accepted[r] /\ attempts'[r] = attempts[r],
         \A w \in Workers :
           \/ worker'[w] = worker[w]
                /\ (Delivering(w) => status'[worker[w].row] = status[worker[w].row])
           \/ worker'[w].pc \in {"idle", "loaded", "written"},
         \A s \in Schedulers :
           \/ reaper'[s] = NoBatch
           \/ reaper'[s] = reaper[s]
                /\ \A r \in reaper[s].fail \cup reaper[s].resend : status'[r] = status[r]
  PROVE  Engaged' /\ Tallied'
<1>1. \A w \in Workers : worker'[w].pc \in {"claimed", "sending", "accepted"} =>
         /\ worker'[w] = worker[w] /\ Delivering(w) /\ worker[w].row \in Rows
         /\ status'[worker[w].row] = status[worker[w].row]
  BY DEF Delivering, Held
<1>2. Engaged'
  <2>1. \A w \in Workers : worker'[w].pc # "off"
    BY DEF Orderly, Engaged
  <2>2. \A s \in Schedulers : \A r \in reaper'[s].fail \cup reaper'[s].resend :
           status'[r] = "processing"
    BY DEF Orderly, Engaged, NoBatch
  <2> QED
    BY <1>1, <2>1, <2>2 DEF Orderly, Engaged, Delivering
<1>3. Tallied'
  BY <1>1 DEF Orderly, Tallied
<1> QED
  BY <1>2, <1>3

\* What a worker that lets go of its row does to it.
LEMMA LetGoStep ==
  ASSUME TypeOK, Held, Orderly, NEW w \in Workers, Delivering(w),
         Refuse(w) \/ ConfirmSent(w) \/ RequestFails(w) \/ Interrupt(w)
  PROVE  /\ \A q \in Rows : RowStep(q)
         /\ Engaged' /\ Tallied'
<1> DEFINE r == worker[w].row
<1>1. /\ r \in Rows /\ status[r] = "processing" /\ attempts[r] \in Nat
      /\ worker[w].pc \in {"sending", "accepted"} => worker[w].seen = "processing"
      /\ worker[w].pc = "accepted" => accepted[r] > 0
  BY DEF Held, Delivering, Orderly, Engaged, Tallied, TypeOK
<1>2. /\ worker'[w].pc \in {"idle", "written"}
      /\ \A v \in Workers : v # w => worker'[v] = worker[v]
      /\ UNCHANGED <<attempts, reaper, accepted>>
  BY DEF Refuse, ConfirmSent, RequestFails, Interrupt, Release, Idle, rowVars, histVars, TypeOK
<1>3. /\ \A q \in Rows : q # r => status'[q] = status[q]
      /\ status'[r] \in {"processing", "pending", "failed", "sent"}
      /\ status'[r] = "sent" => accepted[r] > 0
  <2>1. CASE Refuse(w) \/ ConfirmSent(w) \/ RequestFails(w)
    <3>1. PICK to \in {"pending", "failed", "sent"} :
            Write(w, to) /\ (to = "sent" => accepted[r] > 0)
      BY <1>1, <2>1 DEF Refuse, ConfirmSent, RequestFails, AfterFailure
    <3> QED
      BY <1>1, <3>1 DEF Write, TypeOK
  <2>2. CASE Interrupt(w)
    BY <1>1, <2>2 DEF Interrupt, rowVars
  <2> QED
    BY <2>1, <2>2
<1>4. \A v \in Workers : v # w /\ Delivering(v) => worker[v].row \in Rows /\ worker[v].row # r
  BY DEF Orderly, Rest, Single, Held, Delivering
<1>5. \A s \in Schedulers : \A q \in reaper[s].fail \cup reaper[s].resend :
         q \in Rows /\ q # r
  BY DEF Orderly, Rest, Batched, Free, TypeOK
<1> HIDE DEF r
<1>6. \A q \in Rows : RowStep(q)
  BY <1>1, <1>2, <1>3 DEF RowStep, Alike, Turns
<1>7. Engaged' /\ Tallied'
  <2>1. \A v \in Workers :
          \/ worker'[v] = worker[v]
               /\ (Delivering(v) => status'[worker[v].row] = status[worker[v].row])
          \/ worker'[v].pc \in {"idle", "loaded", "written"}
    BY <1>2, <1>3, <1>4
  <2>2. \A s \in Schedulers :
          reaper'[s] = reaper[s]
            /\ \A q \in reaper[s].fail \cup reaper[s].resend : status'[q] = status[q]
    BY <1>2, <1>3, <1>5
  <2> QED
    BY <1>2, <2>1, <2>2, HeldAlike
<1> QED
  BY <1>6, <1>7

\* The claim begins an attempt, of a row nobody has.
LEMMA ClaimStep ==
  ASSUME TypeOK, Held, Orderly, NEW w \in Workers, Claim(w)
  PROVE  /\ \A q \in Rows : RowStep(q)
         /\ Engaged' /\ Tallied'
<1> DEFINE r == worker[w].row
<1>1. /\ r \in Rows /\ status[r] = "pending" /\ worker[w].pc = "loaded"
      /\ attempts[r] < MaxAttempts /\ attempts[r] \in Nat /\ accepted[r] \in Nat
      /\ accepted[r] <= attempts[r]
  BY DEF Claim, Claimable, Held, Orderly, Rest, Budgeted, Tallied, TypeOK
<1>2. /\ status'[r] = "processing" /\ attempts'[r] = attempts[r] + 1
      /\ \A q \in Rows : q # r => status'[q] = status[q] /\ attempts'[q] = attempts[q]
      /\ worker'[w].pc = "claimed" /\ worker'[w].row = r
      /\ \A v \in Workers : v # w => worker'[v] = worker[v]
      /\ UNCHANGED <<reaper, accepted>>
  BY <1>1 DEF Claim, TypeOK, histVars
<1>3. \A v \in Workers : Delivering(v) => worker[v].row \in Rows /\ worker[v].row # r
  BY <1>1 DEF Orderly, Engaged, Held, Delivering
<1>4. \A s \in Schedulers : \A q \in reaper[s].fail \cup reaper[s].resend :
         q \in Rows /\ q # r
  BY <1>1 DEF Orderly, Engaged, TypeOK
<1> HIDE DEF r
<1>5. \A q \in Rows : RowStep(q)
  BY <1>1, <1>2 DEF RowStep, Alike
<1>6. Engaged'
  BY <1>2, <1>3, <1>4 DEF Orderly, Engaged, Delivering
<1>7. Tallied'
  <2>1. \A v \in Workers : v # w /\ worker'[v].pc \in {"claimed", "sending", "accepted"} =>
           worker'[v] = worker[v] /\ worker[v].row \in Rows /\ worker[v].row # r
    BY <1>2, <1>3 DEF Delivering
  <2> QED
    BY <1>1, <1>2, <2>1 DEF Orderly, Tallied
<1> QED
  BY <1>5, <1>6, <1>7

\* The endpoint takes the request, once in the attempt.
LEMMA AcceptStep ==
  ASSUME TypeOK, Held, Orderly, NEW w \in Workers, Accept(w)
  PROVE  /\ \A q \in Rows : RowStep(q)
         /\ Engaged' /\ Tallied'
<1> DEFINE r == worker[w].row
<1>1. /\ r \in Rows /\ worker[w].pc = "sending" /\ Delivering(w)
      /\ accepted[r] < attempts[r] /\ accepted[r] \in Nat /\ attempts[r] \in Nat
      /\ status[r] = "processing" /\ worker[w].seen = "processing"
  BY DEF Accept, Held, Delivering, Orderly, Tallied, Engaged, TypeOK
<1>2. /\ worker'[w].pc = "accepted" /\ worker'[w].row = r /\ worker'[w].seen = worker[w].seen
      /\ \A v \in Workers : v # w => worker'[v] = worker[v]
      /\ accepted'[r] = accepted[r] + 1
      /\ \A q \in Rows : q # r => accepted'[q] = accepted[q]
      /\ UNCHANGED <<status, attempts, reaper>>
  BY <1>1 DEF Accept, TypeOK, rowVars
<1>3. \A v \in Workers : v # w /\ Delivering(v) => worker[v].row \in Rows /\ worker[v].row # r
  BY <1>1 DEF Orderly, Rest, Single, Held, Delivering
<1> HIDE DEF r
<1>4. \A q \in Rows : RowStep(q)
  BY <1>1, <1>2 DEF RowStep, Alike
<1>5. Engaged'
  BY <1>1, <1>2 DEF Orderly, Engaged, Delivering
<1>6. Tallied'
  BY <1>1, <1>2, <1>3 DEF Orderly, Tallied, Delivering
<1> QED
  BY <1>4, <1>5, <1>6

\* The commit of the only reaper takes rows nobody delivers out of PROCESSING.
LEMMA ReapCommitStep ==
  ASSUME OneScheduler, TypeOK, Held, Orderly, NEW s \in Schedulers, ReapCommit(s)
  PROVE  /\ \A q \in Rows : RowStep(q)
         /\ Engaged' /\ Tallied'
<1>1. /\ UNCHANGED <<attempts, worker, accepted>>
      /\ \A q \in Rows : status'[q] = AfterReap(s, q)
      /\ \A t \in Schedulers : reaper'[t] = NoBatch
  BY DEF ReapCommit, histVars, TypeOK, OneScheduler
<1>2. \A q \in Rows : \/ status'[q] = status[q]
                      \/ Free(q) /\ status[q] = "processing" /\ status'[q] \in {"pending", "failed"}
  BY <1>1 DEF AfterReap, Orderly, Rest, Batched, Engaged
<1>3. \A q \in Rows : RowStep(q)
  BY <1>1, <1>2 DEF RowStep, Alike, Turns
<1>4. \A w \in Workers : Delivering(w) => status'[worker[w].row] = status[worker[w].row]
  BY <1>2 DEF Free, Held, Delivering
<1>5. Engaged' /\ Tallied'
  BY <1>1, <1>4, HeldAlike
<1> QED
  BY <1>3, <1>5

\* Every step, up to the first manual retry, moves the rows as the contract does.
LEMMA EveryRowStep ==
  ASSUME AlwaysOn, TypeOK, Held, Orderly, NoManualRetry', Next
  PROVE  /\ \A q \in Rows : RowStep(q)
         /\ Engaged' /\ Tallied'
<1>1. ASSUME NEW r \in Rows, Create(r)
      PROVE  (\A q \in Rows : RowStep(q)) /\ Engaged' /\ Tallied'
  <2>1. /\ status[r] = "none" /\ status' = [status EXCEPT ![r] = "pending"]
        /\ UNCHANGED <<attempts, worker, reaper, accepted>>
    BY <1>1 DEF Create, histVars
  <2>2. \A q \in Rows : RowStep(q)
    BY <2>1 DEF RowStep, Alike, Turns, TypeOK
  <2>3. \A w \in Workers : Delivering(w) => status'[worker[w].row] = status[worker[w].row]
    BY <2>1 DEF Orderly, Engaged, Held, Delivering, TypeOK
  <2>4. \A s \in Schedulers : \A q \in reaper[s].fail \cup reaper[s].resend :
           status'[q] = status[q]
    BY <2>1 DEF Orderly, Engaged, TypeOK
  <2> QED
    BY <2>1, <2>2, <2>3, <2>4, HeldAlike
<1>2. ASSUME UNCHANGED <<status, attempts, accepted>>,
             \A s \in Schedulers : reaper'[s] \in {reaper[s], NoBatch},
             \A w \in Workers : \/ worker'[w] = worker[w]
                                \/ worker'[w].pc \in {"idle", "loaded", "written"}
      PROVE  (\A q \in Rows : RowStep(q)) /\ Engaged' /\ Tallied'
  <2>1. \A q \in Rows : RowStep(q)
    BY <1>2 DEF RowStep, Alike
  <2> QED
    BY <1>2, <2>1, HeldAlike
<1>3. ASSUME NEW r \in Rows, NEW k \in Retries, NEW w \in Workers, Load(w, r, k)
      PROVE  (\A q \in Rows : RowStep(q)) /\ Engaged' /\ Tallied'
  <2>1. \A v \in Workers : worker'[v] = worker[v] \/ worker'[v].pc \in {"idle", "loaded", "written"}
    BY <1>3 DEF Load, AlwaysOn, TypeOK
  <2> QED
    BY <1>2, <1>3, <2>1 DEF Load, rowVars, histVars
<1>4. ASSUME NEW w \in Workers, LoseClaim(w) \/ RaiseOrEnd(w)
      PROVE  (\A q \in Rows : RowStep(q)) /\ Engaged' /\ Tallied'
  <2>1. \A v \in Workers : worker'[v] = worker[v] \/ worker'[v].pc \in {"idle", "loaded", "written"}
    BY <1>4 DEF LoseClaim, RaiseOrEnd, Release, Idle, TypeOK
  <2> QED
    BY <1>2, <1>4, <2>1 DEF LoseClaim, RaiseOrEnd, rowVars, histVars
<1>5. ASSUME NEW w \in Workers, Interrupt(w)
      PROVE  (\A q \in Rows : RowStep(q)) /\ Engaged' /\ Tallied'
  <2>1. CASE Delivering(w)
    BY <1>5, <2>1, LetGoStep
  <2>2. CASE ~Delivering(w)
    <3>1. \A v \in Workers : worker'[v] = worker[v] \/ worker'[v].pc \in {"idle", "loaded", "written"}
      BY <1>5 DEF Interrupt, Release, Idle, TypeOK
    <3> QED
      BY <1>2, <1>5, <3>1 DEF Interrupt, rowVars
  <2> QED
    BY <2>1, <2>2
<1>6. ASSUME NEW w \in Workers, Refresh(w)
      PROVE  (\A q \in Rows : RowStep(q)) /\ Engaged' /\ Tallied'
  <2>1. /\ UNCHANGED <<status, attempts, reaper, accepted>> /\ worker[w].pc = "claimed"
        /\ worker'[w].pc = "sending" /\ worker'[w].row = worker[w].row
        /\ worker'[w].seen = status[worker[w].row]
        /\ \A v \in Workers : v # w => worker'[v] = worker[v]
    BY <1>6 DEF Refresh, rowVars, histVars, TypeOK
  <2>2. \A q \in Rows : RowStep(q)
    BY <2>1 DEF RowStep, Alike
  <2> QED
    BY <2>1, <2>2 DEF Orderly, Engaged, Tallied, Delivering
<1>7. ASSUME NEW w \in Workers, Progress(w)
      PROVE  (\A q \in Rows : RowStep(q)) /\ Engaged' /\ Tallied'
  <2>1. ~FailOff(w)
    BY DEF FailOff, Orderly, Engaged
  <2>2. Refuse(w) \/ ConfirmSent(w) \/ RequestFails(w) => Delivering(w)
    BY DEF Refuse, ConfirmSent, RequestFails, Delivering
  <2> QED
    BY <1>4, <1>6, <1>7, <2>1, <2>2, LetGoStep, ClaimStep, AcceptStep DEF Progress
<1>8. ASSUME NEW s \in Schedulers, ReapSelect(s)
      PROVE  (\A q \in Rows : RowStep(q)) /\ Engaged' /\ Tallied'
  <2>1. /\ UNCHANGED <<status, attempts, worker, accepted>>
        /\ reaper'[s].fail \subseteq Stuck /\ reaper'[s].resend \subseteq Stuck
        /\ \A t \in Schedulers : t # s => reaper'[t] = reaper[t]
    BY <1>8 DEF ReapSelect, rowVars, histVars, Exhausted, TypeOK
  <2>2. \A q \in Rows : RowStep(q)
    BY <2>1 DEF RowStep, Alike
  <2>3. \A t \in Schedulers : \A q \in reaper'[t].fail \cup reaper'[t].resend :
           status[q] = "processing"
    BY <2>1 DEF Stuck, Orderly, Engaged
  <2> QED
    BY <2>1, <2>2, <2>3 DEF Orderly, Engaged, Tallied, Delivering
<1>9. ASSUME NEW s \in Schedulers, ReapRollback(s)
      PROVE  (\A q \in Rows : RowStep(q)) /\ Engaged' /\ Tallied'
  <2>1. \A t \in Schedulers : reaper'[t] \in {reaper[t], NoBatch}
    BY <1>9 DEF ReapRollback, TypeOK
  <2> QED
    BY <1>2, <1>9, <2>1 DEF ReapRollback, rowVars, histVars
<1>10. ASSUME NEW c \in Callers, RetryCommit(c) PROVE FALSE
  BY <1>10 DEF RetryCommit, Ready, TypeOK, NoManualRetry
<1>11. ASSUME NEW c \in Callers, NEW r \in Rows, RetryLoad(c, r)
       PROVE  (\A q \in Rows : RowStep(q)) /\ Engaged' /\ Tallied'
  BY <1>2, <1>11 DEF RetryLoad, rowVars, histVars
<1>12. ASSUME NEW r \in Rows, NEW k \in Retries,
              Age(r) \/ LoseMessage(r, k) \/ \E w \in Workers : Drop(w, r, k)
       PROVE  (\A q \in Rows : RowStep(q)) /\ Engaged' /\ Tallied'
  BY <1>2, <1>12 DEF Age, LoseMessage, Drop, rowVars, histVars
<1>13. ASSUME NEW r \in Rows, Age(r)
       PROVE  (\A q \in Rows : RowStep(q)) /\ Engaged' /\ Tallied'
  BY <1>2, <1>13 DEF Age, histVars
<1> QED
  BY <1>1, <1>3, <1>5, <1>7, <1>8, <1>9, <1>10, <1>11, <1>12, <1>13, ReapCommitStep
  DEF Next, AlwaysOn

\* So the rows are in order as long as nobody has retried one by hand.
LEMMA OrderlyStep ==
  ASSUME AlwaysOn, CInv, NoManualRetry, NoManualRetry', [Next]_vars
  PROVE  CInv' /\ \A r \in Rows : RowStep(r)
<1>1. TypeOK /\ Held /\ Orderly /\ TypeOK' /\ Held' /\ Rest'
  BY TypeStep, InvStep DEF CInv, Orderly, IInv, AlwaysOn
<1>2. CASE UNCHANGED vars
  <2>1. \A r \in Rows : RowStep(r)
    BY <1>2 DEF vars, histVars, RowStep, Alike
  <2>2. Engaged' /\ Tallied'
    BY <1>1, <1>2 DEF vars, histVars, Orderly, Engaged, Tallied, Delivering
  <2> QED
    BY <1>1, <2>1, <2>2 DEF CInv, Orderly
<1>3. CASE Next
  BY <1>1, <1>3, EveryRowStep DEF CInv, Orderly
<1> QED
  BY <1>2, <1>3

\* The invariant of the refinement holds up to the first manual retry.
LEMMA OrderlyAlways == ASSUME AlwaysOn PROVE Spec /\ []NoManualRetry => []CInv
<1>1. Init => CInv
  <2> SUFFICES ASSUME Init PROVE CInv
    OBVIOUS
  <2>1. Engaged /\ Tallied
    BY DEF Init, Idle, NoBatch, Delivering, Engaged, Tallied
  <2> QED
    BY <2>1, TypeInit, RestInit DEF CInv, Orderly
<1>2. CInv /\ NoManualRetry /\ NoManualRetry' /\ [Next]_vars => CInv'
  BY OrderlyStep
<1> QED
  BY <1>1, <1>2, PTL DEF Spec

-----------------------------------------------------------------------------
(* The theorems.                                                           *)

\* Every variable keeps its type, with any number of reapers and manual retries: the
\* statuses written to webhook_deliveries are those of WebhookDeliveryStatus.
THEOREM TypeCorrect == Spec => []TypeOK
<1>1. Init => TypeOK /\ Held
  BY TypeInit
<1>2. TypeOK /\ Held /\ [Next]_vars => (TypeOK /\ Held)'
  BY TypeStep
<1> QED
  BY <1>1, <1>2, PTL DEF Spec

\* "A redelivered message racing a live attempt sees rowcount 0 and exits": whatever
\* the broker does with the messages, two workers never deliver one row at a time.
THEOREM OneDelivererAtATime == ASSUME OneScheduler PROVE Spec => []OneDeliverer
<1>1. IInv => OneDeliverer
  BY DEF IInv, Rest, Single, OneDeliverer
<1> QED
  BY <1>1, Invariance, PTL

\* The endpoint takes a row's request again only after one whose answer was lost.
THEOREM ResentOnlyUnconfirmed == ASSUME OneScheduler PROVE Spec => []NoNeedlessResend
<1>1. IInv => NoNeedlessResend
  <2> SUFFICES ASSUME IInv, NoManualRetry, NEW r \in Rows
               PROVE  accepted[r] <= 1 + unconfirmed[r]
    BY DEF NoNeedlessResend
  <2>1. accepted[r] \in Nat /\ unconfirmed[r] \in Nat
    BY DEF IInv, TypeOK
  <2>2. accepted[r] <= unconfirmed[r] + 1
    BY DEF IInv, Rest, Accounted
  <2> QED
    BY <2>1, <2>2
<1> QED
  BY <1>1, Invariance, PTL

\* deliver_webhook and the reaper together keep to the 5 attempts of a row.
THEOREM AttemptsNeverExceed == ASSUME OneScheduler PROVE Spec => []AttemptsCapped
<1>1. IInv => AttemptsCapped
  BY DEF IInv, Rest, Budgeted, AttemptsCapped
<1> QED
  BY <1>1, Invariance, PTL

\* Up to the first manual retry, and while endpoints stay on, the claim, the outcomes and
\* the reaper make of webhook_deliveries the queue that DeliveryContract promises.
THEOREM Refinement == ASSUME AlwaysOn PROVE Spec /\ []NoManualRetry => Contract!Spec
<1>1. Init => Contract!Start
  BY DEF Init, Contract!Start, Phase
<1>2. ASSUME CInv, NoManualRetry, NoManualRetry', [Next]_vars
      PROVE  [Contract!Step]_(Contract!contractVars)
  <2> SUFFICES ASSUME NEW r \in Rows
               PROVE  \/ Contract!Same(r) \/ Contract!Offer(r) \/ Contract!Attempt(r)
                      \/ Contract!Accept(r) \/ Contract!Return(r) \/ Contract!Settle(r)
    BY DEF Contract!Step
  <2>1. RowStep(r)
    BY <1>2, OrderlyStep
  <2>2. /\ Phase[r] = CASE status[r] = "none" -> "absent"
                        [] status[r] = "pending" -> "waiting"
                        [] status[r] = "processing" -> "trying"
                        [] OTHER -> status[r]
        /\ Phase'[r] = CASE status'[r] = "none" -> "absent"
                         [] status'[r] = "pending" -> "waiting"
                         [] status'[r] = "processing" -> "trying"
                         [] OTHER -> status'[r]
    BY DEF Phase
  <2> QED
    BY <2>1, <2>2
    DEF RowStep, Alike, Turns, Contract!Same, Contract!Offer, Contract!Attempt,
        Contract!Accept, Contract!Return, Contract!Settle, Contract!Move
<1> QED
  BY <1>1, <1>2, OrderlyAlways, PTL DEF Spec, Contract!Spec

\* "Succeeded deliveries are not re-sent" is true of messages, retries and one reaper: it
\* takes an endpoint that is switched off, a second reaper or a manual retry to leave SENT.
THEOREM SentUnlessOverwritten ==
  ASSUME AlwaysOn PROVE Spec /\ []NoManualRetry => SucceededNotResent
<1>1. ASSUME CInv, NoManualRetry, NoManualRetry', [Next]_vars
      PROVE  [\A r \in Rows : status[r] = "sent" => status'[r] = "sent"]_vars
  <2>1. \A r \in Rows : RowStep(r)
    BY <1>1, OrderlyStep
  <2> QED
    BY <2>1 DEF RowStep, Alike, Turns
<1> QED
  BY <1>1, OrderlyAlways, PTL DEF Spec, SucceededNotResent

=============================================================================
