---------------------- MODULE NotificationOutboxProofs ----------------------
(***************************************************************************)
(* Proofs about NotificationOutbox, for any rows, workers and schedulers   *)
(* and any bounds on attempts, retries and copies of a message.            *)
(***************************************************************************)
EXTENDS NotificationOutbox, DramatiqProofs

-----------------------------------------------------------------------------
(* The inductive invariant.                                                *)

IdleHoldsNone == \A w \in Workers : worker[w].pc = "idle" <=> worker[w].row = NoRow

\* The row of a busy worker is PROCESSING and too young for the reaper.
HeldRow ==
  \A w \in Workers : worker[w].pc # "idle" =>
    status[worker[w].row] = "processing" /\ worker[w].row \notin old

\* Rows to be parked have had their attempts and are nobody's.
ParkedRow ==
  \A s \in Schedulers : \A r \in reaper[s].park :
    /\ attempts[r] >= MaxAttempts
    /\ status[r] \in {"processing", "failed"}
    /\ \A w \in Workers : worker[w].row # r

Budgeted ==
  \A r \in Rows :
    /\ attempts[r] <= MaxAttempts
    /\ status[r] = "pending" => attempts[r] < MaxAttempts
    /\ status[r] = "none" => attempts[r] = 0

\* Acceptances of a row that is sent or nobody's.
Accounted ==
  \A r \in Rows :
    /\ accepted[r] <= attempts[r]
    /\ accepted[r] <= unconfirmed[r] + 1
    /\ status[r] = "sent" => accepted[r] > 0
    /\ status[r] # "sent" /\ (\A w \in Workers : worker[w].row # r)
         => accepted[r] <= unconfirmed[r]

\* Acceptances of a row that a worker holds.
HeldAccounted ==
  \A w \in Workers :
    LET r == worker[w].row
    IN /\ worker[w].pc = "claimed" =>
            accepted[r] <= unconfirmed[r] /\ accepted[r] < attempts[r]
       /\ worker[w].pc = "accepted" => accepted[r] > 0

Rest ==
  /\ IdleHoldsNone /\ HeldRow /\ OneDeliverer /\ ParkedRow
  /\ Budgeted /\ Accounted /\ HeldAccounted

IInv == TypeOK /\ Rest

-----------------------------------------------------------------------------
(* Types.                                                                  *)

WorkerState ==
  [pc : {"idle", "claimed", "accepted"}, row : Rows \cup {NoRow}, retries : Retries]

\* The idle record, the empty batch and the empty broker have their types.
LEMMA Records ==
  /\ Idle \in WorkerState
  /\ NoBatch \in [park : SUBSET Rows, resend : SUBSET Rows]
  /\ NoMessages \in [Rows -> [Retries -> 0..MaxCopies]]
BY BrokerAssumption DEF Idle, NoBatch, WorkerState, Retries, NoMessages

\* The state a worker or a reaper is left in has its type.
LEMMA HeldType ==
  ASSUME TypeOK, IdleHoldsNone, NEW w \in Workers, worker[w].pc # "idle"
  PROVE  /\ worker[w].row \in Rows
         /\ worker[w].retries \in Retries
         /\ worker[w].pc \in {"claimed", "accepted"}
BY DEF TypeOK, IdleHoldsNone

LEMMA InitType == Init => TypeOK
BY Records DEF Init, TypeOK, OutboxStatus, WorkerState

\* Every step keeps the types.
LEMMA TypeStep == TypeOK /\ IdleHoldsNone /\ [Next]_vars => TypeOK'
<1> SUFFICES ASSUME TypeOK, IdleHoldsNone, [Next]_vars PROVE TypeOK'
  OBVIOUS
<1> USE DEF TypeOK, OutboxStatus, rowVars, histVars
<1>1. ASSUME NEW r \in Rows, Create(r) PROVE TypeOK'
  <2>1. msgs' \in [Rows -> [Retries -> 0..MaxCopies]]
    <3>1. 0 \in Retries
      BY BrokerAssumption DEF Retries
    <3> QED
      BY <1>1, <3>1, Messages DEF Create
  <2> QED
    BY <1>1, <2>1 DEF Create
<1>2. ASSUME NEW r \in Rows, Age(r) PROVE TypeOK'
  BY <1>2 DEF Age
<1>3. ASSUME NEW w \in Workers, NEW r \in Rows, NEW k \in Retries, Claim(w, r, k)
      PROVE  TypeOK'
  <2>1. msgs' \in [Rows -> [Retries -> 0..MaxCopies]]
    BY <1>3, Messages DEF Claim
  <2>2. [pc |-> "claimed", row |-> r, retries |-> k] \in WorkerState
    BY DEF WorkerState
  <2>3. worker' \in [Workers -> WorkerState]
    BY <1>3, <2>2 DEF Claim, WorkerState
  <2>4. worker' \in [Workers -> [pc : {"idle", "claimed", "accepted"},
                                 row : Rows \cup {NoRow}, retries : Retries]]
    BY <2>3 DEF WorkerState
  <2>5. status' \in [Rows -> OutboxStatus] /\ attempts' \in [Rows -> Nat]
    BY <1>3 DEF Claim
  <2> QED
    BY <1>3, <2>1, <2>4, <2>5 DEF Claim
<1>4. ASSUME NEW w \in Workers, NEW r \in Rows, NEW k \in Retries, Drop(w, r, k)
      PROVE  TypeOK'
  BY <1>4, Messages DEF Drop
<1>5. ASSUME NEW w \in Workers, Finish(w) \/ Interrupt(w) PROVE TypeOK'
  <2>1. worker[w].pc # "idle"
    BY <1>5 DEF Finish, ChannelOff, Accept, ConfirmSent, DeliveryFails, Interrupt
  <2>2. worker[w].row \in Rows /\ worker[w].retries \in Retries
    BY <2>1, HeldType
  <2>3. CASE Accept(w)
    <3>1. [worker[w] EXCEPT !.pc = "accepted"] \in WorkerState
      BY DEF WorkerState
    <3>2. worker' \in [Workers -> WorkerState]
      BY <2>3, <3>1 DEF Accept, WorkerState
    <3> QED
      BY <2>2, <2>3, <3>2 DEF Accept, WorkerState
  <2>4. CASE ~Accept(w)
    <3>1. worker' = [worker EXCEPT ![w] = Idle]
      BY <1>5, <2>4 DEF Finish, ChannelOff, ConfirmSent, DeliveryFails, Interrupt, Write
    <3>2. worker' \in [Workers -> WorkerState]
      BY <3>1, Records DEF WorkerState
    <3>3. unconfirmed' \in [Rows -> Nat] /\ accepted' \in [Rows -> Nat]
      BY <1>5, <2>2, <2>4
      DEF Finish, ChannelOff, ConfirmSent, DeliveryFails, Interrupt, Forget
    <3>4. msgs' \in [Rows -> [Retries -> 0..MaxCopies]]
      <4>1. CASE Interrupt(w)
        BY <2>2, <4>1, Messages DEF Interrupt
      <4>2. CASE DeliveryFails(w)
        BY <2>2, <4>2, Messages DEF DeliveryFails
      <4> QED
        BY <1>5, <2>4, <4>1, <4>2 DEF Finish, ChannelOff, ConfirmSent
    <3>5. /\ status' \in [Rows -> OutboxStatus] /\ old' \subseteq Rows
          /\ attempts' \in [Rows -> Nat] /\ UNCHANGED reaper
      BY <1>5, <2>2, <2>4
      DEF Finish, ChannelOff, ConfirmSent, DeliveryFails, Interrupt, Write, AfterFailure
    <3> QED
      BY <3>2, <3>3, <3>4, <3>5 DEF WorkerState
  <2> QED
    BY <2>3, <2>4
<1>6. ASSUME NEW s \in Schedulers, ReapSelect(s) PROVE TypeOK'
  <2>1. [park |-> Park, resend |-> Resend] \in [park : SUBSET Rows, resend : SUBSET Rows]
    BY DEF Park, Resend, Stuck
  <2> QED
    BY <1>6, <2>1 DEF ReapSelect
<1>7. ASSUME NEW s \in Schedulers, ReapCommit(s) \/ ReapRollback(s) PROVE TypeOK'
  <2>1. reaper' \in [Schedulers -> [park : SUBSET Rows, resend : SUBSET Rows]]
    BY <1>7, Records DEF ReapCommit, ReapRollback
  <2>2. msgs' \in [Rows -> [Retries -> 0..MaxCopies]]
    <3>1. CASE ReapCommit(s)
      <4>1. PICK S : msgs' = SentAll(S)
        BY <3>1 DEF ReapCommit
      <4> QED
        BY <4>1, MessagesOfAll
    <3> QED
      BY <1>7, <3>1 DEF ReapRollback
  <2> QED
    BY <1>7, <2>1, <2>2 DEF ReapCommit, ReapRollback
<1>8. ASSUME NEW r \in Rows, NEW k \in Retries, LoseMessage(r, k) PROVE TypeOK'
  BY <1>8, Messages DEF LoseMessage
<1>9. CASE UNCHANGED vars
  BY <1>9 DEF vars
<1> QED
  BY <1>1, <1>2, <1>3, <1>4, <1>5, <1>6, <1>7, <1>8, <1>9 DEF Next

-----------------------------------------------------------------------------
(* Every step preserves the inductive invariant.                           *)

LEMMA InitInv == Init => IInv
<1> SUFFICES ASSUME Init PROVE IInv
  OBVIOUS
<1>1. TypeOK
  BY InitType
<1>2. \A w \in Workers : worker[w].pc = "idle" /\ worker[w].row = NoRow
  BY DEF Init, Idle
<1>3. \A s \in Schedulers : reaper[s].park = {}
  BY DEF Init, NoBatch
<1>4. IdleHoldsNone /\ HeldRow /\ OneDeliverer /\ ParkedRow /\ HeldAccounted
  BY <1>2, <1>3 DEF IdleHoldsNone, HeldRow, OneDeliverer, ParkedRow, HeldAccounted
<1>5. Budgeted /\ Accounted
  BY OutboxAssumption DEF Init, Budgeted, Accounted
<1> QED
  BY <1>1, <1>4, <1>5 DEF IInv, Rest

\* The row of a busy worker is not about to be parked.
LEMMA HeldNotParked ==
  ASSUME Rest, NEW w \in Workers, NEW s \in Schedulers
  PROVE  worker[w].row \notin reaper[s].park
BY DEF Rest, ParkedRow

\* A worker lets go of its row r, which becomes to: pending only with attempts
\* left, sent only if a provider took the message; otherwise every acceptance
\* is known to the row or counted as unconfirmed.
LEMMA LetGo ==
  ASSUME IInv, TypeOK', NEW w \in Workers, worker[w].pc # "idle",
         NEW to \in {"pending", "processing", "sent", "failed"},
         status' = [status EXCEPT ![worker[w].row] = to],
         to = "pending" => attempts[worker[w].row] < MaxAttempts,
         to = "sent" => accepted[worker[w].row] > 0,
         to # "sent" => accepted[worker[w].row] <= unconfirmed'[worker[w].row],
         accepted[worker[w].row] <= unconfirmed'[worker[w].row] + 1,
         \A r \in Rows : r # worker[w].row => unconfirmed'[r] = unconfirmed[r],
         worker' = [worker EXCEPT ![w] = Idle],
         old' \subseteq old,
         UNCHANGED <<attempts, reaper, accepted>>
  PROVE  Rest'
<1> DEFINE r == worker[w].row
<1>1. r \in Rows
  BY HeldType DEF IInv, Rest
<1>2. \A v \in Workers : v # w => worker'[v] = worker[v]
  BY DEF IInv, TypeOK
<1>3. worker'[w].pc = "idle" /\ worker'[w].row = NoRow
  BY DEF IInv, TypeOK, Idle
<1>4. \A v \in Workers : v # w => worker[v].row # r
  BY DEF IInv, Rest, OneDeliverer
<1>5. /\ status'[r] = to
      /\ \A q \in Rows : q # r => status'[q] = status[q]
  BY <1>1 DEF IInv, TypeOK
<1> HIDE DEF r
<1>6. IdleHoldsNone' /\ OneDeliverer'
  BY <1>2, <1>3 DEF IInv, Rest, IdleHoldsNone, OneDeliverer
<1>7. \A v \in Workers : v # w /\ worker[v].pc # "idle" => worker[v].row \in Rows
  BY HeldType DEF IInv, Rest
<1>8. HeldRow'
  BY <1>2, <1>3, <1>4, <1>5, <1>7 DEF IInv, Rest, HeldRow
<1>9. ParkedRow'
  <2>1. \A v \in Workers : worker'[v].row = worker[v].row \/ worker'[v].row = NoRow
    BY <1>2, <1>3
  <2>2. \A s \in Schedulers : r \notin reaper[s].park /\ reaper[s].park \subseteq Rows
    BY HeldNotParked DEF IInv, r, TypeOK
  <2> QED
    BY <1>5, <2>1, <2>2, OutboxAssumption DEF IInv, Rest, ParkedRow
<1>10. Budgeted'
  BY <1>1, <1>5 DEF IInv, Rest, Budgeted, r
<1>11. Accounted'
  <2>1. ASSUME NEW q \in Rows, q # r
        PROVE  (\A v \in Workers : worker'[v].row # q)
                 => (\A v \in Workers : worker[v].row # q)
    BY <1>2, <2>1 DEF r
  <2>2. \A q \in Rows : q # r => unconfirmed'[q] = unconfirmed[q]
    BY DEF r
  <2>3. /\ to = "sent" => accepted[r] > 0
        /\ to # "sent" => accepted[r] <= unconfirmed'[r]
        /\ accepted[r] <= unconfirmed'[r] + 1
    BY DEF r
  <2> QED
    BY <1>1, <1>5, <2>1, <2>2, <2>3 DEF IInv, Rest, Accounted
<1>12. HeldAccounted'
  <2>1. \A v \in Workers : worker'[v].pc # "idle" =>
           /\ worker'[v] = worker[v] /\ worker[v].row \in Rows
           /\ unconfirmed'[worker[v].row] = unconfirmed[worker[v].row]
    BY <1>2, <1>3, <1>4, <1>7 DEF r
  <2> QED
    BY <2>1 DEF IInv, Rest, HeldAccounted
<1> QED
  BY <1>6, <1>8, <1>9, <1>10, <1>11, <1>12 DEF Rest

\* The four ways to end an attempt let go of the row as LetGo asks.
LEMMA EndsAttempt ==
  ASSUME IInv, TypeOK', NEW w \in Workers,
         ChannelOff(w) \/ ConfirmSent(w) \/ DeliveryFails(w) \/ Interrupt(w)
  PROVE  Rest'
<1> DEFINE r == worker[w].row
<1>1. worker[w].pc # "idle"
  BY DEF ChannelOff, ConfirmSent, DeliveryFails, Interrupt
<1>2. /\ r \in Rows /\ worker[w].pc \in {"claimed", "accepted"}
      /\ attempts[r] \in Nat /\ accepted[r] \in Nat /\ unconfirmed[r] \in Nat
  BY <1>1, HeldType DEF IInv, Rest, TypeOK
<1>3. /\ worker[w].pc = "claimed" => accepted[r] <= unconfirmed[r]
      /\ worker[w].pc = "accepted" => accepted[r] > 0
      /\ accepted[r] <= unconfirmed[r] + 1
      /\ attempts[r] <= MaxAttempts
  BY <1>1, <1>2 DEF IInv, Rest, HeldAccounted, Accounted, Budgeted
<1>4. CASE ChannelOff(w) \/ ConfirmSent(w)
  <2>1. PICK to \in {"sent", "failed"} : Write(w, to) /\ (to = "sent" => worker[w].pc = "accepted")
                                           /\ (to = "failed" => worker[w].pc = "claimed")
    BY <1>4 DEF ChannelOff, ConfirmSent
  <2>2. UNCHANGED <<attempts, reaper, accepted, unconfirmed>>
    BY <1>4 DEF ChannelOff, ConfirmSent, histVars
  <2> QED
    BY <1>1, <1>2, <1>3, <2>1, <2>2, LetGo DEF Write
<1>5. CASE DeliveryFails(w) \/ Interrupt(w)
  <2>1. /\ unconfirmed'[r] = unconfirmed[r] + (IF worker[w].pc = "accepted" THEN 1 ELSE 0)
        /\ \A q \in Rows : q # r => unconfirmed'[q] = unconfirmed[q]
    BY <1>2, <1>5 DEF DeliveryFails, Interrupt, Forget, IInv, TypeOK
  <2>2. accepted[r] <= unconfirmed'[r] /\ accepted[r] <= unconfirmed'[r] + 1
    BY <1>2, <1>3, <2>1
  <2>3. UNCHANGED <<attempts, reaper, accepted>>
    BY <1>5 DEF DeliveryFails, Interrupt, rowVars
  <2>4. CASE DeliveryFails(w)
    <3>1. PICK to \in {"pending", "failed"} :
            Write(w, to) /\ (to = "pending" => attempts[r] < MaxAttempts)
      BY <1>2, <2>4, OutboxAssumption DEF DeliveryFails, AfterFailure
    <3> QED
      BY <1>1, <2>1, <2>2, <2>3, <3>1, LetGo DEF Write
  <2>5. CASE Interrupt(w)
    <3>1. status' = [status EXCEPT ![r] = "processing"]
      BY <1>1, <1>2, <2>5 DEF Interrupt, rowVars, IInv, Rest, HeldRow, TypeOK
    <3>2. worker' = [worker EXCEPT ![w] = Idle] /\ old' = old
      BY <2>5 DEF Interrupt, rowVars
    <3> QED
      BY <1>1, <2>1, <2>2, <2>3, <3>1, <3>2, LetGo
  <2> QED
    BY <1>5, <2>4, <2>5
<1> QED
  BY <1>4, <1>5

LEMMA AcceptInv ==
  ASSUME IInv, TypeOK', NEW w \in Workers, Accept(w)
  PROVE  Rest'
<1> DEFINE r == worker[w].row
<1>1. worker[w].pc = "claimed" /\ r \in Rows
  BY HeldType DEF Accept, IInv, Rest
<1>2. \A v \in Workers :
        /\ worker'[v].row = worker[v].row
        /\ worker'[v].pc = IF v = w THEN "accepted" ELSE worker[v].pc
  BY DEF Accept, IInv, TypeOK
<1>3. /\ accepted'[r] = accepted[r] + 1
      /\ \A q \in Rows : q # r => accepted'[q] = accepted[q]
  BY <1>1 DEF Accept, IInv, TypeOK
<1>4. UNCHANGED <<status, attempts, old, reaper, unconfirmed>>
  BY DEF Accept, rowVars
<1>5. \A v \in Workers : v # w => worker[v].row # r
  BY <1>1 DEF IInv, Rest, OneDeliverer
<1>6. IdleHoldsNone' /\ HeldRow' /\ OneDeliverer' /\ ParkedRow' /\ Budgeted'
  BY <1>1, <1>2, <1>4, <1>5
  DEF IInv, Rest, IdleHoldsNone, HeldRow, OneDeliverer, ParkedRow, Budgeted
<1>7. /\ accepted[r] \in Nat /\ attempts[r] \in Nat /\ unconfirmed[r] \in Nat
      /\ accepted[r] <= unconfirmed[r] /\ accepted[r] < attempts[r]
      /\ status[r] = "processing"
  BY <1>1 DEF IInv, Rest, TypeOK, HeldAccounted, HeldRow
<1>8. Accounted'
  <2>1. ASSUME NEW q \in Rows, q # r
        PROVE  (\A v \in Workers : worker'[v].row # q)
                 => (\A v \in Workers : worker[v].row # q)
    BY <1>2
  <2>2. ~(\A v \in Workers : worker'[v].row # r)
    BY <1>2
  <2> QED
    BY <1>1, <1>3, <1>4, <1>7, <2>1, <2>2 DEF IInv, Rest, Accounted
<1>9. HeldAccounted'
  <2>1. \A v \in Workers : v # w /\ worker[v].pc # "idle" =>
           worker[v].row \in Rows /\ accepted'[worker[v].row] = accepted[worker[v].row]
    BY <1>3, <1>5, HeldType DEF IInv, Rest
  <2>2. accepted'[r] > 0
    BY <1>3, <1>7
  <2> QED
    BY <1>2, <1>4, <2>1, <2>2 DEF IInv, Rest, HeldAccounted
<1> QED
  BY <1>6, <1>8, <1>9 DEF Rest

LEMMA ClaimInv ==
  ASSUME IInv, TypeOK', NEW w \in Workers, NEW r \in Rows, NEW k \in Retries,
         Claim(w, r, k)
  PROVE  Rest'
<1>1. /\ worker'[w].pc = "claimed" /\ worker'[w].row = r
      /\ \A v \in Workers : v # w => worker'[v] = worker[v]
  BY DEF Claim, IInv, TypeOK
<1>2. /\ status[r] = "pending" /\ status'[r] = "processing"
      /\ \A q \in Rows : q # r => status'[q] = status[q]
  BY DEF Claim, Claimable, IInv, TypeOK
<1>3. /\ attempts[r] \in Nat /\ attempts'[r] = attempts[r] + 1
      /\ \A q \in Rows : q # r => attempts'[q] = attempts[q]
  BY DEF Claim, IInv, TypeOK
<1>4. UNCHANGED <<reaper, accepted, unconfirmed>> /\ old' = old \ {r}
  BY DEF Claim, histVars
<1>5. \A v \in Workers : worker[v].row # r
  BY <1>2, OutboxAssumption DEF IInv, Rest, HeldRow, IdleHoldsNone
<1>6. IdleHoldsNone' /\ OneDeliverer'
  BY <1>1, <1>5, OutboxAssumption DEF IInv, Rest, IdleHoldsNone, OneDeliverer
<1>7. \A v \in Workers : v # w /\ worker[v].pc # "idle" =>
         worker[v].row \in Rows /\ worker[v].row # r
  BY <1>5, HeldType DEF IInv, Rest
<1>8. HeldRow'
  BY <1>1, <1>2, <1>4, <1>7 DEF IInv, Rest, HeldRow
<1>9. ParkedRow'
  <2>1. \A s \in Schedulers : r \notin reaper[s].park /\ reaper[s].park \subseteq Rows
    BY <1>2 DEF IInv, Rest, ParkedRow, TypeOK
  <2> QED
    BY <1>1, <1>2, <1>3, <1>4, <2>1 DEF IInv, Rest, ParkedRow
<1>10. attempts[r] < MaxAttempts
  BY <1>2 DEF IInv, Rest, Budgeted
<1>11. Budgeted'
  BY <1>2, <1>3, <1>10, OutboxAssumption DEF IInv, Rest, Budgeted
<1>12. /\ accepted[r] \in Nat /\ unconfirmed[r] \in Nat
       /\ accepted[r] <= attempts[r] /\ accepted[r] <= unconfirmed[r]
  BY <1>2, <1>5 DEF IInv, Rest, Accounted, TypeOK
<1>13. Accounted'
  <2>1. ASSUME NEW q \in Rows, q # r
        PROVE  (\A v \in Workers : worker'[v].row # q)
                 => (\A v \in Workers : v = w \/ worker[v].row # q)
    BY <1>1
  <2>2. worker[w].row = NoRow
    BY DEF Claim, IInv, Rest, IdleHoldsNone
  <2>3. ASSUME NEW q \in Rows, q # r
        PROVE  (\A v \in Workers : worker'[v].row # q)
                 => (\A v \in Workers : worker[v].row # q)
    BY <2>1, <2>2, <2>3, OutboxAssumption
  <2> QED
    BY <1>2, <1>3, <1>4, <1>12, <2>3 DEF IInv, Rest, Accounted
<1>14. HeldAccounted'
  <2>1. \A v \in Workers : v # w /\ worker[v].pc # "idle" =>
           attempts'[worker[v].row] = attempts[worker[v].row]
    BY <1>3, <1>7
  <2> QED
    BY <1>1, <1>3, <1>4, <1>12, <2>1 DEF IInv, Rest, HeldAccounted
<1> QED
  BY <1>6, <1>8, <1>9, <1>11, <1>13, <1>14 DEF Rest

\* Steps that leave workers, batches, attempts and acceptances alone, age no
\* held row, and at most fail rows of a batch or create one.
LEMMA RowsOnly ==
  ASSUME IInv, TypeOK',
         UNCHANGED <<attempts, worker, accepted, unconfirmed>>,
         \A r \in Rows :
           \/ status'[r] = status[r]
           \/ status[r] = "none" /\ status'[r] = "pending"
           \/ status'[r] = "failed" /\ \E s \in Schedulers : r \in reaper[s].park,
         \A w \in Workers : worker[w].row \in old' => worker[w].row \in old,
         \A s \in Schedulers : reaper'[s].park \in {reaper[s].park, {}, Park}
  PROVE  Rest'
<1>1. IdleHoldsNone' /\ OneDeliverer'
  BY DEF IInv, Rest, IdleHoldsNone, OneDeliverer
<1>2. \A w \in Workers : worker[w].pc # "idle" =>
         /\ worker[w].row \in Rows /\ status[worker[w].row] = "processing"
         /\ worker[w].row \notin old
  BY HeldType DEF IInv, Rest, HeldRow
<1>3. \A w \in Workers, s \in Schedulers : worker[w].row \notin reaper[s].park
  BY HeldNotParked DEF IInv
<1>4. HeldRow'
  BY <1>2, <1>3 DEF HeldRow
<1>5. \A s \in Schedulers : \A r \in reaper[s].park :
         /\ r \in Rows /\ attempts[r] >= MaxAttempts
         /\ status[r] \in {"processing", "failed"}
         /\ \A w \in Workers : worker[w].row # r
  BY DEF IInv, Rest, ParkedRow, TypeOK
<1>6. \A r \in Park :
         /\ r \in Rows /\ attempts[r] >= MaxAttempts
         /\ status[r] \in {"processing", "failed"}
         /\ \A w \in Workers : worker[w].row # r
  <2> SUFFICES ASSUME NEW r \in Park
               PROVE  /\ r \in Rows /\ attempts[r] >= MaxAttempts
                      /\ status[r] \in {"processing", "failed"}
                      /\ \A w \in Workers : worker[w].row # r
    OBVIOUS
  <2>1. /\ r \in Rows /\ r \in old /\ attempts[r] >= MaxAttempts
        /\ status[r] \in {"processing", "pending"} /\ attempts[r] \in Nat
    BY DEF Park, Stuck, IInv, TypeOK
  <2>2. status[r] # "pending"
    BY <2>1, OutboxAssumption DEF IInv, Rest, Budgeted
  <2>3. ASSUME NEW w \in Workers PROVE worker[w].row # r
    BY <1>2, <2>1, OutboxAssumption DEF IInv, Rest, IdleHoldsNone
  <2> QED
    BY <2>1, <2>2, <2>3
<1>7. ParkedRow'
  <2>1. \A s \in Schedulers : \A r \in reaper'[s].park :
         /\ r \in Rows /\ attempts[r] >= MaxAttempts
         /\ status[r] \in {"processing", "failed"}
         /\ \A w \in Workers : worker[w].row # r
    BY <1>5, <1>6
  <2> QED
    BY <2>1 DEF ParkedRow
<1>8. Budgeted'
  BY OutboxAssumption DEF IInv, Rest, Budgeted
<1>9. Accounted'
  BY <1>5 DEF IInv, Rest, Accounted
<1>10. HeldAccounted'
  BY DEF IInv, Rest, HeldAccounted
<1> QED
  BY <1>1, <1>4, <1>7, <1>8, <1>9, <1>10 DEF Rest

LEMMA InvStep == IInv /\ [Next]_vars => IInv'
<1> SUFFICES ASSUME IInv, [Next]_vars PROVE IInv'
  OBVIOUS
<1>0. TypeOK'
  BY TypeStep DEF IInv, Rest
<1>1. ASSUME NEW r \in Rows, Create(r) PROVE Rest'
  BY <1>0, <1>1, RowsOnly DEF Create, histVars, IInv, TypeOK
<1>2. ASSUME NEW r \in Rows, Age(r) PROVE Rest'
  BY <1>0, <1>2, RowsOnly DEF Age, Unattended, histVars, IInv, TypeOK
<1>3. ASSUME NEW w \in Workers, NEW r \in Rows, NEW k \in Retries, Claim(w, r, k)
      PROVE  Rest'
  BY <1>0, <1>3, ClaimInv
<1>4. ASSUME NEW w \in Workers, NEW r \in Rows, NEW k \in Retries, Drop(w, r, k)
      PROVE  Rest'
  BY <1>0, <1>4, RowsOnly DEF Drop, rowVars, histVars
<1>5. ASSUME NEW w \in Workers, Finish(w) \/ Interrupt(w) PROVE Rest'
  BY <1>0, <1>5, EndsAttempt, AcceptInv DEF Finish
<1>6. ASSUME NEW s \in Schedulers, ReapSelect(s) PROVE Rest'
  <2>1. \A t \in Schedulers : reaper'[t].park \in {reaper[t].park, Park}
    BY <1>6 DEF ReapSelect, IInv, TypeOK
  <2> QED
    BY <1>0, <1>6, <2>1, RowsOnly DEF ReapSelect, rowVars, histVars
<1>7. ASSUME NEW s \in Schedulers, ReapCommit(s) \/ ReapRollback(s) PROVE Rest'
  <2>1. \A t \in Schedulers : reaper'[t].park \in {reaper[t].park, {}}
    BY <1>7 DEF ReapCommit, ReapRollback, NoBatch, IInv, TypeOK
  <2>2. \A r \in Rows :
           \/ status'[r] = status[r]
           \/ status'[r] = "failed" /\ r \in reaper[s].park
    <3>1. CASE ReapCommit(s)
      BY <3>1 DEF ReapCommit
    <3>2. CASE ReapRollback(s)
      BY <3>2 DEF ReapRollback, rowVars
    <3> QED
      BY <1>7, <3>1, <3>2
  <2>3. old' \subseteq old /\ UNCHANGED <<attempts, worker, accepted, unconfirmed>>
    BY <1>7 DEF ReapCommit, ReapRollback, rowVars, histVars
  <2> QED
    BY <1>0, <2>1, <2>2, <2>3, RowsOnly
<1>8. ASSUME NEW r \in Rows, NEW k \in Retries, LoseMessage(r, k) PROVE Rest'
  <2>1. UNCHANGED <<status, attempts, old, worker, reaper, accepted, unconfirmed>>
    BY <1>8 DEF LoseMessage, rowVars, histVars
  <2> QED
    BY <1>0, <2>1, RowsOnly
<1>9. ASSUME UNCHANGED vars PROVE Rest'
  BY <1>0, <1>9, RowsOnly DEF vars
<1> QED
  BY <1>0, <1>1, <1>2, <1>3, <1>4, <1>5, <1>6, <1>7, <1>8, <1>9 DEF Next, IInv

LEMMA Invariance == Spec => []IInv
<1> QED
  BY InitInv, InvStep, PTL DEF Spec

-----------------------------------------------------------------------------
(* What a step may do to one row.                                          *)

Alike(r) == status'[r] = status[r] /\ attempts'[r] = attempts[r] /\ accepted'[r] = accepted[r]

Turns(r, p, q) ==
  status[r] = p /\ status'[r] = q /\ attempts'[r] = attempts[r] /\ accepted'[r] = accepted[r]

RowStep(r) ==
  \/ Alike(r)
  \/ Turns(r, "none", "pending")
  \/ Turns(r, "processing", "pending")
  \/ Turns(r, "processing", "failed")
  \/ Turns(r, "processing", "sent") /\ accepted[r] > 0
  \/ /\ status[r] = "pending" /\ status'[r] = "processing"
     /\ attempts[r] < MaxAttempts /\ attempts'[r] = attempts[r] + 1
     /\ accepted'[r] = accepted[r]
  \/ /\ status[r] = "processing" /\ status'[r] = status[r]
     /\ attempts'[r] = attempts[r]
     /\ accepted[r] < attempts[r] /\ accepted'[r] = accepted[r] + 1

LEMMA WorkerRowStep ==
  ASSUME IInv, NEW w \in Workers, Finish(w) \/ Interrupt(w), NEW q \in Rows
  PROVE  RowStep(q)
<1> DEFINE r == worker[w].row
<1>1. worker[w].pc # "idle"
  BY DEF Finish, ChannelOff, Accept, ConfirmSent, DeliveryFails, Interrupt
<1>2. r \in Rows /\ status[r] = "processing" /\ worker[w].pc \in {"claimed", "accepted"}
  BY <1>1, HeldType DEF IInv, Rest, HeldRow
<1>3. /\ worker[w].pc = "claimed" => accepted[r] < attempts[r]
      /\ worker[w].pc = "accepted" => accepted[r] > 0
  BY <1>1, <1>2 DEF IInv, Rest, HeldAccounted
<1>4. attempts[r] \in Nat
  BY <1>2 DEF IInv, TypeOK
<1>5. CASE Accept(w)
  BY <1>2, <1>3, <1>5 DEF Accept, RowStep, Alike, IInv, TypeOK, rowVars
<1>6. CASE Interrupt(w)
  BY <1>6 DEF Interrupt, RowStep, Alike, rowVars
<1>7. CASE ChannelOff(w) \/ ConfirmSent(w) \/ DeliveryFails(w)
  <2>1. PICK to \in {"pending", "sent", "failed"} :
          /\ status' = [status EXCEPT ![r] = to]
          /\ to = "sent" => accepted[r] > 0
    BY <1>3, <1>4, <1>7, OutboxAssumption
    DEF ChannelOff, ConfirmSent, DeliveryFails, Write, AfterFailure
  <2>2. attempts' = attempts /\ accepted' = accepted
    BY <1>7 DEF ChannelOff, ConfirmSent, DeliveryFails, histVars
  <2> QED
    BY <1>2, <2>1, <2>2 DEF RowStep, Alike, Turns, IInv, TypeOK
<1> QED
  BY <1>5, <1>6, <1>7 DEF Finish

LEMMA EveryRowStep == IInv /\ [Next]_vars => \A q \in Rows : RowStep(q)
<1> SUFFICES ASSUME IInv, [Next]_vars, NEW q \in Rows PROVE RowStep(q)
  OBVIOUS
<1>1. ASSUME NEW r \in Rows, Create(r) PROVE RowStep(q)
  BY <1>1 DEF Create, RowStep, Alike, Turns, histVars, IInv, TypeOK
<1>2. ASSUME NEW r \in Rows, Age(r) PROVE RowStep(q)
  BY <1>2 DEF Age, RowStep, Alike, histVars
<1>3. ASSUME NEW w \in Workers, NEW r \in Rows, NEW k \in Retries, Claim(w, r, k)
      PROVE  RowStep(q)
  <2>1. status[r] = "pending" /\ attempts[r] < MaxAttempts
    BY <1>3 DEF Claim, Claimable, IInv, Rest, Budgeted
  <2> QED
    BY <1>3, <2>1 DEF Claim, RowStep, Alike, histVars, IInv, TypeOK
<1>4. ASSUME NEW w \in Workers, NEW r \in Rows, NEW k \in Retries, Drop(w, r, k)
      PROVE  RowStep(q)
  BY <1>4 DEF Drop, RowStep, Alike, rowVars, histVars
<1>5. ASSUME NEW s \in Schedulers, ReapSelect(s) \/ ReapRollback(s) PROVE RowStep(q)
  BY <1>5 DEF ReapSelect, ReapRollback, RowStep, Alike, rowVars, histVars
<1>6. ASSUME NEW s \in Schedulers, ReapCommit(s) PROVE RowStep(q)
  <2>1. q \in reaper[s].park => status[q] \in {"processing", "failed"}
    BY DEF IInv, Rest, ParkedRow
  <2>2. /\ status'[q] = IF q \in reaper[s].park THEN "failed" ELSE status[q]
        /\ attempts' = attempts /\ accepted' = accepted
    BY <1>6 DEF ReapCommit, histVars
  <2> QED
    BY <2>1, <2>2 DEF RowStep, Alike, Turns
<1>7. ASSUME NEW r \in Rows, NEW k \in Retries, LoseMessage(r, k) PROVE RowStep(q)
  BY <1>7 DEF LoseMessage, RowStep, Alike, rowVars, histVars
<1>8. ASSUME UNCHANGED vars PROVE RowStep(q)
  BY <1>8 DEF vars, RowStep, Alike
<1> QED
  BY <1>1, <1>2, <1>3, <1>4, <1>5, <1>6, <1>7, <1>8, WorkerRowStep DEF Next

-----------------------------------------------------------------------------
(* The theorems.                                                           *)

\* Every variable keeps its type: in particular the statuses written to
\* notification_outbox are those of NotificationOutboxStatus.
THEOREM TypeCorrect == Spec => []TypeOK
<1>1. IInv => TypeOK
  BY DEF IInv
<1> QED
  BY <1>1, Invariance, PTL

\* Whatever the broker does with the messages of a row and however many reapers
\* re-send it, the claim of deliver_outbox_message lets one worker have the row.
THEOREM OneDelivererAtATime == Spec => []OneDeliverer
<1>1. IInv => OneDeliverer
  BY DEF IInv, Rest
<1> QED
  BY <1>1, Invariance, PTL

\* A row's message is sent again only after an acceptance the row was not told of.
THEOREM ResentOnlyUnconfirmed == Spec => []NoNeedlessResend
<1>1. IInv => NoNeedlessResend
  <2> SUFFICES ASSUME IInv, NEW r \in Rows PROVE accepted[r] <= 1 + unconfirmed[r]
    BY DEF NoNeedlessResend
  <2>1. accepted[r] \in Nat /\ unconfirmed[r] \in Nat
    BY DEF IInv, TypeOK
  <2>2. accepted[r] <= unconfirmed[r] + 1
    BY DEF IInv, Rest, Accounted
  <2> QED
    BY <2>1, <2>2
<1> QED
  BY <1>1, Invariance, PTL

\* OUTBOX_MAX_ATTEMPTS bounds the attempts of a row over all its messages.
THEOREM AttemptsNeverExceed == Spec => []AttemptsCapped
<1>1. IInv => AttemptsCapped
  BY DEF IInv, Rest, Budgeted, AttemptsCapped
<1> QED
  BY <1>1, Invariance, PTL

\* No late worker and no reaper acting on an old read overwrites SENT or FAILED.
THEOREM SettledForGood == Spec => SettledStays
<1>1. ASSUME IInv, [Next]_vars
      PROVE  [\A r \in Rows : status[r] \in {"sent", "failed"}
                                => status'[r] = status[r]]_vars
  <2>1. \A r \in Rows : RowStep(r)
    BY <1>1, EveryRowStep
  <2> QED
    BY <2>1 DEF RowStep, Alike, Turns
<1> QED
  BY <1>1, Invariance, PTL DEF Spec, SettledStays

\* Producer, workers, broker and reapers together implement DeliveryContract.
THEOREM Refinement == Spec => ImplementsContract
<1>1. Init => Contract!Start
  BY DEF Init, Contract!Start, Phase
<1>2. ASSUME IInv, [Next]_vars
      PROVE  [Contract!Step]_(Contract!contractVars)
  <2> SUFFICES ASSUME NEW r \in Rows
               PROVE  \/ Contract!Same(r) \/ Contract!Offer(r) \/ Contract!Attempt(r)
                      \/ Contract!Accept(r) \/ Contract!Return(r) \/ Contract!Settle(r)
    BY DEF Contract!Step
  <2>1. RowStep(r)
    BY <1>2, EveryRowStep
  <2>2. /\ Phase[r] = CASE status[r] = "none" -> "absent"
                        [] status[r] = "pending" -> "waiting"
                        [] status[r] = "processing" -> "trying"
                        [] OTHER -> status[r]
        /\ Phase'[r] = CASE status'[r] = "none" -> "absent"
                         [] status'[r] = "pending" -> "waiting"
                         [] status'[r] = "processing" -> "trying"
                         [] OTHER -> status'[r]
    BY DEF Phase
  <2> QED
    BY <2>1, <2>2
    DEF RowStep, Alike, Turns, Contract!Same, Contract!Offer, Contract!Attempt,
        Contract!Accept, Contract!Return, Contract!Settle, Contract!Move
<1> QED
  BY <1>1, <1>2, Invariance, PTL DEF Spec, ImplementsContract, Contract!Spec

=============================================================================
