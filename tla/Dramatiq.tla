------------------------------ MODULE Dramatiq ------------------------------
(***************************************************************************)
(* The broker as the delivery actors see it (workers/broker.py): for each  *)
(* row of an outbox, how many copies of its message wait, by the number of *)
(* retries already made.  An actor that raises is sent its message again   *)
(* until its retries are used up; one that returns has acknowledged it.    *)
(***************************************************************************)
EXTENDS Naturals

CONSTANTS
  Rows,          \* the rows a message may name
  MaxRetries,    \* max_retries of the actor
  MaxCopies      \* bound on equal messages in the broker

ASSUME BrokerAssumption ==
  /\ MaxRetries \in Nat
  /\ MaxCopies \in Nat \ {0}

VARIABLE msgs    \* copies of actor(row), by retries made

Retries == 0..MaxRetries

NoMessages == [r \in Rows |-> [k \in Retries |-> 0]]

\* A copy beyond the bound counts as lost, which the models allow anyway.
AtMost(n) == IF n < MaxCopies THEN n + 1 ELSE n

Sent(r, k) == [msgs EXCEPT ![r][k] = AtMost(@)]
Taken(r, k) == [msgs EXCEPT ![r][k] = @ - 1]

\* One fresh message for each row of S.
SentAll(S) ==
  [r \in Rows |-> IF r \in S THEN [msgs[r] EXCEPT ![0] = AtMost(@)] ELSE msgs[r]]

Retried(r, k) == IF k < MaxRetries THEN Sent(r, k + 1) ELSE msgs

\* What may become of the message of a worker that dies or is interrupted:
\* lost, redelivered or retried.
Unacknowledged(r, k) == {msgs, Sent(r, k), Retried(r, k)}

=============================================================================
