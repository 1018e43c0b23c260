--------------------------- MODULE DramatiqProofs ---------------------------
(***************************************************************************)
(* What the operations of Dramatiq keep, for any rows and bounds.          *)
(***************************************************************************)
EXTENDS Dramatiq, TLAPS

\* Every operation on one row leaves at most MaxCopies messages of a kind.
LEMMA Messages ==
  ASSUME msgs \in [Rows -> [Retries -> 0..MaxCopies]],
         NEW r \in Rows, NEW k \in Retries
  PROVE  /\ Sent(r, k) \in [Rows -> [Retries -> 0..MaxCopies]]
         /\ Retried(r, k) \in [Rows -> [Retries -> 0..MaxCopies]]
         /\ msgs[r][k] > 0 => Taken(r, k) \in [Rows -> [Retries -> 0..MaxCopies]]
         /\ Unacknowledged(r, k) \subseteq [Rows -> [Retries -> 0..MaxCopies]]
<1>1. \A n \in 0..MaxCopies : AtMost(n) \in 0..MaxCopies
  BY BrokerAssumption DEF AtMost
<1>2. \A j \in Retries : Sent(r, j) \in [Rows -> [Retries -> 0..MaxCopies]]
  BY <1>1 DEF Sent
<1>3. Retried(r, k) \in [Rows -> [Retries -> 0..MaxCopies]]
  <2>1. CASE k < MaxRetries
    <3>1. k + 1 \in Retries
      BY <2>1, BrokerAssumption DEF Retries
    <3> QED
      BY <1>2, <2>1, <3>1 DEF Retried
  <2>2. CASE ~(k < MaxRetries)
    BY <2>2 DEF Retried
  <2> QED
    BY <2>1, <2>2
<1>4. msgs[r][k] > 0 => Taken(r, k) \in [Rows -> [Retries -> 0..MaxCopies]]
  BY BrokerAssumption DEF Taken
<1> QED
  BY <1>2, <1>3, <1>4 DEF Unacknowledged

\* And so does a message to each of some rows.
LEMMA MessagesOfAll ==
  ASSUME msgs \in [Rows -> [Retries -> 0..MaxCopies]], NEW S
  PROVE  SentAll(S) \in [Rows -> [Retries -> 0..MaxCopies]]
<1>1. \A n \in 0..MaxCopies : AtMost(n) \in 0..MaxCopies
  BY BrokerAssumption DEF AtMost
<1>2. 0 \in Retries
  BY BrokerAssumption DEF Retries
<1> QED
  BY <1>1, <1>2 DEF SentAll

=============================================================================
