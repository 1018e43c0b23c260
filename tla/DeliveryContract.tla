-------------------------- MODULE DeliveryContract --------------------------
(***************************************************************************)
(* What a producer may rely on about a message it has put in an outbox:    *)
(* one attempt at a time is under way, there are at most Budget attempts,  *)
(* the provider accepts the message at most once per attempt and never     *)
(* outside one, a message reported sent was accepted, and a message that   *)
(* is sent or given up stays so.  Any number of messages may move in one   *)
(* step (a clean-up handles a batch).                                      *)
(***************************************************************************)
EXTENDS Naturals

CONSTANTS Messages, Budget

VARIABLES
  state,      \* progress of each message
  tries,      \* attempts begun
  accepted    \* times the provider accepted it

contractVars == <<state, tries, accepted>>

States == {"absent", "waiting", "trying", "sent", "failed"}

Start ==
  /\ state = [m \in Messages |-> "absent"]
  /\ tries = [m \in Messages |-> 0]
  /\ accepted = [m \in Messages |-> 0]

Same(m) == state'[m] = state[m] /\ tries'[m] = tries[m] /\ accepted'[m] = accepted[m]

\* The message goes from state s to a state in T.
Move(m, s, T) ==
  /\ state[m] = s
  /\ state'[m] \in T
  /\ tries'[m] = tries[m]
  /\ accepted'[m] = accepted[m]

Offer(m)  == Move(m, "absent", {"waiting"})
Return(m) == Move(m, "trying", {"waiting", "failed"})
Settle(m) == accepted[m] > 0 /\ Move(m, "trying", {"sent"})

Attempt(m) ==
  /\ state[m] = "waiting"
  /\ tries[m] < Budget
  /\ state'[m] = "trying"
  /\ tries'[m] = tries[m] + 1
  /\ accepted'[m] = accepted[m]

Accept(m) ==
  /\ state[m] = "trying"
  /\ accepted[m] < tries[m]
  /\ accepted'[m] = accepted[m] + 1
  /\ state'[m] = state[m]
  /\ tries'[m] = tries[m]

Step ==
  \A m \in Messages :
    Same(m) \/ Offer(m) \/ Attempt(m) \/ Accept(m) \/ Return(m) \/ Settle(m)

Spec == Start /\ [][Step]_contractVars

=============================================================================
